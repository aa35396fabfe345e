---------------------------- MODULE MeshRouting ----------------------------
(* Dimension-ordered routing (hw/floo_route_select.sv) in the mesh that      *)
(* floogen builds (floogen/model/graph.py): the journey of one flit from the *)
(* endpoint that injects it to the port it leaves the mesh by.  Routing has  *)
(* no state beyond the flit, so one flit at a time stands for all of them.   *)
(* Endpoints are attached to the local ports of the routers and, on the      *)
(* sides of the mesh listed in Sides, to the ports that face outwards.       *)
EXTENDS Integers

CONSTANTS
  NumX, NumY,     \* routers per row and per column
  NumLocal,       \* local ports of a router
  Sides,          \* sides of the mesh with endpoints
  RouteAlgo,      \* "XY" or "YX"
  XYRouteOpt      \* the connections that the algorithm never needs are left out

North == 0
East  == 1
South == 2
West  == 3
Eject == 4

Compass    == North .. West
LocalPorts == Eject .. Eject + NumLocal - 1

ASSUME MeshAssumption ==
  /\ NumX \in Nat \ {0}
  /\ NumY \in Nat \ {0}
  /\ NumLocal \in Nat \ {0}
  /\ Sides \subseteq Compass
  /\ RouteAlgo \in {"XY", "YX"}
  /\ XYRouteOpt \in BOOLEAN

(* XYDirections.to_coords and XYDirections.reverse. *)
ToX(port) == IF port = East THEN 1 ELSE IF port = West THEN -1 ELSE 0
ToY(port) == IF port = North THEN 1 ELSE IF port = South THEN -1 ELSE 0

reverse(port) ==
  CASE port = North -> South
    [] port = South -> North
    [] port = East  -> West
    [] port = West  -> East

Routers == [x : 0 .. NumX - 1, y : 0 .. NumY - 1]

Ports == [rt : Routers, port : Compass \cup LocalPorts]

Neighbour(p) == [x |-> p.rt.x + ToX(p.port), y |-> p.rt.y + ToY(p.port)]

(* The router ports with an endpoint. *)
Endpoints ==
  {ep \in Ports : \/ ep.port \in LocalPorts
                  \/ ep.port \in Sides /\ Neighbour(ep) \notin Routers}

(* The identifier of an endpoint: the coordinates of its router, one further *)
(* for an endpoint on a side, and the index of its local port.               *)
dst_id(ep) ==
  [x |-> ep.rt.x + ToX(ep.port), y |-> ep.rt.y + ToY(ep.port),
   port_id |-> IF ep.port \in LocalPorts THEN ep.port - Eject ELSE 0]

Horizontally(id, xy_id) == IF id.x < xy_id.x THEN West ELSE East
Vertically(id, xy_id)   == IF id.y < xy_id.y THEN South ELSE North

(* Mutants: the port index is missing; the dimension that comes first depends *)
(* on the destination.                                                       *)
LocalAtOnce(id, xy_id) ==
  IF id.x = xy_id.x /\ id.y = xy_id.y THEN Eject
  ELSE IF id.y = xy_id.y THEN Horizontally(id, xy_id) ELSE Vertically(id, xy_id)

NearestFirst(id, xy_id) ==
  IF id.x = xy_id.x /\ id.y = xy_id.y THEN Eject + id.port_id
  ELSE IF id.x = xy_id.x \/ (id.y # xy_id.y /\ id.y < id.x)
       THEN Vertically(id, xy_id) ELSE Horizontally(id, xy_id)

(* The output that a router selects for a flit. *)
route_sel_id(id, xy_id) ==
  IF id.x = xy_id.x /\ id.y = xy_id.y THEN Eject + id.port_id
  ELSE IF RouteAlgo = "XY"
       THEN IF id.x = xy_id.x THEN Vertically(id, xy_id) ELSE Horizontally(id, xy_id)
       ELSE IF id.y = xy_id.y THEN Horizontally(id, xy_id) ELSE Vertically(id, xy_id)

(* The connections through the crossbar that exist. *)
connected(in, out) ==
  /\ in # out
  /\ ~ (XYRouteOpt /\ RouteAlgo = "XY" /\ in \in {South, North} /\ out \in {East, West})
  /\ ~ (XYRouteOpt /\ RouteAlgo = "YX" /\ in \in {East, West} /\ out \in {North, South})
-----------------------------------------------------------------------------
VARIABLES
  src, dst,   \* the endpoints the flit comes from and is addressed to
  at,         \* the router port it is at ...
  inside,     \* ... waiting at the input, or having left through the output
  hops        \* the links between routers it has crossed

vars == <<src, dst, at, inside, hops>>

out_port == route_sel_id(dst_id(dst), at.rt)
exit     == [rt |-> at.rt, port |-> out_port]

(* The flit is to go on to another router, and the input there it waits for. *)
Onward == inside /\ out_port \in Compass /\ Neighbour(exit) \in Routers
wanted == [rt |-> Neighbour(exit), port |-> reverse(out_port)]

(* An endpoint injects a flit for another one. *)
Inject(s, d) ==
  /\ s # d
  /\ src' = s
  /\ dst' = d
  /\ at' = s
  /\ inside' = TRUE
  /\ hops' = 0

Init ==
  \E s, d \in Endpoints :
    /\ s # d
    /\ src = s
    /\ dst = d
    /\ at = s
    /\ inside = TRUE
    /\ hops = 0

NextFlit == ~ inside /\ \E s, d \in Endpoints : Inject(s, d)

(* A router forwards the flit to the next router. *)
Hop ==
  /\ Onward
  /\ connected(at.port, out_port)
  /\ at' = wanted
  /\ hops' = hops + 1
  /\ UNCHANGED <<src, dst, inside>>

(* It leaves through a local port, or through a port on the side of the mesh. *)
Leave ==
  /\ inside
  /\ connected(at.port, out_port)
  /\ \/ out_port \in LocalPorts
     \/ Neighbour(exit) \notin Routers
  /\ at' = exit
  /\ inside' = FALSE
  /\ UNCHANGED <<src, dst, hops>>

Next == NextFlit \/ Hop \/ Leave

Spec == Init /\ [][Next]_vars

-----------------------------------------------------------------------------
(* The flit is at a port of the mesh, between two endpoints. *)
TypeOK ==
  /\ src \in Endpoints
  /\ dst \in Endpoints
  /\ at \in Ports
  /\ inside \in BOOLEAN
  /\ hops \in Nat

(* The pairs of endpoints that the algorithm can serve.  With XY routing an  *)
(* endpoint on the east or west side is only reached from its own row, and   *)
(* without the connections that XYRouteOpt leaves out an endpoint on the     *)
(* north or south side only reaches its own column; YX routing likewise with *)
(* the dimensions exchanged.                                                 *)
Served(s, d) ==
  \/ /\ RouteAlgo = "XY"
     /\ d.port \in {East, West} => s.rt.y = d.rt.y
     /\ XYRouteOpt /\ s.port \in {North, South} => s.rt.x = d.rt.x /\ d.port \notin {East, West}
  \/ /\ RouteAlgo = "YX"
     /\ d.port \in {North, South} => s.rt.x = d.rt.x
     /\ XYRouteOpt /\ s.port \in {East, West} => s.rt.y = d.rt.y /\ d.port \notin {North, South}

(* A flit leaves the mesh nowhere but at its destination: no comparison of   *)
(* route_sel_id sends it past its row or column (hw/floo_route_select.sv).   *)
LeavesAtDestination == Served(src, dst) /\ ~ inside => at = dst

(* No flit is ever routed into a connection that does not exist, where it    *)
(* would block its input for ever (assertions XYDirectionNotAllowed and      *)
(* NoLoopback of hw/floo_router.sv).                                         *)
RoutesConnected == Served(src, dst) /\ inside => connected(at.port, out_port)

Distance(u, v) ==
  (IF u.x < v.x THEN v.x - u.x ELSE u.x - v.x) + (IF u.y < v.y THEN v.y - u.y ELSE u.y - v.y)

(* Routes are minimal: every hop brings the flit closer (the shortest paths  *)
(* of docs/floonoc/route_algos.md), for every pair of endpoints.             *)
Shortest ==
  inside => hops + Distance(at.rt, dst_id(dst)) = Distance(src.rt, dst_id(dst))

(* An order of the input channels that are fed by another router. *)
Rank(channel) ==
  IF RouteAlgo = "XY"
  THEN CASE channel.port = West  -> channel.rt.x
         [] channel.port = East  -> NumX - channel.rt.x
         [] channel.port = South -> NumX + NumY + channel.rt.y
         [] channel.port = North -> NumX + NumY + NumY - channel.rt.y
  ELSE CASE channel.port = South -> channel.rt.y
         [] channel.port = North -> NumY - channel.rt.y
         [] channel.port = West  -> NumX + NumY + channel.rt.x
         [] channel.port = East  -> NumX + NumY + NumX - channel.rt.x

(* The channel a flit waits for always comes after the one it is in, whatever *)
(* its source and destination, and whether or not the crossbar has the       *)
(* connection: channels that wait for each other never form a cycle          *)
(* ("deadlock-free by design since it cannot introduce any cycles",          *)
(* docs/floonoc/route_algos.md).                                             *)
NoCycles == Onward /\ hops > 0 => Rank(wanted) > Rank(at)
=============================================================================
