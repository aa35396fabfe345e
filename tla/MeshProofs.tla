----------------------------- MODULE MeshProofs -----------------------------
(***************************************************************************)
(* Proofs about the mesh and its links.                                     *)
(*                                                                         *)
(* MeshRouting: dimension-ordered routing is correct in meshes of every     *)
(* size, with any number of local ports and endpoints on any side.          *)
(*                                                                         *)
(* Collective: requests to a group and their answers, in meshes of every    *)
(* size, for every group and any number of requests.                        *)
(*                                                                         *)
(* VcArbiter, for every number of credits and depth of FIFO, towards a      *)
(* router, which returns a credit when a flit leaves its FIFO.              *)
(***************************************************************************)
EXTENDS Collective, VcArbiter, FiniteSetTheorems, SequenceTheorems, WellFoundedInduction, TLAPS

-----------------------------------------------------------------------------
(* Where flits are: MeshRouting *)

(* Where a flit of a given way of travelling can be: it never overshoots the *)
(* dimension it travels in, it has not left its first row (XY) or column     *)
(* (YX) while it travels in the first dimension, and it has arrived in that  *)
(* dimension when it travels in the second.                                  *)
OnPath ==
  LET id == dst_id(dst) IN
  /\ hops = 0 => at = src
  /\ hops > 0 =>
       /\ at.port \in Compass
       /\ at.port = West  => at.rt.x <= id.x
       /\ at.port = East  => at.rt.x >= id.x
       /\ at.port = South => at.rt.y <= id.y
       /\ at.port = North => at.rt.y >= id.y
       /\ RouteAlgo = "XY" => IF at.port \in {East, West} THEN at.rt.y = src.rt.y
                                                          ELSE at.rt.x = id.x
       /\ RouteAlgo = "YX" => IF at.port \in {East, West} THEN at.rt.y = id.y
                                                          ELSE at.rt.x = src.rt.x

IInv ==
  /\ TypeOK
  /\ src # dst
  /\ inside => OnPath
  /\ LeavesAtDestination
-----------------------------------------------------------------------------
(* Where endpoints are, and that the identifier tells their router from the  *)
(* outside of the mesh.                                                      *)
LEMMA EndpointFacts ==
  ASSUME NEW ep \in Endpoints
  PROVE  /\ ep \in Ports
         /\ ep.rt \in Routers
         /\ ep.port \in Compass \cup LocalPorts
         /\ ep = [rt |-> ep.rt, port |-> ep.port]
         /\ ep.rt = [x |-> ep.rt.x, y |-> ep.rt.y]
         /\ ep.rt.x \in 0 .. NumX - 1
         /\ ep.rt.y \in 0 .. NumY - 1
         /\ ep.port = East  => ep.rt.x = NumX - 1
         /\ ep.port = West  => ep.rt.x = 0
         /\ ep.port = North => ep.rt.y = NumY - 1
         /\ ep.port = South => ep.rt.y = 0
<1>1. /\ ep \in Ports
      /\ ep.rt \in Routers
      /\ ep.port \in Compass \cup LocalPorts
      /\ ep = [rt |-> ep.rt, port |-> ep.port]
  BY DEF Endpoints, Ports
<1>2. /\ ep.rt = [x |-> ep.rt.x, y |-> ep.rt.y]
      /\ ep.rt.x \in 0 .. NumX - 1
      /\ ep.rt.y \in 0 .. NumY - 1
  BY <1>1 DEF Routers
<1>3. ep.port \in Compass => Neighbour(ep) \notin Routers
  BY <1>1, MeshAssumption DEF Endpoints, Compass, LocalPorts, North, West, Eject
<1>4. /\ ep.port = East  => ep.rt.x = NumX - 1
      /\ ep.port = West  => ep.rt.x = 0
      /\ ep.port = North => ep.rt.y = NumY - 1
      /\ ep.port = South => ep.rt.y = 0
  BY <1>2, <1>3, MeshAssumption
     DEF Neighbour, Routers, ToX, ToY, Compass, North, East, South, West
<1>. QED  BY <1>1, <1>2, <1>4

(* What the selected output says about the destination. *)
LEMMA RouteFacts ==
  ASSUME NEW d \in Endpoints, NEW r \in Routers
  PROVE  LET id  == dst_id(d)
             out == route_sel_id(id, r)
         IN  /\ id.x \in Int /\ id.y \in Int
             /\ out \in Compass \cup LocalPorts
             /\ out \in LocalPorts => d = [rt |-> r, port |-> out]
             /\ out = East  => id.x > r.x /\ (RouteAlgo = "YX" => id.y = r.y)
             /\ out = West  => id.x < r.x /\ (RouteAlgo = "YX" => id.y = r.y)
             /\ out = North => id.y > r.y /\ (RouteAlgo = "XY" => id.x = r.x)
             /\ out = South => id.y < r.y /\ (RouteAlgo = "XY" => id.x = r.x)
<1>. DEFINE id  == dst_id(d)
            out == route_sel_id(id, r)
<1>. SUFFICES /\ id.x \in Int /\ id.y \in Int
              /\ out \in Compass \cup LocalPorts
              /\ out \in LocalPorts => d = [rt |-> r, port |-> out]
              /\ out = East  => id.x > r.x /\ (RouteAlgo = "YX" => id.y = r.y)
              /\ out = West  => id.x < r.x /\ (RouteAlgo = "YX" => id.y = r.y)
              /\ out = North => id.y > r.y /\ (RouteAlgo = "XY" => id.x = r.x)
              /\ out = South => id.y < r.y /\ (RouteAlgo = "XY" => id.x = r.x)
  OBVIOUS
<1>0. /\ d.port \in Compass \cup LocalPorts
      /\ d = [rt |-> d.rt, port |-> d.port]
      /\ d.rt = [x |-> d.rt.x, y |-> d.rt.y]
      /\ d.rt.x \in 0 .. NumX - 1
      /\ d.rt.y \in 0 .. NumY - 1
      /\ d.port = East  => d.rt.x = NumX - 1
      /\ d.port = West  => d.rt.x = 0
      /\ d.port = North => d.rt.y = NumY - 1
      /\ d.port = South => d.rt.y = 0
  BY EndpointFacts
<1>1. /\ id.port_id = IF d.port \in LocalPorts THEN d.port - Eject ELSE 0
      /\ id.x = d.rt.x + ToX(d.port)
      /\ id.y = d.rt.y + ToY(d.port)
  BY DEF dst_id
<1>. HIDE DEF id, out
<1>5. id.x \in Int /\ id.y \in Int
  BY <1>0, <1>1, MeshAssumption DEF ToX, ToY
<1>2. r.x \in 0 .. NumX - 1 /\ r.y \in 0 .. NumY - 1 /\ r = [x |-> r.x, y |-> r.y]
  BY DEF Routers
<1>3. CASE id.x = r.x /\ id.y = r.y
  <2>1. d.port \in LocalPorts
    BY <1>1, <1>5, <1>2, <1>3, <1>0, MeshAssumption
       DEF ToX, ToY, Compass, North, East, South, West
  <2>2. d.rt = r /\ out = d.port
    BY <1>1, <1>5, <1>2, <1>3, <2>1, <1>0, MeshAssumption
       DEF ToX, ToY, LocalPorts, out, route_sel_id, North, East, South, West, Eject
  <2>. QED
    BY <1>5, <2>1, <2>2, <1>3, <1>0, MeshAssumption
       DEF LocalPorts, Compass, North, East, South, West, Eject
<1>4. CASE ~ (id.x = r.x /\ id.y = r.y)
  <2>1. /\ out \in Compass
        /\ out = East  => id.x > r.x /\ (RouteAlgo = "YX" => id.y = r.y)
        /\ out = West  => id.x < r.x /\ (RouteAlgo = "YX" => id.y = r.y)
        /\ out = North => id.y > r.y /\ (RouteAlgo = "XY" => id.x = r.x)
        /\ out = South => id.y < r.y /\ (RouteAlgo = "XY" => id.x = r.x)
    BY <1>1, <1>5, <1>2, <1>4, MeshAssumption
       DEF out, route_sel_id, Horizontally, Vertically, Compass, North, East, South, West, Eject
  <2>. QED
    BY <1>5, <2>1, MeshAssumption DEF Compass, LocalPorts, North, West, Eject
<1>. QED  BY <1>3, <1>4

(* A route that leads out of the mesh leads to the side, the row or the      *)
(* column of the destination.                                                *)
LEMMA ExitFacts ==
  ASSUME NEW d \in Endpoints, NEW r \in Routers,
         route_sel_id(dst_id(d), r) \in Compass,
         Neighbour([rt |-> r, port |-> route_sel_id(dst_id(d), r)]) \notin Routers
  PROVE  /\ d.port = route_sel_id(dst_id(d), r)
         /\ d.port \in {East, West}   => d.rt.x = r.x /\ dst_id(d).y = d.rt.y
         /\ d.port \in {North, South} => d.rt.y = r.y /\ dst_id(d).x = d.rt.x
<1>. DEFINE id  == dst_id(d)
            out == route_sel_id(id, r)
<1>1. /\ d.port \in Compass \cup LocalPorts
      /\ d.rt.x \in 0 .. NumX - 1
      /\ d.rt.y \in 0 .. NumY - 1
      /\ d.port = East  => d.rt.x = NumX - 1
      /\ d.port = West  => d.rt.x = 0
      /\ d.port = North => d.rt.y = NumY - 1
      /\ d.port = South => d.rt.y = 0
      /\ id.x = d.rt.x + ToX(d.port)
      /\ id.y = d.rt.y + ToY(d.port)
  BY EndpointFacts DEF dst_id
<1>2. /\ out = East  => id.x > r.x
      /\ out = West  => id.x < r.x
      /\ out = North => id.y > r.y
      /\ out = South => id.y < r.y
  BY RouteFacts
<1>3. r.x \in 0 .. NumX - 1 /\ r.y \in 0 .. NumY - 1
  BY DEF Routers
<1>. HIDE DEF id
<1>4. /\ out = East  => r.x = NumX - 1
      /\ out = West  => r.x = 0
      /\ out = North => r.y = NumY - 1
      /\ out = South => r.y = 0
  <2>1. [x |-> r.x + ToX(out), y |-> r.y + ToY(out)] \notin Routers
    BY DEF Neighbour, id
  <2>. HIDE DEF out
  <2>. QED
    BY <1>3, <2>1, MeshAssumption DEF Routers, ToX, ToY, North, East, South, West
<1>5. out \in Compass
  BY DEF id
<1>. HIDE DEF out
<1>6. d.port = out
  <2>1. NumX \in Nat /\ NumY \in Nat
    BY MeshAssumption
  <2>2. /\ d.port # East  => ToX(d.port) \in {-1, 0}
        /\ d.port # West  => ToX(d.port) \in {0, 1}
        /\ d.port # North => ToY(d.port) \in {-1, 0}
        /\ d.port # South => ToY(d.port) \in {0, 1}
    BY DEF ToX, ToY, North, East, South, West
  <2>3. CASE out = East
    BY <2>1, <2>2, <2>3, <1>1, <1>2, <1>3, <1>4
  <2>4. CASE out = West
    BY <2>1, <2>2, <2>4, <1>1, <1>2, <1>3, <1>4
  <2>5. CASE out = North
    BY <2>1, <2>2, <2>5, <1>1, <1>2, <1>3, <1>4
  <2>6. CASE out = South
    BY <2>1, <2>2, <2>6, <1>1, <1>2, <1>3, <1>4
  <2>. QED  BY <1>5, <2>3, <2>4, <2>5, <2>6 DEF Compass, North, East, South, West
<1>7. /\ d.port \in {East, West}   => d.rt.x = r.x /\ id.y = d.rt.y
      /\ d.port \in {North, South} => d.rt.y = r.y /\ id.x = d.rt.x
  BY <1>1, <1>4, <1>6 DEF ToX, ToY, North, East, South, West
<1>. QED  BY <1>6, <1>7 DEF id, out
-----------------------------------------------------------------------------
LEMMA Injected ==
  ASSUME NEW s \in Endpoints, NEW d \in Endpoints, Inject(s, d)
  PROVE  IInv'
<1>1. TypeOK'
  BY EndpointFacts DEF Inject, TypeOK
<1>2. (src # dst)' /\ (inside => OnPath)' /\ LeavesAtDestination'
  BY DEF Inject, OnPath, LeavesAtDestination
<1>. QED  BY <1>1, <1>2 DEF IInv

LEMMA InitIInv == Init => IInv
<1>. SUFFICES ASSUME NEW s \in Endpoints, NEW d \in Endpoints, s # d,
                     src = s, dst = d, at = s, inside = TRUE, hops = 0
              PROVE  IInv
  BY DEF Init
<1>1. TypeOK
  BY EndpointFacts DEF TypeOK
<1>2. (src # dst) /\ (inside => OnPath) /\ LeavesAtDestination
  BY DEF OnPath, LeavesAtDestination
<1>. QED  BY <1>1, <1>2 DEF IInv

(* A hop moves the flit by one, in the direction it was routed. *)
LEMMA HopFacts ==
  ASSUME IInv, Hop
  PROVE  /\ at'.port = reverse(out_port)
         /\ at'.rt.x = at.rt.x + ToX(out_port)
         /\ at'.rt.y = at.rt.y + ToY(out_port)
         /\ at' \in Ports
         /\ dst_id(dst)' = dst_id(dst)
         /\ hops' = hops + 1 /\ hops' > 0
         /\ out_port \in Compass
<1>1. at' = [rt |-> Neighbour(exit), port |-> reverse(out_port)]
  BY DEF Hop, wanted
<1>2. Neighbour(exit) = [x |-> at.rt.x + ToX(out_port), y |-> at.rt.y + ToY(out_port)]
  BY DEF Neighbour, exit
<1>3. out_port \in Compass /\ reverse(out_port) \in Compass
  BY DEF Hop, Onward, reverse, Compass, North, East, South, West
<1>4. at' \in Ports
  BY <1>1, <1>3 DEF Hop, Onward, Ports
<1>5. hops' = hops + 1 /\ hops' > 0
  BY DEF Hop, IInv, TypeOK
<1>6. dst_id(dst)' = dst_id(dst)
  BY DEF Hop
<1>. QED  BY <1>1, <1>2, <1>3, <1>4, <1>5, <1>6

(* The direction a hop takes, and what it says about the destination. *)
LEMMA WantedDirection ==
  ASSUME IInv, Onward
  PROVE  LET id == dst_id(dst) IN
         /\ id.x \in Int /\ id.y \in Int
         /\ at.rt.x \in Nat /\ at.rt.y \in Nat /\ src.rt.x \in Nat /\ src.rt.y \in Nat
         /\ \/ /\ wanted.port = West  /\ id.x > at.rt.x
               /\ wanted.rt.x = at.rt.x + 1 /\ wanted.rt.y = at.rt.y
               /\ RouteAlgo = "YX" => id.y = at.rt.y
            \/ /\ wanted.port = East  /\ id.x < at.rt.x
               /\ wanted.rt.x = at.rt.x - 1 /\ wanted.rt.y = at.rt.y
               /\ RouteAlgo = "YX" => id.y = at.rt.y
            \/ /\ wanted.port = South /\ id.y > at.rt.y
               /\ wanted.rt.y = at.rt.y + 1 /\ wanted.rt.x = at.rt.x
               /\ RouteAlgo = "XY" => id.x = at.rt.x
            \/ /\ wanted.port = North /\ id.y < at.rt.y
               /\ wanted.rt.y = at.rt.y - 1 /\ wanted.rt.x = at.rt.x
               /\ RouteAlgo = "XY" => id.x = at.rt.x
<1>. DEFINE id == dst_id(dst)
<1>1. at.rt \in Routers /\ dst \in Endpoints /\ src \in Endpoints
  BY DEF IInv, TypeOK, Ports
<1>2. /\ at.rt.x \in Nat /\ at.rt.y \in Nat /\ src.rt.x \in Nat /\ src.rt.y \in Nat
  <2>1. src.rt \in Routers
    BY <1>1, EndpointFacts
  <2>. QED  BY <1>1, <2>1 DEF Routers
<1>3. /\ id.x \in Int /\ id.y \in Int
      /\ out_port = East  => id.x > at.rt.x /\ (RouteAlgo = "YX" => id.y = at.rt.y)
      /\ out_port = West  => id.x < at.rt.x /\ (RouteAlgo = "YX" => id.y = at.rt.y)
      /\ out_port = North => id.y > at.rt.y /\ (RouteAlgo = "XY" => id.x = at.rt.x)
      /\ out_port = South => id.y < at.rt.y /\ (RouteAlgo = "XY" => id.x = at.rt.x)
  BY <1>1, RouteFacts DEF out_port
<1>4. out_port \in {North, East, South, West}
  BY DEF Onward, Compass, North, East, South, West
<1>. HIDE DEF id
<1>5. /\ wanted.port = reverse(out_port)
      /\ wanted.rt.x = at.rt.x + ToX(out_port)
      /\ wanted.rt.y = at.rt.y + ToY(out_port)
  BY DEF wanted, Neighbour, exit
<1>6. CASE out_port = East
  BY <1>2, <1>3, <1>5, <1>6 DEF reverse, ToX, ToY, North, East, South, West, id
<1>7. CASE out_port = West
  BY <1>2, <1>3, <1>5, <1>7 DEF reverse, ToX, ToY, North, East, South, West, id
<1>8. CASE out_port = North
  BY <1>2, <1>3, <1>5, <1>8 DEF reverse, ToX, ToY, North, East, South, West, id
<1>9. CASE out_port = South
  BY <1>2, <1>3, <1>5, <1>9 DEF reverse, ToX, ToY, North, East, South, West, id
<1>. QED  BY <1>4, <1>6, <1>7, <1>8, <1>9

LEMMA HopDirection ==
  ASSUME IInv, Hop
  PROVE  LET id == dst_id(dst) IN
         /\ id.x \in Int /\ id.y \in Int
         /\ at.rt.x \in Nat /\ at.rt.y \in Nat /\ src.rt.x \in Nat /\ src.rt.y \in Nat
         /\ \/ /\ at'.port = West  /\ id.x > at.rt.x
               /\ at'.rt.x = at.rt.x + 1 /\ at'.rt.y = at.rt.y
               /\ RouteAlgo = "YX" => id.y = at.rt.y
            \/ /\ at'.port = East  /\ id.x < at.rt.x
               /\ at'.rt.x = at.rt.x - 1 /\ at'.rt.y = at.rt.y
               /\ RouteAlgo = "YX" => id.y = at.rt.y
            \/ /\ at'.port = South /\ id.y > at.rt.y
               /\ at'.rt.y = at.rt.y + 1 /\ at'.rt.x = at.rt.x
               /\ RouteAlgo = "XY" => id.x = at.rt.x
            \/ /\ at'.port = North /\ id.y < at.rt.y
               /\ at'.rt.y = at.rt.y - 1 /\ at'.rt.x = at.rt.x
               /\ RouteAlgo = "XY" => id.x = at.rt.x
<1>. QED  BY WantedDirection DEF Hop

LEMMA HopIInv == IInv /\ Hop => IInv'
<1>. SUFFICES ASSUME IInv, Hop PROVE IInv'
  OBVIOUS
<1>1. inside /\ inside' = inside /\ src' = src /\ dst' = dst
  BY DEF Hop, Onward
<1>2. TypeOK'
  BY <1>1, HopFacts DEF IInv, TypeOK
<1>3. (src # dst)' /\ LeavesAtDestination'
  BY <1>1 DEF IInv, LeavesAtDestination
<1>4. OnPath'
  <2>. DEFINE id == dst_id(dst)
  <2>1. id' = id /\ hops' > 0 /\ hops' # 0
    BY HopFacts DEF IInv, TypeOK
  <2>2. /\ hops = 0 => at = src
        /\ hops > 0 /\ RouteAlgo = "XY" =>
             IF at.port \in {East, West} THEN at.rt.y = src.rt.y ELSE at.rt.x = id.x
        /\ hops > 0 /\ RouteAlgo = "YX" =>
             IF at.port \in {East, West} THEN at.rt.y = id.y ELSE at.rt.x = src.rt.x
        /\ hops = 0 \/ hops > 0
    BY <1>1 DEF IInv, OnPath, TypeOK
  <2>3. /\ id.x \in Int /\ id.y \in Int
        /\ at.rt.x \in Nat /\ at.rt.y \in Nat /\ src.rt.x \in Nat /\ src.rt.y \in Nat
        /\ \/ /\ at'.port = West  /\ id.x > at.rt.x
              /\ at'.rt.x = at.rt.x + 1 /\ at'.rt.y = at.rt.y
              /\ RouteAlgo = "YX" => id.y = at.rt.y
           \/ /\ at'.port = East  /\ id.x < at.rt.x
              /\ at'.rt.x = at.rt.x - 1 /\ at'.rt.y = at.rt.y
              /\ RouteAlgo = "YX" => id.y = at.rt.y
           \/ /\ at'.port = South /\ id.y > at.rt.y
              /\ at'.rt.y = at.rt.y + 1 /\ at'.rt.x = at.rt.x
              /\ RouteAlgo = "XY" => id.x = at.rt.x
           \/ /\ at'.port = North /\ id.y < at.rt.y
              /\ at'.rt.y = at.rt.y - 1 /\ at'.rt.x = at.rt.x
              /\ RouteAlgo = "XY" => id.x = at.rt.x
    BY HopDirection
  <2>. HIDE DEF id
  <2>4. /\ at'.port \in Compass
        /\ at'.port = West  => at'.rt.x <= id.x
        /\ at'.port = East  => at'.rt.x >= id.x
        /\ at'.port = South => at'.rt.y <= id.y
        /\ at'.port = North => at'.rt.y >= id.y
    BY <2>3 DEF Compass, North, East, South, West
  <2>5. RouteAlgo = "XY" => IF at'.port \in {East, West} THEN at'.rt.y = src.rt.y
                                                         ELSE at'.rt.x = id.x
    BY <2>2, <2>3 DEF North, East, South, West
  <2>6. RouteAlgo = "YX" => IF at'.port \in {East, West} THEN at'.rt.y = id.y
                                                         ELSE at'.rt.x = src.rt.x
    BY <2>2, <2>3 DEF North, East, South, West
  <2>. QED
    BY <1>1, <2>1, <2>4, <2>5, <2>6 DEF OnPath, id
<1>. QED  BY <1>2, <1>3, <1>4 DEF IInv

LEMMA LeaveIInv == IInv /\ Leave => IInv'
<1>. SUFFICES ASSUME IInv, Leave PROVE IInv'
  OBVIOUS
<1>. DEFINE id == dst_id(dst)
<1>1. /\ inside /\ inside' = FALSE /\ src' = src /\ dst' = dst
      /\ hops' = hops /\ at' = exit
  BY DEF Leave
<1>2. at.rt \in Routers /\ dst \in Endpoints /\ src \in Endpoints
  BY DEF IInv, TypeOK, Ports
<1>3. out_port \in Compass \cup LocalPorts
  BY <1>2, RouteFacts DEF out_port
<1>4. TypeOK'
  BY <1>1, <1>2, <1>3 DEF IInv, TypeOK, exit, Ports
<1>5. LeavesAtDestination'
  <2>. SUFFICES ASSUME Served(src, dst) PROVE exit = dst
    BY <1>1 DEF LeavesAtDestination
  <2>1. CASE out_port \in LocalPorts
    BY <2>1, <1>2, RouteFacts DEF out_port, exit
  <2>2. CASE out_port \notin LocalPorts
    <3>1. out_port \in Compass /\ Neighbour(exit) \notin Routers
      BY <2>2, <1>3 DEF Leave
    <3>2. /\ dst.port = out_port
          /\ dst.port \in {East, West}   => dst.rt.x = at.rt.x /\ id.y = dst.rt.y
          /\ dst.port \in {North, South} => dst.rt.y = at.rt.y /\ id.x = dst.rt.x
      BY <1>2, <3>1, ExitFacts DEF out_port, exit
    <3>3. dst.rt.x = at.rt.x /\ dst.rt.y = at.rt.y
      <4>1. /\ out_port = East  => id.x > at.rt.x /\ (RouteAlgo = "YX" => id.y = at.rt.y)
            /\ out_port = West  => id.x < at.rt.x /\ (RouteAlgo = "YX" => id.y = at.rt.y)
            /\ out_port = North => id.y > at.rt.y /\ (RouteAlgo = "XY" => id.x = at.rt.x)
            /\ out_port = South => id.y < at.rt.y /\ (RouteAlgo = "XY" => id.x = at.rt.x)
            /\ id.x \in Int /\ id.y \in Int
        BY <1>2, RouteFacts DEF out_port
      <4>2. at.rt.x \in Int /\ at.rt.y \in Int
        BY <1>2 DEF Routers
      <4>3. /\ hops = 0 => at = src
            /\ hops > 0 /\ RouteAlgo = "XY" =>
                 IF at.port \in {East, West} THEN at.rt.y = src.rt.y ELSE at.rt.x = id.x
            /\ hops > 0 /\ RouteAlgo = "YX" =>
                 IF at.port \in {East, West} THEN at.rt.y = id.y ELSE at.rt.x = src.rt.x
            /\ hops = 0 \/ hops > 0
        BY <1>1 DEF IInv, OnPath, TypeOK
      <4>4. /\ RouteAlgo = "XY" /\ dst.port \in {East, West} => src.rt.y = dst.rt.y
            /\ RouteAlgo = "YX" /\ dst.port \in {North, South} => src.rt.x = dst.rt.x
            /\ RouteAlgo \in {"XY", "YX"}
        BY MeshAssumption DEF Served
      <4>5. out_port \in {North, East, South, West}
        BY <3>1 DEF Compass, North, East, South, West
      <4>. HIDE DEF id
      <4>6. CASE out_port \in {East, West}
        BY <3>2, <4>1, <4>2, <4>3, <4>4, <4>6 DEF North, East, South, West
      <4>7. CASE out_port \in {North, South}
        BY <3>2, <4>1, <4>2, <4>3, <4>4, <4>7 DEF North, East, South, West
      <4>. QED  BY <4>5, <4>6, <4>7
    <3>4. dst = [rt |-> dst.rt, port |-> dst.port] /\ dst.rt = [x |-> dst.rt.x, y |-> dst.rt.y]
      BY <1>2, EndpointFacts
    <3>5. at.rt = [x |-> at.rt.x, y |-> at.rt.y]
      BY <1>2 DEF Routers
    <3>. QED  BY <3>2, <3>3, <3>4, <3>5 DEF exit
  <2>. QED  BY <2>1, <2>2
<1>. QED  BY <1>1, <1>4, <1>5 DEF IInv

LEMMA StepIInv == IInv /\ [Next]_vars => IInv'
<1>1. CASE NextFlit
  BY <1>1, Injected DEF NextFlit
<1>2. CASE IInv /\ Hop
  BY <1>2, HopIInv
<1>3. CASE IInv /\ Leave
  BY <1>3, LeaveIInv
<1>4. CASE IInv /\ UNCHANGED vars
  BY <1>4 DEF IInv, TypeOK, OnPath, LeavesAtDestination, vars, out_port
<1>. QED  BY <1>1, <1>2, <1>3, <1>4 DEF Next
-----------------------------------------------------------------------------
(* The journey stays on the mesh and on its path. *)
THEOREM PathInvariant == Spec => []IInv
<1>. QED  BY InitIInv, StepIInv, PTL DEF Spec

(* The flit is always at a port of a router of the mesh: no route leads      *)
(* outside (hw/floo_route_select.sv, floogen/model/graph.py).                *)
THEOREM TypeCorrect == Spec => []TypeOK
<1>1. IInv => TypeOK
  BY DEF IInv
<1>. QED  BY <1>1, PathInvariant, PTL

(* In a mesh of any size a flit of a served pair leaves nowhere but at its   *)
(* destination (hw/floo_route_select.sv, XY and YX).                         *)
THEOREM Delivery == Spec => []LeavesAtDestination
<1>1. IInv => LeavesAtDestination
  BY DEF IInv
<1>. QED  BY <1>1, PathInvariant, PTL

LEMMA NoIllegalTurn == IInv => RoutesConnected
<1>. SUFFICES ASSUME IInv, Served(src, dst), inside PROVE connected(at.port, out_port)
  BY DEF RoutesConnected
<1>. DEFINE id == dst_id(dst)
<1>1. at.rt \in Routers /\ dst \in Endpoints /\ src \in Endpoints
  BY DEF IInv, TypeOK, Ports
<1>2. /\ out_port \in Compass \cup LocalPorts
      /\ out_port \in LocalPorts => dst = [rt |-> at.rt, port |-> out_port]
      /\ out_port = East  => id.x > at.rt.x /\ (RouteAlgo = "YX" => id.y = at.rt.y)
      /\ out_port = West  => id.x < at.rt.x /\ (RouteAlgo = "YX" => id.y = at.rt.y)
      /\ out_port = North => id.y > at.rt.y /\ (RouteAlgo = "XY" => id.x = at.rt.x)
      /\ out_port = South => id.y < at.rt.y /\ (RouteAlgo = "XY" => id.x = at.rt.x)
      /\ id.x \in Int /\ id.y \in Int
  BY <1>1, RouteFacts DEF out_port
<1>3. at.rt.x \in Int /\ at.rt.y \in Int
  BY <1>1 DEF Routers
<1>4. src # dst /\ (hops = 0 => at = src) /\ (hops = 0 \/ hops > 0)
  BY DEF IInv, OnPath, TypeOK
<1>5. CASE hops > 0
  <2>1. /\ at.port \in Compass
        /\ at.port = West  => at.rt.x <= id.x
        /\ at.port = East  => at.rt.x >= id.x
        /\ at.port = South => at.rt.y <= id.y
        /\ at.port = North => at.rt.y >= id.y
        /\ RouteAlgo = "XY" /\ at.port \in {North, South} => at.rt.x = id.x
        /\ RouteAlgo = "YX" /\ at.port \in {East, West} => at.rt.y = id.y
    BY <1>5 DEF IInv, OnPath, North, East, South, West
  <2>. HIDE DEF id
  <2>2. at.port # out_port
    BY <2>1, <1>2, <1>3 DEF Compass, North, East, South, West
  <2>. QED
    BY <2>1, <2>2, <1>2, <1>3 DEF connected
<1>6. CASE hops = 0
  <2>1. /\ src.rt = at.rt /\ src.port = at.port
        /\ src = [rt |-> src.rt, port |-> src.port]
        /\ dst = [rt |-> dst.rt, port |-> dst.port]
        /\ src.rt = [x |-> src.rt.x, y |-> src.rt.y]
        /\ dst.rt = [x |-> dst.rt.x, y |-> dst.rt.y]
    BY <1>1, <1>4, <1>6, EndpointFacts
  <2>2. at.port # out_port
    <3>. SUFFICES ASSUME at.port = out_port PROVE FALSE
      OBVIOUS
    <3>1. CASE out_port \in LocalPorts
      BY <3>1, <2>1, <1>2, <1>4
    <3>2. CASE out_port \in Compass
      <4>1. Neighbour(src) \notin Routers
        BY <3>2, <2>1, <1>1, MeshAssumption
           DEF Endpoints, Compass, LocalPorts, North, West, Eject
      <4>2. Neighbour([rt |-> at.rt, port |-> out_port]) \notin Routers
        BY <4>1, <2>1
      <4>3. /\ dst.port = out_port
            /\ dst.port \in {East, West}   => dst.rt.x = at.rt.x /\ id.y = dst.rt.y
            /\ dst.port \in {North, South} => dst.rt.y = at.rt.y /\ id.x = dst.rt.x
        BY <4>2, <3>2, <1>1, ExitFacts DEF out_port
      <4>4. /\ RouteAlgo = "XY" /\ dst.port \in {East, West} => src.rt.y = dst.rt.y
            /\ RouteAlgo = "YX" /\ dst.port \in {North, South} => src.rt.x = dst.rt.x
            /\ RouteAlgo \in {"XY", "YX"}
        BY MeshAssumption DEF Served
      <4>5. out_port \in {North, East, South, West}
        BY <3>2 DEF Compass, North, East, South, West
      <4>. HIDE DEF id
      <4>6. dst.rt.x = src.rt.x /\ dst.rt.y = src.rt.y
        BY <4>3, <4>4, <4>5, <2>1, <1>2
      <4>. QED  BY <4>3, <4>6, <2>1, <1>4
    <3>. QED  BY <3>1, <3>2, <1>2
  <2>3. ~ (XYRouteOpt /\ RouteAlgo = "XY" /\ at.port \in {South, North} /\ out_port \in {East, West})
    <3>. SUFFICES ASSUME XYRouteOpt, RouteAlgo = "XY", at.port \in {South, North}
                  PROVE  out_port \notin {East, West}
      OBVIOUS
    <3>1. src.rt.x = dst.rt.x /\ dst.port \notin {East, West}
      BY <2>1 DEF Served
    <3>2. id.x = dst.rt.x
      <4>1. dst.rt.x \in 0 .. NumX - 1 /\ id.x = dst.rt.x + ToX(dst.port)
        BY <1>1, EndpointFacts DEF dst_id, ToX
      <4>. HIDE DEF id
      <4>. QED  BY <4>1, <3>1 DEF ToX
    <3>. HIDE DEF id
    <3>. QED  BY <3>1, <3>2, <2>1, <1>2, <1>3
  <2>4. ~ (XYRouteOpt /\ RouteAlgo = "YX" /\ at.port \in {East, West} /\ out_port \in {North, South})
    <3>. SUFFICES ASSUME XYRouteOpt, RouteAlgo = "YX", at.port \in {East, West}
                  PROVE  out_port \notin {North, South}
      OBVIOUS
    <3>1. src.rt.y = dst.rt.y /\ dst.port \notin {North, South}
      BY <2>1 DEF Served
    <3>2. id.y = dst.rt.y
      <4>1. dst.rt.y \in 0 .. NumY - 1 /\ id.y = dst.rt.y + ToY(dst.port)
        BY <1>1, EndpointFacts DEF dst_id, ToX
      <4>. HIDE DEF id
      <4>. QED  BY <4>1, <3>1 DEF ToY
    <3>. HIDE DEF id
    <3>. QED  BY <3>1, <3>2, <2>1, <1>2, <1>3
  <2>. QED  BY <2>2, <2>3, <2>4 DEF connected
<1>. QED  BY <1>4, <1>5, <1>6

(* In a mesh of any size no flit of a served pair is routed into a connection *)
(* that does not exist (XYDirectionNotAllowed, YXDirectionNotAllowed and      *)
(* NoLoopback of hw/floo_router.sv).                                          *)
THEOREM LegalTurns == Spec => []RoutesConnected
<1>. QED  BY NoIllegalTurn, PathInvariant, PTL

(* Every hop brings the flit one closer to its destination. *)
LEMMA Closer ==
  ASSUME IInv, Hop, Shortest
  PROVE  Shortest'
<1>. DEFINE id == dst_id(dst)
<1>1. inside /\ src' = src /\ id' = id /\ hops' = hops + 1 /\ hops \in Nat
  BY HopFacts DEF Hop, Onward, IInv, TypeOK
<1>2. hops + Distance(at.rt, id) = Distance(src.rt, id)
  BY <1>1 DEF Shortest
<1>3. /\ id.x \in Int /\ id.y \in Int
      /\ at.rt.x \in Nat /\ at.rt.y \in Nat /\ src.rt.x \in Nat /\ src.rt.y \in Nat
      /\ \/ id.x > at.rt.x /\ at'.rt.x = at.rt.x + 1 /\ at'.rt.y = at.rt.y
         \/ id.x < at.rt.x /\ at'.rt.x = at.rt.x - 1 /\ at'.rt.y = at.rt.y
         \/ id.y > at.rt.y /\ at'.rt.y = at.rt.y + 1 /\ at'.rt.x = at.rt.x
         \/ id.y < at.rt.y /\ at'.rt.y = at.rt.y - 1 /\ at'.rt.x = at.rt.x
  BY HopDirection
<1>. HIDE DEF id
<1>4. 1 + Distance(at'.rt, id) = Distance(at.rt, id)
  BY <1>3 DEF Distance
<1>5. Distance(at'.rt, id) \in Int /\ Distance(at.rt, id) \in Int
  BY <1>3 DEF Distance
<1>6. hops' + Distance(at'.rt, id) = Distance(src.rt, id)
  BY <1>1, <1>2, <1>4, <1>5
<1>. QED  BY <1>1, <1>6 DEF Shortest, id

LEMMA AtTheSource ==
  ASSUME NEW s \in Endpoints, NEW d \in Endpoints
  PROVE  0 + Distance(s.rt, dst_id(d)) = Distance(s.rt, dst_id(d))
<1>1. s.rt \in Routers
  BY EndpointFacts
<1>2. dst_id(d).x \in Int /\ dst_id(d).y \in Int
  BY <1>1, RouteFacts
<1>3. s.rt.x \in Int /\ s.rt.y \in Int
  BY <1>1 DEF Routers
<1>. QED  BY <1>2, <1>3 DEF Distance

(* In a mesh of any size the routes are minimal                              *)
(* (hw/floo_route_select.sv).                                                *)
THEOREM MinimalRoutes == Spec => []Shortest
<1>1. Init => Shortest
  BY AtTheSource DEF Init, Shortest
<1>2. IInv /\ Shortest /\ [Next]_vars => Shortest'
  <2>1. CASE NextFlit
    BY <2>1, AtTheSource DEF NextFlit, Inject, Shortest
  <2>2. CASE IInv /\ Shortest /\ Hop
    BY <2>2, Closer
  <2>3. CASE Leave
    BY <2>3 DEF Leave, Shortest
  <2>4. CASE Shortest /\ UNCHANGED vars
    BY <2>4 DEF Shortest, vars
  <2>. QED  BY <2>1, <2>2, <2>3, <2>4 DEF Next
<1>. QED  BY <1>1, <1>2, PathInvariant, PTL DEF Spec

(* The channel a flit waits for is higher than the one it is in. *)
LEMMA Upwards ==
  ASSUME IInv, Onward, hops > 0
  PROVE  Rank(wanted) > Rank(at)
<1>. DEFINE id == dst_id(dst)
<1>1. /\ at.port \in {North, East, South, West}
      /\ at.port = West  => at.rt.x <= id.x
      /\ at.port = East  => at.rt.x >= id.x
      /\ at.port = South => at.rt.y <= id.y
      /\ at.port = North => at.rt.y >= id.y
      /\ RouteAlgo = "XY" /\ at.port \in {North, South} => at.rt.x = id.x
      /\ RouteAlgo = "YX" /\ at.port \in {East, West} => at.rt.y = id.y
  BY DEF Onward, IInv, OnPath, Compass, North, East, South, West
<1>2. /\ id.x \in Int /\ id.y \in Int
      /\ \/ /\ wanted.port = West  /\ id.x > at.rt.x
            /\ wanted.rt.x = at.rt.x + 1 /\ wanted.rt.y = at.rt.y
            /\ RouteAlgo = "YX" => id.y = at.rt.y
         \/ /\ wanted.port = East  /\ id.x < at.rt.x
            /\ wanted.rt.x = at.rt.x - 1 /\ wanted.rt.y = at.rt.y
            /\ RouteAlgo = "YX" => id.y = at.rt.y
         \/ /\ wanted.port = South /\ id.y > at.rt.y
            /\ wanted.rt.y = at.rt.y + 1 /\ wanted.rt.x = at.rt.x
            /\ RouteAlgo = "XY" => id.x = at.rt.x
         \/ /\ wanted.port = North /\ id.y < at.rt.y
            /\ wanted.rt.y = at.rt.y - 1 /\ wanted.rt.x = at.rt.x
            /\ RouteAlgo = "XY" => id.x = at.rt.x
  BY WantedDirection
<1>3. at.rt \in Routers
  BY DEF IInv, TypeOK, Ports
<1>4. at.rt.x \in 0 .. NumX - 1 /\ at.rt.y \in 0 .. NumY - 1
  BY <1>3 DEF Routers
<1>. HIDE DEF id
<1>5. CASE RouteAlgo = "XY"
  BY <1>1, <1>2, <1>4, <1>5, MeshAssumption DEF Rank, North, East, South, West
<1>6. CASE RouteAlgo = "YX"
  BY <1>1, <1>2, <1>4, <1>6, MeshAssumption DEF Rank, North, East, South, West
<1>. QED  BY <1>5, <1>6, MeshAssumption

(* In a mesh of any size, whatever the endpoints and with or without the     *)
(* optimised crossbar, the channel a flit waits for comes after the one it   *)
(* is in, so that no cycle of channels can wait for each other.              *)
THEOREM DeadlockFreeByDesign == Spec => []NoCycles
<1>1. IInv => NoCycles
  BY Upwards DEF NoCycles
<1>. QED  BY <1>1, PathInvariant, PTL

-----------------------------------------------------------------------------
(* Where the copies of a request and its answers are *)

(* A group of members: the rows and columns they are in, and who sends to them. *)
Groupings ==
  [src : Routers, xs : (SUBSET (0 .. NumX - 1)) \ {{}}, ys : (SUBSET (0 .. NumY - 1)) \ {{}}]

InGroup(g, m) == m \in Routers /\ m.x \in g.xs /\ m.y \in g.ys

(* A request at the input p is on its way to member m. *)
ReqCovers(g, p, m) ==
  /\ InGroup(g, m)
  /\ \/ p.port = Eject /\ p.rt = g.src
     \/ p.port = West  /\ g.src.x < p.rt.x /\ p.rt.x <= m.x
     \/ p.port = East  /\ g.src.x > p.rt.x /\ p.rt.x >= m.x
     \/ p.port = South /\ g.src.y < p.rt.y /\ p.rt.y <= m.y
     \/ p.port = North /\ g.src.y > p.rt.y /\ p.rt.y >= m.y
  /\ p.port \in Horizontal => p.rt.y = IF RouteAlgo = "XY" THEN g.src.y ELSE m.y
  /\ p.port \in Vertical   => p.rt.x = IF RouteAlgo = "XY" THEN m.x ELSE g.src.x

(* An answer at the input p stands for the one of member m, too. *)
AnsCovers(g, p, m) ==
  /\ InGroup(g, m)
  /\ \/ p.port = Eject /\ p.rt = m
     \/ p.port = East  /\ g.src.x <= p.rt.x /\ p.rt.x < m.x
     \/ p.port = West  /\ g.src.x >= p.rt.x /\ p.rt.x > m.x
     \/ p.port = North /\ g.src.y <= p.rt.y /\ p.rt.y < m.y
     \/ p.port = South /\ g.src.y >= p.rt.y /\ p.rt.y > m.y
  /\ p.port \in Horizontal => p.rt.y = IF RouteAlgo = "XY" THEN m.y ELSE g.src.y
  /\ p.port \in Vertical   => p.rt.x = IF RouteAlgo = "XY" THEN g.src.x ELSE m.x

Inputs == [rt : Routers, port : Compass \cup {Eject}]
Places == [kind : {"request", "accepted", "answer"}, at : Inputs]

Covers(g, pl, m) ==
  CASE pl.kind = "request"  -> ReqCovers(g, pl.at, m)
    [] pl.kind = "accepted" -> InGroup(g, m) /\ pl.at = [rt |-> m, port |-> Eject]
    [] pl.kind = "answer"   -> AnsCovers(g, pl.at, m)

(* The way of a request to a member and of the answer back, in steps. *)
Pos(g, pl) ==
  CASE pl.kind = "request"  -> Distance(g.src, pl.at.rt)
    [] pl.kind = "accepted" -> NumX + NumY + 1
    [] pl.kind = "answer"   -> 3 * (NumX + NumY) - Distance(g.src, pl.at.rt)

-----------------------------------------------------------------------------
(* Requests in order on every way *)

(* Requests 1 .. last that are not done are somewhere on the way to and from *)
(* each member, at one place, and in order: H[pl] are those at place pl.     *)
Located(g, H, sentReq, done) ==
  /\ H \in [Places -> SUBSET Nat]
  /\ \A pl \in Places : \A n \in H[pl] :
        n \in 1 .. sentReq /\ n \notin done /\ \E m \in Routers : Covers(g, pl, m)
  /\ \A n \in 1 .. sentReq : n \notin done =>
        \A m \in Routers : InGroup(g, m) => \E pl \in Places : n \in H[pl] /\ Covers(g, pl, m)
OnePlace(g, H) ==
  \A pl, pm \in Places : \A n \in H[pl] : n \in H[pm] =>
     \A m \in Routers : Covers(g, pl, m) /\ Covers(g, pm, m) => pl = pm
Ordered(g, H, done) ==
  /\ \A pl, pm \in Places : \A n \in H[pl], k \in H[pm] : n < k =>
        \A m \in Routers : Covers(g, pl, m) /\ Covers(g, pm, m) => Pos(g, pm) <= Pos(g, pl)
  /\ \A n \in Nat \ {0}, k \in done : n < k => n \in done

WayInv(g, H, sentReq, done) ==
  Located(g, H, sentReq, done) /\ OnePlace(g, H) /\ Ordered(g, H, done)


-----------------------------------------------------------------------------
(* Ways to members *)

(* Along a row or column. *)
Between(a, b, c) == (a <= b /\ b <= c) \/ (c <= b /\ b <= a)

LEMMA BetweenNear ==
    ASSUME NEW u, NEW v, NEW w,
           u.x \in Int, u.y \in Int, v.x \in Int, v.y \in Int, w.x \in Int, w.y \in Int,
           Between(u.x, v.x, w.x), Between(u.y, v.y, w.y)
    PROVE  Distance(u, v) <= Distance(u, w)
BY DEF Between, Distance

\* A router's place on the way tells how far it is.
LEMMA CoversNear ==
    ASSUME NEW g \in Groupings, NEW p \in Inputs, NEW m
    PROVE  /\ ReqCovers(g, p, m) => Distance(g.src, p.rt) <= Distance(g.src, m)
           /\ AnsCovers(g, p, m) => Distance(g.src, p.rt) <= Distance(g.src, m)
           /\ Distance(g.src, p.rt) \in 0 .. NumX + NumY - 2
<1>1. /\ p.rt.x \in 0 .. NumX - 1 /\ p.rt.y \in 0 .. NumY - 1
      /\ g.src.x \in 0 .. NumX - 1 /\ g.src.y \in 0 .. NumY - 1
      /\ InGroup(g, m) => m.x \in 0 .. NumX - 1 /\ m.y \in 0 .. NumY - 1
      /\ p.port \in Compass \cup {Eject}
      /\ NumX \in Nat /\ NumY \in Nat
  BY MeshAssumption DEF Inputs, Groupings, Routers, InGroup
<1>2. ASSUME ReqCovers(g, p, m)
      PROVE  Distance(g.src, p.rt) <= Distance(g.src, m)
  <2>1. /\ InGroup(g, m)
        /\ Between(g.src.x, p.rt.x, m.x)
        /\ Between(g.src.y, p.rt.y, m.y)
    BY <1>1, <1>2 DEF ReqCovers, Between, North, East, South, West, Eject, Horizontal, Vertical
  <2> QED
    BY <1>1, <2>1, BetweenNear
<1>3. ASSUME AnsCovers(g, p, m)
      PROVE  Distance(g.src, p.rt) <= Distance(g.src, m)
  <2>1. /\ InGroup(g, m)
        /\ Between(g.src.x, p.rt.x, m.x)
        /\ Between(g.src.y, p.rt.y, m.y)
    BY <1>1, <1>3 DEF AnsCovers, Between, North, East, South, West, Eject, Horizontal, Vertical
  <2> QED
    BY <1>1, <2>1, BetweenNear
<1>4. Distance(g.src, p.rt) \in 0 .. NumX + NumY - 2
  BY <1>1 DEF Distance
<1> QED
  BY <1>2, <1>3, <1>4

(* The routers on the way between u and v: along the row of u first, or along *)
(* its column.                                                                *)
RowFirst(u, v, rt) == (rt.y = u.y /\ Between(u.x, rt.x, v.x)) \/ (rt.x = v.x /\ Between(u.y, rt.y, v.y))
ColFirst(u, v, rt) == (rt.x = u.x /\ Between(u.y, rt.y, v.y)) \/ (rt.y = v.y /\ Between(u.x, rt.x, v.x))

Coordinates(rt) == rt.x \in Int /\ rt.y \in Int

\* Two routers on a way with one turn, at the same distance from its start.
LEMMA RowFirstUnique ==
    ASSUME NEW u, NEW v, NEW a, NEW b,
           Coordinates(u), Coordinates(v), Coordinates(a), Coordinates(b),
           RowFirst(u, v, a), RowFirst(u, v, b), Distance(u, a) = Distance(u, b)
    PROVE  a.x = b.x /\ a.y = b.y
<1>1. PICK ux \in Int, uy \in Int, vx \in Int, vy \in Int,
           ax \in Int, ay \in Int, bx \in Int, by \in Int :
         /\ ux = u.x /\ uy = u.y /\ vx = v.x /\ vy = v.y
         /\ ax = a.x /\ ay = a.y /\ bx = b.x /\ by = b.y
  BY DEF Coordinates
<1>2. ((ay = uy /\ Between(ux, ax, vx)) \/ (ax = vx /\ Between(uy, ay, vy)))
  BY <1>1 DEF RowFirst
<1>3. ((by = uy /\ Between(ux, bx, vx)) \/ (bx = vx /\ Between(uy, by, vy)))
  BY <1>1 DEF RowFirst
<1>4. (IF ux < ax THEN ax - ux ELSE ux - ax) + (IF uy < ay THEN ay - uy ELSE uy - ay)
      = (IF ux < bx THEN bx - ux ELSE ux - bx) + (IF uy < by THEN by - uy ELSE uy - by)
  BY <1>1 DEF Distance
<1>5. ASSUME ux <= vx /\ uy <= vy PROVE ax = bx /\ ay = by
  BY <1>2, <1>3, <1>4, <1>5 DEF Between
<1>6. ASSUME ux <= vx /\ uy > vy PROVE ax = bx /\ ay = by
  BY <1>2, <1>3, <1>4, <1>6 DEF Between
<1>7. ASSUME ux > vx /\ uy <= vy PROVE ax = bx /\ ay = by
  BY <1>2, <1>3, <1>4, <1>7 DEF Between
<1>8. ASSUME ux > vx /\ uy > vy PROVE ax = bx /\ ay = by
  BY <1>2, <1>3, <1>4, <1>8 DEF Between
<1> QED
  BY <1>1, <1>5, <1>6, <1>7, <1>8

LEMMA ColFirstUnique ==
    ASSUME NEW u, NEW v, NEW a, NEW b,
           Coordinates(u), Coordinates(v), Coordinates(a), Coordinates(b),
           ColFirst(u, v, a), ColFirst(u, v, b), Distance(u, a) = Distance(u, b)
    PROVE  a.x = b.x /\ a.y = b.y
<1>1. PICK ux \in Int, uy \in Int, vx \in Int, vy \in Int,
           ax \in Int, ay \in Int, bx \in Int, by \in Int :
         /\ ux = u.x /\ uy = u.y /\ vx = v.x /\ vy = v.y
         /\ ax = a.x /\ ay = a.y /\ bx = b.x /\ by = b.y
  BY DEF Coordinates
<1>2. ((ax = ux /\ Between(uy, ay, vy)) \/ (ay = vy /\ Between(ux, ax, vx)))
  BY <1>1 DEF ColFirst
<1>3. ((bx = ux /\ Between(uy, by, vy)) \/ (by = vy /\ Between(ux, bx, vx)))
  BY <1>1 DEF ColFirst
<1>4. (IF ux < ax THEN ax - ux ELSE ux - ax) + (IF uy < ay THEN ay - uy ELSE uy - ay)
      = (IF ux < bx THEN bx - ux ELSE ux - bx) + (IF uy < by THEN by - uy ELSE uy - by)
  BY <1>1 DEF Distance
<1>5. ASSUME ux <= vx /\ uy <= vy PROVE ax = bx /\ ay = by
  BY <1>2, <1>3, <1>4, <1>5 DEF Between
<1>6. ASSUME ux <= vx /\ uy > vy PROVE ax = bx /\ ay = by
  BY <1>2, <1>3, <1>4, <1>6 DEF Between
<1>7. ASSUME ux > vx /\ uy <= vy PROVE ax = bx /\ ay = by
  BY <1>2, <1>3, <1>4, <1>7 DEF Between
<1>8. ASSUME ux > vx /\ uy > vy PROVE ax = bx /\ ay = by
  BY <1>2, <1>3, <1>4, <1>8 DEF Between
<1> QED
  BY <1>1, <1>5, <1>6, <1>7, <1>8

(* The input by which the way of a request from u, or of an answer back to u *)
(* from v, enters a router.                                                  *)
Came(u, rt, row) ==
  IF rt.x = u.x /\ rt.y = u.y THEN Eject
  ELSE IF rt.y = u.y \/ (rt.x # u.x /\ ~row)
       THEN IF rt.x > u.x THEN West ELSE East
       ELSE IF rt.y > u.y THEN South ELSE North

LEMMA ReqShape ==
    ASSUME NEW g \in Groupings, NEW p \in Inputs, NEW m, ReqCovers(g, p, m)
    PROVE  /\ Coordinates(g.src) /\ Coordinates(m) /\ Coordinates(p.rt) /\ m \in Routers
           /\ RouteAlgo = "XY" => RowFirst(g.src, m, p.rt) /\ p.port = Came(g.src, p.rt, TRUE)
           /\ RouteAlgo # "XY" => ColFirst(g.src, m, p.rt) /\ p.port = Came(g.src, p.rt, FALSE)
<1>1. /\ Coordinates(g.src) /\ Coordinates(m) /\ Coordinates(p.rt) /\ m \in Routers
      /\ p.port \in Compass \cup {Eject}
  BY DEF Inputs, Groupings, Routers, InGroup, ReqCovers, Coordinates
<1>2. CASE RouteAlgo = "XY"
  <2>1. CASE p.port = Eject
    BY <1>1, <1>2, <2>1 DEF ReqCovers, RowFirst, Between, Came, North, East, South, West, Eject,
                         Horizontal, Vertical, Coordinates
  <2>2. CASE p.port = West
    BY <1>1, <1>2, <2>2 DEF ReqCovers, RowFirst, Between, Came, North, East, South, West, Eject,
                         Horizontal, Vertical, Coordinates
  <2>3. CASE p.port = East
    BY <1>1, <1>2, <2>3 DEF ReqCovers, RowFirst, Between, Came, North, East, South, West, Eject,
                         Horizontal, Vertical, Coordinates
  <2>4. CASE p.port = South
    BY <1>1, <1>2, <2>4 DEF ReqCovers, RowFirst, Between, Came, North, East, South, West, Eject,
                         Horizontal, Vertical, Coordinates
  <2>5. CASE p.port = North
    BY <1>1, <1>2, <2>5 DEF ReqCovers, RowFirst, Between, Came, North, East, South, West, Eject,
                         Horizontal, Vertical, Coordinates
  <2> QED
    <3>1. p.port = Eject \/ p.port = West \/ p.port = East \/ p.port = South \/ p.port = North
      BY <1>1 DEF Compass, North, East, South, West
    <3> QED
      BY <2>1, <2>2, <2>3, <2>4, <2>5, <3>1
<1>3. CASE RouteAlgo # "XY"
  <2>1. CASE p.port = Eject
    BY <1>1, <1>3, <2>1 DEF ReqCovers, ColFirst, Between, Came, North, East, South, West, Eject,
                         Horizontal, Vertical, Coordinates
  <2>2. CASE p.port = West
    BY <1>1, <1>3, <2>2 DEF ReqCovers, ColFirst, Between, Came, North, East, South, West, Eject,
                         Horizontal, Vertical, Coordinates
  <2>3. CASE p.port = East
    BY <1>1, <1>3, <2>3 DEF ReqCovers, ColFirst, Between, Came, North, East, South, West, Eject,
                         Horizontal, Vertical, Coordinates
  <2>4. CASE p.port = South
    BY <1>1, <1>3, <2>4 DEF ReqCovers, ColFirst, Between, Came, North, East, South, West, Eject,
                         Horizontal, Vertical, Coordinates
  <2>5. CASE p.port = North
    BY <1>1, <1>3, <2>5 DEF ReqCovers, ColFirst, Between, Came, North, East, South, West, Eject,
                         Horizontal, Vertical, Coordinates
  <2> QED
    <3>1. p.port = Eject \/ p.port = West \/ p.port = East \/ p.port = South \/ p.port = North
      BY <1>1 DEF Compass, North, East, South, West
    <3> QED
      BY <2>1, <2>2, <2>3, <2>4, <2>5, <3>1
<1> QED
  BY <1>1, <1>2, <1>3

LEMMA AnsShape ==
    ASSUME NEW g \in Groupings, NEW p \in Inputs, NEW m, AnsCovers(g, p, m)
    PROVE  /\ Coordinates(g.src) /\ Coordinates(m) /\ Coordinates(p.rt) /\ m \in Routers
           /\ RouteAlgo = "XY" => ColFirst(g.src, m, p.rt) /\ p.port = Came(m, p.rt, TRUE)
           /\ RouteAlgo # "XY" => RowFirst(g.src, m, p.rt) /\ p.port = Came(m, p.rt, FALSE)
<1>1. /\ Coordinates(g.src) /\ Coordinates(m) /\ Coordinates(p.rt) /\ m \in Routers
      /\ p.port \in Compass \cup {Eject}
  BY DEF Inputs, Groupings, Routers, InGroup, AnsCovers, Coordinates
<1>2. CASE RouteAlgo = "XY"
  <2>1. CASE p.port = Eject
    BY <1>1, <1>2, <2>1 DEF AnsCovers, ColFirst, Between, Came, North, East, South, West, Eject,
                         Horizontal, Vertical, Coordinates
  <2>2. CASE p.port = West
    BY <1>1, <1>2, <2>2 DEF AnsCovers, ColFirst, Between, Came, North, East, South, West, Eject,
                         Horizontal, Vertical, Coordinates
  <2>3. CASE p.port = East
    BY <1>1, <1>2, <2>3 DEF AnsCovers, ColFirst, Between, Came, North, East, South, West, Eject,
                         Horizontal, Vertical, Coordinates
  <2>4. CASE p.port = South
    BY <1>1, <1>2, <2>4 DEF AnsCovers, ColFirst, Between, Came, North, East, South, West, Eject,
                         Horizontal, Vertical, Coordinates
  <2>5. CASE p.port = North
    BY <1>1, <1>2, <2>5 DEF AnsCovers, ColFirst, Between, Came, North, East, South, West, Eject,
                         Horizontal, Vertical, Coordinates
  <2> QED
    <3>1. p.port = Eject \/ p.port = West \/ p.port = East \/ p.port = South \/ p.port = North
      BY <1>1 DEF Compass, North, East, South, West
    <3> QED
      BY <2>1, <2>2, <2>3, <2>4, <2>5, <3>1
<1>3. CASE RouteAlgo # "XY"
  <2>1. CASE p.port = Eject
    BY <1>1, <1>3, <2>1 DEF AnsCovers, RowFirst, Between, Came, North, East, South, West, Eject,
                         Horizontal, Vertical, Coordinates
  <2>2. CASE p.port = West
    BY <1>1, <1>3, <2>2 DEF AnsCovers, RowFirst, Between, Came, North, East, South, West, Eject,
                         Horizontal, Vertical, Coordinates
  <2>3. CASE p.port = East
    BY <1>1, <1>3, <2>3 DEF AnsCovers, RowFirst, Between, Came, North, East, South, West, Eject,
                         Horizontal, Vertical, Coordinates
  <2>4. CASE p.port = South
    BY <1>1, <1>3, <2>4 DEF AnsCovers, RowFirst, Between, Came, North, East, South, West, Eject,
                         Horizontal, Vertical, Coordinates
  <2>5. CASE p.port = North
    BY <1>1, <1>3, <2>5 DEF AnsCovers, RowFirst, Between, Came, North, East, South, West, Eject,
                         Horizontal, Vertical, Coordinates
  <2> QED
    <3>1. p.port = Eject \/ p.port = West \/ p.port = East \/ p.port = South \/ p.port = North
      BY <1>1 DEF Compass, North, East, South, West
    <3> QED
      BY <2>1, <2>2, <2>3, <2>4, <2>5, <3>1
<1> QED
  BY <1>1, <1>2, <1>3

\* Inputs are the same if their router and their port are.
LEMMA SameInput ==
    ASSUME NEW p \in Inputs, NEW q \in Inputs,
           p.rt.x = q.rt.x, p.rt.y = q.rt.y, p.port = q.port
    PROVE  p = q
<1>1. p.rt \in Routers /\ q.rt \in Routers
  BY DEF Inputs
<1>2. p.rt = q.rt
  BY <1>1 DEF Routers
<1> QED
  BY <1>2 DEF Inputs

\* On the way to a member there is one input at each distance.
LEMMA ReqUnique ==
    ASSUME NEW g \in Groupings, NEW p \in Inputs, NEW q \in Inputs, NEW m,
           ReqCovers(g, p, m), ReqCovers(g, q, m),
           Distance(g.src, p.rt) = Distance(g.src, q.rt)
    PROVE  p = q
<1>1. p.rt.x = q.rt.x /\ p.rt.y = q.rt.y
  <2>1. CASE RouteAlgo = "XY"
    <3>1. /\ Coordinates(g.src) /\ Coordinates(m) /\ Coordinates(p.rt) /\ Coordinates(q.rt)
          /\ RowFirst(g.src, m, p.rt) /\ RowFirst(g.src, m, q.rt)
      BY <2>1, ReqShape
    <3> QED
      BY <3>1, RowFirstUnique
  <2>2. CASE RouteAlgo # "XY"
    <3>1. /\ Coordinates(g.src) /\ Coordinates(m) /\ Coordinates(p.rt) /\ Coordinates(q.rt)
          /\ ColFirst(g.src, m, p.rt) /\ ColFirst(g.src, m, q.rt)
      BY <2>2, ReqShape
    <3> QED
      BY <3>1, ColFirstUnique
  <2> QED
    BY <2>1, <2>2
<1>2. p.port = q.port
  BY <1>1, ReqShape DEF Came
<1> QED
  BY <1>1, <1>2, SameInput

\* The same for the way back.
LEMMA AnsUnique ==
    ASSUME NEW g \in Groupings, NEW p \in Inputs, NEW q \in Inputs, NEW m,
           AnsCovers(g, p, m), AnsCovers(g, q, m),
           Distance(g.src, p.rt) = Distance(g.src, q.rt)
    PROVE  p = q
<1>1. p.rt.x = q.rt.x /\ p.rt.y = q.rt.y
  <2>1. CASE RouteAlgo = "XY"
    <3>1. /\ Coordinates(g.src) /\ Coordinates(m) /\ Coordinates(p.rt) /\ Coordinates(q.rt)
          /\ ColFirst(g.src, m, p.rt) /\ ColFirst(g.src, m, q.rt)
      BY <2>1, AnsShape
    <3> QED
      BY <3>1, ColFirstUnique
  <2>2. CASE RouteAlgo # "XY"
    <3>1. /\ Coordinates(g.src) /\ Coordinates(m) /\ Coordinates(p.rt) /\ Coordinates(q.rt)
          /\ RowFirst(g.src, m, p.rt) /\ RowFirst(g.src, m, q.rt)
      BY <2>2, AnsShape
    <3> QED
      BY <3>1, RowFirstUnique
  <2> QED
    BY <2>1, <2>2
<1>2. p.port = q.port
  BY <1>1, AnsShape DEF Came
<1> QED
  BY <1>1, <1>2, SameInput

\* Answers that are further on than those at a router, on the way of one of
\* them, stand for all that can be at that router.
LEMMA AnsJoin ==
    ASSUME NEW g \in Groupings, NEW p \in Inputs, NEW q \in Inputs, NEW r \in Inputs,
           NEW m, AnsCovers(g, p, m), AnsCovers(g, q, m),
           Distance(g.src, q.rt) < Distance(g.src, p.rt),
           r.rt = p.rt, NEW k, AnsCovers(g, r, k)
    PROVE  AnsCovers(g, q, k)
<1>1. /\ p.rt.x \in 0 .. NumX - 1 /\ p.rt.y \in 0 .. NumY - 1
      /\ q.rt.x \in 0 .. NumX - 1 /\ q.rt.y \in 0 .. NumY - 1
      /\ g.src.x \in 0 .. NumX - 1 /\ g.src.y \in 0 .. NumY - 1
      /\ m.x \in 0 .. NumX - 1 /\ m.y \in 0 .. NumY - 1
      /\ k.x \in 0 .. NumX - 1 /\ k.y \in 0 .. NumY - 1
      /\ g.src \in Routers /\ p.rt \in Routers /\ q.rt \in Routers
      /\ p.port \in Compass \cup {Eject} /\ q.port \in Compass \cup {Eject} /\ r.port \in Compass \cup {Eject}
  BY DEF Inputs, Groupings, Routers, InGroup, AnsCovers
<1>2. q.port # Eject
  <2>1. SUFFICES ASSUME q.port = Eject PROVE FALSE
    OBVIOUS
  <2>2. q.rt = m
    BY <2>1 DEF AnsCovers, North, East, South, West, Eject
  <2>3. /\ Distance(g.src, p.rt) <= Distance(g.src, m)
        /\ Distance(g.src, p.rt) \in Int /\ Distance(g.src, q.rt) \in Int
    BY CoversNear, MeshAssumption
  <2> QED
    BY <2>2, <2>3
<1>3. /\ q.port \in Horizontal \/ q.port \in Vertical
      /\ p.port \in Horizontal \/ p.port \in Vertical \/ p.port = Eject
      /\ r.port \in Horizontal \/ r.port \in Vertical \/ r.port = Eject
  BY <1>1, <1>2 DEF Compass, Horizontal, Vertical, North, East, South, West, Eject
<1>4. CASE q.port = East
  <2>1. CASE RouteAlgo = "XY"
    <3>1. CASE r.port \in Horizontal
      BY <1>1, <1>3, <1>4, <2>1, <3>1 DEF AnsCovers, Distance, North, East, South, West, Eject, Horizontal, Vertical
    <3>2. CASE r.port \in Vertical
      BY <1>1, <1>3, <1>4, <2>1, <3>2 DEF AnsCovers, Distance, North, East, South, West, Eject, Horizontal, Vertical
    <3>3. CASE r.port = Eject
      BY <1>1, <1>3, <1>4, <2>1, <3>3 DEF AnsCovers, Distance, North, East, South, West, Eject, Horizontal, Vertical
    <3> QED
      BY <1>3, <3>1, <3>2, <3>3
  <2>2. CASE RouteAlgo # "XY"
    <3>1. CASE r.port \in Horizontal
      BY <1>1, <1>3, <1>4, <2>2, <3>1 DEF AnsCovers, Distance, North, East, South, West, Eject, Horizontal, Vertical
    <3>2. CASE r.port \in Vertical
      BY <1>1, <1>3, <1>4, <2>2, <3>2 DEF AnsCovers, Distance, North, East, South, West, Eject, Horizontal, Vertical
    <3>3. CASE r.port = Eject
      BY <1>1, <1>3, <1>4, <2>2, <3>3 DEF AnsCovers, Distance, North, East, South, West, Eject, Horizontal, Vertical
    <3> QED
      BY <1>3, <3>1, <3>2, <3>3
  <2> QED
    BY <2>1, <2>2
<1>5. CASE q.port = West
  <2>1. CASE RouteAlgo = "XY"
    <3>1. CASE r.port \in Horizontal
      BY <1>1, <1>3, <1>5, <2>1, <3>1 DEF AnsCovers, Distance, North, East, South, West, Eject, Horizontal, Vertical
    <3>2. CASE r.port \in Vertical
      BY <1>1, <1>3, <1>5, <2>1, <3>2 DEF AnsCovers, Distance, North, East, South, West, Eject, Horizontal, Vertical
    <3>3. CASE r.port = Eject
      BY <1>1, <1>3, <1>5, <2>1, <3>3 DEF AnsCovers, Distance, North, East, South, West, Eject, Horizontal, Vertical
    <3> QED
      BY <1>3, <3>1, <3>2, <3>3
  <2>2. CASE RouteAlgo # "XY"
    <3>1. CASE r.port \in Horizontal
      BY <1>1, <1>3, <1>5, <2>2, <3>1 DEF AnsCovers, Distance, North, East, South, West, Eject, Horizontal, Vertical
    <3>2. CASE r.port \in Vertical
      BY <1>1, <1>3, <1>5, <2>2, <3>2 DEF AnsCovers, Distance, North, East, South, West, Eject, Horizontal, Vertical
    <3>3. CASE r.port = Eject
      BY <1>1, <1>3, <1>5, <2>2, <3>3 DEF AnsCovers, Distance, North, East, South, West, Eject, Horizontal, Vertical
    <3> QED
      BY <1>3, <3>1, <3>2, <3>3
  <2> QED
    BY <2>1, <2>2
<1>6. CASE q.port = North
  <2>1. CASE RouteAlgo = "XY"
    <3>1. CASE r.port \in Horizontal
      BY <1>1, <1>3, <1>6, <2>1, <3>1 DEF AnsCovers, Distance, North, East, South, West, Eject, Horizontal, Vertical
    <3>2. CASE r.port \in Vertical
      BY <1>1, <1>3, <1>6, <2>1, <3>2 DEF AnsCovers, Distance, North, East, South, West, Eject, Horizontal, Vertical
    <3>3. CASE r.port = Eject
      BY <1>1, <1>3, <1>6, <2>1, <3>3 DEF AnsCovers, Distance, North, East, South, West, Eject, Horizontal, Vertical
    <3> QED
      BY <1>3, <3>1, <3>2, <3>3
  <2>2. CASE RouteAlgo # "XY"
    <3>1. CASE r.port \in Horizontal
      BY <1>1, <1>3, <1>6, <2>2, <3>1 DEF AnsCovers, Distance, North, East, South, West, Eject, Horizontal, Vertical
    <3>2. CASE r.port \in Vertical
      BY <1>1, <1>3, <1>6, <2>2, <3>2 DEF AnsCovers, Distance, North, East, South, West, Eject, Horizontal, Vertical
    <3>3. CASE r.port = Eject
      <4>1. k = p.rt /\ q.rt.x = m.x /\ g.src.y <= q.rt.y /\ q.rt.y < m.y /\ InGroup(g, k)
        BY <1>1, <1>6, <2>2, <3>3 DEF AnsCovers, North, East, South, West, Eject, Horizontal, Vertical
      <4>2. p.rt.x = m.x /\ p.rt.y > q.rt.y
        <5>1. CASE p.port = Eject
          BY <1>1, <4>1, <5>1 DEF AnsCovers, North, East, South, West, Eject
        <5>2. CASE p.port \in Vertical
          BY <1>1, <2>2, <4>1, <5>2 DEF AnsCovers, Distance, North, East, South, West, Eject, Horizontal, Vertical
        <5>3. CASE p.port \in Horizontal
          BY <1>1, <2>2, <4>1, <5>3 DEF AnsCovers, Distance, North, East, South, West, Eject, Horizontal, Vertical
        <5> QED
          BY <1>3, <5>1, <5>2, <5>3
      <4> QED
        BY <1>1, <1>6, <2>2, <4>1, <4>2 DEF AnsCovers, North, East, South, West, Eject, Horizontal, Vertical
    <3> QED
      BY <1>3, <3>1, <3>2, <3>3
  <2> QED
    BY <2>1, <2>2
<1>7. CASE q.port = South
  <2>1. CASE RouteAlgo = "XY"
    <3>1. CASE r.port \in Horizontal
      BY <1>1, <1>3, <1>7, <2>1, <3>1 DEF AnsCovers, Distance, North, East, South, West, Eject, Horizontal, Vertical
    <3>2. CASE r.port \in Vertical
      BY <1>1, <1>3, <1>7, <2>1, <3>2 DEF AnsCovers, Distance, North, East, South, West, Eject, Horizontal, Vertical
    <3>3. CASE r.port = Eject
      BY <1>1, <1>3, <1>7, <2>1, <3>3 DEF AnsCovers, Distance, North, East, South, West, Eject, Horizontal, Vertical
    <3> QED
      BY <1>3, <3>1, <3>2, <3>3
  <2>2. CASE RouteAlgo # "XY"
    <3>1. CASE r.port \in Horizontal
      BY <1>1, <1>3, <1>7, <2>2, <3>1 DEF AnsCovers, Distance, North, East, South, West, Eject, Horizontal, Vertical
    <3>2. CASE r.port \in Vertical
      BY <1>1, <1>3, <1>7, <2>2, <3>2 DEF AnsCovers, Distance, North, East, South, West, Eject, Horizontal, Vertical
    <3>3. CASE r.port = Eject
      BY <1>1, <1>3, <1>7, <2>2, <3>3 DEF AnsCovers, Distance, North, East, South, West, Eject, Horizontal, Vertical
    <3> QED
      BY <1>3, <3>1, <3>2, <3>3
  <2> QED
    BY <2>1, <2>2
<1> QED
  BY <1>3, <1>4, <1>5, <1>6, <1>7 DEF Horizontal, Vertical


-----------------------------------------------------------------------------
(* Places on the way *)

LEMMA PlaceUnique ==
    ASSUME NEW g \in Groupings, NEW pl \in Places, NEW pm \in Places, NEW m \in Routers,
           Covers(g, pl, m), Covers(g, pm, m), Pos(g, pl) = Pos(g, pm)
    PROVE  pl = pm
<1>1. /\ pl.at \in Inputs /\ pm.at \in Inputs
      /\ pl.kind \in {"request", "accepted", "answer"} /\ pm.kind \in {"request", "accepted", "answer"}
  BY DEF Places
<1>2. /\ Distance(g.src, pl.at.rt) \in 0 .. NumX + NumY - 2
      /\ Distance(g.src, pm.at.rt) \in 0 .. NumX + NumY - 2
      /\ NumX \in Nat \ {0} /\ NumY \in Nat \ {0}
  BY <1>1, CoversNear, MeshAssumption
<1>3. /\ pl.kind = "request" => Pos(g, pl) = Distance(g.src, pl.at.rt)
      /\ pl.kind = "accepted" => Pos(g, pl) = NumX + NumY + 1
      /\ pl.kind = "answer" => Pos(g, pl) = 3 * (NumX + NumY) - Distance(g.src, pl.at.rt)
  BY DEF Pos
<1>4. /\ pm.kind = "request" => Pos(g, pm) = Distance(g.src, pm.at.rt)
      /\ pm.kind = "accepted" => Pos(g, pm) = NumX + NumY + 1
      /\ pm.kind = "answer" => Pos(g, pm) = 3 * (NumX + NumY) - Distance(g.src, pm.at.rt)
  BY DEF Pos
<1>5. pl.kind = pm.kind
  BY <1>1, <1>2, <1>3, <1>4
<1>6. pl.at = pm.at
  <2>1. CASE pl.kind = "request"
    BY <1>1, <1>3, <1>4, <1>5, <2>1, ReqUnique DEF Covers
  <2>2. CASE pl.kind = "accepted"
    BY <1>5, <2>2 DEF Covers
  <2>3. CASE pl.kind = "answer"
    <3>1. Distance(g.src, pl.at.rt) = Distance(g.src, pm.at.rt)
      BY <1>2, <1>3, <1>4, <1>5, <2>3
    <3> QED
      BY <1>1, <1>5, <2>3, <3>1, AnsUnique DEF Covers
  <2> QED
    BY <1>1, <2>1, <2>2, <2>3
<1> QED
  BY <1>5, <1>6 DEF Places

LEMMA PosType ==
    ASSUME NEW g \in Groupings, NEW pl \in Places
    PROVE  Pos(g, pl) \in 0 .. 3 * (NumX + NumY)
<1>1. pl.at \in Inputs /\ pl.kind \in {"request", "accepted", "answer"}
  BY DEF Places
<1>2. /\ Distance(g.src, pl.at.rt) \in 0 .. NumX + NumY - 2
      /\ NumX \in Nat \ {0} /\ NumY \in Nat \ {0}
  BY <1>1, CoversNear, MeshAssumption
<1> QED
  BY <1>1, <1>2 DEF Pos

LEMMA CoversGroup ==
    ASSUME NEW g, NEW pl \in Places, NEW m, Covers(g, pl, m)
    PROVE  InGroup(g, m) /\ m \in Routers
BY DEF Covers, ReqCovers, AnsCovers, InGroup, Places

-----------------------------------------------------------------------------
(* Steps on the way *)

(* Request n leaves the places in F, where it is the first one, for those in T. *)
Shift(H, F, T, n) ==
  [pl \in Places |-> (IF pl \in F THEN H[pl] \ {n} ELSE H[pl]) \cup (IF pl \in T THEN {n} ELSE {})]

First(H, F, n) == F \subseteq Places /\ \A f \in F : n \in H[f] /\ \A k \in H[f] : n <= k

(* The places in T are those that follow the ones in F. *)
Follows(g, F, T) ==
  /\ F \subseteq Places /\ T \subseteq Places
  /\ \A m \in Routers : (\E f \in F : Covers(g, f, m)) <=> (\E t \in T : Covers(g, t, m))
  /\ \A t \in T : \E m \in Routers : Covers(g, t, m)
  /\ \A t, u \in T, m \in Routers : Covers(g, t, m) /\ Covers(g, u, m) => t = u
  /\ \A f \in F, t \in T, m \in Routers : Covers(g, f, m) /\ Covers(g, t, m) =>
        /\ Pos(g, f) < Pos(g, t)
        /\ \A pl \in Places : Covers(g, pl, m) /\ Pos(g, f) < Pos(g, pl) => Pos(g, t) <= Pos(g, pl)

LEMMA ShiftKeeps ==
    ASSUME NEW g \in Groupings, NEW H, NEW s \in Nat, NEW done, WayInv(g, H, s, done),
           NEW F, NEW T, NEW n, First(H, F, n), F # {}, Follows(g, F, T)
    PROVE  /\ WayInv(g, Shift(H, F, T, n), s, done)
           /\ \A t \in T : \A k \in H[t] : k < n
<1> DEFINE G == Shift(H, F, T, n)
<1>1. /\ H \in [Places -> SUBSET Nat]
      /\ \A pl \in Places : \A k \in H[pl] :
            k \in 1 .. s /\ k \notin done /\ \E m \in Routers : Covers(g, pl, m)
      /\ \A k \in 1 .. s : k \notin done =>
            \A m \in Routers : InGroup(g, m) => \E pl \in Places : k \in H[pl] /\ Covers(g, pl, m)
  BY DEF WayInv, Located
<1>2. \A pl, pm \in Places : \A k \in H[pl] : k \in H[pm] =>
         \A m \in Routers : Covers(g, pl, m) /\ Covers(g, pm, m) => pl = pm
  BY DEF WayInv, OnePlace
<1>3. \A pl, pm \in Places : \A j \in H[pl], k \in H[pm] : j < k =>
        \A m \in Routers : Covers(g, pl, m) /\ Covers(g, pm, m) => Pos(g, pm) <= Pos(g, pl)
  BY DEF WayInv, Ordered
<1>4. F \subseteq Places /\ T \subseteq Places /\ n \in Nat /\ n \in 1 .. s /\ n \notin done
      /\ \A f \in F : n \in H[f] /\ \A k \in H[f] : n <= k
  BY <1>1 DEF First, Follows
<1>5. \A pl \in Places : Pos(g, pl) \in Int
  BY PosType
<1>6. G = [pl \in Places |-> (IF pl \in F THEN H[pl] \ {n} ELSE H[pl]) \cup (IF pl \in T THEN {n} ELSE {})]
  BY DEF Shift
<1> HIDE DEF G
\* Where request n was, it is no longer, and where it comes it covers what it did.
<1>7. \A pl \in Places : \A k : k # n => (k \in G[pl] <=> k \in H[pl])
  BY <1>6
<1>8. ASSUME NEW pl \in Places
      PROVE  n \in G[pl] <=> pl \in T \/ (n \in H[pl] /\ pl \notin F)
  BY <1>6
<1>9. ASSUME NEW t \in T, NEW k \in H[t]
      PROVE  k < n
  <2>1. PICK m \in Routers : Covers(g, t, m)
    BY <1>9 DEF Follows
  <2>2. PICK f \in F : Covers(g, f, m)
    BY <1>9, <2>1 DEF Follows
  <2>3. Pos(g, f) < Pos(g, t) /\ f \in Places /\ t \in Places /\ n \in H[f]
    BY <1>4, <1>9, <2>1, <2>2 DEF Follows
  <2>4. k \in Nat /\ k \in H[t]
    BY <1>1, <1>4, <1>9
  <2>5. k # n
    BY <1>2, <1>5, <1>9, <2>1, <2>2, <2>3
  <2>6. ~(n < k)
    BY <1>3, <1>5, <1>9, <2>1, <2>2, <2>3
  <2> QED
    BY <1>4, <2>4, <2>5, <2>6
<1>10. Located(g, G, s, done)
  <2>1. G \in [Places -> SUBSET Nat]
    BY <1>1, <1>4, <1>6
  <2>2. ASSUME NEW pl \in Places, NEW k \in G[pl]
        PROVE  k \in 1 .. s /\ k \notin done /\ \E m \in Routers : Covers(g, pl, m)
    <3>1. CASE k # n
      BY <1>1, <1>7, <2>2, <3>1
    <3>2. CASE k = n /\ pl \in T
      BY <1>4, <3>2 DEF Follows
    <3>3. CASE k = n /\ n \in H[pl]
      BY <1>1, <3>3
    <3> QED
      BY <1>8, <2>2, <3>1, <3>2, <3>3
  <2>3. ASSUME NEW k \in 1 .. s, k \notin done, NEW m \in Routers, InGroup(g, m)
        PROVE  \E pl \in Places : k \in G[pl] /\ Covers(g, pl, m)
    <3>1. PICK pl \in Places : k \in H[pl] /\ Covers(g, pl, m)
      BY <1>1, <2>3
    <3>2. CASE k # n
      BY <1>7, <3>1, <3>2
    <3>3. CASE k = n /\ pl \notin F
      BY <1>8, <3>1, <3>3
    <3>4. CASE k = n /\ pl \in F
      <4>1. PICK t \in T : Covers(g, t, m)
        BY <3>1, <3>4 DEF Follows
      <4> QED
        BY <1>4, <1>8, <3>4, <4>1
    <3> QED
      BY <3>2, <3>3, <3>4
  <2> QED
    BY <2>1, <2>2, <2>3 DEF Located
<1>11. OnePlace(g, G)
  <2> SUFFICES ASSUME NEW pl \in Places, NEW pm \in Places, NEW k \in G[pl], k \in G[pm],
                      NEW m \in Routers, Covers(g, pl, m), Covers(g, pm, m)
               PROVE  pl = pm
    BY DEF OnePlace
  <2>1. CASE k # n
    BY <1>2, <1>7, <2>1
  <2>2. ASSUME k = n, NEW t \in T, NEW pn \in Places, n \in H[pn], pn \notin F, Covers(g, t, m), Covers(g, pn, m)
        PROVE  FALSE
    <3>1. PICK f \in F : Covers(g, f, m)
      BY <2>2 DEF Follows
    <3> QED
      BY <1>2, <1>4, <2>2, <3>1
  <2>3. CASE k = n
    <3>1. CASE pl \in T /\ pm \in T
      BY <3>1 DEF Follows
    <3>2. CASE pl \notin T /\ pm \notin T
      BY <1>2, <1>8, <2>3, <3>2
    <3> QED
      BY <1>8, <2>2, <2>3, <3>1, <3>2
  <2> QED
    BY <2>1, <2>3
<1>12. Ordered(g, G, done)
  <2>1. ASSUME NEW pl \in Places, NEW pm \in Places, NEW j \in G[pl], NEW k \in G[pm], j < k,
               NEW m \in Routers, Covers(g, pl, m), Covers(g, pm, m)
        PROVE  Pos(g, pm) <= Pos(g, pl)
    <3>1. j \in Nat /\ k \in Nat
      BY <1>10 DEF Located
    <3>2. CASE j # n /\ k # n
      BY <1>3, <1>7, <2>1, <3>2
    <3>3. CASE j = n
      <4>1. k \in H[pm]
        BY <1>7, <2>1, <3>1, <3>3
      <4>2. CASE n \in H[pl] /\ pl \notin F
        BY <1>3, <2>1, <3>3, <4>1, <4>2
      <4>3. CASE pl \in T
        <5>1. PICK f \in F : Covers(g, f, m)
          BY <2>1, <4>3 DEF Follows
        <5>2. Pos(g, f) < Pos(g, pl) /\ f \in Places /\ n \in H[f]
          BY <1>4, <2>1, <4>3, <5>1 DEF Follows
        <5>3. Pos(g, pm) <= Pos(g, f)
          BY <1>3, <2>1, <3>3, <4>1, <5>1, <5>2
        <5> QED
          BY <1>5, <5>2, <5>3
      <4> QED
        BY <1>8, <2>1, <3>3, <4>2, <4>3
    <3>4. CASE k = n
      <4>1. j \in H[pl]
        BY <1>7, <2>1, <3>1, <3>4
      <4>2. CASE n \in H[pm] /\ pm \notin F
        BY <1>3, <2>1, <3>4, <4>1, <4>2
      <4>3. CASE pm \in T
        <5>1. PICK f \in F : Covers(g, f, m)
          BY <2>1, <4>3 DEF Follows
        <5>2. f \in Places /\ n \in H[f] /\ \A i \in H[f] : n <= i
          BY <1>4, <5>1
        <5>3. Pos(g, f) <= Pos(g, pl)
          BY <1>3, <2>1, <3>4, <4>1, <5>1, <5>2
        <5>4. pl # f
          BY <2>1, <3>1, <3>4, <4>1, <5>2
        <5>5. Pos(g, f) # Pos(g, pl)
          BY <2>1, <5>1, <5>2, <5>4, PlaceUnique
        <5>6. Pos(g, f) < Pos(g, pl)
          BY <1>5, <5>2, <5>3, <5>5
        <5> QED
          BY <2>1, <4>3, <5>1, <5>6 DEF Follows
      <4> QED
        BY <1>8, <2>1, <3>4, <4>2, <4>3
    <3> QED
      BY <3>2, <3>3, <3>4
  <2> QED
    BY <2>1 DEF Ordered, WayInv
<1> QED
  BY <1>9, <1>10, <1>11, <1>12 DEF WayInv, G

\* A new request is the last one, and nowhere else.
LEMMA EnterKeeps ==
    ASSUME NEW g \in Groupings, NEW H, NEW s \in Nat, NEW done, WayInv(g, H, s, done),
           s + 1 \notin done, done \subseteq Nat,
           NEW t \in Places, Pos(g, t) = 0, \A m \in Routers : InGroup(g, m) => Covers(g, t, m),
           \E m \in Routers : InGroup(g, m)
    PROVE  /\ WayInv(g, Shift(H, {}, {t}, s + 1), s + 1, done)
           /\ \A k \in H[t] : k < s + 1
<1> DEFINE G == Shift(H, {}, {t}, s + 1)
<1>1. /\ H \in [Places -> SUBSET Nat]
      /\ \A pl \in Places : \A k \in H[pl] :
            k \in 1 .. s /\ k \notin done /\ \E m \in Routers : Covers(g, pl, m)
      /\ \A k \in 1 .. s : k \notin done =>
            \A m \in Routers : InGroup(g, m) => \E pl \in Places : k \in H[pl] /\ Covers(g, pl, m)
  BY DEF WayInv, Located
<1>2. G = [pl \in Places |-> H[pl] \cup (IF pl = t THEN {s + 1} ELSE {})]
  BY DEF Shift
<1> HIDE DEF G
<1>3. \A pl \in Places : \A k : k # s + 1 => (k \in G[pl] <=> k \in H[pl])
  BY <1>2
<1>4. \A pl \in Places : s + 1 \in G[pl] <=> pl = t
  BY <1>1, <1>2
<1>5. Located(g, G, s + 1, done)
  <2>1. G \in [Places -> SUBSET Nat]
    BY <1>1, <1>2
  <2>2. ASSUME NEW pl \in Places, NEW k \in G[pl]
        PROVE  k \in 1 .. s + 1 /\ k \notin done /\ \E m \in Routers : Covers(g, pl, m)
    <3>1. CASE k = s + 1
      BY <1>4, <2>2, <3>1
    <3>2. CASE k # s + 1
      BY <1>1, <1>3, <2>2, <3>2
    <3> QED
      BY <3>1, <3>2
  <2>3. ASSUME NEW k \in 1 .. s + 1, k \notin done, NEW m \in Routers, InGroup(g, m)
        PROVE  \E pl \in Places : k \in G[pl] /\ Covers(g, pl, m)
    <3>1. CASE k = s + 1
      BY <1>4, <2>3, <3>1
    <3>2. CASE k # s + 1
      <4>1. k \in 1 .. s
        BY <3>2
      <4> QED
        BY <1>1, <1>3, <2>3, <3>2, <4>1
    <3> QED
      BY <3>1, <3>2
  <2> QED
    BY <2>1, <2>2, <2>3 DEF Located
<1>6. OnePlace(g, G)
  BY <1>3, <1>4 DEF OnePlace, WayInv
<1>7. Ordered(g, G, done)
  <2>1. ASSUME NEW pl \in Places, NEW pm \in Places, NEW j \in G[pl], NEW k \in G[pm], j < k,
               NEW m \in Routers, Covers(g, pl, m), Covers(g, pm, m)
        PROVE  Pos(g, pm) <= Pos(g, pl)
    <3>1. j \in 1 .. s + 1 /\ k \in 1 .. s + 1
      BY <1>5 DEF Located
    <3>2. CASE k = s + 1
      BY <1>4, <2>1, <3>2, PosType
    <3>3. CASE k # s + 1
      <4>1. j # s + 1
        BY <2>1, <3>1
      <4> QED
        BY <1>3, <2>1, <3>3, <4>1 DEF Ordered, WayInv
    <3> QED
      BY <3>2, <3>3
  <2> QED
    BY <2>1 DEF Ordered, WayInv
<1>8. \A k \in H[t] : k < s + 1
  BY <1>1
<1> QED
  BY <1>5, <1>6, <1>7, <1>8 DEF WayInv, G

\* The first request that all answers have come for is done.
LEMMA FinishKeeps ==
    ASSUME NEW g \in Groupings, NEW H, NEW s \in Nat, NEW done, WayInv(g, H, s, done),
           done \subseteq Nat,
           NEW F, NEW n, First(H, F, n), F # {},
           \A f \in F : Pos(g, f) = 3 * (NumX + NumY),
           \A m \in Routers : InGroup(g, m) => \E f \in F : Covers(g, f, m)
    PROVE  WayInv(g, Shift(H, F, {}, n), s, done \cup {n})
<1> DEFINE G == Shift(H, F, {}, n)
<1>1. /\ H \in [Places -> SUBSET Nat]
      /\ \A pl \in Places : \A k \in H[pl] :
            k \in 1 .. s /\ k \notin done /\ \E m \in Routers : Covers(g, pl, m)
      /\ \A k \in 1 .. s : k \notin done =>
            \A m \in Routers : InGroup(g, m) => \E pl \in Places : k \in H[pl] /\ Covers(g, pl, m)
  BY DEF WayInv, Located
<1>2. \A pl, pm \in Places : \A k \in H[pl] : k \in H[pm] =>
         \A m \in Routers : Covers(g, pl, m) /\ Covers(g, pm, m) => pl = pm
  BY DEF WayInv, OnePlace
<1>3. \A pl, pm \in Places : \A j \in H[pl], k \in H[pm] : j < k =>
        \A m \in Routers : Covers(g, pl, m) /\ Covers(g, pm, m) => Pos(g, pm) <= Pos(g, pl)
  BY DEF WayInv, Ordered
<1>4. F \subseteq Places /\ n \in Nat /\ n \in 1 .. s /\ n \notin done
      /\ \A f \in F : n \in H[f] /\ \A k \in H[f] : n <= k
  BY <1>1 DEF First
<1>5. G = [pl \in Places |-> IF pl \in F THEN H[pl] \ {n} ELSE H[pl]]
  BY DEF Shift
<1> HIDE DEF G
<1>6. \A pl \in Places : \A k : k # n => (k \in G[pl] <=> k \in H[pl])
  BY <1>5
<1>7. ASSUME NEW pl \in Places
      PROVE  n \notin G[pl]
  <2>1. CASE n \in H[pl] /\ pl \notin F
    <3>1. PICK m \in Routers : Covers(g, pl, m)
      BY <1>1, <2>1
    <3>2. InGroup(g, m)
      BY <3>1, CoversGroup
    <3>3. PICK f \in F : Covers(g, f, m)
      BY <3>2
    <3> QED
      BY <1>2, <1>4, <2>1, <3>1, <3>3
  <2> QED
    BY <1>5, <2>1
<1>8. Located(g, G, s, done \cup {n})
  <2>1. G \in [Places -> SUBSET Nat]
    BY <1>1, <1>5
  <2>2. ASSUME NEW pl \in Places, NEW k \in G[pl]
        PROVE  k \in 1 .. s /\ k \notin done \cup {n} /\ \E m \in Routers : Covers(g, pl, m)
    BY <1>1, <1>6, <1>7, <2>2
  <2>3. ASSUME NEW k \in 1 .. s, k \notin done \cup {n}, NEW m \in Routers, InGroup(g, m)
        PROVE  \E pl \in Places : k \in G[pl] /\ Covers(g, pl, m)
    BY <1>1, <1>6, <2>3
  <2> QED
    BY <2>1, <2>2, <2>3 DEF Located
<1>9. OnePlace(g, G)
  BY <1>2, <1>6, <1>7 DEF OnePlace
<1>10. Ordered(g, G, done \cup {n})
  <2>1. ASSUME NEW j \in Nat \ {0}, NEW k \in done \cup {n}, j < k
        PROVE  j \in done \cup {n}
    <3>1. CASE k \in done
      BY <2>1, <3>1 DEF Ordered, WayInv
    <3>2. CASE k = n /\ j \notin done
      <4>1. j \in 1 .. s
        BY <1>4, <2>1, <3>2
      <4>2. PICK f \in F : TRUE
        OBVIOUS
      <4>3. PICK m \in Routers : Covers(g, f, m)
        BY <1>1, <1>4, <4>2
      <4>4. InGroup(g, m)
        BY <1>4, <4>3, CoversGroup
      <4>5. PICK pl \in Places : j \in H[pl] /\ Covers(g, pl, m)
        BY <1>1, <3>2, <4>1, <4>4
      <4>6. Pos(g, f) <= Pos(g, pl)
        BY <1>3, <1>4, <2>1, <3>2, <4>3, <4>5
      <4>7. Pos(g, f) = Pos(g, pl)
        BY <4>6, PosType, MeshAssumption
      <4>8. f = pl
        BY <1>4, <4>3, <4>5, <4>7, PlaceUnique
      <4> QED
        BY <1>4, <2>1, <3>2, <4>5, <4>8
    <3> QED
      BY <2>1, <3>1, <3>2
  <2> QED
    BY <1>3, <1>6, <1>7, <2>1 DEF Ordered
<1> QED
  BY <1>8, <1>9, <1>10 DEF WayInv, G


-----------------------------------------------------------------------------
(* Where a request goes on, and where answers come from *)

\* The next router, and the input there.
LEMMA OnwardsIs ==
    ASSUME NEW rt \in Routers
    PROVE  /\ Onwards(rt, North) = [rt |-> [x |-> rt.x, y |-> rt.y + 1], port |-> South]
           /\ Onwards(rt, South) = [rt |-> [x |-> rt.x, y |-> rt.y - 1], port |-> North]
           /\ Onwards(rt, East)  = [rt |-> [x |-> rt.x + 1, y |-> rt.y], port |-> West]
           /\ Onwards(rt, West)  = [rt |-> [x |-> rt.x - 1, y |-> rt.y], port |-> East]
BY DEF Onwards, Neighbour, reverse, ToX, ToY, North, South, East, West, Routers

(* There is more of the group in the direction of port, seen from its sender. *)
Further(g, rt, port) ==
  CASE port = East  -> rt.x >= g.src.x /\ \E d \in g.xs : d > rt.x
    [] port = West  -> rt.x <= g.src.x /\ \E d \in g.xs : d < rt.x
    [] port = North -> rt.y >= g.src.y /\ \E d \in g.ys : d > rt.y
    [] port = South -> rt.y <= g.src.y /\ \E d \in g.ys : d < rt.y

(* The outputs of a request that is at a router. *)
GoesTo(g, rt, out) ==
  /\ Further(g, rt, out)
  /\ out \in Horizontal => IF RouteAlgo = "XY" THEN rt.y = g.src.y ELSE rt.y \in g.ys
  /\ out \in Vertical   => IF RouteAlgo = "XY" THEN rt.x \in g.xs ELSE rt.x = g.src.x

(* The inputs of answers at a router. *)
ComesFrom(g, rt, port) ==
  /\ Further(g, rt, port)
  /\ port \in Horizontal => IF RouteAlgo = "XY" THEN rt.y \in g.ys ELSE rt.y = g.src.y
  /\ port \in Vertical   => IF RouteAlgo = "XY" THEN rt.x = g.src.x ELSE rt.x \in g.xs

LEMMA GroupCoordinates ==
    ASSUME NEW g \in Groupings
    PROVE  /\ g.src \in Routers /\ g.xs \subseteq 0 .. NumX - 1 /\ g.ys \subseteq 0 .. NumY - 1
           /\ g.xs # {} /\ g.ys # {}
           /\ NumX \in Nat /\ NumY \in Nat
           /\ \A x \in g.xs, y \in g.ys : InGroup(g, [x |-> x, y |-> y])
BY MeshAssumption DEF Groupings, InGroup, Routers

\* A copy of a request goes on to some of the members it was on its way to.
LEMMA GoesOnwards ==
    ASSUME NEW g \in Groupings, NEW p \in Inputs, NEW m0, ReqCovers(g, p, m0),
           NEW out \in Compass, GoesTo(g, p.rt, out)
    PROVE  LET q == Onwards(p.rt, out)
           IN  /\ q \in Inputs /\ Distance(g.src, q.rt) = Distance(g.src, p.rt) + 1
               /\ \E m \in Routers : ReqCovers(g, q, m)
               /\ \A m \in Routers : ReqCovers(g, q, m) => ReqCovers(g, p, m)
<1> DEFINE q == Onwards(p.rt, out)
<1>1. /\ p.rt \in Routers /\ p.rt.x \in 0 .. NumX - 1 /\ p.rt.y \in 0 .. NumY - 1
      /\ g.src.x \in 0 .. NumX - 1 /\ g.src.y \in 0 .. NumY - 1
      /\ NumX \in Nat /\ NumY \in Nat
      /\ p.port \in Compass \cup {Eject}
      /\ g.xs \subseteq 0 .. NumX - 1 /\ g.ys \subseteq 0 .. NumY - 1
      /\ m0.x \in g.xs /\ m0.y \in g.ys
  BY GroupCoordinates DEF Inputs, Routers, ReqCovers, InGroup
<1>2. PICK d, e : InGroup(g, [x |-> d, y |-> e]) /\ d \in 0 .. NumX - 1 /\ e \in 0 .. NumY - 1
                  /\ (out = East => d > p.rt.x /\ (RouteAlgo # "XY" => e = p.rt.y))
                  /\ (out = West => d < p.rt.x /\ (RouteAlgo # "XY" => e = p.rt.y))
                  /\ (out = North => e > p.rt.y /\ (RouteAlgo = "XY" => d = p.rt.x))
                  /\ (out = South => e < p.rt.y /\ (RouteAlgo = "XY" => d = p.rt.x))
  <2>1. CASE out = East
    BY <1>1, <2>1, GroupCoordinates DEF GoesTo, Further, North, South, East, West, Horizontal
  <2>2. CASE out = West
    BY <1>1, <2>2, GroupCoordinates DEF GoesTo, Further, North, South, East, West, Horizontal
  <2>3. CASE out = North
    BY <1>1, <2>3, GroupCoordinates DEF GoesTo, Further, North, South, East, West, Vertical
  <2>4. CASE out = South
    BY <1>1, <2>4, GroupCoordinates DEF GoesTo, Further, North, South, East, West, Vertical
  <2>5. out = East \/ out = West \/ out = North \/ out = South
    BY DEF Compass, North, South, East, West
  <2> QED
    BY <2>1, <2>2, <2>3, <2>4, <2>5
<1>3. [x |-> d, y |-> e] \in Routers /\ [x |-> d, y |-> e].x = d /\ [x |-> d, y |-> e].y = e
  BY <1>2 DEF Routers
<1>4. CASE out = East
  <2>1. q.rt.x = p.rt.x + 1 /\ q.rt.y = p.rt.y /\ q.port = West
        /\ q = [rt |-> [x |-> q.rt.x, y |-> q.rt.y], port |-> West]
    BY <1>1, <1>4, OnwardsIs DEF North, South, East, West
  <2>2. Further(g, p.rt, East) /\ p.rt.x >= g.src.x
    BY <1>4 DEF GoesTo, Further, North, South, East, West
  <2> HIDE DEF q
  <2>3. q \in Inputs /\ Distance(g.src, q.rt) = Distance(g.src, p.rt) + 1
    <3>1. q.rt.x \in 0 .. NumX - 1 /\ q.rt.y \in 0 .. NumY - 1
      BY <1>1, <1>2, <1>4, <2>1
    <3>2. q \in Inputs
      BY <2>1, <3>1 DEF Inputs, Routers, Compass, North, South, East, West
    <3>3. Distance(g.src, q.rt) = Distance(g.src, p.rt) + 1
      BY <1>1, <2>1, <2>2 DEF Distance
    <3> QED
      BY <3>2, <3>3
  <2>4. ReqCovers(g, q, [x |-> d, y |-> e])
    <3>1. CASE RouteAlgo = "XY"
      BY <1>1, <1>2, <1>3, <1>4, <2>1, <2>2, <3>1 DEF ReqCovers, GoesTo, Horizontal, Vertical, North, South, East, West, Eject
    <3>2. CASE RouteAlgo # "XY"
      BY <1>1, <1>2, <1>3, <1>4, <2>1, <2>2, <3>2 DEF ReqCovers, GoesTo, Horizontal, Vertical, North, South, East, West, Eject
    <3> QED
      BY <3>1, <3>2
  <2>5. ASSUME NEW m \in Routers, ReqCovers(g, q, m)
        PROVE  ReqCovers(g, p, m)
    <3>1. m.x \in Int /\ m.y \in Int /\ InGroup(g, m)
      BY <2>5 DEF Routers, ReqCovers
    <3>2. CASE RouteAlgo = "XY"
      BY <1>1, <1>4, <2>1, <2>2, <2>5, <3>1, <3>2 DEF ReqCovers, GoesTo, Horizontal, Vertical, North, South, East, West, Eject, Compass
    <3>3. CASE RouteAlgo # "XY"
      BY <1>1, <1>4, <2>1, <2>2, <2>5, <3>1, <3>3 DEF ReqCovers, GoesTo, Horizontal, Vertical, North, South, East, West, Eject, Compass
    <3> QED
      BY <3>2, <3>3
  <2> QED
    BY <1>3, <2>3, <2>4, <2>5 DEF q
<1>5. CASE out = West
  <2>1. q.rt.x = p.rt.x - 1 /\ q.rt.y = p.rt.y /\ q.port = East
        /\ q = [rt |-> [x |-> q.rt.x, y |-> q.rt.y], port |-> East]
    BY <1>1, <1>5, OnwardsIs DEF North, South, East, West
  <2>2. Further(g, p.rt, West) /\ p.rt.x <= g.src.x
    BY <1>5 DEF GoesTo, Further, North, South, East, West
  <2> HIDE DEF q
  <2>3. q \in Inputs /\ Distance(g.src, q.rt) = Distance(g.src, p.rt) + 1
    <3>1. q.rt.x \in 0 .. NumX - 1 /\ q.rt.y \in 0 .. NumY - 1
      BY <1>1, <1>2, <1>5, <2>1
    <3>2. q \in Inputs
      BY <2>1, <3>1 DEF Inputs, Routers, Compass, North, South, East, West
    <3>3. Distance(g.src, q.rt) = Distance(g.src, p.rt) + 1
      BY <1>1, <2>1, <2>2 DEF Distance
    <3> QED
      BY <3>2, <3>3
  <2>4. ReqCovers(g, q, [x |-> d, y |-> e])
    <3>1. CASE RouteAlgo = "XY"
      BY <1>1, <1>2, <1>3, <1>5, <2>1, <2>2, <3>1 DEF ReqCovers, GoesTo, Horizontal, Vertical, North, South, East, West, Eject
    <3>2. CASE RouteAlgo # "XY"
      BY <1>1, <1>2, <1>3, <1>5, <2>1, <2>2, <3>2 DEF ReqCovers, GoesTo, Horizontal, Vertical, North, South, East, West, Eject
    <3> QED
      BY <3>1, <3>2
  <2>5. ASSUME NEW m \in Routers, ReqCovers(g, q, m)
        PROVE  ReqCovers(g, p, m)
    <3>1. m.x \in Int /\ m.y \in Int /\ InGroup(g, m)
      BY <2>5 DEF Routers, ReqCovers
    <3>2. CASE RouteAlgo = "XY"
      BY <1>1, <1>5, <2>1, <2>2, <2>5, <3>1, <3>2 DEF ReqCovers, GoesTo, Horizontal, Vertical, North, South, East, West, Eject, Compass
    <3>3. CASE RouteAlgo # "XY"
      BY <1>1, <1>5, <2>1, <2>2, <2>5, <3>1, <3>3 DEF ReqCovers, GoesTo, Horizontal, Vertical, North, South, East, West, Eject, Compass
    <3> QED
      BY <3>2, <3>3
  <2> QED
    BY <1>3, <2>3, <2>4, <2>5 DEF q
<1>6. CASE out = North
  <2>1. q.rt.y = p.rt.y + 1 /\ q.rt.x = p.rt.x /\ q.port = South
        /\ q = [rt |-> [x |-> q.rt.x, y |-> q.rt.y], port |-> South]
    BY <1>1, <1>6, OnwardsIs DEF North, South, East, West
  <2>2. Further(g, p.rt, North) /\ p.rt.y >= g.src.y
    BY <1>6 DEF GoesTo, Further, North, South, East, West
  <2> HIDE DEF q
  <2>3. q \in Inputs /\ Distance(g.src, q.rt) = Distance(g.src, p.rt) + 1
    <3>1. q.rt.x \in 0 .. NumX - 1 /\ q.rt.y \in 0 .. NumY - 1
      BY <1>1, <1>2, <1>6, <2>1
    <3>2. q \in Inputs
      BY <2>1, <3>1 DEF Inputs, Routers, Compass, North, South, East, West
    <3>3. Distance(g.src, q.rt) = Distance(g.src, p.rt) + 1
      BY <1>1, <2>1, <2>2 DEF Distance
    <3> QED
      BY <3>2, <3>3
  <2>4. ReqCovers(g, q, [x |-> d, y |-> e])
    <3>1. CASE RouteAlgo = "XY"
      BY <1>1, <1>2, <1>3, <1>6, <2>1, <2>2, <3>1 DEF ReqCovers, GoesTo, Horizontal, Vertical, North, South, East, West, Eject
    <3>2. CASE RouteAlgo # "XY"
      BY <1>1, <1>2, <1>3, <1>6, <2>1, <2>2, <3>2 DEF ReqCovers, GoesTo, Horizontal, Vertical, North, South, East, West, Eject
    <3> QED
      BY <3>1, <3>2
  <2>5. ASSUME NEW m \in Routers, ReqCovers(g, q, m)
        PROVE  ReqCovers(g, p, m)
    <3>1. m.x \in Int /\ m.y \in Int /\ InGroup(g, m)
      BY <2>5 DEF Routers, ReqCovers
    <3>2. CASE RouteAlgo = "XY"
      BY <1>1, <1>6, <2>1, <2>2, <2>5, <3>1, <3>2 DEF ReqCovers, GoesTo, Horizontal, Vertical, North, South, East, West, Eject, Compass
    <3>3. CASE RouteAlgo # "XY"
      BY <1>1, <1>6, <2>1, <2>2, <2>5, <3>1, <3>3 DEF ReqCovers, GoesTo, Horizontal, Vertical, North, South, East, West, Eject, Compass
    <3> QED
      BY <3>2, <3>3
  <2> QED
    BY <1>3, <2>3, <2>4, <2>5 DEF q
<1>7. CASE out = South
  <2>1. q.rt.y = p.rt.y - 1 /\ q.rt.x = p.rt.x /\ q.port = North
        /\ q = [rt |-> [x |-> q.rt.x, y |-> q.rt.y], port |-> North]
    BY <1>1, <1>7, OnwardsIs DEF North, South, East, West
  <2>2. Further(g, p.rt, South) /\ p.rt.y <= g.src.y
    BY <1>7 DEF GoesTo, Further, North, South, East, West
  <2> HIDE DEF q
  <2>3. q \in Inputs /\ Distance(g.src, q.rt) = Distance(g.src, p.rt) + 1
    <3>1. q.rt.x \in 0 .. NumX - 1 /\ q.rt.y \in 0 .. NumY - 1
      BY <1>1, <1>2, <1>7, <2>1
    <3>2. q \in Inputs
      BY <2>1, <3>1 DEF Inputs, Routers, Compass, North, South, East, West
    <3>3. Distance(g.src, q.rt) = Distance(g.src, p.rt) + 1
      BY <1>1, <2>1, <2>2 DEF Distance
    <3> QED
      BY <3>2, <3>3
  <2>4. ReqCovers(g, q, [x |-> d, y |-> e])
    <3>1. CASE RouteAlgo = "XY"
      BY <1>1, <1>2, <1>3, <1>7, <2>1, <2>2, <3>1 DEF ReqCovers, GoesTo, Horizontal, Vertical, North, South, East, West, Eject
    <3>2. CASE RouteAlgo # "XY"
      BY <1>1, <1>2, <1>3, <1>7, <2>1, <2>2, <3>2 DEF ReqCovers, GoesTo, Horizontal, Vertical, North, South, East, West, Eject
    <3> QED
      BY <3>1, <3>2
  <2>5. ASSUME NEW m \in Routers, ReqCovers(g, q, m)
        PROVE  ReqCovers(g, p, m)
    <3>1. m.x \in Int /\ m.y \in Int /\ InGroup(g, m)
      BY <2>5 DEF Routers, ReqCovers
    <3>2. CASE RouteAlgo = "XY"
      BY <1>1, <1>7, <2>1, <2>2, <2>5, <3>1, <3>2 DEF ReqCovers, GoesTo, Horizontal, Vertical, North, South, East, West, Eject, Compass
    <3>3. CASE RouteAlgo # "XY"
      BY <1>1, <1>7, <2>1, <2>2, <2>5, <3>1, <3>3 DEF ReqCovers, GoesTo, Horizontal, Vertical, North, South, East, West, Eject, Compass
    <3> QED
      BY <3>2, <3>3
  <2> QED
    BY <1>3, <2>3, <2>4, <2>5 DEF q
<1> QED
  BY <1>4, <1>5, <1>6, <1>7 DEF Compass, North, South, East, West

\* What a request is on its way to is here, or one of its copies goes there.
LEMMA GoesToAll ==
    ASSUME NEW g \in Groupings, NEW p \in Inputs, NEW m \in Routers, ReqCovers(g, p, m)
    PROVE  \/ m = p.rt
           \/ \E out \in Compass : GoesTo(g, p.rt, out) /\ ReqCovers(g, Onwards(p.rt, out), m)
<1>1. /\ p.rt \in Routers /\ p.rt.x \in 0 .. NumX - 1 /\ p.rt.y \in 0 .. NumY - 1
      /\ g.src.x \in 0 .. NumX - 1 /\ g.src.y \in 0 .. NumY - 1
      /\ p.port \in Compass \cup {Eject}
      /\ m.x \in 0 .. NumX - 1 /\ m.y \in 0 .. NumY - 1
      /\ m.x \in g.xs /\ m.y \in g.ys /\ InGroup(g, m)
  BY GroupCoordinates DEF Inputs, Routers, ReqCovers, InGroup
<1>2. m.x = p.rt.x /\ m.y = p.rt.y => m = p.rt
  BY <1>1 DEF Routers
<1>3. East \in Compass /\ West \in Compass /\ North \in Compass /\ South \in Compass
  BY DEF Compass, North, South, East, West
<1>4. /\ Further(g, p.rt, East) <=> p.rt.x >= g.src.x /\ \E d \in g.xs : d > p.rt.x
      /\ Further(g, p.rt, West) <=> p.rt.x <= g.src.x /\ \E d \in g.xs : d < p.rt.x
      /\ Further(g, p.rt, North) <=> p.rt.y >= g.src.y /\ \E d \in g.ys : d > p.rt.y
      /\ Further(g, p.rt, South) <=> p.rt.y <= g.src.y /\ \E d \in g.ys : d < p.rt.y
  BY DEF Further, North, South, East, West
<1>5. CASE RouteAlgo = "XY"
  <2>1. p.port \in Vertical => p.rt.x = m.x
    BY <1>5 DEF ReqCovers
  <2>2. p.port \in Horizontal => p.rt.y = g.src.y
    BY <1>5 DEF ReqCovers
  <2>3. CASE m.x > p.rt.x
    <3>1. p.rt.y = g.src.y /\ p.rt.x >= g.src.x
      BY <1>1, <2>1, <2>2, <2>3 DEF ReqCovers, Horizontal, Vertical, North, South, East, West, Eject, Compass
    <3>2. GoesTo(g, p.rt, East)
      BY <1>1, <1>4, <1>5, <2>3, <3>1 DEF GoesTo, Horizontal, Vertical, North, South, East, West
    <3>3. ReqCovers(g, Onwards(p.rt, East), m)
      BY <1>1, <1>5, <2>3, <3>1, OnwardsIs DEF ReqCovers, Horizontal, Vertical, North, South, East, West, Eject
    <3> QED
      BY <1>3, <3>2, <3>3
  <2>4. CASE m.x < p.rt.x
    <3>1. p.rt.y = g.src.y /\ p.rt.x <= g.src.x
      BY <1>1, <2>1, <2>2, <2>4 DEF ReqCovers, Horizontal, Vertical, North, South, East, West, Eject, Compass
    <3>2. GoesTo(g, p.rt, West)
      BY <1>1, <1>4, <1>5, <2>4, <3>1 DEF GoesTo, Horizontal, Vertical, North, South, East, West
    <3>3. ReqCovers(g, Onwards(p.rt, West), m)
      BY <1>1, <1>5, <2>4, <3>1, OnwardsIs DEF ReqCovers, Horizontal, Vertical, North, South, East, West, Eject
    <3> QED
      BY <1>3, <3>2, <3>3
  <2>5. CASE m.x = p.rt.x /\ m.y > p.rt.y
    <3>1. p.rt.y >= g.src.y
      BY <1>1, <2>1, <2>2, <2>5 DEF ReqCovers, Horizontal, Vertical, North, South, East, West, Eject, Compass
    <3>2. GoesTo(g, p.rt, North)
      BY <1>1, <1>4, <1>5, <2>5, <3>1 DEF GoesTo, Horizontal, Vertical, North, South, East, West
    <3>3. ReqCovers(g, Onwards(p.rt, North), m)
      BY <1>1, <1>5, <2>5, <3>1, OnwardsIs DEF ReqCovers, Horizontal, Vertical, North, South, East, West, Eject
    <3> QED
      BY <1>3, <3>2, <3>3
  <2>6. CASE m.x = p.rt.x /\ m.y < p.rt.y
    <3>1. p.rt.y <= g.src.y
      BY <1>1, <2>1, <2>2, <2>6 DEF ReqCovers, Horizontal, Vertical, North, South, East, West, Eject, Compass
    <3>2. GoesTo(g, p.rt, South)
      BY <1>1, <1>4, <1>5, <2>6, <3>1 DEF GoesTo, Horizontal, Vertical, North, South, East, West
    <3>3. ReqCovers(g, Onwards(p.rt, South), m)
      BY <1>1, <1>5, <2>6, <3>1, OnwardsIs DEF ReqCovers, Horizontal, Vertical, North, South, East, West, Eject
    <3> QED
      BY <1>3, <3>2, <3>3
  <2> QED
    BY <1>1, <1>2, <2>3, <2>4, <2>5, <2>6
<1>6. CASE RouteAlgo # "XY"
  <2>1. p.port \in Vertical => p.rt.x = g.src.x
    BY <1>6 DEF ReqCovers
  <2>2. p.port \in Horizontal => p.rt.y = m.y
    BY <1>6 DEF ReqCovers
  <2>3. CASE m.y > p.rt.y
    <3>1. p.rt.x = g.src.x /\ p.rt.y >= g.src.y
      BY <1>1, <2>1, <2>2, <2>3 DEF ReqCovers, Horizontal, Vertical, North, South, East, West, Eject, Compass
    <3>2. GoesTo(g, p.rt, North)
      BY <1>1, <1>4, <1>6, <2>3, <3>1 DEF GoesTo, Horizontal, Vertical, North, South, East, West
    <3>3. ReqCovers(g, Onwards(p.rt, North), m)
      BY <1>1, <1>6, <2>3, <3>1, OnwardsIs DEF ReqCovers, Horizontal, Vertical, North, South, East, West, Eject
    <3> QED
      BY <1>3, <3>2, <3>3
  <2>4. CASE m.y < p.rt.y
    <3>1. p.rt.x = g.src.x /\ p.rt.y <= g.src.y
      BY <1>1, <2>1, <2>2, <2>4 DEF ReqCovers, Horizontal, Vertical, North, South, East, West, Eject, Compass
    <3>2. GoesTo(g, p.rt, South)
      BY <1>1, <1>4, <1>6, <2>4, <3>1 DEF GoesTo, Horizontal, Vertical, North, South, East, West
    <3>3. ReqCovers(g, Onwards(p.rt, South), m)
      BY <1>1, <1>6, <2>4, <3>1, OnwardsIs DEF ReqCovers, Horizontal, Vertical, North, South, East, West, Eject
    <3> QED
      BY <1>3, <3>2, <3>3
  <2>5. CASE m.y = p.rt.y /\ m.x > p.rt.x
    <3>1. p.rt.x >= g.src.x
      BY <1>1, <2>1, <2>2, <2>5 DEF ReqCovers, Horizontal, Vertical, North, South, East, West, Eject, Compass
    <3>2. GoesTo(g, p.rt, East)
      BY <1>1, <1>4, <1>6, <2>5, <3>1 DEF GoesTo, Horizontal, Vertical, North, South, East, West
    <3>3. ReqCovers(g, Onwards(p.rt, East), m)
      BY <1>1, <1>6, <2>5, <3>1, OnwardsIs DEF ReqCovers, Horizontal, Vertical, North, South, East, West, Eject
    <3> QED
      BY <1>3, <3>2, <3>3
  <2>6. CASE m.y = p.rt.y /\ m.x < p.rt.x
    <3>1. p.rt.x <= g.src.x
      BY <1>1, <2>1, <2>2, <2>6 DEF ReqCovers, Horizontal, Vertical, North, South, East, West, Eject, Compass
    <3>2. GoesTo(g, p.rt, West)
      BY <1>1, <1>4, <1>6, <2>6, <3>1 DEF GoesTo, Horizontal, Vertical, North, South, East, West
    <3>3. ReqCovers(g, Onwards(p.rt, West), m)
      BY <1>1, <1>6, <2>6, <3>1, OnwardsIs DEF ReqCovers, Horizontal, Vertical, North, South, East, West, Eject
    <3> QED
      BY <1>3, <3>2, <3>3
  <2> QED
    BY <1>1, <1>2, <2>3, <2>4, <2>5, <2>6
<1> QED
  BY <1>5, <1>6

\* Answers come in where there are members whose answers can be there.
LEMMA ComesFromMembers ==
    ASSUME NEW g \in Groupings, NEW p \in Inputs
    PROVE  /\ p.port = Eject => (InGroup(g, p.rt) <=> \E m \in Routers : AnsCovers(g, p, m))
           /\ p.port \in Compass => (ComesFrom(g, p.rt, p.port) <=> \E m \in Routers : AnsCovers(g, p, m))
<1>1. /\ p.rt \in Routers /\ p.rt.x \in 0 .. NumX - 1 /\ p.rt.y \in 0 .. NumY - 1
      /\ g.src.x \in 0 .. NumX - 1 /\ g.src.y \in 0 .. NumY - 1
      /\ p.port \in Compass \cup {Eject}
      /\ g.xs \subseteq 0 .. NumX - 1 /\ g.ys \subseteq 0 .. NumY - 1
  BY GroupCoordinates DEF Inputs, Routers
<1>2. p.port = Eject => (InGroup(g, p.rt) <=> \E m \in Routers : AnsCovers(g, p, m))
  BY <1>1 DEF AnsCovers, InGroup, Horizontal, Vertical, North, South, East, West, Eject
<1>3. ASSUME NEW m \in Routers, AnsCovers(g, p, m), p.port \in Compass
      PROVE  ComesFrom(g, p.rt, p.port)
  <2>1. m.x \in Int /\ m.y \in Int /\ m.x \in g.xs /\ m.y \in g.ys
    BY <1>3 DEF AnsCovers, InGroup, Routers
  <2>2. Further(g, p.rt, p.port)
    <3>1. CASE p.port = East
      BY <1>1, <1>3, <2>1, <3>1 DEF AnsCovers, Further, North, South, East, West, Eject
    <3>2. CASE p.port = West
      BY <1>1, <1>3, <2>1, <3>2 DEF AnsCovers, Further, North, South, East, West, Eject
    <3>3. CASE p.port = North
      BY <1>1, <1>3, <2>1, <3>3 DEF AnsCovers, Further, North, South, East, West, Eject
    <3>4. CASE p.port = South
      BY <1>1, <1>3, <2>1, <3>4 DEF AnsCovers, Further, North, South, East, West, Eject
    <3>5. p.port = East \/ p.port = West \/ p.port = North \/ p.port = South
      BY <1>3 DEF Compass, North, South, East, West
    <3> QED
      BY <3>1, <3>2, <3>3, <3>4, <3>5
  <2> QED
    BY <1>3, <2>1, <2>2 DEF AnsCovers, ComesFrom
<1>4. ASSUME p.port \in Compass, ComesFrom(g, p.rt, p.port)
      PROVE  \E m \in Routers : AnsCovers(g, p, m)
  <2>1. PICK d \in g.xs, e \in g.ys :
           /\ p.port = East => d > p.rt.x /\ p.rt.x >= g.src.x /\ (RouteAlgo = "XY" => e = p.rt.y)
           /\ p.port = West => d < p.rt.x /\ p.rt.x <= g.src.x /\ (RouteAlgo = "XY" => e = p.rt.y)
           /\ p.port = North => e > p.rt.y /\ p.rt.y >= g.src.y /\ (RouteAlgo # "XY" => d = p.rt.x)
           /\ p.port = South => e < p.rt.y /\ p.rt.y <= g.src.y /\ (RouteAlgo # "XY" => d = p.rt.x)
    <3>1. CASE p.port = East
      BY <1>1, <1>4, <3>1, GroupCoordinates DEF ComesFrom, Further, North, South, East, West, Horizontal
    <3>2. CASE p.port = West
      BY <1>1, <1>4, <3>2, GroupCoordinates DEF ComesFrom, Further, North, South, East, West, Horizontal
    <3>3. CASE p.port = North
      BY <1>1, <1>4, <3>3, GroupCoordinates DEF ComesFrom, Further, North, South, East, West, Vertical
    <3>4. CASE p.port = South
      BY <1>1, <1>4, <3>4, GroupCoordinates DEF ComesFrom, Further, North, South, East, West, Vertical
    <3>5. p.port = East \/ p.port = West \/ p.port = North \/ p.port = South
      BY <1>4 DEF Compass, North, South, East, West
    <3> QED
      BY <3>1, <3>2, <3>3, <3>4, <3>5
  <2>2. PICK m \in Routers : InGroup(g, m) /\ m.x = d /\ m.y = e
    BY GroupCoordinates DEF InGroup
  <2>3. m.x \in Int /\ m.y \in Int
    BY DEF Routers
  <2>4. p.port = East \/ p.port = West \/ p.port = North \/ p.port = South
    BY <1>4 DEF Compass, North, South, East, West
  <2>5. AnsCovers(g, p, m)
    <3>1. CASE RouteAlgo = "XY"
      BY <1>1, <1>4, <2>1, <2>2, <2>3, <2>4, <3>1 DEF AnsCovers, ComesFrom, Horizontal, Vertical, North, South, East, West, Eject
    <3>2. CASE RouteAlgo # "XY"
      BY <1>1, <1>4, <2>1, <2>2, <2>3, <2>4, <3>2 DEF AnsCovers, ComesFrom, Horizontal, Vertical, North, South, East, West, Eject
    <3> QED
      BY <3>1, <3>2
  <2> QED
    BY <2>5
<1> QED
  BY <1>2, <1>3, <1>4

\* At the sender's router the answers of all members come together.
LEMMA AllCome ==
    ASSUME NEW g \in Groupings, NEW m \in Routers, InGroup(g, m)
    PROVE  \E port \in Compass \cup {Eject} : AnsCovers(g, [rt |-> g.src, port |-> port], m)
<1>1. /\ g.src \in Routers /\ g.src.x \in Int /\ g.src.y \in Int /\ m.x \in Int /\ m.y \in Int
  BY GroupCoordinates DEF Routers
<1>2. North \in Compass /\ South \in Compass /\ East \in Compass /\ West \in Compass
  BY DEF Compass, North, South, East, West
<1>3. CASE m.x = g.src.x /\ m.y = g.src.y
  <2>1. m = g.src
    BY <1>1, <1>3 DEF Routers
  <2>2. AnsCovers(g, [rt |-> g.src, port |-> Eject], m)
    BY <2>1 DEF AnsCovers, Horizontal, Vertical, North, South, East, West, Eject
  <2> QED
    BY <2>2
<1>4. ASSUME m.x > g.src.x, RouteAlgo = "XY" => m.y = g.src.y
      PROVE  AnsCovers(g, [rt |-> g.src, port |-> East], m)
  BY <1>1, <1>4 DEF AnsCovers, Horizontal, Vertical, North, South, East, West, Eject
<1>5. ASSUME m.x < g.src.x, RouteAlgo = "XY" => m.y = g.src.y
      PROVE  AnsCovers(g, [rt |-> g.src, port |-> West], m)
  BY <1>1, <1>5 DEF AnsCovers, Horizontal, Vertical, North, South, East, West, Eject
<1>6. ASSUME m.y > g.src.y, RouteAlgo # "XY" => m.x = g.src.x
      PROVE  AnsCovers(g, [rt |-> g.src, port |-> North], m)
  BY <1>1, <1>6 DEF AnsCovers, Horizontal, Vertical, North, South, East, West, Eject
<1>7. ASSUME m.y < g.src.y, RouteAlgo # "XY" => m.x = g.src.x
      PROVE  AnsCovers(g, [rt |-> g.src, port |-> South], m)
  BY <1>1, <1>7 DEF AnsCovers, Horizontal, Vertical, North, South, East, West, Eject
<1>8. \/ m.x = g.src.x /\ m.y = g.src.y
      \/ m.x > g.src.x /\ (RouteAlgo = "XY" => m.y = g.src.y)
      \/ m.x < g.src.x /\ (RouteAlgo = "XY" => m.y = g.src.y)
      \/ m.y > g.src.y /\ (RouteAlgo # "XY" => m.x = g.src.x)
      \/ m.y < g.src.y /\ (RouteAlgo # "XY" => m.x = g.src.x)
  BY <1>1
<1> QED
  BY <1>2, <1>3, <1>4, <1>5, <1>6, <1>7, <1>8

(* The output of an answer at a router. *)
Back(g, rt) == route_sel_id([x |-> g.src.x, y |-> g.src.y, port_id |-> 0], rt)

LEMMA BackIs ==
    ASSUME NEW g \in Groupings, NEW rt \in Routers
    PROVE  /\ Back(g, rt) = Eject <=> rt = g.src
           /\ rt # g.src => Back(g, rt) \in Compass
           /\ Back(g, rt) = East  => rt.x < g.src.x /\ (RouteAlgo # "XY" => rt.y = g.src.y)
           /\ Back(g, rt) = West  => rt.x > g.src.x /\ (RouteAlgo # "XY" => rt.y = g.src.y)
           /\ Back(g, rt) = North => rt.y < g.src.y /\ (RouteAlgo = "XY" => rt.x = g.src.x)
           /\ Back(g, rt) = South => rt.y > g.src.y /\ (RouteAlgo = "XY" => rt.x = g.src.x)
<1>1. /\ g.src \in Routers /\ g.src.x \in Int /\ g.src.y \in Int /\ rt.x \in Int /\ rt.y \in Int
  BY GroupCoordinates DEF Routers
<1>2. Back(g, rt) = IF g.src.x = rt.x /\ g.src.y = rt.y THEN Eject
                    ELSE IF RouteAlgo = "XY"
                         THEN IF g.src.x = rt.x
                              THEN IF g.src.y < rt.y THEN South ELSE North
                              ELSE IF g.src.x < rt.x THEN West ELSE East
                         ELSE IF g.src.y = rt.y
                              THEN IF g.src.x < rt.x THEN West ELSE East
                              ELSE IF g.src.y < rt.y THEN South ELSE North
  BY DEF Back, route_sel_id, Horizontally, Vertically, Eject
<1>3. (g.src.x = rt.x /\ g.src.y = rt.y) <=> rt = g.src
  BY <1>1 DEF Routers
<1> QED
  BY <1>1, <1>2, <1>3 DEF Compass, North, South, East, West, Eject

\* A joined answer goes on to the next router for all that came together.
LEMMA AnswersOnwards ==
    ASSUME NEW g \in Groupings, NEW p \in Inputs, NEW m0, AnsCovers(g, p, m0), p.rt # g.src
    PROVE  LET q == Onwards(p.rt, Back(g, p.rt))
           IN  /\ q \in Inputs /\ Distance(g.src, p.rt) = Distance(g.src, q.rt) + 1
               /\ \A m \in Routers : AnsCovers(g, q, m) <=>
                     \E port \in Compass \cup {Eject} : AnsCovers(g, [rt |-> p.rt, port |-> port], m)
<1> DEFINE to == Back(g, p.rt)
           q == Onwards(p.rt, to)
<1>1. /\ p.rt \in Routers /\ p.rt.x \in 0 .. NumX - 1 /\ p.rt.y \in 0 .. NumY - 1
      /\ g.src.x \in 0 .. NumX - 1 /\ g.src.y \in 0 .. NumY - 1
      /\ NumX \in Nat /\ NumY \in Nat
      /\ p.port \in Compass \cup {Eject}
      /\ g.xs \subseteq 0 .. NumX - 1 /\ g.ys \subseteq 0 .. NumY - 1
      /\ m0.x \in g.xs /\ m0.y \in g.ys /\ m0.x \in Int /\ m0.y \in Int
  BY GroupCoordinates DEF Inputs, Routers, AnsCovers, InGroup
<1>2. p.port = Eject \/ p.port = East \/ p.port = West \/ p.port = North \/ p.port = South
  BY <1>1 DEF Compass, North, South, East, West
\* The router is in a row (XY) or column (YX) with members, unless it is in the sender's
\* column (row), which all answers pass.
<1>3. /\ RouteAlgo = "XY" => p.rt.y \in g.ys \/ p.rt.x = g.src.x
      /\ RouteAlgo # "XY" => p.rt.x \in g.xs \/ p.rt.y = g.src.y
  BY <1>1, <1>2 DEF AnsCovers, Horizontal, Vertical, North, South, East, West, Eject
<1>4. North \in Compass /\ South \in Compass /\ East \in Compass /\ West \in Compass
  BY DEF Compass, North, South, East, West
<1>5. CASE to = East
  <2>1. q.rt.x = p.rt.x + 1 /\ q.rt.y = p.rt.y /\ q.port = West
        /\ q = [rt |-> [x |-> q.rt.x, y |-> q.rt.y], port |-> West]
    BY <1>1, <1>5, OnwardsIs
  <2>2. p.rt.x < g.src.x /\ (RouteAlgo # "XY" => p.rt.y = g.src.y)
    BY <1>1, <1>5, BackIs
  <2> HIDE DEF q
  <2>3. q \in Inputs
    <3>1. q.rt.x \in 0 .. NumX - 1 /\ q.rt.y \in 0 .. NumY - 1
      BY <1>1, <2>1, <2>2
    <3> QED
      BY <1>4, <2>1, <3>1 DEF Inputs, Routers
  <2>4. Distance(g.src, p.rt) = Distance(g.src, q.rt) + 1
    BY <1>1, <2>1, <2>2 DEF Distance
  <2>5. ASSUME NEW m \in Routers, InGroup(g, m)
        PROVE  AnsCovers(g, q, m) <=> m.x <= p.rt.x /\ (RouteAlgo = "XY" => m.y = p.rt.y)
    <3>1. m.x \in Int /\ m.y \in Int
      BY DEF Routers
    <3> QED
      BY <1>1, <2>1, <2>2, <2>5, <3>1 DEF AnsCovers, Horizontal, Vertical, North, South, East, West, Eject
  <2>6. ASSUME NEW m \in Routers, AnsCovers(g, q, m)
        PROVE  \E port \in Compass \cup {Eject} : AnsCovers(g, [rt |-> p.rt, port |-> port], m)
    <3>1. m.x \in Int /\ m.y \in Int /\ InGroup(g, m)
      BY <2>6 DEF Routers, AnsCovers
    <3>2. m.x <= p.rt.x /\ (RouteAlgo = "XY" => m.y = p.rt.y)
      BY <2>5, <2>6, <3>1
    <3>3. CASE m.x = p.rt.x /\ m.y = p.rt.y
      <4>1. m = p.rt
        BY <1>1, <3>3 DEF Routers
      <4>2. AnsCovers(g, [rt |-> p.rt, port |-> Eject], m)
        BY <3>1, <4>1 DEF AnsCovers, Horizontal, Vertical, North, South, East, West, Eject
      <4> QED
        BY <4>2
    <3>4. CASE m.x # p.rt.x
      <4>1. AnsCovers(g, [rt |-> p.rt, port |-> West], m)
        BY <1>1, <2>2, <3>1, <3>2, <3>4 DEF AnsCovers, Horizontal, Vertical, North, South, East, West, Eject
      <4> QED
        BY <1>4, <4>1
    <3>5. CASE m.x = p.rt.x /\ m.y > p.rt.y
      <4>1. AnsCovers(g, [rt |-> p.rt, port |-> North], m)
        BY <1>1, <2>2, <3>1, <3>2, <3>5 DEF AnsCovers, Horizontal, Vertical, North, South, East, West, Eject
      <4> QED
        BY <1>4, <4>1
    <3>6. CASE m.x = p.rt.x /\ m.y < p.rt.y
      <4>1. AnsCovers(g, [rt |-> p.rt, port |-> South], m)
        BY <1>1, <2>2, <3>1, <3>2, <3>6 DEF AnsCovers, Horizontal, Vertical, North, South, East, West, Eject
      <4> QED
        BY <1>4, <4>1
    <3>7. (m.x = p.rt.x /\ m.y = p.rt.y) \/ m.x # p.rt.x \/ (m.x = p.rt.x /\ m.y > p.rt.y) \/ (m.x = p.rt.x /\ m.y < p.rt.y)
      BY <1>1, <3>1
    <3> QED
      BY <3>3, <3>4, <3>5, <3>6, <3>7
  <2>7. ASSUME NEW m \in Routers, NEW port \in Compass \cup {Eject}, AnsCovers(g, [rt |-> p.rt, port |-> port], m)
        PROVE  AnsCovers(g, q, m)
    <3>1. m.x \in Int /\ m.y \in Int /\ InGroup(g, m) /\ m.x \in g.xs /\ m.y \in g.ys
      BY <2>7 DEF Routers, AnsCovers, InGroup
    <3>2. port = Eject \/ port = East \/ port = West \/ port = North \/ port = South
      BY DEF Compass, North, South, East, West
    <3>3. m.x <= p.rt.x /\ (RouteAlgo = "XY" => m.y = p.rt.y)
      BY <1>1, <2>2, <2>7, <3>1, <3>2 DEF AnsCovers, Horizontal, Vertical, North, South, East, West, Eject
    <3> QED
      BY <2>5, <3>1, <3>3
  <2> QED
    BY <2>3, <2>4, <2>6, <2>7 DEF q
<1>6. CASE to = West
  <2>1. q.rt.x = p.rt.x - 1 /\ q.rt.y = p.rt.y /\ q.port = East
        /\ q = [rt |-> [x |-> q.rt.x, y |-> q.rt.y], port |-> East]
    BY <1>1, <1>6, OnwardsIs
  <2>2. p.rt.x > g.src.x /\ (RouteAlgo # "XY" => p.rt.y = g.src.y)
    BY <1>1, <1>6, BackIs
  <2> HIDE DEF q
  <2>3. q \in Inputs
    <3>1. q.rt.x \in 0 .. NumX - 1 /\ q.rt.y \in 0 .. NumY - 1
      BY <1>1, <2>1, <2>2
    <3> QED
      BY <1>4, <2>1, <3>1 DEF Inputs, Routers
  <2>4. Distance(g.src, p.rt) = Distance(g.src, q.rt) + 1
    BY <1>1, <2>1, <2>2 DEF Distance
  <2>5. ASSUME NEW m \in Routers, InGroup(g, m)
        PROVE  AnsCovers(g, q, m) <=> m.x >= p.rt.x /\ (RouteAlgo = "XY" => m.y = p.rt.y)
    <3>1. m.x \in Int /\ m.y \in Int
      BY DEF Routers
    <3> QED
      BY <1>1, <2>1, <2>2, <2>5, <3>1 DEF AnsCovers, Horizontal, Vertical, North, South, East, West, Eject
  <2>6. ASSUME NEW m \in Routers, AnsCovers(g, q, m)
        PROVE  \E port \in Compass \cup {Eject} : AnsCovers(g, [rt |-> p.rt, port |-> port], m)
    <3>1. m.x \in Int /\ m.y \in Int /\ InGroup(g, m)
      BY <2>6 DEF Routers, AnsCovers
    <3>2. m.x >= p.rt.x /\ (RouteAlgo = "XY" => m.y = p.rt.y)
      BY <2>5, <2>6, <3>1
    <3>3. CASE m.x = p.rt.x /\ m.y = p.rt.y
      <4>1. m = p.rt
        BY <1>1, <3>3 DEF Routers
      <4>2. AnsCovers(g, [rt |-> p.rt, port |-> Eject], m)
        BY <3>1, <4>1 DEF AnsCovers, Horizontal, Vertical, North, South, East, West, Eject
      <4> QED
        BY <4>2
    <3>4. CASE m.x # p.rt.x
      <4>1. AnsCovers(g, [rt |-> p.rt, port |-> East], m)
        BY <1>1, <2>2, <3>1, <3>2, <3>4 DEF AnsCovers, Horizontal, Vertical, North, South, East, West, Eject
      <4> QED
        BY <1>4, <4>1
    <3>5. CASE m.x = p.rt.x /\ m.y > p.rt.y
      <4>1. AnsCovers(g, [rt |-> p.rt, port |-> North], m)
        BY <1>1, <2>2, <3>1, <3>2, <3>5 DEF AnsCovers, Horizontal, Vertical, North, South, East, West, Eject
      <4> QED
        BY <1>4, <4>1
    <3>6. CASE m.x = p.rt.x /\ m.y < p.rt.y
      <4>1. AnsCovers(g, [rt |-> p.rt, port |-> South], m)
        BY <1>1, <2>2, <3>1, <3>2, <3>6 DEF AnsCovers, Horizontal, Vertical, North, South, East, West, Eject
      <4> QED
        BY <1>4, <4>1
    <3>7. (m.x = p.rt.x /\ m.y = p.rt.y) \/ m.x # p.rt.x \/ (m.x = p.rt.x /\ m.y > p.rt.y) \/ (m.x = p.rt.x /\ m.y < p.rt.y)
      BY <1>1, <3>1
    <3> QED
      BY <3>3, <3>4, <3>5, <3>6, <3>7
  <2>7. ASSUME NEW m \in Routers, NEW port \in Compass \cup {Eject}, AnsCovers(g, [rt |-> p.rt, port |-> port], m)
        PROVE  AnsCovers(g, q, m)
    <3>1. m.x \in Int /\ m.y \in Int /\ InGroup(g, m) /\ m.x \in g.xs /\ m.y \in g.ys
      BY <2>7 DEF Routers, AnsCovers, InGroup
    <3>2. port = Eject \/ port = East \/ port = West \/ port = North \/ port = South
      BY DEF Compass, North, South, East, West
    <3>3. m.x >= p.rt.x /\ (RouteAlgo = "XY" => m.y = p.rt.y)
      BY <1>1, <2>2, <2>7, <3>1, <3>2 DEF AnsCovers, Horizontal, Vertical, North, South, East, West, Eject
    <3> QED
      BY <2>5, <3>1, <3>3
  <2> QED
    BY <2>3, <2>4, <2>6, <2>7 DEF q
<1>7. CASE to = North
  <2>1. q.rt.y = p.rt.y + 1 /\ q.rt.x = p.rt.x /\ q.port = South
        /\ q = [rt |-> [x |-> q.rt.x, y |-> q.rt.y], port |-> South]
    BY <1>1, <1>7, OnwardsIs
  <2>2. p.rt.y < g.src.y /\ (RouteAlgo = "XY" => p.rt.x = g.src.x)
    BY <1>1, <1>7, BackIs
  <2> HIDE DEF q
  <2>3. q \in Inputs
    <3>1. q.rt.x \in 0 .. NumX - 1 /\ q.rt.y \in 0 .. NumY - 1
      BY <1>1, <2>1, <2>2
    <3> QED
      BY <1>4, <2>1, <3>1 DEF Inputs, Routers
  <2>4. Distance(g.src, p.rt) = Distance(g.src, q.rt) + 1
    BY <1>1, <2>1, <2>2 DEF Distance
  <2>5. ASSUME NEW m \in Routers, InGroup(g, m)
        PROVE  AnsCovers(g, q, m) <=> m.y <= p.rt.y /\ (RouteAlgo # "XY" => m.x = p.rt.x)
    <3>1. m.x \in Int /\ m.y \in Int
      BY DEF Routers
    <3> QED
      BY <1>1, <2>1, <2>2, <2>5, <3>1 DEF AnsCovers, Horizontal, Vertical, North, South, East, West, Eject
  <2>6. ASSUME NEW m \in Routers, AnsCovers(g, q, m)
        PROVE  \E port \in Compass \cup {Eject} : AnsCovers(g, [rt |-> p.rt, port |-> port], m)
    <3>1. m.x \in Int /\ m.y \in Int /\ InGroup(g, m)
      BY <2>6 DEF Routers, AnsCovers
    <3>2. m.y <= p.rt.y /\ (RouteAlgo # "XY" => m.x = p.rt.x)
      BY <2>5, <2>6, <3>1
    <3>3. CASE m.x = p.rt.x /\ m.y = p.rt.y
      <4>1. m = p.rt
        BY <1>1, <3>3 DEF Routers
      <4>2. AnsCovers(g, [rt |-> p.rt, port |-> Eject], m)
        BY <3>1, <4>1 DEF AnsCovers, Horizontal, Vertical, North, South, East, West, Eject
      <4> QED
        BY <4>2
    <3>4. CASE m.y # p.rt.y
      <4>1. AnsCovers(g, [rt |-> p.rt, port |-> South], m)
        BY <1>1, <2>2, <3>1, <3>2, <3>4 DEF AnsCovers, Horizontal, Vertical, North, South, East, West, Eject
      <4> QED
        BY <1>4, <4>1
    <3>5. CASE m.y = p.rt.y /\ m.x > p.rt.x
      <4>1. AnsCovers(g, [rt |-> p.rt, port |-> East], m)
        BY <1>1, <2>2, <3>1, <3>2, <3>5 DEF AnsCovers, Horizontal, Vertical, North, South, East, West, Eject
      <4> QED
        BY <1>4, <4>1
    <3>6. CASE m.y = p.rt.y /\ m.x < p.rt.x
      <4>1. AnsCovers(g, [rt |-> p.rt, port |-> West], m)
        BY <1>1, <2>2, <3>1, <3>2, <3>6 DEF AnsCovers, Horizontal, Vertical, North, South, East, West, Eject
      <4> QED
        BY <1>4, <4>1
    <3>7. (m.x = p.rt.x /\ m.y = p.rt.y) \/ m.y # p.rt.y \/ (m.y = p.rt.y /\ m.x > p.rt.x) \/ (m.y = p.rt.y /\ m.x < p.rt.x)
      BY <1>1, <3>1
    <3> QED
      BY <3>3, <3>4, <3>5, <3>6, <3>7
  <2>7. ASSUME NEW m \in Routers, NEW port \in Compass \cup {Eject}, AnsCovers(g, [rt |-> p.rt, port |-> port], m)
        PROVE  AnsCovers(g, q, m)
    <3>1. m.x \in Int /\ m.y \in Int /\ InGroup(g, m) /\ m.x \in g.xs /\ m.y \in g.ys
      BY <2>7 DEF Routers, AnsCovers, InGroup
    <3>2. port = Eject \/ port = East \/ port = West \/ port = North \/ port = South
      BY DEF Compass, North, South, East, West
    <3>3. m.y <= p.rt.y /\ (RouteAlgo # "XY" => m.x = p.rt.x)
      BY <1>1, <2>2, <2>7, <3>1, <3>2 DEF AnsCovers, Horizontal, Vertical, North, South, East, West, Eject
    <3> QED
      BY <2>5, <3>1, <3>3
  <2> QED
    BY <2>3, <2>4, <2>6, <2>7 DEF q
<1>8. CASE to = South
  <2>1. q.rt.y = p.rt.y - 1 /\ q.rt.x = p.rt.x /\ q.port = North
        /\ q = [rt |-> [x |-> q.rt.x, y |-> q.rt.y], port |-> North]
    BY <1>1, <1>8, OnwardsIs
  <2>2. p.rt.y > g.src.y /\ (RouteAlgo = "XY" => p.rt.x = g.src.x)
    BY <1>1, <1>8, BackIs
  <2> HIDE DEF q
  <2>3. q \in Inputs
    <3>1. q.rt.x \in 0 .. NumX - 1 /\ q.rt.y \in 0 .. NumY - 1
      BY <1>1, <2>1, <2>2
    <3> QED
      BY <1>4, <2>1, <3>1 DEF Inputs, Routers
  <2>4. Distance(g.src, p.rt) = Distance(g.src, q.rt) + 1
    BY <1>1, <2>1, <2>2 DEF Distance
  <2>5. ASSUME NEW m \in Routers, InGroup(g, m)
        PROVE  AnsCovers(g, q, m) <=> m.y >= p.rt.y /\ (RouteAlgo # "XY" => m.x = p.rt.x)
    <3>1. m.x \in Int /\ m.y \in Int
      BY DEF Routers
    <3> QED
      BY <1>1, <2>1, <2>2, <2>5, <3>1 DEF AnsCovers, Horizontal, Vertical, North, South, East, West, Eject
  <2>6. ASSUME NEW m \in Routers, AnsCovers(g, q, m)
        PROVE  \E port \in Compass \cup {Eject} : AnsCovers(g, [rt |-> p.rt, port |-> port], m)
    <3>1. m.x \in Int /\ m.y \in Int /\ InGroup(g, m)
      BY <2>6 DEF Routers, AnsCovers
    <3>2. m.y >= p.rt.y /\ (RouteAlgo # "XY" => m.x = p.rt.x)
      BY <2>5, <2>6, <3>1
    <3>3. CASE m.x = p.rt.x /\ m.y = p.rt.y
      <4>1. m = p.rt
        BY <1>1, <3>3 DEF Routers
      <4>2. AnsCovers(g, [rt |-> p.rt, port |-> Eject], m)
        BY <3>1, <4>1 DEF AnsCovers, Horizontal, Vertical, North, South, East, West, Eject
      <4> QED
        BY <4>2
    <3>4. CASE m.y # p.rt.y
      <4>1. AnsCovers(g, [rt |-> p.rt, port |-> North], m)
        BY <1>1, <2>2, <3>1, <3>2, <3>4 DEF AnsCovers, Horizontal, Vertical, North, South, East, West, Eject
      <4> QED
        BY <1>4, <4>1
    <3>5. CASE m.y = p.rt.y /\ m.x > p.rt.x
      <4>1. AnsCovers(g, [rt |-> p.rt, port |-> East], m)
        BY <1>1, <2>2, <3>1, <3>2, <3>5 DEF AnsCovers, Horizontal, Vertical, North, South, East, West, Eject
      <4> QED
        BY <1>4, <4>1
    <3>6. CASE m.y = p.rt.y /\ m.x < p.rt.x
      <4>1. AnsCovers(g, [rt |-> p.rt, port |-> West], m)
        BY <1>1, <2>2, <3>1, <3>2, <3>6 DEF AnsCovers, Horizontal, Vertical, North, South, East, West, Eject
      <4> QED
        BY <1>4, <4>1
    <3>7. (m.x = p.rt.x /\ m.y = p.rt.y) \/ m.y # p.rt.y \/ (m.y = p.rt.y /\ m.x > p.rt.x) \/ (m.y = p.rt.y /\ m.x < p.rt.x)
      BY <1>1, <3>1
    <3> QED
      BY <3>3, <3>4, <3>5, <3>6, <3>7
  <2>7. ASSUME NEW m \in Routers, NEW port \in Compass \cup {Eject}, AnsCovers(g, [rt |-> p.rt, port |-> port], m)
        PROVE  AnsCovers(g, q, m)
    <3>1. m.x \in Int /\ m.y \in Int /\ InGroup(g, m) /\ m.x \in g.xs /\ m.y \in g.ys
      BY <2>7 DEF Routers, AnsCovers, InGroup
    <3>2. port = Eject \/ port = East \/ port = West \/ port = North \/ port = South
      BY DEF Compass, North, South, East, West
    <3>3. m.y >= p.rt.y /\ (RouteAlgo # "XY" => m.x = p.rt.x)
      BY <1>1, <2>2, <2>7, <3>1, <3>2 DEF AnsCovers, Horizontal, Vertical, North, South, East, West, Eject
    <3> QED
      BY <2>5, <3>1, <3>3
  <2> QED
    BY <2>3, <2>4, <2>6, <2>7 DEF q
<1>9. to = East \/ to = West \/ to = North \/ to = South
  BY <1>1, BackIs DEF Compass, North, South, East, West
<1> QED
  BY <1>5, <1>6, <1>7, <1>8, <1>9

-----------------------------------------------------------------------------
(* The places that follow each other *)

Req(p)  == [kind |-> "request", at |-> p]
Acc(rt) == [kind |-> "accepted", at |-> [rt |-> rt, port |-> Eject]]
Ans(p)  == [kind |-> "answer", at |-> p]

(* Where a request goes from a router, and where its answers come from. *)
Outs(g, rt) == {out \in Compass : GoesTo(g, rt, out)} \cup (IF InGroup(g, rt) THEN {Eject} ELSE {})
Ins(g, rt)  == {port \in Compass : ComesFrom(g, rt, port)} \cup (IF InGroup(g, rt) THEN {Eject} ELSE {})

Copies(g, p) ==
  {Req(Onwards(p.rt, out)) : out \in Outs(g, p.rt) \ {Eject}} \cup {Acc(p.rt) : out \in Outs(g, p.rt) \cap {Eject}}
Parts(g, rt) == {Ans([rt |-> rt, port |-> port]) : port \in Ins(g, rt)}

LEMMA PlaceIs ==
    ASSUME NEW g \in Groupings
    PROVE  /\ \A p \in Inputs : \A m : Req(p) \in Places /\ (Covers(g, Req(p), m) <=> ReqCovers(g, p, m))
                                   /\ Pos(g, Req(p)) = Distance(g.src, p.rt)
           /\ \A rt \in Routers : \A m : Acc(rt) \in Places /\ (Covers(g, Acc(rt), m) <=> InGroup(g, m) /\ m = rt)
                                     /\ Pos(g, Acc(rt)) = NumX + NumY + 1
           /\ \A p \in Inputs : \A m : Ans(p) \in Places /\ (Covers(g, Ans(p), m) <=> AnsCovers(g, p, m))
                                   /\ Pos(g, Ans(p)) = 3 * (NumX + NumY) - Distance(g.src, p.rt)
<1>1. ASSUME NEW p \in Inputs, NEW m
      PROVE  /\ Req(p) \in Places /\ (Covers(g, Req(p), m) <=> ReqCovers(g, p, m))
             /\ Pos(g, Req(p)) = Distance(g.src, p.rt)
  <2>1. Req(p).kind = "request" /\ Req(p).at = p
    BY DEF Req
  <2>2. Req(p) \in Places
    BY DEF Places, Req
  <2> QED
    BY <2>1, <2>2 DEF Covers, Pos
<1>2. ASSUME NEW rt \in Routers, NEW m
      PROVE  /\ Acc(rt) \in Places /\ (Covers(g, Acc(rt), m) <=> InGroup(g, m) /\ m = rt)
             /\ Pos(g, Acc(rt)) = NumX + NumY + 1
  <2>1. Acc(rt).kind = "accepted" /\ Acc(rt).at = [rt |-> rt, port |-> Eject]
    BY DEF Acc
  <2>2. Acc(rt) \in Places
    BY DEF Places, Acc, Inputs
  <2> QED
    BY <2>1, <2>2 DEF Covers, Pos
<1>3. ASSUME NEW p \in Inputs, NEW m
      PROVE  /\ Ans(p) \in Places /\ (Covers(g, Ans(p), m) <=> AnsCovers(g, p, m))
             /\ Pos(g, Ans(p)) = 3 * (NumX + NumY) - Distance(g.src, p.rt)
  <2>1. Ans(p).kind = "answer" /\ Ans(p).at = p
    BY DEF Ans
  <2>2. Ans(p) \in Places
    BY DEF Places, Ans
  <2> QED
    BY <2>1, <2>2 DEF Covers, Pos
<1> QED
  BY <1>1, <1>2, <1>3

LEMMA PlacesAre ==
    ASSUME NEW pl \in Places, NEW g \in Groupings, NEW m, Covers(g, pl, m)
    PROVE  \/ \E p \in Inputs : pl = Req(p)
           \/ \E rt \in Routers : pl = Acc(rt)
           \/ \E p \in Inputs : pl = Ans(p)
<1>1. pl = [kind |-> pl.kind, at |-> pl.at] /\ pl.at \in Inputs /\ pl.kind \in {"request", "accepted", "answer"}
  BY DEF Places
<1>2. CASE pl.kind = "accepted"
  <2>1. m \in Routers /\ pl.at = [rt |-> m, port |-> Eject]
    BY <1>2, CoversGroup DEF Covers
  <2> QED
    BY <1>1, <1>2, <2>1 DEF Acc
<1> QED
  BY <1>1, <1>2 DEF Req, Ans

\* Nothing is on the way between a request at its member, or its last request
\* accepted there, and its answer.
LEMMA Bounds ==
    ASSUME NEW g \in Groupings, NEW pl \in Places, NEW m \in Routers, Covers(g, pl, m)
    PROVE  /\ NumX \in Nat /\ NumY \in Nat
           /\ Distance(g.src, m) \in 0 .. NumX + NumY - 2
           /\ \/ Pos(g, pl) \in 0 .. Distance(g.src, m)
              \/ Pos(g, pl) = NumX + NumY + 1
              \/ Pos(g, pl) >= 3 * (NumX + NumY) - Distance(g.src, m)
<1>1. [rt |-> m, port |-> Eject] \in Inputs /\ pl.at \in Inputs /\ pl.kind \in {"request", "accepted", "answer"}
  BY DEF Inputs, Places
<1>2. Distance(g.src, m) \in 0 .. NumX + NumY - 2
  BY <1>1, CoversNear
<1>3. Distance(g.src, pl.at.rt) \in 0 .. NumX + NumY - 2
  BY <1>1, CoversNear
<1>4. NumX \in Nat /\ NumY \in Nat
  BY MeshAssumption
<1>5. pl.kind # "accepted" => Distance(g.src, pl.at.rt) <= Distance(g.src, m)
  BY <1>1, CoversNear DEF Covers
<1> QED
  BY <1>1, <1>2, <1>3, <1>4, <1>5 DEF Pos

LEMMA SpreadFollows ==
    ASSUME NEW g \in Groupings, NEW p \in Inputs, NEW m0 \in Routers, ReqCovers(g, p, m0)
    PROVE  Follows(g, {Req(p)}, Copies(g, p))
<1> DEFINE T == Copies(g, p)
<1>1. p.rt \in Routers
  BY DEF Inputs
<1>2. ASSUME NEW t \in T
      PROVE  \/ \E out \in Compass : GoesTo(g, p.rt, out) /\ t = Req(Onwards(p.rt, out))
             \/ InGroup(g, p.rt) /\ t = Acc(p.rt)
  <2>1. \/ \E out \in Outs(g, p.rt) \ {Eject} : t = Req(Onwards(p.rt, out))
        \/ \E out \in Outs(g, p.rt) \cap {Eject} : t = Acc(p.rt)
    BY <1>2 DEF Copies
  <2>2. \A out \in Outs(g, p.rt) : out # Eject => out \in Compass /\ GoesTo(g, p.rt, out)
    BY DEF Outs
  <2>3. Eject \in Outs(g, p.rt) => InGroup(g, p.rt)
    BY DEF Outs, Compass, North, West, Eject
  <2> QED
    BY <2>1, <2>2, <2>3
<1>3. ASSUME NEW out \in Compass, GoesTo(g, p.rt, out)
      PROVE  Req(Onwards(p.rt, out)) \in T
  BY <1>3 DEF Copies, Outs, Compass, Eject, North, West
<1>4. ASSUME InGroup(g, p.rt)
      PROVE  Acc(p.rt) \in T
  BY <1>4 DEF Copies, Outs
<1> HIDE DEF T
<1>5. ASSUME NEW out \in Compass, GoesTo(g, p.rt, out)
      PROVE  LET q == Onwards(p.rt, out)
             IN  /\ q \in Inputs /\ Distance(g.src, q.rt) = Distance(g.src, p.rt) + 1
                 /\ \E m \in Routers : ReqCovers(g, q, m)
                 /\ \A m \in Routers : ReqCovers(g, q, m) => ReqCovers(g, p, m)
  BY <1>5, GoesOnwards
<1>6. InGroup(g, p.rt) => ReqCovers(g, p, p.rt)
  <2>1. p.rt.x \in Int /\ p.rt.y \in Int /\ g.src.x \in Int /\ g.src.y \in Int
    BY <1>1, GroupCoordinates DEF Routers
  <2> QED
    BY <2>1 DEF ReqCovers, InGroup, Horizontal, Vertical, North, South, East, West, Eject
<1>7. Distance(g.src, p.rt) \in Int
  BY CoversNear
<1>8. {Req(p)} \subseteq Places /\ T \subseteq Places
  BY <1>1, <1>2, <1>5, PlaceIs
<1>9. ASSUME NEW m \in Routers
      PROVE  (\E f \in {Req(p)} : Covers(g, f, m)) <=> (\E t \in T : Covers(g, t, m))
  <2>1. ASSUME ReqCovers(g, p, m)
        PROVE  \E t \in T : Covers(g, t, m)
    <3>1. CASE m = p.rt
      BY <1>1, <1>4, <2>1, <3>1, PlaceIs DEF ReqCovers
    <3>2. ASSUME NEW out \in Compass, GoesTo(g, p.rt, out), ReqCovers(g, Onwards(p.rt, out), m)
          PROVE  \E t \in T : Covers(g, t, m)
      BY <1>3, <1>5, <3>2, PlaceIs
    <3> QED
      BY <2>1, <3>1, <3>2, GoesToAll
  <2>2. ASSUME NEW t \in T, Covers(g, t, m)
        PROVE  ReqCovers(g, p, m)
    <3>1. CASE InGroup(g, p.rt) /\ t = Acc(p.rt)
      BY <1>1, <1>6, <2>2, <3>1, PlaceIs
    <3>2. ASSUME NEW out \in Compass, GoesTo(g, p.rt, out), t = Req(Onwards(p.rt, out))
          PROVE  ReqCovers(g, p, m)
      BY <1>5, <2>2, <3>2, PlaceIs
    <3> QED
      BY <1>2, <3>1, <3>2
  <2> QED
    BY <2>1, <2>2, PlaceIs
<1>10. ASSUME NEW t \in T
       PROVE  \E m \in Routers : Covers(g, t, m)
  <2>1. CASE InGroup(g, p.rt) /\ t = Acc(p.rt)
    BY <1>1, <2>1, PlaceIs
  <2>2. ASSUME NEW out \in Compass, GoesTo(g, p.rt, out), t = Req(Onwards(p.rt, out))
        PROVE  \E m \in Routers : Covers(g, t, m)
    BY <1>5, <2>2, PlaceIs
  <2> QED
    BY <1>2, <2>1, <2>2
<1>11. ASSUME NEW m \in Routers, NEW out \in Compass, GoesTo(g, p.rt, out), ReqCovers(g, Onwards(p.rt, out), m)
       PROVE  Distance(g.src, p.rt) < Distance(g.src, m) /\ m # p.rt
  <2>1. /\ Onwards(p.rt, out) \in Inputs
        /\ Distance(g.src, Onwards(p.rt, out).rt) = Distance(g.src, p.rt) + 1
    BY <1>5, <1>11
  <2>2. Distance(g.src, Onwards(p.rt, out).rt) <= Distance(g.src, m)
    BY <1>11, <2>1, CoversNear
  <2>3. [rt |-> m, port |-> Eject] \in Inputs
    BY DEF Inputs
  <2>4. Distance(g.src, m) \in Int
    BY <2>3, CoversNear
  <2> QED
    BY <1>7, <2>1, <2>2, <2>4
<1>12. ASSUME NEW t \in T, NEW u \in T, NEW m \in Routers, Covers(g, t, m), Covers(g, u, m)
       PROVE  t = u
  <2>1. CASE t = Acc(p.rt)
    <3>1. m = p.rt
      BY <1>1, <1>12, <2>1, PlaceIs
    <3>2. ASSUME NEW out \in Compass, GoesTo(g, p.rt, out), u = Req(Onwards(p.rt, out))
          PROVE  FALSE
      BY <1>5, <1>11, <1>12, <3>1, <3>2, PlaceIs
    <3> QED
      BY <1>2, <2>1, <3>2
  <2>2. CASE u = Acc(p.rt)
    <3>1. m = p.rt
      BY <1>1, <1>12, <2>2, PlaceIs
    <3>2. ASSUME NEW out \in Compass, GoesTo(g, p.rt, out), t = Req(Onwards(p.rt, out))
          PROVE  FALSE
      BY <1>5, <1>11, <1>12, <3>1, <3>2, PlaceIs
    <3> QED
      BY <1>2, <2>2, <3>2
  <2>3. ASSUME NEW out \in Compass, GoesTo(g, p.rt, out), t = Req(Onwards(p.rt, out)),
               NEW out2 \in Compass, GoesTo(g, p.rt, out2), u = Req(Onwards(p.rt, out2))
        PROVE  t = u
    <3>1. /\ Onwards(p.rt, out) \in Inputs /\ Onwards(p.rt, out2) \in Inputs
          /\ Distance(g.src, Onwards(p.rt, out).rt) = Distance(g.src, Onwards(p.rt, out2).rt)
      BY <1>5, <2>3
    <3>2. ReqCovers(g, Onwards(p.rt, out), m) /\ ReqCovers(g, Onwards(p.rt, out2), m)
      BY <1>12, <2>3, <3>1, PlaceIs
    <3> QED
      BY <2>3, <3>1, <3>2, ReqUnique
  <2> QED
    BY <1>2, <2>1, <2>2, <2>3
<1>13. ASSUME NEW t \in T, NEW m \in Routers, Covers(g, t, m)
       PROVE  /\ Pos(g, Req(p)) < Pos(g, t)
              /\ \A pl \in Places : Covers(g, pl, m) /\ Pos(g, Req(p)) < Pos(g, pl) => Pos(g, t) <= Pos(g, pl)
  <2>1. Pos(g, Req(p)) = Distance(g.src, p.rt)
    BY PlaceIs
  <2>2. CASE t = Acc(p.rt)
    <3>1. m = p.rt /\ Pos(g, t) = NumX + NumY + 1
      BY <1>1, <1>13, <2>2, PlaceIs
    <3>2. /\ NumX \in Nat /\ NumY \in Nat /\ Distance(g.src, m) = Distance(g.src, p.rt)
          /\ Distance(g.src, m) \in 0 .. NumX + NumY - 2
      BY <1>1, <1>8, <1>13, <3>1, Bounds
    <3>3. ASSUME NEW pl \in Places, Covers(g, pl, m), Pos(g, Req(p)) < Pos(g, pl)
          PROVE  Pos(g, t) <= Pos(g, pl)
      <4>1. \/ Pos(g, pl) \in 0 .. Distance(g.src, m)
            \/ Pos(g, pl) = NumX + NumY + 1
            \/ Pos(g, pl) >= 3 * (NumX + NumY) - Distance(g.src, m)
        BY <3>3, Bounds
      <4>2. Pos(g, pl) \in Int
        BY PosType
      <4> QED
        BY <2>1, <3>1, <3>2, <3>3, <4>1, <4>2
    <3> QED
      BY <2>1, <3>1, <3>2, <3>3
  <2>3. ASSUME NEW out \in Compass, GoesTo(g, p.rt, out), t = Req(Onwards(p.rt, out))
        PROVE  Pos(g, t) = Distance(g.src, p.rt) + 1
    BY <1>5, <2>3, PlaceIs
  <2>4. CASE Pos(g, t) = Distance(g.src, p.rt) + 1
    BY <1>7, <2>1, <2>4, PosType
  <2> QED
    BY <1>2, <2>2, <2>3, <2>4
<1> QED
  BY <1>8, <1>9, <1>10, <1>12, <1>13 DEF Follows, T

LEMMA AnswerFollows ==
    ASSUME NEW g \in Groupings, NEW rt \in Routers, InGroup(g, rt)
    PROVE  Follows(g, {Acc(rt)}, {Ans([rt |-> rt, port |-> Eject])})
<1> DEFINE p == [rt |-> rt, port |-> Eject]
<1>1. p \in Inputs /\ p.rt = rt /\ p.port = Eject
  BY DEF Inputs
<1>2. \A m : AnsCovers(g, p, m) <=> InGroup(g, m) /\ m = rt
  BY <1>1 DEF AnsCovers, Horizontal, Vertical, North, South, East, West, Eject
<1> HIDE DEF p
<1>3. /\ Acc(rt) \in Places /\ Ans(p) \in Places
      /\ \A m : (Covers(g, Acc(rt), m) <=> InGroup(g, m) /\ m = rt) /\ (Covers(g, Ans(p), m) <=> InGroup(g, m) /\ m = rt)
      /\ Pos(g, Acc(rt)) = NumX + NumY + 1 /\ Pos(g, Ans(p)) = 3 * (NumX + NumY) - Distance(g.src, rt)
  BY <1>1, <1>2, PlaceIs
<1>4. ASSUME NEW pl \in Places, Covers(g, pl, rt), Pos(g, Acc(rt)) < Pos(g, pl)
      PROVE  Pos(g, Ans(p)) <= Pos(g, pl)
  BY <1>3, <1>4, Bounds
<1>5. Pos(g, Acc(rt)) < Pos(g, Ans(p))
  BY <1>3, Bounds
<1> QED
  BY <1>3, <1>4, <1>5 DEF Follows, p

LEMMA PartsCover ==
    ASSUME NEW g \in Groupings, NEW rt \in Routers
    PROVE  /\ Parts(g, rt) \subseteq Places
           /\ \A m \in Routers : (\E f \in Parts(g, rt) : Covers(g, f, m)) <=>
                                  \E port \in Compass \cup {Eject} : AnsCovers(g, [rt |-> rt, port |-> port], m)
           /\ \A f \in Parts(g, rt) : Pos(g, f) = 3 * (NumX + NumY) - Distance(g.src, rt)
           /\ \A port \in Compass \cup {Eject} :
                 port \in Ins(g, rt) <=> \E m \in Routers : AnsCovers(g, [rt |-> rt, port |-> port], m)
<1>1. \A port \in Compass \cup {Eject} :
         [rt |-> rt, port |-> port] \in Inputs /\ [rt |-> rt, port |-> port].rt = rt /\ [rt |-> rt, port |-> port].port = port
  BY DEF Inputs
<1>2. Ins(g, rt) \subseteq Compass \cup {Eject} /\ Eject \notin Compass
  BY DEF Ins, Compass, North, West, Eject
<1>3. ASSUME NEW port \in Compass \cup {Eject}
      PROVE  port \in Ins(g, rt) <=> \E m \in Routers : AnsCovers(g, [rt |-> rt, port |-> port], m)
  <2> DEFINE p == [rt |-> rt, port |-> port]
  <2>1. p \in Inputs /\ p.rt = rt /\ p.port = port
    BY <1>1
  <2> HIDE DEF p
  <2>2. /\ port = Eject => (InGroup(g, rt) <=> \E m \in Routers : AnsCovers(g, p, m))
        /\ port \in Compass => (ComesFrom(g, rt, port) <=> \E m \in Routers : AnsCovers(g, p, m))
    BY <2>1, ComesFromMembers
  <2>3. port \in Ins(g, rt) <=> \E m \in Routers : AnsCovers(g, p, m)
    BY <1>2, <2>2 DEF Ins
  <2> QED
    BY <2>3 DEF p
<1>4. ASSUME NEW port \in Ins(g, rt)
      PROVE  LET p == [rt |-> rt, port |-> port]
             IN  /\ p \in Inputs /\ Ans(p) \in Places /\ Pos(g, Ans(p)) = 3 * (NumX + NumY) - Distance(g.src, rt)
                 /\ \A m : Covers(g, Ans(p), m) <=> AnsCovers(g, p, m)
  BY <1>1, <1>2, <1>4, PlaceIs
<1>5. ASSUME NEW m \in Routers
      PROVE  (\E f \in Parts(g, rt) : Covers(g, f, m)) <=>
             \E port \in Compass \cup {Eject} : AnsCovers(g, [rt |-> rt, port |-> port], m)
  <2>1. (\E f \in Parts(g, rt) : Covers(g, f, m)) <=>
        \E port \in Ins(g, rt) : Covers(g, Ans([rt |-> rt, port |-> port]), m)
    BY DEF Parts
  <2> QED
    BY <1>2, <1>3, <1>4, <2>1
<1>6. Parts(g, rt) \subseteq Places /\ \A f \in Parts(g, rt) : Pos(g, f) = 3 * (NumX + NumY) - Distance(g.src, rt)
  BY <1>4 DEF Parts
<1> QED
  BY <1>3, <1>5, <1>6

LEMMA MergeFollows ==
    ASSUME NEW g \in Groupings, NEW rt \in Routers, NEW port0 \in Ins(g, rt), rt # g.src
    PROVE  /\ Onwards(rt, Back(g, rt)) \in Inputs
           /\ Follows(g, Parts(g, rt), {Ans(Onwards(rt, Back(g, rt)))})
<1> DEFINE q == Onwards(rt, Back(g, rt))
           F == Parts(g, rt)
           p0 == [rt |-> rt, port |-> port0]
<1>1. port0 \in Compass \cup {Eject}
  BY DEF Ins
<1>2. PICK m0 \in Routers : AnsCovers(g, p0, m0)
  BY <1>1, PartsCover
<1>3. p0 \in Inputs /\ p0.rt = rt
  BY <1>1 DEF Inputs
<1>4. /\ q \in Inputs /\ Distance(g.src, rt) = Distance(g.src, q.rt) + 1
      /\ \A m \in Routers : AnsCovers(g, q, m) <=>
            \E port \in Compass \cup {Eject} : AnsCovers(g, [rt |-> rt, port |-> port], m)
  <2> HIDE DEF p0
  <2> QED
    BY <1>2, <1>3, AnswersOnwards
<1> HIDE DEF q, p0
<1>5. /\ Ans(q) \in Places /\ Pos(g, Ans(q)) = 3 * (NumX + NumY) - Distance(g.src, q.rt)
      /\ \A m : Covers(g, Ans(q), m) <=> AnsCovers(g, q, m)
  BY <1>4, PlaceIs
<1>6. /\ F \subseteq Places
      /\ \A m \in Routers : (\E f \in F : Covers(g, f, m)) <=> Covers(g, Ans(q), m)
      /\ \A f \in F : Pos(g, f) = 3 * (NumX + NumY) - Distance(g.src, rt)
  BY <1>4, <1>5, PartsCover
<1> HIDE DEF F
<1>7. Distance(g.src, q.rt) \in Int /\ NumX \in Int /\ NumY \in Int
  BY <1>4, CoversNear, MeshAssumption
<1>8. \A f \in F : Pos(g, Ans(q)) = Pos(g, f) + 1
  BY <1>4, <1>5, <1>6, <1>7
<1>9. \E m \in Routers : Covers(g, Ans(q), m)
  BY <1>1, <1>2, <1>4, <1>5 DEF p0
<1>10. ASSUME NEW f \in F
       PROVE  /\ Pos(g, f) < Pos(g, Ans(q))
              /\ \A pl \in Places : Pos(g, f) < Pos(g, pl) => Pos(g, Ans(q)) <= Pos(g, pl)
  BY <1>5, <1>6, <1>8, PosType
<1>11. Follows(g, F, {Ans(q)})
  BY <1>5, <1>6, <1>9, <1>10 DEF Follows
<1> QED
  BY <1>4, <1>11 DEF q, F

-----------------------------------------------------------------------------
(* What is merged at a router *)

LEMMA Least ==
    ASSUME NEW T, T \subseteq Nat, T # {}
    PROVE  \E n \in T : \A k \in T : n <= k
<1>1. PICK n \in T : \A k \in T : ~ (<<k, n>> \in OpToRel(<, Nat))
  BY NatLessThanWellFounded, WFMin
<1>2. \A k \in T : ~ (k < n)
  BY <1>1 DEF OpToRel
<1> QED
  BY <1>2

LEMMA InsPlace ==
    ASSUME NEW g \in Groupings, NEW rt \in Routers, NEW port \in Ins(g, rt)
    PROVE  LET p == [rt |-> rt, port |-> port]
           IN  /\ p \in Inputs /\ p.rt = rt /\ p.port = port /\ Ans(p) \in Places
               /\ Pos(g, Ans(p)) = 3 * (NumX + NumY) - Distance(g.src, rt)
               /\ \A m : Covers(g, Ans(p), m) <=> AnsCovers(g, p, m)
               /\ \E m \in Routers : AnsCovers(g, p, m)
<1> DEFINE p == [rt |-> rt, port |-> port]
<1>1. port \in Compass \cup {Eject}
  BY DEF Ins
<1>2. p \in Inputs /\ p.rt = rt /\ p.port = port
  BY <1>1 DEF Inputs
<1>3. \E m \in Routers : AnsCovers(g, p, m)
  BY <1>1, PartsCover
<1> HIDE DEF p
<1>4. /\ p \in Inputs /\ p.rt = rt /\ p.port = port /\ Ans(p) \in Places
      /\ Pos(g, Ans(p)) = 3 * (NumX + NumY) - Distance(g.src, rt)
      /\ \A m : Covers(g, Ans(p), m) <=> AnsCovers(g, p, m)
      /\ \E m \in Routers : AnsCovers(g, p, m)
  BY <1>2, <1>3, PlaceIs
<1> QED
  BY <1>4 DEF p

\* A place behind an answer holds an answer that is closer to the sender.
LEMMA BehindAnswer ==
    ASSUME NEW g \in Groupings, NEW p \in Inputs, NEW pl \in Places, NEW m \in Routers,
           Covers(g, pl, m), Pos(g, Ans(p)) < Pos(g, pl)
    PROVE  pl.at \in Inputs /\ pl = Ans(pl.at) /\ Distance(g.src, pl.at.rt) < Distance(g.src, p.rt)
<1>1. Pos(g, Ans(p)) = 3 * (NumX + NumY) - Distance(g.src, p.rt) /\ Distance(g.src, p.rt) \in 0 .. NumX + NumY - 2
      /\ NumX \in Nat /\ NumY \in Nat
  BY PlaceIs, CoversNear, MeshAssumption
<1>2. ASSUME NEW q \in Inputs, pl = Req(q)
      PROVE  FALSE
  <2>1. Pos(g, pl) = Distance(g.src, q.rt) /\ Distance(g.src, q.rt) \in 0 .. NumX + NumY - 2
    BY <1>2, PlaceIs, CoversNear
  <2> QED
    BY <1>1, <2>1
<1>3. ASSUME NEW rt \in Routers, pl = Acc(rt)
      PROVE  FALSE
  <2>1. Pos(g, pl) = NumX + NumY + 1
    BY <1>3, PlaceIs
  <2> QED
    BY <1>1, <2>1
<1>4. PICK q \in Inputs : pl = Ans(q)
  BY <1>2, <1>3, PlacesAre
<1>5. pl.at = q
  BY <1>4 DEF Ans
<1>6. Pos(g, pl) = 3 * (NumX + NumY) - Distance(g.src, q.rt) /\ Distance(g.src, q.rt) \in 0 .. NumX + NumY - 2
  BY <1>4, PlaceIs, CoversNear
<1> QED
  BY <1>1, <1>4, <1>5, <1>6

\* The first answers of the inputs that a router waits for are to one request.
LEMMA JoinAgree ==
    ASSUME NEW g \in Groupings, NEW H, NEW s \in Nat, NEW done, WayInv(g, H, s, done),
           NEW rt \in Routers, NEW a \in Ins(g, rt), NEW b \in Ins(g, rt),
           NEW n \in H[Ans([rt |-> rt, port |-> a])], NEW k \in H[Ans([rt |-> rt, port |-> b])],
           \A i \in H[Ans([rt |-> rt, port |-> b])] : k <= i
    PROVE  k <= n
<1> DEFINE p == [rt |-> rt, port |-> a]
           q == [rt |-> rt, port |-> b]
<1>1. /\ p \in Inputs /\ p.rt = rt /\ Ans(p) \in Places
      /\ \A m : Covers(g, Ans(p), m) <=> AnsCovers(g, p, m)
      /\ \E m \in Routers : AnsCovers(g, p, m)
  BY InsPlace
<1>2. /\ q \in Inputs /\ q.rt = rt /\ Ans(q) \in Places
      /\ \A m : Covers(g, Ans(q), m) <=> AnsCovers(g, q, m)
      /\ \E m \in Routers : AnsCovers(g, q, m)
  BY InsPlace
<1>3. n \in H[Ans(p)] /\ k \in H[Ans(q)] /\ \A i \in H[Ans(q)] : k <= i
  OBVIOUS
<1> HIDE DEF p, q
<1>4. n \in 1 .. s /\ n \notin done /\ k \in 1 .. s
  BY <1>1, <1>2, <1>3 DEF WayInv, Located
<1> SUFFICES ASSUME n < k PROVE FALSE
  BY <1>4
<1>5. PICK m \in Routers : AnsCovers(g, q, m)
  BY <1>2
<1>6. InGroup(g, m)
  BY <1>5 DEF AnsCovers
<1>7. PICK pl \in Places : n \in H[pl] /\ Covers(g, pl, m)
  BY <1>4, <1>6 DEF WayInv, Located
<1>8. Pos(g, Ans(q)) <= Pos(g, pl)
  BY <1>2, <1>3, <1>5, <1>7 DEF WayInv, Ordered
<1>9. pl # Ans(q)
  BY <1>3, <1>4, <1>7
<1>10. Pos(g, Ans(q)) # Pos(g, pl)
  BY <1>2, <1>5, <1>7, <1>9, PlaceUnique
<1>11. Pos(g, Ans(q)) < Pos(g, pl)
  BY <1>2, <1>8, <1>10, PosType
<1>12. pl.at \in Inputs /\ pl = Ans(pl.at) /\ Distance(g.src, pl.at.rt) < Distance(g.src, q.rt)
  BY <1>2, <1>7, <1>11, BehindAnswer
<1>13. PICK j \in Routers : AnsCovers(g, p, j)
  BY <1>1
<1>14. AnsCovers(g, pl.at, m)
  BY <1>7, <1>12, PlaceIs
<1>15. AnsCovers(g, pl.at, j)
  BY <1>1, <1>2, <1>5, <1>12, <1>13, <1>14, AnsJoin
<1>16. Covers(g, pl, j) /\ Covers(g, Ans(p), j)
  BY <1>1, <1>12, <1>13, <1>15, PlaceIs
<1>17. pl = Ans(p)
  BY <1>1, <1>3, <1>7, <1>16 DEF WayInv, OnePlace
<1>18. pl.at = p
  BY <1>17 DEF Ans
<1>19. Distance(g.src, rt) \in Int
  BY <1>1, CoversNear
<1> QED
  BY <1>1, <1>2, <1>12, <1>18, <1>19

\* When there are only answers left, one router has all that it waits for.
LEMMA Progress ==
    ASSUME NEW g \in Groupings, NEW H, NEW s \in Nat, NEW done, WayInv(g, H, s, done),
           \A p \in Inputs : H[Req(p)] = {}, \A rt \in Routers : H[Acc(rt)] = {},
           NEW n0 \in 1 .. s, n0 \notin done
    PROVE  \E rt \in Routers, n \in Nat :
              /\ Ins(g, rt) # {}
              /\ \A port \in Ins(g, rt) : LET A == H[Ans([rt |-> rt, port |-> port])] IN n \in A /\ \A k \in A : n <= k
<1>1. PICK n \in 1 .. s : n \notin done /\ \A k \in 1 .. s : k \notin done => n <= k
  <2> DEFINE T == {k \in 1 .. s : k \notin done}
  <2>1. T \subseteq Nat /\ T # {}
    OBVIOUS
  <2> HIDE DEF T
  <2>2. PICK n \in T : \A k \in T : n <= k
    BY <2>1, Least
  <2> QED
    BY <2>2 DEF T
<1>2. ASSUME NEW pl \in Places, NEW k \in H[pl]
      PROVE  n <= k
  BY <1>1, <1>2 DEF WayInv, Located
<1>3. ASSUME NEW m \in Routers, InGroup(g, m)
      PROVE  \E p \in Inputs : n \in H[Ans(p)] /\ AnsCovers(g, p, m)
  <2>1. PICK pl \in Places : n \in H[pl] /\ Covers(g, pl, m)
    BY <1>1, <1>3 DEF WayInv, Located
  <2>2. PICK p \in Inputs : pl = Ans(p)
    BY <2>1, PlacesAre
  <2> QED
    BY <2>1, <2>2, PlaceIs
<1>4. PICK p \in Inputs : /\ n \in H[Ans(p)] /\ \E m \in Routers : AnsCovers(g, p, m)
                          /\ \A q \in Inputs : n \in H[Ans(q)] => Pos(g, Ans(p)) <= Pos(g, Ans(q))
  <2> DEFINE T == {Pos(g, Ans(q)) : q \in {q \in Inputs : n \in H[Ans(q)]}}
  <2>1. \A q \in Inputs : Ans(q) \in Places /\ Pos(g, Ans(q)) \in Nat
    BY PlaceIs, PosType, MeshAssumption
  <2>2. PICK x \in g.xs, y \in g.ys : TRUE
    BY GroupCoordinates
  <2>3. InGroup(g, [x |-> x, y |-> y]) /\ [x |-> x, y |-> y] \in Routers
    BY <2>2, GroupCoordinates DEF InGroup
  <2>4. T \subseteq Nat /\ T # {}
    BY <1>3, <2>1, <2>3
  <2>5. PICK d \in T : \A k \in T : d <= k
    BY <2>4, Least
  <2>6. PICK p \in Inputs : n \in H[Ans(p)] /\ d = Pos(g, Ans(p))
    BY <2>5
  <2>7. \E m \in Routers : AnsCovers(g, p, m)
    BY <2>1, <2>6, PlaceIs DEF WayInv, Located
  <2> QED
    BY <2>5, <2>6, <2>7
<1>5. p.rt \in Routers /\ p.port \in Compass \cup {Eject} /\ p = [rt |-> p.rt, port |-> p.port]
  BY DEF Inputs
<1>6. p.port \in Ins(g, p.rt)
  BY <1>4, <1>5, PartsCover
<1>7. ASSUME NEW port \in Ins(g, p.rt)
      PROVE  n \in H[Ans([rt |-> p.rt, port |-> port])]
  <2> DEFINE r == [rt |-> p.rt, port |-> port]
  <2>1. r \in Inputs /\ r.rt = p.rt /\ \E m \in Routers : AnsCovers(g, r, m)
    BY <1>5, <1>7, InsPlace
  <2> HIDE DEF r
  <2>2. PICK k \in Routers : AnsCovers(g, r, k)
    BY <2>1
  <2>3. PICK q \in Inputs : n \in H[Ans(q)] /\ AnsCovers(g, q, k)
    BY <1>3, <2>2 DEF AnsCovers
  <2>4. Distance(g.src, q.rt) <= Distance(g.src, p.rt)
    <3>1. Pos(g, Ans(p)) <= Pos(g, Ans(q))
      BY <1>4, <2>3
    <3>2. /\ Pos(g, Ans(p)) = 3 * (NumX + NumY) - Distance(g.src, p.rt)
          /\ Pos(g, Ans(q)) = 3 * (NumX + NumY) - Distance(g.src, q.rt)
          /\ Distance(g.src, p.rt) \in Int /\ Distance(g.src, q.rt) \in Int /\ NumX \in Int /\ NumY \in Int
      BY PlaceIs, CoversNear, MeshAssumption
    <3> QED
      BY <3>1, <3>2
  <2>5. CASE Distance(g.src, q.rt) = Distance(g.src, p.rt)
    BY <2>1, <2>2, <2>3, <2>5, AnsUnique DEF r
  <2>6. CASE Distance(g.src, q.rt) < Distance(g.src, p.rt)
    <3>1. PICK m \in Routers : AnsCovers(g, p, m)
      BY <1>4
    <3>2. AnsCovers(g, q, m)
      BY <2>1, <2>2, <2>3, <2>6, <3>1, AnsJoin
    <3>3. Ans(p) = Ans(q)
      BY <1>4, <2>3, <3>1, <3>2, PlaceIs DEF WayInv, OnePlace
    <3>4. p = q
      BY <3>3 DEF Ans
    <3>5. Distance(g.src, p.rt) \in Int
      BY CoversNear
    <3> QED
      BY <2>6, <3>4, <3>5
  <2>7. Distance(g.src, p.rt) \in Int /\ Distance(g.src, q.rt) \in Int
    BY CoversNear
  <2> QED
    BY <2>4, <2>5, <2>6, <2>7
<1>8. \A port \in Ins(g, p.rt) : Ans([rt |-> p.rt, port |-> port]) \in Places
  BY <1>5, InsPlace
<1> QED
  BY <1>1, <1>2, <1>5, <1>6, <1>7, <1>8

-----------------------------------------------------------------------------
(* The masks of the routers *)

GroupOf(r) ==
  [src |-> r.src, xs |-> Group[r.dst.x][r.mask.x], ys |-> Group[r.dst.y][r.mask.y]]

LEMMA CoordinatesFit ==
    /\ Coords \subseteq Nat
    /\ \A c \in Coords : c < 2^CoordBits
    /\ 2^CoordBits \in Nat
    /\ \A rt \in Routers : rt.x \in Coords /\ rt.y \in Coords /\ rt.x \in Int /\ rt.y \in Int
<1>1. /\ 2^CoordBits \in Nat /\ NumX <= 2^CoordBits /\ NumY <= 2^CoordBits
      /\ NumX \in Nat /\ NumY \in Nat
  BY CollectiveAssumption, MeshAssumption
<1>2. PICK top \in Nat : top = 2^CoordBits
  BY <1>1
<1>3. Coords = 0 .. top - 1
  BY <1>2 DEF Coords
<1> QED
  BY <1>1, <1>2, <1>3 DEF Routers

LEMMA GroupIs ==
    ASSUME NEW id \in Coords, NEW mask \in Coords
    PROVE  /\ Group[id][mask] =
                {c \in Coords : \A k \in 0 .. CoordBits - 1 : Bit(mask, k) = 1 \/ Bit(c, k) = Bit(id, k)}
           /\ id \in Group[id][mask]
           /\ Group[id][mask] \subseteq Coords
<1>1. Group[id] = [m \in Coords |->
            {c \in Coords : \A k \in 0 .. CoordBits - 1 : Bit(m, k) = 1 \/ Bit(c, k) = Bit(id, k)}]
  BY DEF Group
<1>2. Group[id][mask] =
        {c \in Coords : \A k \in 0 .. CoordBits - 1 : Bit(mask, k) = 1 \/ Bit(c, k) = Bit(id, k)}
  BY <1>1
<1> QED
  BY <1>2

\* Whichever member an answer is from, its mask describes the same group.
LEMMA SameGroup ==
    ASSUME NEW id \in Coords, NEW mask \in Coords, NEW c \in Group[id][mask]
    PROVE  Group[c][mask] = Group[id][mask]
<1>1. c \in Coords /\ \A k \in 0 .. CoordBits - 1 : Bit(mask, k) = 1 \/ Bit(c, k) = Bit(id, k)
  BY GroupIs
<1>2. Group[c][mask] =
        {d \in Coords : \A k \in 0 .. CoordBits - 1 : Bit(mask, k) = 1 \/ Bit(d, k) = Bit(c, k)}
  BY <1>1, GroupIs
<1>3. Group[id][mask] =
        {d \in Coords : \A k \in 0 .. CoordBits - 1 : Bit(mask, k) = 1 \/ Bit(d, k) = Bit(id, k)}
  BY GroupIs
<1> QED
  BY <1>1, <1>2, <1>3

LEMMA EndsOfGroup ==
    ASSUME NEW id \in Coords, NEW mask \in Coords
    PROVE  /\ last[id][mask] \in Group[id][mask] /\ \A d \in Group[id][mask] : d <= last[id][mask]
           /\ first[id][mask] \in Group[id][mask] /\ \A d \in Group[id][mask] : first[id][mask] <= d
<1>1. PICK top \in Nat : top = 2^CoordBits
  BY CoordinatesFit
<1>2. Group[id][mask] \subseteq Nat /\ id \in Group[id][mask] /\ \A c \in Group[id][mask] : c < top
  BY <1>1, GroupIs, CoordinatesFit
<1>3. \E c \in Group[id][mask] : \A d \in Group[id][mask] : c <= d
  BY <1>2, Least
<1>4. \E c \in Group[id][mask] : \A d \in Group[id][mask] : d <= c
  <2> DEFINE T == {top - c : c \in Group[id][mask]}
  <2>1. T \subseteq Nat /\ T # {}
    BY <1>2
  <2> HIDE DEF T
  <2>2. PICK n \in T : \A k \in T : n <= k
    BY <2>1, Least
  <2>3. PICK c \in Group[id][mask] : n = top - c
    BY <2>2 DEF T
  <2>4. \A d \in Group[id][mask] : top - c <= top - d
    BY <2>2, <2>3 DEF T
  <2> QED
    BY <1>2, <2>3, <2>4
<1>5. last[id] = [m \in Coords |-> CHOOSE c \in Group[id][m] : \A d \in Group[id][m] : d <= c]
  BY DEF last
<1>6. last[id][mask] = CHOOSE c \in Group[id][mask] : \A d \in Group[id][mask] : d <= c
  BY <1>5
<1>7. first[id] = [m \in Coords |-> CHOOSE c \in Group[id][m] : \A d \in Group[id][m] : c <= d]
  BY DEF first
<1>8. first[id][mask] = CHOOSE c \in Group[id][mask] : \A d \in Group[id][mask] : c <= d
  BY <1>7
<1>9. last[id][mask] \in Group[id][mask] /\ \A d \in Group[id][mask] : d <= last[id][mask]
  BY <1>4, <1>6
<1>10. first[id][mask] \in Group[id][mask] /\ \A d \in Group[id][mask] : first[id][mask] <= d
  BY <1>3, <1>8
<1> QED
  BY <1>9, <1>10

LEMMA WithinIs ==
    ASSUME NEW id \in Coords, NEW mask \in Coords, NEW c \in Int, NEW from, NEW ahead
    PROVE  /\ ahead = 1 => (Within(c, from, id, mask, ahead) <=> c >= from /\ \E d \in Group[id][mask] : d > c)
           /\ ahead # 1 => (Within(c, from, id, mask, ahead) <=> c <= from /\ \E d \in Group[id][mask] : d < c)
<1>1. /\ last[id][mask] \in Group[id][mask] /\ \A d \in Group[id][mask] : d <= last[id][mask]
      /\ first[id][mask] \in Group[id][mask] /\ \A d \in Group[id][mask] : first[id][mask] <= d
  BY EndsOfGroup
<1>2. Group[id][mask] \subseteq Nat
  BY GroupIs, CoordinatesFit
<1>3. c < last[id][mask] <=> \E d \in Group[id][mask] : d > c
  BY <1>1, <1>2
<1>4. c > first[id][mask] <=> \E d \in Group[id][mask] : d < c
  BY <1>1, <1>2
<1> QED
  BY <1>3, <1>4 DEF Within

\* What a mask says of a direction, seen from the sender src.
LEMMA AlongIs ==
    ASSUME NEW g \in Groupings, NEW rt \in Routers, NEW id \in Routers, NEW mask \in [x : Coords, y : Coords],
           g.xs = Group[id.x][mask.x], g.ys = Group[id.y][mask.y],
           NEW port \in Compass
    PROVE  Along(port, rt, g.src, id, mask) <=> Further(g, rt, port)
<1>1. /\ rt.x \in Int /\ rt.y \in Int /\ id.x \in Coords /\ id.y \in Coords
      /\ mask.x \in Coords /\ mask.y \in Coords
  BY CoordinatesFit
<1>2. /\ ToX(port) = 1 => (Within(rt.x, g.src.x, id.x, mask.x, ToX(port)) <=> rt.x >= g.src.x /\ \E d \in g.xs : d > rt.x)
      /\ ToX(port) # 1 => (Within(rt.x, g.src.x, id.x, mask.x, ToX(port)) <=> rt.x <= g.src.x /\ \E d \in g.xs : d < rt.x)
      /\ ToY(port) = 1 => (Within(rt.y, g.src.y, id.y, mask.y, ToY(port)) <=> rt.y >= g.src.y /\ \E d \in g.ys : d > rt.y)
      /\ ToY(port) # 1 => (Within(rt.y, g.src.y, id.y, mask.y, ToY(port)) <=> rt.y <= g.src.y /\ \E d \in g.ys : d < rt.y)
  BY <1>1, WithinIs
<1>3. port = North \/ port = South \/ port = East \/ port = West
  BY DEF Compass, North, South, East, West
<1>4. CASE port = East
  <2>1. ToX(port) = 1 /\ port \in Horizontal
    BY <1>4 DEF ToX, Horizontal
  <2>2. Further(g, rt, port) <=> rt.x >= g.src.x /\ \E d \in g.xs : d > rt.x
    BY <1>4 DEF Further, North, South, East, West
  <2> QED
    BY <1>2, <2>1, <2>2 DEF Along
<1>5. CASE port = West
  <2>1. ToX(port) # 1 /\ port \in Horizontal
    BY <1>5 DEF ToX, Horizontal, East, West
  <2>2. Further(g, rt, port) <=> rt.x <= g.src.x /\ \E d \in g.xs : d < rt.x
    BY <1>5 DEF Further, North, South, East, West
  <2> QED
    BY <1>2, <2>1, <2>2 DEF Along
<1>6. CASE port = North
  <2>1. ToY(port) = 1 /\ port \notin Horizontal
    BY <1>6 DEF ToY, Horizontal, North, East, West
  <2>2. Further(g, rt, port) <=> rt.y >= g.src.y /\ \E d \in g.ys : d > rt.y
    BY <1>6 DEF Further, North, South, East, West
  <2> QED
    BY <1>2, <2>1, <2>2 DEF Along
<1>7. CASE port = South
  <2>1. ToY(port) # 1 /\ port \notin Horizontal
    BY <1>7 DEF ToY, Horizontal, North, South, East, West
  <2>2. Further(g, rt, port) <=> rt.y <= g.src.y /\ \E d \in g.ys : d < rt.y
    BY <1>7 DEF Further, North, South, East, West
  <2> QED
    BY <1>2, <2>1, <2>2 DEF Along
<1> QED
  BY <1>3, <1>4, <1>5, <1>6, <1>7

LEMMA CollectiveIs ==
    ASSUME NEW r \in Collectives
    PROVE  /\ r.src \in Routers /\ r.dst \in Routers /\ r.mask \in [x : Coords, y : Coords]
           /\ GroupOf(r) \in Groupings
           /\ GroupOf(r).src = r.src /\ GroupOf(r).xs = Group[r.dst.x][r.mask.x]
           /\ GroupOf(r).ys = Group[r.dst.y][r.mask.y]
<1>1. /\ r.src \in Routers /\ r.dst \in Routers /\ r.mask \in [x : Coords, y : Coords]
      /\ Group[r.dst.x][r.mask.x] \subseteq 0 .. NumX - 1
      /\ Group[r.dst.y][r.mask.y] \subseteq 0 .. NumY - 1
  BY DEF Collectives
<1>2. r.dst.x \in Group[r.dst.x][r.mask.x] /\ r.dst.y \in Group[r.dst.y][r.mask.y]
  BY <1>1, GroupIs, CoordinatesFit
<1> QED
  BY <1>1, <1>2 DEF GroupOf, Groupings

\* The routers copy a request to where there are members, ...
LEMMA RouteOutputIs ==
    ASSUME NEW r \in Collectives, NEW rt \in Routers
    PROVE  route_output(r, rt) = Outs(GroupOf(r), rt)
<1> DEFINE g == GroupOf(r)
<1>1. /\ r.dst \in Routers /\ r.mask \in [x : Coords, y : Coords] /\ g \in Groupings
      /\ g.src = r.src /\ g.xs = Group[r.dst.x][r.mask.x] /\ g.ys = Group[r.dst.y][r.mask.y]
  BY CollectiveIs
<1> HIDE DEF g
<1>2. \A port \in Compass : Along(port, rt, r.src, r.dst, r.mask) <=> Further(g, rt, port)
  BY <1>1, AlongIs
<1>3. Horizontal \subseteq Compass /\ Vertical \subseteq Compass /\ Eject \notin Compass
      /\ Horizontal \cap Vertical = {}
      /\ \A port \in Compass : port \in Horizontal \/ port \in Vertical
  BY DEF Compass, Horizontal, Vertical, North, South, East, West, Eject
<1>4. matched(rt.x, r.dst.x, r.mask.x) <=> rt.x \in g.xs
  BY <1>1 DEF matched
<1>5. matched(rt.y, r.dst.y, r.mask.y) <=> rt.y \in g.ys
  BY <1>1 DEF matched
<1>6. ASSUME NEW port \in Compass
      PROVE  port \in route_output(r, rt) <=> GoesTo(g, rt, port)
  BY <1>1, <1>2, <1>3, <1>4, <1>5 DEF route_output, GoesTo
<1>7. Eject \in route_output(r, rt) <=> InGroup(g, rt)
  BY <1>3, <1>4, <1>5 DEF route_output, InGroup
<1>8. route_output(r, rt) \subseteq Compass \cup {Eject}
  BY <1>3 DEF route_output
<1>9. route_output(r, rt) = Outs(g, rt)
  BY <1>3, <1>6, <1>7, <1>8 DEF Outs
<1> QED
  BY <1>9 DEF g

\* ... and wait for answers from where there are members, whoever answered first.
LEMMA ExpectedIs ==
    ASSUME NEW r \in Collectives, NEW rt \in Routers, NEW s \in Routers, InGroup(GroupOf(r), s)
    PROVE  route_expected_input([src |-> s, dst |-> r.src, mask |-> r.mask], rt) = Ins(GroupOf(r), rt)
<1> DEFINE g == GroupOf(r)
           f == [src |-> s, dst |-> r.src, mask |-> r.mask]
<1>1. /\ r.dst \in Routers /\ r.mask \in [x : Coords, y : Coords] /\ g \in Groupings
      /\ g.src = r.src /\ g.xs = Group[r.dst.x][r.mask.x] /\ g.ys = Group[r.dst.y][r.mask.y]
      /\ s.x \in g.xs /\ s.y \in g.ys
  BY CollectiveIs DEF InGroup
<1>2. f.src = s /\ f.dst = g.src /\ f.mask = r.mask
  BY <1>1
<1> HIDE DEF g, f
<1>3. g.xs = Group[s.x][r.mask.x] /\ g.ys = Group[s.y][r.mask.y]
  <2>1. r.dst.x \in Coords /\ r.dst.y \in Coords /\ r.mask.x \in Coords /\ r.mask.y \in Coords
    BY <1>1, CoordinatesFit
  <2> QED
    BY <1>1, <2>1, SameGroup
<1>4. \A port \in Compass : Along(port, rt, f.dst, f.src, f.mask) <=> Further(g, rt, port)
  BY <1>1, <1>2, <1>3, AlongIs
<1>5. Horizontal \subseteq Compass /\ Vertical \subseteq Compass /\ Eject \notin Compass
      /\ Horizontal \cap Vertical = {}
      /\ \A port \in Compass : port \in Horizontal \/ port \in Vertical
  BY DEF Compass, Horizontal, Vertical, North, South, East, West, Eject
<1>6. matched(rt.x, f.src.x, f.mask.x) <=> rt.x \in g.xs
  BY <1>2, <1>3 DEF matched
<1>7. matched(rt.y, f.src.y, f.mask.y) <=> rt.y \in g.ys
  BY <1>2, <1>3 DEF matched
<1>8. ASSUME NEW port \in Compass
      PROVE  port \in route_expected_input(f, rt) <=> ComesFrom(g, rt, port)
  BY <1>2, <1>4, <1>5, <1>6, <1>7 DEF route_expected_input, ComesFrom
<1>9. Eject \in route_expected_input(f, rt) <=> InGroup(g, rt)
  BY <1>5, <1>6, <1>7 DEF route_expected_input, InGroup
<1>10. route_expected_input(f, rt) \subseteq Compass \cup {Eject}
  BY <1>5 DEF route_expected_input
<1>11. route_expected_input(f, rt) = Ins(g, rt)
  BY <1>5, <1>8, <1>9, <1>10 DEF Ins
<1> QED
  BY <1>11 DEF f, g

-----------------------------------------------------------------------------
(* Queues of numbers in order *)

Contents(s)   == {s[k] : k \in DOMAIN s}
Increasing(s) == \A j, k \in DOMAIN s : j < k => s[j] < s[k]

Held(queues, q) == IF q \in DOMAIN queues THEN Contents(queues[q]) ELSE {}

InOrder(queues) ==
  \A q \in DOMAIN queues : queues[q] \in Seq(Nat) /\ queues[q] # <<>> /\ Increasing(queues[q])

(* The numbers of the requests in queues of answers. *)
Keys(s)         == [k \in DOMAIN s |-> s[k].n]
Numbers(queues) == [q \in DOMAIN queues |-> Keys(queues[q])]

LEMMA TailInOrder ==
    ASSUME NEW s \in Seq(Nat), s # <<>>, Increasing(s)
    PROVE  /\ Tail(s) \in Seq(Nat) /\ Increasing(Tail(s))
           /\ Contents(Tail(s)) = Contents(s) \ {Head(s)}
           /\ Head(s) \in Contents(s) /\ Head(s) \in Nat /\ \A k \in Contents(s) : Head(s) <= k
           /\ Len(s) > 1 <=> Tail(s) # <<>>
<1>1. /\ Len(s) \in Nat \ {0} /\ DOMAIN s = 1 .. Len(s) /\ Head(s) = s[1]
      /\ \A k \in 1 .. Len(s) : s[k] \in Nat
  OBVIOUS
<1>2. /\ Tail(s) \in Seq(Nat) /\ Len(Tail(s)) = Len(s) - 1 /\ DOMAIN Tail(s) = 1 .. Len(s) - 1
      /\ \A k \in 1 .. Len(s) - 1 : Tail(s)[k] = s[k + 1]
  OBVIOUS
<1>3. \A j, k \in 1 .. Len(s) : j < k => s[j] < s[k]
  BY <1>1 DEF Increasing
<1>4. Increasing(Tail(s))
  <2>1. ASSUME NEW j \in 1 .. Len(s) - 1, NEW k \in 1 .. Len(s) - 1, j < k
        PROVE  Tail(s)[j] < Tail(s)[k]
    <3>1. j + 1 \in 1 .. Len(s) /\ k + 1 \in 1 .. Len(s) /\ j + 1 < k + 1
      BY <1>1, <2>1
    <3> QED
      BY <1>2, <1>3, <3>1
  <2> QED
    BY <1>2, <2>1 DEF Increasing
<1>5. \A k \in Contents(s) : Head(s) <= k
  BY <1>1, <1>3 DEF Contents
<1>6. Head(s) \in Contents(s) /\ Head(s) \in Nat
  BY <1>1 DEF Contents
<1>7. Contents(Tail(s)) = Contents(s) \ {Head(s)}
  <2>1. ASSUME NEW j \in 1 .. Len(s) - 1
        PROVE  Tail(s)[j] \in Contents(s) /\ Tail(s)[j] # Head(s)
    <3>1. j + 1 \in 1 .. Len(s) /\ 1 \in 1 .. Len(s) /\ 1 < j + 1
      BY <1>1, <2>1
    <3>2. s[1] < s[j + 1] /\ s[1] \in Nat /\ s[j + 1] \in Nat
      BY <1>1, <1>3, <3>1
    <3>3. Tail(s)[j] = s[j + 1]
      BY <1>2
    <3> QED
      BY <1>1, <3>1, <3>2, <3>3 DEF Contents
  <2>2. ASSUME NEW j \in 1 .. Len(s), s[j] # Head(s)
        PROVE  s[j] \in Contents(Tail(s))
    <3>1. j # 1
      BY <1>1, <2>2
    <3>2. j - 1 \in 1 .. Len(s) - 1 /\ (j - 1) + 1 = j
      BY <1>1, <2>2, <3>1
    <3>3. Tail(s)[j - 1] = s[j]
      BY <1>2, <3>2
    <3> QED
      BY <1>2, <3>2, <3>3 DEF Contents
  <2>3. \A c : c \in Contents(Tail(s)) <=> \E j \in 1 .. Len(s) - 1 : c = Tail(s)[j]
    BY <1>2 DEF Contents
  <2>4. \A c : c \in Contents(s) <=> \E j \in 1 .. Len(s) : c = s[j]
    BY <1>1 DEF Contents
  <2>5. \A c : c \in Contents(Tail(s)) => c \in Contents(s) /\ c # Head(s)
    BY <2>1, <2>3
  <2>6. \A c : c \in Contents(s) /\ c # Head(s) => c \in Contents(Tail(s))
    BY <2>2, <2>4
  <2> QED
    BY <2>5, <2>6
<1>8. Len(s) > 1 <=> Tail(s) # <<>>
  <2>1. CASE Len(s) = 1
    BY <1>2, <2>1
  <2>2. CASE Len(s) > 1
    <3>1. Len(Tail(s)) # 0
      BY <1>1, <1>2, <2>2
    <3>2. Len(<<>>) = 0
      OBVIOUS
    <3> QED
      BY <2>2, <3>1, <3>2, Zenon
  <2> QED
    BY <1>1, <2>1, <2>2
<1> QED
  BY <1>2, <1>4, <1>5, <1>6, <1>7, <1>8

LEMMA AppendInOrder ==
    ASSUME NEW s \in Seq(Nat), Increasing(s), NEW n \in Nat, \A k \in Contents(s) : k < n
    PROVE  /\ s \o <<n>> \in Seq(Nat) /\ s \o <<n>> # <<>> /\ Increasing(s \o <<n>>)
           /\ Contents(s \o <<n>>) = Contents(s) \cup {n}
<1> DEFINE t == s \o <<n>>
<1>1. /\ Len(s) \in Nat /\ DOMAIN s = 1 .. Len(s) /\ \A k \in 1 .. Len(s) : s[k] \in Nat
  OBVIOUS
<1>2. /\ t \in Seq(Nat) /\ Len(t) = Len(s) + 1 /\ DOMAIN t = 1 .. Len(s) + 1 /\ t # <<>>
      /\ \A k \in 1 .. Len(s) : t[k] = s[k]
      /\ t[Len(s) + 1] = n
  <2>1. t \in Seq(Nat) /\ Len(t) = Len(s) + 1
    OBVIOUS
  <2>2. /\ \A k \in 1 .. Len(s) : t[k] = s[k]
        /\ t[Len(s) + 1] = n
    OBVIOUS
  <2> HIDE DEF t
  <2>3. DOMAIN t = 1 .. Len(t) /\ Len(t) # 0
    BY <1>1, <2>1
  <2>4. t # <<>>
    BY <2>3
  <2> QED
    BY <2>1, <2>2, <2>3, <2>4
<1> HIDE DEF t
<1>3. Contents(t) = Contents(s) \cup {n}
  BY <1>1, <1>2 DEF Contents
<1>4. ASSUME NEW j \in 1 .. Len(s) + 1, NEW k \in 1 .. Len(s) + 1, j < k
      PROVE  t[j] < t[k]
  <2>1. j \in 1 .. Len(s)
    BY <1>1, <1>4
  <2>2. CASE k = Len(s) + 1
    BY <1>1, <1>2, <2>1, <2>2 DEF Contents
  <2>3. CASE k \in 1 .. Len(s)
    BY <1>1, <1>2, <1>4, <2>1, <2>3 DEF Increasing
  <2> QED
    BY <1>1, <2>2, <2>3
<1>5. Increasing(t)
  BY <1>2, <1>4 DEF Increasing
<1> QED
  BY <1>2, <1>3, <1>5 DEF t

(* What Pop and Push do when n is the first number, and the last one. *)
HeadsAre(queues, at_, n) == \A q \in at_ : q \in DOMAIN queues /\ Head(queues[q]) = n
Below(queues, at_, n)    == \A q \in at_ : \A k \in Held(queues, q) : k < n

Popped(queues, at_, n) ==
  /\ InOrder(Pop(queues, at_)) /\ DOMAIN Pop(queues, at_) \subseteq DOMAIN queues
  /\ \A q : Held(Pop(queues, at_), q) = IF q \in at_ THEN Held(queues, q) \ {n} ELSE Held(queues, q)
Pushed(queues, at_, n) ==
  /\ InOrder(Push(queues, at_, n)) /\ DOMAIN Push(queues, at_, n) = DOMAIN queues \cup at_
  /\ \A q : Held(Push(queues, at_, n), q) = Held(queues, q) \cup (IF q \in at_ THEN {n} ELSE {})

LEMMA PopInOrder ==
    ASSUME NEW queues, InOrder(queues), NEW at_, NEW n, HeadsAre(queues, at_, n)
    PROVE  Popped(queues, at_, n)
<1> DEFINE r == Pop(queues, at_)
<1>1. /\ DOMAIN r = {q \in DOMAIN queues : q \in at_ => Len(queues[q]) > 1}
      /\ \A q \in DOMAIN r : r[q] = IF q \in at_ THEN Tail(queues[q]) ELSE queues[q]
  BY DEF Pop
<1> HIDE DEF r
<1>2. ASSUME NEW q \in DOMAIN queues
      PROVE  /\ queues[q] \in Seq(Nat) /\ queues[q] # <<>> /\ Increasing(queues[q])
             /\ Tail(queues[q]) \in Seq(Nat) /\ Increasing(Tail(queues[q]))
             /\ Contents(Tail(queues[q])) = Contents(queues[q]) \ {Head(queues[q])}
             /\ Head(queues[q]) \in Contents(queues[q])
             /\ \A k \in Contents(queues[q]) : Head(queues[q]) <= k
             /\ Len(queues[q]) > 1 <=> Tail(queues[q]) # <<>>
  <2>1. queues[q] \in Seq(Nat) /\ queues[q] # <<>> /\ Increasing(queues[q])
    BY DEF InOrder
  <2> QED
    BY <2>1, TailInOrder
<1>3. InOrder(r) /\ DOMAIN r \subseteq DOMAIN queues
  <2>1. ASSUME NEW q \in DOMAIN r
        PROVE  r[q] \in Seq(Nat) /\ r[q] # <<>> /\ Increasing(r[q])
    BY <1>1, <1>2
  <2> QED
    BY <1>1, <2>1 DEF InOrder
<1>4. Contents(<<>>) = {}
  BY DEF Contents
<1>5. ASSUME NEW q
      PROVE  Held(r, q) = IF q \in at_ THEN Held(queues, q) \ {n} ELSE Held(queues, q)
  <2>1. CASE q \notin DOMAIN queues
    BY <1>1, <2>1 DEF Held
  <2>2. CASE q \in DOMAIN queues /\ q \notin at_
    BY <1>1, <2>2 DEF Held
  <2>3. CASE q \in DOMAIN queues /\ q \in at_
    <3>1. Held(queues, q) \ {n} = Contents(Tail(queues[q]))
      BY <1>2, <2>3 DEF Held, HeadsAre
    <3>2. CASE Len(queues[q]) > 1
      BY <1>1, <2>3, <3>1, <3>2 DEF Held
    <3>3. CASE ~ (Len(queues[q]) > 1)
      <4>1. Held(r, q) = {}
        BY <1>1, <2>3, <3>3 DEF Held
      <4>2. Tail(queues[q]) = <<>>
        BY <1>2, <2>3, <3>3
      <4> QED
        BY <1>4, <2>3, <3>1, <4>1, <4>2
    <3> QED
      BY <3>2, <3>3
  <2> QED
    BY <2>1, <2>2, <2>3
<1> QED
  BY <1>3, <1>5 DEF r, Popped

LEMMA PushInOrder ==
    ASSUME NEW queues, InOrder(queues), NEW at_, NEW n \in Nat, Below(queues, at_, n)
    PROVE  Pushed(queues, at_, n)
<1> DEFINE r == Push(queues, at_, n)
           old(q) == IF q \in DOMAIN queues THEN queues[q] ELSE <<>>
<1>1. /\ DOMAIN r = DOMAIN queues \cup at_
      /\ \A q \in DOMAIN r : r[q] = old(q) \o (IF q \in at_ THEN <<n>> ELSE <<>>)
  BY DEF Push
<1> HIDE DEF r
<1>2. Contents(<<>>) = {} /\ Increasing(<<>>) /\ <<>> \in Seq(Nat)
  BY DEF Contents, Increasing
<1>3. ASSUME NEW q
      PROVE  old(q) \in Seq(Nat) /\ Increasing(old(q)) /\ Contents(old(q)) = Held(queues, q)
             /\ (q \in DOMAIN queues => old(q) # <<>>)
  BY <1>2 DEF InOrder, Held
<1> HIDE DEF old
<1>4. ASSUME NEW q \in at_
      PROVE  /\ q \in DOMAIN r
             /\ r[q] \in Seq(Nat) /\ r[q] # <<>> /\ Increasing(r[q]) /\ Contents(r[q]) = Held(queues, q) \cup {n}
  <2>1. /\ old(q) \o <<n>> \in Seq(Nat) /\ old(q) \o <<n>> # <<>> /\ Increasing(old(q) \o <<n>>)
        /\ Contents(old(q) \o <<n>>) = Contents(old(q)) \cup {n}
    BY <1>3, <1>4, AppendInOrder DEF Below
  <2> QED
    BY <1>1, <1>3, <2>1
<1>5. ASSUME NEW q \in DOMAIN queues, q \notin at_
      PROVE  q \in DOMAIN r /\ r[q] = queues[q] /\ Contents(r[q]) = Held(queues, q)
  <2>1. r[q] = old(q) \o <<>> /\ old(q) = queues[q]
    BY <1>1, <1>5 DEF old
  <2>2. old(q) \o <<>> = old(q)
    BY <1>3
  <2> QED
    BY <1>1, <1>3, <2>1, <2>2
<1>6. InOrder(r)
  BY <1>1, <1>4, <1>5 DEF InOrder
<1>7. ASSUME NEW q
      PROVE  Held(r, q) = Held(queues, q) \cup (IF q \in at_ THEN {n} ELSE {})
  <2>1. CASE q \in at_
    BY <1>4, <2>1 DEF Held
  <2>2. CASE q \notin at_ /\ q \in DOMAIN queues
    BY <1>5, <2>2 DEF Held
  <2>3. CASE q \notin at_ /\ q \notin DOMAIN queues
    BY <1>1, <2>3 DEF Held
  <2> QED
    BY <2>1, <2>2, <2>3
<1> QED
  BY <1>1, <1>6, <1>7 DEF r, Pushed

\* Queues of answers, by the numbers of their requests.
LEMMA NumbersPop ==
    ASSUME NEW S, \A e \in S : e.n \in Nat,
           NEW queues, \A q \in DOMAIN queues : queues[q] \in Seq(S) /\ queues[q] # <<>>, NEW at_
    PROVE  /\ Numbers(Pop(queues, at_)) = Pop(Numbers(queues), at_)
           /\ DOMAIN Numbers(queues) = DOMAIN queues
           /\ \A q \in DOMAIN queues : Head(Numbers(queues)[q]) = Head(queues[q]).n
<1>1. ASSUME NEW s \in Seq(S), s # <<>>
      PROVE  Keys(Tail(s)) = Tail(Keys(s)) /\ Len(Keys(s)) = Len(s) /\ Head(Keys(s)) = Head(s).n
  <2>1. Keys(s) \in Seq(Nat) /\ Len(Keys(s)) = Len(s) /\ \A k \in 1 .. Len(s) : Keys(s)[k] = s[k].n
    BY DEF Keys
  <2>2. Len(s) \in Nat \ {0} /\ Head(s) = s[1] /\ Head(Keys(s)) = Keys(s)[1]
    BY <1>1, <2>1
  <2>3. Tail(s) \in Seq(S) /\ Len(Tail(s)) = Len(s) - 1 /\ \A k \in 1 .. Len(s) - 1 : Tail(s)[k] = s[k + 1]
    BY <1>1
  <2>4. Keys(Tail(s)) = [k \in 1 .. Len(s) - 1 |-> s[k + 1].n]
    BY <2>3 DEF Keys
  <2>5. Tail(Keys(s)) = [k \in 1 .. Len(s) - 1 |-> s[k + 1].n]
    <3>1. /\ Tail(Keys(s)) \in Seq(Nat) /\ Len(Tail(Keys(s))) = Len(s) - 1
          /\ \A k \in 1 .. Len(s) - 1 : Tail(Keys(s))[k] = Keys(s)[k + 1]
      BY <2>1, <2>2
    <3>2. \A k \in 1 .. Len(s) - 1 : k + 1 \in 1 .. Len(s)
      BY <2>2
    <3>3. \A k \in 1 .. Len(s) - 1 : Tail(Keys(s))[k] = s[k + 1].n
      BY <2>1, <3>1, <3>2
    <3>4. [k \in 1 .. Len(s) - 1 |-> s[k + 1].n] \in Seq(Nat)
          /\ Len([k \in 1 .. Len(s) - 1 |-> s[k + 1].n]) = Len(s) - 1
      BY <2>2, <3>2
    <3>5. PICK t \in Seq(Nat) : t = [k \in 1 .. Len(s) - 1 |-> s[k + 1].n]
      BY <3>4
    <3>6. PICK u \in Seq(Nat) : u = Tail(Keys(s))
      BY <3>1
    <3>7. Len(t) = Len(u) /\ \A k \in 1 .. Len(t) : t[k] = u[k]
      BY <3>1, <3>3, <3>4, <3>5, <3>6
    <3>8. t = u
      BY <3>7, SeqEqual
    <3> QED
      BY <3>5, <3>6, <3>8
  <2>6. Keys(s)[1] = s[1].n
    BY <2>1, <2>2
  <2> QED
    BY <2>1, <2>2, <2>4, <2>5, <2>6, Zenon
<1>2. DOMAIN Numbers(queues) = DOMAIN queues /\ \A q \in DOMAIN queues : Numbers(queues)[q] = Keys(queues[q])
  BY DEF Numbers
<1>3. DOMAIN Pop(queues, at_) = {q \in DOMAIN queues : q \in at_ => Len(queues[q]) > 1}
      /\ \A q \in DOMAIN Pop(queues, at_) : Pop(queues, at_)[q] = IF q \in at_ THEN Tail(queues[q]) ELSE queues[q]
  BY DEF Pop
<1>4. DOMAIN Pop(Numbers(queues), at_) = DOMAIN Pop(queues, at_)
  BY <1>1, <1>2, <1>3 DEF Pop
<1>5. \A q \in DOMAIN Pop(queues, at_) : Pop(Numbers(queues), at_)[q] = Keys(Pop(queues, at_)[q])
  <2>1. ASSUME NEW q \in DOMAIN Pop(queues, at_)
        PROVE  Pop(Numbers(queues), at_)[q] = Keys(Pop(queues, at_)[q])
    <3>1. Pop(Numbers(queues), at_)[q] = IF q \in at_ THEN Tail(Numbers(queues)[q]) ELSE Numbers(queues)[q]
      BY <1>4 DEF Pop
    <3> QED
      BY <1>1, <1>2, <1>3, <3>1
  <2> QED
    BY <2>1
<1>6. Numbers(Pop(queues, at_)) = Pop(Numbers(queues), at_)
  <2>1. Pop(Numbers(queues), at_) = [q \in DOMAIN Pop(Numbers(queues), at_) |-> Pop(Numbers(queues), at_)[q]]
    BY DEF Pop
  <2> QED
    BY <1>4, <1>5, <2>1 DEF Numbers
<1> QED
  BY <1>1, <1>2, <1>6

Numbered(S)         == \A e \in S : e.n \in Nat
QueuesOf(S, queues) == \A q \in DOMAIN queues : queues[q] \in Seq(S)

LEMMA NumbersPush ==
    ASSUME NEW S, Numbered(S), NEW queues, QueuesOf(S, queues), NEW at_, NEW e \in S
    PROVE  Numbers(Push(queues, at_, e)) = Push(Numbers(queues), at_, e.n)
<1> DEFINE old(q) == IF q \in DOMAIN queues THEN queues[q] ELSE <<>>
           oldn(q) == IF q \in DOMAIN Numbers(queues) THEN Numbers(queues)[q] ELSE <<>>
<1>1. ASSUME NEW s \in Seq(S)
      PROVE  Keys(s \o <<e>>) = Keys(s) \o <<e.n>> /\ Keys(s \o <<>>) = Keys(s) \o <<>>
  <2>1. Keys(s) \in Seq(Nat) /\ Len(Keys(s)) = Len(s) /\ \A k \in 1 .. Len(s) : Keys(s)[k] = s[k].n
    BY DEF Keys, Numbered
  <2>2. /\ s \o <<e>> \in Seq(S) /\ Len(s \o <<e>>) = Len(s) + 1
        /\ \A k \in 1 .. Len(s) + 1 : (s \o <<e>>)[k] = IF k <= Len(s) THEN s[k] ELSE e
    OBVIOUS
  <2>3. Keys(s \o <<e>>) = [k \in 1 .. Len(s) + 1 |-> IF k <= Len(s) THEN s[k].n ELSE e.n]
    BY <2>2 DEF Keys
  <2>4. /\ Keys(s) \o <<e.n>> \in Seq(Nat) /\ Len(Keys(s) \o <<e.n>>) = Len(s) + 1
        /\ \A k \in 1 .. Len(s) + 1 : (Keys(s) \o <<e.n>>)[k] = IF k <= Len(s) THEN s[k].n ELSE e.n
    <3> DEFINE ks == Keys(s)
    <3>1. ks \in Seq(Nat) /\ e.n \in Nat /\ Len(ks) = Len(s) /\ Len(s) \in Nat
      BY <2>1 DEF Numbered
    <3>2. \A k \in 1 .. Len(s) : ks[k] = s[k].n
      BY <2>1
    <3> HIDE DEF ks
    <3>3. /\ ks \o <<e.n>> \in Seq(Nat) /\ Len(ks \o <<e.n>>) = Len(ks) + 1
          /\ \A k \in 1 .. Len(ks) + 1 : (ks \o <<e.n>>)[k] = IF k <= Len(ks) THEN ks[k] ELSE e.n
      BY <3>1
    <3>4. \A k \in 1 .. Len(s) + 1 : k <= Len(s) => k \in 1 .. Len(s)
      BY <3>1
    <3> QED
      BY <3>1, <3>2, <3>3, <3>4 DEF ks
  <2>5. Keys(s) \o <<e.n>> = [k \in 1 .. Len(s) + 1 |-> IF k <= Len(s) THEN s[k].n ELSE e.n]
    BY <2>4
  <2>6. s \o <<>> = s /\ Keys(s) \o <<>> = Keys(s)
    BY <2>1
  <2> QED
    BY <2>3, <2>5, <2>6
<1>2. DOMAIN Numbers(queues) = DOMAIN queues /\ \A q \in DOMAIN queues : Numbers(queues)[q] = Keys(queues[q])
  BY DEF Numbers
<1>3. Keys(<<>>) = <<>>
  BY DEF Keys
<1>4. \A q : old(q) \in Seq(S) /\ oldn(q) = Keys(old(q))
  BY <1>2, <1>3 DEF QueuesOf
<1>5. /\ DOMAIN Push(queues, at_, e) = DOMAIN queues \cup at_
      /\ \A q \in DOMAIN Push(queues, at_, e) :
            Push(queues, at_, e)[q] = old(q) \o (IF q \in at_ THEN <<e>> ELSE <<>>)
  BY DEF Push
<1>6. Push(Numbers(queues), at_, e.n) =
        [q \in DOMAIN queues \cup at_ |-> oldn(q) \o (IF q \in at_ THEN <<e.n>> ELSE <<>>)]
  BY <1>2 DEF Push
<1> HIDE DEF old, oldn
<1>7. \A q \in DOMAIN queues \cup at_ :
         Keys(Push(queues, at_, e)[q]) = oldn(q) \o (IF q \in at_ THEN <<e.n>> ELSE <<>>)
  BY <1>1, <1>4, <1>5
<1> QED
  BY <1>5, <1>6, <1>7 DEF Numbers

-----------------------------------------------------------------------------
(* The invariant of Collective *)

(* All requests of a programme go to one group. *)
OneGroup ==
  \A p \in Programmes : \A j, k \in DOMAIN p : GroupOf(p[j]) = GroupOf(p[k]) /\ p[j].mask = p[k].mask

TheGroup == GroupOf(programme[1])

(* The requests at each place: what the queues hold. *)
HeldAt(rq, ac, an, pl) ==
  CASE pl.kind = "request"  -> Held(rq, pl.at)
    [] pl.kind = "accepted" -> IF pl.at.port = Eject THEN Held(ac, pl.at.rt) ELSE {}
    [] pl.kind = "answer"   -> Held(an, pl.at)
PlacesOf(rq, ac, an) == [pl \in Places |-> HeldAt(rq, ac, an, pl)]

AtPlaces == PlacesOf(requests, accepted, Numbers(answers))
Done     == {n \in DOMAIN programme : given[n] # <<>>}

(* An answer at the input p: from a member, for all members behind p. *)
AnswerRecords == [n : Nat, src : Routers, members : SUBSET Routers]
AnswersAt(g, p) ==
  {e \in AnswerRecords : InGroup(g, e.src) /\ e.members = {m \in Routers : AnsCovers(g, p, m)}}

AnswerQueues(g, queues) ==
  \A p \in DOMAIN queues : queues[p] \in Seq(AnswersAt(g, p)) /\ queues[p] # <<>>

QueueTypes ==
  /\ DOMAIN requests \subseteq Inputs /\ InOrder(requests)
  /\ DOMAIN accepted \subseteq Routers /\ InOrder(accepted)
  /\ DOMAIN answers \subseteq Inputs /\ InOrder(Numbers(answers)) /\ AnswerQueues(TheGroup, answers)

Idle ==
  programme = <<>> /\ sent = 0 /\ requests = <<>> /\ accepted = <<>> /\ answers = <<>> /\ given = <<>>

Busy ==
  /\ programme \in Programmes /\ programme # <<>>
  /\ sent \in 0 .. Len(programme)
  /\ QueueTypes
  /\ given \in [DOMAIN programme -> {<<>>, <<{m \in Routers : InGroup(TheGroup, m)}>>}]
  /\ \A n \in Done : n <= sent
  /\ WayInv(TheGroup, AtPlaces, sent, Done)

CInv == Idle \/ Busy

LEMMA HeldIs ==
    ASSUME NEW rq, NEW ac, NEW an
    PROVE  /\ \A p \in Inputs : PlacesOf(rq, ac, an)[Req(p)] = Held(rq, p)
           /\ \A rt \in Routers : PlacesOf(rq, ac, an)[Acc(rt)] = Held(ac, rt)
           /\ \A p \in Inputs : PlacesOf(rq, ac, an)[Ans(p)] = Held(an, p)
<1>1. ASSUME NEW p \in Inputs
      PROVE  PlacesOf(rq, ac, an)[Req(p)] = Held(rq, p)
  <2>1. Req(p).kind = "request" /\ Req(p).at = p /\ Req(p) \in Places
    BY DEF Req, Places
  <2> QED
    BY <2>1 DEF PlacesOf, HeldAt
<1>2. ASSUME NEW rt \in Routers
      PROVE  PlacesOf(rq, ac, an)[Acc(rt)] = Held(ac, rt)
  <2>1. Acc(rt).kind = "accepted" /\ Acc(rt).at.rt = rt /\ Acc(rt).at.port = Eject /\ Acc(rt) \in Places
    BY DEF Acc, Places, Inputs
  <2> QED
    BY <2>1 DEF PlacesOf, HeldAt
<1>3. ASSUME NEW p \in Inputs
      PROVE  PlacesOf(rq, ac, an)[Ans(p)] = Held(an, p)
  <2>1. Ans(p).kind = "answer" /\ Ans(p).at = p /\ Ans(p) \in Places
    BY DEF Ans, Places
  <2> QED
    BY <2>1 DEF PlacesOf, HeldAt
<1> QED
  BY <1>1, <1>2, <1>3

\* A step on the way is a step of the queues.
LEMMA ShiftIs ==
    ASSUME NEW rq, NEW ac, NEW an, NEW rq2, NEW ac2, NEW an2, NEW F, NEW T, NEW n,
           \A p \in Inputs : Held(rq2, p) = (IF Req(p) \in F THEN Held(rq, p) \ {n} ELSE Held(rq, p))
                                              \cup (IF Req(p) \in T THEN {n} ELSE {}),
           \A rt \in Routers : Held(ac2, rt) = (IF Acc(rt) \in F THEN Held(ac, rt) \ {n} ELSE Held(ac, rt))
                                              \cup (IF Acc(rt) \in T THEN {n} ELSE {}),
           \A p \in Inputs : Held(an2, p) = (IF Ans(p) \in F THEN Held(an, p) \ {n} ELSE Held(an, p))
                                              \cup (IF Ans(p) \in T THEN {n} ELSE {}),
           \A pl \in F \cup T : pl.kind = "accepted" => pl.at.port = Eject
    PROVE  PlacesOf(rq2, ac2, an2) = Shift(PlacesOf(rq, ac, an), F, T, n)
<1> DEFINE H == PlacesOf(rq, ac, an)
           G == PlacesOf(rq2, ac2, an2)
<1>1. ASSUME NEW pl \in Places
      PROVE  G[pl] = (IF pl \in F THEN H[pl] \ {n} ELSE H[pl]) \cup (IF pl \in T THEN {n} ELSE {})
  <2>1. pl = [kind |-> pl.kind, at |-> pl.at] /\ pl.at \in Inputs /\ pl.kind \in {"request", "accepted", "answer"}
    BY DEF Places
  <2>2. CASE pl.kind = "request"
    <3>1. pl = Req(pl.at)
      BY <2>1, <2>2 DEF Req
    <3>2. G[pl] = Held(rq2, pl.at) /\ H[pl] = Held(rq, pl.at)
      BY <2>1, <3>1, HeldIs
    <3> QED
      BY <2>1, <3>1, <3>2
  <2>3. CASE pl.kind = "answer"
    <3>1. pl = Ans(pl.at)
      BY <2>1, <2>3 DEF Ans
    <3>2. G[pl] = Held(an2, pl.at) /\ H[pl] = Held(an, pl.at)
      BY <2>1, <3>1, HeldIs
    <3> QED
      BY <2>1, <3>1, <3>2
  <2>4. CASE pl.kind = "accepted" /\ pl.at.port = Eject
    <3>1. pl = Acc(pl.at.rt) /\ pl.at.rt \in Routers
      BY <2>1, <2>4 DEF Acc, Inputs
    <3>2. G[pl] = Held(ac2, pl.at.rt) /\ H[pl] = Held(ac, pl.at.rt)
      BY <3>1, HeldIs
    <3> QED
      BY <3>1, <3>2
  <2>5. CASE pl.kind = "accepted" /\ pl.at.port # Eject
    <3>1. G[pl] = {} /\ H[pl] = {}
      BY <2>5 DEF PlacesOf, HeldAt
    <3>2. pl \notin F /\ pl \notin T
      BY <2>5
    <3> QED
      BY <3>1, <3>2
  <2> QED
    BY <2>1, <2>2, <2>3, <2>4, <2>5
<1>2. G = [pl \in Places |-> G[pl]]
  BY DEF PlacesOf
<1> HIDE DEF G
<1>3. G = [pl \in Places |-> (IF pl \in F THEN H[pl] \ {n} ELSE H[pl]) \cup (IF pl \in T THEN {n} ELSE {})]
  BY <1>1, <1>2
<1> QED
  BY <1>3 DEF G, Shift

LEMMA KindIs ==
    /\ \A p, q : (Req(p) = Req(q) <=> p = q) /\ (Ans(p) = Ans(q) <=> p = q)
    /\ \A rt, ru : Acc(rt) = Acc(ru) <=> rt = ru
    /\ \A p, q : Req(p) # Ans(q) /\ Req(p) # Acc(q) /\ Ans(p) # Acc(q)
    /\ \A p : Req(p).kind # "accepted" /\ Ans(p).kind # "accepted" /\ Acc(p).at.port = Eject
<1>1. \A p : /\ Req(p).kind = "request" /\ Req(p).at = p
             /\ Ans(p).kind = "answer" /\ Ans(p).at = p
             /\ Acc(p).kind = "accepted" /\ Acc(p).at.rt = p /\ Acc(p).at.port = Eject
  BY DEF Req, Ans, Acc
<1> QED
  BY <1>1

LEMMA BusyIs ==
    ASSUME OneGroup, Busy
    PROVE  /\ TheGroup \in Groupings
           /\ programme \in Seq(Collectives) /\ DOMAIN programme = 1 .. Len(programme) /\ Len(programme) \in Nat
           /\ sent \in Nat /\ 1 .. sent \subseteq DOMAIN programme /\ DOMAIN programme \subseteq Nat
           /\ \A n \in DOMAIN programme :
                 programme[n] \in Collectives /\ GroupOf(programme[n]) = TheGroup /\ programme[n].src = TheGroup.src
           /\ Done \subseteq DOMAIN programme
<1>1. programme \in Seq(Collectives) /\ programme # <<>> /\ programme \in Programmes /\ sent \in 0 .. Len(programme)
  BY CollectiveAssumption DEF Busy
<1>2. /\ DOMAIN programme = 1 .. Len(programme) /\ Len(programme) \in Nat /\ 1 \in DOMAIN programme
      /\ \A n \in DOMAIN programme : programme[n] \in Collectives
  BY <1>1
<1>3. TheGroup \in Groupings
  BY <1>2, CollectiveIs DEF TheGroup
<1>4. ASSUME NEW n \in DOMAIN programme
      PROVE  GroupOf(programme[n]) = TheGroup /\ programme[n].src = TheGroup.src
  <2>1. GroupOf(programme[n]) = TheGroup
    BY <1>1, <1>2 DEF OneGroup, TheGroup
  <2>2. GroupOf(programme[n]).src = programme[n].src
    BY DEF GroupOf
  <2> QED
    BY <2>1, <2>2
<1> QED
  BY <1>1, <1>2, <1>3, <1>4 DEF Done

\* The head of a queue is on its way.
LEMMA HeadIs ==
    ASSUME OneGroup, Busy
    PROVE  /\ \A p \in DOMAIN requests :
                 /\ p \in Inputs /\ Head(requests[p]) \in 1 .. sent
                 /\ First(AtPlaces, {Req(p)}, Head(requests[p]))
                 /\ \E m \in Routers : ReqCovers(TheGroup, p, m)
           /\ \A rt \in DOMAIN accepted :
                 /\ rt \in Routers /\ Head(accepted[rt]) \in 1 .. sent
                 /\ First(AtPlaces, {Acc(rt)}, Head(accepted[rt]))
                 /\ InGroup(TheGroup, rt)
           /\ \A p \in DOMAIN answers :
                 /\ p \in Inputs /\ Head(answers[p]).n \in 1 .. sent
                 /\ First(AtPlaces, {Ans(p)}, Head(answers[p]).n)
                 /\ \E m \in Routers : AnsCovers(TheGroup, p, m)
                 /\ Head(answers[p]) \in AnswersAt(TheGroup, p)
<1>1. /\ DOMAIN requests \subseteq Inputs /\ InOrder(requests)
      /\ DOMAIN accepted \subseteq Routers /\ InOrder(accepted)
      /\ DOMAIN answers \subseteq Inputs /\ InOrder(Numbers(answers)) /\ AnswerQueues(TheGroup, answers)
      /\ Located(TheGroup, AtPlaces, sent, Done)
      /\ TheGroup \in Groupings
  BY BusyIs DEF Busy, QueueTypes, WayInv
<1>2. ASSUME NEW queues, InOrder(queues), NEW q \in DOMAIN queues
      PROVE  Head(queues[q]) \in Held(queues, q) /\ \A k \in Held(queues, q) : Head(queues[q]) <= k
  BY <1>2, TailInOrder DEF InOrder, Held
<1>3. \A pl \in Places : \A n \in AtPlaces[pl] : n \in 1 .. sent /\ \E m \in Routers : Covers(TheGroup, pl, m)
  BY <1>1 DEF Located
<1>4. ASSUME NEW p \in DOMAIN requests
      PROVE  /\ p \in Inputs /\ Head(requests[p]) \in 1 .. sent
             /\ First(AtPlaces, {Req(p)}, Head(requests[p]))
             /\ \E m \in Routers : ReqCovers(TheGroup, p, m)
  <2>1. p \in Inputs /\ Req(p) \in Places /\ AtPlaces[Req(p)] = Held(requests, p)
        /\ \A m : Covers(TheGroup, Req(p), m) <=> ReqCovers(TheGroup, p, m)
    BY <1>1, HeldIs, PlaceIs DEF AtPlaces
  <2>2. Head(requests[p]) \in Held(requests, p) /\ \A k \in Held(requests, p) : Head(requests[p]) <= k
    BY <1>1, <1>2
  <2> QED
    BY <1>3, <2>1, <2>2 DEF First
<1>5. ASSUME NEW rt \in DOMAIN accepted
      PROVE  /\ rt \in Routers /\ Head(accepted[rt]) \in 1 .. sent
             /\ First(AtPlaces, {Acc(rt)}, Head(accepted[rt]))
             /\ InGroup(TheGroup, rt)
  <2>1. rt \in Routers /\ Acc(rt) \in Places /\ AtPlaces[Acc(rt)] = Held(accepted, rt)
        /\ \A m : Covers(TheGroup, Acc(rt), m) <=> InGroup(TheGroup, m) /\ m = rt
    BY <1>1, HeldIs, PlaceIs DEF AtPlaces
  <2>2. Head(accepted[rt]) \in Held(accepted, rt) /\ \A k \in Held(accepted, rt) : Head(accepted[rt]) <= k
    BY <1>1, <1>2
  <2> QED
    BY <1>3, <2>1, <2>2 DEF First
<1>6. ASSUME NEW p \in DOMAIN answers
      PROVE  /\ p \in Inputs /\ Head(answers[p]).n \in 1 .. sent
             /\ First(AtPlaces, {Ans(p)}, Head(answers[p]).n)
             /\ \E m \in Routers : AnsCovers(TheGroup, p, m)
             /\ Head(answers[p]) \in AnswersAt(TheGroup, p)
  <2>1. p \in Inputs /\ Ans(p) \in Places /\ AtPlaces[Ans(p)] = Held(Numbers(answers), p)
        /\ \A m : Covers(TheGroup, Ans(p), m) <=> AnsCovers(TheGroup, p, m)
    BY <1>1, HeldIs, PlaceIs DEF AtPlaces
  <2>2. answers[p] \in Seq(AnswersAt(TheGroup, p)) /\ answers[p] # <<>>
    BY <1>1 DEF AnswerQueues
  <2>3. Head(answers[p]) \in AnswersAt(TheGroup, p)
    BY <2>2
  <2>4. p \in DOMAIN Numbers(answers) /\ Numbers(answers)[p] = Keys(answers[p])
    BY DEF Numbers
  <2>5. Head(Keys(answers[p])) = Head(answers[p]).n
    BY <2>2 DEF Keys
  <2>6. /\ Head(answers[p]).n \in Held(Numbers(answers), p)
        /\ \A k \in Held(Numbers(answers), p) : Head(answers[p]).n <= k
    BY <1>1, <1>2, <2>4, <2>5
  <2> QED
    BY <1>3, <2>1, <2>3, <2>6 DEF First
<1> QED
  BY <1>4, <1>5, <1>6

Fits(g, at_, e) == \A p \in at_ : e \in AnswersAt(g, p)

AnswersPushed(g, queues, at_, e) ==
  /\ Numbers(Push(queues, at_, e)) = Push(Numbers(queues), at_, e.n)
  /\ AnswerQueues(g, Push(queues, at_, e))
  /\ DOMAIN Push(queues, at_, e) = DOMAIN queues \cup at_

LEMMA AnswersPush ==
    ASSUME NEW g, NEW queues, AnswerQueues(g, queues), NEW at_, NEW e \in AnswerRecords, Fits(g, at_, e)
    PROVE  AnswersPushed(g, queues, at_, e)
<1> DEFINE r == Push(queues, at_, e)
           old(q) == IF q \in DOMAIN queues THEN queues[q] ELSE <<>>
<1>1. /\ DOMAIN r = DOMAIN queues \cup at_
      /\ \A q \in DOMAIN r : r[q] = old(q) \o (IF q \in at_ THEN <<e>> ELSE <<>>)
  BY DEF Push
<1>2. ASSUME NEW q \in DOMAIN queues
      PROVE  queues[q] \in Seq(AnswersAt(g, q)) /\ queues[q] \in Seq(AnswerRecords) /\ queues[q] # <<>>
  <2>1. queues[q] \in Seq(AnswersAt(g, q)) /\ queues[q] # <<>>
    BY DEF AnswerQueues
  <2>2. AnswersAt(g, q) \subseteq AnswerRecords
    BY DEF AnswersAt
  <2> QED
    BY <2>1, <2>2
<1>3. \A f \in AnswerRecords : f.n \in Nat
  BY DEF AnswerRecords
<1>4. Numbers(r) = Push(Numbers(queues), at_, e.n)
  <2>1. Numbered(AnswerRecords) /\ QueuesOf(AnswerRecords, queues)
    BY <1>2, <1>3 DEF Numbered, QueuesOf
  <2> QED
    BY <2>1, NumbersPush
<1>5. ASSUME NEW q \in DOMAIN queues \cup at_
      PROVE  old(q) \in Seq(AnswersAt(g, q)) /\ (q \notin at_ => old(q) # <<>>)
  BY <1>2
<1> HIDE DEF r, old
<1>6. ASSUME NEW q \in DOMAIN queues \cup at_
      PROVE  r[q] \in Seq(AnswersAt(g, q)) /\ r[q] # <<>>
  <2>1. CASE q \in at_
    <3>1. r[q] = old(q) \o <<e>> /\ e \in AnswersAt(g, q)
      BY <1>1, <2>1 DEF Fits
    <3> QED
      BY <1>5, <3>1
  <2>2. CASE q \notin at_
    <3>1. r[q] = old(q) \o <<>>
      BY <1>1, <2>2
    <3>2. old(q) \o <<>> = old(q)
      BY <1>5
    <3> QED
      BY <1>5, <2>2, <3>1, <3>2
  <2> QED
    BY <2>1, <2>2
<1>7. AnswerQueues(g, r)
  BY <1>1, <1>6 DEF AnswerQueues
<1> QED
  BY <1>1, <1>4, <1>7 DEF r, AnswersPushed

LEMMA AnswersPop ==
    ASSUME NEW g, NEW queues, AnswerQueues(g, queues), NEW at_
    PROVE  /\ Numbers(Pop(queues, at_)) = Pop(Numbers(queues), at_)
           /\ AnswerQueues(g, Pop(queues, at_))
           /\ DOMAIN Pop(queues, at_) \subseteq DOMAIN queues
           /\ DOMAIN Numbers(queues) = DOMAIN queues
           /\ \A q \in DOMAIN queues : Head(Numbers(queues)[q]) = Head(queues[q]).n
<1> DEFINE r == Pop(queues, at_)
<1>1. /\ DOMAIN r = {q \in DOMAIN queues : q \in at_ => Len(queues[q]) > 1}
      /\ \A q \in DOMAIN r : r[q] = IF q \in at_ THEN Tail(queues[q]) ELSE queues[q]
  BY DEF Pop
<1>2. ASSUME NEW q \in DOMAIN queues
      PROVE  queues[q] \in Seq(AnswersAt(g, q)) /\ queues[q] \in Seq(AnswerRecords) /\ queues[q] # <<>>
  <2>1. queues[q] \in Seq(AnswersAt(g, q)) /\ queues[q] # <<>>
    BY DEF AnswerQueues
  <2>2. AnswersAt(g, q) \subseteq AnswerRecords
    BY DEF AnswersAt
  <2> QED
    BY <2>1, <2>2
<1>3. \A f \in AnswerRecords : f.n \in Nat
  BY DEF AnswerRecords
<1>4. /\ Numbers(r) = Pop(Numbers(queues), at_) /\ DOMAIN Numbers(queues) = DOMAIN queues
      /\ \A q \in DOMAIN queues : Head(Numbers(queues)[q]) = Head(queues[q]).n
  BY <1>2, <1>3, NumbersPop
<1> HIDE DEF r
<1>5. ASSUME NEW q \in DOMAIN r
      PROVE  r[q] \in Seq(AnswersAt(g, q)) /\ r[q] # <<>>
  <2>1. q \in DOMAIN queues /\ queues[q] \in Seq(AnswersAt(g, q)) /\ queues[q] # <<>>
    BY <1>1, <1>2
  <2>2. CASE q \notin at_
    BY <1>1, <2>1, <2>2
  <2>3. CASE q \in at_
    <3>1. r[q] = Tail(queues[q]) /\ Len(queues[q]) > 1
      BY <1>1, <2>3
    <3>2. Tail(queues[q]) \in Seq(AnswersAt(g, q)) /\ Len(Tail(queues[q])) = Len(queues[q]) - 1
      BY <2>1
    <3>3. Len(queues[q]) \in Nat
      BY <2>1
    <3>4. Len(r[q]) # 0 /\ Len(<<>>) = 0
      BY <3>1, <3>2, <3>3
    <3>5. r[q] # <<>>
      BY <3>4, Zenon
    <3> QED
      BY <3>1, <3>2, <3>5
  <2> QED
    BY <2>2, <2>3
<1>6. AnswerQueues(g, r)
  BY <1>5 DEF AnswerQueues
<1>7. DOMAIN r \subseteq DOMAIN queues
  BY <1>1
<1> QED
  BY <1>4, <1>6, <1>7 DEF r

\* What stays when the programme and the answers given do.
LEMMA BusyStays ==
    ASSUME Busy, UNCHANGED <<programme, given>>, QueueTypes', sent' \in 0 .. Len(programme), sent <= sent', sent \in Int,
           WayInv(TheGroup, AtPlaces', sent', Done)
    PROVE  Busy'
<1>1. TheGroup' = TheGroup
  BY DEF TheGroup
<1>2. Done' = Done
  BY DEF Done
<1>3. \A n \in Done : n \in DOMAIN programme /\ n <= sent
  BY DEF Busy, Done
<1>4. programme \in Seq(Collectives)
  BY CollectiveAssumption DEF Busy
<1>5. DOMAIN programme \subseteq Nat
  BY <1>4
<1>6. \A n \in Done' : n <= sent'
  BY <1>2, <1>3, <1>5
<1>7. given' \in [DOMAIN programme' -> {<<>>, <<{m \in Routers : InGroup(TheGroup', m)}>>}]
  BY <1>1 DEF Busy
<1>8. WayInv(TheGroup', AtPlaces', sent', Done')
  BY <1>1, <1>2
<1>9. programme' \in Programmes /\ programme' # <<>> /\ sent' \in 0 .. Len(programme')
  BY DEF Busy
<1> QED
  BY <1>6, <1>7, <1>8, <1>9 DEF Busy

LEMMA SendKeeps ==
    ASSUME OneGroup, Busy, Send
    PROVE  Busy'
<1> DEFINE g == TheGroup
           H == AtPlaces
           e == [rt |-> g.src, port |-> Eject]
           n == sent + 1
<1>1. /\ g \in Groupings /\ g.src \in Routers
      /\ sent \in Nat /\ Len(programme) \in Nat /\ DOMAIN programme = 1 .. Len(programme)
      /\ Done \subseteq Nat /\ n \notin Done
      /\ \A k \in DOMAIN programme : programme[k].src = g.src
      /\ WayInv(g, H, sent, Done) /\ QueueTypes
      /\ UNCHANGED <<programme, given, accepted, answers>>
  BY BusyIs, GroupCoordinates DEF Busy, Send
<1>2. n \in 1 .. Len(programme) /\ sent' = n /\ n \in Nat
  BY <1>1 DEF Send
<1>3. e \in Inputs /\ e.rt = g.src /\ e.port = Eject
  BY <1>1 DEF Inputs
<1>4. requests' = Push(requests, {e}, n)
  BY <1>1, <1>2 DEF Send
<1> HIDE DEF e, n, g, H
<1>5. /\ Req(e) \in Places /\ Pos(g, Req(e)) = 0
      /\ \A m \in Routers : InGroup(g, m) => Covers(g, Req(e), m)
      /\ \E m \in Routers : InGroup(g, m)
  <2>1. Distance(g.src, g.src) = 0
    BY <1>1 DEF Distance, Routers
  <2>2. Req(e) \in Places /\ Pos(g, Req(e)) = 0
    BY <1>1, <1>3, <2>1, PlaceIs
  <2>3. \A m \in Routers : InGroup(g, m) => ReqCovers(g, e, m)
    BY <1>3 DEF ReqCovers, Horizontal, Vertical, North, South, East, West, Eject
  <2>4. \A m : Covers(g, Req(e), m) <=> ReqCovers(g, e, m)
    BY <1>1, <1>3, PlaceIs
  <2>5. \E m \in Routers : InGroup(g, m)
    <3>1. PICK x \in g.xs, y \in g.ys : TRUE
      BY <1>1, GroupCoordinates
    <3>2. InGroup(g, [x |-> x, y |-> y])
      BY <1>1, GroupCoordinates
    <3> QED
      BY <3>2 DEF InGroup
  <2> QED
    BY <2>2, <2>3, <2>4, <2>5
<1>6. /\ WayInv(g, Shift(H, {}, {Req(e)}, n), n, Done)
      /\ \A k \in H[Req(e)] : k < n
  BY <1>1, <1>5, EnterKeeps DEF n
<1>7. H[Req(e)] = Held(requests, e)
  BY <1>3, HeldIs DEF H, AtPlaces
<1>8. /\ InOrder(requests') /\ DOMAIN requests' = DOMAIN requests \cup {e}
      /\ \A q : Held(requests', q) = Held(requests, q) \cup (IF q \in {e} THEN {n} ELSE {})
  <2>1. InOrder(requests) /\ Below(requests, {e}, n)
    BY <1>1, <1>6, <1>7 DEF QueueTypes, Below
  <2>2. Pushed(requests, {e}, n)
    BY <1>2, <2>1, PushInOrder
  <2> QED
    BY <1>4, <2>2 DEF Pushed
<1>9. AtPlaces' = Shift(H, {}, {Req(e)}, n)
  <2>1. \A p \in Inputs : Held(requests', p) = (IF Req(p) \in {} THEN Held(requests, p) \ {n} ELSE Held(requests, p))
                                              \cup (IF Req(p) \in {Req(e)} THEN {n} ELSE {})
    BY <1>8, KindIs
  <2>2. \A rt \in Routers : Held(accepted', rt) = (IF Acc(rt) \in {} THEN Held(accepted, rt) \ {n} ELSE Held(accepted, rt))
                                              \cup (IF Acc(rt) \in {Req(e)} THEN {n} ELSE {})
    BY <1>1, KindIs
  <2>3. \A p \in Inputs : Held(Numbers(answers'), p) =
            (IF Ans(p) \in {} THEN Held(Numbers(answers), p) \ {n} ELSE Held(Numbers(answers), p))
                                              \cup (IF Ans(p) \in {Req(e)} THEN {n} ELSE {})
    BY <1>1, KindIs
  <2>4. \A pl \in {} \cup {Req(e)} : pl.kind = "accepted" => pl.at.port = Eject
    BY KindIs
  <2>5. PlacesOf(requests', accepted', Numbers(answers')) = Shift(PlacesOf(requests, accepted, Numbers(answers)), {}, {Req(e)}, n)
    BY <2>1, <2>2, <2>3, <2>4, ShiftIs
  <2> QED
    BY <2>5 DEF AtPlaces, H
<1>10. QueueTypes'
  <2>1. TheGroup' = TheGroup
    BY <1>1 DEF TheGroup
  <2> QED
    BY <1>1, <1>3, <1>8, <2>1 DEF QueueTypes
<1>11. WayInv(TheGroup, AtPlaces', sent', Done)
  BY <1>2, <1>6, <1>9 DEF g
<1>12. sent' \in 0 .. Len(programme) /\ sent <= sent' /\ sent \in Int
  BY <1>1, <1>2 DEF n
<1> QED
  BY <1>1, <1>10, <1>11, <1>12, BusyStays

LEMMA SpreadKeeps ==
    ASSUME OneGroup, Busy, NEW p \in DOMAIN requests, Spread(p)
    PROVE  Busy'
<1> DEFINE g == TheGroup
           H == AtPlaces
           n == Head(requests[p])
           to == {Onwards(p.rt, out) : out \in Outs(g, p.rt) \ {Eject}}
           in == {p.rt : out \in Outs(g, p.rt) \cap {Eject}}
           T == Copies(g, p)
<1>1. /\ g \in Groupings /\ sent \in Nat
      /\ WayInv(g, H, sent, Done) /\ QueueTypes
      /\ UNCHANGED <<programme, sent, given, answers>>
      /\ sent \in 0 .. Len(programme)
  BY BusyIs DEF Busy, Spread
<1>2. /\ p \in Inputs /\ n \in 1 .. sent /\ First(H, {Req(p)}, n)
      /\ \E m \in Routers : ReqCovers(g, p, m)
  BY HeadIs
<1>3. outs(p) = Outs(g, p.rt)
  <2>1. n \in DOMAIN programme /\ p.rt \in Routers
    BY <1>2, BusyIs DEF Inputs
  <2>2. programme[n] \in Collectives /\ GroupOf(programme[n]) = g
    BY <2>1, BusyIs
  <2>3. route_output(programme[n], p.rt) = Outs(g, p.rt)
    BY <2>1, <2>2, RouteOutputIs
  <2> QED
    BY <2>3 DEF outs
<1>4. requests' = Push(Pop(requests, {p}), to, n) /\ accepted' = Push(accepted, in, n)
  BY <1>3 DEF Spread
<1>5. Follows(g, {Req(p)}, T)
  BY <1>1, <1>2, SpreadFollows
<1>6. /\ WayInv(g, Shift(H, {Req(p)}, T, n), sent, Done)
      /\ \A t \in T : \A k \in H[t] : k < n
  <2> HIDE DEF g, H, n, T
  <2> QED
    BY <1>1, <1>2, <1>5, ShiftKeeps
<1>7. /\ \A q : Req(q) \in T <=> q \in to
      /\ \A rt : Acc(rt) \in T <=> rt \in in
      /\ \A q : Ans(q) \notin T
      /\ \A pl \in T : pl.kind = "accepted" => pl.at.port = Eject
      /\ T \subseteq Places
  <2>1. T = {Req(q) : q \in to} \cup {Acc(rt) : rt \in in}
    BY DEF Copies
  <2>2. T \subseteq Places
    BY <1>5 DEF Follows
  <2> HIDE DEF T, to, in
  <2>3. ASSUME NEW q PROVE Req(q) \in T <=> q \in to
    BY <2>1, KindIs
  <2>4. ASSUME NEW rt PROVE Acc(rt) \in T <=> rt \in in
    BY <2>1, KindIs
  <2>5. ASSUME NEW q PROVE Ans(q) \notin T
    <3>1. (\A u : Req(u) # Ans(q)) /\ (\A u : Acc(u) # Ans(q))
      BY KindIs
    <3> QED
      BY <2>1, <3>1
  <2>6. \A pl \in T : pl.kind = "accepted" => pl.at.port = Eject
    BY <2>1, KindIs
  <2> QED
    BY <2>2, <2>3, <2>4, <2>5, <2>6
<1> HIDE DEF g, H, n, to, in, T
<1>8. /\ \A q \in to : q \in Inputs
      /\ \A rt \in in : rt \in Routers
  <2>1. \A q \in to : Req(q) \in Places
    BY <1>7
  <2>2. \A q \in to : q \in Inputs
    BY <2>1 DEF Req, Places
  <2>3. \A rt \in in : rt \in Routers
    BY <1>2 DEF in, Inputs
  <2> QED
    BY <2>2, <2>3
<1>9. /\ \A q \in Inputs : H[Req(q)] = Held(requests, q)
      /\ \A rt \in Routers : H[Acc(rt)] = Held(accepted, rt)
  BY HeldIs DEF H, AtPlaces
<1>10. /\ InOrder(Pop(requests, {p})) /\ DOMAIN Pop(requests, {p}) \subseteq DOMAIN requests
       /\ \A q : Held(Pop(requests, {p}), q) = IF q \in {p} THEN Held(requests, q) \ {n} ELSE Held(requests, q)
  <2>1. InOrder(requests) /\ HeadsAre(requests, {p}, n)
    BY <1>1 DEF QueueTypes, n, HeadsAre
  <2>2. Popped(requests, {p}, n)
    BY <2>1, PopInOrder
  <2> QED
    BY <2>2 DEF Popped
<1>11. n \in Nat
  BY <1>2
<1>12. /\ InOrder(requests') /\ DOMAIN requests' = DOMAIN Pop(requests, {p}) \cup to
       /\ \A q : Held(requests', q) = Held(Pop(requests, {p}), q) \cup (IF q \in to THEN {n} ELSE {})
  <2>1. ASSUME NEW q \in to, NEW k \in Held(Pop(requests, {p}), q)
        PROVE  k < n
    <3>1. Held(Pop(requests, {p}), q) \subseteq Held(requests, q)
      BY <1>10
    <3>2. k \in H[Req(q)] /\ Req(q) \in T
      BY <1>7, <1>8, <1>9, <2>1, <3>1
    <3> QED
      BY <1>6, <3>2
  <2>2. Below(Pop(requests, {p}), to, n)
    BY <2>1 DEF Below
  <2>3. Pushed(Pop(requests, {p}), to, n)
    BY <1>10, <1>11, <2>2, PushInOrder
  <2> QED
    BY <1>4, <2>3 DEF Pushed
<1>13. /\ InOrder(accepted') /\ DOMAIN accepted' = DOMAIN accepted \cup in
       /\ \A rt : Held(accepted', rt) = Held(accepted, rt) \cup (IF rt \in in THEN {n} ELSE {})
  <2>1. Below(accepted, in, n)
    BY <1>6, <1>7, <1>8, <1>9 DEF Below
  <2>2. InOrder(accepted)
    BY <1>1 DEF QueueTypes
  <2>3. Pushed(accepted, in, n)
    BY <1>11, <2>1, <2>2, PushInOrder
  <2> QED
    BY <1>4, <2>3 DEF Pushed
<1>14. AtPlaces' = Shift(H, {Req(p)}, T, n)
  <2>1. \A q \in Inputs : Held(requests', q) =
            (IF Req(q) \in {Req(p)} THEN Held(requests, q) \ {n} ELSE Held(requests, q))
                                              \cup (IF Req(q) \in T THEN {n} ELSE {})
    BY <1>7, <1>10, <1>12, KindIs
  <2>2. \A rt \in Routers : Held(accepted', rt) =
            (IF Acc(rt) \in {Req(p)} THEN Held(accepted, rt) \ {n} ELSE Held(accepted, rt))
                                              \cup (IF Acc(rt) \in T THEN {n} ELSE {})
    BY <1>7, <1>13, KindIs
  <2>3. \A q \in Inputs : Held(Numbers(answers'), q) =
            (IF Ans(q) \in {Req(p)} THEN Held(Numbers(answers), q) \ {n} ELSE Held(Numbers(answers), q))
                                              \cup (IF Ans(q) \in T THEN {n} ELSE {})
    BY <1>1, <1>7, KindIs
  <2>4. \A pl \in {Req(p)} \cup T : pl.kind = "accepted" => pl.at.port = Eject
    BY <1>7, KindIs
  <2>5. PlacesOf(requests', accepted', Numbers(answers')) = Shift(PlacesOf(requests, accepted, Numbers(answers)), {Req(p)}, T, n)
    BY <2>1, <2>2, <2>3, <2>4, ShiftIs
  <2> QED
    BY <2>5 DEF AtPlaces, H
<1>15. QueueTypes'
  <2>1. TheGroup' = TheGroup
    BY <1>1 DEF TheGroup
  <2> QED
    BY <1>1, <1>8, <1>10, <1>12, <1>13, <2>1 DEF QueueTypes
<1>16. WayInv(TheGroup, AtPlaces', sent', Done)
  BY <1>1, <1>6, <1>14 DEF g
<1> QED
  BY <1>1, <1>15, <1>16, BusyStays

LEMMA AnswerKeeps ==
    ASSUME OneGroup, Busy, NEW rt \in DOMAIN accepted, Answer(rt)
    PROVE  Busy'
<1> DEFINE g == TheGroup
           H == AtPlaces
           n == Head(accepted[rt])
           e == [rt |-> rt, port |-> Eject]
           f == [n |-> n, src |-> rt, members |-> {rt}]
<1>1. /\ g \in Groupings /\ sent \in Nat
      /\ WayInv(g, H, sent, Done) /\ QueueTypes
      /\ UNCHANGED <<programme, sent, given, requests>>
      /\ sent \in 0 .. Len(programme)
  BY BusyIs DEF Busy, Answer
<1>2. rt \in Routers /\ n \in 1 .. sent /\ First(H, {Acc(rt)}, n) /\ InGroup(g, rt)
  BY HeadIs
<1>3. n \in Nat
  BY <1>2
<1>4. e \in Inputs /\ e.rt = rt /\ e.port = Eject
  BY <1>2 DEF Inputs
<1>5. accepted' = Pop(accepted, {rt}) /\ answers' = Push(answers, {e}, f)
  BY DEF Answer
<1>6. f.n = n /\ f \in AnswersAt(g, e) /\ f \in AnswerRecords
  <2>1. {m \in Routers : AnsCovers(g, e, m)} = {rt}
    BY <1>2, <1>4 DEF AnsCovers, Horizontal, Vertical, North, South, East, West, Eject
  <2> HIDE DEF e
  <2> QED
    BY <1>2, <1>3, <2>1 DEF AnswersAt, AnswerRecords
<1>7. Follows(g, {Acc(rt)}, {Ans(e)})
  BY <1>1, <1>2, AnswerFollows
<1> HIDE DEF g, H, n, e, f
<1>8. /\ WayInv(g, Shift(H, {Acc(rt)}, {Ans(e)}, n), sent, Done)
      /\ \A k \in H[Ans(e)] : k < n
  BY <1>1, <1>2, <1>7, ShiftKeeps
<1>9. Popped(accepted, {rt}, n)
  BY <1>1, PopInOrder DEF HeadsAre, QueueTypes, n
<1>10. Pushed(Numbers(answers), {e}, n)
  <2>1. H[Ans(e)] = Held(Numbers(answers), e)
    BY <1>4, HeldIs DEF H, AtPlaces
  <2>2. Below(Numbers(answers), {e}, n)
    BY <1>8, <2>1 DEF Below
  <2> QED
    BY <1>1, <1>3, <2>2, PushInOrder DEF QueueTypes
<1>11. Numbers(answers') = Push(Numbers(answers), {e}, n) /\ AnswerQueues(g, answers')
       /\ DOMAIN answers' = DOMAIN answers \cup {e}
  <2>1. AnswerQueues(g, answers) /\ Fits(g, {e}, f)
    BY <1>1, <1>6 DEF QueueTypes, Fits, g
  <2>2. AnswersPushed(g, answers, {e}, f)
    BY <1>6, <2>1, AnswersPush
  <2> QED
    BY <1>5, <1>6, <2>2 DEF AnswersPushed
<1>12. AtPlaces' = Shift(H, {Acc(rt)}, {Ans(e)}, n)
  <2>1. \A q \in Inputs : Held(requests', q) =
            (IF Req(q) \in {Acc(rt)} THEN Held(requests, q) \ {n} ELSE Held(requests, q))
                                              \cup (IF Req(q) \in {Ans(e)} THEN {n} ELSE {})
    BY <1>1, KindIs
  <2>2. \A ru \in Routers : Held(accepted', ru) =
            (IF Acc(ru) \in {Acc(rt)} THEN Held(accepted, ru) \ {n} ELSE Held(accepted, ru))
                                              \cup (IF Acc(ru) \in {Ans(e)} THEN {n} ELSE {})
    BY <1>5, <1>9, KindIs DEF Popped
  <2>3. \A q \in Inputs : Held(Numbers(answers'), q) =
            (IF Ans(q) \in {Acc(rt)} THEN Held(Numbers(answers), q) \ {n} ELSE Held(Numbers(answers), q))
                                              \cup (IF Ans(q) \in {Ans(e)} THEN {n} ELSE {})
    BY <1>10, <1>11, KindIs DEF Pushed
  <2>4. \A pl \in {Acc(rt)} \cup {Ans(e)} : pl.kind = "accepted" => pl.at.port = Eject
    BY KindIs
  <2>5. PlacesOf(requests', accepted', Numbers(answers')) =
            Shift(PlacesOf(requests, accepted, Numbers(answers)), {Acc(rt)}, {Ans(e)}, n)
    BY <2>1, <2>2, <2>3, <2>4, ShiftIs
  <2> QED
    BY <2>5 DEF AtPlaces, H
<1>13. QueueTypes'
  <2>1. TheGroup' = TheGroup
    BY <1>1 DEF TheGroup
  <2>2. InOrder(Numbers(answers'))
    BY <1>10, <1>11 DEF Pushed
  <2>3. InOrder(accepted') /\ DOMAIN accepted' \subseteq DOMAIN accepted
    BY <1>5, <1>9 DEF Popped
  <2>4. AnswerQueues(TheGroup', answers')
    BY <1>11, <2>1 DEF g
  <2> QED
    BY <1>1, <1>4, <1>11, <2>2, <2>3, <2>4 DEF QueueTypes
<1>14. WayInv(TheGroup, AtPlaces', sent', Done)
  BY <1>1, <1>8, <1>12 DEF g
<1> QED
  BY <1>1, <1>13, <1>14, BusyStays

\* What is at the inputs of a router that merges.
LEMMA HeadsIs ==
    ASSUME OneGroup, Busy, NEW rt \in Routers
    PROVE  /\ \A q : q \in DOMAIN heads(rt) <=> [rt |-> rt, port |-> q] \in DOMAIN answers
           /\ \A q \in DOMAIN heads(rt) :
                 /\ heads(rt)[q] = Head(answers[[rt |-> rt, port |-> q]])
                 /\ Expected(rt, q) = Ins(TheGroup, rt) /\ q \in Ins(TheGroup, rt)
<1>1. DOMAIN answers \subseteq Inputs
  BY DEF Busy, QueueTypes
<1>2. DOMAIN heads(rt) = {p.port : p \in {p \in DOMAIN answers : p.rt = rt}}
  BY DEF heads
<1>3. \A p \in DOMAIN answers : p = [rt |-> p.rt, port |-> p.port]
  BY <1>1 DEF Inputs
<1>4. ASSUME NEW q
      PROVE  q \in DOMAIN heads(rt) <=> [rt |-> rt, port |-> q] \in DOMAIN answers
  <2>1. [rt |-> rt, port |-> q].rt = rt /\ [rt |-> rt, port |-> q].port = q
    OBVIOUS
  <2>2. q \in DOMAIN heads(rt) => [rt |-> rt, port |-> q] \in DOMAIN answers
    BY <1>2, <1>3
  <2>3. [rt |-> rt, port |-> q] \in DOMAIN answers => q \in DOMAIN heads(rt)
    BY <1>2, <2>1
  <2> QED
    BY <2>2, <2>3
<1>5. ASSUME NEW q \in DOMAIN heads(rt)
      PROVE  /\ heads(rt)[q] = Head(answers[[rt |-> rt, port |-> q]])
             /\ Expected(rt, q) = Ins(TheGroup, rt) /\ q \in Ins(TheGroup, rt)
  <2> DEFINE p == [rt |-> rt, port |-> q]
             f == Head(answers[p])
  <2>1. heads(rt)[q] = f
    BY DEF heads
  <2>2. p \in DOMAIN answers /\ p.rt = rt /\ p.port = q
    BY <1>4
  <2>3. /\ p \in Inputs /\ f.n \in 1 .. sent /\ f \in AnswersAt(TheGroup, p)
        /\ \E m \in Routers : AnsCovers(TheGroup, p, m)
    BY <2>2, HeadIs
  <2>4. TheGroup \in Groupings
    BY BusyIs
  <2>5. q \in Ins(TheGroup, rt)
    <3>1. q \in Compass \cup {Eject}
      BY <2>2, <2>3 DEF Inputs
    <3> QED
      BY <2>3, <2>4, <3>1, PartsCover
  <2> HIDE DEF p, f
  <2>6. f.n \in DOMAIN programme
    BY <2>3, BusyIs
  <2>7. programme[f.n] \in Collectives /\ GroupOf(programme[f.n]) = TheGroup
    BY <2>6, BusyIs
  <2>8. f.src \in Routers /\ InGroup(TheGroup, f.src)
    BY <2>3 DEF AnswersAt, InGroup
  <2>9. Header(f) = [src |-> f.src, dst |-> programme[f.n].src, mask |-> programme[f.n].mask]
    BY DEF Header
  <2>10. route_expected_input(Header(f), rt) = Ins(TheGroup, rt)
    BY <2>7, <2>8, <2>9, ExpectedIs
  <2>11. Expected(rt, q) = Ins(TheGroup, rt)
    BY <2>1, <2>10 DEF Expected
  <2> QED
    BY <2>1, <2>5, <2>11 DEF p, f
<1> QED
  BY <1>4, <1>5

\* They are all for one request, and stand for all members behind the router.
LEMMA JoinedIs ==
    ASSUME OneGroup, Busy, NEW rt \in Routers, NEW sel \in complete(rt)
    PROVE  /\ sel \in Ins(TheGroup, rt) /\ Expected(rt, sel) = Ins(TheGroup, rt)
           /\ \A q \in Ins(TheGroup, rt) :
                 LET p == [rt |-> rt, port |-> q]
                 IN  /\ p \in DOMAIN answers /\ heads(rt)[q] = Head(answers[p])
                     /\ heads(rt)[q].n = heads(rt)[sel].n
                     /\ First(AtPlaces, {Ans(p)}, heads(rt)[sel].n)
                     /\ heads(rt)[q] \in AnswersAt(TheGroup, p)
           /\ heads(rt)[sel].n \in 1 .. sent
<1>1. sel \in DOMAIN heads(rt) /\ \A q \in Expected(rt, sel) : q \in DOMAIN heads(rt)
  BY DEF complete
<1>2. sel \in Ins(TheGroup, rt) /\ Expected(rt, sel) = Ins(TheGroup, rt)
  BY <1>1, HeadsIs
<1>3. ASSUME NEW q \in Ins(TheGroup, rt)
      PROVE  LET p == [rt |-> rt, port |-> q]
             IN  /\ p \in DOMAIN answers /\ heads(rt)[q] = Head(answers[p])
                 /\ First(AtPlaces, {Ans(p)}, heads(rt)[q].n)
                 /\ heads(rt)[q] \in AnswersAt(TheGroup, p)
                 /\ heads(rt)[q].n \in 1 .. sent
  <2> DEFINE p == [rt |-> rt, port |-> q]
  <2>1. p \in DOMAIN answers /\ heads(rt)[q] = Head(answers[p])
    BY <1>1, <1>2, HeadsIs
  <2> HIDE DEF p
  <2>2. /\ p \in DOMAIN answers /\ heads(rt)[q] = Head(answers[p])
        /\ First(AtPlaces, {Ans(p)}, heads(rt)[q].n)
        /\ heads(rt)[q] \in AnswersAt(TheGroup, p)
        /\ heads(rt)[q].n \in 1 .. sent
    BY <2>1, HeadIs
  <2> QED
    BY <2>2 DEF p
<1>4. WayInv(TheGroup, AtPlaces, sent, Done) /\ sent \in Nat /\ TheGroup \in Groupings
  BY BusyIs DEF Busy
<1>5. ASSUME NEW a \in Ins(TheGroup, rt), NEW b \in Ins(TheGroup, rt)
      PROVE  heads(rt)[b].n <= heads(rt)[a].n
  <2>1. /\ heads(rt)[a].n \in AtPlaces[Ans([rt |-> rt, port |-> a])]
        /\ heads(rt)[b].n \in AtPlaces[Ans([rt |-> rt, port |-> b])]
        /\ \A i \in AtPlaces[Ans([rt |-> rt, port |-> b])] : heads(rt)[b].n <= i
    BY <1>3 DEF First
  <2> QED
    BY <1>4, <2>1, JoinAgree
<1>6. ASSUME NEW q \in Ins(TheGroup, rt)
      PROVE  heads(rt)[q].n = heads(rt)[sel].n
  <2>1. heads(rt)[q].n \in 1 .. sent /\ heads(rt)[sel].n \in 1 .. sent
    BY <1>2, <1>3
  <2>2. heads(rt)[q].n <= heads(rt)[sel].n /\ heads(rt)[sel].n <= heads(rt)[q].n
    BY <1>2, <1>5
  <2> QED
    BY <1>4, <2>1, <2>2
<1> QED
  BY <1>2, <1>3, <1>6

LEMMA MergeKeeps ==
    ASSUME OneGroup, Busy, NEW rt \in {p.rt : p \in DOMAIN answers}, Merge(rt)
    PROVE  Busy'
<1> DEFINE g == TheGroup
           H == AtPlaces
           at_ == heads(rt)
           sel == CHOOSE port \in complete(rt) : \A q \in complete(rt) : port <= q
           joined == Expected(rt, sel)
           n == at_[sel].n
           src_id == programme[n].src
           to == route_sel_id([x |-> src_id.x, y |-> src_id.y, port_id |-> 0], rt)
           merged == [at_[sel] EXCEPT !.members = UNION {at_[q].members : q \in joined}]
           from == {[rt |-> rt, port |-> port] : port \in joined}
           rest == Pop(answers, from)
           F == Parts(g, rt)
<1>1. /\ g \in Groupings /\ sent \in Nat
      /\ WayInv(g, H, sent, Done) /\ QueueTypes
      /\ UNCHANGED <<programme, sent, requests, accepted>>
      /\ sent \in 0 .. Len(programme)
      /\ complete(rt) # {}
  BY BusyIs DEF Busy, Merge
<1>2. IF to = Eject
      THEN answers' = rest /\ given' = [given EXCEPT ![merged.n] = Append(@, merged.members)]
      ELSE answers' = Push(rest, {Onwards(rt, to)}, merged) /\ UNCHANGED given
  BY DEF Merge
<1>3. rt \in Routers
  BY <1>1 DEF QueueTypes, Inputs
<1>4. sel \in complete(rt)
  <2>1. \A port \in complete(rt) : port \in Ins(g, rt)
    BY <1>3, JoinedIs
  <2>2. complete(rt) \subseteq Nat
    BY <2>1 DEF Ins, Compass, North, West, Eject
  <2>3. \E port \in complete(rt) : \A q \in complete(rt) : port <= q
    BY <1>1, <2>2, Least
  <2> QED
    BY <2>3
<1> HIDE DEF sel
<1>5. /\ sel \in Ins(g, rt) /\ joined = Ins(g, rt) /\ n \in 1 .. sent
      /\ \A q \in joined : LET p == [rt |-> rt, port |-> q]
                           IN  /\ p \in DOMAIN answers /\ at_[q] = Head(answers[p]) /\ at_[q].n = n
                               /\ First(H, {Ans(p)}, n) /\ at_[q] \in AnswersAt(g, p)
  BY <1>3, <1>4, JoinedIs
<1>6. n \in Nat /\ n \in DOMAIN programme /\ src_id = g.src
  <2>1. n \in Nat /\ n \in DOMAIN programme
    BY <1>5, BusyIs
  <2> QED
    BY <2>1, BusyIs
<1>7. to = Back(g, rt)
  BY <1>6 DEF Back
<1>8. F = {Ans(p) : p \in from} /\ F # {} /\ First(H, F, n)
  <2>1. F = {Ans(p) : p \in from}
    BY <1>5 DEF Parts
  <2>0. sel \in joined /\ \A q \in joined : First(H, {Ans([rt |-> rt, port |-> q])}, n)
    BY <1>5
  <2> HIDE DEF F, joined, n, H
  <2>2. \A p \in from : First(H, {Ans(p)}, n)
    BY <2>0
  <2>3. from # {}
    BY <2>0
  <2> HIDE DEF from
  <2>4. F # {} /\ \A f \in F : First(H, {f}, n)
    BY <2>1, <2>2, <2>3
  <2>5. \A f \in F : f \in Places /\ n \in H[f] /\ \A k \in H[f] : n <= k
    BY <2>4 DEF First
  <2> QED
    BY <2>1, <2>4, <2>5 DEF First
<1>9. HeadsAre(Numbers(answers), from, n)
  <2>1. AnswerQueues(g, answers)
    BY <1>1 DEF QueueTypes
  <2>2. DOMAIN Numbers(answers) = DOMAIN answers
        /\ \A q \in DOMAIN answers : Head(Numbers(answers)[q]) = Head(answers[q]).n
    BY <2>1, AnswersPop
  <2>3. \A p \in from : p \in DOMAIN answers /\ Head(answers[p]).n = n
    BY <1>5
  <2> HIDE DEF from, n
  <2> QED
    BY <2>2, <2>3 DEF HeadsAre
<1>10. /\ merged.n = n /\ merged \in AnswerRecords /\ InGroup(g, merged.src)
       /\ merged.members = {m \in Routers : \E port \in Compass \cup {Eject} : AnsCovers(g, [rt |-> rt, port |-> port], m)}
  <2>1. at_[sel] \in AnswersAt(g, [rt |-> rt, port |-> sel])
    BY <1>5
  <2>2. \A q \in Ins(g, rt) : at_[q].members = {m \in Routers : AnsCovers(g, [rt |-> rt, port |-> q], m)}
    BY <1>5 DEF AnswersAt
  <2>3. UNION {at_[q].members : q \in joined} =
          {m \in Routers : \E port \in Compass \cup {Eject} : AnsCovers(g, [rt |-> rt, port |-> port], m)}
    <3>1. joined = Ins(g, rt) /\ Ins(g, rt) \subseteq Compass \cup {Eject}
      BY <1>5 DEF Ins
    <3>2. \A port \in Compass \cup {Eject}, m \in Routers :
             AnsCovers(g, [rt |-> rt, port |-> port], m) => port \in Ins(g, rt)
      BY <1>1, <1>3, PartsCover
    <3> HIDE DEF joined, at_
    <3>3. ASSUME NEW m \in UNION {at_[q].members : q \in joined}
          PROVE  m \in Routers /\ \E port \in Compass \cup {Eject} : AnsCovers(g, [rt |-> rt, port |-> port], m)
      <4>1. PICK q \in Ins(g, rt) : m \in at_[q].members
        BY <3>1
      <4>2. m \in Routers /\ AnsCovers(g, [rt |-> rt, port |-> q], m)
        BY <2>2, <4>1
      <4> QED
        BY <3>1, <4>1, <4>2
    <3>4. ASSUME NEW m \in Routers, NEW port \in Compass \cup {Eject}, AnsCovers(g, [rt |-> rt, port |-> port], m)
          PROVE  m \in UNION {at_[q].members : q \in joined}
      <4>1. port \in Ins(g, rt)
        BY <3>2, <3>4
      <4>2. m \in at_[port].members
        BY <2>2, <3>4, <4>1
      <4> QED
        BY <3>1, <4>1, <4>2
    <3> QED
      BY <3>3, <3>4
  <2>4. at_[sel] \in AnswerRecords /\ InGroup(g, at_[sel].src)
    BY <2>1 DEF AnswersAt
  <2>5. UNION {at_[q].members : q \in joined} \in SUBSET Routers
    BY <2>3
  <2> HIDE DEF at_, joined
  <2> QED
    BY <2>3, <2>4, <2>5 DEF AnswerRecords
<1> HIDE DEF g, H, at_, joined, n, src_id, to, merged, F
<1>11. /\ Numbers(rest) = Pop(Numbers(answers), from) /\ AnswerQueues(g, rest)
       /\ DOMAIN rest \subseteq DOMAIN answers
  BY <1>1, AnswersPop DEF QueueTypes, g
<1> HIDE DEF from, rest
<1>12. Popped(Numbers(answers), from, n)
  BY <1>1, <1>9, PopInOrder DEF QueueTypes
<1>13. /\ \A p : Ans(p) \in F <=> p \in from
       /\ \A p : Req(p) \notin F /\ Acc(p) \notin F
       /\ \A pl \in F : pl.kind = "accepted" => pl.at.port = Eject
  <2>1. ASSUME NEW p PROVE Ans(p) \in F <=> p \in from
    BY <1>8, KindIs
  <2>2. ASSUME NEW p PROVE Req(p) \notin F /\ Acc(p) \notin F
    <3>1. (\A q : Req(p) # Ans(q)) /\ (\A q : Acc(p) # Ans(q))
      BY KindIs
    <3> QED
      BY <1>8, <3>1
  <2>3. \A pl \in F : pl.kind = "accepted" => pl.at.port = Eject
    BY <1>8, KindIs
  <2> QED
    BY <2>1, <2>2, <2>3
<1>14. TheGroup' = TheGroup
  BY <1>1 DEF TheGroup
<1>15. CASE rt = g.src
  <2>1. to = Eject
    BY <1>1, <1>3, <1>7, <1>15, BackIs
  <2>2. answers' = rest /\ given' = [given EXCEPT ![n] = Append(@, merged.members)]
    BY <1>2, <1>10, <2>1
  <2>3. \A m \in Routers : InGroup(g, m) => \E port \in Compass \cup {Eject} : AnsCovers(g, [rt |-> rt, port |-> port], m)
    BY <1>1, <1>15, AllCome
  <2>4. merged.members = {m \in Routers : InGroup(g, m)}
    BY <1>10, <2>3 DEF AnsCovers
  <2>5. /\ \A f \in F : Pos(g, f) = 3 * (NumX + NumY)
        /\ \A m \in Routers : InGroup(g, m) => \E f \in F : Covers(g, f, m)
    <3>1. Distance(g.src, rt) = 0
      BY <1>3, <1>15 DEF Distance, Routers
    <3>2. \A f \in F : Pos(g, f) = 3 * (NumX + NumY) - Distance(g.src, rt)
      BY <1>1, <1>3, PartsCover DEF F
    <3>3. \A m \in Routers : (\E f \in F : Covers(g, f, m)) <=>
                      \E port \in Compass \cup {Eject} : AnsCovers(g, [rt |-> rt, port |-> port], m)
      BY <1>1, <1>3, PartsCover DEF F
    <3>4. NumX \in Int /\ NumY \in Int
      BY MeshAssumption
    <3>5. 3 * (NumX + NumY) - 0 = 3 * (NumX + NumY)
      BY <3>4
    <3>6. \A f \in F : Pos(g, f) = 3 * (NumX + NumY)
      BY <3>1, <3>2, <3>5
    <3> QED
      BY <2>3, <3>3, <3>6
  <2>6. Done \subseteq Nat
    BY BusyIs
  <2>7. WayInv(g, Shift(H, F, {}, n), sent, Done \cup {n})
    BY <1>1, <1>8, <2>5, <2>6, FinishKeeps
  <2>8. n \notin Done
    <3>1. PICK f \in F : n \in H[f] /\ f \in Places
      BY <1>8 DEF First
    <3> QED
      BY <1>1, <3>1 DEF WayInv, Located
  <2>9. given[n] = <<>> /\ given \in [DOMAIN programme -> {<<>>, <<{m \in Routers : InGroup(g, m)}>>}]
    BY <1>6, <2>8 DEF Busy, Done, g
  <2>10. /\ given' = [given EXCEPT ![n] = <<{m \in Routers : InGroup(g, m)}>>]
         /\ <<{m \in Routers : InGroup(g, m)}>> # <<>>
    BY <2>2, <2>4, <2>9
  <2>11. given' \in [DOMAIN programme' -> {<<>>, <<{m \in Routers : InGroup(g, m)}>>}]
    BY <1>1, <2>9, <2>10
  <2>12. Done' = Done \cup {n}
    <3>1. \A k \in DOMAIN programme : given'[k] = IF k = n THEN <<{m \in Routers : InGroup(g, m)}>> ELSE given[k]
      BY <2>9, <2>10
    <3> QED
      BY <1>1, <1>6, <2>10, <3>1 DEF Done
  <2>13. AtPlaces' = Shift(H, F, {}, n)
    <3>1. \A q \in Inputs : Held(requests', q) =
              (IF Req(q) \in F THEN Held(requests, q) \ {n} ELSE Held(requests, q)) \cup (IF Req(q) \in {} THEN {n} ELSE {})
      BY <1>1, <1>13
    <3>2. \A ru \in Routers : Held(accepted', ru) =
              (IF Acc(ru) \in F THEN Held(accepted, ru) \ {n} ELSE Held(accepted, ru)) \cup (IF Acc(ru) \in {} THEN {n} ELSE {})
      BY <1>1, <1>13
    <3>3. \A q \in Inputs : Held(Numbers(answers'), q) =
              (IF Ans(q) \in F THEN Held(Numbers(answers), q) \ {n} ELSE Held(Numbers(answers), q))
                                              \cup (IF Ans(q) \in {} THEN {n} ELSE {})
      BY <1>11, <1>12, <1>13, <2>2 DEF Popped
    <3>4. \A pl \in F \cup {} : pl.kind = "accepted" => pl.at.port = Eject
      BY <1>13
    <3>5. PlacesOf(requests', accepted', Numbers(answers')) = Shift(PlacesOf(requests, accepted, Numbers(answers)), F, {}, n)
      BY <3>1, <3>2, <3>3, <3>4, ShiftIs
    <3> QED
      BY <3>5 DEF AtPlaces, H
  <2>14. QueueTypes'
    <3>1. InOrder(Numbers(answers'))
      BY <1>11, <1>12, <2>2 DEF Popped
    <3>2. DOMAIN answers' \subseteq DOMAIN answers /\ AnswerQueues(TheGroup', answers')
      BY <1>11, <1>14, <2>2 DEF g
    <3> QED
      BY <1>1, <3>1, <3>2 DEF QueueTypes
  <2>15. \A k \in Done' : k <= sent'
    BY <1>1, <1>5, <2>12 DEF Busy
  <2>16. WayInv(TheGroup', AtPlaces', sent', Done')
    BY <1>1, <1>14, <2>7, <2>12, <2>13 DEF g
  <2>17. programme' \in Programmes /\ programme' # <<>> /\ sent' \in 0 .. Len(programme')
    BY <1>1 DEF Busy
  <2> QED
    BY <1>14, <2>11, <2>14, <2>15, <2>16, <2>17 DEF Busy, g
<1>16. CASE rt # g.src
  <2> DEFINE q == Onwards(rt, Back(g, rt))
  <2>1. to # Eject
    BY <1>1, <1>3, <1>7, <1>16, BackIs
  <2>2. answers' = Push(rest, {q}, merged) /\ UNCHANGED given
    BY <1>2, <1>7, <2>1
  <2>3. q \in Inputs /\ Follows(g, F, {Ans(q)})
    BY <1>1, <1>3, <1>5, <1>16, MergeFollows DEF F
  <2> HIDE DEF q
  <2>4. /\ WayInv(g, Shift(H, F, {Ans(q)}, n), sent, Done)
        /\ \A k \in H[Ans(q)] : k < n
    BY <1>1, <1>8, <2>3, ShiftKeeps
  <2>5. merged \in AnswersAt(g, q)
    <3>1. \A m \in Routers : (\E f \in F : Covers(g, f, m)) <=> AnsCovers(g, q, m)
      BY <1>1, <2>3, PlaceIs DEF Follows
    <3>2. \A m \in Routers : (\E f \in F : Covers(g, f, m)) <=>
                      \E port \in Compass \cup {Eject} : AnsCovers(g, [rt |-> rt, port |-> port], m)
      BY <1>1, <1>3, PartsCover DEF F
    <3> QED
      BY <1>10, <3>1, <3>2 DEF AnswersAt
  <2>6. Pushed(Numbers(rest), {q}, n)
    <3>1. H[Ans(q)] = Held(Numbers(answers), q)
      BY <2>3, HeldIs DEF H, AtPlaces
    <3>2. Held(Numbers(rest), q) \subseteq Held(Numbers(answers), q) /\ InOrder(Numbers(rest))
      BY <1>11, <1>12 DEF Popped
    <3>3. Below(Numbers(rest), {q}, n)
      BY <2>4, <3>1, <3>2 DEF Below
    <3> QED
      BY <1>6, <3>2, <3>3, PushInOrder
  <2>7. /\ Numbers(answers') = Push(Numbers(rest), {q}, n) /\ AnswerQueues(g, answers')
        /\ DOMAIN answers' = DOMAIN rest \cup {q}
    <3>1. Fits(g, {q}, merged)
      BY <2>5 DEF Fits
    <3>2. AnswersPushed(g, rest, {q}, merged)
      BY <1>10, <1>11, <3>1, AnswersPush
    <3> QED
      BY <1>10, <2>2, <3>2 DEF AnswersPushed
  <2>8. AtPlaces' = Shift(H, F, {Ans(q)}, n)
    <3>1. \A r \in Inputs : Held(requests', r) =
              (IF Req(r) \in F THEN Held(requests, r) \ {n} ELSE Held(requests, r))
                                              \cup (IF Req(r) \in {Ans(q)} THEN {n} ELSE {})
      BY <1>1, <1>13, KindIs
    <3>2. \A ru \in Routers : Held(accepted', ru) =
              (IF Acc(ru) \in F THEN Held(accepted, ru) \ {n} ELSE Held(accepted, ru))
                                              \cup (IF Acc(ru) \in {Ans(q)} THEN {n} ELSE {})
      BY <1>1, <1>13, KindIs
    <3>3. \A r \in Inputs : Held(Numbers(answers'), r) =
              (IF Ans(r) \in F THEN Held(Numbers(answers), r) \ {n} ELSE Held(Numbers(answers), r))
                                              \cup (IF Ans(r) \in {Ans(q)} THEN {n} ELSE {})
      <4>1. \A r : Held(Numbers(answers'), r) = Held(Numbers(rest), r) \cup (IF r \in {q} THEN {n} ELSE {})
        BY <2>6, <2>7 DEF Pushed
      <4>2. \A r : Held(Numbers(rest), r) = IF r \in from THEN Held(Numbers(answers), r) \ {n} ELSE Held(Numbers(answers), r)
        BY <1>11, <1>12 DEF Popped
      <4>3. \A r : (Ans(r) \in F <=> r \in from) /\ (Ans(r) \in {Ans(q)} <=> r \in {q})
        BY <1>13, KindIs
      <4> QED
        BY <4>1, <4>2, <4>3
    <3>4. \A pl \in F \cup {Ans(q)} : pl.kind = "accepted" => pl.at.port = Eject
      BY <1>13, KindIs
    <3>5. PlacesOf(requests', accepted', Numbers(answers')) =
            Shift(PlacesOf(requests, accepted, Numbers(answers)), F, {Ans(q)}, n)
      BY <3>1, <3>2, <3>3, <3>4, ShiftIs
    <3> QED
      BY <3>5 DEF AtPlaces, H
  <2>9. QueueTypes'
    <3>1. InOrder(Numbers(answers'))
      BY <2>6, <2>7 DEF Pushed
    <3>2. DOMAIN answers' \subseteq Inputs /\ AnswerQueues(TheGroup', answers')
      BY <1>1, <1>11, <1>14, <2>3, <2>7 DEF QueueTypes, g
    <3> QED
      BY <1>1, <3>1, <3>2 DEF QueueTypes
  <2>10. WayInv(TheGroup, AtPlaces', sent', Done)
    BY <1>1, <2>4, <2>8 DEF g
  <2> QED
    BY <1>1, <2>2, <2>9, <2>10, BusyStays
<1> QED
  BY <1>15, <1>16

LEMMA CInvInit == OneGroup /\ MeshInit => CInv
<1> SUFFICES ASSUME OneGroup, MeshInit PROVE CInv
  OBVIOUS
<1>1. /\ programme \in Programmes \cup {<<>>} /\ sent = 0
      /\ requests = <<>> /\ accepted = <<>> /\ answers = <<>>
      /\ given = [n \in DOMAIN programme |-> <<>>]
  BY DEF MeshInit
<1>2. CASE programme = <<>>
  <2>1. given = <<>>
    BY <1>1, <1>2
  <2> QED
    BY <1>1, <1>2, <2>1 DEF CInv, Idle
<1>3. CASE programme # <<>>
  <2>1. programme \in Programmes /\ programme \in Seq(Collectives)
    BY <1>1, <1>3, CollectiveAssumption
  <2>2. Len(programme) \in Nat
    BY <2>1
  <2>3. DOMAIN requests = {} /\ DOMAIN accepted = {} /\ DOMAIN answers = {} /\ DOMAIN Numbers(answers) = {}
    BY <1>1 DEF Numbers
  <2>4. QueueTypes
    BY <2>3 DEF QueueTypes, InOrder, AnswerQueues
  <2>5. Done = {}
    BY <1>1 DEF Done
  <2>6. \A pl \in Places : AtPlaces[pl] = {}
    <3>1. \A q : Held(requests, q) = {} /\ Held(accepted, q) = {} /\ Held(Numbers(answers), q) = {}
      BY <2>3 DEF Held
    <3>2. \A pl \in Places : pl.kind \in {"request", "accepted", "answer"}
      BY DEF Places
    <3> QED
      BY <3>1, <3>2 DEF AtPlaces, PlacesOf, HeldAt
  <2>7. AtPlaces \in [Places -> SUBSET Nat]
    <3>1. AtPlaces = [pl \in Places |-> AtPlaces[pl]]
      BY DEF AtPlaces, PlacesOf
    <3> HIDE DEF AtPlaces
    <3> QED
      BY <2>6, <3>1
  <2>8. WayInv(TheGroup, AtPlaces, 0, {})
    BY <2>6, <2>7 DEF WayInv, Located, OnePlace, Ordered
  <2>9. given \in [DOMAIN programme -> {<<>>, <<{m \in Routers : InGroup(TheGroup, m)}>>}]
    BY <1>1
  <2> QED
    BY <1>1, <1>3, <2>1, <2>2, <2>4, <2>5, <2>8, <2>9 DEF CInv, Busy
<1> QED
  BY <1>2, <1>3

LEMMA CInvNext == OneGroup /\ CInv /\ [MeshNext]_<<vars, cvars>> => CInv'
<1> SUFFICES ASSUME OneGroup, CInv, [MeshNext]_<<vars, cvars>> PROVE CInv'
  OBVIOUS
<1>1. CASE UNCHANGED cvars
  <2>1. Idle => Idle'
    BY <1>1 DEF Idle, cvars
  <2>2. ASSUME Busy PROVE Busy'
    <3>1. QueueTypes' /\ AtPlaces' = AtPlaces
      BY <1>1, <2>2 DEF Busy, QueueTypes, TheGroup, AtPlaces, cvars
    <3>2. WayInv(TheGroup, AtPlaces', sent', Done)
      BY <1>1, <2>2, <3>1 DEF Busy, cvars
    <3>3. sent' = sent /\ sent \in 0 .. Len(programme) /\ sent \in Nat /\ UNCHANGED <<programme, given>>
      BY <1>1, <2>2, BusyIs DEF Busy, cvars
    <3> QED
      BY <2>2, <3>1, <3>2, <3>3, BusyStays
  <2> QED
    BY <2>1, <2>2 DEF CInv
<1>2. CASE CollectiveStep
  <2>1. ~ Idle
    BY <1>2 DEF CollectiveStep, Idle, Send
  <2>2. Busy
    BY <2>1 DEF CInv
  <2>3. CASE Send
    BY <2>2, <2>3, SendKeeps DEF CInv
  <2>4. ASSUME NEW p \in DOMAIN requests, Spread(p)
        PROVE  CInv'
    BY <2>2, <2>4, SpreadKeeps DEF CInv
  <2>5. ASSUME NEW rt \in DOMAIN accepted, Answer(rt)
        PROVE  CInv'
    BY <2>2, <2>5, AnswerKeeps DEF CInv
  <2>6. ASSUME NEW rt \in {p.rt : p \in DOMAIN answers}, Merge(rt)
        PROVE  CInv'
    BY <2>2, <2>6, MergeKeeps DEF CInv
  <2> QED
    BY <1>2, <2>3, <2>4, <2>5, <2>6 DEF CollectiveStep
<1> QED
  BY <1>1, <1>2 DEF MeshNext, FlitStep

\* Each member once.
LEMMA ArrivedOnce ==
    ASSUME OneGroup, Busy, NEW n \in DOMAIN programme, NEW rt \in DOMAIN accepted
    PROVE  Arrived(n, rt) <= 1 /\ InGroup(TheGroup, rt)
<1> DEFINE S == {i \in DOMAIN accepted[rt] : accepted[rt][i] = n}
<1>1. accepted[rt] \in Seq(Nat) /\ Increasing(accepted[rt])
  BY DEF Busy, QueueTypes, InOrder
<1>2. \A i, j \in S : i = j
  <2>1. ASSUME NEW i \in S, NEW j \in S, i < j
        PROVE  FALSE
    <3>1. accepted[rt][i] < accepted[rt][j] /\ accepted[rt][i] = n /\ accepted[rt][j] = n /\ n \in Nat
      BY <1>1, <2>1 DEF Increasing
    <3> QED
      BY <3>1
  <2>2. S \subseteq Nat
    BY <1>1
  <2> HIDE DEF S
  <2> QED
    BY <2>1, <2>2
<1> HIDE DEF S
<1>3. Cardinality(S) <= 1
  <2>1. CASE S = {}
    <3>1. Cardinality(S) = 0
      BY <2>1, FS_EmptySet
    <3> QED
      BY <3>1
  <2>2. CASE S # {}
    <3>1. PICK i \in S : TRUE
      BY <2>2
    <3>2. S = {i}
      BY <1>2, <3>1
    <3>3. Cardinality(S) = 1
      BY <3>2, FS_Singleton
    <3> QED
      BY <3>3
  <2> QED
    BY <2>1, <2>2
<1>4. Arrived(n, rt) <= 1
  BY <1>3 DEF Arrived, S
<1> QED
  BY <1>4, HeadIs

LEMMA SomeStep ==
    ASSUME OneGroup, Busy, \E n \in DOMAIN programme : given[n] = <<>>
    PROVE  GoesOn
<1> SUFFICES ASSUME ~ GoesOn PROVE FALSE
  OBVIOUS
<1> DEFINE g == TheGroup
           H == AtPlaces
<1>1. /\ g \in Groupings /\ sent \in Nat /\ WayInv(g, H, sent, Done)
      /\ Len(programme) \in Nat /\ DOMAIN programme = 1 .. Len(programme) /\ sent \in 0 .. Len(programme)
      /\ DOMAIN requests \subseteq Inputs /\ DOMAIN accepted \subseteq Routers /\ DOMAIN answers \subseteq Inputs
  BY BusyIs DEF Busy, QueueTypes
<1>2. PICK n0 \in 1 .. sent : n0 \notin Done
  BY <1>1 DEF GoesOn, Done
<1>3. DOMAIN requests = {}
  <2>1. ASSUME NEW p \in DOMAIN requests
        PROVE  FALSE
    <3>1. /\ p \in Inputs /\ p.rt \in Routers /\ Head(requests[p]) \in DOMAIN programme
          /\ \E m \in Routers : ReqCovers(g, p, m)
      BY HeadIs, BusyIs DEF Inputs
    <3>2. programme[Head(requests[p])] \in Collectives /\ GroupOf(programme[Head(requests[p])]) = g
      BY <3>1, BusyIs
    <3>3. outs(p) = Outs(g, p.rt)
      BY <3>1, <3>2, RouteOutputIs DEF outs
    <3>4. PICK m \in Routers : ReqCovers(g, p, m)
      BY <3>1
    <3>5. m = p.rt \/ \E out \in Compass : GoesTo(g, p.rt, out)
      BY <1>1, <3>1, <3>4, GoesToAll
    <3>6. Outs(g, p.rt) # {}
      BY <3>4, <3>5 DEF Outs, ReqCovers
    <3> QED
      BY <3>3, <3>6 DEF GoesOn
  <2> QED
    BY <2>1
<1>4. DOMAIN accepted = {}
  BY DEF GoesOn
<1>5. /\ \A p \in Inputs : H[Req(p)] = {}
      /\ \A rt \in Routers : H[Acc(rt)] = {}
      /\ \A p \in Inputs : H[Ans(p)] = Held(Numbers(answers), p)
  BY <1>3, <1>4, HeldIs DEF AtPlaces, Held
<1> HIDE DEF g, H
<1>6. PICK rt \in Routers, n \in Nat :
         /\ Ins(g, rt) # {}
         /\ \A port \in Ins(g, rt) : LET A == H[Ans([rt |-> rt, port |-> port])] IN n \in A /\ \A k \in A : n <= k
  BY <1>1, <1>2, <1>5, Progress
<1>7. ASSUME NEW port \in Ins(g, rt)
      PROVE  [rt |-> rt, port |-> port] \in DOMAIN answers /\ port \in DOMAIN heads(rt) /\ heads(rt)[port].n = n
  <2> DEFINE p == [rt |-> rt, port |-> port]
  <2>1. p \in Inputs
    BY <1>1, InsPlace
  <2>2. n \in H[Ans(p)] /\ \A k \in H[Ans(p)] : n <= k
    BY <1>6
  <2> HIDE DEF p
  <2>3. p \in DOMAIN answers
    <3>1. n \in Held(Numbers(answers), p)
      BY <1>5, <2>1, <2>2
    <3> QED
      BY <3>1 DEF Held, Numbers
  <2>4. First(H, {Ans(p)}, Head(answers[p]).n) /\ Head(answers[p]).n \in 1 .. sent
    BY <2>3, HeadIs DEF H
  <2>5. Head(answers[p]).n = n
    <3>1. Head(answers[p]).n \in H[Ans(p)] /\ \A k \in H[Ans(p)] : Head(answers[p]).n <= k
      BY <2>4 DEF First
    <3>2. Head(answers[p]).n <= n /\ n <= Head(answers[p]).n
      BY <2>2, <3>1
    <3> QED
      BY <1>1, <2>4, <3>2
  <2>6. port \in DOMAIN heads(rt) /\ heads(rt)[port] = Head(answers[p])
    BY <2>3, HeadsIs DEF p
  <2> QED
    BY <2>3, <2>5, <2>6 DEF p
<1>8. PICK port \in Ins(g, rt) : TRUE
  BY <1>6
<1>9. port \in complete(rt)
  <2>1. Expected(rt, port) = Ins(g, rt)
    BY <1>7, HeadsIs DEF g
  <2>2. ASSUME NEW q \in Ins(g, rt)
        PROVE  q \in DOMAIN heads(rt) /\ joins(heads(rt)[q], heads(rt)[port])
    <3>1. heads(rt)[q].n = n /\ heads(rt)[port].n = n
      BY <1>7
    <3> QED
      BY <1>7, <3>1 DEF joins, Header
  <2> QED
    BY <1>7, <2>1, <2>2 DEF complete
<1>10. [rt |-> rt, port |-> port] \in DOMAIN answers /\ [rt |-> rt, port |-> port].rt = rt
  BY <1>7
<1>11. complete(rt) # {}
  BY <1>9
<1> QED
  BY <1>10, <1>11 DEF GoesOn

LEMMA CInvComplete == OneGroup /\ CInv => CollectivesComplete
<1> SUFFICES ASSUME OneGroup, CInv PROVE CollectivesComplete
  OBVIOUS
<1>1. CASE Idle
  BY <1>1 DEF Idle, CollectivesComplete
<1>2. CASE Busy
  <2>1. ASSUME NEW n \in DOMAIN programme
        PROVE  Members(n) = {m \in Routers : InGroup(TheGroup, m)}
    <3>1. programme[n] \in Collectives /\ GroupOf(programme[n]) = TheGroup
      BY <1>2, BusyIs
    <3>2. /\ TheGroup.xs = Group[programme[n].dst.x][programme[n].mask.x]
          /\ TheGroup.ys = Group[programme[n].dst.y][programme[n].mask.y]
      BY <3>1, CollectiveIs
    <3> QED
      BY <3>2 DEF Members, matched, InGroup
  <2>2. ASSUME NEW n \in DOMAIN programme
        PROVE  given[n] \in {<<>>, <<Members(n)>>}
    BY <1>2, <2>1 DEF Busy
  <2>3. ASSUME NEW n \in DOMAIN programme, NEW rt \in DOMAIN accepted
        PROVE  Arrived(n, rt) <= IF rt \in Members(n) THEN 1 ELSE 0
    <3>1. Arrived(n, rt) <= 1 /\ InGroup(TheGroup, rt)
      BY <1>2, ArrivedOnce
    <3>2. rt \in Members(n)
      BY <2>1, <3>1 DEF InGroup
    <3> QED
      BY <3>1, <3>2
  <2>4. (\E n \in DOMAIN programme : given[n] = <<>>) => GoesOn
    BY <1>2, SomeStep
  <2> QED
    BY <2>2, <2>3, <2>4 DEF CollectivesComplete
<1> QED
  BY <1>1, <1>2 DEF CInv

(* Requests to a group reach each member exactly once and nobody else, and   *)
(* are answered once, when all members have answered; and as long as one is   *)
(* not, some router, member or sender has a step to take: in every mesh, with *)
(* either algorithm, from every router, to every group in the mesh, with any  *)
(* number of requests close behind each other, each to another member of the  *)
(* group (hw/floo_route_xymask.sv, hw/floo_reduction_sync.sv).                *)
THEOREM EveryMemberOnce == OneGroup => (MeshSpec => []CollectivesComplete)
<1> SUFFICES ASSUME OneGroup PROVE MeshSpec => []CollectivesComplete
  OBVIOUS
<1>1. MeshInit => CInv
  BY CInvInit
<1>2. CInv /\ [MeshNext]_<<vars, cvars>> => CInv'
  BY CInvNext
<1>3. CInv => CollectivesComplete
  BY CInvComplete
<1> QED
  BY <1>1, <1>2, <1>3, PTL DEF MeshSpec

-----------------------------------------------------------------------------
(* The arbiter of two virtual channels: VcArbiter *)

\* A non-empty set of channels has a lowest one.
LEMMA LowestChannel ==
    ASSUME NEW S \in SUBSET VCs, S # {}
    PROVE  Arb!Lowest(S) \in S
<1>1. \E i \in S : \A j \in S : i <= j
  <2>1. CASE 0 \in S
    BY <2>1 DEF VCs
  <2>2. CASE 0 \notin S
    <3>1. PICK i \in S : TRUE
      OBVIOUS
    <3>2. \A j \in S : j = 1
      BY <2>2 DEF VCs
    <3> QED
      BY <3>1, <3>2
  <2> QED
    BY <2>1, <2>2
<1> QED
  BY <1>1 DEF Arb!Lowest

\* On a grant the round-robin pointer moves to a channel.
LEMMA PointerType ==
    ASSUME NEW req \in SUBSET VCs, req # {}, NEW rr \in VCs
    PROVE  Arb!NextPointer(req, rr) \in VCs
<1> DEFINE upper == {i \in req : i > rr}
<1>1. upper \in SUBSET VCs
  OBVIOUS
<1>2. Arb!NextPointer(req, rr) = IF upper # {} THEN Arb!Lowest(upper) ELSE Arb!Lowest(req)
  BY DEF Arb!NextPointer
<1>3. upper # {} => Arb!Lowest(upper) \in upper
  BY <1>1, LowestChannel
<1>4. Arb!Lowest(req) \in req
  BY LowestChannel
<1> QED
  BY <1>1, <1>2, <1>3, <1>4

\* The tree chooses a channel that competes.
LEMMA ChosenCompetes ==
    ASSUME NEW req \in SUBSET VCs, req # {}, NEW rr \in VCs
    PROVE  Tree2[req, rr] \in req
<1>1. Tree2[req, rr] = IF rr \in req \/ req = {} THEN rr ELSE Other(rr)
  BY DEF Tree2
<1>2. PICK v \in req : TRUE
  OBVIOUS
<1>3. v \in {0, 1} /\ rr \in {0, 1}
  BY DEF VCs
<1>4. v # rr => v = Other(rr)
  BY <1>3 DEF Other
<1> QED
  BY <1>1, <1>2, <1>4

\* Only channels of the link compete for it.
LEMMA CompetingType ==
    VcTypeOK => vc_arb_req_in \in SUBSET VCs
BY VcAssumption DEF VcTypeOK, vc_arb_req_in, ready_i, credit_left

\* A flit crosses the link only from a channel that waits, and into a FIFO with
\* room; with credits, only from a channel that has one.
LEMMA HandshakeAllowed ==
    ASSUME VcTypeOK
    PROVE  /\ handshake \in SUBSET VCs
           /\ handshake \subseteq ready_i
           /\ VcImpl = "VcCredit" => handshake \subseteq credit_left
<1>1. vc_arb_req_in \in SUBSET VCs
  BY CompetingType
<1>2. CASE handshake = {}
  BY <1>2
<1>3. CASE handshake # {}
  <2>1. /\ vc_arb_req_in # {} /\ handshake = {vc_arb_idx}
        /\ vc_arb_idx \in ready_i
    BY <1>3 DEF handshake, valid_o, vc_arb_gnt_in
  <2>2. vc_arb_idx \in vc_arb_req_in
    BY <1>1, <2>1, ChosenCompetes DEF vc_arb_idx, VcTypeOK
  <2> QED
    BY <1>1, <2>1, <2>2 DEF vc_arb_req_in
<1> QED
  BY <1>2, <1>3

-----------------------------------------------------------------------------
(* The inductive invariant: VcTypeOK alone is not inductive, since only the    *)
(* conservation of credits bounds the counters from above.                   *)

VcIInv == VcTypeOK /\ CreditsConserved

\* The counters of one channel over one cycle: the flits that leave its FIFO
\* are there, and the credit of each comes back in the next cycle.
LEMMA ChannelStep ==
    ASSUME VcIInv, AtChimney = FALSE, NEW raise \in SUBSET VCs,
           NEW drain \in SUBSET VCs, Cycle(raise, drain), NEW v \in VCs
    PROVE  /\ usage'[v] \in 0 .. FifoDepth
           /\ credit'[v] \in 0 .. NumCredits
           /\ VcImpl = "VcCredit" =>
                credit'[v] + usage'[v] + One(v, credit_gnt_q') = NumCredits
<1> DEFINE forwarded == One(v, handshake)
           drained == One(v, {u \in drain : usage[u] > 0})
           returned == One(v, credit_gnt_q)
<1>1. /\ usage[v] \in 0 .. FifoDepth /\ credit[v] \in 0 .. NumCredits
      /\ FifoDepth \in Nat /\ NumCredits \in Nat
  BY VcAssumption DEF VcIInv, VcTypeOK
<1>2. /\ forwarded \in {0, 1} /\ drained \in {0, 1} /\ returned \in {0, 1}
  BY DEF One
<1>3. forwarded = 1 => usage[v] < FifoDepth
  BY HandshakeAllowed DEF One, ready_i, VcIInv
<1>4. drained = 1 => usage[v] > 0
  BY DEF One
<1>5. usage'[v] = usage[v] + forwarded - drained
  BY DEF Cycle
<1>6. CASE VcImpl # "VcCredit"
  <2>1. credit'[v] = credit[v]
    BY <1>6 DEF Cycle
  <2> HIDE DEF forwarded, drained, returned
  <2> QED
    BY <1>1, <1>2, <1>3, <1>4, <1>5, <1>6, <2>1
<1>7. CASE VcImpl = "VcCredit"
  <2>1. /\ credit'[v] = credit[v] + returned - forwarded
        /\ credit_gnt_q' = {u \in drain : usage[u] > 0}
    BY <1>7 DEF Cycle, credit_gnt_d
  <2>2. forwarded = 1 => credit[v] > 0
    BY <1>7, HandshakeAllowed DEF One, credit_left, VcIInv
  <2>3. credit[v] + usage[v] + returned = NumCredits
    BY <1>7 DEF VcIInv, CreditsConserved
  <2>4. One(v, credit_gnt_q') = drained
    BY <2>1
  <2>5. credit[v] \in Int /\ usage[v] \in Int
    BY <1>1
  <2> HIDE DEF forwarded, drained, returned
  <2>6. /\ usage[v] + forwarded - drained \in 0 .. FifoDepth
        /\ credit[v] + returned - forwarded \in 0 .. NumCredits
        /\ (credit[v] + returned - forwarded) + (usage[v] + forwarded - drained) + drained = NumCredits
    BY ONLY <1>1, <1>2, <1>3, <1>4, <2>2, <2>3, <2>5
  <2> QED
    BY <1>5, <2>1, <2>4, <2>6
<1> QED
  BY <1>6, <1>7

\* All credits are at hand and all FIFOs empty after reset.
LEMMA InitInvariant == VcInit => VcIInv
<1> SUFFICES ASSUME VcInit PROVE VcIInv
  OBVIOUS
<1>1. VcTypeOK
  BY VcAssumption DEF VcInit, VcTypeOK, VCs
<1>2. CreditsConserved
  BY VcAssumption DEF VcInit, CreditsConserved, One
<1> QED
  BY <1>1, <1>2 DEF VcIInv

\* A cycle keeps the registers in their types and the credits in balance.
LEMMA StepInvariant == AtChimney = FALSE /\ VcIInv /\ [VcNext]_vcVars => VcIInv'
<1> SUFFICES ASSUME AtChimney = FALSE, VcIInv, [VcNext]_vcVars PROVE VcIInv'
  OBVIOUS
<1>1. ASSUME NEW raise \in SUBSET VCs, NEW drain \in SUBSET VCs, Cycle(raise, drain)
      PROVE  VcIInv'
  <2>1. /\ handshake \in SUBSET VCs /\ VcImpl' = VcImpl
        /\ valid_i' \in SUBSET VCs
    BY <1>1, HandshakeAllowed DEF VcIInv, VcTypeOK, Cycle
  <2>2. mask_q' \in SUBSET VCs
    BY <1>1 DEF VcIInv, VcTypeOK, Cycle, mask_d, ready_i
  <2>3. rr_q' \in VCs
    <3>1. CASE handshake = {}
      BY <1>1, <3>1 DEF VcIInv, VcTypeOK, Cycle
    <3>2. CASE handshake # {}
      <4>1. vc_arb_req_in # {} /\ vc_arb_req_in \in SUBSET VCs
        BY <3>2, CompetingType DEF handshake, valid_o, VcIInv
      <4> QED
        BY <1>1, <3>2, <4>1, PointerType DEF VcIInv, VcTypeOK, Cycle
    <3> QED
      BY <3>1, <3>2
  <2>4. credit_gnt_q' \in SUBSET VCs
    BY <1>1, <2>1 DEF VcIInv, VcTypeOK, Cycle, credit_gnt_d
  <2>5. /\ usage' \in [VCs -> 0 .. FifoDepth]
        /\ credit' \in [VCs -> 0 .. NumCredits]
    <3>1. \A v \in VCs : usage'[v] \in 0 .. FifoDepth /\ credit'[v] \in 0 .. NumCredits
      BY <1>1, ChannelStep
    <3>2. usage' = [v \in VCs |-> usage'[v]] /\ credit' = [v \in VCs |-> credit'[v]]
      BY <1>1 DEF VcIInv, VcTypeOK, Cycle
    <3> QED
      BY <3>1, <3>2
  <2>6. CreditsConserved'
    BY <1>1, <2>1, ChannelStep DEF CreditsConserved
  <2>7. VcTypeOK'
    BY <2>1, <2>2, <2>3, <2>4, <2>5 DEF VcIInv, VcTypeOK
  <2> QED
    BY <2>6, <2>7 DEF VcIInv
<1>2. CASE UNCHANGED vcVars
  BY <1>2 DEF VcIInv, VcTypeOK, CreditsConserved, vcVars
<1> QED
  BY <1>1, <1>2 DEF VcNext

-----------------------------------------------------------------------------
(* Theorems *)

\* Towards a router no credit is lost and none is invented: of the registers of
\* hw/floo_vc_arbiter.sv and the FIFO at the other end, which never overflows.
THEOREM Conservation == AtChimney = FALSE /\ VcSpec => [](VcTypeOK /\ CreditsConserved)
<1> SUFFICES ASSUME AtChimney = FALSE PROVE VcSpec => [](VcTypeOK /\ CreditsConserved)
  OBVIOUS
<1>1. VcIInv /\ [VcNext]_vcVars => VcIInv'
  BY StepInvariant
<1>2. VcSpec => []VcIInv
  BY <1>1, InitInvariant, PTL DEF VcSpec
<1> QED
  BY <1>2, PTL DEF VcIInv

=============================================================================
