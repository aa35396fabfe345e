----------------------------- MODULE Collective -----------------------------
(* Multicasts through the mesh of MeshRouting, with the masks that            *)
(* hw/floo_route_xymask.sv computes in each router on its own: a request is    *)
(* copied on its way to all members of a group, each member answers, and the   *)
(* routers on the way back merge the answers (CollectB) before they go on.     *)
(*                                                                            *)
(* One endpoint sends; its requests may follow each other closely.  A flit     *)
(* stands for the packet of a request.  The copies leave a router in one step: *)
(* that they may leave one by one is module Router, and how answers are joined *)
(* in a cycle is module OutputArbiter.  Routers with collectives have the      *)
(* connections of loops (SupportLoopback, hw/floo_router.sv).  Single flits    *)
(* travel as in MeshRouting, while there is nothing to send to groups.         *)
EXTENDS MeshRouting, FiniteSets, Sequences

CONSTANTS
  CoordBits,    \* width of a coordinate
  Programmes    \* sequences of requests [src, dst, mask] of one endpoint

VARIABLES
  programme,   \* the requests, in the order in which they are sent
  sent,        \* how many of them were sent
  requests,    \* queues at the inputs of routers: numbers of requests
  accepted,    \* queues of requests that a member has accepted and not answered
  answers,     \* queues at the inputs: [n, src, members], whose answer it stands for
  given        \* the members answered for when the sender got the answer

cvars == <<programme, sent, requests, accepted, answers, given>>

Horizontal == {East, West}
Vertical   == {North, South}

(* The coordinates in the group of id: equal to it but for the bits of mask. *)
Bit(c, k) == (c \div 2^k) % 2
Coords == 0 .. 2^CoordBits - 1
Group == [id \in Coords |-> [mask \in Coords |->
            {c \in Coords : \A k \in 0 .. CoordBits - 1 : Bit(mask, k) = 1 \/ Bit(c, k) = Bit(id, k)}]]
matched(c, id, mask) == c \in Group[id][mask]

(* The requests there may be: to groups whose members are all in the mesh.   *)
(* With a mask of zero the group is the destination alone.                   *)
Collectives ==
  {g \in [src : Routers, dst : Routers, mask : [x : Coords, y : Coords]] :
     /\ Group[g.dst.x][g.mask.x] \subseteq 0 .. NumX - 1
     /\ Group[g.dst.y][g.mask.y] \subseteq 0 .. NumY - 1}

ASSUME CollectiveAssumption ==
  /\ CoordBits \in Nat /\ 2^CoordBits \in Nat
  /\ NumX <= 2^CoordBits /\ NumY <= 2^CoordBits
  /\ \A p \in Programmes : p \in Seq(Collectives)

(* id | mask and id & ~mask *)
last  == [id \in Coords |-> [mask \in Coords |->
            CHOOSE c \in Group[id][mask] : \A d \in Group[id][mask] : d <= c]]
first == [id \in Coords |-> [mask \in Coords |->
            CHOOSE c \in Group[id][mask] : \A d \in Group[id][mask] : c <= d]]

(* Mutant: the group ends at the identifier of the request. *)
UpToId(c, from, id, mask, ahead) ==
  IF ahead = 1 THEN c >= from /\ c < id ELSE c <= from /\ c > first[id][mask]

(* Between from and the end of the group of id, with more of it ahead in the *)
(* direction of port.                                                        *)
Within(c, from, id, mask, ahead) ==
  IF ahead = 1 THEN c >= from /\ c < last[id][mask] ELSE c <= from /\ c > first[id][mask]

Along(port, xy_id, from, id, mask) ==
  IF port \in Horizontal THEN Within(xy_id.x, from.x, id.x, mask.x, ToX(port))
                         ELSE Within(xy_id.y, from.y, id.y, mask.y, ToY(port))

(* Outputs of a request: first along the row (XY) or column (YX) of the sender. *)
route_output(f, xy_id) ==
  LET x_matched == matched(xy_id.x, f.dst.x, f.mask.x)
      y_matched == matched(xy_id.y, f.dst.y, f.mask.y)
      dimensions ==
        IF RouteAlgo = "XY"
        THEN (IF xy_id.y = f.src.y THEN Horizontal ELSE {}) \cup (IF x_matched THEN Vertical ELSE {})
        ELSE (IF xy_id.x = f.src.x THEN Vertical ELSE {}) \cup (IF y_matched THEN Horizontal ELSE {})
  IN  {port \in dimensions : Along(port, xy_id, f.src, f.dst, f.mask)}
        \cup (IF x_matched /\ y_matched THEN {Eject} ELSE {})

(* Mutant: answers are expected from columns without members. *)
FromEveryRow(f, xy_id) ==
  {port \in Compass : Along(port, xy_id, f.dst, f.src, f.mask)}
    \cup (IF matched(xy_id.x, f.src.x, f.mask.x) /\ matched(xy_id.y, f.src.y, f.mask.y)
          THEN {Eject} ELSE {})

(* Inputs whose answers a router waits for, judging from one of them. *)
route_expected_input(f, xy_id) ==
  LET x_matched == matched(xy_id.x, f.src.x, f.mask.x)
      y_matched == matched(xy_id.y, f.src.y, f.mask.y)
      dimensions ==
        IF RouteAlgo = "XY"
        THEN (IF xy_id.x = f.dst.x THEN Vertical ELSE {}) \cup (IF y_matched THEN Horizontal ELSE {})
        ELSE (IF xy_id.y = f.dst.y THEN Horizontal ELSE {}) \cup (IF x_matched THEN Vertical ELSE {})
  IN  {port \in dimensions : Along(port, xy_id, f.dst, f.src, f.mask)}
        \cup (IF x_matched /\ y_matched THEN {Eject} ELSE {})
-----------------------------------------------------------------------------
(* The next input on the way of a flit that leaves a router. *)
Onwards(rt, port) == [rt |-> Neighbour([rt |-> rt, port |-> port]), port |-> reverse(port)]

(* Queues are there while they hold something. *)
Push(queues, at_, flit) ==
  [q \in DOMAIN queues \cup at_ |->
     (IF q \in DOMAIN queues THEN queues[q] ELSE <<>>) \o (IF q \in at_ THEN <<flit>> ELSE <<>>)]
Pop(queues, at_) ==
  [q \in {q \in DOMAIN queues : q \in at_ => Len(queues[q]) > 1} |->
     IF q \in at_ THEN Tail(queues[q]) ELSE queues[q]]

Send ==
  /\ sent < Len(programme)
  /\ sent' = sent + 1
  /\ requests' = Push(requests, {[rt |-> programme[sent'].src, port |-> Eject]}, sent')
  /\ UNCHANGED <<programme, accepted, answers, given>>

(* A router copies the request at an input to the outputs of its mask. *)
outs(p) == route_output(programme[Head(requests[p])], p.rt)

Spread(p) ==
  LET n == Head(requests[p])
  IN  /\ outs(p) # {}
      /\ requests' = Push(Pop(requests, {p}), {Onwards(p.rt, out) : out \in outs(p) \ {Eject}}, n)
      /\ accepted' = Push(accepted, {p.rt : out \in outs(p) \cap {Eject}}, n)
      /\ UNCHANGED <<programme, sent, answers, given>>

(* A member answers its requests in their order (MaxUniqueIds = 1). *)
Answer(rt) ==
  /\ accepted' = Pop(accepted, {rt})
  /\ answers' = Push(answers, {[rt |-> rt, port |-> Eject]},
                     [n |-> Head(accepted[rt]), src |-> rt, members |-> {rt}])
  /\ UNCHANGED <<programme, sent, requests, given>>

(* Header of an answer: back to the sender, from a member, with the mask. *)
Header(f) == [src |-> f.src, dst |-> programme[f.n].src, mask |-> programme[f.n].mask]

(* Answers with the same destination and mask are joined, whatever request  *)
(* they are for; the header is the one of the lowest input.                  *)
joins(f, g) == Header(f).dst = Header(g).dst /\ Header(f).mask = Header(g).mask

heads(rt) ==
  [port \in {p.port : p \in {p \in DOMAIN answers : p.rt = rt}} |->
     Head(answers[[rt |-> rt, port |-> port]])]

Expected(rt, port) == route_expected_input(Header(heads(rt)[port]), rt)

complete(rt) ==
  LET at_ == heads(rt)
  IN  {port \in DOMAIN at_ :
         \A q \in Expected(rt, port) : q \in DOMAIN at_ /\ joins(at_[q], at_[port])}

Merge(rt) ==
  /\ complete(rt) # {}
  /\ LET at_    == heads(rt)
         sel    == CHOOSE port \in complete(rt) : \A q \in complete(rt) : port <= q
         joined == Expected(rt, sel)
         src_id == programme[at_[sel].n].src
         to     == route_sel_id([x |-> src_id.x, y |-> src_id.y, port_id |-> 0], rt)
         merged == [at_[sel] EXCEPT !.members = UNION {at_[q].members : q \in joined}]
         rest   == Pop(answers, {[rt |-> rt, port |-> port] : port \in joined})
     IN  IF to = Eject
         THEN answers' = rest /\ given' = [given EXCEPT ![merged.n] = Append(@, merged.members)]
         ELSE answers' = Push(rest, {Onwards(rt, to)}, merged) /\ UNCHANGED given
  /\ UNCHANGED <<programme, sent, requests, accepted>>

-----------------------------------------------------------------------------
NoFlit ==
  LET e == [rt |-> [x |-> 0, y |-> 0], port |-> Eject]
  IN  src = e /\ dst = e /\ at = e /\ inside = FALSE /\ hops = 0

MeshInit ==
  /\ programme \in Programmes \cup {<<>>}
  /\ IF programme = <<>> THEN Init ELSE NoFlit
  /\ sent = 0
  /\ requests = <<>> /\ accepted = <<>> /\ answers = <<>>
  /\ given = [n \in DOMAIN programme |-> <<>>]

CollectiveStep ==
  /\ \/ Send
     \/ \E p \in DOMAIN requests : Spread(p)
     \/ \E rt \in DOMAIN accepted : Answer(rt)
     \/ \E rt \in {p.rt : p \in DOMAIN answers} : Merge(rt)
  /\ UNCHANGED vars

FlitStep == programme = <<>> /\ Next /\ UNCHANGED cvars

MeshNext == FlitStep \/ CollectiveStep

MeshSpec == MeshInit /\ [][MeshNext]_<<vars, cvars>>

-----------------------------------------------------------------------------
Members(n) ==
  {rt \in Routers : /\ matched(rt.x, programme[n].dst.x, programme[n].mask.x)
                    /\ matched(rt.y, programme[n].dst.y, programme[n].mask.y)}

(* How often a member has accepted request n. *)
Arrived(n, rt) == Cardinality({i \in DOMAIN accepted[rt] : accepted[rt][i] = n})

(* Some step of CollectiveStep can be taken. *)
GoesOn == \/ sent < Len(programme)
          \/ \E p \in DOMAIN requests : outs(p) # {}
          \/ DOMAIN accepted # {}
          \/ \E p \in DOMAIN answers : complete(p.rt) # {}

(* Every request reaches each member of its group exactly once and nobody    *)
(* else, and is answered once, when all members have answered: the masks of  *)
(* neighbouring routers agree on who sends and who waits, an answer is never *)
(* merged with one to another request, and no router waits for an answer     *)
(* that never comes (hw/floo_route_xymask.sv, hw/floo_reduction_sync.sv).     *)
CollectivesComplete ==
  /\ \A n \in DOMAIN programme :
       /\ given[n] \in {<<>>, <<Members(n)>>}
       /\ \A rt \in DOMAIN accepted : Arrived(n, rt) <= IF rt \in Members(n) THEN 1 ELSE 0
  /\ (\E n \in DOMAIN programme : given[n] = <<>>) => GoesOn
=============================================================================
