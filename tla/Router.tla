------------------------------- MODULE Router -------------------------------
(***************************************************************************)
(* hw/floo_router.sv with one virtual channel and no offloaded reduction:   *)
(* an input FIFO and a route selection (hw/floo_route_select.sv) per input, *)
(* the crossbar with the handshakes of multicast flits, and a wormhole      *)
(* arbiter per output.  A step is one clock cycle.                          *)
(*                                                                         *)
(* A flit is the set of outputs its header asks for and the number of flits *)
(* its packet has from it on (left = 1 is hdr.last); all flits of a packet  *)
(* carry the same header.  Output FIFOs and a virtual channel arbiter with  *)
(* one channel only pass flits on: they are part of the consumer, which is  *)
(* ready whenever it likes.                                                 *)
(***************************************************************************)
EXTENDS Integers, Sequences, FiniteSets

CONSTANTS
    NumInput, NumOutput, InFifoDepth,
    Tree,            \* the arbitration trees, see RrArbTree
    Connected,       \* the connections that exist: XYRouteOpt removes some
    NoLoopback,      \* input i is not connected to output i
    MultiCasts,      \* the values of parameter EnMultiCast checked
    Routes,          \* Routes[i]: what the packets of input i may ask for
    MaxLen,          \* bound on the flits of a packet to one output
    MaxMultiLen      \* bound on the flits of a packet to several outputs

Inputs  == 0 .. NumInput - 1
Outputs == 0 .. NumOutput - 1
NoFlit  == [route |-> {}, left |-> 1]

ASSUME RouterAssumption ==
    /\ NumInput \in Nat \ {0} /\ NumOutput \in Nat \ {0}
    /\ InFifoDepth \in Nat \ {0}
    /\ MaxLen \in Nat \ {0} /\ MaxMultiLen \in 1 .. MaxLen
    /\ NoLoopback \in BOOLEAN /\ MultiCasts \subseteq BOOLEAN
    /\ Connected \subseteq Inputs \X Outputs
    /\ Routes \in [Inputs -> SUBSET ((SUBSET Outputs) \ {{}})]

\* floo_router's elaboration check SupportLoopback, and the assertions
\* XYDirectionNotAllowed and NoLoopback on what reaches an input.
ASSUME ConfigAssumption ==
    /\ ~(TRUE \in MultiCasts /\ NoLoopback)
    /\ \A i \in Inputs : \A r \in Routes[i] : \A o \in r :
          /\ <<i, o>> \in Connected
          /\ NoLoopback => o # i

\* Each arbitration tree selects one of those that request.
ASSUME TreesAssumption ==
    /\ Tree \in [(SUBSET Inputs) \X Inputs -> Inputs]
    /\ \A req \in (SUBSET Inputs) \ {{}}, rr \in Inputs : Tree[req, rr] \in req

VARIABLES
    EnMultiCast,         \* parameter, never changes: flits to several outputs
    fifo,                \* i_stream_fifo of each input
    route_lock,          \* route_sel_q while locked_route_q, {} otherwise
    past_handshakes_q,   \* outputs that have taken the flit at the head
    arb,                 \* registers of the arbiter of each output
    upstream,            \* environment: the flit last sent to each input
    owed                 \* history: flits an output has yet to get of a packet

vars == <<EnMultiCast, fifo, route_lock, past_handshakes_q, arb, upstream, owed>>

-----------------------------------------------------------------------------
\* What the packets of input i may be.
Flits(i) ==
    UNION {[route : {r}, left : 1 .. IF Cardinality(r) = 1 THEN MaxLen ELSE MaxMultiLen] :
              r \in {r \in Routes[i] : EnMultiCast \/ Cardinality(r) = 1}}

(* Combinational signals *)

in_valid(i)   == fifo[i] # <<>>
route_mask(i) == IF route_lock[i] # {} THEN route_lock[i] ELSE Head(fifo[i]).route

connected(i, o) == <<i, o>> \in Connected /\ ~(NoLoopback /\ i = o)

\* Mutant: a copy already taken is offered again.
OfferedAgain(o) ==
    {i \in Inputs : in_valid(i) /\ connected(i, o) /\ o \in route_mask(i)}

\* The inputs whose flit is offered to the arbiter of an output.
masked_valid(o) ==
    {i \in Inputs : /\ in_valid(i) /\ connected(i, o) /\ o \in route_mask(i)
                    /\ EnMultiCast => o \notin past_handshakes_q[i]}

flits_left(o) ==
    [i \in Inputs |-> IF i \in masked_valid(o) THEN Head(fifo[i]).left ELSE owed[i][o]]

Arb(o) == INSTANCE WormholeArbiter WITH
    NumIn <- NumInput,
    valid_q <- arb[o].valid_q, last_q <- arb[o].last_q,
    lock_q <- arb[o].lock_q, req_q <- arb[o].req_q, rr_q <- arb[o].rr_q,
    valid_i <- masked_valid(o),
    left <- flits_left(o),
    owner <- 0, overtaken <- 0

\* The inputs and outputs between which a flit crosses when the consumers in
\* ready are ready.
Crossing(ready) ==
    {c \in Inputs \X ready :
        Arb(c[2])!valid_o /\ Arb(c[2])!valid_selected_idx = c[1]}

current_handshakes(i, crossing) == {o \in Outputs : <<i, o>> \in crossing}

expected_handshakes(i) == route_mask(i) \ (IF NoLoopback THEN {i} ELSE {})

\* Mutant: the first copy taken releases a flit.
FirstCopy(i, crossing) == current_handshakes(i, crossing) # {}

\* A flit leaves its FIFO when all its copies were taken.
cross_ready(i, crossing) ==
    IF EnMultiCast
    THEN expected_handshakes(i) \subseteq
            past_handshakes_q[i] \cup current_handshakes(i, crossing)
    ELSE route_mask(i) \cap current_handshakes(i, crossing) # {}

Leaves(i, crossing) == in_valid(i) /\ cross_ready(i, crossing)

-----------------------------------------------------------------------------
(* One clock cycle *)

\* The registers of an arbiter after a cycle.
ArbClock(o, r) ==
    [valid_q |-> Arb(o)!valid_d,
     last_q  |-> Arb(o)!last_out /\ r,
     lock_q  |-> Arb(o)!arb_req # {} /\ ~Arb(o)!gnt_i(r),
     req_q   |-> Arb(o)!arb_req,
     rr_q    |-> IF Arb(o)!arb_req # {} /\ Arb(o)!gnt_i(r)
                 THEN Arb(o)!NextPointer(Arb(o)!arb_req, arb[o].rr_q)
                 ELSE arb[o].rr_q]

\* Mutant: the handshakes of a flit are not forgotten when it leaves.
KeepsHandshakes(i, crossing) ==
    past_handshakes_q[i] \cup current_handshakes(i, crossing)

past_handshakes_d(i, crossing) ==
    IF ~EnMultiCast \/ Leaves(i, crossing) THEN {}
    ELSE past_handshakes_q[i] \cup current_handshakes(i, crossing)

\* Mutant: a packet's last flit does not unlock.
StaysLocked(i, crossing) ==
    IF Leaves(i, crossing) THEN route_mask(i) ELSE route_lock[i]

locked_route_d(i, crossing) ==
    IF ~Leaves(i, crossing) THEN route_lock[i]
    ELSE IF Head(fifo[i]).left = 1 THEN {} ELSE route_mask(i)

\* The flits the router upstream may send next.
Sendable(i) == IF upstream[i].left > 1
               THEN {[route |-> upstream[i].route, left |-> upstream[i].left - 1]}
               ELSE Flits(i)

\* Mutant: the FIFO takes a flit too many.
OneMore(i) == Len(fifo[i]) <= InFifoDepth
ready_o(i) == Len(fifo[i]) < InFifoDepth

\* The inputs in push receive a flit each.
Receive(push, crossing) ==
    /\ \A i \in push : ready_o(i)
    /\ \E flit \in [push -> UNION {Sendable(i) : i \in push}] :
       /\ \A i \in push : flit[i] \in Sendable(i)
       /\ fifo' = [i \in Inputs |->
                     (IF Leaves(i, crossing) THEN Tail(fifo[i]) ELSE fifo[i])
                     \o (IF i \in push THEN <<flit[i]>> ELSE <<>>)]
       /\ upstream' = [i \in Inputs |->
                         IF i \notin push THEN upstream[i]
                         ELSE IF flit[i].left = 1 THEN NoFlit ELSE flit[i]]

Registers(ready, crossing) ==
    /\ UNCHANGED EnMultiCast
    /\ route_lock' = [i \in Inputs |-> locked_route_d(i, crossing)]
    /\ past_handshakes_q' = [i \in Inputs |-> past_handshakes_d(i, crossing)]
    /\ arb' = [o \in Outputs |-> ArbClock(o, o \in ready)]
    /\ owed' = [i \in Inputs |-> [o \in Outputs |->
                  IF <<i, o>> \notin crossing THEN owed[i][o]
                  ELSE IF owed[i][o] > 0 THEN owed[i][o] - 1
                  ELSE Head(fifo[i]).left - 1]]

\* The consumers in ready are ready.
Cycle(ready) ==
    LET crossing == Crossing(ready)
    IN  /\ Registers(ready, crossing)
        /\ \E push \in SUBSET Inputs : Receive(push, crossing)

Init ==
    /\ EnMultiCast \in MultiCasts
    /\ fifo = [i \in Inputs |-> <<>>]
    /\ route_lock = [i \in Inputs |-> {}]
    /\ past_handshakes_q = [i \in Inputs |-> {}]
    /\ arb = [o \in Outputs |-> [valid_q |-> {}, last_q |-> FALSE,
                                 lock_q |-> FALSE, req_q |-> {}, rr_q |-> 0]]
    /\ upstream = [i \in Inputs |-> NoFlit]
    /\ owed = [i \in Inputs |-> [o \in Outputs |-> 0]]

Next == \E ready \in SUBSET Outputs : Cycle(ready)

Spec == Init /\ [][Next]_vars

\* The flit at the head of an input leaves it.
Serve(i) == \E ready \in SUBSET Outputs : Leaves(i, Crossing(ready)) /\ Cycle(ready)

\* Every output's consumer keeps accepting, and the router upstream goes on
\* with a packet it has begun to send.
Accept(o) ==
    /\ Arb(o)!valid_o
    /\ \E ready \in SUBSET Outputs : o \in ready /\ Cycle(ready)
Continue(i) ==
    /\ upstream[i].left > 1
    /\ Next
    /\ upstream'[i] # upstream[i]

Fairness == /\ \A o \in Outputs : WF_vars(Accept(o))
            /\ \A i \in Inputs : WF_vars(Continue(i))

FairSpec == Spec /\ Fairness

-----------------------------------------------------------------------------
(* Properties *)

\* The queues, registers and counters stay within their types.
TypeOK ==
    /\ \A i \in Inputs :
          /\ Len(fifo[i]) <= InFifoDepth
          /\ \A k \in DOMAIN fifo[i] : fifo[i][k] \in Flits(i)
          /\ upstream[i] \in Flits(i) \cup {NoFlit}
    /\ route_lock \in [Inputs -> SUBSET Outputs]
    /\ past_handshakes_q \in [Inputs -> SUBSET Outputs]
    /\ arb \in [Outputs -> [valid_q : SUBSET Inputs, last_q : BOOLEAN,
                            lock_q : BOOLEAN, req_q : SUBSET Inputs,
                            rr_q : Inputs]]
    /\ owed \in [Inputs -> [Outputs -> 0 .. MaxLen - 1]]

\* Every output a packet is routed to gets each of its flits exactly once and
\* in order, and no other output gets any: what an output still has to get is
\* what is at the input, or upstream, less the copies it has already taken.
CopiesInStep ==
    \A i \in Inputs, o \in Outputs :
       owed[i][o] =
          IF in_valid(i)
          THEN IF o \notin route_mask(i) THEN 0
               ELSE IF o \in past_handshakes_q[i] THEN Head(fifo[i]).left - 1
               ELSE IF route_lock[i] # {} THEN Head(fifo[i]).left ELSE 0
          ELSE IF o \in route_lock[i] THEN upstream[i].left - 1 ELSE 0

\* The copies are in step, with queues and registers of their types.
CopiesRight == TypeOK /\ CopiesInStep

\* What the arbiters of the outputs rely on (Offer of WormholeArbiter): a flit
\* offered to an output stays on offer there until that output takes it, also
\* while the other copies of a multicast flit come and go.
OffersStable ==
    [][\A o \in Outputs :
          \/ Arb(o)!Offer(masked_valid(o), flits_left(o))
          \/ /\ Arb(o)!valid_o
             /\ LET i == Arb(o)!valid_selected_idx
                IN Arb(o)!Offer(masked_valid(o) \ {i},
                                [flits_left(o) EXCEPT ![i] = @ - 1])]_vars

Owner(o) == LET begun == {i \in Inputs : owed[i][o] > 0}
            IN  IF begun = {} THEN -1 ELSE CHOOSE i \in begun : TRUE
Link(o) == INSTANCE PacketLink
             WITH Sources <- Inputs, NoOwner <- -1, owner <- Owner(o),
                  rest <- IF Owner(o) = -1 THEN 0 ELSE owed[Owner(o)][o]

\* Wormhole switching: each output link carries one packet at a time
\* (docs/floonoc/links.md asks it of the routers), so that at most one input is
\* in the middle of a packet on an output; and the arbiters may rely on OffersStable.
LinksCarryPackets ==
    /\ \A o \in Outputs : Link(o)!Init
    /\ [][\A o \in Outputs : Link(o)!Next \/ UNCHANGED Link(o)!link]_vars
    /\ OffersStable

\* Two inputs in the middle of packets of several flits, or about to start
\* them, that share more than one output.
Spread(i) == IF in_valid(i) THEN route_mask(i) ELSE route_lock[i]
Long(i) == \/ upstream[i].left > 1
           \/ \E k \in DOMAIN fifo[i] : fifo[i][k].left > 1
           \/ \E o \in Outputs : owed[i][o] > 0
Contended ==
    \E i, j \in Inputs :
       /\ i # j /\ Long(i) /\ Long(j)
       /\ Cardinality(Spread(i) \cap Spread(j)) > 1

\* No input keeps its flit for ever, as long as the consumers accept flits.
\* Two multicast packets that contend break it (README, known limits).
FlitsLeave == \A i \in Inputs : <>[]in_valid(i) => []<><<Serve(i)>>_vars

\* What holds of it: all flits leave, unless from some time on two packets of
\* several flits contend for the same outputs, each of them to several.
EveryFlitLeaves == FlitsLeave \/ <>[]Contended

=============================================================================
