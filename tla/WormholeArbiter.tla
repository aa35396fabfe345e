--------------------------- MODULE WormholeArbiter ---------------------------
(***************************************************************************)
(* hw/floo_wormhole_arbiter.sv: merges the flit streams of NumRoutes inputs *)
(* onto one valid/ready link without interleaving the flits of two packets. *)
(*                                                                         *)
(* The registers of the module and of its cc_rr_arb_tree are variables of   *)
(* the same name; a vector of one-bit signals is the set of the indices     *)
(* whose bit is set.  Combinational signals are state functions.  A step is *)
(* one clock cycle: Idle, Stall, Pass and Finish say what the output link   *)
(* did in the cycle.                                                        *)
(*                                                                         *)
(* The inputs are the environment: input i offers the flits of packets of   *)
(* up to MaxLen flits, with gaps wherever it likes, and keeps an offered    *)
(* flit stable until it is accepted (assertion StableValidIn of             *)
(* hw/floo_router.sv).  The consumer is ready whenever it likes.            *)
(***************************************************************************)
EXTENDS RrArbTree

CONSTANT MaxLen      \* bound on the flits of a packet

ASSUME MaxLenAssumption == MaxLen \in Nat \ {0}

NumRoutes == NumIn
Inputs    == Requesters

VARIABLES valid_q, last_q,          \* registers of floo_wormhole_arbiter
          lock_q, req_q, rr_q,      \* registers of cc_rr_arb_tree
          valid_i, left,            \* the flits the inputs offer
          owner, overtaken          \* history

regs == <<valid_q, last_q, lock_q, req_q, rr_q>>
vars == <<regs, valid_i, left, owner, overtaken>>

NoOwner == -1

-----------------------------------------------------------------------------
(* Combinational signals *)

\* The packets competing for the link: sampled when the link is free of a
\* packet and held until the last flit of the chosen packet has passed.
\* Mutant: the inputs are sampled again only once none was sampled.
HeldForEver == IF valid_q = {} THEN valid_i ELSE valid_q
valid_d == IF valid_q = {} \/ last_q THEN valid_i ELSE valid_q

arb_req == ArbRequests(lock_q, req_q, valid_d)

selected_idx == Tree[arb_req, rr_q]

valid_selected_idx == IF valid_i # {} THEN selected_idx ELSE 0

valid_o == valid_selected_idx \in valid_i

last_out == valid_o /\ left[valid_selected_idx] = 1

\* Mutants: the tree is granted on every flit; without looking at ready_i.
GrantEveryFlit(ready_i) == ready_i /\ valid_o
GrantWithoutReady(ready_i) == last_out

\* The arbitration tree moves on when the last flit of a packet is accepted.
gnt_i(ready_i) == ready_i /\ last_out

-----------------------------------------------------------------------------
\* The clock edge of the arbiter's registers, with the cycle's ready_i.
Clock(ready_i) ==
    /\ valid_q' = valid_d
    /\ last_q'  = (last_out /\ ready_i)
    /\ lock_q'  = (arb_req # {} /\ ~gnt_i(ready_i))
    /\ req_q'   = arb_req
    /\ rr_q'    = IF arb_req # {} /\ gnt_i(ready_i)
                  THEN NextPointer(arb_req, rr_q) ELSE rr_q

\* What the inputs offer in the next cycle: the flits in waiting stay, others
\* may appear; an input with no flit left starts a packet of any length.
Offer(waiting, remaining) ==
    \E raise \in SUBSET (Inputs \ waiting) :
       /\ valid_i' = waiting \cup raise
       /\ \E len \in [raise -> 1 .. MaxLen] :
             left' = [i \in Inputs |-> IF i \in raise /\ remaining[i] = 0
                                       THEN len[i] ELSE remaining[i]]

\* Packets that complete while input i waits are counted in overtaken[i], up to
\* one more than BoundedOvertaking allows.
CountUp(n) == IF n > NumRoutes THEN n ELSE n + 1
Overtake(by) ==
    overtaken' = [i \in Inputs |-> IF i \in valid_i \ {by}
                                   THEN CountUp(overtaken[i]) ELSE 0]

Init ==
    /\ valid_q = {} /\ last_q = FALSE
    /\ lock_q = FALSE /\ req_q = {} /\ rr_q = 0
    /\ valid_i = {} /\ left = [i \in Inputs |-> 0]
    /\ owner = NoOwner /\ overtaken = [i \in Inputs |-> 0]

\* No flit is offered on the link.
Idle ==
    /\ ~valid_o
    /\ Clock(TRUE)
    /\ Offer(valid_i, left)
    /\ UNCHANGED <<owner, overtaken>>

\* A flit is offered and the consumer is not ready.
Stall ==
    /\ valid_o
    /\ Clock(FALSE)
    /\ Offer(valid_i, left)
    /\ UNCHANGED <<owner, overtaken>>

\* The flit of the selected input leaves.
Accept(i) ==
    /\ valid_o /\ i = valid_selected_idx
    /\ Clock(TRUE)
    /\ Offer(valid_i \ {i}, [left EXCEPT ![i] = @ - 1])

\* A flit that is not the last of its packet passes.
Pass(i) ==
    /\ Accept(i)
    /\ ~last_out
    /\ owner' = i
    /\ UNCHANGED overtaken

\* The last flit of a packet passes.
Finish(i) ==
    /\ Accept(i)
    /\ last_out
    /\ owner' = NoOwner
    /\ Overtake(i)

Next ==
    \/ Idle
    \/ Stall
    \/ \E i \in Inputs : Pass(i)
    \/ \E i \in Inputs : Finish(i)

Spec == Init /\ [][Next]_vars

\* The consumer keeps accepting, and an input that has begun a packet goes on
\* with it: the routers upstream hold its remaining flits.
Resume(i) == i \notin valid_i /\ left[i] > 0 /\ Next /\ i \in valid_i'

Fairness ==
    /\ WF_vars(\E i \in Inputs : Pass(i) \/ Finish(i))
    /\ \A i \in Inputs : WF_vars(Resume(i))

FairSpec == Spec /\ Fairness

-----------------------------------------------------------------------------
(* Properties *)

\* The registers and the environment stay within their types.
TypeOK ==
    /\ valid_q \in SUBSET Inputs /\ req_q \in SUBSET Inputs
    /\ last_q \in BOOLEAN /\ lock_q \in BOOLEAN
    /\ rr_q \in Inputs
    /\ valid_i \in SUBSET Inputs
    /\ left \in [Inputs -> 0 .. MaxLen]
    /\ owner \in Inputs \cup {NoOwner}
    /\ overtaken \in [Inputs -> Nat]

\* Wormhole switching: the link implements PacketLink, i.e. the flits of two
\* packets are never interleaved and no flit of a packet is lost.
Link == INSTANCE PacketLink
          WITH Sources <- Inputs, rest <- IF owner = NoOwner THEN 0 ELSE left[owner]
OnePacketAtATime == Link!Spec

\* The output obeys the valid/ready rule the next FIFO relies on (assertion
\* StableValidOut of hw/floo_router.sv): a flit offered and not accepted is
\* offered again in the next cycle, from the same input.
StableOutput ==
    [][Stall => valid_o' /\ valid_selected_idx' = valid_selected_idx]_vars

\* Between packets the link never rests while some input has a flit to send.
WorkConserving == owner = NoOwner /\ valid_i # {} => valid_o

\* FairArb: an input that keeps waiting sees at most NumRoutes other packets
\* pass: the one under way, and one per step of the round-robin pointer.
BoundedOvertaking == \A i \in Inputs : overtaken[i] <= NumRoutes

\* No input that keeps offering a flit is ignored for ever.
NoStarvation ==
    \A i \in Inputs : <>[](i \in valid_i) => []<><<Accept(i)>>_vars

=============================================================================
