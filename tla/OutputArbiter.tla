--------------------------- MODULE OutputArbiter ---------------------------
(***************************************************************************)
(* hw/floo_output_arbiter.sv with parallel reductions: the flits of unicast *)
(* packets go through the wormhole arbiter, the flits of a reduction are    *)
(* joined by hw/floo_reduction_arbiter.sv once all its participants offer   *)
(* theirs, and a priority arbiter puts either on the link.  A step is one   *)
(* clock cycle.                                                            *)
(*                                                                         *)
(* A reduction stands for its destination and mask; Members[r] is the set   *)
(* of inputs from which this router gets its contributions, the mask that   *)
(* hw/floo_route_xymask.sv computes (module Collective).  The payload of a  *)
(* B response is its resp field.                                           *)
(***************************************************************************)
EXTENDS RrArbTree, FiniteSets

CONSTANTS
    Members,       \* the participants of each reduction
    Unicast,       \* the operation of any other packet
    MaxLen,        \* bound on the flits of a unicast packet
    RedLen,        \* flits of a reduction's packets
    Resps          \* the responses a flit may carry

Inputs     == Requesters
Reductions == DOMAIN Members
Okay == "OKAY"
SlvErr == "SLVERR"

ASSUME MembersAssumption ==
    /\ Members \in [Reductions -> (SUBSET Inputs) \ {{}}]
    /\ Unicast \notin Reductions
    /\ MaxLen \in Nat \ {0} /\ RedLen \in Nat \ {0}
    /\ Okay \in Resps

VARIABLES
    arb,                  \* registers of the wormhole arbiter
    prio_lock,            \* LockIn of the priority arbiter: what it holds on to
    valid_i,              \* the inputs that offer a flit
    op, left, resp,       \* the packet of each input: operation, flits, payload
    link                  \* history: whose packet is under way on the link

vars == <<arb, prio_lock, valid_i, op, left, resp, link>>

NoOwner == Unicast

-----------------------------------------------------------------------------
(* Combinational signals *)

reduce_mask == {i \in Inputs : op[i] \in Reductions}

Wormhole == INSTANCE WormholeArbiter WITH
    valid_q <- arb.valid_q, last_q <- arb.last_q, lock_q <- arb.lock_q,
    req_q <- arb.req_q, rr_q <- arb.rr_q,
    valid_i <- valid_i \ reduce_mask, owner <- 0, overtaken <- 0

\* floo_reduction_sync of input i: the flits that take part in its reduction,
\* and whether all the inputs it expects are among them.
in_route_mask(i) == Members[op[i]]
filtered_valid_in(i) == {j \in valid_i \cap reduce_mask : op[j] = op[i]}
red_valid_in(i) == i \in valid_i \cap reduce_mask /\ in_route_mask(i) \subseteq filtered_valid_in(i)

reduce_valid_out == \E i \in Inputs : red_valid_in(i)
input_sel == Lowest({i \in Inputs : red_valid_in(i)})

\* The combined B response is the selected one, or the first participant's
\* that reports RESP_SLVERR.
data_collectB ==
    LET failed == {i \in in_route_mask(input_sel) : resp[i] = SlvErr}
    IN  IF failed = {} THEN resp[input_sel] ELSE resp[Lowest(failed)]

\* Mutant: a stalled flit does not hold the link.
NoLockIn == IF reduce_valid_out THEN "reduction"
            ELSE IF Wormhole!valid_o THEN "unicast" ELSE "none"

\* Mutant: the priorities are the other way round.
UnicastFirst == IF prio_lock # "none" THEN prio_lock
                ELSE IF Wormhole!valid_o THEN "unicast"
                ELSE IF reduce_valid_out THEN "reduction" ELSE "none"

\* cc_stream_arbiter, ARB_PRIO: reductions first, but a stalled flit stays.
selected == IF prio_lock # "none" THEN prio_lock
            ELSE IF reduce_valid_out THEN "reduction"
            ELSE IF Wormhole!valid_o THEN "unicast" ELSE "none"

valid_o == selected # "none"

\* The packet the offered flit belongs to, and the inputs it comes from.
offered == IF selected = "reduction"
           THEN [by |-> op[input_sel], left |-> left[input_sel]]
           ELSE LET i == Wormhole!valid_selected_idx
                IN  [by |-> i, left |-> left[i]]

\* Mutant: only the selected input is told that its flit was taken.
OnlySelected == IF selected = "reduction" THEN {input_sel} ELSE {offered.by}

taken == IF selected = "reduction" THEN in_route_mask(input_sel) ELSE {offered.by}

-----------------------------------------------------------------------------
(* One clock cycle *)

\* The registers with unicast_ready_in of the wormhole arbiter.
Clock(ready) ==
    arb' = [valid_q |-> Wormhole!valid_d,
            last_q  |-> Wormhole!last_out /\ ready,
            lock_q  |-> Wormhole!arb_req # {} /\ ~Wormhole!gnt_i(ready),
            req_q   |-> Wormhole!arb_req,
            rr_q    |-> IF Wormhole!arb_req # {} /\ Wormhole!gnt_i(ready)
                        THEN Wormhole!NextPointer(Wormhole!arb_req, arb.rr_q)
                        ELSE arb.rr_q]

\* The packets an input may start.
Packets(i) ==
    {[op |-> Unicast, left |-> n] : n \in 1 .. MaxLen}
    \cup {[op |-> r, left |-> RedLen] : r \in {r \in Reductions : i \in Members[r]}}

\* Environment: inputs in waiting keep their flit, others may offer the next
\* one of their packet or the first one of a new packet.  Payloads matter in
\* reductions only.
Offer(waiting, remaining) ==
    \E raise \in SUBSET (Inputs \ waiting) :
       /\ valid_i' = waiting \cup raise
       /\ LET starts == {i \in raise : remaining[i] = 0}
          IN  \E new \in [starts -> UNION {Packets(i) : i \in starts}] :
                /\ \A i \in starts : new[i] \in Packets(i)
                /\ op'   = [i \in Inputs |-> IF i \in starts THEN new[i].op
                                             ELSE IF remaining[i] = 0 THEN Unicast ELSE op[i]]
                /\ left' = [i \in Inputs |-> IF i \in starts THEN new[i].left ELSE remaining[i]]
       /\ \E data \in [{i \in raise : op'[i] \in Reductions} -> Resps] :
             resp' = [i \in Inputs |-> IF i \in DOMAIN data THEN data[i]
                                       ELSE IF i \in waiting THEN resp[i] ELSE Okay]

Init ==
    /\ arb = [valid_q |-> {}, last_q |-> FALSE, lock_q |-> FALSE,
              req_q |-> {}, rr_q |-> 0]
    /\ prio_lock = "none" /\ valid_i = {}
    /\ op = [i \in Inputs |-> Unicast]
    /\ left = [i \in Inputs |-> 0] /\ resp = [i \in Inputs |-> Okay]
    /\ link = [owner |-> NoOwner, rest |-> 0]

\* No flit leaves.
Hold ==
    /\ Clock(FALSE)
    /\ prio_lock' = selected
    /\ Offer(valid_i, left)
    /\ UNCHANGED link

\* The offered flit leaves.
Send ==
    /\ valid_o
    /\ Clock(selected = "unicast")
    /\ prio_lock' = "none"
    /\ Offer(valid_i \ taken, [i \in Inputs |-> IF i \in taken THEN left[i] - 1 ELSE left[i]])
    /\ link' = [owner |-> IF offered.left = 1 THEN NoOwner ELSE offered.by,
                rest  |-> offered.left - 1]

Next == Hold \/ Send

Spec == Init /\ [][Next]_vars

\* The consumer keeps accepting flits.
FairSpec == Spec /\ WF_vars(Send)

-----------------------------------------------------------------------------
(* Properties *)

\* All participants of a reduction are at the same flit of their packets: none
\* is combined twice, skipped, or combined with a flit of another position.
Progress(r, i) == IF op[i] = r /\ left[i] > 0 THEN RedLen - left[i] ELSE 0
Lockstep == \A r \in Reductions : \A i, j \in Members[r] : Progress(r, i) = Progress(r, j)

\* A flit that the link does not take is offered again (assertion StableValidOut
\* of hw/floo_router.sv): a unicast flit is not displaced by a reduction that
\* becomes complete meanwhile, and a reduction only by one with a participant
\* before all of its own, since input_sel is not held.
StalledStays ==
    [][Hold /\ valid_o => /\ valid_o'
                          /\ selected' = selected
                          /\ \/ offered' = offered
                             \/ selected = "reduction" /\ input_sel' < input_sel]_vars

\* A reduction whose participants all offer their flits is performed: unicast
\* packets and reductions of later inputs never keep it from the link.  Those
\* with a participant before all of its own may, since input_sel is the first.
Complete(r) == \A i \in Members[r] : i \in valid_i /\ op[i] = r
Before(r) == {q \in Reductions : \E i \in Members[q] : \A j \in Members[r] : i < j}
ReductionPasses ==
    \A r \in Reductions :
        <>[]Complete(r) => []<><<Send /\ offered.by \in {r} \cup Before(r)>>_vars

\* A combined B response reports an error if any participant's does: "check if
\* at least one of the participants sent an error" (hw/floo_reduction_arbiter.sv).
\* Not in a run: a DECERR is dropped (README, known limits).
ErrorsReported ==
    reduce_valid_out /\ (\E i \in in_route_mask(input_sel) : resp[i] # Okay)
       => data_collectB # Okay

\* The packets of inputs and of reductions are not interleaved on the link: the
\* router "locks the direction until flit with the `last` bit set has been sent"
\* (docs/floonoc/flits.md).  Not in a run: they are (README, known limits).
Link == INSTANCE PacketLink
          WITH Sources <- Inputs \cup Reductions, owner <- link.owner,
               rest <- link.rest, MaxLen <- IF RedLen > MaxLen THEN RedLen ELSE MaxLen
LinkCarriesPackets == Link!Spec

=============================================================================
