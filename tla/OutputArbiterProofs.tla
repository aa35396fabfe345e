------------------------- MODULE OutputArbiterProofs -------------------------
(***************************************************************************)
(* Proofs about OutputArbiter for any number of inputs, any reductions over *)
(* them, any packet length and any arbitration tree.                        *)
(***************************************************************************)
EXTENDS OutputArbiter, WellFoundedInduction, TLAPS

-----------------------------------------------------------------------------
(* The inductive invariant *)

Types ==
    /\ valid_i \in SUBSET Inputs
    /\ op \in [Inputs -> Reductions \cup {Unicast}]
    /\ left \in [Inputs -> Nat]
    /\ prio_lock \in {"none", "reduction", "unicast"}

\* An input offers flits of packets only, and takes part in reductions that
\* count on it.
OfferInv ==
    /\ \A i \in valid_i : left[i] > 0
    /\ \A i \in Inputs : op[i] \in Reductions => i \in Members[op[i]]

\* What the two arbiters hold on to is there.
HeldInv ==
    /\ arb.lock_q => arb.req_q # {}
    /\ prio_lock = "reduction" => reduce_valid_out
    /\ prio_lock = "unicast" => Wormhole!valid_o

IInv == Types /\ OfferInv /\ HeldInv /\ Lockstep

-----------------------------------------------------------------------------
(* The inputs *)

\* How far a packet is in reduction r with remaining flits, see Progress.
Position(r, o, remaining) == IF o = r /\ remaining > 0 THEN RedLen - remaining ELSE 0

\* Inputs offer flits of packets; one that goes on, or starts, is as far as what
\* it has left says, and waiting flits stay as they are.
LEMMA InputsOffer ==
    ASSUME Types, NEW waiting \in SUBSET valid_i,
           NEW remaining \in [Inputs -> Nat],
           \A i \in waiting : remaining[i] > 0,
           \A i \in Inputs : op[i] \in Reductions => i \in Members[op[i]],
           Offer(waiting, remaining)
    PROVE  /\ valid_i' \in SUBSET Inputs /\ waiting \subseteq valid_i'
           /\ op' \in [Inputs -> Reductions \cup {Unicast}]
           /\ left' \in [Inputs -> Nat]
           /\ OfferInv'
           /\ \A i \in waiting : op'[i] = op[i] /\ left'[i] = remaining[i]
           /\ \A r \in Reductions, i \in Inputs :
                 Position(r, op'[i], left'[i]) = Position(r, op[i], remaining[i])
<1>1. PICK raise \in SUBSET (Inputs \ waiting) :
         /\ valid_i' = waiting \cup raise
         /\ LET starts == {i \in raise : remaining[i] = 0}
            IN  \E new \in [starts -> UNION {Packets(i) : i \in starts}] :
                  /\ \A i \in starts : new[i] \in Packets(i)
                  /\ op'   = [i \in Inputs |-> IF i \in starts THEN new[i].op
                                               ELSE IF remaining[i] = 0 THEN Unicast ELSE op[i]]
                  /\ left' = [i \in Inputs |-> IF i \in starts THEN new[i].left ELSE remaining[i]]
  BY DEF Offer
<1> DEFINE starts == {i \in raise : remaining[i] = 0}
<1>2. PICK new \in [starts -> UNION {Packets(i) : i \in starts}] :
         /\ \A i \in starts : new[i] \in Packets(i)
         /\ op'   = [i \in Inputs |-> IF i \in starts THEN new[i].op
                                      ELSE IF remaining[i] = 0 THEN Unicast ELSE op[i]]
         /\ left' = [i \in Inputs |-> IF i \in starts THEN new[i].left ELSE remaining[i]]
  BY <1>1
<1>3. \A i \in starts : /\ new[i].op \in Reductions \cup {Unicast}
                        /\ new[i].left \in Nat \ {0}
                        /\ new[i].op \in Reductions => i \in Members[new[i].op] /\ new[i].left = RedLen
  BY <1>2, MembersAssumption DEF Packets
<1>4. starts \subseteq Inputs /\ raise \subseteq Inputs /\ waiting \subseteq Inputs
      /\ \A i \in raise : i \in starts \/ remaining[i] > 0
  BY DEF Types
<1>5. starts \cap waiting = {}
  OBVIOUS
<1> HIDE DEF starts
<1>6. \A i \in Inputs : /\ op'[i] = IF i \in starts THEN new[i].op
                                      ELSE IF remaining[i] = 0 THEN Unicast ELSE op[i]
                        /\ left'[i] = IF i \in starts THEN new[i].left ELSE remaining[i]
  BY <1>2
<1>7. op' \in [Inputs -> Reductions \cup {Unicast}] /\ left' \in [Inputs -> Nat]
  <2>1. \A i \in Inputs : op'[i] \in Reductions \cup {Unicast} /\ left'[i] \in Nat
    BY <1>3, <1>6 DEF Types
  <2>2. op' = [i \in Inputs |-> op'[i]] /\ left' = [i \in Inputs |-> left'[i]]
    BY <1>2
  <2> QED
    BY <2>1, <2>2
<1>8. ASSUME NEW i \in valid_i' PROVE left'[i] > 0
  <2>1. i \in waiting \/ i \in raise
    BY <1>1
  <2>2. CASE i \in starts
    BY <1>3, <1>4, <1>6, <2>2
  <2>3. CASE i \notin starts
    <3>1. i \in Inputs /\ remaining[i] > 0
      BY <1>4, <2>1, <2>3
    <3> QED
      BY <1>6, <2>3, <3>1
  <2> QED
    BY <2>2, <2>3
<1>9. \A i \in Inputs : op'[i] \in Reductions => i \in Members[op'[i]]
  BY <1>3, <1>6, MembersAssumption
<1>10. \A i \in waiting : op'[i] = op[i] /\ left'[i] = remaining[i]
  <2> TAKE i \in waiting
  <2>1. i \in Inputs /\ i \notin starts /\ remaining[i] # 0
    BY <1>4, <1>5
  <2> QED
    BY <1>6, <2>1
<1>11. ASSUME NEW r \in Reductions, NEW i \in Inputs
       PROVE  Position(r, op'[i], left'[i]) = Position(r, op[i], remaining[i])
  <2>0. remaining[i] \in Nat /\ r # Unicast /\ RedLen \in Nat
    BY MembersAssumption
  <2>1. CASE i \in starts
    <3>1. remaining[i] = 0
      BY <2>1 DEF starts
    <3> QED
      BY <1>3, <1>6, <2>0, <2>1, <3>1 DEF Position
  <2>2. CASE i \notin starts
    BY <1>6, <2>0, <2>2 DEF Position
  <2> QED
    BY <2>1, <2>2
<1> QED
  BY <1>1, <1>4, <1>7, <1>8, <1>9, <1>10, <1>11 DEF OfferInv


-----------------------------------------------------------------------------
(* The two arbiters *)

\* A non-empty set of inputs has a lowest one.
LEMMA LowestInput ==
    ASSUME NEW S \in SUBSET Inputs, S # {}
    PROVE  Lowest(S) \in S /\ \A y \in S : Lowest(S) <= y
<1> DEFINE below == OpToRel(<, Nat)
<1>0. S \in SUBSET Nat
  BY NumInAssumption DEF Inputs, Requesters
<1>1. PICK x \in S : \A y \in S : <<y, x>> \notin below
  BY <1>0, WFMin, NatLessThanWellFounded
<1>2. \A y \in S : y < x => <<y, x>> \in below
  BY <1>0 DEF OpToRel
<1> HIDE DEF below
<1>3. ASSUME NEW y \in S PROVE x <= y
  <2>1. ~ (y < x) /\ x \in Nat /\ y \in Nat
    BY <1>0, <1>1, <1>2
  <2> QED
    BY <2>1
<1> QED
  BY <1>3 DEF Lowest

\* The selected reduction is complete and all of its inputs take part in it.
LEMMA SelectedReduction ==
    ASSUME Types, reduce_valid_out
    PROVE  /\ input_sel \in Inputs
           /\ op[input_sel] \in Reductions
           /\ \A j \in Members[op[input_sel]] :
                 j \in Inputs /\ j \in valid_i /\ op[j] = op[input_sel]
<1> DEFINE ready == {i \in Inputs : red_valid_in(i)}
<1>1. ready \in SUBSET Inputs /\ ready # {}
  BY DEF reduce_valid_out
<1>2. input_sel \in Inputs /\ red_valid_in(input_sel)
  <2>1. Lowest(ready) \in ready
    BY <1>1, LowestInput
  <2> QED
    BY <2>1 DEF input_sel
<1>3. op[input_sel] \in Reductions
  BY <1>2 DEF red_valid_in, reduce_mask
<1>4. \A j \in Members[op[input_sel]] : j \in filtered_valid_in(input_sel)
  BY <1>2 DEF red_valid_in, in_route_mask
<1> QED
  BY <1>2, <1>3, <1>4 DEF filtered_valid_in, Types

\* What an input has joined with stays complete while its flits wait.
LEMMA JoinWaits ==
    ASSUME Types, valid_i \subseteq valid_i', valid_i' \subseteq Inputs,
           \A i \in valid_i : op'[i] = op[i],
           NEW i \in Inputs, red_valid_in(i)
    PROVE  red_valid_in(i)'
<1>1. i \in valid_i /\ op[i] \in Reductions
      /\ \A j \in Members[op[i]] : j \in valid_i /\ op[j] = op[i] /\ j \in Inputs
  BY DEF red_valid_in, in_route_mask, filtered_valid_in, reduce_mask
<1>2. \A j \in Inputs : j \in reduce_mask' <=> op'[j] \in Reductions
  BY DEF reduce_mask
<1>3. in_route_mask(i)' = Members[op[i]]
  BY <1>1 DEF in_route_mask
<1>4. \A j \in Members[op[i]] : j \in filtered_valid_in(i)'
  BY <1>1, <1>2 DEF filtered_valid_in
<1> QED
  BY <1>1, <1>2, <1>3, <1>4 DEF red_valid_in

\* A complete reduction stays complete while its flits wait.
LEMMA ReductionWaits ==
    ASSUME Types, valid_i \subseteq valid_i', valid_i' \subseteq Inputs,
           \A i \in valid_i : op'[i] = op[i],
           reduce_valid_out
    PROVE  reduce_valid_out'
<1>1. PICK i \in Inputs : red_valid_in(i)
  BY DEF reduce_valid_out
<1>2. red_valid_in(i)'
  BY <1>1, JoinWaits
<1> QED
  BY <1>2 DEF reduce_valid_out

\* Its input is then selected again, or one before it.
LEMMA ReductionNotLater ==
    ASSUME Types, valid_i \subseteq valid_i', valid_i' \subseteq Inputs,
           \A i \in valid_i : op'[i] = op[i],
           reduce_valid_out
    PROVE  /\ input_sel \in valid_i
           /\ input_sel' = input_sel \/ input_sel' < input_sel
<1> DEFINE ready == {i \in Inputs : red_valid_in(i)}
<1>1. ready \in SUBSET Inputs /\ ready # {}
  BY DEF reduce_valid_out
<1>2. input_sel \in Inputs /\ red_valid_in(input_sel)
  <2>1. Lowest(ready) \in ready
    BY <1>1, LowestInput
  <2> QED
    BY <2>1 DEF input_sel
<1>3. input_sel \in ready' /\ ready' \in SUBSET Inputs
  <2>1. red_valid_in(input_sel) => \E i \in Inputs : i = input_sel /\ red_valid_in(i)'
    BY <1>2, JoinWaits
  <2> QED
    BY <1>2, <2>1
<1>4. input_sel' = Lowest(ready')
  BY DEF input_sel
<1> HIDE DEF ready
<1>5. Lowest(ready') \in Inputs /\ Lowest(ready') <= input_sel
  BY <1>3, LowestInput
<1>6. Inputs \subseteq Nat
  BY NumInAssumption DEF Inputs, Requesters
<1>7. input_sel \in Nat /\ input_sel' \in Nat /\ input_sel' <= input_sel
  BY <1>2, <1>4, <1>5, <1>6
<1>8. input_sel \in valid_i
  BY <1>2 DEF red_valid_in
<1> QED
  BY <1>7, <1>8

\* A unicast flit that the wormhole arbiter offers is one of its inputs' flits.
LEMMA OfferedUnicast ==
    ASSUME Types, Wormhole!valid_o
    PROVE  /\ Wormhole!valid_selected_idx \in valid_i
           /\ Wormhole!valid_selected_idx \in Inputs
           /\ op[Wormhole!valid_selected_idx] \notin Reductions
BY DEF Wormhole!valid_o, Types, reduce_mask

\* The wormhole arbiter goes on offering a flit that was not accepted.
LEMMA UnicastWaits ==
    ASSUME Types, HeldInv, Clock(FALSE), valid_i \subseteq valid_i',
           \A i \in valid_i : op'[i] = op[i],
           Wormhole!valid_o
    PROVE  /\ Wormhole!valid_o'
           /\ Wormhole!valid_selected_idx' = Wormhole!valid_selected_idx
<1> DEFINE idx == Wormhole!valid_selected_idx
<1>1. idx \in valid_i \ reduce_mask /\ idx \in valid_i /\ idx \in Inputs
      /\ op[idx] \notin Reductions
  BY OfferedUnicast DEF Wormhole!valid_o
<1>2. idx \in valid_i' \ reduce_mask'
  BY <1>1 DEF reduce_mask
<1>3. idx = Wormhole!selected_idx
  BY <1>1 DEF Wormhole!valid_selected_idx
<1>4. Wormhole!arb_req # {}
  <2>1. CASE arb.lock_q
    BY <2>1 DEF HeldInv, Wormhole!arb_req, Wormhole!ArbRequests
  <2>2. CASE ~arb.lock_q
    BY <1>1, <2>2 DEF Wormhole!arb_req, Wormhole!ArbRequests, Wormhole!valid_d
  <2> QED
    BY <2>1, <2>2
<1>5. ~Wormhole!gnt_i(FALSE)
  BY DEF Wormhole!gnt_i
<1>6. arb'.lock_q /\ arb'.req_q = Wormhole!arb_req /\ arb'.rr_q = arb.rr_q
  BY <1>4, <1>5 DEF Clock
<1>7. Wormhole!arb_req' = Wormhole!arb_req
  BY <1>6 DEF Wormhole!arb_req, Wormhole!ArbRequests
<1>8. Wormhole!selected_idx' = idx
  BY <1>3, <1>6, <1>7, Zenon DEF Wormhole!selected_idx
<1>9. Wormhole!valid_selected_idx' = idx
  BY <1>2, <1>8 DEF Wormhole!valid_selected_idx
<1> QED
  BY <1>2, <1>9 DEF Wormhole!valid_o


-----------------------------------------------------------------------------
(* The steps *)

\* The first clock cycle finds all inputs between packets.
LEMMA InitIInv == Init => IInv
<1> SUFFICES ASSUME Init PROVE IInv
  OBVIOUS
<1>1. Types
  BY DEF Init, Types
<1>2. OfferInv
  BY MembersAssumption DEF Init, OfferInv
<1>3. HeldInv
  BY DEF Init, HeldInv
<1>4. Lockstep
  <2> SUFFICES ASSUME NEW r \in Reductions, NEW i \in Members[r], NEW j \in Members[r]
               PROVE  Progress(r, i) = Progress(r, j)
    BY DEF Lockstep
  <2>1. i \in Inputs /\ j \in Inputs
    BY MembersAssumption
  <2> QED
    BY <2>1 DEF Init, Progress
<1> QED
  BY <1>1, <1>2, <1>3, <1>4 DEF IInv

\* The wormhole arbiter holds on to requests only.
LEMMA ClockHolds ==
    ASSUME NEW ready, Clock(ready)
    PROVE  arb'.lock_q => arb'.req_q # {}
BY DEF Clock

\* Progress is Position of what an input offers.
LEMMA ProgressIsPosition ==
    ASSUME NEW r, NEW i
    PROVE  /\ Progress(r, i) = Position(r, op[i], left[i])
           /\ Progress(r, i)' = Position(r, op'[i], left'[i])
BY DEF Progress, Position

\* A cycle in which no flit leaves.
LEMMA HoldIInv ==
    ASSUME IInv, Hold
    PROVE  IInv'
<1>0. Types /\ OfferInv /\ HeldInv /\ Lockstep
  BY DEF IInv
<1>1. /\ valid_i' \in SUBSET Inputs /\ valid_i \subseteq valid_i'
      /\ op' \in [Inputs -> Reductions \cup {Unicast}]
      /\ left' \in [Inputs -> Nat]
      /\ OfferInv'
      /\ \A i \in valid_i : op'[i] = op[i] /\ left'[i] = left[i]
      /\ \A r \in Reductions, i \in Inputs :
            Position(r, op'[i], left'[i]) = Position(r, op[i], left[i])
  <2>1. left \in [Inputs -> Nat] /\ valid_i \in SUBSET valid_i
    BY <1>0 DEF Types
  <2>2. Offer(valid_i, left)
    BY DEF Hold
  <2>3. /\ \A i \in valid_i : left[i] > 0
        /\ \A i \in Inputs : op[i] \in Reductions => i \in Members[op[i]]
    BY <1>0 DEF OfferInv
  <2> HIDE DEF Inputs, Reductions
  <2> QED
    BY <1>0, <2>1, <2>2, <2>3, InputsOffer
<1>2. Types'
  <2>1. prio_lock' \in {"none", "reduction", "unicast"}
    BY <1>0 DEF Hold, selected, Types
  <2> QED
    BY <1>1, <2>1 DEF Types
<1>3. HeldInv'
  <2>1. arb'.lock_q => arb'.req_q # {}
    BY ClockHolds DEF Hold
  <2>2. prio_lock' = "reduction" => reduce_valid_out'
    <3>1. prio_lock' = "reduction" => reduce_valid_out
      BY <1>0 DEF Hold, selected, HeldInv
    <3> QED
      BY <1>0, <1>1, <3>1, ReductionWaits
  <2>3. prio_lock' = "unicast" => Wormhole!valid_o'
    <3>1. prio_lock' = "unicast" => Wormhole!valid_o
      BY <1>0 DEF Hold, selected, HeldInv
    <3>2. Clock(FALSE)
      BY DEF Hold
    <3> QED
      BY <1>0, <1>1, <3>1, <3>2, UnicastWaits
  <2> QED
    BY <2>1, <2>2, <2>3 DEF HeldInv
<1>4. Lockstep'
  <2> SUFFICES ASSUME NEW r \in Reductions, NEW i \in Members[r], NEW j \in Members[r]
               PROVE  Progress(r, i)' = Progress(r, j)'
    BY DEF Lockstep
  <2>1. i \in Inputs /\ j \in Inputs
    BY MembersAssumption
  <2>2. Progress(r, i) = Progress(r, j)
    BY <1>0 DEF Lockstep
  <2> QED
    BY <1>1, <2>1, <2>2, ProgressIsPosition
<1> QED
  BY <1>1, <1>2, <1>3, <1>4 DEF IInv

\* The flit at the output leaves: every input that gave it loses it, and the
\* participants of a reduction stay at the same flit.
LEMMA TakenTogether ==
    ASSUME IInv, valid_o
    PROVE  /\ taken \subseteq valid_i
           /\ \A r \in Reductions : \A i, j \in Members[r] :
                 Position(r, op[i], IF i \in taken THEN left[i] - 1 ELSE left[i])
                    = Position(r, op[j], IF j \in taken THEN left[j] - 1 ELSE left[j])
<1>0. Types /\ OfferInv /\ HeldInv /\ Lockstep
  BY DEF IInv
<1>1. selected = "reduction" \/ selected = "unicast"
  BY <1>0 DEF valid_o, selected, Types
<1>2. ASSUME NEW r \in Reductions, NEW i \in Members[r]
      PROVE  i \in Inputs /\ left[i] \in Nat /\ r # Unicast
  BY <1>0, MembersAssumption DEF Types
<1>3. CASE selected = "reduction"
  <2>1. reduce_valid_out
    BY <1>0, <1>3 DEF selected, HeldInv
  <2> DEFINE sel == op[input_sel]
  <2>2. /\ sel \in Reductions
        /\ \A j \in Members[sel] : j \in valid_i /\ op[j] = sel
    BY <1>0, <2>1, SelectedReduction
  <2>3. taken = Members[sel]
    BY <1>3 DEF taken, in_route_mask
  <2> HIDE DEF sel
  <2>4. ASSUME NEW r \in Reductions, NEW i \in Members[r], NEW j \in Members[r]
        PROVE  Position(r, op[i], IF i \in taken THEN left[i] - 1 ELSE left[i])
                  = Position(r, op[j], IF j \in taken THEN left[j] - 1 ELSE left[j])
    <3>1. Progress(r, i) = Progress(r, j)
      BY <1>0 DEF Lockstep
    <3>2. left[i] \in Nat /\ left[j] \in Nat /\ RedLen \in Nat
      BY <1>2, MembersAssumption
    <3>3. CASE r = sel
      <4>1. op[i] = r /\ op[j] = r /\ left[i] > 0 /\ left[j] > 0
        BY <1>0, <2>2, <3>3 DEF OfferInv
      <4>2. left[i] = left[j]
        BY <3>1, <3>2, <4>1 DEF Progress
      <4> QED
        BY <2>3, <3>3, <4>1, <4>2
    <3>4. CASE r # sel
      <4>1. ASSUME NEW k \in {i, j}
            PROVE  Position(r, op[k], IF k \in taken THEN left[k] - 1 ELSE left[k])
                      = Progress(r, k)
        BY <2>2, <2>3, <3>4 DEF Position, Progress
      <4> QED
        BY <3>1, <4>1
    <3> QED
      BY <3>3, <3>4
  <2> QED
    BY <2>2, <2>3, <2>4
<1>4. CASE selected = "unicast"
  <2>1. Wormhole!valid_o
    BY <1>0, <1>4 DEF selected, HeldInv
  <2> DEFINE idx == Wormhole!valid_selected_idx
  <2>2. idx \in valid_i /\ op[idx] \notin Reductions
    BY <1>0, <2>1, OfferedUnicast
  <2>3. taken = {idx}
    BY <1>4 DEF taken, offered
  <2> HIDE DEF idx
  <2>4. ASSUME NEW r \in Reductions, NEW i \in Members[r], NEW j \in Members[r]
        PROVE  Position(r, op[i], IF i \in taken THEN left[i] - 1 ELSE left[i])
                  = Position(r, op[j], IF j \in taken THEN left[j] - 1 ELSE left[j])
    <3>1. Progress(r, i) = Progress(r, j)
      BY <1>0 DEF Lockstep
    <3>2. ASSUME NEW k \in {i, j}
          PROVE  Position(r, op[k], IF k \in taken THEN left[k] - 1 ELSE left[k])
                    = Progress(r, k)
      BY <2>2, <2>3 DEF Position, Progress
    <3> QED
      BY <3>1, <3>2
  <2> QED
    BY <2>2, <2>3, <2>4
<1> QED
  BY <1>1, <1>3, <1>4

\* A cycle in which the offered flit leaves.
LEMMA SendIInv ==
    ASSUME IInv, Send
    PROVE  IInv'
<1>0. Types /\ OfferInv /\ HeldInv /\ Lockstep
  BY DEF IInv
<1> DEFINE waiting == valid_i \ taken
           remaining == [i \in Inputs |-> IF i \in taken THEN left[i] - 1 ELSE left[i]]
<1>1. taken \subseteq valid_i /\ Offer(waiting, remaining)
  BY TakenTogether DEF Send
<1>2. remaining \in [Inputs -> Nat]
  <2>1. \A i \in Inputs : left[i] \in Nat /\ (i \in taken => left[i] > 0)
    BY <1>0, <1>1 DEF Types, OfferInv
  <2> QED
    BY <2>1
<1>3. \A i \in waiting : i \in Inputs /\ remaining[i] = left[i] /\ left[i] > 0
  BY <1>0 DEF Types, OfferInv
<1>4. \A r \in Reductions : \A i, j \in Members[r] :
         /\ i \in Inputs /\ j \in Inputs
         /\ Position(r, op[i], remaining[i]) = Position(r, op[j], remaining[j])
  <2>1. \A r \in Reductions : \A i \in Members[r] : i \in Inputs
    BY MembersAssumption
  <2>2. \A i \in Inputs : remaining[i] = IF i \in taken THEN left[i] - 1 ELSE left[i]
    OBVIOUS
  <2> HIDE DEF remaining
  <2>3. \A r \in Reductions : \A i, j \in Members[r] :
           Position(r, op[i], IF i \in taken THEN left[i] - 1 ELSE left[i])
              = Position(r, op[j], IF j \in taken THEN left[j] - 1 ELSE left[j])
    BY TakenTogether DEF Send
  <2> QED
    BY <2>1, <2>2, <2>3
<1> HIDE DEF waiting, remaining
<1>5. /\ valid_i' \in SUBSET Inputs
      /\ op' \in [Inputs -> Reductions \cup {Unicast}]
      /\ left' \in [Inputs -> Nat]
      /\ OfferInv'
      /\ \A r \in Reductions, i \in Inputs :
            Position(r, op'[i], left'[i]) = Position(r, op[i], remaining[i])
  <2>1. waiting \in SUBSET valid_i /\ \A i \in waiting : remaining[i] > 0
    BY <1>3 DEF waiting
  <2>2. \A i \in Inputs : op[i] \in Reductions => i \in Members[op[i]]
    BY <1>0 DEF OfferInv
  <2> QED
    BY <1>0, <1>1, <1>2, <2>1, <2>2, InputsOffer
<1>6. Types' /\ HeldInv'
  <2>1. prio_lock' = "none"
    BY DEF Send
  <2>2. arb'.lock_q => arb'.req_q # {}
    BY ClockHolds DEF Send
  <2> QED
    BY <1>5, <2>1, <2>2 DEF Types, HeldInv
<1>7. Lockstep'
  <2> SUFFICES ASSUME NEW r \in Reductions, NEW i \in Members[r], NEW j \in Members[r]
               PROVE  Progress(r, i)' = Progress(r, j)'
    BY DEF Lockstep
  <2> QED
    BY <1>4, <1>5, ProgressIsPosition
<1> QED
  BY <1>5, <1>6, <1>7 DEF IInv

\* Nothing changes in a stuttering step.
LEMMA StutterIInv == IInv /\ UNCHANGED vars => IInv'
<1> SUFFICES ASSUME IInv, UNCHANGED vars PROVE IInv'
  OBVIOUS
<1>1. Types' /\ OfferInv'
  BY DEF IInv, Types, OfferInv, vars
<1>2. Lockstep'
  BY DEF IInv, Lockstep, Progress, vars
<1>3. HeldInv'
  <2>1. Types /\ HeldInv /\ arb' = arb /\ prio_lock' = prio_lock
    BY DEF IInv, vars
  <2>2. reduce_valid_out => reduce_valid_out'
    BY <2>1, <1>1, ReductionWaits DEF vars, Types
  <2>3. Wormhole!valid_o' <=> Wormhole!valid_o
    BY Zenon DEF vars, Wormhole!valid_o, Wormhole!valid_selected_idx, Wormhole!selected_idx,
                 Wormhole!arb_req, Wormhole!ArbRequests, Wormhole!valid_d, reduce_mask
  <2> QED
    BY <2>1, <2>2, <2>3 DEF HeldInv
<1> QED
  BY <1>1, <1>2, <1>3 DEF IInv

\* IInv holds in every reachable state.
LEMMA IInvHolds == Spec => []IInv
<1>1. IInv /\ [Next]_vars => IInv'
  BY HoldIInv, SendIInv, StutterIInv DEF Next
<1> QED
  BY InitIInv, <1>1, PTL DEF Spec

\* The participants of a reduction are at the same flit of their packets.
THEOREM ParticipantsInStep == Spec => []Lockstep
<1>1. IInv => Lockstep
  BY DEF IInv
<1> QED
  BY IInvHolds, <1>1, PTL


\* A flit that the link does not take is offered again: a stalled unicast flit
\* is never displaced, and that of a reduction only by that of a reduction with
\* a participant before all of its own.
THEOREM StalledFlitsStay == Spec => StalledStays
<1>1. ASSUME IInv, Hold, valid_o
      PROVE  /\ valid_o'
             /\ selected' = selected
             /\ \/ offered' = offered
                \/ selected = "reduction" /\ input_sel' < input_sel
  <2>0. Types /\ OfferInv /\ HeldInv
    BY <1>1 DEF IInv
  <2>1. valid_o' /\ selected' = selected
    BY <1>1 DEF Hold, valid_o, selected
  <2>2. /\ valid_i \subseteq valid_i'
        /\ \A i \in valid_i : op'[i] = op[i] /\ left'[i] = left[i]
    <3>1. left \in [Inputs -> Nat] /\ valid_i \in SUBSET valid_i /\ Offer(valid_i, left)
      BY <1>1, <2>0 DEF Types, Hold
    <3>2. /\ \A i \in valid_i : left[i] > 0
          /\ \A i \in Inputs : op[i] \in Reductions => i \in Members[op[i]]
      BY <2>0 DEF OfferInv
    <3> HIDE DEF Inputs, Reductions
    <3> QED
      BY <2>0, <3>1, <3>2, InputsOffer
  <2>3. valid_i' \subseteq Inputs
    BY <1>1, HoldIInv DEF IInv, Types
  <2>4. selected = "reduction" \/ selected = "unicast"
    BY <1>1, <2>0 DEF valid_o, selected, Types
  <2>5. ASSUME selected = "unicast" PROVE offered' = offered
    <3> DEFINE idx == Wormhole!valid_selected_idx
    <3>1. Wormhole!valid_o /\ Clock(FALSE)
      BY <1>1, <2>0, <2>5 DEF selected, HeldInv, Hold
    <3>2. idx' = idx /\ idx \in valid_i
      BY <2>0, <2>2, <3>1, UnicastWaits, OfferedUnicast
    <3>3. offered = [by |-> idx, left |-> left[idx]]
      BY <2>5 DEF offered
    <3>4. offered' = [by |-> idx', left |-> left'[idx']]
      BY <2>1, <2>5 DEF offered
    <3> HIDE DEF idx
    <3> QED
      BY <2>2, <3>2, <3>3, <3>4
  <2>6. ASSUME selected = "reduction"
        PROVE  offered' = offered \/ input_sel' < input_sel
    <3>1. reduce_valid_out
      BY <2>0, <2>6 DEF selected, HeldInv
    <3>2. input_sel \in valid_i /\ (input_sel' = input_sel \/ input_sel' < input_sel)
      BY <2>0, <2>2, <2>3, <3>1, ReductionNotLater
    <3>3. offered = [by |-> op[input_sel], left |-> left[input_sel]]
      BY <2>6 DEF offered
    <3>4. offered' = [by |-> op'[input_sel'], left |-> left'[input_sel']]
      BY <2>1, <2>6 DEF offered
    <3> QED
      BY <2>2, <3>2, <3>3, <3>4
  <2> QED
    BY <2>1, <2>4, <2>5, <2>6
<1>2. IInv /\ [Next]_vars => [Hold /\ valid_o => /\ valid_o'
                                                 /\ selected' = selected
                                                 /\ \/ offered' = offered
                                                    \/ selected = "reduction" /\ input_sel' < input_sel]_vars
  BY <1>1
<1> QED
  BY IInvHolds, <1>2, PTL DEF Spec, StalledStays

=============================================================================
