------------------------ MODULE WormholeArbiterProofs ------------------------
(***************************************************************************)
(* Proofs about WormholeArbiter for any number of inputs, any packet length *)
(* and any arbitration tree that satisfies TreeAssumption.                  *)
(***************************************************************************)
EXTENDS WormholeArbiter, WellFoundedInduction, TLAPS

-----------------------------------------------------------------------------
(* The arbitration tree *)

\* A non-empty set of natural numbers has a lowest element.
LEMMA LowestIsMinimum ==
    ASSUME NEW S \in SUBSET Nat, S # {}
    PROVE  Lowest(S) \in S /\ \A j \in S : Lowest(S) <= j
<1> DEFINE below == OpToRel(<, Nat)
<1>1. \E x \in S : \A y \in S : <<y, x>> \notin below
  BY WFMin, NatLessThanWellFounded
<1>2. \A x, y \in S : y < x => <<y, x>> \in below
  BY DEF OpToRel
<1> HIDE DEF below
<1>3. \E x \in S : \A y \in S : x <= y
  <2>1. PICK x \in S : \A y \in S : <<y, x>> \notin below
    BY <1>1
  <2>2. ASSUME NEW y \in S PROVE x <= y
    <3>1. ~ (y < x)
      BY <1>2, <2>1
    <3> QED
      BY <3>1
  <2> QED
    BY <2>2
<1> QED
  BY <1>3 DEF Lowest

\* On a grant the pointer moves to a requester.
LEMMA NextPointerType ==
    ASSUME NEW req \in SUBSET Requesters, req # {}, NEW rr \in Requesters
    PROVE  NextPointer(req, rr) \in req
<1> DEFINE upper == {i \in req : i > rr}
<1>1. req \subseteq Nat
  BY NumInAssumption DEF Requesters
<1>2. CASE upper # {}
  BY <1>1, <1>2, LowestIsMinimum DEF NextPointer
<1>3. CASE upper = {}
  BY <1>1, <1>3, LowestIsMinimum DEF NextPointer
<1> QED
  BY <1>2, <1>3

\* How far the pointer is below index i, going round.
Gap(rr, i) == IF i >= rr THEN i - rr ELSE i - rr + NumIn

\* A grant brings the pointer closer to every other requester.
LEMMA NextPointerCloser ==
    ASSUME NEW req \in SUBSET Requesters, NEW rr \in Requesters,
           NEW i \in req, i # rr
    PROVE  Gap(NextPointer(req, rr), i) < Gap(rr, i)
<1> DEFINE upper == {k \in req : k > rr}
<1>0. req \subseteq Nat /\ NumIn \in Nat /\ rr \in Nat
      /\ i \in Nat /\ i < NumIn /\ rr < NumIn
  BY NumInAssumption DEF Requesters
<1>1. CASE upper # {}
  <2>1. NextPointer(req, rr) = Lowest(upper)
    BY <1>1 DEF NextPointer
  <2>2. Lowest(upper) \in upper /\ \A j \in upper : Lowest(upper) <= j
    BY <1>0, <1>1, LowestIsMinimum
  <2>3. Lowest(upper) \in Nat /\ Lowest(upper) > rr /\ Lowest(upper) < NumIn
    <3>1. Lowest(upper) \in req /\ Lowest(upper) > rr
      BY <2>2
    <3>2. Lowest(upper) \in Requesters
      BY <3>1
    <3> HIDE DEF upper
    <3> QED
      BY <3>1, <3>2, NumInAssumption DEF Requesters
  <2>4. i > rr => Lowest(upper) <= i
    BY <2>2
  <2> QED
    BY <1>0, <2>1, <2>3, <2>4 DEF Gap
<1>2. CASE upper = {}
  <2>1. NextPointer(req, rr) = Lowest(req)
    BY <1>2 DEF NextPointer
  <2>2. Lowest(req) \in Nat /\ Lowest(req) <= i
    BY <1>0, LowestIsMinimum
  <2>3. i < rr
    BY <1>0, <1>2
  <2> QED
    BY <1>0, <2>1, <2>2, <2>3 DEF Gap
<1> QED
  BY <1>1, <1>2

-----------------------------------------------------------------------------
(* The inductive invariant *)

\* LockIn and the sampled requests agree: an arbitration that is under way is
\* held by both, and none is held after a grant.
LockInv ==
    /\ lock_q => ~last_q /\ valid_q = req_q /\ req_q # {}
    /\ ~lock_q => valid_q = {} \/ last_q

\* Offered flits belong to a packet, and the competitors of a held
\* arbitration keep offering (except the owner, whose packet may have gaps).
OfferInv ==
    /\ \A i \in valid_i : left[i] > 0
    /\ lock_q => \A i \in req_q : i \in valid_i \/ owner = i

\* The packet under way belongs to the input the held arbitration selects.
OwnerInv ==
    owner # NoOwner =>
       lock_q /\ Tree[req_q, rr_q] = owner /\ left[owner] > 0

\* An input that was overtaken competes, and the pointer approaches it.
OvertakenInv ==
    \A i \in Inputs :
       \/ overtaken[i] = 0
       \/ /\ lock_q => i \in req_q
          /\ i \in valid_i \/ owner = i
          /\ overtaken[i] + Gap(rr_q, i) <= NumIn

IInv == TypeOK /\ LockInv /\ OfferInv /\ OwnerInv /\ OvertakenInv

LEMMA NoOwnerIsNoInput == NoOwner \notin Inputs
BY NumInAssumption DEF NoOwner, Inputs, Requesters

\* What the tree returns, in the terms of this module.
LEMMA TreeSelects ==
    ASSUME NEW req \in SUBSET Inputs, req # {}, NEW rr \in Inputs
    PROVE  Tree[req, rr] \in req /\ (rr \in req => Tree[req, rr] = rr)
BY TreeAssumption DEF Inputs

\* In every cycle the tree sees the sampled requests; an offered flit of the
\* owner, or of the selected input when there is no owner, is forwarded.
LEMMA Selection ==
    ASSUME IInv
    PROVE  /\ arb_req = valid_d
           /\ arb_req \in SUBSET Inputs
           /\ lock_q => arb_req = req_q
           /\ ~lock_q => arb_req = valid_i
           /\ valid_i # {} => arb_req # {} /\ selected_idx \in arb_req
           /\ owner # NoOwner => arb_req # {} /\ selected_idx = owner
           /\ owner = NoOwner => arb_req \subseteq valid_i
           /\ valid_o => valid_selected_idx = selected_idx
           /\ valid_o => selected_idx \in valid_i
<1>1. lock_q \in BOOLEAN /\ valid_i \in SUBSET Inputs /\ req_q \in SUBSET Inputs
      /\ valid_q \in SUBSET Inputs /\ rr_q \in Inputs
  BY DEF IInv, TypeOK
<1>2. CASE lock_q
  <2>1. arb_req = req_q /\ valid_d = req_q /\ req_q # {}
    BY <1>2 DEF IInv, LockInv, arb_req, ArbRequests, valid_d
  <2>2. selected_idx \in req_q
    BY <1>1, <2>1, TreeSelects DEF selected_idx
  <2>3. owner # NoOwner => selected_idx = owner
    BY <2>1 DEF IInv, OwnerInv, selected_idx
  <2>4. owner = NoOwner => req_q \subseteq valid_i
    BY <1>1, <1>2 DEF IInv, OfferInv, NoOwner, Inputs, Requesters
  <2>5. valid_o => valid_i # {} /\ valid_selected_idx = selected_idx
                   /\ selected_idx \in valid_i
    BY DEF valid_o, valid_selected_idx
  <2> QED
    BY <1>1, <1>2, <2>1, <2>2, <2>3, <2>4, <2>5
<1>3. CASE ~lock_q
  <2>1. arb_req = valid_i /\ valid_d = valid_i
    BY <1>3 DEF IInv, LockInv, arb_req, ArbRequests, valid_d
  <2>2. valid_i # {} => selected_idx \in valid_i
    BY <1>1, <2>1, TreeSelects DEF selected_idx
  <2>3. owner = NoOwner
    BY <1>3 DEF IInv, OwnerInv
  <2>4. valid_o => valid_i # {} /\ valid_selected_idx = selected_idx
                   /\ selected_idx \in valid_i
    BY DEF valid_o, valid_selected_idx
  <2> QED
    BY <1>1, <1>3, <2>1, <2>2, <2>3, <2>4
<1> QED
  BY <1>1, <1>2, <1>3

\* The environment: flits in waiting stay, a packet under way keeps its length.
LEMMA OfferKeeps ==
    ASSUME NEW waiting \in SUBSET Inputs,
           NEW remaining \in [Inputs -> 0 .. MaxLen],
           \A i \in waiting : remaining[i] > 0,
           Offer(waiting, remaining)
    PROVE  /\ valid_i' \in SUBSET Inputs
           /\ waiting \subseteq valid_i'
           /\ left' \in [Inputs -> 0 .. MaxLen]
           /\ \A i \in valid_i' : left'[i] > 0
           /\ \A i \in Inputs : remaining[i] > 0 => left'[i] = remaining[i]
<1>1. PICK raise \in SUBSET (Inputs \ waiting) :
         /\ valid_i' = waiting \cup raise
         /\ \E len \in [raise -> 1 .. MaxLen] :
               left' = [i \in Inputs |-> IF i \in raise /\ remaining[i] = 0
                                         THEN len[i] ELSE remaining[i]]
  BY DEF Offer
<1>2. PICK len \in [raise -> 1 .. MaxLen] :
         left' = [i \in Inputs |-> IF i \in raise /\ remaining[i] = 0
                                   THEN len[i] ELSE remaining[i]]
  BY <1>1
<1>3. valid_i' \in SUBSET Inputs /\ waiting \subseteq valid_i'
  BY <1>1
<1>4. ASSUME NEW i \in Inputs
      PROVE  /\ left'[i] \in 0 .. MaxLen
             /\ i \in valid_i' => left'[i] > 0
             /\ remaining[i] > 0 => left'[i] = remaining[i]
  <2>1. CASE i \in raise /\ remaining[i] = 0
    <3>1. left'[i] = len[i] /\ len[i] \in 1 .. MaxLen
      BY <1>2, <2>1
    <3> QED
      BY <3>1, <2>1, MaxLenAssumption
  <2>2. CASE ~ (i \in raise /\ remaining[i] = 0)
    <3>1. left'[i] = remaining[i] /\ remaining[i] \in 0 .. MaxLen
      BY <1>2, <2>2
    <3>2. i \in valid_i' => remaining[i] > 0
      BY <1>1, <2>2, <3>1, MaxLenAssumption
    <3> QED
      BY <3>1, <3>2
  <2> QED
    BY <2>1, <2>2
<1>5. left' \in [Inputs -> 0 .. MaxLen]
  <2>1. left' = [i \in Inputs |-> left'[i]]
    BY <1>2
  <2> QED
    BY <2>1, <1>4
<1> QED
  BY <1>3, <1>4, <1>5

-----------------------------------------------------------------------------
(* Preservation of the invariant *)

LEMMA InitIInv == Init => IInv
<1> SUFFICES ASSUME Init PROVE IInv
  OBVIOUS
<1>1. 0 \in Inputs /\ MaxLen \in Nat /\ 0 \in 0 .. MaxLen
  BY NumInAssumption, MaxLenAssumption DEF Inputs, Requesters
<1>2. TypeOK
  BY <1>1 DEF Init, TypeOK
<1>3. LockInv /\ OfferInv /\ OwnerInv /\ OvertakenInv
  BY DEF Init, LockInv, OfferInv, OwnerInv, OvertakenInv
<1> QED
  BY <1>2, <1>3 DEF IInv

\* The clock edge keeps the lock and the sampled requests in agreement.
LEMMA ClockStep ==
    ASSUME IInv, NEW r \in BOOLEAN, Clock(r)
    PROVE  /\ valid_q' \in SUBSET Inputs /\ req_q' \in SUBSET Inputs
           /\ last_q' \in BOOLEAN /\ lock_q' \in BOOLEAN
           /\ rr_q' \in Inputs
           /\ LockInv'
<1>1. arb_req \in SUBSET Inputs /\ arb_req = valid_d
  BY Selection
<1>2. rr_q \in Inputs
  BY DEF IInv, TypeOK
<1>3. ASSUME arb_req # {} PROVE NextPointer(arb_req, rr_q) \in Inputs
  BY <1>1, <1>2, <1>3, NextPointerType DEF Inputs
<1>4. last_out \in BOOLEAN
  BY DEF last_out, valid_o
<1>5. rr_q' \in Inputs
  BY <1>2, <1>3 DEF Clock
<1>6. LockInv'
  BY <1>1, <1>4 DEF Clock, LockInv, gnt_i
<1> QED
  BY <1>1, <1>4, <1>5, <1>6 DEF Clock, gnt_i

\* A cycle that completes no packet keeps the arbitration.
LEMMA NoGrant ==
    ASSUME IInv, NEW r \in BOOLEAN, Clock(r), ~ gnt_i(r)
    PROVE  /\ rr_q' = rr_q /\ req_q' = arb_req
           /\ lock_q' = (arb_req # {})
BY Selection DEF Clock

\* Cycles in which no flit leaves.
LEMMA QuietStep ==
    ASSUME IInv, NEW r \in BOOLEAN, Clock(r), ~ gnt_i(r),
           Offer(valid_i, left), UNCHANGED <<owner, overtaken>>
    PROVE  IInv'
<1>1. /\ valid_i \in SUBSET Inputs /\ left \in [Inputs -> 0 .. MaxLen]
      /\ \A i \in valid_i : left[i] > 0
      /\ owner \in Inputs \cup {NoOwner}
  BY DEF IInv, TypeOK, OfferInv
<1>2. /\ valid_i' \in SUBSET Inputs /\ valid_i \subseteq valid_i'
      /\ left' \in [Inputs -> 0 .. MaxLen]
      /\ \A i \in valid_i' : left'[i] > 0
      /\ \A i \in Inputs : left[i] > 0 => left'[i] = left[i]
  BY <1>1, OfferKeeps
<1>3. TypeOK'
  BY <1>2, ClockStep DEF IInv, TypeOK
<1>4. LockInv'
  BY ClockStep
<1>5. /\ rr_q' = rr_q /\ req_q' = arb_req /\ lock_q' = (arb_req # {})
      /\ owner' = owner /\ overtaken' = overtaken
  BY NoGrant
<1>6. \A i \in arb_req : i \in valid_i \/ owner = i
  BY Selection DEF IInv, OfferInv
<1>7. OfferInv'
  BY <1>2, <1>5, <1>6 DEF OfferInv
<1>8. OwnerInv'
  BY <1>1, <1>2, <1>5, Selection DEF IInv, OwnerInv, selected_idx
<1>9. OvertakenInv'
  <2> SUFFICES ASSUME NEW i \in Inputs, overtaken[i] # 0
               PROVE  /\ lock_q' => i \in req_q'
                      /\ i \in valid_i' \/ owner = i
                      /\ overtaken[i] + Gap(rr_q, i) <= NumIn
    BY <1>5 DEF OvertakenInv, Gap
  <2>1. /\ lock_q => i \in req_q
        /\ i \in valid_i \/ owner = i
        /\ overtaken[i] + Gap(rr_q, i) <= NumIn
    BY DEF IInv, OvertakenInv
  <2>2. i \in arb_req
    <3>1. CASE lock_q
      BY <2>1, <3>1, Selection
    <3>2. CASE ~lock_q
      <4>1. owner = NoOwner /\ arb_req = valid_i
        BY <3>2, Selection DEF IInv, OwnerInv
      <4> QED
        BY <2>1, <4>1, NoOwnerIsNoInput
    <3> QED
      BY <3>1, <3>2
  <2> QED
    BY <1>2, <1>5, <2>1, <2>2
<1> QED
  BY <1>3, <1>4, <1>7, <1>8, <1>9 DEF IInv

\* A flit that is not the last of its packet leaves.
LEMMA PassStep ==
    ASSUME IInv, NEW i \in Inputs, Pass(i)
    PROVE  IInv'
<1>0. /\ valid_o /\ i = selected_idx /\ i \in valid_i /\ left[i] # 1
      /\ Clock(TRUE) /\ ~ gnt_i(TRUE)
      /\ Offer(valid_i \ {i}, [left EXCEPT ![i] = @ - 1])
      /\ owner' = i /\ overtaken' = overtaken
  BY Selection DEF Pass, Accept, last_out, gnt_i
<1> DEFINE remaining == [left EXCEPT ![i] = @ - 1]
<1>1. /\ valid_i \in SUBSET Inputs /\ left \in [Inputs -> 0 .. MaxLen]
      /\ \A j \in valid_i : left[j] > 0
      /\ overtaken \in [Inputs -> Nat]
  BY DEF IInv, TypeOK, OfferInv
<1>2. /\ remaining \in [Inputs -> 0 .. MaxLen]
      /\ \A j \in Inputs \ {i} : remaining[j] = left[j]
      /\ remaining[i] > 0
  BY <1>0, <1>1, MaxLenAssumption
<1> HIDE DEF remaining
<1>3. /\ valid_i' \in SUBSET Inputs /\ valid_i \ {i} \subseteq valid_i'
      /\ left' \in [Inputs -> 0 .. MaxLen]
      /\ \A j \in valid_i' : left'[j] > 0
      /\ left'[i] > 0
  <2>1. Offer(valid_i \ {i}, remaining)
    BY <1>0 DEF remaining
  <2>2. valid_i \ {i} \in SUBSET Inputs /\ \A j \in valid_i \ {i} : remaining[j] > 0
    BY <1>1, <1>2
  <2> QED
    BY <1>2, <2>1, <2>2, OfferKeeps
<1>4. /\ rr_q' = rr_q /\ req_q' = arb_req /\ lock_q' = (arb_req # {})
  BY <1>0, NoGrant
<1>5. arb_req \in SUBSET Inputs /\ i \in arb_req /\ Tree[arb_req, rr_q] = i
  BY <1>0, Selection DEF selected_idx
<1>6. \A j \in arb_req : j \in valid_i \/ j = i
  BY <1>0, Selection DEF IInv, OfferInv
<1>7. TypeOK'
  BY <1>0, <1>1, <1>3, ClockStep DEF TypeOK
<1>8. LockInv'
  BY <1>0, ClockStep
<1>9. OfferInv'
  BY <1>0, <1>3, <1>4, <1>6 DEF OfferInv
<1>10. OwnerInv'
  BY <1>0, <1>3, <1>4, <1>5 DEF OwnerInv
<1>11. OvertakenInv'
  <2> SUFFICES ASSUME NEW j \in Inputs, overtaken[j] # 0
               PROVE  /\ lock_q' => j \in req_q'
                      /\ j \in valid_i' \/ owner' = j
                      /\ overtaken[j] + Gap(rr_q, j) <= NumIn
    BY <1>0, <1>4 DEF OvertakenInv, Gap
  <2>1. /\ lock_q => j \in req_q
        /\ j \in valid_i \/ owner = j
        /\ overtaken[j] + Gap(rr_q, j) <= NumIn
    BY DEF IInv, OvertakenInv
  <2>2. owner = NoOwner \/ owner = i
    BY <1>0, Selection
  <2>3. j \in valid_i
    BY <1>0, <2>1, <2>2, NoOwnerIsNoInput
  <2>4. j \in arb_req
    BY <2>1, <2>3, Selection
  <2> QED
    BY <1>0, <1>3, <1>4, <2>1, <2>3, <2>4
<1> QED
  BY <1>7, <1>8, <1>9, <1>10, <1>11 DEF IInv

\* The last flit of a packet leaves.
LEMMA FinishStep ==
    ASSUME IInv, NEW i \in Inputs, Finish(i)
    PROVE  IInv'
<1>0. /\ valid_o /\ i = selected_idx /\ i \in valid_i
      /\ Clock(TRUE) /\ gnt_i(TRUE)
      /\ Offer(valid_i \ {i}, [left EXCEPT ![i] = @ - 1])
      /\ owner' = NoOwner
      /\ overtaken' = [j \in Inputs |-> IF j \in valid_i \ {i}
                                        THEN CountUp(overtaken[j]) ELSE 0]
  BY Selection DEF Finish, Accept, last_out, gnt_i, Overtake
<1> DEFINE remaining == [left EXCEPT ![i] = @ - 1]
<1>1. /\ valid_i \in SUBSET Inputs /\ left \in [Inputs -> 0 .. MaxLen]
      /\ \A j \in valid_i : left[j] > 0
      /\ overtaken \in [Inputs -> Nat] /\ rr_q \in Inputs
  BY DEF IInv, TypeOK, OfferInv
<1>12. \A j \in Inputs : CountUp(overtaken[j]) = overtaken[j] + 1
  <2> SUFFICES ASSUME NEW j \in Inputs PROVE overtaken[j] <= NumRoutes
    BY <1>1, NumInAssumption DEF CountUp, NumRoutes
  <2>1. NumIn \in Nat /\ Gap(rr_q, j) \in 0 .. NumIn - 1
    BY <1>1, NumInAssumption DEF Gap, Inputs, Requesters
  <2>2. overtaken[j] = 0 \/ overtaken[j] + Gap(rr_q, j) <= NumIn
    BY DEF IInv, OvertakenInv
  <2> QED
    BY <1>1, <2>1, <2>2 DEF NumRoutes
<1>2. /\ remaining \in [Inputs -> 0 .. MaxLen]
      /\ \A j \in Inputs \ {i} : remaining[j] = left[j]
  BY <1>0, <1>1, MaxLenAssumption
<1> HIDE DEF remaining
<1>3. /\ valid_i' \in SUBSET Inputs /\ valid_i \ {i} \subseteq valid_i'
      /\ left' \in [Inputs -> 0 .. MaxLen]
      /\ \A j \in valid_i' : left'[j] > 0
  <2>1. Offer(valid_i \ {i}, remaining)
    BY <1>0 DEF remaining
  <2>2. valid_i \ {i} \in SUBSET Inputs /\ \A j \in valid_i \ {i} : remaining[j] > 0
    BY <1>1, <1>2
  <2> QED
    BY <1>2, <2>1, <2>2, OfferKeeps
<1>4. arb_req \in SUBSET Inputs /\ i \in arb_req /\ Tree[arb_req, rr_q] = i
  BY <1>0, Selection DEF selected_idx
<1>5. lock_q' = FALSE /\ rr_q' = NextPointer(arb_req, rr_q)
  BY <1>0, <1>4 DEF Clock
<1>6. overtaken' \in [Inputs -> Nat]
  BY <1>0, <1>1, <1>12
<1>7. TypeOK'
  BY <1>0, <1>3, <1>6, ClockStep DEF TypeOK
<1>8. LockInv'
  BY <1>0, ClockStep
<1>9. OfferInv' /\ OwnerInv'
  BY <1>0, <1>3, <1>5 DEF OfferInv, OwnerInv
<1>10. OvertakenInv'
  <2> SUFFICES ASSUME NEW j \in Inputs, overtaken'[j] # 0
               PROVE  /\ j \in valid_i'
                      /\ overtaken'[j] + Gap(rr_q', j) <= NumIn
    BY <1>5 DEF OvertakenInv, Gap
  <2>1. j \in valid_i \ {i} /\ overtaken'[j] = overtaken[j] + 1
    BY <1>0, <1>12
  <2>2. rr_q' \in Inputs
    BY <1>0, ClockStep
  <2>3. NumIn \in Nat /\ \A k, l \in Inputs : Gap(k, l) \in 0 .. NumIn - 1
    BY NumInAssumption DEF Gap, Inputs, Requesters
  <2>4. CASE overtaken[j] = 0
    BY <1>3, <2>1, <2>2, <2>3, <2>4
  <2>5. CASE overtaken[j] # 0
    <3>1. /\ lock_q => j \in req_q
          /\ overtaken[j] + Gap(rr_q, j) <= NumIn
      BY <2>5 DEF IInv, OvertakenInv
    <3>2. j \in arb_req
      BY <2>1, <3>1, Selection
    <3>3. j # rr_q
      BY <1>1, <1>4, <2>1, <3>2, TreeSelects
    <3>4. Gap(rr_q', j) < Gap(rr_q, j)
      BY <1>1, <1>4, <1>5, <3>2, <3>3, NextPointerCloser DEF Inputs
    <3> QED
      BY <1>1, <1>3, <2>1, <2>2, <2>3, <3>1, <3>4
  <2> QED
    BY <2>4, <2>5
<1> QED
  BY <1>7, <1>8, <1>9, <1>10 DEF IInv

LEMMA StepIInv == IInv /\ [Next]_vars => IInv'
<1> SUFFICES ASSUME IInv, [Next]_vars PROVE IInv'
  OBVIOUS
<1>1. CASE Idle
  <2>1. Clock(TRUE) /\ ~ gnt_i(TRUE) /\ Offer(valid_i, left)
        /\ UNCHANGED <<owner, overtaken>>
    BY <1>1 DEF Idle, gnt_i, last_out
  <2> QED
    BY <2>1, QuietStep
<1>2. CASE Stall
  <2>1. Clock(FALSE) /\ ~ gnt_i(FALSE) /\ Offer(valid_i, left)
        /\ UNCHANGED <<owner, overtaken>>
    BY <1>2 DEF Stall, gnt_i
  <2> QED
    BY <2>1, QuietStep
<1>3. CASE \E i \in Inputs : Pass(i)
  BY <1>3, PassStep
<1>4. CASE \E i \in Inputs : Finish(i)
  BY <1>4, FinishStep
<1>5. CASE UNCHANGED vars
  BY <1>5 DEF vars, regs, IInv, TypeOK, LockInv, OfferInv, OwnerInv, OvertakenInv, Gap
<1> QED
  BY <1>1, <1>2, <1>3, <1>4, <1>5 DEF Next

-----------------------------------------------------------------------------
(* The theorems *)

LEMMA Invariance == Spec => []IInv
BY InitIInv, StepIInv, PTL DEF Spec

\* The registers and the offered flits keep their types in every reachable
\* state (the signal declarations of floo_wormhole_arbiter).
THEOREM TypeCorrect == Spec => []TypeOK
<1>1. IInv => TypeOK
  BY DEF IInv
<1> QED
  BY <1>1, Invariance, PTL

\* FairArb and LockIn: whatever the inputs do, at most NumRoutes packets of
\* other inputs pass while an input waits.
THEOREM OvertakingBounded == Spec => []BoundedOvertaking
<1>1. IInv => BoundedOvertaking
  <2> SUFFICES ASSUME IInv, NEW i \in Inputs PROVE overtaken[i] <= NumRoutes
    BY DEF BoundedOvertaking
  <2>1. overtaken[i] \in Nat /\ rr_q \in Inputs
    BY DEF IInv, TypeOK
  <2>2. NumIn \in Nat /\ Gap(rr_q, i) \in 0 .. NumIn - 1
    BY <2>1, NumInAssumption DEF Gap, Inputs, Requesters
  <2>3. overtaken[i] = 0 \/ overtaken[i] + Gap(rr_q, i) <= NumIn
    BY DEF IInv, OvertakenInv
  <2> QED
    BY <2>1, <2>2, <2>3 DEF NumRoutes
<1> QED
  BY <1>1, Invariance, PTL

\* The sampled requests never leave the link idle between two packets while a
\* flit is offered (proc_valid samples again after every last flit).
THEOREM NoIdleBetweenPackets == Spec => []WorkConserving
<1>1. IInv => WorkConserving
  <2> SUFFICES ASSUME IInv, owner = NoOwner, valid_i # {} PROVE valid_o
    BY DEF WorkConserving
  <2> QED
    BY Selection DEF valid_o, valid_selected_idx
<1> QED
  BY <1>1, Invariance, PTL

\* A flit that is offered and not accepted is offered again from the same
\* input: StableValidOut of the router holds at the arbiter's output.
THEOREM OutputIsStable == Spec => StableOutput
<1>1. IInv /\ [Next]_vars =>
        [Stall => valid_o' /\ valid_selected_idx' = valid_selected_idx]_vars
  <2> SUFFICES ASSUME IInv, IInv', Stall
               PROVE  valid_o' /\ valid_selected_idx' = valid_selected_idx
    BY StepIInv
  <2>1. valid_o /\ Clock(FALSE) /\ ~ gnt_i(FALSE) /\ Offer(valid_i, left)
    BY DEF Stall, gnt_i
  <2>2. rr_q' = rr_q /\ req_q' = arb_req /\ lock_q' = (arb_req # {})
    BY <2>1, NoGrant
  <2>3. /\ valid_selected_idx = selected_idx /\ selected_idx \in valid_i
        /\ arb_req # {}
    BY <2>1, Selection
  <2>4. arb_req' = arb_req
    BY <2>2, <2>3 DEF ArbRequests, arb_req
  <2>5. selected_idx' = selected_idx
    BY <2>2, <2>4 DEF selected_idx
  <2>6. valid_i \subseteq valid_i'
    BY <2>1 DEF Offer
  <2> QED
    BY <2>3, <2>5, <2>6 DEF valid_o, valid_selected_idx
<1> QED
  BY <1>1, Invariance, PTL DEF Spec, StableOutput

\* Wormhole switching: the arbiter implements PacketLink, so the flits of two
\* packets are never interleaved on its output and none is lost.
THEOREM ImplementsPacketLink == Spec => OnePacketAtATime
<1> DEFINE rest == IF owner = NoOwner THEN 0 ELSE left[owner]
<1>1. Init => Link!Init
  BY DEF Init, Link!Init
<1>2. IInv /\ [Next]_vars => [Link!Next]_(Link!link)
  <2> SUFFICES ASSUME IInv, [Next]_vars
               PROVE  Link!Next \/ UNCHANGED <<owner, rest>>
    BY DEF Link!link
  <2>0. /\ valid_i \in SUBSET Inputs /\ left \in [Inputs -> 0 .. MaxLen]
        /\ \A i \in valid_i : left[i] > 0
        /\ owner \in Inputs \cup {NoOwner}
        /\ owner # NoOwner => left[owner] > 0
    BY DEF IInv, TypeOK, OfferInv, OwnerInv
  <2>1. ASSUME Offer(valid_i, left), owner' = owner
        PROVE  UNCHANGED <<owner, rest>>
    <3>1. \A i \in Inputs : left[i] > 0 => left'[i] = left[i]
      BY <2>0, <2>1, OfferKeeps
    <3> QED
      BY <2>0, <2>1, <3>1
  <2>2. ASSUME NEW i \in Inputs, Accept(i)
        PROVE  /\ left[i] \in 1 .. MaxLen
               /\ owner = NoOwner \/ owner = i
               /\ last_out = (left[i] = 1)
               /\ left[i] > 1 => left'[i] = left[i] - 1
    <3>1. /\ valid_o /\ i = selected_idx /\ i \in valid_i
          /\ valid_selected_idx = i
          /\ Offer(valid_i \ {i}, [left EXCEPT ![i] = @ - 1])
      BY <2>2, Selection DEF Accept
    <3>2. left[i] \in 1 .. MaxLen
      BY <2>0, <3>1, MaxLenAssumption
    <3>3. owner = NoOwner \/ owner = i
      BY <3>1, Selection
    <3>4. last_out = (left[i] = 1)
      BY <3>1 DEF last_out
    <3> DEFINE remaining == [left EXCEPT ![i] = @ - 1]
    <3>5. /\ remaining \in [Inputs -> 0 .. MaxLen] /\ remaining[i] = left[i] - 1
          /\ \A j \in valid_i \ {i} : remaining[j] > 0
      BY <2>0, <3>2, MaxLenAssumption
    <3>6. Offer(valid_i \ {i}, remaining) /\ valid_i \ {i} \in SUBSET Inputs
      BY <2>0, <3>1
    <3> HIDE DEF remaining
    <3>7. remaining[i] > 0 => left'[i] = remaining[i]
      BY <3>5, <3>6, OfferKeeps
    <3> QED
      BY <3>2, <3>3, <3>4, <3>5, <3>7
  <2>3. ASSUME NEW i \in Inputs, Pass(i) PROVE Link!Next
    <3>1. Accept(i) /\ ~last_out /\ owner' = i
      BY <2>3 DEF Pass
    <3>2. left[i] \in 2 .. MaxLen /\ rest' = left[i] - 1
      <4>1. left[i] \in 1 .. MaxLen /\ left[i] # 1
        BY <2>2, <3>1
      <4>2. left[i] \in 2 .. MaxLen
        BY <4>1, MaxLenAssumption
      <4>3. left'[i] = left[i] - 1
        BY <2>2, <3>1, <4>2
      <4> QED
        BY <3>1, <4>2, <4>3, NoOwnerIsNoInput
    <3>3. CASE owner = NoOwner
      <4>1. Link!Head(i, left[i])
        BY <3>1, <3>2, <3>3 DEF Link!Head
      <4> QED
        BY <4>1, <3>2 DEF Link!Next
    <3>4. CASE owner = i
      <4>1. Link!Body(i)
        BY <3>1, <3>2, <3>4, NoOwnerIsNoInput DEF Link!Body
      <4> QED
        BY <4>1 DEF Link!Next
    <3> QED
      BY <2>2, <3>1, <3>3, <3>4
  <2>4. ASSUME NEW i \in Inputs, Finish(i) PROVE Link!Next
    <3>1. Accept(i) /\ last_out /\ owner' = NoOwner
      BY <2>4 DEF Finish
    <3>2. left[i] = 1 /\ rest' = 0 /\ 1 \in 1 .. MaxLen
      BY <2>2, <3>1, MaxLenAssumption
    <3>3. CASE owner = NoOwner
      <4>1. Link!Head(i, 1)
        BY <3>1, <3>2, <3>3 DEF Link!Head
      <4> QED
        BY <4>1, <3>2 DEF Link!Next
    <3>4. CASE owner = i
      <4>1. Link!Body(i)
        BY <3>1, <3>2, <3>4, NoOwnerIsNoInput DEF Link!Body
      <4> QED
        BY <4>1 DEF Link!Next
    <3> QED
      BY <2>2, <3>1, <3>3, <3>4
  <2>5. CASE Idle
    BY <2>1, <2>5 DEF Idle
  <2>6. CASE Stall
    BY <2>1, <2>6 DEF Stall
  <2>7. CASE UNCHANGED vars
    BY <2>7 DEF vars
  <2> QED
    BY <2>3, <2>4, <2>5, <2>6, <2>7 DEF Next
<1> QED
  BY <1>1, <1>2, Invariance, PTL DEF Spec, OnePacketAtATime, Link!Spec

=============================================================================
