-------------------------- MODULE RobWrapperProofs --------------------------
(***************************************************************************)
(* Proofs about two alternatives of floo_rob_wrapper, which serve the same  *)
(* ports: NoRob, which stalls, and SimpleRob, which buffers responses.      *)
(*                                                                         *)
(* NoRob, for any numbers of IDs, destinations, requests and beats: the     *)
(* counters of the requests in flight are exact, and stalling keeps the     *)
(* order of responses, with no buffer to restore it.                        *)
(*                                                                         *)
(* SimpleRob, for any numbers of IDs, destinations, requests and slots, for *)
(* requests of one beat: more are outside its contract                      *)
(* (hw/floo_simple_rob.sv:217).                                             *)
(***************************************************************************)
EXTENDS RobWrapper, RobPortsProofs

-----------------------------------------------------------------------------
(* Stalling: NoRob *)

NoRobFlits == [beat : Beats, tag : {0}]

-----------------------------------------------------------------------------
(* Counting requests by their last beats *)

Lasts(q) == {k \in 1 .. Len(q) : q[k].last}

\* The beats in q are whole bursts, but for the beginning of the first one.
Whole(q) == q # <<>> => q[Len(q)].last

LEMMA LastsFinite ==
    ASSUME NEW q \in Seq(Beats)
    PROVE  IsFiniteSet(Lasts(q)) /\ Cardinality(Lasts(q)) \in Nat
<1>1. Len(q) \in Nat /\ IsFiniteSet(1 .. Len(q))
  BY LenProperties, FS_Interval
<1>2. Lasts(q) \in SUBSET (1 .. Len(q))
  BY DEF Lasts
<1>3. IsFiniteSet(Lasts(q))
  BY <1>1, <1>2, FS_Subset
<1> QED
  BY <1>3, FS_CardinalityType

\* No requests are counted if and only if no beats are owed.
LEMMA LastsNone ==
    ASSUME NEW q \in Seq(Beats), Whole(q)
    PROVE  Cardinality(Lasts(q)) = 0 <=> q = <<>>
<1>1. Cardinality(Lasts(q)) = 0 <=> Lasts(q) = {}
  BY LastsFinite, FS_EmptySet
<1>2. q = <<>> => Lasts(q) = {}
  BY EmptySeq DEF Lasts
<1>3. ASSUME q # <<>> PROVE Lasts(q) # {}
  <2>1. Len(q) \in 1 .. Len(q)
    BY <1>3, EmptySeq
  <2> QED
    BY <2>1, <1>3 DEF Lasts, Whole
<1> QED
  BY <1>1, <1>2, <1>3

\* A beat that is given is counted if it is a last one.
LEMMA LastsTail ==
    ASSUME NEW q \in Seq(Beats), q # <<>>, Whole(q)
    PROVE  /\ Whole(Tail(q))
           /\ Cardinality(Lasts(Tail(q)))
                 = Cardinality(Lasts(q)) - (IF q[1].last THEN 1 ELSE 0)
<1>1. /\ Len(q) \in Nat \ {0} /\ Tail(q) \in Seq(Beats)
      /\ Len(Tail(q)) = Len(q) - 1
      /\ \A i \in 1 .. Len(q) - 1 : Tail(q)[i] = q[i + 1]
  BY HeadTailProperties, EmptySeq
<1>2. Whole(Tail(q))
  <2> SUFFICES ASSUME Tail(q) # <<>> PROVE Tail(q)[Len(Tail(q))].last
    BY DEF Whole
  <2>1. Len(Tail(q)) \in Nat \ {0}
    BY <1>1, EmptySeq
  <2>2. Tail(q)[Len(Tail(q))] = q[Len(q)]
    BY <2>1, <1>1
  <2> QED
    BY <2>2 DEF Whole
<1> DEFINE T == Lasts(q) \ {1}
           U == Lasts(Tail(q))
           f == [k \in U |-> k + 1]
<1>3. \A k \in U : k \in 1 .. Len(q) - 1 /\ k + 1 \in T
  BY <1>1 DEF Lasts
<1>4. \A k \in T : k - 1 \in U /\ k - 1 + 1 = k
  <2> TAKE k \in T
  <2>1. k \in 2 .. Len(q) /\ q[k].last
    BY <1>1 DEF Lasts
  <2>2. k - 1 \in 1 .. Len(q) - 1 /\ k - 1 + 1 = k
    BY <2>1, <1>1
  <2>3. Tail(q)[k - 1].last
    BY <2>1, <2>2, <1>1
  <2> QED
    BY <2>2, <2>3, <1>1 DEF Lasts
<1>5. f \in Bijection(U, T)
  <2> HIDE DEF U, T
  <2>1. f \in [U -> T]
    BY <1>3
  <2>2. \A a, b \in U : f[a] = f[b] => a = b
    BY <1>3
  <2>3. \A t \in T : \E a \in U : f[a] = t
    BY <1>4
  <2> QED
    BY <2>1, <2>2, <2>3 DEF Bijection, Injection, Surjection, IsInjective
<1>6. IsFiniteSet(U) /\ Cardinality(T) = Cardinality(U)
  <2>1. IsFiniteSet(U)
    BY <1>1, LastsFinite
  <2>2. ExistsBijection(U, T)
    BY <1>5 DEF ExistsBijection
  <2> HIDE DEF U, T
  <2> QED
    BY <2>1, <2>2, FS_Bijection
<1>7. Cardinality(T) = IF 1 \in Lasts(q) THEN Cardinality(Lasts(q)) - 1
                       ELSE Cardinality(Lasts(q))
  BY LastsFinite, FS_RemoveElement
<1>8. 1 \in Lasts(q) <=> q[1].last
  BY <1>1 DEF Lasts
<1>9. Cardinality(Lasts(q)) \in Nat
  BY LastsFinite
<1> HIDE DEF T, U
<1>10. Cardinality(U) = Cardinality(Lasts(q)) - (IF q[1].last THEN 1 ELSE 0)
  BY <1>6, <1>7, <1>8, <1>9
<1> QED
  BY <1>2, <1>10 DEF U

\* A burst counts once.
LEMMA LastsBurst ==
    ASSUME NEW q \in Seq(Beats), NEW b \in Seq(Beats), b # <<>>,
           \A k \in 1 .. Len(b) : b[k].last <=> k = Len(b)
    PROVE  /\ Whole(q \o b)
           /\ Cardinality(Lasts(q \o b)) = Cardinality(Lasts(q)) + 1
<1> DEFINE qb == q \o b
           n == Len(q) + Len(b)
<1>1. /\ qb \in Seq(Beats) /\ Len(qb) = Len(q) + Len(b)
      /\ Len(q) \in Nat /\ Len(b) \in Nat \ {0}
      /\ \A i \in 1 .. Len(q) : qb[i] = q[i]
      /\ \A i \in 1 .. Len(b) : qb[Len(q) + i] = b[i]
  BY ConcatElements, EmptySeq
<1> HIDE DEF qb
<1>2. qb[n].last /\ n \in 1 .. Len(qb)
  <2>1. Len(b) \in 1 .. Len(b)
    BY <1>1
  <2> QED
    BY <2>1, <1>1
<1>3. Whole(qb)
  BY <1>1, <1>2 DEF Whole
<1>4. Lasts(qb) = Lasts(q) \cup {n}
  <2>1. ASSUME NEW k \in Lasts(qb), k # n PROVE k \in Lasts(q)
    <3>1. k \in 1 .. Len(qb) /\ qb[k].last
      BY DEF Lasts
    <3>2. CASE k \in 1 .. Len(q)
      BY <3>1, <3>2, <1>1 DEF Lasts
    <3>3. CASE k \notin 1 .. Len(q)
      <4>1. k - Len(q) \in 1 .. Len(b) /\ Len(q) + (k - Len(q)) = k /\ k - Len(q) # Len(b)
        BY <3>1, <3>3, <2>1, <1>1
      <4>2. qb[k] = b[k - Len(q)]
        BY <4>1, <1>1
      <4> QED
        BY <3>1, <4>1, <4>2
    <3> QED
      BY <3>2, <3>3
  <2>2. ASSUME NEW k \in Lasts(q) PROVE k \in Lasts(qb)
    <3>1. k \in 1 .. Len(q) /\ q[k].last
      BY DEF Lasts
    <3>2. k \in 1 .. Len(qb) /\ qb[k] = q[k]
      BY <3>1, <1>1
    <3> QED
      BY <3>1, <3>2 DEF Lasts
  <2>3. n \in Lasts(qb)
    BY <1>2 DEF Lasts
  <2> QED
    BY <2>1, <2>2, <2>3
<1>5. n \notin Lasts(q)
  BY <1>1 DEF Lasts
<1>6. Cardinality(Lasts(q) \cup {n}) = Cardinality(Lasts(q)) + 1
  <2> HIDE DEF n
  <2> QED
    BY <1>5, LastsFinite, FS_AddElement
<1>7. Whole(qb) /\ Cardinality(Lasts(qb)) = Cardinality(Lasts(q)) + 1
  BY <1>3, <1>4, <1>6
<1> QED
  BY <1>7 DEF qb

-----------------------------------------------------------------------------
(* The invariant *)

\* The counters c are exact, all the beats owed to an ID are queued at the
\* destination that sel has for it, in order, and no others are queued.
Good(c, sel, n, o) ==
    /\ c \in [Ids -> Nat] /\ sel \in [Ids -> Dests]
    /\ n \in [Dests -> Seq(NoRobFlits)] /\ o \in [Ids -> Seq(Beats)]
    /\ \A id \in Ids : Whole(o[id]) /\ c[id] = Cardinality(Lasts(o[id]))
    /\ \A id \in Ids, d \in Dests :
          Merged(id, IF d = sel[id] THEN o[id] ELSE <<>>, n[d])

NoRobInv ==
    /\ Good(in_flight_cnt, mst_select_q, net, owed)
    /\ \A id \in Ids : in_flight_cnt[id] <= CounterMax
    /\ AxInv
    /\ RspInv

\* x is the first beat of d and the first that its ID waits for.
First(d, x, sel, n, o) ==
    /\ x \in Beats /\ x.id \in Ids /\ sel[x.id] = d
    /\ n[d] \in Seq(NoRobFlits) /\ n[d] # <<>> /\ n[d][1].beat = x
    /\ o[x.id] \in Seq(Beats) /\ o[x.id] # <<>>
    /\ o[x.id][1] = x /\ Head(o[x.id]) = x
    /\ Merged(x.id, Tail(o[x.id]), Tail(n[d]))

\* What remains when it is given; it counts if it is a last one.
NoRobTaken(d, x, c, n, o, c2, n2, o2) ==
    /\ c2 \in [Ids -> Int]
    /\ \A id \in Ids : c2[id] = c[id] - (IF id = x.id /\ x.last THEN 1 ELSE 0)
    /\ n2 \in [Dests -> Seq(NoRobFlits)]
    /\ \A e \in Dests : n2[e] = IF e = d THEN Tail(n[d]) ELSE n[e]
    /\ o2 \in [Ids -> Seq(Beats)]
    /\ \A id \in Ids : o2[id] = IF id = x.id THEN Tail(o[id]) ELSE o[id]

LEMMA FirstBeat ==
    ASSUME NEW c, NEW sel, NEW n, NEW o, NEW d \in Dests,
           Good(c, sel, n, o), n[d] # <<>>
    PROVE  First(d, Head(n[d]).beat, sel, n, o)
<1> DEFINE x == Head(n[d]).beat
<1>1. /\ c \in [Ids -> Nat] /\ sel \in [Ids -> Dests]
      /\ n \in [Dests -> Seq(NoRobFlits)] /\ o \in [Ids -> Seq(Beats)]
      /\ \A id \in Ids : Whole(o[id]) /\ c[id] = Cardinality(Lasts(o[id]))
      /\ \A id \in Ids, e \in Dests :
            Merged(id, IF e = sel[id] THEN o[id] ELSE <<>>, n[e])
  BY DEF Good
<1>2. n[d] \in Seq(NoRobFlits) /\ n[d][1] \in NoRobFlits /\ x = n[d][1].beat
  <2>1. n[d] \in Seq(NoRobFlits) /\ Len(n[d]) \in Nat \ {0}
    BY <1>1, EmptySeq
  <2>2. 1 \in 1 .. Len(n[d])
    BY <2>1
  <2> QED
    BY <2>1, <2>2, ElementOfSeq
<1> HIDE DEF x
<1>3. x \in Beats /\ x.id \in Ids /\ x.last \in BOOLEAN
  BY <1>2 DEF NoRobFlits, Beats
<1>4. sel[x.id] = d
  <2>1. CASE sel[x.id] # d
    <3>1. Merged(x.id, <<>>, n[d])
      BY <1>1, <1>3, <2>1
    <3>2. 1 \in 1 .. Len(n[d])
      BY <1>1, EmptySeq
    <3> QED
      BY <3>1, <3>2, <1>2, MergedOwed
  <2> QED
    BY <2>1
<1>5. Merged(x.id, o[x.id], n[d])
  BY <1>1, <1>3, <1>4
<1>6. /\ o[x.id] \in Seq(Beats) /\ o[x.id] # <<>> /\ o[x.id][1] = x
      /\ Merged(x.id, Tail(o[x.id]), Tail(n[d]))
  <2>1. o[x.id] \in Seq(Beats)
    BY <1>1, <1>3
  <2> DEFINE q == o[x.id]
             r == n[d]
  <2>2. /\ q \in Seq(Beats) /\ r \in Seq(NoRobFlits) /\ r # <<>>
        /\ r[1].beat.id = x.id /\ Merged(x.id, q, r)
    BY <2>1, <1>2, <1>5
  <2> HIDE DEF q, r
  <2>3. q # <<>> /\ q[1] = r[1].beat /\ Merged(x.id, Tail(q), Tail(r))
    BY <2>2, MergedHead
  <2> QED
    BY <2>1, <2>3, <1>2 DEF q, r
<1>7. Head(o[x.id]) = x
  BY <1>6
<1>8. First(d, x, sel, n, o)
  BY <1>2, <1>3, <1>4, <1>6, <1>7 DEF First
<1> QED
  BY <1>8 DEF x

LEMMA TakeBeat ==
    ASSUME NEW c, NEW sel, NEW n, NEW o, NEW d, NEW x,
           NEW c2, NEW n2, NEW o2,
           Good(c, sel, n, o), First(d, x, sel, n, o), NoRobTaken(d, x, c, n, o, c2, n2, o2)
    PROVE  Good(c2, sel, n2, o2)
<1>0. /\ c2 \in [Ids -> Int]
      /\ \A id \in Ids : c2[id] = c[id] - (IF id = x.id /\ x.last THEN 1 ELSE 0)
      /\ n2 \in [Dests -> Seq(NoRobFlits)]
      /\ \A e \in Dests : n2[e] = IF e = d THEN Tail(n[d]) ELSE n[e]
      /\ o2 \in [Ids -> Seq(Beats)]
      /\ \A id \in Ids : o2[id] = IF id = x.id THEN Tail(o[id]) ELSE o[id]
  BY DEF NoRobTaken
<1>1. /\ c \in [Ids -> Nat] /\ sel \in [Ids -> Dests]
      /\ n \in [Dests -> Seq(NoRobFlits)] /\ o \in [Ids -> Seq(Beats)]
      /\ \A id \in Ids : Whole(o[id]) /\ c[id] = Cardinality(Lasts(o[id]))
      /\ \A id \in Ids, e \in Dests :
            Merged(id, IF e = sel[id] THEN o[id] ELSE <<>>, n[e])
  BY DEF Good
<1>2. /\ x \in Beats /\ x.id \in Ids /\ sel[x.id] = d
      /\ n[d] \in Seq(NoRobFlits) /\ n[d] # <<>> /\ n[d][1].beat = x
      /\ o[x.id] \in Seq(Beats) /\ o[x.id] # <<>> /\ o[x.id][1] = x
      /\ Merged(x.id, Tail(o[x.id]), Tail(n[d]))
  BY DEF First
<1>3. ASSUME NEW id \in Ids
      PROVE  Whole(o2[id]) /\ c2[id] = Cardinality(Lasts(o2[id])) /\ c2[id] \in Nat
  <2>1. CASE id = x.id
    <3>1. /\ Whole(Tail(o[id]))
          /\ Cardinality(Lasts(Tail(o[id])))
                = Cardinality(Lasts(o[id])) - (IF o[id][1].last THEN 1 ELSE 0)
      BY <2>1, <1>0, <1>1, <1>2, LastsTail
    <3>2. o2[id] = Tail(o[id]) /\ o2[id] \in Seq(Beats)
      BY <2>1, <1>0
    <3>3. Cardinality(Lasts(o2[id])) \in Nat
      BY <3>2, LastsFinite
    <3>4. c2[id] = Cardinality(Lasts(o2[id]))
      BY <3>1, <3>2, <2>1, <1>0, <1>1, <1>2
    <3> QED
      BY <3>1, <3>2, <3>3, <3>4
  <2>2. CASE id # x.id
    <3>1. o2[id] = o[id] /\ c2[id] = c[id]
      BY <2>2, <1>0, <1>1
    <3> QED
      BY <3>1, <1>1
  <2> QED
    BY <2>1, <2>2
<1>4. ASSUME NEW id \in Ids, NEW e \in Dests
       PROVE  Merged(id, IF e = sel[id] THEN o2[id] ELSE <<>>, n2[e])
  <2>1. CASE e # d
    <3>1. n2[e] = n[e] /\ (e = sel[id] => o2[id] = o[id])
      BY <2>1, <1>0, <1>2
    <3> QED
      BY <3>1, <1>1
  <2>2. CASE e = d /\ id = x.id
    BY <2>2, <1>0, <1>2
  <2>3. CASE e = d /\ id # x.id
    <3> DEFINE q == IF e = sel[id] THEN o[id] ELSE <<>>
    <3>1. q \in Seq(Beats) /\ Merged(id, q, n[d])
      BY <2>3, <1>1, EmptySeq
    <3> HIDE DEF q
    <3>2. Merged(id, q, Tail(n[d]))
      BY <3>1, <2>3, <1>2, MergedOther
    <3>3. n2[e] = Tail(n[d]) /\ o2[id] = o[id]
      BY <2>3, <1>0
    <3> QED
      BY <3>2, <3>3 DEF q
  <2> QED
    BY <2>1, <2>2, <2>3
<1>5. c2 \in [Ids -> Nat]
  BY <1>0, <1>3
<1> QED
  BY <1>0, <1>1, <1>3, <1>4, <1>5 DEF Good

\* A request of id to d is pushed while none of its ID are in flight, or to the
\* destination of those that are.
LEMMA AddBurst ==
    ASSUME NEW c, NEW sel, NEW n, NEW o, Good(c, sel, n, o),
           NEW id \in Ids, NEW d \in Dests, c[id] = 0 \/ d = sel[id],
           NEW b \in Seq(Beats), b # <<>>,
           \A k \in 1 .. Len(b) : b[k].id = id /\ (b[k].last <=> k = Len(b))
    PROVE  Good([i \in Ids |-> c[i] + (IF i = id THEN 1 ELSE 0)],
                [sel EXCEPT ![id] = d],
                [n EXCEPT ![d] = @ \o [k \in 1 .. Len(b) |-> [beat |-> b[k], tag |-> 0]]],
                [o EXCEPT ![id] = @ \o b])
<1> DEFINE f == [k \in 1 .. Len(b) |-> [beat |-> b[k], tag |-> 0]]
           c2 == [i \in Ids |-> c[i] + (IF i = id THEN 1 ELSE 0)]
           s2 == [sel EXCEPT ![id] = d]
           n2 == [n EXCEPT ![d] = @ \o f]
           o2 == [o EXCEPT ![id] = @ \o b]
<1>1. /\ c \in [Ids -> Nat] /\ sel \in [Ids -> Dests]
      /\ n \in [Dests -> Seq(NoRobFlits)] /\ o \in [Ids -> Seq(Beats)]
      /\ \A i \in Ids : Whole(o[i]) /\ c[i] = Cardinality(Lasts(o[i]))
      /\ \A i \in Ids, e \in Dests :
            Merged(i, IF e = sel[i] THEN o[i] ELSE <<>>, n[e])
  BY DEF Good
<1>2. f \in Seq(NoRobFlits) /\ Len(f) = Len(b)
  <2>1. Len(b) \in Nat /\ \A k \in 1 .. Len(b) : b[k] \in Beats
    BY LenProperties, ElementOfSeq
  <2>2. f \in [1 .. Len(b) -> NoRobFlits]
    BY <2>1 DEF NoRobFlits
  <2>3. f \in Seq(NoRobFlits)
    BY <2>1, <2>2, SeqDef
  <2>4. Len(f) \in Nat /\ 1 .. Len(f) = 1 .. Len(b)
    BY <2>2, <2>3, LenProperties
  <2> HIDE DEF f
  <2> QED
    BY <2>1, <2>3, <2>4
<1>3. \A k \in 1 .. Len(b) : f[k].beat = b[k]
  OBVIOUS
<1> HIDE DEF f
<1>4. /\ c2 \in [Ids -> Nat] /\ s2 \in [Ids -> Dests]
      /\ n2 \in [Dests -> Seq(NoRobFlits)] /\ o2 \in [Ids -> Seq(Beats)]
      /\ \A i \in Ids : c2[i] = IF i = id THEN c[i] + 1 ELSE c[i]
      /\ \A i \in Ids : s2[i] = IF i = id THEN d ELSE sel[i]
      /\ \A e \in Dests : n2[e] = IF e = d THEN n[d] \o f ELSE n[e]
      /\ \A i \in Ids : o2[i] = IF i = id THEN o[id] \o b ELSE o[i]
  <2>1. n[d] \o f \in Seq(NoRobFlits)
    BY <1>1, <1>2, ConcatElements
  <2>2. o[id] \o b \in Seq(Beats)
    BY <1>1, ConcatElements
  <2>3. c2 \in [Ids -> Nat] /\ \A i \in Ids : c2[i] = IF i = id THEN c[i] + 1 ELSE c[i]
    BY <1>1
  <2>4. s2 \in [Ids -> Dests] /\ \A i \in Ids : s2[i] = IF i = id THEN d ELSE sel[i]
    BY <1>1
  <2>5. /\ n2 \in [Dests -> Seq(NoRobFlits)]
        /\ \A e \in Dests : n2[e] = IF e = d THEN n[d] \o f ELSE n[e]
    BY <1>1, <2>1
  <2>6. /\ o2 \in [Ids -> Seq(Beats)]
        /\ \A i \in Ids : o2[i] = IF i = id THEN o[id] \o b ELSE o[i]
    BY <1>1, <2>2
  <2> QED
    BY <2>3, <2>4, <2>5, <2>6
<1> HIDE DEF c2, s2, n2, o2
<1>5. ASSUME NEW i \in Ids
      PROVE  Whole(o2[i]) /\ c2[i] = Cardinality(Lasts(o2[i]))
  <2>1. CASE i = id
    <3>1. /\ Whole(o[id] \o b)
          /\ Cardinality(Lasts(o[id] \o b)) = Cardinality(Lasts(o[id])) + 1
      BY <1>1, LastsBurst
    <3> QED
      BY <3>1, <2>1, <1>1, <1>4
  <2>2. CASE i # id
    BY <2>2, <1>1, <1>4
  <2> QED
    BY <2>1, <2>2
<1>6. ASSUME NEW i \in Ids, NEW e \in Dests
      PROVE  Merged(i, IF e = s2[i] THEN o2[i] ELSE <<>>, n2[e])
  <2>1. CASE i # id
    <3> DEFINE q == IF e = sel[i] THEN o[i] ELSE <<>>
    <3>1. q \in Seq(Beats) /\ Merged(i, q, n[e])
      BY <1>1, EmptySeq
    <3>2. s2[i] = sel[i] /\ o2[i] = o[i]
      BY <2>1, <1>4
    <3> HIDE DEF q
    <3>3. CASE e # d
      BY <3>1, <3>2, <3>3, <1>4 DEF q
    <3>4. CASE e = d
      <4>1. \A k \in 1 .. Len(f) : f[k].beat.id # i
        BY <2>1, <1>2, <1>3
      <4>2. n[e] \in Seq(NoRobFlits)
        BY <1>1
      <4>3. Merged(i, q, n[e] \o f)
        BY <4>1, <4>2, <3>1, <1>2, MergedAppendOther
      <4> QED
        BY <4>3, <3>2, <3>4, <1>4 DEF q
    <3> QED
      BY <3>3, <3>4
  <2>2. CASE i = id /\ e = d
    <3>1. Merged(id, o[id], n[d])
      <4>1. CASE d = sel[id]
        BY <4>1, <1>1
      <4>2. CASE d # sel[id]
        <5>1. o[id] = <<>>
          <6>1. Cardinality(Lasts(o[id])) = 0 /\ o[id] \in Seq(Beats) /\ Whole(o[id])
            BY <4>2, <1>1
          <6> QED
            BY <6>1, LastsNone
        <5> QED
          BY <5>1, <4>2, <1>1
      <4> QED
        BY <4>1, <4>2
    <3>2. o[id] \in Seq(Beats) /\ n[d] \in Seq(NoRobFlits)
      BY <1>1
    <3>3. Merged(id, o[id] \o b, n[d] \o f)
      BY <3>1, <3>2, <1>2, <1>3, MergedAppend
    <3> QED
      BY <3>3, <2>2, <1>4
  <2>3. CASE i = id /\ e # d
    <3>1. n2[e] = n[e] /\ s2[i] = d
      BY <2>3, <1>4
    <3>2. Merged(id, <<>>, n[e])
      <4>1. CASE e # sel[id]
        BY <4>1, <1>1
      <4>2. CASE e = sel[id]
        <5>1. o[id] = <<>>
          <6>1. Cardinality(Lasts(o[id])) = 0 /\ o[id] \in Seq(Beats) /\ Whole(o[id])
            BY <4>2, <2>3, <1>1
          <6> QED
            BY <6>1, LastsNone
        <5> QED
          BY <5>1, <4>2, <1>1
      <4> QED
        BY <4>1, <4>2
    <3> QED
      BY <3>1, <3>2, <2>3
  <2> QED
    BY <2>1, <2>2, <2>3
<1>7. Good(c2, s2, n2, o2)
  BY <1>4, <1>5, <1>6 DEF Good
<1> QED
  BY <1>7 DEF c2, s2, n2, o2, f

-----------------------------------------------------------------------------
(* The steps *)

\* The request side keeps the invariant, whatever the response side does in the
\* same cycle.
LEMMA NoRobAxStep ==
    ASSUME in_flight_cnt \in [Ids -> Nat],
           \A id \in Ids : in_flight_cnt[id] <= CounterMax,
           AxInv,
           NEW popped, NEW net1, NEW owed1,
           Good([id \in Ids |-> in_flight_cnt[id] - (IF id \in popped THEN 1 ELSE 0)],
                mst_select_q, net1, owed1),
           NoRobAxSide(popped, net1, owed1)
    PROVE  /\ Good(in_flight_cnt', mst_select_q', net', owed')
           /\ \A id \in Ids : in_flight_cnt'[id] <= CounterMax
           /\ AxInv'
           /\ \A d \in Dests : net1[d] # <<>> => net'[d] # <<>>
           /\ Pushes(owed1)
<1> DEFINE c1 == [id \in Ids |-> in_flight_cnt[id] - (IF id \in popped THEN 1 ELSE 0)]
<1>1. Good(c1, mst_select_q, net1, owed1)
  OBVIOUS
<1>2. /\ c1 \in [Ids -> Nat] /\ mst_select_q \in [Ids -> Dests]
      /\ net1 \in [Dests -> Seq(NoRobFlits)] /\ owed1 \in [Ids -> Seq(Beats)]
  BY <1>1, Zenon DEF Good
<1>3. \A id \in Ids : c1[id] \in Nat /\ c1[id] <= in_flight_cnt[id]
  <2>1. ASSUME NEW id \in Ids
        PROVE  c1[id] = in_flight_cnt[id] - (IF id \in popped THEN 1 ELSE 0)
    OBVIOUS
  <2>2. \A id \in Ids : c1[id] \in Nat
    BY <1>2
  <2> HIDE DEF c1
  <2> QED
    BY <2>1, <2>2
<1>4. CASE NoAxHandshake(net1, owed1) /\ Count(FALSE, popped)
  <2>1. in_flight_cnt' = c1 /\ mst_select_q' = mst_select_q
    BY <1>2, <1>4 DEF Count
  <2>2. net' = net1 /\ owed' = owed1 /\ issued' = issued
    BY <1>4 DEF NoAxHandshake
  <2>3. AxInv'
    <3>1. CASE ax = NoAx /\ NewAx
      BY <3>1, <2>2, RequestTypes DEF AxInv, NewAx
    <3>2. CASE ax' = ax
      BY <3>2, <2>2 DEF AxInv
    <3> QED
      BY <3>1, <3>2, <1>4 DEF NoAxHandshake
  <2> HIDE DEF c1
  <2>4. \A id \in Ids : in_flight_cnt'[id] <= CounterMax
    BY <2>1, <1>3, NoRobAssumption
  <2> QED
    BY <1>1, <2>1, <2>2, <2>3, <2>4 DEF Pushes
<1>5. CASE push /\ AxHandshake(0, net1, owed1) /\ Count(TRUE, popped)
  <2> DEFINE b == Burst(ax.id, issued[ax.id], ax.len)
             f == [k \in 1 .. Len(b) |-> [beat |-> b[k], tag |-> 0]]
             n2 == [net1 EXCEPT ![ax.dest] = @ \o f]
  <2>1. /\ ax \in Requests /\ ax # NoAx
        /\ ax.id \in Ids /\ ax.dest \in Dests /\ ax.len \in Nat /\ ax.len \in Lens
        /\ issued[ax.id] \in Nat /\ issued[ax.id] \in 0 .. MaxRequests
    BY <1>5, RequestTypes, PortsAssumption DEF AxInv, push
  <2>2. /\ b \in Seq(Beats) /\ b # <<>>
        /\ \A k \in 1 .. Len(b) : b[k].id = ax.id /\ (b[k].last <=> k = Len(b))
    <3>1. b = Burst(ax.id, issued[ax.id], ax.len)
      OBVIOUS
    <3> HIDE DEF b
    <3> QED
      BY <2>1, <3>1, BurstBeats
  <2>3. b \in AllBursts
    BY <2>1 DEF AllBursts
  <2>4. Answer(0) = f
    <3>1. DOMAIN b = 1 .. Len(b)
      BY <2>2, LenProperties
    <3> QED
      BY <3>1 DEF Answer
  <2>5. /\ net' = n2
        /\ owed' = [owed1 EXCEPT ![ax.id] = @ \o b]
        /\ issued' = [issued EXCEPT ![ax.id] = @ + 1]
        /\ NewAx
    BY <1>5, <2>4 DEF AxHandshake
  <2>6. mst_select_q' = [mst_select_q EXCEPT ![ax.id] = ax.dest]
    BY <1>5 DEF Count
  <2>7. in_flight_cnt' = [i \in Ids |-> c1[i] + (IF i = ax.id THEN 1 ELSE 0)]
    <3>1. in_flight_cnt' = [id \in Ids |-> in_flight_cnt[id] + (IF id = ax.id THEN 1 ELSE 0)
                                              - (IF id \in popped THEN 1 ELSE 0)]
      BY <1>5 DEF Count
    <3>2. ASSUME NEW id \in Ids
          PROVE  in_flight_cnt[id] + (IF id = ax.id THEN 1 ELSE 0)
                    - (IF id \in popped THEN 1 ELSE 0)
                 = c1[id] + (IF id = ax.id THEN 1 ELSE 0)
      <4>1. in_flight_cnt[id] \in Nat
        OBVIOUS
      <4> QED
        BY <4>1
    <3> QED
      BY <3>1, <3>2
  <2>8. c1[ax.id] = 0 \/ ax.dest = mst_select_q[ax.id]
    <3>1. in_flight_cnt[ax.id] = 0 \/ ax.dest = mst_select_q[ax.id]
      BY <1>5 DEF push, in_flight, prev_dest
    <3>2. in_flight_cnt[ax.id] \in Nat
      BY <2>1
    <3> HIDE DEF c1
    <3> QED
      BY <3>1, <3>2, <2>1, <1>3
  <2> HIDE DEF c1, b
  <2>9. Good(in_flight_cnt', mst_select_q', net', owed')
    BY <1>1, <2>1, <2>2, <2>5, <2>6, <2>7, <2>8, AddBurst
  <2>10. \A id \in Ids : in_flight_cnt'[id] <= CounterMax
    <3> TAKE id \in Ids
    <3>1. in_flight_cnt[id] # CounterMax /\ in_flight_cnt[id] \in Nat
      BY <1>5 DEF push, counter_full
    <3>2. in_flight_cnt'[id] = c1[id] + (IF id = ax.id THEN 1 ELSE 0)
      BY <2>7
    <3> QED
      BY <3>1, <3>2, <1>3, NoRobAssumption
  <2>11. AxInv'
    <3>1. issued' \in [Ids -> Nat]
      BY <2>1, <2>5 DEF AxInv
    <3>2. ax' = NoAx \/ (ax' \in Requests /\ issued'[ax'.id] < MaxRequests)
      BY <2>5 DEF NewAx
    <3> QED
      BY <3>1, <3>2 DEF AxInv
  <2>12. \A d \in Dests : net1[d] # <<>> => net'[d] # <<>>
    <3> TAKE d \in Dests
    <3> HAVE net1[d] # <<>>
    <3>1. f \in Seq(NoRobFlits)
      <4>1. Len(b) \in Nat /\ \A k \in 1 .. Len(b) : b[k] \in Beats
        BY <2>2, LenProperties, ElementOfSeq
      <4>2. f \in [1 .. Len(b) -> NoRobFlits]
        BY <4>1 DEF NoRobFlits
      <4> QED
        BY <4>1, <4>2, SeqDef
    <3>2. net1[d] \in Seq(NoRobFlits)
      BY <1>2
    <3> HIDE DEF f
    <3>3. net1[d] \o f # <<>>
      BY <3>1, <3>2, ConcatEqualIffEmpty
    <3>4. net'[d] = IF d = ax.dest THEN net1[d] \o f ELSE net1[d]
      BY <2>5, <1>2
    <3> QED
      BY <3>3, <3>4
  <2> QED
    BY <2>1, <2>3, <2>5, <2>9, <2>10, <2>11, <2>12 DEF Pushes
<1> QED
  BY <1>4, <1>5 DEF NoRobAxSide

LEMMA NoRobInitInv == NoRobInit => NoRobInv
<1> SUFFICES ASSUME NoRobInit PROVE NoRobInv
  OBVIOUS
<1>1. /\ in_flight_cnt \in [Ids -> Nat] /\ \A id \in Ids : in_flight_cnt[id] = 0
      /\ mst_select_q \in [Ids -> Dests]
  BY DEF NoRobInit
<1>2. /\ \A d \in Dests : net[d] = <<>>
      /\ \A id \in Ids : owed[id] = <<>>
      /\ net \in [Dests -> Seq(NoRobFlits)] /\ owed \in [Ids -> Seq(Beats)]
  BY EmptySeq DEF NoRobInit, PortsInit
<1>3. Whole(<<>>) /\ Cardinality(Lasts(<<>>)) = 0
  <2>1. Whole(<<>>)
    BY DEF Whole
  <2> QED
    BY <2>1, LastsNone, EmptySeq
<1>4. Good(in_flight_cnt, mst_select_q, net, owed)
  <2>1. \A id \in Ids : Whole(owed[id]) /\ in_flight_cnt[id] = Cardinality(Lasts(owed[id]))
    BY <1>1, <1>2, <1>3
  <2>2. \A id \in Ids, d \in Dests :
           Merged(id, IF d = mst_select_q[id] THEN owed[id] ELSE <<>>, net[d])
    BY <1>2, MergedEmpty
  <2> QED
    BY <1>1, <1>2, <2>1, <2>2 DEF Good
<1>5. AxInv /\ RspInv
  BY DEF NoRobInit, PortsInit, AxInv, RspInv
<1>6. \A id \in Ids : in_flight_cnt[id] <= CounterMax
  BY <1>1, NoRobAssumption
<1> QED
  BY <1>4, <1>5, <1>6 DEF NoRobInv

\* What a cycle does to the history, and that it keeps the invariant.
LEMMA WaitStep ==
    ASSUME NoRobInv, Wait
    PROVE  NoRobInv' /\ given' = NoBeat /\ Pushes(owed)
<1>1. /\ in_flight_cnt \in [Ids -> Nat] /\ AxInv /\ RspInv
      /\ \A id \in Ids : in_flight_cnt[id] <= CounterMax
      /\ Good(in_flight_cnt, mst_select_q, net, owed)
  BY DEF NoRobInv, Good
<1> DEFINE c1 == [id \in Ids |-> in_flight_cnt[id] - (IF id \in {} THEN 1 ELSE 0)]
<1>2. c1 = in_flight_cnt
  <2>1. \A id \in Ids : in_flight_cnt[id] - 0 = in_flight_cnt[id]
    BY <1>1
  <2> QED
    BY <2>1, <1>1
<1>3. Good(c1, mst_select_q, net, owed)
  <2> HIDE DEF c1
  <2> QED
    BY <1>1, <1>2
<1>4. NoRobAxSide({}, net, owed)
  BY DEF Wait
<1>5. /\ Good(in_flight_cnt', mst_select_q', net', owed')
      /\ \A id \in Ids : in_flight_cnt'[id] <= CounterMax
      /\ AxInv'
      /\ \A d \in Dests : net[d] # <<>> => net'[d] # <<>>
      /\ Pushes(owed)
  BY <1>1, <1>3, <1>4, NoRobAxStep
<1>6. RspInv'
  <2>1. NewRsp(net) \/ rsp' = rsp
    BY DEF Wait, KeepRsp
  <2> QED
    BY <2>1, <1>1, <1>5, OfferKept
<1> QED
  BY <1>5, <1>6 DEF NoRobInv, Wait

LEMMA ForwardStep ==
    ASSUME NoRobInv, Forward
    PROVE  LET to == rsp_i.id
               rest == [owed EXCEPT ![to] = Tail(@)]
           IN  /\ NoRobInv'
               /\ to \in Ids /\ owed[to] # <<>>
               /\ given' = Head(owed[to])
               /\ Pushes(rest)
<1>1. /\ in_flight_cnt \in [Ids -> Nat] /\ AxInv /\ RspInv
      /\ \A id \in Ids : in_flight_cnt[id] <= CounterMax
      /\ Good(in_flight_cnt, mst_select_q, net, owed)
      /\ owed \in [Ids -> Seq(Beats)] /\ net \in [Dests -> Seq(NoRobFlits)]
  BY DEF NoRobInv, Good
<1>2. rsp \in Dests /\ net[rsp] # <<>>
  BY <1>1 DEF Forward, RspInv
<1> DEFINE x == rsp_i
           popped == {id \in Ids : id = x.id /\ x.last}
           rest == [owed EXCEPT ![x.id] = Tail(@)]
           c1 == [id \in Ids |-> in_flight_cnt[id] - (IF id \in popped THEN 1 ELSE 0)]
           c2 == [id \in Ids |-> in_flight_cnt[id] - (IF id = x.id /\ x.last THEN 1 ELSE 0)]
<1>3. /\ x \in Beats /\ owed[x.id] # <<>> /\ Head(owed[x.id]) = x
      /\ Good(c2, mst_select_q, Consumed, rest)
  <2> DEFINE n2 == Consumed
             o2 == rest
             c3 == c2
  <2>1. First(rsp, x, mst_select_q, net, owed)
    BY <1>1, <1>2, FirstBeat DEF rsp_i
  <2> HIDE DEF x
  <2>2. /\ x \in Beats /\ x.id \in Ids /\ net[rsp] \in Seq(NoRobFlits)
        /\ owed[x.id] \in Seq(Beats) /\ owed[x.id] # <<>> /\ Head(owed[x.id]) = x
    BY <2>1 DEF First
  <2>3. /\ n2 \in [Dests -> Seq(NoRobFlits)]
        /\ \A e \in Dests : n2[e] = IF e = rsp THEN Tail(net[rsp]) ELSE net[e]
    <3>1. Tail(net[rsp]) \in Seq(NoRobFlits)
      BY <2>2, <1>2, HeadTailProperties
    <3> QED
      BY <1>1, <1>2, <3>1 DEF Consumed
  <2>4. /\ o2 \in [Ids -> Seq(Beats)]
        /\ \A id \in Ids : o2[id] = IF id = x.id THEN Tail(owed[id]) ELSE owed[id]
    <3>1. Tail(owed[x.id]) \in Seq(Beats)
      BY <2>2, HeadTailProperties
    <3> QED
      BY <1>1, <2>2, <3>1
  <2>5. /\ c3 \in [Ids -> Int]
        /\ \A id \in Ids :
              c3[id] = in_flight_cnt[id] - (IF id = x.id /\ x.last THEN 1 ELSE 0)
    BY <1>1
  <2> HIDE DEF n2, o2, c3
  <2>6. NoRobTaken(rsp, x, in_flight_cnt, net, owed, c3, n2, o2)
    BY <2>3, <2>4, <2>5 DEF NoRobTaken
  <2>7. Good(c3, mst_select_q, n2, o2)
    BY <1>1, <2>1, <2>6, TakeBeat
  <2> QED
    BY <2>2, <2>7 DEF n2, o2, c3
<1>4. x.id \in Ids
  BY <1>3 DEF Beats
<1>5. Good(c1, mst_select_q, Consumed, rest)
  <2> HIDE DEF x
  <2>1. c1 = c2
    OBVIOUS
  <2> HIDE DEF c1, c2
  <2> QED
    BY <2>1, <1>3
<1>6. Served(rsp_i) = rest
  <2>1. [owed EXCEPT ![x.id] = IF @ = <<>> THEN @ ELSE Tail(@)] = rest
    <3> HIDE DEF x
    <3> QED
      BY <1>1, <1>3, <1>4
  <2> QED
    BY <2>1 DEF Served
<1>7. NoRobAxSide(popped, Consumed, rest) /\ NewRsp(Consumed) /\ given' = x
  BY <1>6 DEF Forward
<1> HIDE DEF x, popped, rest
<1>8. /\ Good(in_flight_cnt', mst_select_q', net', owed')
      /\ \A id \in Ids : in_flight_cnt'[id] <= CounterMax
      /\ AxInv'
      /\ \A d \in Dests : Consumed[d] # <<>> => net'[d] # <<>>
      /\ Pushes(rest)
  BY <1>1, <1>5, <1>7, NoRobAxStep
<1>9. RspInv'
  BY <1>7, <1>8, OfferKept
<1>10. NoRobInv'
  BY <1>8, <1>9 DEF NoRobInv
<1>11. given' = Head(owed[x.id])
  BY <1>3, <1>7
<1> QED
  BY <1>3, <1>4, <1>8, <1>10, <1>11 DEF x, rest

LEMMA NoRobInvariance == NoRobSpec => []NoRobInv
<1>1. ASSUME NoRobInv, NoRobNext PROVE NoRobInv'
  BY <1>1, WaitStep, ForwardStep DEF NoRobNext
<1>2. ASSUME NoRobInv, UNCHANGED noRobVars PROVE NoRobInv'
  BY <1>2 DEF NoRobInv, Good, AxInv, RspInv, noRobVars, ports
<1> QED
  BY NoRobInitInv, <1>1, <1>2, PTL DEF NoRobSpec

\* The counters of the requests in flight are exact and within their bits, and
\* the beats in flight of an ID all come from the destination that the demux
\* remembers: the requests of an ID that are stalled are the right ones
\* (hw/floo_rob_wrapper.sv, NoRoB).
THEOREM StallingIsRight == NoRobSpec => []CountersRight
<1>1. ASSUME NoRobInv PROVE CountersRight
  <2>1. /\ in_flight_cnt \in [Ids -> Nat] /\ mst_select_q \in [Ids -> Dests]
        /\ net \in [Dests -> Seq(NoRobFlits)] /\ owed \in [Ids -> Seq(Beats)]
        /\ \A id \in Ids : Whole(owed[id]) /\ in_flight_cnt[id] = Cardinality(Lasts(owed[id]))
        /\ \A id \in Ids, d \in Dests :
              Merged(id, IF d = mst_select_q[id] THEN owed[id] ELSE <<>>, net[d])
    BY <1>1 DEF NoRobInv, Good
  <2>2. NoRobTypeOK
    <3>1. \A id \in Ids : in_flight_cnt[id] \in 0 .. CounterMax
      BY <1>1, <2>1, NoRobAssumption DEF NoRobInv
    <3> QED
      BY <1>1, <2>1, <3>1 DEF NoRobTypeOK, NoRobInv, AxInv, RspInv
  <2>3. ExactCount
    <3> SUFFICES ASSUME NEW id \in Ids
                 PROVE  in_flight_cnt[id]
                           = Cardinality({k \in DOMAIN owed[id] : owed[id][k].last})
      BY DEF ExactCount
    <3>1. DOMAIN owed[id] = 1 .. Len(owed[id])
      BY <2>1, LenProperties
    <3> QED
      BY <2>1, <3>1 DEF Lasts
  <2>4. OneDestinationPerId
    <3> SUFFICES ASSUME NEW id \in Ids, NEW d \in Dests,
                        NEW k \in DOMAIN net[d], net[d][k].beat.id = id
                 PROVE  in_flight(id) /\ mst_select_q[id] = d
      BY DEF OneDestinationPerId
    <3> DEFINE q == IF d = mst_select_q[id] THEN owed[id] ELSE <<>>
    <3>1. DOMAIN net[d] = 1 .. Len(net[d])
      BY <2>1, LenProperties
    <3>2. Merged(id, q, net[d])
      BY <2>1
    <3> HIDE DEF q
    <3>3. Len(q) # 0
      BY <3>1, <3>2, MergedOwed
    <3>4. q # <<>>
      BY <3>3, EmptySeq
    <3>5. d = mst_select_q[id] /\ owed[id] # <<>>
      BY <3>4 DEF q
    <3>6. owed[id] \in Seq(Beats) /\ Whole(owed[id])
      BY <2>1
    <3>7. in_flight_cnt[id] # 0
      BY <2>1, <3>5, <3>6, LastsNone
    <3> QED
      BY <3>5, <3>7 DEF in_flight
  <2> QED
    BY <2>2, <2>3, <2>4 DEF CountersRight
<1> QED
  BY <1>1, NoRobInvariance, PTL

\* Responses of an ID come back in the order of its requests, whole and once,
\* although nothing restores their order: the stalling does
\* (hw/floo_rob_wrapper.sv, NoRoB).
THEOREM StallingKeepsOrder == NoRobSpec => OrderedResponses
<1>1. NoRobInit => AXI!Init
  BY DEF NoRobInit, PortsInit, AXI!Init
<1>2. ASSUME NoRobInv, [NoRobNext]_noRobVars PROVE [AXI!Next]_<<owed, given>>
  <2>1. CASE Wait
    BY <1>2, <2>1, WaitStep, QuietRefines
  <2>2. CASE Forward
    <3> DEFINE to == rsp_i.id
    <3>1. /\ to \in Ids /\ owed[to] # <<>> /\ given' = Head(owed[to])
          /\ Pushes([owed EXCEPT ![to] = Tail(@)])
      BY <1>2, <2>2, ForwardStep
    <3>2. owed \in [Ids -> Seq(Beats)]
      BY <1>2 DEF NoRobInv, Good
    <3> HIDE DEF to
    <3> QED
      BY <3>1, <3>2, GiveRefines
  <2>3. CASE UNCHANGED noRobVars
    BY <2>3 DEF noRobVars, ports
  <2> QED
    BY <1>2, <2>1, <2>2, <2>3 DEF NoRobNext
<1> QED
  BY <1>1, <1>2, NoRobInvariance, PTL DEF NoRobSpec, OrderedResponses, AXI!Spec

-----------------------------------------------------------------------------
(* Buffering: SimpleRob *)

Flits == [beat : Beats, tag : Slots]

-----------------------------------------------------------------------------
(* Pointers *)

LEMMA WrapInSlots ==
    ASSUME NEW r \in Slots, NEW k \in 0 .. RoBSize
    PROVE  Wrap(r + k) \in Slots
BY SimpleRobAssumption DEF Wrap, Slots

\* One slot further, at the end or at the beginning.
LEMMA WrapStep ==
    ASSUME NEW r \in Slots, NEW k \in 0 .. RoBSize - 1
    PROVE  /\ Wrap(Wrap(r + k) + 1) = Wrap(r + (k + 1))
           /\ Wrap(Wrap(r + 1) + k) = Wrap(r + (k + 1))
BY SimpleRobAssumption DEF Wrap, Slots

LEMMA WrapDistinct ==
    ASSUME NEW r \in Slots, NEW k \in 0 .. RoBSize - 1, NEW l \in 0 .. RoBSize - 1,
           Wrap(r + k) = Wrap(r + l)
    PROVE  k = l
BY SimpleRobAssumption DEF Wrap, Slots

LEMMA WrapNone ==
    ASSUME NEW r \in Slots
    PROVE  Wrap(r) = r /\ Wrap(r + 0) = r
BY SimpleRobAssumption DEF Wrap, Slots

-----------------------------------------------------------------------------
(* The invariant *)

\* w is what the slots in use are for, from rp on: the flits that come back and
\* those that are stored.  The beats owed to an ID are those of w.
Holds(w, rp, wp, cnt, V, meta, n, o) ==
    /\ w \in Seq(Flits) /\ Len(w) = cnt
    /\ cnt \in 0 .. RoBSize /\ rp \in Slots /\ wp = Wrap(rp + cnt)
    /\ meta \in [Slots -> Beats]
    /\ n \in [Dests -> Seq(Flits)] /\ o \in [Ids -> Seq(Beats)]
    /\ \A k \in 1 .. cnt : /\ w[k].tag = Wrap(rp + (k - 1))
                           /\ w[k].beat.pos = 1 /\ w[k].beat.last
                           /\ w[k].tag \in V => meta[w[k].tag] = w[k].beat
    /\ \A s \in V : \E k \in 1 .. cnt : w[k].tag = s
    /\ \A d \in Dests : \A j \in 1 .. Len(n[d]) :
          n[d][j].tag \notin V /\ \E k \in 1 .. cnt : w[k] = n[d][j]
    /\ \A d, e \in Dests : \A i \in 1 .. Len(n[d]), j \in 1 .. Len(n[e]) :
          n[d][i].tag = n[e][j].tag => d = e /\ i = j
    /\ \A id \in Ids : Merged(id, o[id], w)

Held(rp, wp, cnt, V, meta, n, o) == \E w : Holds(w, rp, wp, cnt, V, meta, n, o)

LEMMA ConcatFlits ==
    \A s, t \in Seq(Flits) :
       /\ s \o t \in Seq(Flits) /\ Len(s \o t) = Len(s) + Len(t)
       /\ Len(s) \in Nat /\ Len(t) \in Nat
       /\ \A i \in 1 .. Len(s) : (s \o t)[i] = s[i]
       /\ \A i \in 1 .. Len(t) : (s \o t)[Len(s) + i] = t[i]
BY ConcatElements

LEMMA OneBehind ==
    ASSUME NEW q \in Seq(Flits), NEW f \in Seq(Flits), Len(f) = 1,
           NEW j \in 1 .. Len(q \o f)
    PROVE  \/ j \in 1 .. Len(q) /\ (q \o f)[j] = q[j]
           \/ j = Len(q) + 1 /\ (q \o f)[j] = f[1]
<1>1. /\ Len(q \o f) = Len(q) + Len(f) /\ Len(q) \in Nat
      /\ \A i \in 1 .. Len(q) : (q \o f)[i] = q[i]
      /\ \A i \in 1 .. Len(f) : (q \o f)[Len(q) + i] = f[i]
  BY ConcatFlits
<1>2. j \in 1 .. Len(q) \/ j = Len(q) + 1
  BY <1>1
<1>3. (q \o f)[Len(q) + 1] = f[1]
  BY <1>1
<1> QED
  BY <1>1, <1>2, <1>3

\* The request of id to d, answered by the beat b in the flit f, leaves: what is
\* queued and owed then.
Pushed(id, d, b, f, n, o, n2, o2) ==
    /\ id \in Ids /\ d \in Dests
    /\ b \in Seq(Beats) /\ Len(b) = 1 /\ b[1].id = id /\ b[1].pos = 1 /\ b[1].last
    /\ f \in Seq(Flits) /\ Len(f) = 1 /\ f[1].beat = b[1]
    /\ n2 \in [Dests -> Seq(Flits)] /\ o2 \in [Ids -> Seq(Beats)]
    /\ \A e \in Dests : n2[e] = IF e = d THEN n[e] \o f ELSE n[e]
    /\ \A i \in Ids : o2[i] = IF i = id THEN o[i] \o b ELSE o[i]

\* A request takes the next slot.
LEMMA PushHolds ==
    ASSUME NEW w, NEW rp, NEW wp, NEW cnt, NEW V, NEW meta, NEW n, NEW o,
           NEW id, NEW d, NEW b, NEW f, NEW n2, NEW o2,
           Holds(w, rp, wp, cnt, V, meta, n, o), cnt # RoBSize,
           Pushed(id, d, b, f, n, o, n2, o2), f[1].tag = wp
    PROVE  Held(rp, Wrap(wp + 1), cnt + 1, V, meta, n2, o2)
<1>0. /\ id \in Ids /\ d \in Dests
      /\ b \in Seq(Beats) /\ Len(b) = 1 /\ b[1].id = id /\ b[1].pos = 1 /\ b[1].last
      /\ f \in Seq(Flits) /\ Len(f) = 1 /\ f[1].beat = b[1]
      /\ n2 \in [Dests -> Seq(Flits)] /\ o2 \in [Ids -> Seq(Beats)]
  BY DEF Pushed
<1>n. \A e \in Dests : n2[e] = IF e = d THEN n[e] \o f ELSE n[e]
  BY DEF Pushed
<1>o. \A i \in Ids : o2[i] = IF i = id THEN o[i] \o b ELSE o[i]
  BY DEF Pushed
<1>1. /\ w \in Seq(Flits) /\ Len(w) = cnt
      /\ cnt \in 0 .. RoBSize - 1 /\ rp \in Slots /\ wp = Wrap(rp + cnt)
      /\ meta \in [Slots -> Beats]
      /\ n \in [Dests -> Seq(Flits)] /\ o \in [Ids -> Seq(Beats)]
      /\ RoBSize \in Nat
  BY SimpleRobAssumption DEF Holds
<1>2. \A k \in 1 .. cnt : /\ w[k].tag = Wrap(rp + (k - 1))
                          /\ w[k].beat.pos = 1 /\ w[k].beat.last
                          /\ w[k].tag \in V => meta[w[k].tag] = w[k].beat
  BY DEF Holds
<1>3. \A s \in V : \E k \in 1 .. cnt : w[k].tag = s
  BY DEF Holds
<1>4. \A e \in Dests : \A j \in 1 .. Len(n[e]) :
         n[e][j].tag \notin V /\ \E k \in 1 .. cnt : w[k] = n[e][j]
  BY DEF Holds
<1>5. \A c, e \in Dests : \A i \in 1 .. Len(n[c]), j \in 1 .. Len(n[e]) :
         n[c][i].tag = n[e][j].tag => c = e /\ i = j
  BY DEF Holds
<1>6. \A i \in Ids : Merged(i, o[i], w)
  BY DEF Holds
<1> DEFINE w2 == w \o f
<1>7. /\ w2 \in Seq(Flits) /\ Len(w2) = cnt + 1
      /\ \A k \in 1 .. cnt : w2[k] = w[k]
      /\ w2[cnt + 1] = f[1]
  <2>1. /\ w \o f \in Seq(Flits) /\ Len(w \o f) = Len(w) + Len(f)
        /\ \A i \in 1 .. Len(w) : (w \o f)[i] = w[i]
        /\ \A i \in 1 .. Len(f) : (w \o f)[Len(w) + i] = f[i]
    <3>1. w \in Seq(Flits) /\ f \in Seq(Flits)
      BY <1>0, <1>1
    <3> QED
      BY <3>1, ConcatFlits
  <2> QED
    BY <2>1, <1>0, <1>1
<1>8. \A i \in Ids : Merged(i, o2[i], w2)
  <2> TAKE i \in Ids
  <2>1. o[i] \in Seq(Beats) /\ Merged(i, o[i], w)
    BY <1>1, <1>6
  <2>2. CASE i = id
    <3>1. \A k \in 1 .. Len(b) : f[k].beat = b[k] /\ b[k].id = i
      BY <2>2, <1>0
    <3>2. Merged(i, o[i] \o b, w \o f)
      BY <1>0, <1>1, <2>1, <3>1, MergedAppend
    <3> QED
      BY <2>2, <3>2, <1>o
  <2>3. CASE i # id
    <3>1. \A k \in 1 .. Len(f) : f[k].beat.id # i
      BY <2>3, <1>0
    <3>2. Merged(i, o[i], w \o f)
      BY <1>0, <1>1, <2>1, <3>1, MergedAppendOther
    <3> QED
      BY <2>3, <3>2, <1>o
  <2> QED
    BY <2>2, <2>3
<1> HIDE DEF w2
<1>9. wp \in Slots /\ \A k \in 1 .. cnt : w[k].tag # wp
  <2>1. wp \in Slots
    BY <1>1, WrapInSlots
  <2>2. ASSUME NEW k \in 1 .. cnt, w[k].tag = wp PROVE FALSE
    <3>1. k - 1 \in 0 .. RoBSize - 1 /\ k - 1 # cnt
      BY <1>1
    <3>2. Wrap(rp + (k - 1)) = Wrap(rp + cnt)
      BY <1>1, <1>2, <2>2
    <3> QED
      BY <1>1, <3>1, <3>2, WrapDistinct
  <2> QED
    BY <2>1, <2>2
<1>10. wp \notin V
  BY <1>3, <1>9
<1>11. \A k \in 1 .. cnt + 1 : /\ w2[k].tag = Wrap(rp + (k - 1))
                               /\ w2[k].beat.pos = 1 /\ w2[k].beat.last
                               /\ w2[k].tag \in V => meta[w2[k].tag] = w2[k].beat
  <2> TAKE k \in 1 .. cnt + 1
  <2>1. CASE k \in 1 .. cnt
    BY <2>1, <1>2, <1>7
  <2>2. CASE k = cnt + 1
    <3>1. w2[k] = f[1] /\ k - 1 = cnt
      BY <2>2, <1>1, <1>7
    <3> QED
      BY <3>1, <1>0, <1>1, <1>10
  <2> QED
    BY <2>1, <2>2, <1>1
<1>12. Wrap(wp + 1) = Wrap(rp + (cnt + 1)) /\ cnt + 1 \in 0 .. RoBSize
  BY <1>1, WrapStep
<1>13. \A s \in V : \E k \in 1 .. cnt + 1 : w2[k].tag = s
  <2> TAKE s \in V
  <2>1. PICK k \in 1 .. cnt : w[k].tag = s
    BY <1>3
  <2>2. k \in 1 .. cnt + 1 /\ w2[k].tag = s
    BY <2>1, <1>1, <1>7
  <2> QED
    BY <2>2
\* The queues: each flit is an old one or the new one of d.
<1>14. ASSUME NEW e \in Dests, NEW j \in 1 .. Len(n2[e])
       PROVE  \/ j \in 1 .. Len(n[e]) /\ n2[e][j] = n[e][j]
              \/ e = d /\ j = Len(n[e]) + 1 /\ n2[e][j] = f[1]
  <2>1. CASE e = d
    <3> DEFINE q == n[e]
    <3>1. q \in Seq(Flits) /\ f \in Seq(Flits) /\ Len(f) = 1
      BY <1>0, <1>1
    <3>2. n2[e] = q \o f
      BY <2>1, <1>n
    <3>3. j \in 1 .. Len(q \o f)
      BY <3>2
    <3> HIDE DEF q
    <3>4. \/ j \in 1 .. Len(q) /\ (q \o f)[j] = q[j]
          \/ j = Len(q) + 1 /\ (q \o f)[j] = f[1]
      BY <3>1, <3>3, OneBehind
    <3> QED
      BY <2>1, <3>2, <3>4 DEF q
  <2>2. CASE e # d
    BY <2>2, <1>n
  <2> QED
    BY <2>1, <2>2
<1>15. \A e \in Dests : \A j \in 1 .. Len(n2[e]) :
          n2[e][j].tag \notin V /\ \E k \in 1 .. cnt + 1 : w2[k] = n2[e][j]
  <2> TAKE e \in Dests
  <2> TAKE j \in 1 .. Len(n2[e])
  <2>1. CASE j \in 1 .. Len(n[e]) /\ n2[e][j] = n[e][j]
    <3>1. PICK k \in 1 .. cnt : w[k] = n[e][j]
      BY <2>1, <1>4
    <3>2. k \in 1 .. cnt + 1 /\ w2[k] = n2[e][j]
      BY <3>1, <2>1, <1>1, <1>7
    <3> QED
      BY <2>1, <3>2, <1>4
  <2>2. CASE n2[e][j] = f[1]
    <3>1. cnt + 1 \in 1 .. cnt + 1
      BY <1>1
    <3> QED
      BY <2>2, <3>1, <1>7, <1>10
  <2> QED
    BY <2>1, <2>2, <1>14
<1>16. \A c, e \in Dests : \A i \in 1 .. Len(n2[c]), j \in 1 .. Len(n2[e]) :
          n2[c][i].tag = n2[e][j].tag => c = e /\ i = j
  <2> TAKE c, e \in Dests
  <2> TAKE i \in 1 .. Len(n2[c]), j \in 1 .. Len(n2[e])
  <2> HAVE n2[c][i].tag = n2[e][j].tag
  <2>1. \A g \in Dests : \A l \in 1 .. Len(n[g]) : n[g][l].tag # wp
    <3> TAKE g \in Dests
    <3> TAKE l \in 1 .. Len(n[g])
    <3>1. PICK k \in 1 .. cnt : w[k] = n[g][l]
      BY <1>4
    <3> QED
      BY <3>1, <1>9
  <2>2. \/ i \in 1 .. Len(n[c]) /\ n2[c][i] = n[c][i]
        \/ c = d /\ i = Len(n[c]) + 1 /\ n2[c][i] = f[1]
    BY <1>14
  <2>3. \/ j \in 1 .. Len(n[e]) /\ n2[e][j] = n[e][j]
        \/ e = d /\ j = Len(n[e]) + 1 /\ n2[e][j] = f[1]
    BY <1>14
  <2>4. CASE i \in 1 .. Len(n[c]) /\ n2[c][i] = n[c][i]
             /\ j \in 1 .. Len(n[e]) /\ n2[e][j] = n[e][j]
    BY <2>4, <1>5
  <2>5. CASE i \in 1 .. Len(n[c]) /\ n2[c][i] = n[c][i] /\ n2[e][j] = f[1]
    BY <2>1, <2>5
  <2>6. CASE n2[c][i] = f[1] /\ j \in 1 .. Len(n[e]) /\ n2[e][j] = n[e][j]
    BY <2>1, <2>6
  <2>7. CASE c = d /\ i = Len(n[c]) + 1 /\ e = d /\ j = Len(n[e]) + 1
    BY <2>7
  <2> QED
    BY <2>2, <2>3, <2>4, <2>5, <2>6, <2>7
<1>17. Holds(w2, rp, Wrap(wp + 1), cnt + 1, V, meta, n2, o2)
  BY <1>0, <1>1, <1>7, <1>8, <1>11, <1>12, <1>13, <1>15, <1>16 DEF Holds
<1> QED
  BY <1>17 DEF Held

\* What is queued when d has given its first flit.
Taken(d, n, n2) ==
    /\ n2 \in [Dests -> Seq(Flits)]
    /\ \A e \in Dests : n2[e] = IF e = d THEN Tail(n[e]) ELSE n[e]

\* A flit that comes back is of a slot that is waiting for it.
LEMMA FirstFlit ==
    ASSUME NEW w, NEW rp, NEW wp, NEW cnt, NEW V, NEW meta, NEW n, NEW o, NEW d \in Dests,
           Holds(w, rp, wp, cnt, V, meta, n, o), n[d] # <<>>
    PROVE  /\ n[d] \in Seq(Flits) /\ Len(n[d]) \in Nat \ {0} /\ 1 \in 1 .. Len(n[d])
           /\ Head(n[d]) = n[d][1] /\ Head(n[d]) \in Flits
           /\ Head(n[d]).beat.last
<1>1. n[d] \in Seq(Flits)
  BY DEF Holds
<1>2. Len(n[d]) \in Nat \ {0}
  BY <1>1, EmptySeq
<1>3. 1 \in 1 .. Len(n[d])
  BY <1>2
<1>4. n[d][1] \in Flits
  BY <1>1, <1>3, ElementOfSeq
<1>5. PICK k \in 1 .. cnt : w[k] = n[d][1]
  BY <1>3 DEF Holds
<1>6. w[k].beat.last
  BY DEF Holds
<1> QED
  BY <1>1, <1>2, <1>3, <1>4, <1>5, <1>6

\* It is stored.
LEMMA StoreHolds ==
    ASSUME NEW w, NEW rp, NEW wp, NEW cnt, NEW V, NEW meta, NEW n, NEW o,
           NEW d \in Dests, NEW n2,
           Holds(w, rp, wp, cnt, V, meta, n, o), n[d] # <<>>, Taken(d, n, n2)
    PROVE  Held(rp, wp, cnt, V \cup {Head(n[d]).tag},
                [meta EXCEPT ![Head(n[d]).tag] = Head(n[d]).beat], n2, o)
<1> DEFINE x == Head(n[d])
           V2 == V \cup {x.tag}
           m2 == [meta EXCEPT ![x.tag] = x.beat]
<1>0. /\ n[d] \in Seq(Flits) /\ Len(n[d]) \in Nat \ {0} /\ 1 \in 1 .. Len(n[d])
      /\ x = n[d][1] /\ x \in Flits
  BY FirstFlit
<1> HIDE DEF x
<1>1. /\ w \in Seq(Flits) /\ Len(w) = cnt
      /\ cnt \in 0 .. RoBSize /\ rp \in Slots /\ wp = Wrap(rp + cnt)
      /\ meta \in [Slots -> Beats]
      /\ n \in [Dests -> Seq(Flits)] /\ o \in [Ids -> Seq(Beats)]
      /\ \A i \in Ids : Merged(i, o[i], w)
  BY DEF Holds
<1>2. \A k \in 1 .. cnt : /\ w[k].tag = Wrap(rp + (k - 1))
                          /\ w[k].beat.pos = 1 /\ w[k].beat.last
                          /\ w[k].tag \in V => meta[w[k].tag] = w[k].beat
  BY DEF Holds
<1>3. \A s \in V : \E k \in 1 .. cnt : w[k].tag = s
  BY DEF Holds
<1>4. \A e \in Dests : \A j \in 1 .. Len(n[e]) :
         n[e][j].tag \notin V /\ \E k \in 1 .. cnt : w[k] = n[e][j]
  BY DEF Holds
<1>5. \A c, e \in Dests : \A i \in 1 .. Len(n[c]), j \in 1 .. Len(n[e]) :
         n[c][i].tag = n[e][j].tag => c = e /\ i = j
  BY DEF Holds
<1>6. x.tag \in Slots /\ x.beat \in Beats
  BY <1>0 DEF Flits
<1>7. PICK kx \in 1 .. cnt : w[kx] = x
  BY <1>0, <1>4
<1>8. m2 \in [Slots -> Beats] /\ \A s \in Slots : m2[s] = IF s = x.tag THEN x.beat ELSE meta[s]
  BY <1>1, <1>6
<1> HIDE DEF m2
\* Every slot in use has one flit.
<1>9. \A k \in 1 .. cnt : w[k].tag \in Slots /\ (w[k].tag = x.tag => w[k] = x)
  <2> TAKE k \in 1 .. cnt
  <2>1. /\ k - 1 \in 0 .. RoBSize - 1 /\ kx - 1 \in 0 .. RoBSize - 1
        /\ k - 1 \in 0 .. RoBSize
    BY <1>1, SimpleRobAssumption
  <2>2. w[k].tag = Wrap(rp + (k - 1)) /\ w[kx].tag = Wrap(rp + (kx - 1))
    BY <1>2
  <2>3. w[k].tag \in Slots
    BY <1>1, <2>1, <2>2, WrapInSlots
  <2>4. ASSUME w[k].tag = x.tag PROVE w[k] = x
    <3>1. k - 1 = kx - 1
      BY <1>1, <1>7, <2>1, <2>2, <2>4, WrapDistinct
    <3> QED
      BY <3>1, <1>7
  <2> QED
    BY <2>3, <2>4
<1>10. \A k \in 1 .. cnt : /\ w[k].tag = Wrap(rp + (k - 1))
                           /\ w[k].beat.pos = 1 /\ w[k].beat.last
                           /\ w[k].tag \in V2 => m2[w[k].tag] = w[k].beat
  <2> TAKE k \in 1 .. cnt
  <2>1. CASE w[k].tag = x.tag
    BY <2>1, <1>2, <1>8, <1>9
  <2>2. CASE w[k].tag # x.tag
    BY <2>2, <1>2, <1>8, <1>9
  <2> QED
    BY <2>1, <2>2
<1>11. \A s \in V2 : \E k \in 1 .. cnt : w[k].tag = s
  BY <1>3, <1>7
\* What remains is queued elsewhere, or behind.
<1>12. ASSUME NEW e \in Dests, NEW j \in 1 .. Len(n2[e])
       PROVE  \E i \in 1 .. Len(n[e]) :
                 /\ n2[e][j] = n[e][i]
                 /\ i = IF e = d THEN j + 1 ELSE j
  <2>1. n2[e] = IF e = d THEN Tail(n[e]) ELSE n[e]
    BY DEF Taken
  <2>2. CASE e = d
    <3>1. /\ Len(Tail(n[d])) = Len(n[d]) - 1
          /\ \A i \in 1 .. Len(n[d]) - 1 : Tail(n[d])[i] = n[d][i + 1]
      BY <1>0, HeadTailProperties
    <3>2. j + 1 \in 1 .. Len(n[e]) /\ n2[e][j] = n[e][j + 1]
      BY <3>1, <2>1, <2>2, <1>0
    <3> QED
      BY <3>2, <2>2
  <2>3. CASE e # d
    BY <2>1, <2>3
  <2> QED
    BY <2>2, <2>3
<1>13. n2 \in [Dests -> Seq(Flits)]
  BY DEF Taken
<1>14. \A e \in Dests : \A j \in 1 .. Len(n2[e]) :
          n2[e][j].tag \notin V2 /\ \E k \in 1 .. cnt : w[k] = n2[e][j]
  <2> TAKE e \in Dests
  <2> TAKE j \in 1 .. Len(n2[e])
  <2>1. PICK i \in 1 .. Len(n[e]) : /\ n2[e][j] = n[e][i]
                                    /\ i = IF e = d THEN j + 1 ELSE j
    BY <1>12
  <2>2. n[e][i].tag # x.tag
    <3>1. ASSUME n[e][i].tag = x.tag PROVE FALSE
      <4>1. e = d /\ i = 1
        BY <3>1, <1>0, <1>5
      <4>2. j \in Nat \ {0} /\ i = j + 1
        BY <2>1, <4>1, <1>13, LenProperties
      <4> QED
        BY <4>1, <4>2
    <3> QED
      BY <3>1
  <2> QED
    BY <2>1, <2>2, <1>4
<1>15. \A c, e \in Dests : \A i \in 1 .. Len(n2[c]), j \in 1 .. Len(n2[e]) :
          n2[c][i].tag = n2[e][j].tag => c = e /\ i = j
  <2> TAKE c, e \in Dests
  <2> TAKE i \in 1 .. Len(n2[c]), j \in 1 .. Len(n2[e])
  <2> HAVE n2[c][i].tag = n2[e][j].tag
  <2>1. PICK ii \in 1 .. Len(n[c]) : /\ n2[c][i] = n[c][ii]
                                     /\ ii = IF c = d THEN i + 1 ELSE i
    BY <1>12
  <2>2. PICK jj \in 1 .. Len(n[e]) : /\ n2[e][j] = n[e][jj]
                                     /\ jj = IF e = d THEN j + 1 ELSE j
    BY <1>12
  <2>3. c = e /\ ii = jj
    BY <2>1, <2>2, <1>5
  <2>4. i \in Int /\ j \in Int
    OBVIOUS
  <2> QED
    BY <2>1, <2>2, <2>3, <2>4
<1> HIDE DEF V2
<1>16. Holds(w, rp, wp, cnt, V2, m2, n2, o)
  BY <1>1, <1>8, <1>10, <1>11, <1>13, <1>14, <1>15 DEF Holds
<1>17. Held(rp, wp, cnt, V2, m2, n2, o)
  BY <1>16 DEF Held
<1> QED
  BY <1>17 DEF V2, m2, x

\* The beat of the oldest slot is the first that its ID waits for.
FirstSlot(x, V, rp, meta, cnt, o) ==
    /\ rp \in V /\ x = meta[rp] /\ x \in Beats /\ x.id \in Ids
    /\ cnt \in 1 .. RoBSize
    /\ o[x.id] \in Seq(Beats) /\ o[x.id] # <<>> /\ Head(o[x.id]) = x

\* What is owed when it is given.
Given(x, o, o2) ==
    /\ o2 \in [Ids -> Seq(Beats)]
    /\ \A id \in Ids : o2[id] = IF id = x.id THEN Tail(o[id]) ELSE o[id]

\* Facts about the first slot in use.
LEMMA FirstInUse ==
    ASSUME NEW w, NEW rp, NEW wp, NEW cnt, NEW V, NEW meta, NEW n, NEW o,
           Holds(w, rp, wp, cnt, V, meta, n, o), rp \in V
    PROVE  /\ cnt \in 1 .. RoBSize /\ 1 \in 1 .. cnt /\ w # <<>>
           /\ w[1] \in Flits /\ w[1].tag = rp /\ meta[rp] = w[1].beat
<1>1. /\ w \in Seq(Flits) /\ Len(w) = cnt
      /\ cnt \in 0 .. RoBSize /\ rp \in Slots /\ RoBSize \in Nat
  BY SimpleRobAssumption DEF Holds
<1>2. \A k \in 1 .. cnt : /\ w[k].tag = Wrap(rp + (k - 1))
                          /\ w[k].tag \in V => meta[w[k].tag] = w[k].beat
  BY DEF Holds
<1>3. PICK k \in 1 .. cnt : w[k].tag = rp
  BY DEF Holds
<1>4. cnt \in 1 .. RoBSize /\ 1 \in 1 .. cnt
  BY <1>1, <1>3
<1>5. k - 1 = 0
  <2>1. Wrap(rp + (k - 1)) = Wrap(rp + 0)
    BY <1>1, <1>2, <1>3, WrapNone
  <2>2. k - 1 \in 0 .. RoBSize - 1 /\ 0 \in 0 .. RoBSize - 1
    BY <1>1, <1>4
  <2> QED
    BY <1>1, <2>1, <2>2, WrapDistinct
<1>6. k = 1
  BY <1>5
<1>7. w[1] \in Flits /\ w # <<>>
  BY <1>1, <1>4, ElementOfSeq, EmptySeq
<1> QED
  BY <1>2, <1>3, <1>4, <1>6, <1>7

LEMMA OldestBeat ==
    ASSUME NEW rp, NEW wp, NEW cnt, NEW V, NEW meta, NEW n, NEW o,
           Held(rp, wp, cnt, V, meta, n, o), rp \in V
    PROVE  FirstSlot(meta[rp], V, rp, meta, cnt, o)
<1>1. PICK w : Holds(w, rp, wp, cnt, V, meta, n, o)
  BY DEF Held
<1> DEFINE x == meta[rp]
<1>2. /\ cnt \in 1 .. RoBSize /\ w # <<>> /\ w[1] \in Flits /\ x = w[1].beat
  BY <1>1, FirstInUse
<1> HIDE DEF x
<1>3. x \in Beats /\ x.id \in Ids
  BY <1>2 DEF Flits, Beats
<1>4. o[x.id] \in Seq(Beats) /\ Merged(x.id, o[x.id], w) /\ w \in Seq(Flits)
  BY <1>1, <1>3 DEF Holds
<1> DEFINE q == o[x.id]
<1>5. /\ q \in Seq(Beats) /\ Merged(x.id, q, w)
      /\ w \in Seq(Flits) /\ w # <<>> /\ w[1].beat.id = x.id
  BY <1>2, <1>4
<1> HIDE DEF q
<1>6. q # <<>> /\ q[1] = w[1].beat /\ Merged(x.id, Tail(q), Tail(w))
  BY <1>5, MergedHead
<1>7. Head(q) = x
  BY <1>2, <1>6
<1>8. FirstSlot(x, V, rp, meta, cnt, o)
  BY <1>2, <1>3, <1>5, <1>6, <1>7 DEF FirstSlot, q, x
<1> QED
  BY <1>8 DEF x

\* It is given, its slot is free.
LEMMA GiveHolds ==
    ASSUME NEW rp, NEW wp, NEW cnt, NEW V, NEW meta, NEW n, NEW o, NEW x, NEW o2,
           Held(rp, wp, cnt, V, meta, n, o), FirstSlot(x, V, rp, meta, cnt, o),
           Given(x, o, o2)
    PROVE  Held(Wrap(rp + 1), wp, cnt - 1, V \ {rp}, meta, n, o2)
<1>0. PICK w : Holds(w, rp, wp, cnt, V, meta, n, o)
  BY DEF Held
<1>1. /\ w \in Seq(Flits) /\ Len(w) = cnt
      /\ rp \in Slots /\ wp = Wrap(rp + cnt)
      /\ meta \in [Slots -> Beats]
      /\ n \in [Dests -> Seq(Flits)] /\ o \in [Ids -> Seq(Beats)]
  BY <1>0 DEF Holds
<1>i. \A i \in Ids : Merged(i, o[i], w)
  BY <1>0 DEF Holds
<1>2. \A k \in 1 .. cnt : /\ w[k].tag = Wrap(rp + (k - 1))
                          /\ w[k].beat.pos = 1 /\ w[k].beat.last
                          /\ w[k].tag \in V => meta[w[k].tag] = w[k].beat
  BY <1>0 DEF Holds
<1>3. \A s \in V : \E k \in 1 .. cnt : w[k].tag = s
  BY <1>0 DEF Holds
<1>4. \A e \in Dests : \A j \in 1 .. Len(n[e]) :
         n[e][j].tag \notin V /\ \E k \in 1 .. cnt : w[k] = n[e][j]
  BY <1>0 DEF Holds
<1>5. \A c, e \in Dests : \A i \in 1 .. Len(n[c]), j \in 1 .. Len(n[e]) :
         n[c][i].tag = n[e][j].tag => c = e /\ i = j
  BY <1>0 DEF Holds
<1>6. /\ rp \in V /\ cnt \in 1 .. RoBSize /\ 1 \in 1 .. cnt /\ w # <<>>
      /\ w[1].tag = rp /\ x = w[1].beat /\ x.id \in Ids
      /\ RoBSize \in Nat \ {0, 1}
  <2>1. rp \in V /\ x = meta[rp] /\ x.id \in Ids
    BY DEF FirstSlot
  <2> QED
    BY <1>0, <2>1, FirstInUse, SimpleRobAssumption
<1>7. /\ Tail(w) \in Seq(Flits) /\ Len(Tail(w)) = cnt - 1
      /\ \A k \in 1 .. cnt - 1 : Tail(w)[k] = w[k + 1]
  BY <1>1, <1>6, HeadTailProperties
<1>8. \A i \in Ids : Merged(i, o2[i], Tail(w))
  <2> TAKE i \in Ids
  <2> DEFINE q == o[i]
  <2>1. q \in Seq(Beats) /\ Merged(i, q, w)
    BY <1>1, <1>i
  <2>2. o2[i] = IF i = x.id THEN Tail(q) ELSE q
    BY DEF Given
  <2> HIDE DEF q
  <2>3. CASE i = x.id
    BY <2>1, <2>2, <2>3, <1>1, <1>6, MergedHead
  <2>4. CASE i # x.id
    BY <2>1, <2>2, <2>4, <1>1, <1>6, MergedOther
  <2> QED
    BY <2>3, <2>4
<1> DEFINE w2 == Tail(w)
           r2 == Wrap(rp + 1)
           c2 == cnt - 1
           V2 == V \ {rp}
<1>9. /\ w2 \in Seq(Flits) /\ Len(w2) = c2 /\ c2 \in 0 .. RoBSize - 1
      /\ \A k \in 1 .. c2 : w2[k] = w[k + 1] /\ k + 1 \in 1 .. cnt
  BY <1>6, <1>7
<1>10. \A i \in Ids : Merged(i, o2[i], w2)
  BY <1>8
<1>11. r2 \in Slots
  <2>1. 1 \in 0 .. RoBSize
    BY <1>6
  <2> QED
    BY <2>1, <1>1, WrapInSlots
<1>12. \A k \in 1 .. cnt : k # 1 => k - 1 \in 1 .. c2 /\ w2[k - 1] = w[k]
  <2> TAKE k \in 1 .. cnt
  <2> HAVE k # 1
  <2>1. k - 1 \in 1 .. cnt - 1 /\ (k - 1) + 1 = k
    BY <1>6
  <2> QED
    BY <2>1, <1>7
<1>13. \A l \in 0 .. RoBSize - 1 : Wrap(r2 + l) = Wrap(rp + (l + 1))
  BY <1>1, WrapStep
<1> HIDE DEF w2, r2
<1>14. wp = Wrap(r2 + c2)
  <2>1. c2 \in 0 .. RoBSize - 1 /\ c2 + 1 = cnt
    BY <1>6
  <2> HIDE DEF c2
  <2>2. Wrap(r2 + c2) = Wrap(rp + (c2 + 1))
    BY <2>1, <1>13
  <2> QED
    BY <2>1, <2>2, <1>1
<1>15. \A k \in 1 .. c2 : /\ w2[k].tag = Wrap(r2 + (k - 1))
                          /\ w2[k].beat.pos = 1 /\ w2[k].beat.last
                          /\ w2[k].tag \in V2 => meta[w2[k].tag] = w2[k].beat
  <2> TAKE k \in 1 .. c2
  <2>1. k - 1 \in 0 .. RoBSize - 1 /\ (k - 1) + 1 = k /\ (k + 1) - 1 = k
    BY <1>6
  <2>2. w2[k] = w[k + 1] /\ k + 1 \in 1 .. cnt
    BY <1>9
  <2>3. w[k + 1].tag = Wrap(rp + ((k + 1) - 1))
    BY <2>2, <1>2
  <2>4. Wrap(r2 + (k - 1)) = Wrap(rp + ((k - 1) + 1))
    BY <2>1, <1>13
  <2>5. w2[k].tag = Wrap(r2 + (k - 1))
    BY <2>1, <2>2, <2>3, <2>4
  <2> QED
    BY <2>2, <2>5, <1>2
<1>16. \A s \in V2 : \E k \in 1 .. c2 : w2[k].tag = s
  <2> TAKE s \in V2
  <2>1. PICK k \in 1 .. cnt : w[k].tag = s
    BY <1>3
  <2>2. k # 1
    BY <2>1, <1>6
  <2> QED
    BY <2>1, <2>2, <1>12
<1>17. \A e \in Dests : \A j \in 1 .. Len(n[e]) :
         n[e][j].tag \notin V2 /\ \E k \in 1 .. c2 : w2[k] = n[e][j]
  <2> TAKE e \in Dests
  <2> TAKE j \in 1 .. Len(n[e])
  <2>1. PICK k \in 1 .. cnt : w[k] = n[e][j]
    BY <1>4
  <2>2. n[e][j].tag \notin V
    BY <1>4
  <2>3. k # 1
    BY <2>1, <2>2, <1>6
  <2> QED
    BY <2>1, <2>2, <2>3, <1>12
<1>18. o2 \in [Ids -> Seq(Beats)]
  BY DEF Given
<1>19. c2 \in 0 .. RoBSize
  BY <1>6
<1> HIDE DEF c2, V2
<1>20. Holds(w2, r2, wp, c2, V2, meta, n, o2)
  BY <1>1, <1>5, <1>9, <1>10, <1>11, <1>14, <1>15, <1>16, <1>17, <1>18, <1>19 DEF Holds
<1>21. Held(r2, wp, c2, V2, meta, n, o2)
  BY <1>20 DEF Held
<1> QED
  BY <1>21 DEF r2, c2, V2

-----------------------------------------------------------------------------
(* The steps *)

\* Every request is answered by one beat.
OneBeatEach == BurstIds = {}

LEMMA UpToOne ==
    ASSUME NEW m \in Nat, 1 .. m = 1 .. 1
    PROVE  m = 1
<1>1. 1 \in 1 .. m
  <2>1. 1 \in 1 .. 1
    OBVIOUS
  <2> QED
    BY <2>1, Zenon
<1>2. m \in 1 .. m
  BY <1>1
<1>3. m \in 1 .. 1
  BY <1>2, Zenon
<1> QED
  BY <1>3

LEMMA OneBeat ==
    ASSUME NEW id \in Ids, NEW num \in Nat, NEW b, b = Burst(id, num, 0)
    PROVE  /\ b \in Seq(Beats) /\ Len(b) = 1
           /\ b[1].id = id /\ b[1].pos = 1 /\ b[1].last
<1>1. 0 + 1 = 1 /\ 1 \in 1 .. 1
  OBVIOUS
<1>2. b \in [1 .. 1 -> Beats]
  BY <1>1 DEF Burst, Beats
<1>3. b \in Seq(Beats)
  BY <1>2, SeqDef
<1>4. Len(b) = 1
  <2>1. Len(b) \in Nat /\ 1 .. Len(b) = 1 .. 1
    BY <1>2, <1>3, LenProperties
  <2> QED
    BY <2>1, UpToOne
<1>5. b[1] = [id |-> id, num |-> num, pos |-> 1, last |-> TRUE]
  BY <1>1 DEF Burst
<1>6. b[1].id = id /\ b[1].pos = 1 /\ b[1].last
  BY <1>5
<1> QED
  BY <1>3, <1>4, <1>6

\* The request that the manager offers.
LEMMA RequestOffered ==
    ASSUME OneBeatEach, AxInv, ax # NoAx
    PROVE  /\ ax.id \in Ids /\ ax.dest \in Dests /\ ax.len = 0
           /\ issued[ax.id] \in Nat /\ issued[ax.id] \in 0 .. MaxRequests
<1>1. ax \in Requests /\ issued \in [Ids -> Nat] /\ issued[ax.id] < MaxRequests
  BY DEF AxInv
<1>2. ax.id \in Ids /\ ax.dest \in Dests
  BY <1>1, RequestTypes
<1>3. ax.len = 0
  BY <1>1 DEF OneBeatEach, Requests
<1> QED
  BY <1>1, <1>2, <1>3, PortsAssumption

\* Its answer.
LEMMA AnswerFlits ==
    ASSUME NEW b \in Seq(Beats), Len(b) = 1, b = Burst(ax.id, issued[ax.id], ax.len),
           NEW tag \in Slots, NEW f, f = Answer(tag)
    PROVE  f \in Seq(Flits) /\ Len(f) = 1 /\ f[1].beat = b[1] /\ f[1].tag = tag
<1>1. DOMAIN b = 1 .. 1 /\ b[1] \in Beats
  BY LenProperties, ElementOfSeq
<1>2. f = [k \in 1 .. 1 |-> [beat |-> b[k], tag |-> tag]]
  BY <1>1 DEF Answer
<1>3. f \in [1 .. 1 -> Flits]
  BY <1>1, <1>2 DEF Flits
<1>4. f \in Seq(Flits)
  BY <1>3, SeqDef
<1>5. Len(f) = 1
  <2>1. Len(f) \in Nat /\ 1 .. Len(f) = 1 .. 1
    BY <1>3, <1>4, LenProperties
  <2> QED
    BY <2>1, UpToOne
<1>6. f[1].beat = b[1] /\ f[1].tag = tag
  BY <1>2
<1> QED
  BY <1>4, <1>5, <1>6

\* The request side keeps the invariant, whatever the response side does in the
\* same cycle.
LEMMA AxStep ==
    ASSUME OneBeatEach, AxInv, NEW released \in {0, 1}, NEW net1, NEW owed1,
           Held(read_pointer_q', write_pointer_q, status_cnt_q - released,
                rob_valid_q', rob_meta_q', net1, owed1),
           status_cnt_q \in Nat,
           AxSide(released, net1, owed1)
    PROVE  /\ Held(read_pointer_q', write_pointer_q', status_cnt_q',
                   rob_valid_q', rob_meta_q', net', owed')
           /\ AxInv'
           /\ \A d \in Dests : net1[d] # <<>> => net'[d] # <<>>
           /\ Pushes(owed1)
<1> DEFINE c1 == status_cnt_q - released
<1>1. PICK w : Holds(w, read_pointer_q', write_pointer_q, c1,
                     rob_valid_q', rob_meta_q', net1, owed1)
  BY DEF Held
<1>2. /\ net1 \in [Dests -> Seq(Flits)] /\ owed1 \in [Ids -> Seq(Beats)]
      /\ c1 \in 0 .. RoBSize /\ read_pointer_q' \in Slots
      /\ write_pointer_q = Wrap(read_pointer_q' + c1)
  BY <1>1 DEF Holds
<1>3. CASE /\ NoAxHandshake(net1, owed1)
           /\ UNCHANGED write_pointer_q /\ status_cnt_q' = c1
  <2>1. net' = net1 /\ owed' = owed1 /\ issued' = issued
    BY <1>3 DEF NoAxHandshake
  <2>2. AxInv'
    <3>1. CASE ax = NoAx /\ NewAx
      BY <3>1, <2>1, RequestTypes DEF AxInv, NewAx
    <3>2. CASE ax' = ax
      BY <3>2, <2>1 DEF AxInv
    <3> QED
      BY <3>1, <3>2, <1>3 DEF NoAxHandshake
  <2> QED
    BY <1>3, <2>1, <2>2 DEF Pushes
<1>4. CASE /\ ax # NoAx /\ free_entries >= ax_len(ax.len)
           /\ AxHandshake(write_pointer_q, net1, owed1)
           /\ write_pointer_q' = Wrap(write_pointer_q + ax_len(ax.len))
           /\ status_cnt_q' = status_cnt_q + ax_len(ax.len) - released
  <2> DEFINE b == Burst(ax.id, issued[ax.id], ax.len)
             f == Answer(write_pointer_q)
  <2>1. /\ ax.id \in Ids /\ ax.dest \in Dests /\ ax.len = 0
        /\ issued[ax.id] \in Nat /\ issued[ax.id] \in 0 .. MaxRequests
    BY <1>4, RequestOffered
  <2>2. b \in Seq(Beats) /\ Len(b) = 1 /\ b[1].id = ax.id /\ b[1].pos = 1 /\ b[1].last
    <3>1. b = Burst(ax.id, issued[ax.id], 0)
      BY <2>1
    <3> HIDE DEF b
    <3> QED
      BY <2>1, <3>1, OneBeat
  <2>3. b \in AllBursts
    BY <2>1 DEF AllBursts, Lens
  <2>4. write_pointer_q \in Slots
    BY <1>2, WrapInSlots
  <2>5. f \in Seq(Flits) /\ Len(f) = 1 /\ f[1].beat = b[1] /\ f[1].tag = write_pointer_q
    <3>1. b = Burst(ax.id, issued[ax.id], ax.len) /\ f = Answer(write_pointer_q)
      OBVIOUS
    <3> HIDE DEF b, f
    <3> QED
      BY <2>2, <2>4, <3>1, AnswerFlits
  <2>6. /\ net' = [net1 EXCEPT ![ax.dest] = @ \o f]
        /\ owed' = [owed1 EXCEPT ![ax.id] = @ \o b]
        /\ issued' = [issued EXCEPT ![ax.id] = @ + 1]
        /\ NewAx
    BY <1>4 DEF AxHandshake
  <2> HIDE DEF b, f
  <2>7. ax_len(ax.len) = 1
    BY <2>1 DEF ax_len
  <2>8. /\ c1 # RoBSize /\ status_cnt_q' = c1 + 1
        /\ write_pointer_q' = Wrap(write_pointer_q + 1)
    BY <1>4, <2>7, SimpleRobAssumption DEF free_entries
  <2> HIDE DEF c1
  <2>9. /\ net' \in [Dests -> Seq(Flits)]
        /\ \A e \in Dests : net'[e] = IF e = ax.dest THEN net1[e] \o f ELSE net1[e]
    <3>1. net1[ax.dest] \o f \in Seq(Flits)
      BY <1>2, <2>1, <2>5, ConcatFlits
    <3> QED
      BY <1>2, <2>1, <2>6, <3>1
  <2>10. /\ owed' \in [Ids -> Seq(Beats)]
         /\ \A i \in Ids : owed'[i] = IF i = ax.id THEN owed1[i] \o b ELSE owed1[i]
    <3>1. owed1[ax.id] \o b \in Seq(Beats)
      BY <1>2, <2>1, <2>2, ConcatElements
    <3> QED
      BY <1>2, <2>1, <2>6, <3>1
  <2>11. Pushed(ax.id, ax.dest, b, f, net1, owed1, net', owed')
    BY <2>1, <2>2, <2>5, <2>9, <2>10 DEF Pushed
  <2>12. f[1].tag = write_pointer_q
    BY <2>5
  <2>13. Held(read_pointer_q', Wrap(write_pointer_q + 1), c1 + 1,
              rob_valid_q', rob_meta_q', net', owed')
    BY <1>1, <2>8, <2>11, <2>12, PushHolds
  <2>14. AxInv'
    <3>1. issued' \in [Ids -> Nat]
      BY <2>1, <2>6 DEF AxInv
    <3>2. ax' = NoAx \/ (ax' \in Requests /\ issued'[ax'.id] < MaxRequests)
      BY <2>6 DEF NewAx
    <3> QED
      BY <3>1, <3>2 DEF AxInv
  <2>15. \A d \in Dests : net1[d] # <<>> => net'[d] # <<>>
    <3> TAKE d \in Dests
    <3> HAVE net1[d] # <<>>
    <3>1. net1[d] \in Seq(Flits) /\ f \in Seq(Flits)
      BY <1>2, <2>5
    <3>2. net1[d] \o f # <<>>
      BY <3>1, ConcatEqualIffEmpty
    <3> QED
      BY <3>2, <2>9
  <2>16. Pushes(owed1)
    BY <2>1, <2>3, <2>6 DEF Pushes
  <2> QED
    BY <2>8, <2>13, <2>14, <2>15, <2>16
<1> QED
  BY <1>3, <1>4 DEF AxSide

IInv ==
    /\ OneBeatEach
    /\ Held(read_pointer_q, write_pointer_q, status_cnt_q, rob_valid_q, rob_meta_q,
            net, owed)
    /\ rsp_burst_cnt_q = 0
    /\ rob_addr_q \in Slots /\ rob_state_q \in {"RoBRead", "RoBWrite"}
    /\ rsp_out_valid_q => rob_addr_q = read_pointer_q
    /\ AxInv
    /\ RspInv

LEMMA InitInv == OneBeatEach /\ Init => IInv
<1> SUFFICES ASSUME OneBeatEach, Init PROVE IInv
  OBVIOUS
<1>1. /\ read_pointer_q = 0 /\ write_pointer_q = 0 /\ status_cnt_q = 0
      /\ rob_valid_q = {} /\ rob_meta_q = [s \in Slots |-> NoBeat]
      /\ 0 \in Slots /\ RoBSize \in Nat
  BY SimpleRobAssumption DEF Init, Slots
<1>2. /\ \A d \in Dests : net[d] = <<>>
      /\ \A id \in Ids : owed[id] = <<>>
      /\ net \in [Dests -> Seq(Flits)] /\ owed \in [Ids -> Seq(Beats)]
  BY EmptySeq DEF Init, PortsInit
<1>3. rob_meta_q \in [Slots -> Beats]
  <2>1. NoBeat \in Beats
    BY PortsAssumption DEF NoBeat, Beats, Ids
  <2> QED
    BY <1>1, <2>1
<1>4. Holds(<<>>, read_pointer_q, write_pointer_q, status_cnt_q, rob_valid_q, rob_meta_q,
            net, owed)
  <2>1. <<>> \in Seq(Flits) /\ Len(<<>>) = 0
    BY EmptySeq
  <2>2. \A id \in Ids : Merged(id, owed[id], <<>>)
    BY <1>2, MergedEmpty
  <2>3. write_pointer_q = Wrap(read_pointer_q + status_cnt_q)
    BY <1>1, WrapNone
  <2>4. status_cnt_q \in 0 .. RoBSize
    BY <1>1
  <2>5. \A d \in Dests : Len(net[d]) = 0
    BY <1>2, EmptySeq
  <2>6. \A d \in Dests : \A j \in 1 .. Len(net[d]) : FALSE
    BY <2>5
  <2>7. \A k \in 1 .. status_cnt_q : FALSE
    BY <1>1
  <2>8. \A s \in rob_valid_q : FALSE
    BY <1>1
  <2> HIDE DEF Init
  <2> QED
    BY <1>1, <1>2, <1>3, <2>1, <2>2, <2>3, <2>4, <2>6, <2>7, <2>8, Zenon DEF Holds
<1>5. Held(read_pointer_q, write_pointer_q, status_cnt_q, rob_valid_q, rob_meta_q, net, owed)
  BY <1>4 DEF Held
<1>6. AxInv /\ RspInv
  BY DEF Init, PortsInit, AxInv, RspInv
<1> QED
  BY <1>1, <1>5, <1>6 DEF IInv, Init

\* The parts of the invariant that the cycles use.
LEMMA HeldTypes ==
    ASSUME NEW rp, NEW wp, NEW cnt, NEW V, NEW meta, NEW n, NEW o,
           Held(rp, wp, cnt, V, meta, n, o)
    PROVE  /\ rp \in Slots /\ wp \in Slots /\ cnt \in 0 .. RoBSize /\ cnt \in Nat
           /\ V \subseteq Slots /\ meta \in [Slots -> Beats]
           /\ n \in [Dests -> Seq(Flits)] /\ o \in [Ids -> Seq(Beats)]
<1>1. PICK w : Holds(w, rp, wp, cnt, V, meta, n, o)
  BY DEF Held
<1>2. /\ w \in Seq(Flits) /\ Len(w) = cnt
      /\ cnt \in 0 .. RoBSize /\ rp \in Slots /\ wp = Wrap(rp + cnt)
      /\ meta \in [Slots -> Beats]
      /\ n \in [Dests -> Seq(Flits)] /\ o \in [Ids -> Seq(Beats)]
  BY <1>1 DEF Holds
<1>3. \A s \in V : \E k \in 1 .. cnt : w[k].tag = s
  BY <1>1 DEF Holds
<1>4. wp \in Slots
  BY <1>2, WrapInSlots
<1>5. V \subseteq Slots
  <2>1. \A k \in 1 .. cnt : w[k] \in Flits
    BY <1>2, ElementOfSeq
  <2>2. \A k \in 1 .. cnt : w[k].tag \in Slots
    BY <2>1 DEF Flits
  <2> QED
    BY <1>3, <2>2
<1> QED
  BY <1>2, <1>4, <1>5, SimpleRobAssumption

\* A cycle in which no beat is given.
LEMMA QuietStep ==
    ASSUME OneBeatEach, AxInv, NEW net1,
           Held(read_pointer_q', write_pointer_q, status_cnt_q, rob_valid_q',
                rob_meta_q', net1, owed),
           AxSide(0, net1, owed)
    PROVE  /\ Held(read_pointer_q', write_pointer_q', status_cnt_q',
                   rob_valid_q', rob_meta_q', net', owed')
           /\ AxInv'
           /\ \A d \in Dests : net1[d] # <<>> => net'[d] # <<>>
           /\ Pushes(owed)
<1>1. status_cnt_q \in Nat
  BY HeldTypes
<1> DEFINE c1 == status_cnt_q - 0
<1>2. c1 = status_cnt_q
  BY <1>1
<1> HIDE DEF c1
<1>3. Held(read_pointer_q', write_pointer_q, c1, rob_valid_q', rob_meta_q', net1, owed)
  BY <1>2
<1>4. 0 \in {0, 1}
  OBVIOUS
<1> USE DEF c1
<1> QED
  BY <1>1, <1>3, <1>4, AxStep

LEMMA IdleStep ==
    ASSUME IInv, WriteIdle \/ ReadWait \/ ReadLeave
    PROVE  IInv' /\ given' = NoBeat /\ Pushes(owed)
<1>1. /\ OneBeatEach /\ AxInv /\ RspInv /\ rsp_burst_cnt_q = 0
      /\ Held(read_pointer_q, write_pointer_q, status_cnt_q, rob_valid_q, rob_meta_q,
              net, owed)
  BY DEF IInv
<1>2. /\ read_pointer_q' = read_pointer_q /\ rob_valid_q' = rob_valid_q
      /\ rob_meta_q' = rob_meta_q
      /\ AxSide(0, net, owed) /\ KeepRsp /\ given' = NoBeat
  BY DEF WriteIdle, ReadWait, ReadLeave, NoRelease
<1>3. Held(read_pointer_q', write_pointer_q, status_cnt_q, rob_valid_q',
           rob_meta_q', net, owed)
  BY <1>1, <1>2
<1>4. /\ Held(read_pointer_q', write_pointer_q', status_cnt_q',
              rob_valid_q', rob_meta_q', net', owed')
      /\ AxInv'
      /\ \A d \in Dests : net[d] # <<>> => net'[d] # <<>>
      /\ Pushes(owed)
  BY <1>1, <1>2, <1>3, QuietStep
<1>5. RspInv'
  <2>1. NewRsp(net) \/ rsp' = rsp
    BY <1>2 DEF KeepRsp
  <2> QED
    BY <2>1, <1>1, <1>4, OfferKept
<1>6. /\ rsp_burst_cnt_q' = 0
      /\ rob_addr_q' \in Slots /\ rob_state_q' \in {"RoBRead", "RoBWrite"}
      /\ rsp_out_valid_q' => rob_addr_q' = read_pointer_q'
  <2>1. 0 \in Slots /\ read_pointer_q \in Slots
    BY <1>1, HeldTypes, SimpleRobAssumption DEF Slots
  <2>2. CASE WriteIdle
    BY <2>1, <2>2, <1>1 DEF WriteIdle
  <2>3. CASE ReadWait
    BY <2>1, <2>3, <1>1, <1>2 DEF ReadWait, Reading
  <2>4. CASE ReadLeave
    BY <2>1, <2>4, <1>1 DEF ReadLeave
  <2> QED
    BY <2>2, <2>3, <2>4
<1>7. OneBeatEach'
  BY <1>1 DEF OneBeatEach
<1> QED
  BY <1>2, <1>4, <1>5, <1>6, <1>7 DEF IInv

LEMMA StoreStep ==
    ASSUME IInv, Store
    PROVE  IInv' /\ given' = NoBeat /\ Pushes(owed)
<1>1. /\ OneBeatEach /\ AxInv /\ RspInv /\ rsp_burst_cnt_q = 0
      /\ Held(read_pointer_q, write_pointer_q, status_cnt_q, rob_valid_q, rob_meta_q,
              net, owed)
  BY DEF IInv
<1>2. PICK w : Holds(w, read_pointer_q, write_pointer_q, status_cnt_q, rob_valid_q,
                     rob_meta_q, net, owed)
  BY <1>1 DEF Held
<1>3. rsp \in Dests /\ net[rsp] # <<>>
  BY <1>1 DEF Store, RspInv
<1> DEFINE x == Head(net[rsp])
<1>4. x \in Flits /\ x.beat.last /\ net[rsp] \in Seq(Flits)
  BY <1>2, <1>3, FirstFlit
<1>5. WriteAddr = x.tag /\ x.tag \in Slots
  <2>1. x.tag \in Slots
    BY <1>4 DEF Flits
  <2> DEFINE t == rsp_tag
  <2>2. t = x.tag
    BY DEF rsp_tag
  <2> HIDE DEF x, t
  <2>3. t \in Nat /\ t < IdxSpan /\ IdxSpan \in Nat
    BY <2>1, <2>2, SimpleRobAssumption DEF Slots
  <2> HIDE DEF IdxSpan
  <2>4. (t + 0) % IdxSpan = t
    BY <2>3
  <2> QED
    BY <2>1, <2>2, <2>4, <1>1 DEF WriteAddr, t
<1>6. /\ read_pointer_q' = read_pointer_q
      /\ rob_valid_q' = rob_valid_q \cup {x.tag}
      /\ rob_meta_q' = [rob_meta_q EXCEPT ![x.tag] = x.beat]
      /\ rob_addr_q' = x.tag /\ rsp_out_valid_q' = FALSE
      /\ rob_state_q' \in {"RoBRead", "RoBWrite"}
      /\ rsp_burst_cnt_q' = 0
      /\ given' = NoBeat
      /\ AxSide(0, Consumed, owed) /\ NewRsp(Consumed)
  BY <1>4, <1>5 DEF Store, NoRelease, rsp_i
<1> DEFINE n2 == Consumed
<1>7. Taken(rsp, net, n2)
  <2>1. net \in [Dests -> Seq(Flits)]
    BY <1>1, HeldTypes
  <2>2. Tail(net[rsp]) \in Seq(Flits)
    BY <1>3, <1>4, HeadTailProperties
  <2> QED
    BY <1>3, <2>1, <2>2 DEF Consumed, Taken
<1> HIDE DEF n2
<1>8. Held(read_pointer_q, write_pointer_q, status_cnt_q, rob_valid_q \cup {x.tag},
           [rob_meta_q EXCEPT ![x.tag] = x.beat], n2, owed)
  BY <1>2, <1>3, <1>7, StoreHolds
<1> HIDE DEF x
<1>9. Held(read_pointer_q', write_pointer_q, status_cnt_q, rob_valid_q',
           rob_meta_q', n2, owed)
  BY <1>6, <1>8
<1>10. /\ Held(read_pointer_q', write_pointer_q', status_cnt_q',
               rob_valid_q', rob_meta_q', net', owed')
       /\ AxInv'
       /\ \A d \in Dests : n2[d] # <<>> => net'[d] # <<>>
       /\ Pushes(owed)
  <2>1. AxSide(0, n2, owed)
    BY <1>6 DEF n2
  <2> QED
    BY <1>1, <1>9, <2>1, QuietStep
<1>11. RspInv'
  <2>1. NewRsp(n2)
    BY <1>6 DEF n2
  <2> QED
    BY <2>1, <1>10, OfferKept
<1>12. OneBeatEach'
  BY <1>1 DEF OneBeatEach
<1> QED
  BY <1>5, <1>6, <1>10, <1>11, <1>12 DEF IInv

LEMMA GiveStep ==
    ASSUME IInv, ReadGive
    PROVE  LET to == rsp_o.id
               rest == [owed EXCEPT ![to] = Tail(@)]
           IN  /\ IInv'
               /\ to \in Ids /\ owed[to] # <<>>
               /\ given' = Head(owed[to])
               /\ Pushes(rest)
<1>1. /\ OneBeatEach /\ AxInv /\ RspInv /\ rsp_burst_cnt_q = 0
      /\ rob_state_q \in {"RoBRead", "RoBWrite"}
      /\ Held(read_pointer_q, write_pointer_q, status_cnt_q, rob_valid_q, rob_meta_q,
              net, owed)
      /\ rob_addr_q = read_pointer_q
  BY DEF IInv, ReadGive
<1> DEFINE x == rsp_o
           rest == [owed EXCEPT ![x.id] = Tail(@)]
<1>2. FirstSlot(x, rob_valid_q, read_pointer_q, rob_meta_q, status_cnt_q, owed)
  <2>1. read_pointer_q \in rob_valid_q
    BY DEF ReadGive, Reading
  <2>2. FirstSlot(rob_meta_q[read_pointer_q], rob_valid_q, read_pointer_q, rob_meta_q,
                  status_cnt_q, owed)
    BY <1>1, <2>1, OldestBeat
  <2> QED
    BY <1>1, <2>2 DEF rsp_o
<1>3. /\ read_pointer_q' = Wrap(read_pointer_q + 1)
      /\ rob_valid_q' = rob_valid_q \ {read_pointer_q}
      /\ rob_meta_q' = rob_meta_q /\ rob_state_q' = rob_state_q
      /\ rsp_burst_cnt_q' = rsp_burst_cnt_q
      /\ rob_addr_q' = read_pointer_q'
      /\ given' = x
      /\ AxSide(1, net, Served(x)) /\ KeepRsp
  BY DEF ReadGive
<1> HIDE DEF x
<1>4. x.id \in Ids /\ owed[x.id] \in Seq(Beats) /\ owed[x.id] # <<>> /\ Head(owed[x.id]) = x
  BY <1>2 DEF FirstSlot
<1>5. owed \in [Ids -> Seq(Beats)] /\ status_cnt_q \in Nat
  BY <1>1, HeldTypes
<1>6. Served(x) = rest
  BY <1>4, <1>5 DEF Served
<1>7. Given(x, owed, rest)
  <2>1. Tail(owed[x.id]) \in Seq(Beats)
    BY <1>4, HeadTailProperties
  <2> QED
    BY <1>4, <1>5, <2>1 DEF Given
<1> HIDE DEF rest
<1>8. Held(Wrap(read_pointer_q + 1), write_pointer_q, status_cnt_q - 1,
           rob_valid_q \ {read_pointer_q}, rob_meta_q, net, rest)
  BY <1>1, <1>2, <1>7, GiveHolds
<1>9. Held(read_pointer_q', write_pointer_q, status_cnt_q - 1, rob_valid_q',
           rob_meta_q', net, rest)
  BY <1>3, <1>8
<1>10. /\ Held(read_pointer_q', write_pointer_q', status_cnt_q',
               rob_valid_q', rob_meta_q', net', owed')
       /\ AxInv'
       /\ \A d \in Dests : net[d] # <<>> => net'[d] # <<>>
       /\ Pushes(rest)
  <2>1. 1 \in {0, 1} /\ AxSide(1, net, rest)
    BY <1>3, <1>6
  <2> QED
    BY <1>1, <1>5, <1>9, <2>1, AxStep
<1>11. RspInv'
  <2>1. NewRsp(net) \/ rsp' = rsp
    BY <1>3 DEF KeepRsp
  <2> QED
    BY <2>1, <1>1, <1>10, OfferKept
<1>12. OneBeatEach' /\ rob_addr_q' \in Slots
  BY <1>1, <1>3, <1>9, HeldTypes DEF OneBeatEach
<1>13. IInv'
  BY <1>1, <1>3, <1>10, <1>11, <1>12 DEF IInv
<1>14. given' = Head(owed[x.id])
  BY <1>3, <1>4
<1> QED
  BY <1>4, <1>10, <1>13, <1>14 DEF x, rest

LEMMA Invariance == OneBeatEach /\ Spec => []IInv
<1>1. ASSUME IInv, Next PROVE IInv'
  BY <1>1, IdleStep, StoreStep, GiveStep DEF Next
<1>2. ASSUME IInv, UNCHANGED vars PROVE IInv'
  BY <1>2 DEF IInv, AxInv, RspInv, OneBeatEach, vars, buffer, ports
<1> QED
  BY InitInv, <1>1, <1>2, PTL DEF Spec

\* No slot is handed out twice, and a beat that comes back is stored in a slot
\* that waits for it: the buffer never overflows (hw/floo_simple_rob.sv).
THEOREM SlotsAreSafe == OneBeatEach /\ Spec => []SlotsSafe
<1>1. ASSUME IInv PROVE SlotsSafe
  <2>1. PICK w : Holds(w, read_pointer_q, write_pointer_q, status_cnt_q, rob_valid_q,
                       rob_meta_q, net, owed)
    BY <1>1 DEF IInv, Held
  <2>2. /\ write_pointer_q = Wrap(read_pointer_q + status_cnt_q)
        /\ status_cnt_q \in 0 .. RoBSize
        /\ \A k \in 1 .. status_cnt_q : /\ w[k].tag = Wrap(read_pointer_q + (k - 1))
                                        /\ w[k].beat.pos = 1
    BY <2>1 DEF Holds
  <2>3. \A s \in rob_valid_q : \E k \in 1 .. status_cnt_q : w[k].tag = s
    BY <2>1 DEF Holds
  <2>4. \A d \in Dests : \A j \in 1 .. Len(net[d]) :
           net[d][j].tag \notin rob_valid_q
           /\ \E k \in 1 .. status_cnt_q : w[k] = net[d][j]
    BY <2>1 DEF Holds
  <2>5. TypeOK
    <3>1. /\ read_pointer_q \in Slots /\ write_pointer_q \in Slots
          /\ rob_valid_q \subseteq Slots
      BY <1>1, HeldTypes DEF IInv
    <3> QED
      BY <1>1, <2>2, <3>1 DEF TypeOK, IInv, AxInv, RspInv
  <2>6. \A k \in 1 .. status_cnt_q : w[k].tag \in InUse
    <3> TAKE k \in 1 .. status_cnt_q
    <3>1. k - 1 \in 0 .. status_cnt_q - 1
      BY <2>2, SimpleRobAssumption
    <3> QED
      BY <2>2, <3>1 DEF InUse
  <2>7. rob_valid_q \subseteq InUse
    BY <2>3, <2>6
  <2>8. ASSUME NEW d \in Dests, NEW k \in DOMAIN net[d]
        PROVE  Wrap(net[d][k].tag + net[d][k].beat.pos - 1) \in InUse \ rob_valid_q
    <3>1. net \in [Dests -> Seq(Flits)]
      BY <1>1, HeldTypes DEF IInv
    <3>2. k \in 1 .. Len(net[d]) /\ net[d] \in Seq(Flits)
      BY <3>1, LenProperties
    <3> DEFINE y == net[d][k]
    <3>3. y \in Flits
      BY <3>2, ElementOfSeq
    <3>4. y.tag \notin rob_valid_q
      BY <2>4, <3>2
    <3>5. PICK i \in 1 .. status_cnt_q : w[i] = y
      BY <2>4, <3>2
    <3> HIDE DEF y
    <3>6. y.tag \in Slots /\ y.tag \in InUse /\ y.beat.pos = 1
      BY <2>2, <2>6, <3>3, <3>5 DEF Flits
    <3>7. Wrap(y.tag + y.beat.pos - 1) = y.tag
      <4>1. y.tag + 1 - 1 = y.tag
        BY <3>6 DEF Slots
      <4> QED
        BY <3>6, <4>1, WrapNone
    <3> QED
      BY <3>4, <3>6, <3>7 DEF y
  <2>9. NoOverflow
    BY <2>2, <2>7, <2>8 DEF NoOverflow
  <2> QED
    BY <2>5, <2>9 DEF SlotsSafe
<1> QED
  BY <1>1, Invariance, PTL

\* Responses of an ID come back in the order of its requests, whole and once:
\* the slots are handed out in the order of the requests and released in that
\* order, whatever order the network answers in (hw/floo_simple_rob.sv).
THEOREM SlotsKeepOrder == OneBeatEach /\ Spec => OrderedResponses
<1>1. Init => AXI!Init
  BY DEF Init, PortsInit, AXI!Init
<1>2. ASSUME IInv, [Next]_vars PROVE [AXI!Next]_<<owed, given>>
  <2>1. CASE WriteIdle \/ ReadWait \/ ReadLeave
    BY <1>2, <2>1, IdleStep, QuietRefines
  <2>2. CASE Store
    BY <1>2, <2>2, StoreStep, QuietRefines
  <2>3. CASE ReadGive
    <3> DEFINE to == rsp_o.id
    <3>1. /\ to \in Ids /\ owed[to] # <<>> /\ given' = Head(owed[to])
          /\ Pushes([owed EXCEPT ![to] = Tail(@)])
      BY <1>2, <2>3, GiveStep
    <3>2. owed \in [Ids -> Seq(Beats)]
      BY <1>2, HeldTypes DEF IInv
    <3> HIDE DEF to
    <3> QED
      BY <3>1, <3>2, GiveRefines
  <2>4. CASE UNCHANGED vars
    BY <2>4 DEF vars, ports
  <2> QED
    BY <1>2, <2>1, <2>2, <2>3, <2>4 DEF Next
<1> QED
  BY <1>1, <1>2, Invariance, PTL DEF Spec, OrderedResponses, AXI!Spec

-----------------------------------------------------------------------------
(* The wrapper runs the alternative it was given *)

IsNoRoB     == RoBType = "NoRoB"
IsSimpleRoB == RoBType = "SimpleRoB"

LEMMA RunsNoRob ==
    WrapperSpec /\ IsNoRoB => NoRobSpec /\ []IsNoRoB
<1>1. ASSUME IsNoRoB, [WrapperNext]_wrapperVars
      PROVE  [NoRobNext]_noRobVars /\ IsNoRoB'
  BY <1>1 DEF IsNoRoB, WrapperNext, NoRoBStep, SimpleRoBStep, wrapperVars, vars, noRobVars
<1>2. WrapperInit => NoRobInit
  BY DEF WrapperInit
<1> QED
  BY <1>1, <1>2, PTL DEF WrapperSpec, NoRobSpec

LEMMA RunsSimpleRob ==
    WrapperSpec /\ IsSimpleRoB => Spec /\ []IsSimpleRoB
<1>1. ASSUME IsSimpleRoB, [WrapperNext]_wrapperVars
      PROVE  [Next]_vars /\ IsSimpleRoB'
  BY <1>1 DEF IsSimpleRoB, WrapperNext, NoRoBStep, SimpleRoBStep, wrapperVars
<1>2. WrapperInit => Init
  BY DEF WrapperInit
<1> QED
  BY <1>1, <1>2, PTL DEF WrapperSpec, Spec

LEMMA OneOfTwo ==
    WrapperSpec => IsNoRoB \/ IsSimpleRoB
<1>1. WrapperInit => IsNoRoB \/ IsSimpleRoB
  BY DEF WrapperInit, IsNoRoB, IsSimpleRoB
<1> QED
  BY <1>1, PTL DEF WrapperSpec

\* The wrapper with NoRoB counts and stalls as it should
\* (hw/floo_rob_wrapper.sv:126-173).
THEOREM WrapperStalls == WrapperSpec => []NoRoBCounters
<1>1. CountersRight => NoRoBCounters
  BY DEF NoRoBCounters, IsNoRoB, IsSimpleRoB
<1>2. IsSimpleRoB => NoRoBCounters
  BY DEF NoRoBCounters, IsNoRoB, IsSimpleRoB
<1> QED
  BY <1>1, <1>2, RunsNoRob, RunsSimpleRob, OneOfTwo, StallingIsRight, PTL

\* The wrapper with SimpleRoB never overflows its slots
\* (hw/floo_simple_rob.sv).
THEOREM WrapperBuffers == OneBeatEach /\ WrapperSpec => []SimpleRoBSlots
<1>1. SlotsSafe => SimpleRoBSlots
  BY DEF SimpleRoBSlots, IsNoRoB, IsSimpleRoB
<1>2. IsNoRoB => SimpleRoBSlots
  BY DEF SimpleRoBSlots, IsNoRoB, IsSimpleRoB
<1> QED
  BY <1>1, <1>2, RunsNoRob, RunsSimpleRob, OneOfTwo, SlotsAreSafe, PTL

\* Behind either alternative the responses of an ID come back in the order of
\* its requests: NoRoB keeps it for bursts too, SimpleRoB for requests of one
\* beat, what the wrapper has it for (hw/floo_rob_wrapper.sv).
THEOREM WrapperKeepsOrder ==
    WrapperSpec /\ (IsNoRoB \/ OneBeatEach) => OrderedResponses
BY RunsNoRob, RunsSimpleRob, OneOfTwo, StallingKeepsOrder, SlotsKeepOrder, PTL

=============================================================================
