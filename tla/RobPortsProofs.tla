--------------------------- MODULE RobPortsProofs ---------------------------
(***************************************************************************)
(* Lemmas about the ports of the reorder buffers: the beats of an ID among  *)
(* those of all IDs, the answers to requests, and which cycles are steps of *)
(* the abstract specification InOrderResponses.                             *)
(***************************************************************************)
EXTENDS RobPorts, SequenceTheorems, FiniteSetTheorems, TLAPS

Beats == [id : Ids, num : Nat, pos : Nat, last : BOOLEAN]
-----------------------------------------------------------------------------
(* The beats of an ID among those of a destination *)

\* The beats of id in the queue s of a destination are those of q, in order:
\* p[k] is the place of the k-th beat.
Merged(id, q, s) ==
    \E p \in [1 .. Len(q) -> 1 .. Len(s)] :
       /\ \A k \in 1 .. Len(q) : s[p[k]].beat = q[k] /\ q[k].id = id
       /\ \A k, l \in 1 .. Len(q) : k < l => p[k] < p[l]
       /\ \A j \in 1 .. Len(s) : s[j].beat.id = id => \E k \in 1 .. Len(q) : p[k] = j

\* Nothing is in order.
LEMMA MergedEmpty ==
    ASSUME NEW id
    PROVE  Merged(id, <<>>, <<>>)
<1> DEFINE p == [k \in 1 .. 0 |-> k]
<1>1. p \in [1 .. Len(<<>>) -> 1 .. Len(<<>>)]
  OBVIOUS
<1>2. \A k \in 1 .. Len(<<>>) : FALSE
  OBVIOUS
<1> QED
  BY <1>1, <1>2 DEF Merged

\* A destination with a beat of an ID has one of those that are owed to it.
LEMMA MergedOwed ==
    ASSUME NEW id, NEW q, NEW s, Merged(id, q, s),
           NEW j \in 1 .. Len(s), s[j].beat.id = id
    PROVE  Len(q) # 0
BY DEF Merged

\* The first beat, if of the ID, is the first that is owed to it.
LEMMA MergedHead ==
    ASSUME NEW id, NEW q \in Seq(Beats), NEW F, NEW s \in Seq(F), Merged(id, q, s),
           s # <<>>, s[1].beat.id = id
    PROVE  /\ q # <<>> /\ q[1] = s[1].beat
           /\ Merged(id, Tail(q), Tail(s))
<1>0. Len(s) \in Nat \ {0} /\ Len(q) \in Nat
  BY EmptySeq, LenProperties
<1>1. PICK p \in [1 .. Len(q) -> 1 .. Len(s)] :
          /\ \A k \in 1 .. Len(q) : s[p[k]].beat = q[k] /\ q[k].id = id
          /\ \A k, l \in 1 .. Len(q) : k < l => p[k] < p[l]
          /\ \A j \in 1 .. Len(s) : s[j].beat.id = id => \E k \in 1 .. Len(q) : p[k] = j
  BY DEF Merged
<1>2. PICK k1 \in 1 .. Len(q) : p[k1] = 1
  BY <1>0, <1>1
<1>3. 1 \in 1 .. Len(q) /\ q # <<>>
  BY <1>0, <1>2
<1>4. k1 = 1
  <2>1. p[1] \in 1 .. Len(s) /\ (1 < k1 => p[1] < p[k1])
    BY <1>1, <1>3, <1>2
  <2> QED
    BY <2>1, <1>2, <1>0
<1>5. q[1] = s[1].beat
  BY <1>1, <1>2, <1>3, <1>4
<1>6. /\ Len(Tail(q)) = Len(q) - 1 /\ Len(Tail(s)) = Len(s) - 1
      /\ \A i \in 1 .. Len(q) - 1 : Tail(q)[i] = q[i + 1]
      /\ \A i \in 1 .. Len(s) - 1 : Tail(s)[i] = s[i + 1]
  BY <1>3, HeadTailProperties
<1> DEFINE r == [k \in 1 .. Len(q) - 1 |-> p[k + 1] - 1]
<1>7. \A k \in 1 .. Len(q) - 1 : /\ k + 1 \in 1 .. Len(q)
                                 /\ p[k + 1] \in 2 .. Len(s)
                                 /\ r[k] = p[k + 1] - 1
                                 /\ r[k] \in 1 .. Len(s) - 1
                                 /\ r[k] + 1 = p[k + 1]
  <2> TAKE k \in 1 .. Len(q) - 1
  <2>1. k + 1 \in 1 .. Len(q) /\ 1 < k + 1
    BY <1>0
  <2>2. p[k + 1] \in 1 .. Len(s) /\ p[1] < p[k + 1]
    BY <2>1, <1>1, <1>3
  <2> QED
    BY <2>1, <2>2, <1>2, <1>4, <1>0
<1> HIDE DEF r
<1>8. r \in [1 .. Len(Tail(q)) -> 1 .. Len(Tail(s))]
  BY <1>6, <1>7 DEF r
<1>9. \A k \in 1 .. Len(q) - 1 : Tail(s)[r[k]].beat = Tail(q)[k] /\ Tail(q)[k].id = id
  <2> TAKE k \in 1 .. Len(q) - 1
  <2>1. Tail(s)[r[k]] = s[p[k + 1]] /\ Tail(q)[k] = q[k + 1]
    BY <1>6, <1>7
  <2> QED
    BY <2>1, <1>1, <1>7
<1>10. \A k, l \in 1 .. Len(q) - 1 : k < l => r[k] < r[l]
  <2> TAKE k, l \in 1 .. Len(q) - 1
  <2> HAVE k < l
  <2>1. p[k + 1] < p[l + 1]
    BY <1>1, <1>7
  <2> QED
    BY <2>1, <1>7
<1>11. \A j \in 1 .. Len(s) - 1 : Tail(s)[j].beat.id = id
          => \E k \in 1 .. Len(q) - 1 : r[k] = j
  <2> TAKE j \in 1 .. Len(s) - 1
  <2> HAVE Tail(s)[j].beat.id = id
  <2>1. s[j + 1].beat.id = id /\ j + 1 \in 1 .. Len(s)
    BY <1>6, <1>0
  <2>2. PICK k \in 1 .. Len(q) : p[k] = j + 1
    BY <2>1, <1>1
  <2>3. k # 1
    BY <2>2, <1>2, <1>4
  <2>4. k - 1 \in 1 .. Len(q) - 1 /\ k - 1 + 1 = k
    BY <2>3, <1>0
  <2>5. r[k - 1] = j
    BY <2>2, <2>4, <1>7
  <2> QED
    BY <2>4, <2>5
<1>12. Merged(id, Tail(q), Tail(s))
  <2>1. /\ \A k \in 1 .. Len(Tail(q)) : Tail(s)[r[k]].beat = Tail(q)[k] /\ Tail(q)[k].id = id
        /\ \A k, l \in 1 .. Len(Tail(q)) : k < l => r[k] < r[l]
    BY <1>6, <1>9, <1>10
  <2>2. \A j \in 1 .. Len(Tail(s)) : Tail(s)[j].beat.id = id
           => \E k \in 1 .. Len(Tail(q)) : r[k] = j
    BY <1>6, <1>11
  <2> QED
    BY <1>8, <2>1, <2>2, Zenon DEF Merged
<1> QED
  BY <1>3, <1>5, <1>12

\* The first beat, if of another ID, leaves the order of this one.
LEMMA MergedOther ==
    ASSUME NEW id, NEW q \in Seq(Beats), NEW F, NEW s \in Seq(F), Merged(id, q, s),
           s # <<>>, s[1].beat.id # id
    PROVE  Merged(id, q, Tail(s))
<1>0. Len(s) \in Nat \ {0} /\ Len(q) \in Nat
  BY EmptySeq, LenProperties
<1>1. PICK p \in [1 .. Len(q) -> 1 .. Len(s)] :
          /\ \A k \in 1 .. Len(q) : s[p[k]].beat = q[k] /\ q[k].id = id
          /\ \A k, l \in 1 .. Len(q) : k < l => p[k] < p[l]
          /\ \A j \in 1 .. Len(s) : s[j].beat.id = id => \E k \in 1 .. Len(q) : p[k] = j
  BY DEF Merged
<1>2. /\ Len(Tail(s)) = Len(s) - 1
      /\ \A i \in 1 .. Len(s) - 1 : Tail(s)[i] = s[i + 1]
  BY HeadTailProperties
<1> DEFINE r == [k \in 1 .. Len(q) |-> p[k] - 1]
<1>3. \A k \in 1 .. Len(q) : /\ r[k] = p[k] - 1 /\ p[k] \in 2 .. Len(s)
                             /\ r[k] \in 1 .. Len(s) - 1 /\ r[k] + 1 = p[k]
  <2> TAKE k \in 1 .. Len(q)
  <2>1. p[k] \in 1 .. Len(s) /\ p[k] # 1
    BY <1>1
  <2> QED
    BY <2>1, <1>0
<1> HIDE DEF r
<1>4. r \in [1 .. Len(q) -> 1 .. Len(Tail(s))]
  BY <1>2, <1>3 DEF r
<1>5. \A k \in 1 .. Len(q) : Tail(s)[r[k]].beat = q[k] /\ q[k].id = id
  BY <1>1, <1>2, <1>3
<1>6. \A k, l \in 1 .. Len(q) : k < l => r[k] < r[l]
  <2> TAKE k, l \in 1 .. Len(q)
  <2> HAVE k < l
  <2> QED
    BY <1>1, <1>3
<1>7. \A j \in 1 .. Len(s) - 1 : Tail(s)[j].beat.id = id
          => \E k \in 1 .. Len(q) : r[k] = j
  <2> TAKE j \in 1 .. Len(s) - 1
  <2> HAVE Tail(s)[j].beat.id = id
  <2>1. s[j + 1].beat.id = id /\ j + 1 \in 1 .. Len(s)
    BY <1>2, <1>0
  <2>2. PICK k \in 1 .. Len(q) : p[k] = j + 1
    BY <2>1, <1>1
  <2>3. r[k] = j
    BY <2>2, <1>3
  <2> QED
    BY <2>3
<1> QED
  BY <1>2, <1>4, <1>5, <1>6, <1>7 DEF Merged

\* The elements of a concatenation.
LEMMA ConcatElements ==
    ASSUME NEW S, NEW s \in Seq(S), NEW t \in Seq(S)
    PROVE  /\ s \o t \in Seq(S) /\ Len(s \o t) = Len(s) + Len(t)
           /\ Len(s) \in Nat /\ Len(t) \in Nat
           /\ \A i \in 1 .. Len(s) : (s \o t)[i] = s[i]
           /\ \A i \in 1 .. Len(t) : (s \o t)[Len(s) + i] = t[i]
<1>1. Len(s) \in Nat /\ Len(t) \in Nat
  BY LenProperties
<1> DEFINE st == s \o t
<1>2. /\ st \in Seq(S) /\ Len(st) = Len(s) + Len(t)
      /\ \A i \in 1 .. Len(s) + Len(t) :
            st[i] = IF i <= Len(s) THEN s[i] ELSE t[i - Len(s)]
  BY ConcatProperties
<1> HIDE DEF st
<1>3. \A i \in 1 .. Len(s) : st[i] = s[i]
  BY <1>1, <1>2
<1>4. ASSUME NEW i \in 1 .. Len(t) PROVE st[Len(s) + i] = t[i]
  <2>1. /\ Len(s) + i \in 1 .. Len(s) + Len(t) /\ ~ (Len(s) + i <= Len(s))
        /\ Len(s) + i - Len(s) = i
    BY <1>1
  <2> QED
    BY <2>1, <1>2
<1> QED
  BY <1>1, <1>2, <1>3, <1>4 DEF st

LEMMA TailOfConcat ==
    ASSUME NEW S, NEW s \in Seq(S), NEW t \in Seq(S), s # <<>>
    PROVE  Tail(s) \o t = Tail(s \o t)
<1> DEFINE u == Tail(s) \o t
           v == Tail(s \o t)
<1>1. Len(s) \in Nat \ {0} /\ Len(t) \in Nat
  BY EmptySeq, LenProperties
<1>2. /\ Tail(s) \in Seq(S) /\ Len(Tail(s)) = Len(s) - 1
      /\ \A i \in 1 .. Len(s) - 1 : Tail(s)[i] = s[i + 1]
  BY HeadTailProperties
<1>3. /\ s \o t \in Seq(S) /\ Len(s \o t) = Len(s) + Len(t) /\ s \o t # <<>>
      /\ \A i \in 1 .. Len(s) + Len(t) :
            (s \o t)[i] = IF i <= Len(s) THEN s[i] ELSE t[i - Len(s)]
  BY <1>1, ConcatProperties, ConcatEqualIffEmpty
<1>4. /\ v \in Seq(S) /\ Len(v) = Len(s) + Len(t) - 1
      /\ \A i \in 1 .. Len(s) + Len(t) - 1 : v[i] = (s \o t)[i + 1]
  BY <1>3, HeadTailProperties
<1>5. /\ u \in Seq(S) /\ Len(u) = Len(s) + Len(t) - 1
      /\ \A i \in 1 .. Len(s) + Len(t) - 1 :
            u[i] = IF i <= Len(s) - 1 THEN Tail(s)[i] ELSE t[i - (Len(s) - 1)]
  <2> DEFINE w == Tail(s)
  <2>1. w \in Seq(S) /\ Len(w) = Len(s) - 1
    BY <1>2
  <2> HIDE DEF w
  <2>2. /\ w \o t \in Seq(S) /\ Len(w \o t) = Len(w) + Len(t)
        /\ \A i \in 1 .. Len(w) + Len(t) :
              (w \o t)[i] = IF i <= Len(w) THEN w[i] ELSE t[i - Len(w)]
    BY <2>1, ConcatProperties
  <2>3. Len(w) + Len(t) = Len(s) + Len(t) - 1
    BY <2>1, <1>1
  <2> QED
    BY <2>1, <2>2, <2>3 DEF w
<1> HIDE DEF u, v
<1>6. ASSUME NEW i \in 1 .. Len(u) PROVE u[i] = v[i]
  <2>1. i \in 1 .. Len(s) + Len(t) - 1
    BY <1>5
  <2>2. CASE i <= Len(s) - 1
    <3>1. i + 1 \in 1 .. Len(s) + Len(t) /\ i + 1 <= Len(s) /\ i \in 1 .. Len(s) - 1
      BY <2>1, <2>2, <1>1
    <3> QED
      BY <3>1, <2>1, <2>2, <1>2, <1>3, <1>4, <1>5
  <2>3. CASE ~ (i <= Len(s) - 1)
    <3>1. i + 1 \in 1 .. Len(s) + Len(t) /\ ~ (i + 1 <= Len(s))
          /\ i + 1 - Len(s) = i - (Len(s) - 1)
      BY <2>1, <2>3, <1>1
    <3> QED
      BY <3>1, <2>1, <2>3, <1>3, <1>4, <1>5
  <2> QED
    BY <2>2, <2>3
<1>7. u = v
  BY <1>4, <1>5, <1>6, SeqEqual
<1> QED
  BY <1>7 DEF u, v

\* The answer to a request of the ID is queued behind.
LEMMA MergedAppend ==
    ASSUME NEW id, NEW q \in Seq(Beats), NEW F, NEW s \in Seq(F), Merged(id, q, s),
           NEW b \in Seq(Beats), NEW f \in Seq(F), Len(f) = Len(b),
           \A k \in 1 .. Len(b) : f[k].beat = b[k] /\ b[k].id = id
    PROVE  Merged(id, q \o b, s \o f)
<1>0. Len(s) \in Nat /\ Len(q) \in Nat /\ Len(b) \in Nat
  BY LenProperties
<1>1. PICK p \in [1 .. Len(q) -> 1 .. Len(s)] :
          /\ \A k \in 1 .. Len(q) : s[p[k]].beat = q[k] /\ q[k].id = id
          /\ \A k, l \in 1 .. Len(q) : k < l => p[k] < p[l]
          /\ \A j \in 1 .. Len(s) : s[j].beat.id = id => \E k \in 1 .. Len(q) : p[k] = j
  BY DEF Merged
<1> DEFINE qb == q \o b
           sf == s \o f
           r == [k \in 1 .. Len(qb) |->
                   IF k <= Len(q) THEN p[k] ELSE Len(s) + (k - Len(q))]
<1>2. /\ Len(qb) = Len(q) + Len(b) /\ Len(sf) = Len(s) + Len(b)
      /\ \A i \in 1 .. Len(q) : qb[i] = q[i]
      /\ \A i \in 1 .. Len(b) : qb[Len(q) + i] = b[i]
      /\ \A i \in 1 .. Len(s) : sf[i] = s[i]
      /\ \A i \in 1 .. Len(b) : sf[Len(s) + i] = f[i]
  <2>1. /\ Len(qb) = Len(q) + Len(b)
        /\ \A i \in 1 .. Len(q) : qb[i] = q[i]
        /\ \A i \in 1 .. Len(b) : qb[Len(q) + i] = b[i]
    BY ConcatElements
  <2>2. /\ Len(sf) = Len(s) + Len(b)
        /\ \A i \in 1 .. Len(s) : sf[i] = s[i]
        /\ \A i \in 1 .. Len(b) : sf[Len(s) + i] = f[i]
    <3>1. \A u, v \in Seq(F) :
             /\ Len(u \o v) = Len(u) + Len(v)
             /\ \A i \in 1 .. Len(u) : (u \o v)[i] = u[i]
             /\ \A i \in 1 .. Len(v) : (u \o v)[Len(u) + i] = v[i]
      BY ConcatElements
    <3> QED
      BY <3>1
  <2> QED
    BY <2>1, <2>2
<1> HIDE DEF qb, sf
<1>3. \A k \in 1 .. Len(q) : r[k] = p[k] /\ p[k] \in 1 .. Len(s)
  <2> TAKE k \in 1 .. Len(q)
  <2>1. k \in 1 .. Len(qb) /\ k <= Len(q)
    BY <1>0, <1>2
  <2>2. r[k] = p[k]
    BY <2>1
  <2>3. p[k] \in 1 .. Len(s)
    BY <1>1
  <2> QED
    BY <2>2, <2>3
<1>4. \A i \in 1 .. Len(b) : Len(q) + i \in 1 .. Len(qb) /\ r[Len(q) + i] = Len(s) + i
  BY <1>0, <1>2
<1> HIDE DEF r
<1>5. \A k \in 1 .. Len(qb) : k \in 1 .. Len(q) \/ \E i \in 1 .. Len(b) : k = Len(q) + i
  <2> TAKE k \in 1 .. Len(qb)
  <2>1. k \notin 1 .. Len(q) => k - Len(q) \in 1 .. Len(b) /\ k = Len(q) + (k - Len(q))
    BY <1>0, <1>2
  <2> QED
    BY <2>1
<1>6. \A j \in 1 .. Len(sf) : j \in 1 .. Len(s) \/ \E i \in 1 .. Len(b) : j = Len(s) + i
  <2> TAKE j \in 1 .. Len(sf)
  <2>1. j \notin 1 .. Len(s) => j - Len(s) \in 1 .. Len(b) /\ j = Len(s) + (j - Len(s))
    BY <1>0, <1>2
  <2> QED
    BY <2>1
<1>7. r \in [1 .. Len(qb) -> 1 .. Len(sf)]
  <2>1. \A k \in 1 .. Len(qb) : r[k] \in 1 .. Len(sf)
    <3> TAKE k \in 1 .. Len(qb)
    <3>1. CASE k \in 1 .. Len(q)
      BY <3>1, <1>0, <1>2, <1>3
    <3>2. CASE \E i \in 1 .. Len(b) : k = Len(q) + i
      BY <3>2, <1>0, <1>2, <1>4
    <3> QED
      BY <3>1, <3>2, <1>5
  <2> QED
    BY <2>1 DEF r
<1>8. \A k \in 1 .. Len(qb) : sf[r[k]].beat = qb[k] /\ qb[k].id = id
  <2> TAKE k \in 1 .. Len(qb)
  <2>1. CASE k \in 1 .. Len(q)
    <3>1. /\ sf[r[k]] = s[p[k]] /\ qb[k] = q[k]
      BY <2>1, <1>2, <1>3
    <3> QED
      BY <2>1, <3>1, <1>1
  <2>2. CASE \E i \in 1 .. Len(b) : k = Len(q) + i
    <3>1. PICK i \in 1 .. Len(b) : k = Len(q) + i
      BY <2>2
    <3>2. sf[r[k]] = f[i] /\ qb[k] = b[i]
      BY <3>1, <1>2, <1>4
    <3> QED
      BY <3>2
  <2> QED
    BY <2>1, <2>2, <1>5
<1>9. \A k, l \in 1 .. Len(qb) : k < l => r[k] < r[l]
  <2> TAKE k, l \in 1 .. Len(qb)
  <2> HAVE k < l
  <2>1. CASE k \in 1 .. Len(q) /\ l \in 1 .. Len(q)
    BY <2>1, <1>1, <1>3
  <2>2. CASE k \in 1 .. Len(q) /\ \E i \in 1 .. Len(b) : l = Len(q) + i
    BY <2>2, <1>0, <1>3, <1>4
  <2>3. CASE (\E i \in 1 .. Len(b) : k = Len(q) + i) /\ \E i \in 1 .. Len(b) : l = Len(q) + i
    BY <2>3, <1>0, <1>4
  <2>4. CASE (\E i \in 1 .. Len(b) : k = Len(q) + i) /\ l \in 1 .. Len(q)
    BY <2>4, <1>0
  <2> QED
    BY <2>1, <2>2, <2>3, <2>4, <1>5
<1>10. \A j \in 1 .. Len(sf) : sf[j].beat.id = id => \E k \in 1 .. Len(qb) : r[k] = j
  <2> TAKE j \in 1 .. Len(sf)
  <2> HAVE sf[j].beat.id = id
  <2>1. CASE j \in 1 .. Len(s)
    <3>1. PICK k \in 1 .. Len(q) : p[k] = j
      BY <2>1, <1>1, <1>2
    <3>2. k \in 1 .. Len(qb) /\ r[k] = j
      BY <3>1, <1>0, <1>2, <1>3
    <3> QED
      BY <3>2
  <2>2. CASE \E i \in 1 .. Len(b) : j = Len(s) + i
    BY <2>2, <1>4
  <2> QED
    BY <2>1, <2>2, <1>6
<1>11. Merged(id, qb, sf)
  BY <1>7, <1>8, <1>9, <1>10, Zenon DEF Merged
<1> QED
  BY <1>11 DEF qb, sf

\* The answer to a request of another ID leaves the order of this one.
LEMMA MergedAppendOther ==
    ASSUME NEW id, NEW q \in Seq(Beats), NEW F, NEW s \in Seq(F), Merged(id, q, s),
           NEW f \in Seq(F), \A k \in 1 .. Len(f) : f[k].beat.id # id
    PROVE  Merged(id, q, s \o f)
<1>0. Len(s) \in Nat /\ Len(q) \in Nat /\ Len(f) \in Nat
  BY LenProperties
<1>1. PICK p \in [1 .. Len(q) -> 1 .. Len(s)] :
          /\ \A k \in 1 .. Len(q) : s[p[k]].beat = q[k] /\ q[k].id = id
          /\ \A k, l \in 1 .. Len(q) : k < l => p[k] < p[l]
          /\ \A j \in 1 .. Len(s) : s[j].beat.id = id => \E k \in 1 .. Len(q) : p[k] = j
  BY DEF Merged
<1> DEFINE sf == s \o f
<1>2. /\ Len(sf) = Len(s) + Len(f)
      /\ \A i \in 1 .. Len(s) : sf[i] = s[i]
      /\ \A i \in 1 .. Len(f) : sf[Len(s) + i] = f[i]
  <2>1. \A u, v \in Seq(F) :
           /\ Len(u \o v) = Len(u) + Len(v)
           /\ \A i \in 1 .. Len(u) : (u \o v)[i] = u[i]
           /\ \A i \in 1 .. Len(v) : (u \o v)[Len(u) + i] = v[i]
    BY ConcatElements
  <2>2. s \in Seq(F) /\ f \in Seq(F)
    OBVIOUS
  <2> QED
    BY <2>1, <2>2, Zenon
<1> HIDE DEF sf
<1>3. p \in [1 .. Len(q) -> 1 .. Len(sf)]
  BY <1>0, <1>2
<1>4. \A k \in 1 .. Len(q) : sf[p[k]].beat = q[k] /\ q[k].id = id
  BY <1>1, <1>2
<1>5. \A j \in 1 .. Len(sf) : sf[j].beat.id = id => \E k \in 1 .. Len(q) : p[k] = j
  <2> TAKE j \in 1 .. Len(sf)
  <2> HAVE sf[j].beat.id = id
  <2>1. j \notin 1 .. Len(s) => j - Len(s) \in 1 .. Len(f) /\ j = Len(s) + (j - Len(s))
    BY <1>0, <1>2
  <2>2. j \in 1 .. Len(s)
    BY <2>1, <1>2
  <2> QED
    BY <2>2, <1>1, <1>2
<1>6. Merged(id, q, sf)
  BY <1>1, <1>3, <1>4, <1>5, Zenon DEF Merged
<1> QED
  BY <1>6 DEF sf

-----------------------------------------------------------------------------
(* The ports *)

AxInv ==
    /\ issued \in [Ids -> Nat]
    /\ ax \in Requests \cup {NoAx}
    /\ ax # NoAx => issued[ax.id] < MaxRequests

RspInv ==
    /\ rsp \in Dests \cup {NoRsp}
    /\ rsp # NoRsp => net[rsp] # <<>>

LEMMA BurstBeats ==
    ASSUME NEW id \in Ids, NEW num \in Nat, NEW len \in Nat,
           NEW b, b = Burst(id, num, len)
    PROVE  /\ b \in Seq(Beats) /\ b # <<>>
           /\ \A k \in 1 .. Len(b) : b[k].id = id /\ (b[k].last <=> k = Len(b))
<1>1. \A k \in 1 .. len + 1 :
         b[k] = [id |-> id, num |-> num, pos |-> k, last |-> k = len + 1]
  BY DEF Burst
<1>2. b \in [1 .. len + 1 -> Beats]
  BY DEF Burst, Beats
<1>3. b \in Seq(Beats)
  BY <1>2, SeqDef
<1>4. DOMAIN b = 1 .. len + 1 /\ DOMAIN b = 1 .. Len(b)
  BY <1>2, <1>3, LenProperties
<1>5. Len(b) = len + 1
  <2>1. Len(b) \in Nat /\ 1 .. Len(b) = 1 .. len + 1
    BY <1>3, <1>4, LenProperties
  <2> QED
    BY <2>1
<1>6. b # <<>>
  BY <1>3, <1>5, EmptySeq
<1>7. \A k \in 1 .. len + 1 : b[k].id = id /\ (b[k].last <=> k = len + 1)
  <2> TAKE k \in 1 .. len + 1
  <2>1. b[k] = [id |-> id, num |-> num, pos |-> k, last |-> k = len + 1]
    BY <1>1
  <2> DEFINE v == k = len + 1
  <2>2. b[k] = [id |-> id, num |-> num, pos |-> k, last |-> v]
    BY <2>1
  <2> HIDE DEF v
  <2>3. b[k].id = id /\ b[k].last = v
    BY <2>2
  <2> QED
    BY <2>3 DEF v
<1> QED
  BY <1>3, <1>5, <1>6, <1>7

LEMMA RequestTypes ==
    ASSUME NEW r \in Requests
    PROVE  /\ r.id \in Ids /\ r.dest \in Dests /\ r.len \in Nat /\ r.len \in Lens
           /\ r # NoAx
<1>1. BurstIds \subseteq Ids /\ BurstLens \subseteq Nat
  BY PortsAssumption DEF Ids
<1>2. \/ r \in [id : BurstIds, dest : Dests, len : BurstLens]
      \/ r \in [id : Ids \ BurstIds, dest : Dests, len : {0}]
  BY DEF Requests
<1>3. r.id \in Ids /\ r.dest \in Dests /\ r.len \in Nat /\ r.len \in Lens
  <2>1. CASE r \in [id : BurstIds, dest : Dests, len : BurstLens]
    BY <2>1, <1>1 DEF Lens
  <2>2. CASE r \in [id : Ids \ BurstIds, dest : Dests, len : {0}]
    BY <2>2 DEF Lens
  <2> QED
    BY <1>2, <2>1, <2>2
<1>4. NoAx.id \notin Ids
  BY DEF NoAx, Ids
<1> QED
  BY <1>3, <1>4

\* What is owed after the request side of a cycle, whose response side leaves
\* owed1.
Pushes(owed1) ==
    \/ owed' = owed1
    \/ /\ ax.id \in Ids
       /\ \E b \in AllBursts : owed' = [owed1 EXCEPT ![ax.id] = @ \o b]

\* The response port keeps offering what the network has.
LEMMA OfferKept ==
    ASSUME NEW net1, \A d \in Dests : net1[d] # <<>> => net'[d] # <<>>,
           NewRsp(net1) \/ (rsp' = rsp /\ net1 = net /\ RspInv)
    PROVE  RspInv'
BY DEF NewRsp, RspInv

-----------------------------------------------------------------------------
(* The steps of the abstract specification *)

\* No beat is given.
LEMMA QuietRefines ==
    ASSUME given' = NoBeat, Pushes(owed)
    PROVE  [AXI!Next]_<<owed, given>>
<1>1. CASE owed' = owed
  BY <1>1 DEF AXI!Next, AXI!Quiet
<1>2. CASE ax.id \in Ids /\ \E b \in AllBursts : owed' = [owed EXCEPT ![ax.id] = @ \o b]
  <2>1. PICK b \in AllBursts : owed' = [owed EXCEPT ![ax.id] = @ \o b]
    BY <1>2
  <2>2. AXI!Accept(ax.id, b)
    BY <2>1 DEF AXI!Accept, AXI!Accepted
  <2> QED
    BY <1>2, <2>2 DEF AXI!Next
<1> QED
  BY <1>1, <1>2 DEF Pushes

\* The first beat owed to an ID is given.
LEMMA GiveRefines ==
    ASSUME owed \in [Ids -> Seq(Beats)],
           NEW to \in Ids, owed[to] # <<>>, given' = Head(owed[to]),
           Pushes([owed EXCEPT ![to] = Tail(@)])
    PROVE  [AXI!Next]_<<owed, given>>
<1> DEFINE rest == [owed EXCEPT ![to] = Tail(@)]
<1>1. CASE owed' = rest
  <2>1. AXI!Give(to)
    BY <1>1 DEF AXI!Give
  <2> QED
    BY <2>1 DEF AXI!Next
<1>2. CASE ax.id \in Ids /\ \E b \in AllBursts : owed' = [rest EXCEPT ![ax.id] = @ \o b]
  <2>1. PICK b \in AllBursts : owed' = [rest EXCEPT ![ax.id] = @ \o b]
    BY <1>2
  <2>2. b \in Seq(Beats)
    <3>1. PICK id \in Ids, num \in 0 .. MaxRequests, len \in Lens :
             b = Burst(id, num, len)
      BY DEF AllBursts
    <3>2. num \in Nat /\ len \in Nat
      BY PortsAssumption DEF Lens
    <3> QED
      BY <3>1, <3>2, BurstBeats
  <2>3. [rest EXCEPT ![ax.id] = @ \o b]
           = [[owed EXCEPT ![ax.id] = @ \o b] EXCEPT ![to] = Tail(@)]
    <3>1. Tail(owed[to]) \o b = Tail(owed[to] \o b)
      BY <2>2, TailOfConcat
    <3>2. CASE to = ax.id
      BY <3>1, <3>2
    <3>3. CASE to # ax.id
      BY <3>3
    <3> QED
      BY <3>2, <3>3
  <2>4. AXI!AcceptAndGive(ax.id, b, to)
    BY <2>1, <2>3 DEF AXI!AcceptAndGive, AXI!Accepted
  <2> QED
    BY <1>2, <2>4 DEF AXI!Next
<1> QED
  BY <1>1, <1>2 DEF Pushes

=============================================================================
