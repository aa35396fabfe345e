-------------------------- MODULE AxiChimneyProofs --------------------------
(***************************************************************************)
(* Proofs about AxiChimney for any requests, any numbers of headers,        *)
(* identifiers and transactions, and links of any depth: atomics have       *)
(* identifiers of their own, a write is one packet, and every response      *)
(* finds its header and returns in order.                                   *)
(***************************************************************************)
EXTENDS AxiChimney, SequenceTheorems, FunctionTheorems, FiniteSetTheorems,
        WellFoundedInduction, TLAPS

-----------------------------------------------------------------------------
(* The inductive invariant.  A transaction is known by its number, and it    *)
(* travels from place to place: offered, on the link, in the spill register, *)
(* at the subordinate.  The places are sets of numbers.                      *)

Numbers(q) == {q[i].txn : i \in DOMAIN q}
FlitsOf(q, ch) == {q[k].txn : k \in {k \in DOMAIN q : q[k].ch = ch}}
LinkAw == FlitsOf(req_link, "AW")
LinkAr == FlitsOf(req_link, "AR")
Offered(t) == {t} \ {0}

Before(S, T)  == \A s \in S, t \in T : s < t
Increasing(q) == \A i, j \in DOMAIN q : i < j => q[i].txn < q[j].txn
FlitsIncrease(q, ch) ==
    \A k, l \in DOMAIN q : k < l /\ q[k].ch = ch /\ q[l].ch = ch => q[k].txn < q[l].txn

Txns     == [kind : {"read", "write", "store", "load"}, id : Nat, beats : Nat \ {0}]
Headers  == [id : Nat, txn : Nat]
ReqFlits == [ch : {"AW", "AR", "W"}, txn : Nat, of : Nat, last : BOOLEAN]
RspFlits == [ch : RspChannels, txn : Nat, of : Nat, last : BOOLEAN]

Types ==
    /\ txn \in Seq(Txns) /\ got \in Seq([RspChannels -> Nat]) /\ Len(got) = Len(txn)
    /\ \A t \in DOMAIN txn : txn[t].kind = "load" => txn[t].beats = 1
    /\ aw \in Nat /\ ar \in Nat /\ packet \in Nat /\ axi_aw_id_q \in Nat
    /\ w \in Seq(Nat) /\ aw_w_sel_q \in {"SelAw", "SelW"} /\ req_arb \in {"none", "W"}
    /\ req_link \in Seq(ReqFlits) /\ rsp_link \in Seq(RspFlits)
    /\ rob \in [RspChannels -> RspFlits \cup {NoFlit}] /\ rob_pending_q \in SUBSET RspChannels
    /\ aw_queue \in Seq(Headers) /\ ar_queue \in Seq(Headers) /\ aw_out_queue \in Seq(Headers)
    /\ writes \in Seq(Headers) /\ data_done \subseteq Nat /\ aw_offer \in Headers
    /\ reads \in Seq([id : Nat, txn : Nat, left : Nat \ {0}])
    /\ aw_atop \in [AtopIds -> Nat] /\ ar_atop \in [AtopIds -> Nat]
    /\ lzc_cnt_q \in AtopIds /\ atop_req_pending_q \in BOOLEAN

\* The writes, and the reads, that have been asked for and not answered, by place.
WriteNumbers == Numbers(writes) \cup Numbers(aw_out_queue) \cup LinkAw \cup Offered(aw)
ReadNumbers  == LinkAr \cup Offered(ar)

Known ==
    /\ \A t \in WriteNumbers : t \in DOMAIN txn /\ HasB(t)
    /\ \A t \in ReadNumbers : t \in DOMAIN txn /\ txn[t].kind = "read"
    /\ \A t \in Numbers(reads) : t \in DOMAIN txn /\ HasR(t)
    /\ \A k \in DOMAIN rsp_link : rsp_link[k].txn \in DOMAIN txn
    /\ \A ch \in RspChannels : rob[ch] # NoFlit => rob[ch].txn \in DOMAIN txn /\ ~is_atop(rob[ch].txn)

\* Requests overtake no others of their channel.
WritesInOrder ==
    /\ Increasing(writes) /\ Increasing(aw_out_queue) /\ FlitsIncrease(req_link, "AW")
    /\ Before(Numbers(writes), Numbers(aw_out_queue))
    /\ Before(Numbers(writes) \cup Numbers(aw_out_queue), LinkAw)
    /\ Before(Numbers(writes) \cup Numbers(aw_out_queue) \cup LinkAw, Offered(aw))
ReadsInOrder ==
    /\ FlitsIncrease(req_link, "AR") /\ Before(LinkAr, Offered(ar))
    /\ \A i, j \in DOMAIN reads :
          i < j => /\ reads[i].txn # reads[j].txn
                   /\ ~is_atop(reads[i].txn) /\ ~is_atop(reads[j].txn) => reads[i].txn < reads[j].txn
    /\ \A t \in Numbers(reads) :
          IF is_atop(t) THEN Before({t}, Numbers(aw_out_queue) \cup LinkAw \cup Offered(aw))
          ELSE Before({t}, ReadNumbers)

\* Identifiers at the subordinate: those of atomics are in the registers.
OwnId(q) ==
    \A i \in DOMAIN q : ~is_atop(q[i].txn) => q[i].id = no_atop_req_id(q[i].txn)
InRegister(q, atop) ==
    \A i \in DOMAIN q : is_atop(q[i].txn) => q[i].id \in AtopIds /\ atop[q[i].id] = q[i].txn
LoadsInRegister ==
    \A i \in DOMAIN aw_out_queue :
       atop_has_r_rsp(aw_out_queue[i].txn) => ar_atop[aw_out_queue[i].id] = aw_out_queue[i].txn
IdsRight ==
    /\ OwnId(writes) /\ OwnId(aw_out_queue) /\ OwnId(reads)
    /\ InRegister(writes, aw_atop) /\ InRegister(aw_out_queue, aw_atop) /\ InRegister(reads, ar_atop)
    /\ LoadsInRegister
    /\ \A i \in AtopIds : aw_atop[i] # 0 /\ ar_atop[i] # 0 => aw_atop[i] = ar_atop[i]
    /\ atop_req_pending_q => aw_atop[lzc_cnt_q] = 0 /\ ar_atop[lzc_cnt_q] = 0

\* The queues hold the headers of what is outstanding, in order.
QueuesRight ==
    /\ OwnId(aw_queue) /\ OwnId(ar_queue) /\ Increasing(aw_queue) /\ Increasing(ar_queue)
    /\ Numbers(aw_queue) = {t \in Numbers(writes) \cup Numbers(aw_out_queue) : ~is_atop(t)}
    /\ Numbers(ar_queue) = {t \in Numbers(reads) : ~is_atop(t)}

\* The writes whose data is not complete at the subordinate; those it is complete
\* for have left the link, and are not answered.
Pending   == (Numbers(writes) \cup Numbers(aw_out_queue) \cup LinkAw) \ data_done
DataRight == data_done \subseteq Numbers(writes) \cup Numbers(aw_out_queue)

IsWriteFlit(f) == f.ch \in {"AW", "W"}
LastData(f)    == f.ch = "W" /\ f.last

\* What is sent of the packet under way, and what the data is for.
PacketRight ==
    /\ packet # 0 <=> aw_w_sel_q = "SelW"
    /\ packet # 0 <=> req_arb = "W"
    /\ packet # 0 => packet = axi_aw_id_q /\ packet \in Pending /\ Before({packet}, Offered(aw))
    /\ \A i \in DOMAIN w : w[i] \in Offered(packet) \cup Offered(aw)
    /\ \A i, j \in DOMAIN w : i < j => w[i] <= w[j]
    /\ packet # 0 => w # <<>> /\ w[1] = packet
    /\ aw # 0 => w # <<>> /\ w[Len(w)] = aw
PacketsOnLink ==
    /\ \A k, l \in DOMAIN req_link : k < l /\ IsWriteFlit(req_link[k]) /\ IsWriteFlit(req_link[l]) =>
          /\ req_link[k].of <= req_link[l].of
          /\ LastData(req_link[k]) \/ req_link[l].ch = "AW" => req_link[k].of < req_link[l].of
    /\ \A k \in DOMAIN req_link :
          /\ req_link[k].txn = req_link[k].of
          /\ IsWriteFlit(req_link[k]) => /\ Before({req_link[k].of}, Offered(aw))
                                         /\ packet # 0 => req_link[k].of <= packet
                                         /\ req_link[k].of \in Pending
          /\ LastData(req_link[k]) => req_link[k].of # packet
    /\ \A t \in Pending : t # packet => \E k \in DOMAIN req_link : LastData(req_link[k]) /\ req_link[k].of = t

\* Responses still to come, on the link, and in a reorder buffer.
ToCome(t, ch) ==
    IF ch = "B" THEN IF t \in WriteNumbers THEN 1 ELSE 0
    ELSE IF t \in Numbers(reads) THEN reads[Entry(reads, t)].left
    ELSE IF HasR(t) /\ t \in Numbers(aw_out_queue) \cup LinkAw \cup Offered(aw) \cup ReadNumbers
         THEN txn[t].beats ELSE 0
RspFor(k, t, ch) == rsp_link[k].ch = ch /\ rsp_link[k].txn = t
OnLink(t, ch)    == {k \in DOMAIN rsp_link : RspFor(k, t, ch)}
Kept(t, ch)      == rob[ch] # NoFlit /\ rob[ch].txn = t

Accounted ==
    \A t \in DOMAIN txn, ch \in RspChannels :
       got[t][ch] + (IF Kept(t, ch) THEN 1 ELSE 0) + Cardinality(OnLink(t, ch)) + ToCome(t, ch)
          = Owed(t, ch)

\* t is before u: same identifier, and neither is an atomic.
Precedes(t, u) == t < u /\ txn[t].id = txn[u].id /\ ~is_atop(t) /\ ~is_atop(u)
ResponsesInOrder ==
    \A t, u \in DOMAIN txn, ch \in RspChannels : Precedes(t, u) =>
       /\ got[u][ch] > 0 => ~Kept(t, ch) /\ OnLink(t, ch) = {} /\ ToCome(t, ch) = 0
       /\ Kept(u, ch) => OnLink(t, ch) = {} /\ ToCome(t, ch) = 0
       /\ \A k \in OnLink(u, ch) : ToCome(t, ch) = 0 /\ \A l \in OnLink(t, ch) : l < k

HeadersFound == \A k \in DOMAIN rsp_link : rsp_link[k].txn = rsp_link[k].of

\* A response that waits is one of the buffer, or passes it.
WaitingRight ==
    \A ch \in rob_pending_q : rob[ch] # NoFlit \/ (valid_in(ch) /\ ~is_atop_rsp_in(ch))

IInv ==
    /\ Types /\ Known /\ WritesInOrder /\ ReadsInOrder
    /\ IdsRight /\ QueuesRight
    /\ DataRight /\ PacketRight /\ PacketsOnLink
    /\ HeadersFound /\ WaitingRight /\ Accounted /\ ResponsesInOrder

-----------------------------------------------------------------------------
(* Sequences *)

\* What is left of a sequence without one of its elements.
LEMMA RemoveAtElements ==
    ASSUME NEW S, NEW s \in Seq(S), NEW i \in 1 .. Len(s)
    PROVE  /\ RemoveAt(s, i) \in Seq(S)
           /\ Len(RemoveAt(s, i)) = Len(s) - 1
           /\ \A k \in 1 .. Len(s) - 1 : RemoveAt(s, i)[k] = IF k < i THEN s[k] ELSE s[k + 1]
<1> DEFINE a == SubSeq(s, 1, i - 1)
           b == SubSeq(s, i + 1, Len(s))
<1>1. Len(s) \in Nat /\ i \in Nat /\ \A k \in 1 .. Len(s) : s[k] \in S
  BY ElementOfSeq, LenProperties
<1>2. a \in Seq(S) /\ Len(a) = i - 1 /\ \A k \in 1 .. i - 1 : a[k] = s[k]
  BY <1>1, SubSeqProperties
<1>3. b \in Seq(S) /\ Len(b) = Len(s) - i /\ \A k \in 1 .. Len(s) - i : b[k] = s[i + k]
  BY <1>1, SubSeqProperties
<1>4. RemoveAt(s, i) = a \o b
  BY DEF RemoveAt
<1> HIDE DEF a, b
<1>5. /\ a \o b \in Seq(S) /\ Len(a \o b) = Len(a) + Len(b)
      /\ \A k \in 1 .. Len(a) + Len(b) : (a \o b)[k] = IF k <= Len(a) THEN a[k] ELSE b[k - Len(a)]
  BY <1>2, <1>3, ConcatProperties
<1> QED
  BY <1>1, <1>2, <1>3, <1>4, <1>5

\* A sequence of records with a number each.
Numbered(q) == \A i \in DOMAIN q : q[i].txn \in Nat
Distinct(q) == \A i, j \in DOMAIN q : i < j => q[i].txn # q[j].txn

LEMMA NumbersAppend ==
    ASSUME NEW S, NEW q \in Seq(S), NEW e \in S
    PROVE  /\ q \o <<e>> \in Seq(S) /\ Numbers(q \o <<e>>) = Numbers(q) \cup {e.txn}
           /\ Increasing(q) /\ Before(Numbers(q), {e.txn}) => Increasing(q \o <<e>>)
           /\ Distinct(q) /\ e.txn \notin Numbers(q) => Distinct(q \o <<e>>)
<1> DEFINE r == q \o <<e>>
<1>1. <<e>> \in Seq(S) /\ Len(<<e>>) = 1 /\ <<e>>[1] = e /\ Len(q) \in Nat
  BY LenProperties
<1>2. /\ r \in Seq(S) /\ Len(r) = Len(q) + 1 /\ DOMAIN q = 1 .. Len(q) /\ DOMAIN r = 1 .. Len(q) + 1
      /\ \A k \in 1 .. Len(q) : r[k] = q[k]
      /\ r[Len(q) + 1] = e
  BY <1>1, ConcatProperties, LenProperties
<1> HIDE DEF r
<1>3. Numbers(r) \subseteq Numbers(q) \cup {e.txn}
  BY <1>1, <1>2 DEF Numbers
<1>4. Numbers(q) \cup {e.txn} \subseteq Numbers(r)
  BY <1>1, <1>2 DEF Numbers
<1>5. ASSUME Increasing(q), Before(Numbers(q), {e.txn}) PROVE Increasing(r)
  <2>1. \A k \in 1 .. Len(q) : q[k].txn < e.txn
    BY <1>2, <1>5 DEF Before, Numbers
  <2> QED
    BY <1>1, <1>2, <1>5, <2>1 DEF Increasing
<1>6. ASSUME Distinct(q), e.txn \notin Numbers(q) PROVE Distinct(r)
  <2>1. \A k \in 1 .. Len(q) : q[k].txn # e.txn
    BY <1>2, <1>6 DEF Numbers
  <2> QED
    BY <1>1, <1>2, <1>6, <2>1 DEF Distinct
<1> QED
  BY <1>2, <1>3, <1>4, <1>5, <1>6 DEF r

IsRemoved(r, q, i) ==
    /\ Distinct(r) /\ Numbers(r) = Numbers(q) \ {q[i].txn} /\ (Increasing(q) => Increasing(r))
    /\ \A k \in DOMAIN r : \E j \in DOMAIN q \ {i} : r[k] = q[j]
    /\ \A j \in DOMAIN q \ {i} : \E k \in DOMAIN r : r[k] = q[j]
    /\ \A k, l \in DOMAIN r : k < l => \E m, n \in DOMAIN q : m < n /\ r[k] = q[m] /\ r[l] = q[n]

LEMMA NumbersRemove ==
    ASSUME NEW S, NEW q \in Seq(S), NEW i \in 1 .. Len(q), Distinct(q)
    PROVE  RemoveAt(q, i) \in Seq(S) /\ IsRemoved(RemoveAt(q, i), q, i)
<1> DEFINE r == RemoveAt(q, i)
<1>1. Len(q) \in Nat /\ i \in Nat /\ DOMAIN q = 1 .. Len(q)
  BY LenProperties
<1>2. /\ r \in Seq(S) /\ Len(r) = Len(q) - 1
      /\ \A k \in 1 .. Len(q) - 1 : r[k] = IF k < i THEN q[k] ELSE q[k + 1]
  BY RemoveAtElements
<1>3. DOMAIN r = 1 .. Len(q) - 1
  BY <1>2, LenProperties
<1> HIDE DEF r
<1>4. \A k \in DOMAIN r : \E j \in DOMAIN q \ {i} : r[k] = q[j] /\ j = IF k < i THEN k ELSE k + 1
  BY <1>1, <1>2, <1>3
<1>5. ASSUME NEW j \in DOMAIN q \ {i} PROVE \E k \in DOMAIN r : r[k] = q[j]
  <2>1. CASE j < i
    BY <1>1, <1>2, <1>3, <1>5, <2>1
  <2>2. CASE j > i
    <3>1. j - 1 \in DOMAIN r /\ r[j - 1] = q[j - 1 + 1] /\ j - 1 + 1 = j
      BY <1>1, <1>2, <1>3, <1>5, <2>2
    <3> QED
      BY <3>1
  <2> QED
    BY <1>1, <1>5, <2>1, <2>2
<1>11. ASSUME NEW k \in DOMAIN r, NEW l \in DOMAIN r, k < l
       PROVE  \E m, n \in DOMAIN q : m < n /\ r[k] = q[m] /\ r[l] = q[n]
  <2> DEFINE m == IF k < i THEN k ELSE k + 1
             n == IF l < i THEN l ELSE l + 1
  <2>1. m \in DOMAIN q /\ n \in DOMAIN q /\ m < n
    BY <1>1, <1>3, <1>11
  <2>2. r[k] = q[m] /\ r[l] = q[n]
    BY <1>2, <1>3
  <2> QED
    BY <2>1, <2>2
<1>6. Distinct(r)
  BY <1>11 DEF Distinct
<1>7. Increasing(q) => Increasing(r)
  BY <1>11 DEF Increasing
<1>8. \A j \in DOMAIN q \ {i} : q[j].txn # q[i].txn
  BY <1>1 DEF Distinct
<1>9. Numbers(r) \subseteq Numbers(q) \ {q[i].txn}
  BY <1>4, <1>8 DEF Numbers
<1>10. Numbers(q) \ {q[i].txn} \subseteq Numbers(r)
  BY <1>5 DEF Numbers
<1> QED
  BY <1>2, <1>4, <1>5, <1>6, <1>7, <1>9, <1>10, <1>11 DEF r, IsRemoved

LEMMA IncreasingDistinct ==
    ASSUME NEW q, Numbered(q), Increasing(q)
    PROVE  Distinct(q)
BY DEF Numbered, Increasing, Distinct

LEMMA NumbersTail ==
    ASSUME NEW S, NEW q \in Seq(S), q # <<>>, Distinct(q)
    PROVE  /\ Head(q) \in S /\ Head(q) = q[1] /\ 1 \in DOMAIN q
           /\ Tail(q) \in Seq(S)
           /\ Len(Tail(q)) = Len(q) - 1
           /\ \A k \in 1 .. Len(q) - 1 : Tail(q)[k] = q[k + 1] /\ k + 1 \in DOMAIN q
           /\ DOMAIN q = 1 .. Len(q) /\ DOMAIN Tail(q) = 1 .. Len(q) - 1
           /\ Numbers(Tail(q)) = Numbers(q) \ {Head(q).txn}
           /\ Increasing(q) => Increasing(Tail(q)) /\ \A k \in DOMAIN Tail(q) : Head(q).txn < Tail(q)[k].txn
<1> DEFINE r == Tail(q)
<1>1. Len(q) \in Nat /\ Len(q) >= 1 /\ DOMAIN q = 1 .. Len(q) /\ Head(q) = q[1] /\ q[1] \in S
  BY LenProperties, EmptySeq, ElementOfSeq
<1>2. r \in Seq(S) /\ Len(r) = Len(q) - 1 /\ DOMAIN r = 1 .. Len(q) - 1
      /\ \A k \in 1 .. Len(q) - 1 : r[k] = q[k + 1]
  BY <1>1, HeadTailProperties, LenProperties
<1> HIDE DEF r
<1>3. \A k \in 1 .. Len(q) - 1 : k + 1 \in DOMAIN q /\ 1 < k + 1
  BY <1>1
<1>4. Numbers(r) \subseteq Numbers(q) \ {q[1].txn}
  <2>1. \A k \in DOMAIN r : r[k] = q[k + 1] /\ k + 1 \in DOMAIN q /\ q[k + 1].txn # q[1].txn
    BY <1>1, <1>2, <1>3 DEF Distinct
  <2> QED
    BY <2>1 DEF Numbers
<1>5. Numbers(q) \ {q[1].txn} \subseteq Numbers(r)
  <2>1. \A j \in DOMAIN q \ {1} : j - 1 \in DOMAIN r /\ r[j - 1] = q[j]
    BY <1>1, <1>2
  <2> QED
    BY <2>1 DEF Numbers
<1>6. ASSUME Increasing(q) PROVE Increasing(r) /\ \A k \in DOMAIN r : q[1].txn < r[k].txn
  <2>1. \A k \in DOMAIN r : r[k] = q[k + 1] /\ k + 1 \in DOMAIN q /\ 1 < k + 1 /\ k \in Nat
    BY <1>1, <1>2, <1>3
  <2>2. ASSUME NEW k \in DOMAIN r, NEW l \in DOMAIN r, k < l PROVE r[k].txn < r[l].txn
    <3>1. k + 1 \in DOMAIN q /\ l + 1 \in DOMAIN q /\ k + 1 < l + 1
      BY <2>1, <2>2
    <3> QED
      BY <1>6, <2>1, <3>1 DEF Increasing
  <2>3. \A k \in DOMAIN r : q[1].txn < r[k].txn
    BY <1>1, <1>6, <2>1 DEF Increasing
  <2> QED
    BY <2>2, <2>3 DEF Increasing
<1> QED
  BY <1>1, <1>2, <1>3, <1>4, <1>5, <1>6 DEF r

\* A transaction has one place.
LEMMA EntryFound ==
    ASSUME NEW q, DOMAIN q \subseteq Nat, Distinct(q), NEW i \in DOMAIN q
    PROVE  Entry(q, q[i].txn) = i
<1>1. \A j \in DOMAIN q : q[j].txn = q[i].txn => j = i
  BY DEF Distinct
<1> QED
  BY <1>1 DEF Entry

LEMMA OldestFound ==
    ASSUME NEW q, DOMAIN q = 1 .. Len(q), Len(q) \in Nat, NEW i \in DOMAIN q, FirstOfId(q, i)
    PROVE  Oldest(q, q[i].id) = i
<1>1. \A j \in DOMAIN q : q[j].id = q[i].id /\ FirstOfId(q, j) => j = i
  BY DEF FirstOfId
<1> QED
  BY <1>1 DEF Oldest

\* What the link carries of a channel, when a flit enters and when one leaves.
LEMMA FlitsAppend ==
    ASSUME NEW S, NEW q \in Seq(S), NEW f \in S, NEW ch
    PROVE  /\ FlitsOf(Append(q, f), ch) = IF f.ch = ch THEN FlitsOf(q, ch) \cup {f.txn} ELSE FlitsOf(q, ch)
           /\ FlitsIncrease(q, ch) /\ (f.ch = ch => Before(FlitsOf(q, ch), {f.txn}))
                 => FlitsIncrease(Append(q, f), ch)
<1> DEFINE r == Append(q, f)
<1>1. /\ Len(q) \in Nat /\ DOMAIN q = 1 .. Len(q) /\ DOMAIN r = 1 .. Len(q) + 1
      /\ \A k \in 1 .. Len(q) : r[k] = q[k]
      /\ r[Len(q) + 1] = f
  BY AppendProperties, LenProperties
<1> HIDE DEF r
<1>2. FlitsOf(r, ch) = IF f.ch = ch THEN FlitsOf(q, ch) \cup {f.txn} ELSE FlitsOf(q, ch)
  <2>1. \A x \in FlitsOf(r, ch) : x \in FlitsOf(q, ch) \/ (x = f.txn /\ f.ch = ch)
    BY <1>1 DEF FlitsOf
  <2>2. FlitsOf(q, ch) \subseteq FlitsOf(r, ch)
    BY <1>1 DEF FlitsOf
  <2>3. f.ch = ch => f.txn \in FlitsOf(r, ch)
    BY <1>1 DEF FlitsOf
  <2> QED
    BY <2>1, <2>2, <2>3
<1>3. ASSUME FlitsIncrease(q, ch), f.ch = ch => Before(FlitsOf(q, ch), {f.txn})
      PROVE  FlitsIncrease(r, ch)
  <2>1. \A k \in DOMAIN q : q[k].ch = ch /\ f.ch = ch => q[k].txn < f.txn
    BY <1>3 DEF FlitsOf, Before
  <2> QED
    BY <1>1, <1>3, <2>1 DEF FlitsIncrease
<1> QED
  BY <1>2, <1>3 DEF r

LEMMA FlitsTail ==
    ASSUME NEW S, NEW q \in Seq(S), q # <<>>, NEW ch, FlitsIncrease(q, ch),
           \A f \in S : f.txn \in Nat
    PROVE  /\ FlitsOf(Tail(q), ch)
                 = IF Head(q).ch = ch THEN FlitsOf(q, ch) \ {Head(q).txn} ELSE FlitsOf(q, ch)
           /\ FlitsIncrease(Tail(q), ch)
           /\ Head(q).ch = ch => /\ Head(q).txn \in FlitsOf(q, ch)
                                 /\ Before({Head(q).txn}, FlitsOf(Tail(q), ch))
<1> DEFINE r == Tail(q)
<1>1. Len(q) \in Nat /\ Len(q) >= 1 /\ DOMAIN q = 1 .. Len(q) /\ Head(q) = q[1] /\ 1 \in DOMAIN q
  BY LenProperties, EmptySeq, ElementOfSeq
<1>2. Len(r) = Len(q) - 1 /\ DOMAIN r = 1 .. Len(q) - 1
      /\ \A k \in 1 .. Len(q) - 1 : r[k] = q[k + 1]
  BY <1>1, HeadTailProperties, LenProperties
<1>3. \A k \in DOMAIN q : q[k].txn \in Nat
  BY <1>1, ElementOfSeq
<1> HIDE DEF r
<1>4. \A k \in DOMAIN r : r[k] = q[k + 1] /\ k + 1 \in DOMAIN q /\ 1 < k + 1
  BY <1>1, <1>2
<1>5. \A j \in DOMAIN q \ {1} : j - 1 \in DOMAIN r /\ r[j - 1] = q[j]
  BY <1>1, <1>2
<1>6. q[1].ch = ch => \A k \in DOMAIN r : r[k].ch = ch => q[1].txn < r[k].txn
  BY <1>1, <1>4 DEF FlitsIncrease
<1>7. q[1].ch = ch => q[1].txn \in FlitsOf(q, ch) /\ Before({q[1].txn}, FlitsOf(r, ch))
  BY <1>1, <1>6 DEF Before, FlitsOf
<1>8. \A x \in FlitsOf(r, ch) : x \in FlitsOf(q, ch) /\ (q[1].ch = ch => x # q[1].txn)
  <2>1. \A k \in DOMAIN r : r[k].ch = ch => (q[1].ch = ch => r[k].txn # q[1].txn)
    BY <1>1, <1>3, <1>4, <1>6
  <2> QED
    BY <1>4, <2>1 DEF FlitsOf
<1>9. \A x \in FlitsOf(q, ch) : x \in FlitsOf(r, ch) \/ (q[1].ch = ch /\ x = q[1].txn)
  BY <1>5 DEF FlitsOf
<1>10. FlitsOf(r, ch) = IF q[1].ch = ch THEN FlitsOf(q, ch) \ {q[1].txn} ELSE FlitsOf(q, ch)
  BY <1>8, <1>9
<1>11. FlitsIncrease(r, ch)
  <2>1. ASSUME NEW k \in DOMAIN r, NEW l \in DOMAIN r, k < l, r[k].ch = ch, r[l].ch = ch
        PROVE  r[k].txn < r[l].txn
    <3>1. k + 1 \in DOMAIN q /\ l + 1 \in DOMAIN q /\ k + 1 < l + 1
      <4>1. k \in Nat /\ l \in Nat
        BY <1>1, <1>2
      <4> QED
        BY <1>4, <2>1, <4>1
    <3> QED
      BY <1>4, <2>1, <3>1 DEF FlitsIncrease
  <2> QED
    BY <2>1 DEF FlitsIncrease
<1> QED
  BY <1>1, <1>7, <1>10, <1>11 DEF r

-----------------------------------------------------------------------------
(* Init, and a new request *)

Empty == writes = <<>> /\ reads = <<>> /\ aw_out_queue = <<>> /\ req_link = <<>>

LEMMA NothingAnywhere ==
    ASSUME Empty, aw = 0, ar = 0
    PROVE  /\ Numbers(writes) = {} /\ Numbers(reads) = {} /\ Numbers(aw_out_queue) = {}
           /\ LinkAw = {} /\ LinkAr = {} /\ Offered(aw) = {} /\ Offered(ar) = {}
           /\ WriteNumbers = {} /\ ReadNumbers = {} /\ Pending = {}
<1>1. DOMAIN writes = {} /\ DOMAIN reads = {} /\ DOMAIN aw_out_queue = {} /\ DOMAIN req_link = {}
  BY DEF Empty
<1>2. Numbers(writes) = {} /\ Numbers(reads) = {} /\ Numbers(aw_out_queue) = {}
  BY <1>1 DEF Numbers
<1>3. LinkAw = {} /\ LinkAr = {}
  BY <1>1 DEF LinkAw, LinkAr, FlitsOf
<1>4. Offered(aw) = {} /\ Offered(ar) = {}
  BY DEF Offered
<1> QED
  BY <1>2, <1>3, <1>4 DEF WriteNumbers, ReadNumbers, Pending

LEMMA InitIInv == Init => IInv
<1> SUFFICES ASSUME Init PROVE IInv
  OBVIOUS
<1> USE DEF Init, MetaInit
<1>0. 0 \in AtopIds
  BY MetaBufferAssumption DEF AtopIds
<1>1. Types
  <2>1. /\ txn \in Seq(Txns) /\ got \in Seq([RspChannels -> Nat]) /\ Len(got) = Len(txn)
        /\ \A t \in DOMAIN txn : txn[t].kind = "load" => txn[t].beats = 1
        /\ w \in Seq(Nat) /\ req_link \in Seq(ReqFlits) /\ rsp_link \in Seq(RspFlits)
    BY EmptySeq
  <2>2. /\ aw_queue \in Seq(Headers) /\ ar_queue \in Seq(Headers) /\ aw_out_queue \in Seq(Headers)
        /\ writes \in Seq(Headers)
        /\ reads \in Seq([id : Nat, txn : Nat, left : Nat \ {0}])
    BY EmptySeq
  <2>3. data_done \subseteq Nat /\ aw_offer \in Headers
    BY DEF NoOffer, Headers
  <2> QED
    BY <1>0, <2>1, <2>2, <2>3 DEF Types
<1>2. Empty /\ aw = 0 /\ ar = 0
  BY DEF Empty
<1>3. /\ DOMAIN writes = {} /\ DOMAIN reads = {} /\ DOMAIN aw_out_queue = {} /\ DOMAIN req_link = {}
      /\ DOMAIN txn = {} /\ DOMAIN rsp_link = {} /\ DOMAIN aw_queue = {} /\ DOMAIN ar_queue = {}
      /\ DOMAIN w = {}
  OBVIOUS
<1>4. Known
  BY <1>2, <1>3, NothingAnywhere DEF Known
<1>5. WritesInOrder /\ ReadsInOrder
  BY <1>2, <1>3, NothingAnywhere DEF WritesInOrder, ReadsInOrder, Increasing, FlitsIncrease, Before
<1>6. IdsRight
  BY <1>3, MetaBufferAssumption DEF IdsRight, OwnId, InRegister, LoadsInRegister
<1>7. QueuesRight
  <2>1. Numbers(aw_queue) = {} /\ Numbers(ar_queue) = {}
    BY <1>3 DEF Numbers
  <2> QED
    BY <1>2, <1>3, <2>1, NothingAnywhere DEF QueuesRight, OwnId, Increasing
<1>8. DataRight /\ PacketRight /\ PacketsOnLink
  BY <1>2, <1>3, NothingAnywhere DEF DataRight, PacketRight, PacketsOnLink
<1>9. HeadersFound /\ WaitingRight /\ Accounted /\ ResponsesInOrder
  BY <1>3 DEF HeadersFound, WaitingRight, Accounted, ResponsesInOrder
<1> QED
  BY <1>1, <1>4, <1>5, <1>6, <1>7, <1>8, <1>9 DEF IInv

\* A new transaction has the next number, and is offered.
LEMMA IssueFacts ==
    ASSUME IInv, NEW r \in Requests, Issue(r), NEW n, n = Len(txn) + 1
    PROVE  /\ r \in Txns /\ (r.kind = "load" => r.beats = 1)
           /\ n \in Nat \ {0} /\ DOMAIN txn = 1 .. n - 1 /\ DOMAIN txn' = 1 .. n /\ DOMAIN txn' = DOMAIN txn \cup {n}
           /\ txn' \in Seq(Txns) /\ Len(txn') = n /\ txn'[n] = r
           /\ \A t \in DOMAIN txn : txn'[t] = txn[t] /\ t < n
<1>1. txn \in Seq(Txns) /\ Len(txn) \in Nat /\ txn' = Append(txn, r)
  BY LenProperties DEF IInv, Types, Issue
<1>2. r \in Txns /\ (r.kind = "load" => r.beats = 1)
  BY ChimneyAssumption DEF Txns
<1>3. /\ txn' \in Seq(Txns) /\ Len(txn') = Len(txn) + 1 /\ txn'[Len(txn) + 1] = r
      /\ \A t \in 1 .. Len(txn) : txn'[t] = txn[t]
  BY <1>1, <1>2, AppendProperties
<1>4. DOMAIN txn = 1 .. Len(txn) /\ DOMAIN txn' = 1 .. Len(txn')
  BY <1>1, <1>3, LenProperties
<1> QED
  BY <1>1, <1>2, <1>3, <1>4

LEMMA IssueGot ==
    ASSUME IInv, NEW r \in Requests, Issue(r), NEW n, n = Len(txn) + 1
    PROVE  /\ got' \in Seq([RspChannels -> Nat]) /\ Len(got') = n
           /\ \A ch \in RspChannels : got'[n][ch] = 0
           /\ \A t \in DOMAIN txn : got'[t] = got[t]
<1> DEFINE g == [B |-> 0, R |-> 0]
<1>1. /\ got \in Seq([RspChannels -> Nat]) /\ Len(got) = Len(txn)
      /\ DOMAIN txn = 1 .. Len(txn)
  BY LenProperties DEF IInv, Types
<1>2. g \in [RspChannels -> Nat] /\ \A ch \in RspChannels : g[ch] = 0
  BY DEF RspChannels
<1>3. got' = Append(got, g)
  BY DEF Issue
<1> HIDE DEF g
<1>4. /\ got' \in Seq([RspChannels -> Nat]) /\ Len(got') = Len(got) + 1 /\ got'[Len(got) + 1] = g
      /\ \A t \in 1 .. Len(got) : got'[t] = got[t]
  BY <1>1, <1>2, <1>3, AppendProperties
<1> QED
  BY <1>1, <1>2, <1>4

LEMMA IssueNumbers ==
    ASSUME IInv, NEW r \in Requests, Issue(r), NEW n, n = Len(txn) + 1
    PROVE  /\ writes' = writes /\ reads' = reads /\ aw_out_queue' = aw_out_queue /\ req_link' = req_link
           /\ LinkAw' = LinkAw /\ LinkAr' = LinkAr
           /\ WriteNumbers' = WriteNumbers \cup (IF r.kind = "read" THEN {} ELSE {n})
           /\ ReadNumbers' = ReadNumbers \cup (IF r.kind = "read" THEN {n} ELSE {})
           /\ Offered(aw)' = Offered(aw) \cup (IF r.kind = "read" THEN {} ELSE {n})
           /\ Offered(ar)' = Offered(ar) \cup (IF r.kind = "read" THEN {n} ELSE {})
           /\ WriteNumbers \cup ReadNumbers \cup Numbers(reads) \subseteq DOMAIN txn
<1>1. /\ writes' = writes /\ reads' = reads /\ aw_out_queue' = aw_out_queue /\ req_link' = req_link
      /\ IF r.kind = "read" THEN ar = 0 /\ ar' = n /\ aw' = aw ELSE aw = 0 /\ aw' = n /\ ar' = ar
  BY DEF Issue, meta, links
<1>2. LinkAw' = LinkAw /\ LinkAr' = LinkAr
  BY <1>1 DEF LinkAw, LinkAr
<1>3. n # 0
  BY IssueFacts
<1>4. /\ Offered(aw)' = Offered(aw) \cup (IF r.kind = "read" THEN {} ELSE {n})
      /\ Offered(ar)' = Offered(ar) \cup (IF r.kind = "read" THEN {n} ELSE {})
  BY <1>1, <1>3 DEF Offered
<1> QED
  BY <1>1, <1>2, <1>4 DEF WriteNumbers, ReadNumbers, IInv, Known

LEMMA IssueTypes ==
    ASSUME IInv, NEW r \in Requests, Issue(r)
    PROVE  Types'
<1> DEFINE n == Len(txn) + 1
           beats == [b \in 1 .. r.beats |-> n]
<1>1. /\ n \in Nat \ {0} /\ r \in Txns /\ txn' \in Seq(Txns)
      /\ DOMAIN txn' = DOMAIN txn \cup {n} /\ txn'[n] = r /\ (r.kind = "load" => r.beats = 1)
      /\ \A t \in DOMAIN txn : txn'[t] = txn[t]
  BY IssueFacts
<1>2. got' \in Seq([RspChannels -> Nat]) /\ Len(got') = n /\ Len(txn') = n
  BY IssueFacts, IssueGot
<1>3. beats \in Seq(Nat)
  BY <1>1 DEF Txns
<1>4. w' = w \/ w' = w \o beats
  BY DEF Issue
<1> HIDE DEF beats
<1>5. w' \in Seq(Nat)
  <2>1. w \in Seq(Nat)
    BY DEF IInv, Types
  <2>2. w \o beats \in Seq(Nat)
    BY <1>3, <2>1, ConcatProperties
  <2> QED
    BY <1>4, <2>1, <2>2
<1>6. /\ aw' \in {aw, n} /\ ar' \in {ar, n} /\ packet' = packet /\ axi_aw_id_q' = axi_aw_id_q
      /\ aw_w_sel_q' = aw_w_sel_q /\ req_arb' = req_arb
  BY DEF Issue
<1>7. /\ req_link' = req_link /\ rsp_link' = rsp_link /\ rob' = rob /\ rob_pending_q' = rob_pending_q
      /\ UNCHANGED <<aw_queue, ar_queue, aw_out_queue, writes, reads, aw_atop, ar_atop, data_done, aw_offer>>
      /\ lzc_cnt_q' = lzc_cnt_q /\ atop_req_pending_q' = atop_req_pending_q
  BY DEF Issue, meta, links
<1>8. \A t \in DOMAIN txn' : txn'[t].kind = "load" => txn'[t].beats = 1
  BY <1>1 DEF IInv, Types
<1> QED
  BY <1>1, <1>2, <1>5, <1>6, <1>7, <1>8 DEF IInv, Types

LEMMA IssuePlaces ==
    ASSUME IInv, NEW r \in Requests, Issue(r)
    PROVE  Known' /\ WritesInOrder' /\ ReadsInOrder'
<1> DEFINE n == Len(txn) + 1
<1>1. /\ n \in Nat \ {0} /\ r \in Txns /\ DOMAIN txn' = DOMAIN txn \cup {n} /\ txn'[n] = r
      /\ \A t \in DOMAIN txn : txn'[t] = txn[t] /\ t < n
  BY IssueFacts
<1>2. /\ writes' = writes /\ reads' = reads /\ aw_out_queue' = aw_out_queue /\ req_link' = req_link
      /\ LinkAw' = LinkAw /\ LinkAr' = LinkAr
      /\ WriteNumbers' = WriteNumbers \cup (IF r.kind = "read" THEN {} ELSE {n})
      /\ ReadNumbers' = ReadNumbers \cup (IF r.kind = "read" THEN {n} ELSE {})
      /\ Offered(aw)' = Offered(aw) \cup (IF r.kind = "read" THEN {} ELSE {n})
      /\ Offered(ar)' = Offered(ar) \cup (IF r.kind = "read" THEN {n} ELSE {})
      /\ WriteNumbers \cup ReadNumbers \cup Numbers(reads) \subseteq DOMAIN txn
  BY IssueNumbers
<1>3. rsp_link' = rsp_link /\ rob' = rob
  BY DEF Issue, links
<1> HIDE DEF n
<1>4. Known'
  <2>1. \A t \in WriteNumbers' : t \in DOMAIN txn' /\ HasB(t)'
    BY <1>1, <1>2 DEF IInv, Known, HasB
  <2>2. \A t \in ReadNumbers' : t \in DOMAIN txn' /\ txn'[t].kind = "read"
    BY <1>1, <1>2 DEF IInv, Known
  <2>3. \A t \in Numbers(reads)' : t \in DOMAIN txn' /\ HasR(t)'
    BY <1>1, <1>2 DEF IInv, Known, HasR
  <2>4. \A k \in DOMAIN rsp_link' : rsp_link'[k].txn \in DOMAIN txn'
    BY <1>1, <1>3 DEF IInv, Known
  <2>5. \A ch \in RspChannels : rob'[ch] # NoFlit => rob'[ch].txn \in DOMAIN txn' /\ ~is_atop(rob[ch].txn)'
    BY <1>1, <1>3 DEF IInv, Known, is_atop
  <2> QED
    BY <2>1, <2>2, <2>3, <2>4, <2>5 DEF Known
<1>5. Numbers(writes) \cup Numbers(aw_out_queue) \cup LinkAw \cup LinkAr \subseteq DOMAIN txn
  BY <1>2 DEF WriteNumbers, ReadNumbers
<1>6. WritesInOrder'
  BY <1>1, <1>2, <1>5 DEF IInv, WritesInOrder, Before
<1>7. ReadsInOrder'
  <2>1. FlitsIncrease(req_link, "AR")' /\ Before(LinkAr, Offered(ar))'
    BY <1>1, <1>2, <1>5 DEF IInv, ReadsInOrder, Before
  <2>2. \A i \in DOMAIN reads : reads[i].txn \in Numbers(reads)
    BY DEF Numbers
  <2>3. ASSUME NEW i \in DOMAIN reads, NEW j \in DOMAIN reads, i < j
        PROVE  /\ reads[i].txn # reads[j].txn
               /\ ~is_atop(reads[i].txn)' /\ ~is_atop(reads[j].txn)' => reads[i].txn < reads[j].txn
    <3>1. reads[i].txn \in DOMAIN txn /\ reads[j].txn \in DOMAIN txn
      BY <1>2, <2>2
    <3> QED
      BY <1>1, <1>2, <2>3, <3>1 DEF IInv, ReadsInOrder, is_atop
  <2>4. ASSUME NEW t \in Numbers(reads)
        PROVE  IF is_atop(t)' THEN Before({t}, Numbers(aw_out_queue) \cup LinkAw \cup Offered(aw)')
               ELSE Before({t}, ReadNumbers')
    <3>1. t \in DOMAIN txn /\ t < n /\ txn'[t] = txn[t]
      BY <1>1, <1>2
    <3>2. IF is_atop(t) THEN Before({t}, Numbers(aw_out_queue) \cup LinkAw \cup Offered(aw))
          ELSE Before({t}, ReadNumbers)
      BY DEF IInv, ReadsInOrder
    <3>3. is_atop(t)' <=> is_atop(t)
      BY <1>2, <3>1 DEF is_atop
    <3> QED
      BY <1>2, <3>1, <3>2, <3>3 DEF Before
  <2> QED
    BY <1>2, <2>1, <2>3, <2>4 DEF ReadsInOrder, is_atop
<1> QED
  BY <1>4, <1>6, <1>7

\* The response at the end of its link.
LEMMA ResponseKnown ==
    ASSUME IInv, NEW ch \in RspChannels, valid_in(ch)
    PROVE  /\ rsp_link # <<>> /\ rsp = Head(rsp_link) /\ rsp = rsp_link[1] /\ 1 \in DOMAIN rsp_link
           /\ rsp \in RspFlits /\ rsp.txn \in DOMAIN txn
<1>1. rsp_link # <<>>
  BY DEF valid_in, rsp, AtHead, NoFlit, RspChannels
<1>2. rsp_link \in Seq(RspFlits)
  BY DEF IInv, Types
<1>3. rsp = Head(rsp_link) /\ 1 \in DOMAIN rsp_link /\ Head(rsp_link) = rsp_link[1]
  BY <1>1, <1>2, EmptySeq, LenProperties DEF rsp, AtHead
<1> QED
  BY <1>1, <1>2, <1>3, ElementOfSeq DEF IInv, Known

\* What does not depend on the new transaction.
LEMMA IssueRest ==
    ASSUME IInv, NEW r \in Requests, Issue(r)
    PROVE  /\ IdsRight' /\ QueuesRight' /\ DataRight' /\ PacketRight' /\ PacketsOnLink'
           /\ HeadersFound' /\ WaitingRight'
<1> DEFINE n == Len(txn) + 1
<1>1. /\ n \in Nat \ {0} /\ r \in Txns /\ DOMAIN txn' = DOMAIN txn \cup {n} /\ txn'[n] = r
      /\ \A t \in DOMAIN txn : txn'[t] = txn[t] /\ t < n
  BY IssueFacts
<1>2. /\ writes' = writes /\ reads' = reads /\ aw_out_queue' = aw_out_queue /\ req_link' = req_link
      /\ LinkAw' = LinkAw /\ LinkAr' = LinkAr
      /\ Offered(aw)' = Offered(aw) \cup (IF r.kind = "read" THEN {} ELSE {n})
      /\ WriteNumbers \cup ReadNumbers \cup Numbers(reads) \subseteq DOMAIN txn
  BY IssueNumbers
<1>3. /\ rsp_link' = rsp_link /\ rob' = rob /\ rob_pending_q' = rob_pending_q
      /\ aw_queue' = aw_queue /\ ar_queue' = ar_queue /\ aw_atop' = aw_atop /\ ar_atop' = ar_atop
      /\ lzc_cnt_q' = lzc_cnt_q /\ atop_req_pending_q' = atop_req_pending_q
      /\ packet' = packet /\ aw_w_sel_q' = aw_w_sel_q /\ req_arb' = req_arb /\ axi_aw_id_q' = axi_aw_id_q
      /\ data_done' = data_done
  BY DEF Issue, meta, links
<1> HIDE DEF n
<1>4. /\ Numbers(writes) \cup Numbers(aw_out_queue) \cup Numbers(reads) \subseteq DOMAIN txn
      /\ Numbers(aw_queue) \cup Numbers(ar_queue) \subseteq DOMAIN txn
      /\ LinkAw \subseteq DOMAIN txn
  BY <1>2 DEF WriteNumbers, IInv, QueuesRight
<1>5. IdsRight'
  <2>1. /\ \A i \in DOMAIN writes : writes[i].txn \in DOMAIN txn
        /\ \A i \in DOMAIN aw_out_queue : aw_out_queue[i].txn \in DOMAIN txn
        /\ \A i \in DOMAIN reads : reads[i].txn \in DOMAIN txn
    BY <1>4 DEF Numbers
  <2>2. OwnId(writes)' /\ OwnId(aw_out_queue)' /\ OwnId(reads)'
    BY <1>1, <1>2, <2>1 DEF IInv, IdsRight, OwnId, is_atop, no_atop_req_id
  <2>3. InRegister(writes, aw_atop)' /\ InRegister(aw_out_queue, aw_atop)' /\ InRegister(reads, ar_atop)'
    BY <1>1, <1>2, <1>3, <2>1 DEF IInv, IdsRight, InRegister, is_atop
  <2>4. LoadsInRegister'
    BY <1>1, <1>2, <1>3, <2>1 DEF IInv, IdsRight, LoadsInRegister, atop_has_r_rsp
  <2> QED
    BY <1>3, <2>2, <2>3, <2>4 DEF IInv, IdsRight
<1>6. QueuesRight'
  <2>1. /\ \A i \in DOMAIN aw_queue : aw_queue[i].txn \in DOMAIN txn
        /\ \A i \in DOMAIN ar_queue : ar_queue[i].txn \in DOMAIN txn
    BY <1>4 DEF Numbers
  <2>2. OwnId(aw_queue)' /\ OwnId(ar_queue)'
    BY <1>1, <1>3, <2>1 DEF IInv, QueuesRight, OwnId, is_atop, no_atop_req_id
  <2>3. \A t \in DOMAIN txn : is_atop(t)' <=> is_atop(t)
    BY <1>1 DEF is_atop
  <2>4. {t \in Numbers(writes) \cup Numbers(aw_out_queue) : ~is_atop(t)'}
           = {t \in Numbers(writes) \cup Numbers(aw_out_queue) : ~is_atop(t)}
    BY <1>4, <2>3
  <2>5. {t \in Numbers(reads) : ~is_atop(t)'} = {t \in Numbers(reads) : ~is_atop(t)}
    BY <1>4, <2>3
  <2> QED
    BY <1>2, <1>3, <2>2, <2>4, <2>5 DEF IInv, QueuesRight, is_atop
<1>7. Pending' = Pending /\ DataRight'
  BY <1>2, <1>3 DEF Pending, DataRight, IInv
<1>8. \A t \in Pending : t < n
  BY <1>1, <1>4 DEF Pending
<1>9. PacketsOnLink'
  <2>1. ASSUME NEW k \in DOMAIN req_link, IsWriteFlit(req_link[k])
        PROVE  Before({req_link[k].of}, Offered(aw)')
    <3>1. Before({req_link[k].of}, Offered(aw)) /\ req_link[k].of < n
      BY <1>8, <2>1 DEF IInv, PacketsOnLink
    <3> QED
      BY <1>2, <3>1 DEF Before
  <2>2. \A k \in DOMAIN req_link :
          /\ req_link[k].txn = req_link[k].of
          /\ IsWriteFlit(req_link[k]) => /\ packet # 0 => req_link[k].of <= packet
                                        /\ req_link[k].of \in Pending
          /\ LastData(req_link[k]) => req_link[k].of # packet
    BY DEF IInv, PacketsOnLink
  <2>3. /\ \A k, l \in DOMAIN req_link : k < l /\ IsWriteFlit(req_link[k]) /\ IsWriteFlit(req_link[l]) =>
             /\ req_link[k].of <= req_link[l].of
             /\ LastData(req_link[k]) \/ req_link[l].ch = "AW" => req_link[k].of < req_link[l].of
        /\ \A t \in Pending : t # packet => \E k \in DOMAIN req_link : LastData(req_link[k]) /\ req_link[k].of = t
    BY DEF IInv, PacketsOnLink
  <2> QED
    BY <1>2, <1>3, <1>7, <2>1, <2>2, <2>3 DEF PacketsOnLink
<1>10. PacketRight'
  <2>1. packet # 0 => packet \in Pending /\ Before({packet}, Offered(aw)')
    BY <1>1, <1>2, <1>8 DEF IInv, PacketRight, Before
  <2>2. CASE r.kind = "read"
    <3>1. w' = w
      BY <2>2 DEF Issue
    <3> QED
      BY <1>2, <1>3, <1>7, <2>1, <2>2, <3>1 DEF IInv, PacketRight, Offered
  <2>3. CASE r.kind # "read"
    <3> DEFINE new == [b \in 1 .. r.beats |-> n]
    <3>1. w' = w \o new /\ aw = 0 /\ aw' = n
      BY <2>3 DEF Issue, n
    <3>2. new \in Seq(Nat) /\ Len(new) = r.beats /\ \A i \in 1 .. r.beats : new[i] = n
      BY <1>1 DEF Txns
    <3> HIDE DEF new
    <3>3. w \in Seq(Nat) /\ Len(w) \in Nat /\ Len(new) \in Nat /\ DOMAIN w = 1 .. Len(w)
      BY <3>2, LenProperties DEF IInv, Types
    <3>4. DOMAIN w' = 1 .. Len(w) + Len(new) /\ Len(w') = Len(w) + Len(new)
          /\ \A i \in DOMAIN w' : w'[i] = IF i <= Len(w) THEN w[i] ELSE new[i - Len(w)]
      <4>1. /\ w \o new \in Seq(Nat) /\ Len(w \o new) = Len(w) + Len(new)
            /\ \A i \in 1 .. Len(w) + Len(new) :
                 (w \o new)[i] = IF i <= Len(w) THEN w[i] ELSE new[i - Len(w)]
        BY <3>2, <3>3, ConcatProperties
      <4>2. DOMAIN (w \o new) = 1 .. Len(w) + Len(new)
        BY <4>1, LenProperties
      <4> QED
        BY <3>1, <4>1, <4>2
    <3>5. \A i \in DOMAIN w : w[i] = packet /\ packet # 0
      BY <3>1 DEF IInv, PacketRight, Offered
    <3>6. \A i \in DOMAIN w' : IF i <= Len(w) THEN w'[i] = packet /\ packet # 0 ELSE w'[i] = n
      <4>1. ASSUME NEW i \in DOMAIN w', i <= Len(w) PROVE w'[i] = packet /\ packet # 0
        <5>1. i \in DOMAIN w
          BY <3>3, <3>4, <4>1
        <5> QED
          BY <3>4, <3>5, <4>1, <5>1
      <4>2. ASSUME NEW i \in DOMAIN w', ~(i <= Len(w)) PROVE w'[i] = n
        <5>1. i - Len(w) \in 1 .. Len(new)
          BY <3>3, <3>4, <4>2
        <5> QED
          BY <3>2, <3>4, <4>2, <5>1
      <4> QED
        BY <4>1, <4>2
    <3>7. packet # 0 => packet < n /\ packet \in Nat
      BY <1>8 DEF IInv, PacketRight, Types
    <3>8. \A i \in DOMAIN w' : w'[i] \in Offered(packet)' \cup Offered(aw)'
      BY <1>1, <1>3, <3>1, <3>6 DEF Offered
    <3>9. \A i, j \in DOMAIN w' : i < j => w'[i] <= w'[j]
      <4>1. \A i \in DOMAIN w' : i \in Nat
        BY <3>3, <3>4
      <4>2. \A i, j \in DOMAIN w' : i < j /\ ~(i <= Len(w)) => ~(j <= Len(w))
        BY <3>3, <4>1
      <4> QED
        BY <1>1, <3>3, <3>6, <3>7, <4>1, <4>2
    <3>10. w' # <<>> /\ w'[Len(w')] = aw'
      <4>1. Len(w') = Len(w) + Len(new) /\ Len(new) >= 1
        BY <1>1, <3>2, <3>4 DEF Txns
      <4>2. Len(w') \in DOMAIN w' /\ ~(Len(w') <= Len(w))
        BY <3>3, <3>4, <4>1
      <4>3. w'[Len(w')] = n
        BY ONLY <3>6, <4>2
      <4>4. w' # <<>>
        BY ONLY <4>2
      <4> QED
        BY <3>1, <4>3, <4>4
    <3>11. packet # 0 => w'[1] = packet
      <4>1. ASSUME packet # 0 PROVE 1 \in DOMAIN w' /\ 1 <= Len(w)
        <5>1. Len(w) >= 1
          BY <3>3, <4>1, EmptySeq DEF IInv, PacketRight
        <5> QED
          BY <3>3, <3>4, <5>1
      <4> QED
        BY <3>6, <4>1
    <3> QED
      BY <1>2, <1>3, <1>7, <2>1, <3>8, <3>9, <3>10, <3>11 DEF IInv, PacketRight
  <2> QED
    BY <2>2, <2>3
<1>11. HeadersFound'
  BY <1>3 DEF IInv, HeadersFound
<1>12. WaitingRight'
  <2>1. ASSUME NEW ch \in rob_pending_q, rob[ch] = NoFlit
        PROVE  valid_in(ch)' /\ ~is_atop_rsp_in(ch)'
    <3>1. valid_in(ch) /\ ~is_atop_rsp_in(ch) /\ ch \in RspChannels
      BY <2>1 DEF IInv, WaitingRight, Types
    <3>2. rsp.txn \in DOMAIN txn
      BY <3>1, ResponseKnown
    <3>3. rsp' = rsp
      BY <1>3 DEF rsp, AtHead
    <3> QED
      BY <1>1, <3>1, <3>2, <3>3 DEF valid_in, is_atop_rsp_in, is_atop
  <2> QED
    BY <1>3, <2>1 DEF WaitingRight
<1> QED
  BY <1>5, <1>6, <1>7, <1>9, <1>10, <1>11, <1>12

\* All the responses of a new transaction are to come.
LEMMA IssueResponses ==
    ASSUME IInv, NEW r \in Requests, Issue(r)
    PROVE  Accounted' /\ ResponsesInOrder'
<1> SUFFICES ASSUME NEW n, n = Len(txn) + 1
             PROVE  Accounted' /\ ResponsesInOrder'
  OBVIOUS
<1>1. /\ n \in Nat \ {0} /\ r \in Txns /\ DOMAIN txn' = DOMAIN txn \cup {n} /\ txn'[n] = r
      /\ \A t \in DOMAIN txn : txn'[t] = txn[t] /\ t < n
  BY IssueFacts
<1>12. got' \in Seq([RspChannels -> Nat]) /\ Len(got') = n /\ \A ch \in RspChannels : got'[n][ch] = 0
  BY IssueGot
<1>13. \A t \in DOMAIN txn : got'[t] = got[t]
  BY IssueGot
<1>2. /\ writes' = writes /\ reads' = reads /\ aw_out_queue' = aw_out_queue
      /\ LinkAw' = LinkAw
      /\ WriteNumbers' = WriteNumbers \cup (IF r.kind = "read" THEN {} ELSE {n})
      /\ ReadNumbers' = ReadNumbers \cup (IF r.kind = "read" THEN {n} ELSE {})
      /\ Offered(aw)' = Offered(aw) \cup (IF r.kind = "read" THEN {} ELSE {n})
      /\ WriteNumbers \cup ReadNumbers \cup Numbers(reads) \subseteq DOMAIN txn
  BY IssueNumbers
<1>3. rsp_link' = rsp_link /\ rob' = rob
  BY DEF Issue, links
<1>4. n \notin DOMAIN txn
  BY <1>1
<1>5. \A t, ch : OnLink(t, ch)' = OnLink(t, ch) /\ (Kept(t, ch)' <=> Kept(t, ch))
  BY <1>3 DEF OnLink, RspFor, Kept
<1>6. \A t \in DOMAIN txn : (HasR(t)' <=> HasR(t)) /\ (HasB(t)' <=> HasB(t))
  BY <1>1 DEF HasR, HasB
<1>7. ASSUME NEW t \in DOMAIN txn, NEW ch \in RspChannels
      PROVE  ToCome(t, ch)' = ToCome(t, ch)
  <2>1. t # n /\ txn'[t] = txn[t] /\ (HasR(t)' <=> HasR(t))
    BY <1>1, <1>4, <1>6
  <2>2. /\ t \in WriteNumbers' <=> t \in WriteNumbers
        /\ t \in Numbers(reads)' <=> t \in Numbers(reads)
        /\ t \in (Numbers(aw_out_queue) \cup LinkAw \cup Offered(aw) \cup ReadNumbers)'
             <=> t \in Numbers(aw_out_queue) \cup LinkAw \cup Offered(aw) \cup ReadNumbers
    BY <1>2, <2>1
  <2>3. reads'[Entry(reads, t)'].left = reads[Entry(reads, t)].left
    BY <1>2
  <2> QED
    BY <2>1, <2>2, <2>3 DEF ToCome
<1>8. \A ch \in RspChannels : ~Kept(n, ch) /\ OnLink(n, ch) = {}
  BY <1>4 DEF Kept, OnLink, RspFor, IInv, Known
<1>9. ASSUME NEW ch \in RspChannels PROVE ToCome(n, ch)' = Owed(n, ch)'
  <2>1. n \notin Numbers(reads)
    BY <1>2, <1>4
  <2>2. HasB(n)' <=> r.kind # "read"
    BY <1>1 DEF HasB
  <2>3. HasR(n)' <=> r.kind \in {"read", "load"}
    BY <1>1 DEF HasR
  <2>4. n \in WriteNumbers' <=> r.kind # "read"
    BY <1>2, <1>4
  <2>5. HasR(n)' => n \in (Numbers(aw_out_queue) \cup LinkAw \cup Offered(aw) \cup ReadNumbers)'
    BY <1>2, <2>3
  <2> QED
    BY <1>2, <2>1, <2>2, <2>3, <2>4, <2>5 DEF ToCome, Owed
<1>10. Accounted'
  <2>1. ASSUME NEW t \in DOMAIN txn, NEW ch \in RspChannels
        PROVE  got'[t][ch] + (IF Kept(t, ch)' THEN 1 ELSE 0) + Cardinality(OnLink(t, ch)') + ToCome(t, ch)'
                  = Owed(t, ch)'
    <3>1. Owed(t, ch)' = Owed(t, ch)
      BY <1>1, <1>6 DEF Owed
    <3> QED
      BY <1>1, <1>13, <1>5, <1>7, <3>1 DEF IInv, Accounted
  <2>2. ASSUME NEW ch \in RspChannels
        PROVE  got'[n][ch] + (IF Kept(n, ch)' THEN 1 ELSE 0) + Cardinality(OnLink(n, ch)') + ToCome(n, ch)'
                  = Owed(n, ch)'
    <3>1. Owed(n, ch)' \in Nat
      BY <1>1 DEF Owed, Txns
    <3>2. Cardinality(OnLink(n, ch)') = 0
      BY <1>5, <1>8, FS_EmptySet
    <3> QED
      BY <1>1, <1>12, <1>5, <1>8, <1>9, <3>1, <3>2
  <2> QED
    BY <1>1, <2>1, <2>2 DEF Accounted
<1>11. ResponsesInOrder'
  <2> SUFFICES ASSUME NEW t \in DOMAIN txn', NEW u \in DOMAIN txn', NEW ch \in RspChannels, Precedes(t, u)'
               PROVE  /\ got'[u][ch] > 0 => ~Kept(t, ch)' /\ OnLink(t, ch)' = {} /\ ToCome(t, ch)' = 0
                      /\ Kept(u, ch)' => OnLink(t, ch)' = {} /\ ToCome(t, ch)' = 0
                      /\ \A k \in OnLink(u, ch)' : ToCome(t, ch)' = 0 /\ \A l \in OnLink(t, ch)' : l < k
    BY DEF ResponsesInOrder
  <2>1. t < u
    BY DEF Precedes
  <2>2. CASE u = n
    BY <1>1, <1>12, <1>5, <1>8, <2>2
  <2>3. CASE u \in DOMAIN txn
    <3>1. t \in DOMAIN txn
      <4>1. u < n
        BY <1>1, <2>3
      <4>2. u \in Nat /\ t # n
        BY <2>1, <2>3, <4>1, <1>1, LenProperties DEF IInv, Types
      <4> QED
        BY <1>1, <4>2
    <3>2. Precedes(t, u)
      BY <1>1, <2>3, <3>1 DEF Precedes, is_atop
    <3> QED
      BY <1>1, <1>13, <1>5, <1>7, <2>3, <3>1, <3>2 DEF IInv, ResponsesInOrder
  <2> QED
    BY <1>1, <2>2, <2>3
<1> QED
  BY <1>10, <1>11

-----------------------------------------------------------------------------
(* Flits enter the request link *)

LEMMA FlitTypes ==
    ASSUME IInv
    PROVE  \A k \in DOMAIN req_link : /\ req_link[k] \in ReqFlits /\ req_link[k].txn \in Nat /\ req_link[k].of \in Nat
                                      /\ req_link[k].txn = req_link[k].of
<1>1. \A k \in DOMAIN req_link : req_link[k] \in ReqFlits
  BY ElementOfSeq, LenProperties DEF IInv, Types
<1> QED
  BY <1>1 DEF ReqFlits, IInv, PacketsOnLink

\* What depends on the queues only, or on the responses only.
LEMMA MetaStays ==
    ASSUME IInv, UNCHANGED <<txn, meta>>
    PROVE  IdsRight' /\ QueuesRight' /\ DataRight' /\ data_done' = data_done
<1>1. /\ txn' = txn /\ aw_queue' = aw_queue /\ ar_queue' = ar_queue
      /\ aw_atop' = aw_atop /\ ar_atop' = ar_atop /\ lzc_cnt_q' = lzc_cnt_q
      /\ atop_req_pending_q' = atop_req_pending_q /\ aw_out_queue' = aw_out_queue
      /\ writes' = writes /\ reads' = reads /\ data_done' = data_done
  BY DEF meta
<1>2. IdsRight'
  BY <1>1 DEF IInv, IdsRight, OwnId, InRegister, LoadsInRegister, is_atop, no_atop_req_id, atop_has_r_rsp
<1>3. QueuesRight'
  BY <1>1 DEF IInv, QueuesRight, OwnId, is_atop, no_atop_req_id
<1>4. DataRight'
  BY <1>1 DEF IInv, DataRight
<1> QED
  BY <1>1, <1>2, <1>3, <1>4

LEMMA ResponsesStay ==
    ASSUME IInv, UNCHANGED <<txn, got, rsp_link, rob>>,
           \A t \in DOMAIN txn, ch \in RspChannels : ToCome(t, ch)' = ToCome(t, ch)
    PROVE  Accounted' /\ ResponsesInOrder'
<1>1. txn' = txn /\ got' = got /\ rsp_link' = rsp_link /\ rob' = rob
  OBVIOUS
<1>2. \A t, ch : OnLink(t, ch)' = OnLink(t, ch) /\ (Kept(t, ch)' <=> Kept(t, ch))
  BY <1>1 DEF OnLink, RspFor, Kept
<1>3. \A t, ch : Owed(t, ch)' = Owed(t, ch)
  BY <1>1 DEF Owed, HasB, HasR
<1>4. Accounted'
  BY <1>1, <1>2, <1>3 DEF IInv, Accounted
<1>5. \A t, u : Precedes(t, u)' <=> Precedes(t, u)
  BY <1>1 DEF Precedes, is_atop
<1>6. ResponsesInOrder'
  BY <1>1, <1>2, <1>5 DEF IInv, ResponsesInOrder
<1> QED
  BY <1>4, <1>6

\* A request that moves on is to be answered all the same.
LEMMA ToComeStays ==
    ASSUME UNCHANGED <<txn, reads>>, WriteNumbers' = WriteNumbers,
           (Numbers(aw_out_queue) \cup LinkAw \cup Offered(aw) \cup ReadNumbers)'
              = Numbers(aw_out_queue) \cup LinkAw \cup Offered(aw) \cup ReadNumbers
    PROVE  \A t \in DOMAIN txn, ch \in RspChannels : ToCome(t, ch)' = ToCome(t, ch)
<1>1. txn' = txn /\ reads' = reads
  OBVIOUS
<1>2. Numbers(reads)' = Numbers(reads) /\ \A t : reads'[Entry(reads, t)'].left = reads[Entry(reads, t)].left
  BY <1>1
<1>3. \A t : HasR(t)' <=> HasR(t)
  BY <1>1 DEF HasR
<1> QED
  BY <1>1, <1>2, <1>3 DEF ToCome

\* The flit that enters the link is the last one.
LEMMA LinkGrows ==
    ASSUME IInv, NEW f \in ReqFlits, req_link' = Append(req_link, f)
    PROVE  /\ req_link' \in Seq(ReqFlits) /\ Len(req_link') = Len(req_link) + 1 /\ Len(req_link) \in Nat
           /\ DOMAIN req_link = 1 .. Len(req_link) /\ DOMAIN req_link' = 1 .. Len(req_link) + 1
           /\ \A k \in 1 .. Len(req_link) : req_link'[k] = req_link[k]
           /\ req_link'[Len(req_link) + 1] = f
           /\ LinkAw' = (IF f.ch = "AW" THEN LinkAw \cup {f.txn} ELSE LinkAw)
           /\ LinkAr' = (IF f.ch = "AR" THEN LinkAr \cup {f.txn} ELSE LinkAr)
           /\ (f.ch = "AW" => Before(LinkAw, {f.txn})) => FlitsIncrease(req_link, "AW")'
           /\ (f.ch = "AR" => Before(LinkAr, {f.txn})) => FlitsIncrease(req_link, "AR")'
<1>1. req_link \in Seq(ReqFlits) /\ FlitsIncrease(req_link, "AW") /\ FlitsIncrease(req_link, "AR")
  BY DEF IInv, Types, WritesInOrder, ReadsInOrder
<1>2. /\ req_link' \in Seq(ReqFlits) /\ Len(req_link') = Len(req_link) + 1 /\ Len(req_link) \in Nat
      /\ \A k \in 1 .. Len(req_link) : req_link'[k] = req_link[k]
      /\ req_link'[Len(req_link) + 1] = f
  BY <1>1, AppendProperties, LenProperties
<1>6. \A ch : /\ FlitsOf(Append(req_link, f), ch)
                     = IF f.ch = ch THEN FlitsOf(req_link, ch) \cup {f.txn} ELSE FlitsOf(req_link, ch)
              /\ FlitsIncrease(req_link, ch) /\ (f.ch = ch => Before(FlitsOf(req_link, ch), {f.txn}))
                    => FlitsIncrease(Append(req_link, f), ch)
  BY <1>1, FlitsAppend
<1>3. /\ FlitsOf(req_link', "AW") = IF f.ch = "AW" THEN FlitsOf(req_link, "AW") \cup {f.txn} ELSE FlitsOf(req_link, "AW")
      /\ (f.ch = "AW" => Before(FlitsOf(req_link, "AW"), {f.txn})) => FlitsIncrease(req_link', "AW")
  BY <1>1, <1>6
<1>4. /\ FlitsOf(req_link', "AR") = IF f.ch = "AR" THEN FlitsOf(req_link, "AR") \cup {f.txn} ELSE FlitsOf(req_link, "AR")
      /\ (f.ch = "AR" => Before(FlitsOf(req_link, "AR"), {f.txn})) => FlitsIncrease(req_link', "AR")
  BY <1>1, <1>6
<1>5. DOMAIN req_link = 1 .. Len(req_link) /\ DOMAIN req_link' = 1 .. Len(req_link) + 1
  BY <1>1, <1>2, LenProperties
<1> QED
  BY <1>2, <1>3, <1>4, <1>5 DEF LinkAw, LinkAr

\* The order of the reads, when requests move on.
LEMMA ReadsStay ==
    ASSUME IInv, txn' = txn, reads' = reads, FlitsIncrease(req_link, "AR")', LinkAr' = LinkAr,
           Offered(ar)' = Offered(ar), ReadNumbers' = ReadNumbers, aw_out_queue' = aw_out_queue,
           LinkAw' \cup Offered(aw)' = LinkAw \cup Offered(aw)
    PROVE  ReadsInOrder'
<1>1. (Numbers(aw_out_queue) \cup LinkAw \cup Offered(aw))' = Numbers(aw_out_queue) \cup LinkAw \cup Offered(aw)
  OBVIOUS
<1>2. \A t \in Numbers(reads) :
         IF is_atop(t) THEN Before({t}, (Numbers(aw_out_queue) \cup LinkAw \cup Offered(aw))')
         ELSE Before({t}, ReadNumbers')
  BY <1>1 DEF IInv, ReadsInOrder
<1>3. Before(LinkAr, Offered(ar))' /\ \A t : is_atop(t)' <=> is_atop(t)
  BY DEF IInv, ReadsInOrder, is_atop
<1>4. \A i, j \in DOMAIN reads :
         i < j => /\ reads[i].txn # reads[j].txn
                  /\ ~is_atop(reads[i].txn) /\ ~is_atop(reads[j].txn) => reads[i].txn < reads[j].txn
  BY DEF IInv, ReadsInOrder
<1> QED
  BY <1>2, <1>3, <1>4 DEF ReadsInOrder, is_atop

LEMMA SendArStep ==
    ASSUME IInv, SendAr
    PROVE  IInv'
<1> DEFINE f == [ch |-> "AR", txn |-> ar, of |-> ar, last |-> TRUE]
<1>1. /\ ar # 0 /\ ar' = 0 /\ req_arb \in {"none", "AR"} /\ req_link' = Append(req_link, f) /\ req_arb' = "none"
      /\ UNCHANGED <<txn, meta, aw, w, aw_w_sel_q, axi_aw_id_q, packet, rsp_link, rob, rob_pending_q, got>>
  BY DEF SendAr, Send, returns
<1>2. /\ txn' = txn /\ aw_queue' = aw_queue /\ ar_queue' = ar_queue
      /\ aw_atop' = aw_atop /\ ar_atop' = ar_atop /\ lzc_cnt_q' = lzc_cnt_q
      /\ atop_req_pending_q' = atop_req_pending_q /\ aw_out_queue' = aw_out_queue
      /\ writes' = writes /\ reads' = reads /\ data_done' = data_done /\ aw_offer' = aw_offer
      /\ aw' = aw /\ w' = w /\ aw_w_sel_q' = aw_w_sel_q
      /\ axi_aw_id_q' = axi_aw_id_q /\ packet' = packet /\ rsp_link' = rsp_link /\ rob' = rob
      /\ rob_pending_q' = rob_pending_q /\ got' = got
  BY <1>1 DEF meta
<1>3. f \in ReqFlits /\ f.ch = "AR" /\ f.txn = ar /\ f.of = ar
  BY DEF ReqFlits, IInv, Types
<1> HIDE DEF f
<1>4. Offered(ar) = {ar} /\ Offered(ar)' = {} /\ Offered(aw)' = Offered(aw)
  BY <1>1, <1>2 DEF Offered
<1>5. Before(LinkAr, {ar})
  BY <1>4 DEF IInv, ReadsInOrder
<1>6. /\ req_link' \in Seq(ReqFlits) /\ Len(req_link) \in Nat
      /\ DOMAIN req_link = 1 .. Len(req_link) /\ DOMAIN req_link' = 1 .. Len(req_link) + 1
      /\ \A k \in 1 .. Len(req_link) : req_link'[k] = req_link[k]
      /\ req_link'[Len(req_link) + 1] = f
      /\ LinkAw' = LinkAw /\ LinkAr' = LinkAr \cup {ar}
      /\ FlitsIncrease(req_link, "AW")' /\ FlitsIncrease(req_link, "AR")'
  BY <1>1, <1>3, <1>5, LinkGrows
<1>7. WriteNumbers' = WriteNumbers /\ ReadNumbers' = ReadNumbers
  BY <1>2, <1>4, <1>6 DEF WriteNumbers, ReadNumbers
<1>8. Types'
  BY <1>1, <1>2, <1>6 DEF IInv, Types
<1>9. Known'
  BY <1>2, <1>7 DEF IInv, Known, HasB, HasR, is_atop
<1>10. WritesInOrder'
  BY <1>2, <1>4, <1>6 DEF IInv, WritesInOrder
<1>11. ReadsInOrder'
  BY <1>2, <1>4, <1>6, <1>7 DEF IInv, ReadsInOrder, Before, is_atop
<1>12. IdsRight' /\ QueuesRight' /\ DataRight' /\ data_done' = data_done
  BY <1>1, MetaStays
<1>13. Pending' = Pending
  BY <1>2, <1>6 DEF Pending
<1>14. packet = 0 /\ req_arb = "none"
  BY <1>1 DEF IInv, PacketRight, Types
<1>15. PacketRight'
  BY <1>1, <1>2, <1>4, <1>13, <1>14 DEF IInv, PacketRight
<1>16. PacketsOnLink'
  <2>1. ~IsWriteFlit(f) /\ ~LastData(f) /\ f.txn = f.of
    BY <1>3 DEF IsWriteFlit, LastData
  <2>2. \A k \in DOMAIN req_link : k \in DOMAIN req_link' /\ req_link'[k] = req_link[k]
    BY <1>6
  <2>3. \A k \in DOMAIN req_link' : k \in DOMAIN req_link \/ req_link'[k] = f
    BY <1>6
  <2>4. \A k, l \in DOMAIN req_link' : k < l /\ IsWriteFlit(req_link'[k]) /\ IsWriteFlit(req_link'[l]) =>
          /\ req_link'[k].of <= req_link'[l].of
          /\ LastData(req_link'[k]) \/ req_link'[l].ch = "AW" => req_link'[k].of < req_link'[l].of
    BY <2>1, <2>2, <2>3 DEF IInv, PacketsOnLink
  <2>5. \A k \in DOMAIN req_link' :
          /\ req_link'[k].txn = req_link'[k].of
          /\ IsWriteFlit(req_link'[k]) => /\ Before({req_link'[k].of}, Offered(aw)')
                                          /\ packet' # 0 => req_link'[k].of <= packet'
                                          /\ req_link'[k].of \in Pending'
          /\ LastData(req_link'[k]) => req_link'[k].of # packet'
    BY <1>2, <1>4, <1>13, <2>1, <2>2, <2>3 DEF IInv, PacketsOnLink
  <2>6. \A t \in Pending' : t # packet' => \E k \in DOMAIN req_link' : LastData(req_link'[k]) /\ req_link'[k].of = t
    BY <1>2, <1>13, <2>2 DEF IInv, PacketsOnLink
  <2> QED
    BY <2>4, <2>5, <2>6 DEF PacketsOnLink
<1>17. HeadersFound' /\ WaitingRight'
  BY <1>2 DEF IInv, HeadersFound, WaitingRight, valid_in, is_atop_rsp_in, is_atop, rsp, AtHead
<1>18. Accounted' /\ ResponsesInOrder'
  <2>1. (Numbers(aw_out_queue) \cup LinkAw \cup Offered(aw) \cup ReadNumbers)'
           = Numbers(aw_out_queue) \cup LinkAw \cup Offered(aw) \cup ReadNumbers
    BY <1>2, <1>4, <1>6, <1>7
  <2>2. \A t \in DOMAIN txn, ch \in RspChannels : ToCome(t, ch)' = ToCome(t, ch)
    BY <1>2, <1>7, <2>1, ToComeStays
  <2> QED
    BY <1>2, <2>2, ResponsesStay
<1> QED
  BY <1>8, <1>9, <1>10, <1>11, <1>12, <1>15, <1>16, <1>17, <1>18 DEF IInv

LEMMA SendAwStep ==
    ASSUME IInv, SendAw
    PROVE  IInv'
<1> DEFINE f == [ch |-> "AW", txn |-> aw, of |-> aw, last |-> FALSE]
<1>1. /\ aw # 0 /\ aw' = 0 /\ aw_w_sel_q = "SelAw" /\ req_link' = Append(req_link, f) /\ req_arb' = "W"
      /\ aw_w_sel_q' = "SelW" /\ axi_aw_id_q' = aw /\ packet' = aw
      /\ UNCHANGED <<txn, meta, ar, w, rsp_link, rob, rob_pending_q, got>>
  BY DEF SendAw, Send, returns
<1>2. /\ txn' = txn /\ aw_queue' = aw_queue /\ ar_queue' = ar_queue
      /\ aw_atop' = aw_atop /\ ar_atop' = ar_atop /\ lzc_cnt_q' = lzc_cnt_q
      /\ atop_req_pending_q' = atop_req_pending_q /\ aw_out_queue' = aw_out_queue
      /\ writes' = writes /\ reads' = reads /\ data_done' = data_done /\ aw_offer' = aw_offer
      /\ ar' = ar /\ w' = w
      /\ rsp_link' = rsp_link /\ rob' = rob
      /\ rob_pending_q' = rob_pending_q /\ got' = got
  BY <1>1 DEF meta
<1>3. f \in ReqFlits /\ f.ch = "AW" /\ f.txn = aw /\ f.of = aw
  BY DEF ReqFlits, IInv, Types
<1> HIDE DEF f
<1>4. Offered(aw) = {aw} /\ Offered(aw)' = {} /\ Offered(ar)' = Offered(ar)
  BY <1>1, <1>2 DEF Offered
<1>5. Before(Numbers(writes) \cup Numbers(aw_out_queue) \cup LinkAw, {aw})
  BY <1>4 DEF IInv, WritesInOrder
<1>6. /\ req_link' \in Seq(ReqFlits) /\ Len(req_link) \in Nat
      /\ DOMAIN req_link = 1 .. Len(req_link) /\ DOMAIN req_link' = 1 .. Len(req_link) + 1
      /\ \A k \in 1 .. Len(req_link) : req_link'[k] = req_link[k]
      /\ req_link'[Len(req_link) + 1] = f
      /\ LinkAr' = LinkAr /\ LinkAw' = LinkAw \cup {aw}
      /\ FlitsIncrease(req_link, "AW")' /\ FlitsIncrease(req_link, "AR")'
  <2>1. Before(LinkAw, {aw})
    BY <1>5 DEF Before
  <2> QED
    BY <1>1, <1>3, <2>1, LinkGrows
<1>7. WriteNumbers' = WriteNumbers /\ ReadNumbers' = ReadNumbers
  BY <1>2, <1>4, <1>6 DEF WriteNumbers, ReadNumbers
<1>8. Types'
  BY <1>1, <1>2, <1>6 DEF IInv, Types
<1>9. Known'
  BY <1>2, <1>7 DEF IInv, Known, HasB, HasR, is_atop
<1>10. WritesInOrder'
  BY <1>2, <1>4, <1>5, <1>6 DEF IInv, WritesInOrder, Before
<1>11. ReadsInOrder'
  <2>1. LinkAw' \cup Offered(aw)' = LinkAw \cup Offered(aw)
    BY <1>4, <1>6
  <2> QED
    BY <1>2, <1>4, <1>6, <1>7, <2>1, ReadsStay
<1>12. IdsRight' /\ QueuesRight' /\ DataRight' /\ data_done' = data_done
  BY <1>1, MetaStays
<1>13. Pending' = Pending \cup {aw}
  <2>1. data_done \subseteq Numbers(writes) \cup Numbers(aw_out_queue)
    BY DEF IInv, DataRight
  <2>2. \A n \in Numbers(writes) \cup Numbers(aw_out_queue) : n < aw
    BY <1>5 DEF Before
  <2>3. aw \in Nat
    BY DEF IInv, Types
  <2>4. ~ (aw < aw)
    BY <2>3
  <2>5. aw \notin data_done
    BY <2>1, <2>2, <2>4
  <2> QED
    BY <1>2, <1>6, <2>5 DEF Pending
<1>14. packet = 0 /\ Offered(packet) = {}
  BY <1>1 DEF IInv, PacketRight, Offered
<1>15. PacketRight'
  <2>1. Before({packet'}, Offered(aw)')
    BY <1>4 DEF Before
  <2>2. Offered(packet)' = {aw}
    BY <1>1 DEF Offered
  <2>3. \A i \in DOMAIN w : w[i] = aw
    BY <1>4, <1>14 DEF IInv, PacketRight
  <2>4. w # <<>> /\ w[1] = aw
    BY <1>1, <2>3, EmptySeq, LenProperties DEF IInv, Types, PacketRight
  <2>5. \A i, j \in DOMAIN w : i < j => w[i] <= w[j]
    BY DEF IInv, PacketRight
  <2> QED
    BY <1>1, <1>2, <1>4, <1>13, <2>1, <2>2, <2>3, <2>4, <2>5 DEF PacketRight
<1>16. PacketsOnLink'
  <2>1. IsWriteFlit(f) /\ ~LastData(f) /\ f.txn = f.of
    BY <1>3 DEF IsWriteFlit, LastData
  <2>2. \A k \in DOMAIN req_link : k \in DOMAIN req_link' /\ req_link'[k] = req_link[k] /\ k < Len(req_link) + 1
    BY <1>6
  <2>3. \A k \in DOMAIN req_link' : k \in DOMAIN req_link \/ (k = Len(req_link) + 1 /\ req_link'[k] = f)
    BY <1>6
  <2>4. \A k \in DOMAIN req_link : IsWriteFlit(req_link[k]) => req_link[k].of < aw
    BY <1>4 DEF IInv, PacketsOnLink, Before
  <2>5. \A k \in DOMAIN req_link' : k \in Nat
    BY <1>6
  <2>6. \A k, l \in DOMAIN req_link' : k < l /\ IsWriteFlit(req_link'[k]) /\ IsWriteFlit(req_link'[l]) =>
          /\ req_link'[k].of <= req_link'[l].of
          /\ LastData(req_link'[k]) \/ req_link'[l].ch = "AW" => req_link'[k].of < req_link'[l].of
    <3>1. ASSUME NEW k \in DOMAIN req_link', NEW l \in DOMAIN req_link', k < l,
                 IsWriteFlit(req_link'[k]), IsWriteFlit(req_link'[l])
          PROVE  /\ req_link'[k].of <= req_link'[l].of
                 /\ LastData(req_link'[k]) \/ req_link'[l].ch = "AW" => req_link'[k].of < req_link'[l].of
      <4>1. k \in DOMAIN req_link
        BY <1>6, <2>2, <2>3, <2>5, <3>1
      <4>2. CASE l \in DOMAIN req_link
        BY <2>2, <3>1, <4>1, <4>2 DEF IInv, PacketsOnLink
      <4>3. CASE req_link'[l] = f
        <5>1. req_link[k].of \in Nat /\ req_link[k].of < aw /\ aw \in Nat
          BY <2>2, <2>4, <3>1, <4>1, FlitTypes DEF IInv, Types
        <5> QED
          BY <1>3, <2>2, <4>1, <4>3, <5>1
      <4> QED
        BY <2>3, <4>2, <4>3
    <3> QED
      BY <3>1
  <2>7. ASSUME NEW k \in DOMAIN req_link'
        PROVE  /\ req_link'[k].txn = req_link'[k].of
               /\ IsWriteFlit(req_link'[k]) => /\ Before({req_link'[k].of}, Offered(aw)')
                                               /\ packet' # 0 => req_link'[k].of <= packet'
                                               /\ req_link'[k].of \in Pending'
               /\ LastData(req_link'[k]) => req_link'[k].of # packet'
    <3>1. \A x : Before(x, Offered(aw)')
      BY <1>4 DEF Before
    <3>2. aw \in Nat
      BY DEF IInv, Types
    <3>3. CASE k \in DOMAIN req_link
      <4>1. req_link[k].of \in Nat /\ req_link[k].txn = req_link[k].of
        BY <3>3, FlitTypes
      <4>2. LastData(req_link[k]) => IsWriteFlit(req_link[k])
        BY DEF LastData, IsWriteFlit
      <4>3. IsWriteFlit(req_link[k]) => req_link[k].of \in Pending
        BY <3>3 DEF IInv, PacketsOnLink
      <4> QED
        BY <1>1, <1>13, <2>2, <2>4, <3>1, <3>2, <3>3, <4>1, <4>2, <4>3
    <3>4. CASE req_link'[k] = f
      BY <1>1, <1>3, <1>13, <2>1, <3>1, <3>2, <3>4
    <3> QED
      BY <2>3, <3>3, <3>4
  <2>8. \A t \in Pending' : t # packet' => \E k \in DOMAIN req_link' : LastData(req_link'[k]) /\ req_link'[k].of = t
    <3>1. 0 \notin Pending
      <4>1. Pending \subseteq WriteNumbers
        BY DEF Pending, WriteNumbers
      <4> QED
        BY <4>1, LenProperties DEF IInv, Known, Types
    <3> QED
      BY <1>1, <1>13, <1>14, <2>2, <3>1 DEF IInv, PacketsOnLink
  <2> QED
    BY <2>6, <2>7, <2>8 DEF PacketsOnLink
<1>17. HeadersFound' /\ WaitingRight'
  BY <1>2 DEF IInv, HeadersFound, WaitingRight, valid_in, is_atop_rsp_in, is_atop, rsp, AtHead
<1>18. Accounted' /\ ResponsesInOrder'
  <2>1. (Numbers(aw_out_queue) \cup LinkAw \cup Offered(aw) \cup ReadNumbers)'
           = Numbers(aw_out_queue) \cup LinkAw \cup Offered(aw) \cup ReadNumbers
    BY <1>2, <1>4, <1>6, <1>7
  <2>2. \A t \in DOMAIN txn, ch \in RspChannels : ToCome(t, ch)' = ToCome(t, ch)
    BY <1>2, <1>7, <2>1, ToComeStays
  <2> QED
    BY <1>2, <2>2, ResponsesStay
<1> QED
  BY <1>8, <1>9, <1>10, <1>11, <1>12, <1>15, <1>16, <1>17, <1>18 DEF IInv

LEMMA SendWStep ==
    ASSUME IInv, SendW
    PROVE  IInv'
<1> DEFINE f == [ch |-> "W", txn |-> axi_aw_id_q, of |-> w[1], last |-> w_last]
<1>0. /\ packet # 0 /\ packet = axi_aw_id_q /\ packet \in Nat /\ w # <<>> /\ w[1] = packet /\ packet \in Pending
      /\ w \in Seq(Nat) /\ aw \in Nat
  BY DEF SendW, IInv, PacketRight, Types
<1>1. /\ req_link' = Append(req_link, f) /\ w' = Tail(w) /\ aw_w_sel_q = "SelW"
      /\ req_arb' = (IF w_last THEN "none" ELSE "W")
      /\ aw_w_sel_q' = (IF w_last THEN "SelAw" ELSE "SelW")
      /\ packet' = (IF w_last THEN 0 ELSE packet)
      /\ UNCHANGED <<txn, meta, aw, ar, axi_aw_id_q, rsp_link, rob, rob_pending_q, got>>
  BY DEF SendW, Send, returns
<1>2. /\ txn' = txn /\ aw_queue' = aw_queue /\ ar_queue' = ar_queue
      /\ aw_atop' = aw_atop /\ ar_atop' = ar_atop /\ lzc_cnt_q' = lzc_cnt_q
      /\ atop_req_pending_q' = atop_req_pending_q /\ aw_out_queue' = aw_out_queue
      /\ writes' = writes /\ reads' = reads /\ data_done' = data_done /\ aw_offer' = aw_offer
      /\ aw' = aw /\ ar' = ar /\ axi_aw_id_q' = axi_aw_id_q
      /\ rsp_link' = rsp_link /\ rob' = rob
      /\ rob_pending_q' = rob_pending_q /\ got' = got
  BY <1>1 DEF meta
<1>3. f \in ReqFlits /\ f.ch = "W" /\ f.txn = packet /\ f.of = packet /\ f.last = w_last
  <2>1. w_last \in BOOLEAN
    BY DEF w_last
  <2> QED
    BY <1>0, <2>1 DEF ReqFlits
<1>4. (Len(w) = 1 \/ w[2] # w[1]) <=> w_last
  BY DEF w_last
<1> HIDE DEF f
<1>5. Offered(aw)' = Offered(aw) /\ Offered(ar)' = Offered(ar)
  BY <1>2 DEF Offered
<1>6. /\ req_link' \in Seq(ReqFlits) /\ Len(req_link) \in Nat
      /\ DOMAIN req_link = 1 .. Len(req_link) /\ DOMAIN req_link' = 1 .. Len(req_link) + 1
      /\ \A k \in 1 .. Len(req_link) : req_link'[k] = req_link[k]
      /\ req_link'[Len(req_link) + 1] = f
      /\ LinkAr' = LinkAr /\ LinkAw' = LinkAw
      /\ FlitsIncrease(req_link, "AW")' /\ FlitsIncrease(req_link, "AR")'
  BY <1>1, <1>3, LinkGrows
<1>7. WriteNumbers' = WriteNumbers /\ ReadNumbers' = ReadNumbers
  BY <1>2, <1>5, <1>6 DEF WriteNumbers, ReadNumbers
<1>8. /\ w' \in Seq(Nat) /\ Len(w') = Len(w) - 1 /\ Len(w) \in Nat /\ Len(w) >= 1
      /\ \A i \in 1 .. Len(w) - 1 : w'[i] = w[i + 1]
      /\ DOMAIN w = 1 .. Len(w) /\ DOMAIN w' = 1 .. Len(w) - 1
  <2>1. Len(w) \in Nat /\ Len(w) >= 1 /\ DOMAIN w = 1 .. Len(w)
    BY <1>0, EmptySeq, LenProperties
  <2>2. Tail(w) \in Seq(Nat) /\ Len(Tail(w)) = Len(w) - 1 /\ \A i \in 1 .. Len(Tail(w)) : Tail(w)[i] = w[i + 1]
    BY <1>0, HeadTailProperties
  <2> QED
    BY <1>1, <2>1, <2>2, LenProperties
<1>9. Types'
  BY <1>0, <1>1, <1>2, <1>6, <1>8 DEF IInv, Types
<1>10. Known' /\ WritesInOrder' /\ ReadsInOrder'
  <2>1. Known'
    BY <1>2, <1>7 DEF IInv, Known, HasB, HasR, is_atop
  <2>2. WritesInOrder'
    BY <1>2, <1>5, <1>6 DEF IInv, WritesInOrder
  <2>3. ReadsInOrder'
    BY <1>2, <1>5, <1>6, <1>7, ReadsStay
  <2> QED
    BY <2>1, <2>2, <2>3
<1>11. IdsRight' /\ QueuesRight' /\ DataRight' /\ data_done' = data_done
  BY <1>1, MetaStays
<1>12. Pending' = Pending
  BY <1>2, <1>6 DEF Pending
<1>13. Before({packet}, Offered(aw))
  BY <1>0 DEF IInv, PacketRight
<1>14. aw # 0 => packet < aw /\ w[Len(w)] = aw
  BY <1>13 DEF Before, Offered, IInv, PacketRight
<1>15. PacketRight'
  <2>1. \A i \in DOMAIN w' : w'[i] = w[i + 1] /\ i + 1 \in DOMAIN w /\ i \in Nat /\ i + 1 > 1
    BY <1>8
  <2>2. \A i \in DOMAIN w : w[i] \in Offered(packet) \cup Offered(aw) /\ w[i] \in Nat
    BY <1>0, <1>8, ElementOfSeq DEF IInv, PacketRight
  <2>3. \A i, j \in DOMAIN w : i < j => w[i] <= w[j]
    BY DEF IInv, PacketRight
  <2>4. \A i, j \in DOMAIN w' : i < j => w'[i] <= w'[j]
    <3>1. ASSUME NEW i \in DOMAIN w', NEW j \in DOMAIN w', i < j PROVE w'[i] <= w'[j]
      <4>1. i + 1 < j + 1
        BY <2>1, <3>1
      <4> QED
        BY <2>1, <2>3, <4>1
    <3> QED
      BY <3>1
  <2>5. aw # 0 => w' # <<>> /\ w'[Len(w')] = aw
    <3>1. ASSUME aw # 0 PROVE Len(w) > 1
      BY <1>0, <1>8, <1>14, <3>1
    <3>2. ASSUME aw # 0 PROVE Len(w') \in DOMAIN w' /\ Len(w') + 1 = Len(w)
      BY <1>8, <3>1, <3>2
    <3> QED
      BY <1>14, <2>1, <3>2
  <2>6. CASE w_last
    <3>1. ASSUME NEW i \in DOMAIN w' PROVE w'[i] \in Offered(aw)
      <4>1. 2 \in DOMAIN w /\ Len(w) # 1 /\ 2 <= i + 1
        BY <1>8, <2>1, <3>1
      <4>2. w[2] # packet /\ w[2] = aw /\ aw # 0
        BY <1>0, <1>4, <2>2, <2>6, <4>1 DEF Offered
      <4>3. w[2] <= w[i + 1]
        <5>1. i + 1 = 2 \/ 2 < i + 1
          BY <2>1, <4>1
        <5> QED
          BY <2>1, <2>2, <2>3, <4>1, <5>1
      <4>4. w[i + 1] # packet /\ w[i + 1] \in Offered(packet) \cup Offered(aw)
        BY <1>0, <1>14, <2>1, <2>2, <4>2, <4>3
      <4> QED
        BY <2>1, <4>4 DEF Offered
    <3> QED
      BY <1>1, <1>2, <1>5, <2>4, <2>5, <2>6, <3>1 DEF PacketRight
  <2>7. CASE ~w_last
    <3>1. packet' = packet /\ Offered(packet)' = Offered(packet)
      BY <1>1, <2>7 DEF Offered
    <3>2. Len(w) # 1 /\ w[2] = packet
      BY <1>0, <1>4, <2>7
    <3>3. 1 \in DOMAIN w' /\ w'[1] = packet
      BY <1>8, <3>2
    <3>4. w' # <<>>
      BY <3>3
    <3> QED
      BY <1>0, <1>1, <1>2, <1>5, <1>12, <1>13, <2>1, <2>2, <2>4, <2>5, <2>7, <3>1, <3>3, <3>4 DEF PacketRight
  <2> QED
    BY <2>6, <2>7
<1>16. PacketsOnLink'
  <2>1. IsWriteFlit(f) /\ (LastData(f) <=> w_last) /\ f.txn = f.of /\ f.of = packet /\ f.ch # "AW"
    BY <1>3 DEF IsWriteFlit, LastData
  <2>2. \A k \in DOMAIN req_link : k \in DOMAIN req_link' /\ req_link'[k] = req_link[k] /\ k < Len(req_link) + 1
    BY <1>6
  <2>3. \A k \in DOMAIN req_link' : k \in DOMAIN req_link \/ (k = Len(req_link) + 1 /\ req_link'[k] = f)
    BY <1>6
  <2>4. \A k \in DOMAIN req_link :
           /\ req_link[k].of \in Nat
           /\ req_link[k].txn = req_link[k].of
           /\ IsWriteFlit(req_link[k]) => req_link[k].of <= packet
           /\ IsWriteFlit(req_link[k]) => Before({req_link[k].of}, Offered(aw))
           /\ IsWriteFlit(req_link[k]) => req_link[k].of \in Pending
           /\ LastData(req_link[k]) => req_link[k].of # packet
           /\ LastData(req_link[k]) => IsWriteFlit(req_link[k])
    BY <1>0, FlitTypes DEF IInv, PacketsOnLink, LastData, IsWriteFlit
  <2>5. \A k \in DOMAIN req_link' : k \in Nat
    BY <1>6
  <2>6. \A k, l \in DOMAIN req_link' : k < l /\ IsWriteFlit(req_link'[k]) /\ IsWriteFlit(req_link'[l]) =>
          /\ req_link'[k].of <= req_link'[l].of
          /\ LastData(req_link'[k]) \/ req_link'[l].ch = "AW" => req_link'[k].of < req_link'[l].of
    <3>1. ASSUME NEW k \in DOMAIN req_link', NEW l \in DOMAIN req_link', k < l,
                 IsWriteFlit(req_link'[k]), IsWriteFlit(req_link'[l])
          PROVE  /\ req_link'[k].of <= req_link'[l].of
                 /\ LastData(req_link'[k]) \/ req_link'[l].ch = "AW" => req_link'[k].of < req_link'[l].of
      <4>1. k \in DOMAIN req_link
        BY <1>6, <2>2, <2>3, <2>5, <3>1
      <4>2. CASE l \in DOMAIN req_link
        BY <2>2, <3>1, <4>1, <4>2 DEF IInv, PacketsOnLink
      <4>3. CASE req_link'[l] = f
        <5>1. /\ req_link[k].of \in Nat /\ req_link[k].of <= packet
              /\ LastData(req_link[k]) => req_link[k].of # packet
          BY <2>2, <2>4, <3>1, <4>1
        <5>2. req_link'[k] = req_link[k] /\ req_link'[l].of = packet /\ req_link'[l].ch # "AW"
          BY <2>1, <2>2, <4>1, <4>3
        <5> QED
          BY <1>0, <5>1, <5>2
      <4> QED
        BY <2>3, <4>2, <4>3
    <3> QED
      BY <3>1
  <2>7. ASSUME NEW k \in DOMAIN req_link'
        PROVE  /\ req_link'[k].txn = req_link'[k].of
               /\ IsWriteFlit(req_link'[k]) => /\ Before({req_link'[k].of}, Offered(aw)')
                                               /\ packet' # 0 => req_link'[k].of <= packet'
                                               /\ req_link'[k].of \in Pending'
               /\ LastData(req_link'[k]) => req_link'[k].of # packet'
    <3>2. 0 \notin Pending
      <4>1. Pending \subseteq WriteNumbers
        BY DEF Pending, WriteNumbers
      <4> QED
        BY <4>1, LenProperties DEF IInv, Known, Types
    <3>1. (packet' = packet /\ ~w_last) \/ (packet' = 0 /\ w_last)
      BY <1>1
    <3>3. CASE k \in DOMAIN req_link
      <4>1. req_link'[k] = req_link[k]
        BY <2>2, <3>3
      <4> QED
        BY <1>5, <1>12, <2>4, <3>1, <3>2, <3>3, <4>1
    <3>4. CASE req_link'[k] = f
      <4> DEFINE h == req_link'[k]
      <4>1. h = f
        BY <3>4
      <4>2. h.txn = h.of /\ h.of = packet /\ (LastData(h) <=> w_last)
        BY <2>1, <4>1
      <4> HIDE DEF h
      <4>3. /\ Before({h.of}, Offered(aw)') /\ (packet' # 0 => h.of <= packet') /\ h.of \in Pending'
            /\ LastData(h) => h.of # packet'
        BY <1>0, <1>5, <1>12, <1>13, <3>1, <4>2
      <4> QED
        BY <4>2, <4>3 DEF h
    <3> QED
      BY <2>3, <3>3, <3>4
  <2>8. \A t \in Pending' : t # packet' => \E k \in DOMAIN req_link' : LastData(req_link'[k]) /\ req_link'[k].of = t
    <3>1. \A t \in Pending : t # packet => \E k \in DOMAIN req_link : LastData(req_link[k]) /\ req_link[k].of = t
      BY DEF IInv, PacketsOnLink
    <3>2. Len(req_link) + 1 \in DOMAIN req_link'
      BY <1>6
    <3> QED
      BY <1>1, <1>6, <1>12, <2>1, <2>2, <3>1, <3>2
  <2> QED
    BY <2>6, <2>7, <2>8 DEF PacketsOnLink
<1>17. HeadersFound' /\ WaitingRight'
  BY <1>2 DEF IInv, HeadersFound, WaitingRight, valid_in, is_atop_rsp_in, is_atop, rsp, AtHead
<1>18. Accounted' /\ ResponsesInOrder'
  <2>1. (Numbers(aw_out_queue) \cup LinkAw \cup Offered(aw) \cup ReadNumbers)'
           = Numbers(aw_out_queue) \cup LinkAw \cup Offered(aw) \cup ReadNumbers
    BY <1>2, <1>5, <1>6, <1>7
  <2>2. \A t \in DOMAIN txn, ch \in RspChannels : ToCome(t, ch)' = ToCome(t, ch)
    BY <1>2, <1>7, <2>1, ToComeStays
  <2> QED
    BY <1>2, <2>2, ResponsesStay
<1> QED
  BY <1>9, <1>10, <1>11, <1>15, <1>16, <1>17, <1>18 DEF IInv

-----------------------------------------------------------------------------
(* The subordinate accepts an AW *)

\* The packets on the link depend on which writes wait for their data.
LEMMA PacketsStay ==
    ASSUME IInv, UNCHANGED <<chimney, req_link>>, Pending' = Pending
    PROVE  PacketRight' /\ PacketsOnLink'
<1>1. /\ aw' = aw /\ ar' = ar /\ w' = w /\ aw_w_sel_q' = aw_w_sel_q /\ axi_aw_id_q' = axi_aw_id_q
      /\ req_arb' = req_arb /\ packet' = packet /\ req_link' = req_link
  BY DEF chimney
<1>2. Offered(aw)' = Offered(aw) /\ Offered(packet)' = Offered(packet)
  BY <1>1 DEF Offered
<1>3. PacketRight'
  BY <1>1, <1>2 DEF IInv, PacketRight
<1>4. PacketsOnLink'
  BY <1>1, <1>2 DEF IInv, PacketsOnLink
<1> QED
  BY <1>3, <1>4

LEMMA ReadsDistinct ==
    ASSUME IInv
    PROVE  /\ Distinct(reads) /\ DOMAIN reads \subseteq Nat /\ DOMAIN reads = 1 .. Len(reads) /\ Len(reads) \in Nat
           /\ \A i \in DOMAIN reads : Entry(reads, reads[i].txn) = i
<1>1. Distinct(reads)
  BY DEF IInv, ReadsInOrder, Distinct
<1>2. DOMAIN reads = 1 .. Len(reads) /\ Len(reads) \in Nat
  BY LenProperties DEF IInv, Types
<1>3. DOMAIN reads \subseteq Nat
  BY <1>2
<1> QED
  BY <1>1, <1>2, <1>3, EntryFound

LEMMA AcceptFacts ==
    ASSUME IInv, Accept, NEW h, h = Head(aw_out_queue)
    PROVE  /\ UNCHANGED <<txn, aw_queue, ar_queue, aw_atop, ar_atop, lzc_cnt_q, atop_req_pending_q, data_done, aw_offer>>
           /\ UNCHANGED <<chimney, links, returns>>
           /\ h \in Headers /\ h.txn \in DOMAIN txn /\ HasB(h.txn) /\ h.txn \in Numbers(aw_out_queue)
           /\ 1 \in DOMAIN aw_out_queue /\ aw_out_queue[1] = h
           /\ aw_out_queue' \in Seq(Headers) /\ Increasing(aw_out_queue)'
           /\ Numbers(aw_out_queue)' = Numbers(aw_out_queue) \ {h.txn}
           /\ Before({h.txn}, Numbers(aw_out_queue)')
           /\ \A k \in DOMAIN aw_out_queue' :
                 \E j \in DOMAIN aw_out_queue : aw_out_queue'[k] = aw_out_queue[j]
<1>1. aw_out_queue \in Seq(Headers) /\ aw_out_queue # <<>> /\ Increasing(aw_out_queue)
  BY DEF Accept, TakeAw, IInv, Types, WritesInOrder
<1>2. Distinct(aw_out_queue)
  <2>1. Numbered(aw_out_queue)
    <3>1. \A i \in DOMAIN aw_out_queue : aw_out_queue[i] \in Headers
      BY <1>1, ElementOfSeq, LenProperties
    <3> QED
      BY <3>1 DEF Numbered, Headers
  <2> QED
    BY <1>1, <2>1, IncreasingDistinct
<1>3. aw_out_queue' = Tail(aw_out_queue)
  BY DEF Accept, TakeAw
<1>4. /\ h \in Headers /\ h = aw_out_queue[1] /\ 1 \in DOMAIN aw_out_queue
      /\ Tail(aw_out_queue) \in Seq(Headers)
      /\ \A k \in 1 .. Len(aw_out_queue) - 1 :
            Tail(aw_out_queue)[k] = aw_out_queue[k + 1] /\ k + 1 \in DOMAIN aw_out_queue
      /\ DOMAIN Tail(aw_out_queue) = 1 .. Len(aw_out_queue) - 1
      /\ Numbers(Tail(aw_out_queue)) = Numbers(aw_out_queue) \ {h.txn}
      /\ Increasing(Tail(aw_out_queue))
      /\ \A k \in DOMAIN Tail(aw_out_queue) : h.txn < Tail(aw_out_queue)[k].txn
  BY <1>1, <1>2, NumbersTail
<1>5. h.txn \in Numbers(aw_out_queue)
  BY <1>4 DEF Numbers
<1>6. h.txn \in DOMAIN txn /\ HasB(h.txn)
  BY <1>5 DEF IInv, Known, WriteNumbers
<1>7. Before({h.txn}, Numbers(aw_out_queue)')
  BY <1>3, <1>4 DEF Before, Numbers
<1>8. \A k \in DOMAIN aw_out_queue' : \E j \in DOMAIN aw_out_queue : aw_out_queue'[k] = aw_out_queue[j]
  BY <1>3, <1>4
<1> QED
  BY <1>3, <1>4, <1>5, <1>6, <1>7, <1>8 DEF Accept, TakeAw

LEMMA AcceptWrites ==
    ASSUME IInv, Accept, NEW h, h = Head(aw_out_queue)
    PROVE  /\ writes' \in Seq(Headers) /\ Increasing(writes)'
           /\ Numbers(writes)' = Numbers(writes) \cup {h.txn}
           /\ \A k \in DOMAIN writes' : \/ writes'[k] = h
                                        \/ k \in DOMAIN writes /\ writes'[k] = writes[k]
<1>1. writes \in Seq(Headers) /\ h \in Headers /\ h.txn \in Numbers(aw_out_queue)
  BY AcceptFacts DEF IInv, Types
<1>2. writes' = Append(writes, h)
  BY DEF Accept, TakeAw
<1>3. Increasing(writes) /\ Before(Numbers(writes), {h.txn})
  BY <1>1 DEF IInv, WritesInOrder, Before
<1>4. Append(writes, h) = writes \o <<h>>
  BY <1>1, AppendIsConcat
<1>5. /\ writes' \in Seq(Headers) /\ Numbers(writes') = Numbers(writes) \cup {h.txn} /\ Increasing(writes')
  BY <1>1, <1>2, <1>3, <1>4, NumbersAppend
<1>6. /\ Len(writes) \in Nat /\ DOMAIN writes = 1 .. Len(writes) /\ DOMAIN writes' = 1 .. Len(writes) + 1
      /\ \A k \in 1 .. Len(writes) : writes'[k] = writes[k]
      /\ writes'[Len(writes) + 1] = h
  BY <1>1, <1>2, AppendProperties, LenProperties
<1>7. \A k \in DOMAIN writes' : writes'[k] = h \/ (k \in DOMAIN writes /\ writes'[k] = writes[k])
  BY <1>6
<1> QED
  BY <1>5, <1>7

LEMMA AcceptReads ==
    ASSUME IInv, Accept, NEW h, h = Head(aw_out_queue)
    PROVE  IF atop_has_r_rsp(h.txn)
           THEN /\ reads' \in Seq([id : Nat, txn : Nat, left : Nat \ {0}])
                /\ Numbers(reads)' = Numbers(reads) \cup {h.txn} /\ h.txn \notin Numbers(reads)
                /\ Distinct(reads)' /\ Len(reads) \in Nat
                /\ DOMAIN reads = 1 .. Len(reads) /\ DOMAIN reads' = 1 .. Len(reads) + 1
                /\ \A k \in 1 .. Len(reads) : reads'[k] = reads[k]
                /\ reads'[Len(reads) + 1] = [id |-> h.id, txn |-> h.txn, left |-> 1]
           ELSE reads' = reads
<1> DEFINE e == [id |-> h.id, txn |-> h.txn, left |-> 1]
           S == [id : Nat, txn : Nat, left : Nat \ {0}]
<1>1. reads \in Seq(S) /\ e \in S /\ e.txn = h.txn /\ h.txn \in Nat
  <2>1. h \in Headers
    BY AcceptFacts
  <2>2. reads \in Seq(S)
    BY DEF IInv, Types
  <2>3. e \in S /\ e.txn = h.txn /\ h.txn \in Nat
    BY <2>1 DEF Headers
  <2> QED
    BY <2>2, <2>3
<1>2. reads' = IF atop_has_r_rsp(h.txn) THEN Append(reads, e) ELSE reads
  BY DEF Accept, TakeAw
<1>3. ASSUME atop_has_r_rsp(h.txn) PROVE h.txn \notin Numbers(reads)
  <2>1. h.txn \in Numbers(aw_out_queue) /\ h.txn \in DOMAIN txn /\ is_atop(h.txn)
    BY <1>3, AcceptFacts DEF is_atop, atop_has_r_rsp
  <2> QED
    BY <1>1, <2>1 DEF IInv, ReadsInOrder, Before
<1> HIDE DEF e, S
<1>4. Append(reads, e) = reads \o <<e>> /\ Distinct(reads)
  BY <1>1, AppendIsConcat, ReadsDistinct
<1>7. /\ reads \o <<e>> \in Seq(S) /\ Numbers(reads \o <<e>>) = Numbers(reads) \cup {e.txn}
      /\ Increasing(reads) /\ Before(Numbers(reads), {e.txn}) => Increasing(reads \o <<e>>)
      /\ Distinct(reads) /\ e.txn \notin Numbers(reads) => Distinct(reads \o <<e>>)
  BY <1>1, NumbersAppend
<1>5. ASSUME atop_has_r_rsp(h.txn)
      PROVE  reads' \in Seq(S) /\ Numbers(reads') = Numbers(reads) \cup {h.txn} /\ Distinct(reads')
  BY <1>1, <1>2, <1>3, <1>4, <1>5, <1>7
<1>6. ASSUME atop_has_r_rsp(h.txn)
      PROVE  /\ Len(reads) \in Nat /\ DOMAIN reads = 1 .. Len(reads) /\ DOMAIN reads' = 1 .. Len(reads) + 1
             /\ \A k \in 1 .. Len(reads) : reads'[k] = reads[k]
             /\ reads'[Len(reads) + 1] = e
  BY <1>1, <1>2, <1>6, AppendProperties, LenProperties
<1> QED
  BY <1>2, <1>3, <1>5, <1>6 DEF S, e

\* The beats to come of a read at the subordinate.
LEMMA LeftAt ==
    ASSUME NEW i \in DOMAIN reads, Distinct(reads), DOMAIN reads \subseteq Nat
    PROVE  ToCome(reads[i].txn, "R") = reads[i].left
<1>1. Entry(reads, reads[i].txn) = i
  BY EntryFound
<1>2. reads[i].txn \in Numbers(reads)
  BY DEF Numbers
<1> QED
  BY <1>1, <1>2 DEF ToCome

LEMMA AcceptToCome ==
    ASSUME IInv, Accept, NEW t \in DOMAIN txn, NEW ch \in RspChannels
    PROVE  ToCome(t, ch)' = ToCome(t, ch)
<1> SUFFICES ASSUME NEW h, h = Head(aw_out_queue)
             PROVE  ToCome(t, ch)' = ToCome(t, ch)
  OBVIOUS
<1>1. /\ h \in Headers /\ h.txn \in DOMAIN txn /\ h.txn \in Numbers(aw_out_queue)
      /\ Numbers(aw_out_queue)' = Numbers(aw_out_queue) \ {h.txn}
      /\ txn' = txn /\ UNCHANGED <<chimney, links, returns>>
  BY AcceptFacts
<1>2. aw' = aw /\ ar' = ar /\ LinkAw' = LinkAw /\ LinkAr' = LinkAr
  BY <1>1 DEF chimney, links, LinkAw, LinkAr
<1>3. Offered(aw)' = Offered(aw) /\ ReadNumbers' = ReadNumbers
  BY <1>2 DEF Offered, ReadNumbers
<1>4. Numbers(writes)' = Numbers(writes) \cup {h.txn}
  BY AcceptWrites
<1>5. WriteNumbers' = WriteNumbers
  BY <1>1, <1>2, <1>3, <1>4 DEF WriteNumbers
<1>6. HasR(t)' <=> HasR(t)
  BY <1>1 DEF HasR
<1>7. CASE ch = "B"
  BY <1>5, <1>7 DEF ToCome
<1>8. CASE ch = "R" /\ ~atop_has_r_rsp(h.txn)
  <2>1. reads' = reads
    BY <1>8, AcceptReads
  <2>2. ~HasR(h.txn)
    <3>1. HasB(h.txn)
      BY AcceptFacts
    <3> QED
      BY <1>8, <3>1 DEF HasB, HasR, atop_has_r_rsp
  <2>3. Numbers(reads)' = Numbers(reads) /\ reads'[Entry(reads, t)'].left = reads[Entry(reads, t)].left
    BY <2>1
  <2>4. HasR(t) => (/\ t \in (Numbers(aw_out_queue) \cup LinkAw \cup Offered(aw) \cup ReadNumbers)'
                    <=> t \in Numbers(aw_out_queue) \cup LinkAw \cup Offered(aw) \cup ReadNumbers)
    BY <1>1, <1>2, <1>3, <2>2
  <2> QED
    BY <1>1, <1>6, <1>8, <2>3, <2>4 DEF ToCome
<1>9. CASE ch = "R" /\ atop_has_r_rsp(h.txn)
  <2>1. /\ Numbers(reads)' = Numbers(reads) \cup {h.txn} /\ h.txn \notin Numbers(reads)
        /\ Distinct(reads') /\ Len(reads) \in Nat
        /\ DOMAIN reads = 1 .. Len(reads) /\ DOMAIN reads' = 1 .. Len(reads) + 1
        /\ \A k \in 1 .. Len(reads) : reads'[k] = reads[k]
        /\ reads'[Len(reads) + 1] = [id |-> h.id, txn |-> h.txn, left |-> 1]
    BY <1>9, AcceptReads
  <2>2. DOMAIN reads' \subseteq Nat
    BY <2>1
  <2>3. CASE t = h.txn
    <3>1. ToCome(t, "R") = 1
      <4>1. HasR(t) /\ txn[t].beats = 1
        BY <1>1, <1>9, <2>3 DEF HasR, atop_has_r_rsp, IInv, Types
      <4> QED
        BY <1>1, <2>1, <2>3, <4>1 DEF ToCome
    <3>2. Entry(reads', t) = Len(reads) + 1
      <4>1. Len(reads) + 1 \in DOMAIN reads' /\ reads'[Len(reads) + 1].txn = t
        BY <2>1, <2>3
      <4> QED
        BY <2>1, <2>2, <4>1, EntryFound
    <3>3. t \in Numbers(reads)' /\ reads'[Entry(reads', t)].left = 1
      BY <2>1, <2>3, <3>2
    <3>4. ToCome(t, "R")' = 1
      BY <3>3 DEF ToCome
    <3> QED
      BY <1>9, <3>1, <3>4
  <2>4. CASE t # h.txn /\ t \in Numbers(reads)
    <3>1. PICK i \in DOMAIN reads : reads[i].txn = t
      BY <2>4 DEF Numbers
    <3>2. Entry(reads, t) = i
      BY <3>1, ReadsDistinct
    <3>3. i \in DOMAIN reads' /\ reads'[i] = reads[i]
      BY <2>1
    <3>4. Entry(reads', t) = i
      BY <2>1, <2>2, <3>1, <3>3, EntryFound
    <3>5. reads'[Entry(reads', t)].left = reads[Entry(reads, t)].left /\ t \in Numbers(reads)'
      BY <2>1, <2>4, <3>2, <3>3, <3>4
    <3> QED
      BY <1>9, <2>4, <3>5 DEF ToCome
  <2>5. CASE t # h.txn /\ t \notin Numbers(reads)
    <3>1. t \notin Numbers(reads)'
      BY <2>1, <2>5
    <3>2. t \in (Numbers(aw_out_queue) \cup LinkAw \cup Offered(aw) \cup ReadNumbers)'
             <=> t \in Numbers(aw_out_queue) \cup LinkAw \cup Offered(aw) \cup ReadNumbers
      BY <1>1, <1>2, <1>3, <2>5
    <3> QED
      BY <1>1, <1>6, <1>9, <2>5, <3>1, <3>2 DEF ToCome
  <2> QED
    BY <2>3, <2>4, <2>5
<1> QED
  BY <1>7, <1>8, <1>9 DEF RspChannels

LEMMA AcceptStep ==
    ASSUME IInv, Accept
    PROVE  IInv'
<1> SUFFICES ASSUME NEW h, h = Head(aw_out_queue)
             PROVE  IInv'
  OBVIOUS
<1>1. /\ txn' = txn /\ aw_queue' = aw_queue /\ ar_queue' = ar_queue /\ aw_atop' = aw_atop /\ ar_atop' = ar_atop
      /\ lzc_cnt_q' = lzc_cnt_q /\ atop_req_pending_q' = atop_req_pending_q
      /\ data_done' = data_done /\ aw_offer' = aw_offer
      /\ UNCHANGED <<chimney, links, returns>>
      /\ h \in Headers /\ h.txn \in DOMAIN txn /\ HasB(h.txn) /\ h.txn \in Numbers(aw_out_queue)
      /\ 1 \in DOMAIN aw_out_queue /\ aw_out_queue[1] = h
      /\ aw_out_queue' \in Seq(Headers) /\ Increasing(aw_out_queue)'
      /\ Numbers(aw_out_queue)' = Numbers(aw_out_queue) \ {h.txn}
      /\ Before({h.txn}, Numbers(aw_out_queue)')
      /\ \A k \in DOMAIN aw_out_queue' : \E j \in DOMAIN aw_out_queue : aw_out_queue'[k] = aw_out_queue[j]
  BY AcceptFacts
<1>2. /\ aw' = aw /\ ar' = ar /\ w' = w /\ aw_w_sel_q' = aw_w_sel_q /\ axi_aw_id_q' = axi_aw_id_q
      /\ req_arb' = req_arb /\ packet' = packet /\ req_link' = req_link /\ rsp_link' = rsp_link
      /\ rob' = rob /\ rob_pending_q' = rob_pending_q /\ got' = got
      /\ LinkAw' = LinkAw /\ LinkAr' = LinkAr
  BY <1>1 DEF chimney, links, returns, LinkAw, LinkAr
<1>3. Offered(aw)' = Offered(aw) /\ Offered(ar)' = Offered(ar) /\ ReadNumbers' = ReadNumbers
  BY <1>2 DEF Offered, ReadNumbers
<1>4. /\ writes' \in Seq(Headers) /\ Increasing(writes)'
      /\ Numbers(writes)' = Numbers(writes) \cup {h.txn}
      /\ \A k \in DOMAIN writes' : \/ writes'[k] = h
                                   \/ k \in DOMAIN writes /\ writes'[k] = writes[k]
  BY AcceptWrites
<1>5. \/ reads' = reads
      \/ /\ atop_has_r_rsp(h.txn) /\ reads' \in Seq([id : Nat, txn : Nat, left : Nat \ {0}])
         /\ Numbers(reads)' = Numbers(reads) \cup {h.txn} /\ h.txn \notin Numbers(reads)
         /\ Distinct(reads)' /\ Len(reads) \in Nat
         /\ DOMAIN reads = 1 .. Len(reads) /\ DOMAIN reads' = 1 .. Len(reads) + 1
         /\ \A k \in 1 .. Len(reads) : reads'[k] = reads[k]
         /\ reads'[Len(reads) + 1] = [id |-> h.id, txn |-> h.txn, left |-> 1]
  BY AcceptReads
<1>6. WriteNumbers' = WriteNumbers /\ Pending' = Pending /\ DataRight'
  BY <1>1, <1>2, <1>3, <1>4 DEF WriteNumbers, Pending, DataRight, IInv
<1>7. Types'
  BY <1>1, <1>2, <1>4, <1>5 DEF IInv, Types
<1>8. Known'
  <2>1. \A t \in Numbers(reads)' : t \in DOMAIN txn /\ HasR(t)
    <3>1. atop_has_r_rsp(h.txn) => HasR(h.txn)
      BY DEF HasR, atop_has_r_rsp
    <3> QED
      BY <1>1, <1>5, <3>1 DEF IInv, Known
  <2> QED
    BY <1>1, <1>2, <1>3, <1>6, <2>1 DEF IInv, Known, HasB, HasR, is_atop
<1>9. WritesInOrder'
  <2>1. /\ FlitsIncrease(req_link, "AW")' /\ Before(Numbers(writes)', Numbers(aw_out_queue)')
    BY <1>1, <1>2, <1>4 DEF IInv, WritesInOrder, Before
  <2>2. Numbers(writes)' \cup Numbers(aw_out_queue)' = Numbers(writes) \cup Numbers(aw_out_queue)
    BY <1>1, <1>4
  <2> QED
    BY <1>1, <1>2, <1>3, <1>4, <2>1, <2>2 DEF IInv, WritesInOrder
<1>10. ReadsInOrder'
  <2>1. \A t : is_atop(t)' <=> is_atop(t)
    BY <1>1 DEF is_atop
  <2>2. \A t \in Numbers(reads) :
           IF is_atop(t) THEN Before({t}, (Numbers(aw_out_queue) \cup LinkAw \cup Offered(aw))')
           ELSE Before({t}, ReadNumbers')
    BY <1>1, <1>2, <1>3 DEF IInv, ReadsInOrder, Before
  <2>3. Before({h.txn}, (Numbers(aw_out_queue) \cup LinkAw \cup Offered(aw))')
    BY <1>1, <1>2, <1>3 DEF IInv, WritesInOrder, Before
  <2>4. atop_has_r_rsp(h.txn) => is_atop(h.txn)
    BY DEF atop_has_r_rsp, is_atop
  <2>5. \A t \in Numbers(reads)' :
           IF is_atop(t) THEN Before({t}, (Numbers(aw_out_queue) \cup LinkAw \cup Offered(aw))')
           ELSE Before({t}, ReadNumbers')
    BY <1>5, <2>2, <2>3, <2>4
  <2>6. \A i, j \in DOMAIN reads :
          i < j => /\ reads[i].txn # reads[j].txn
                   /\ ~is_atop(reads[i].txn) /\ ~is_atop(reads[j].txn) => reads[i].txn < reads[j].txn
    BY DEF IInv, ReadsInOrder
  <2>7. ASSUME NEW i \in DOMAIN reads', NEW j \in DOMAIN reads', i < j
        PROVE  /\ reads'[i].txn # reads'[j].txn
               /\ ~is_atop(reads'[i].txn) /\ ~is_atop(reads'[j].txn) => reads'[i].txn < reads'[j].txn
    <3>1. CASE reads' = reads
      BY <2>6, <2>7, <3>1
    <3>2. CASE reads' # reads
      <4>1. /\ atop_has_r_rsp(h.txn) /\ Distinct(reads)' /\ Len(reads) \in Nat
            /\ DOMAIN reads = 1 .. Len(reads) /\ DOMAIN reads' = 1 .. Len(reads) + 1
            /\ \A k \in 1 .. Len(reads) : reads'[k] = reads[k]
            /\ reads'[Len(reads) + 1] = [id |-> h.id, txn |-> h.txn, left |-> 1]
        BY <1>5, <3>2
      <4>2. i \in DOMAIN reads /\ (j \in DOMAIN reads \/ j = Len(reads) + 1)
        <5>1. i \in 1 .. Len(reads) + 1 /\ j \in 1 .. Len(reads) + 1 /\ i < j
          BY <2>7, <4>1
        <5> QED
          BY <4>1, <5>1
      <4>3. CASE j \in DOMAIN reads
        <5>1. reads'[i] = reads[i] /\ reads'[j] = reads[j]
          BY <4>1, <4>2, <4>3
        <5> QED
          BY <2>6, <2>7, <4>2, <4>3, <5>1
      <4>4. CASE j = Len(reads) + 1
        <5>1. reads'[j].txn = h.txn /\ is_atop(h.txn)
          BY <2>4, <4>1, <4>4
        <5>2. reads'[i].txn # reads'[j].txn
          BY <2>7, <4>1 DEF Distinct
        <5> QED
          BY <5>1, <5>2
      <4> QED
        BY <4>2, <4>3, <4>4
    <3> QED
      BY <3>1, <3>2
  <2> QED
    BY <1>1, <1>2, <1>3, <2>1, <2>5, <2>7 DEF IInv, ReadsInOrder, is_atop
<1>11. IdsRight'
  <2>1. \A t : (is_atop(t)' <=> is_atop(t)) /\ no_atop_req_id(t)' = no_atop_req_id(t)
               /\ (atop_has_r_rsp(t)' <=> atop_has_r_rsp(t))
    BY <1>1 DEF is_atop, no_atop_req_id, atop_has_r_rsp
  <2>2. /\ ~is_atop(h.txn) => h.id = no_atop_req_id(h.txn)
        /\ is_atop(h.txn) => h.id \in AtopIds /\ aw_atop[h.id] = h.txn
        /\ atop_has_r_rsp(h.txn) => ar_atop[h.id] = h.txn
    BY <1>1 DEF IInv, IdsRight, OwnId, InRegister, LoadsInRegister
  <2>3. OwnId(writes') /\ InRegister(writes', aw_atop)
    BY <1>4, <2>2 DEF IInv, IdsRight, OwnId, InRegister
  <2>4. OwnId(aw_out_queue') /\ InRegister(aw_out_queue', aw_atop)
    BY <1>1 DEF IInv, IdsRight, OwnId, InRegister
  <2>5. \A i \in DOMAIN aw_out_queue' :
           atop_has_r_rsp(aw_out_queue'[i].txn) => ar_atop[aw_out_queue'[i].id] = aw_out_queue'[i].txn
    BY <1>1 DEF IInv, IdsRight, LoadsInRegister
  <2>6. OwnId(reads') /\ InRegister(reads', ar_atop)
    <3>1. CASE reads' = reads
      BY <3>1 DEF IInv, IdsRight
    <3>2. CASE reads' # reads
      <4>1. \A k \in DOMAIN reads' : \/ k \in DOMAIN reads /\ reads'[k] = reads[k]
                                     \/ reads'[k].id = h.id /\ reads'[k].txn = h.txn
        <5>1. /\ Len(reads) \in Nat
              /\ DOMAIN reads = 1 .. Len(reads) /\ DOMAIN reads' = 1 .. Len(reads) + 1
              /\ \A k \in 1 .. Len(reads) : reads'[k] = reads[k]
              /\ reads'[Len(reads) + 1] = [id |-> h.id, txn |-> h.txn, left |-> 1]
          BY <1>5, <3>2
        <5>2. \A k \in DOMAIN reads' : k \in DOMAIN reads \/ k = Len(reads) + 1
          BY <5>1
        <5> QED
          BY <5>1, <5>2
      <4>2. atop_has_r_rsp(h.txn) /\ is_atop(h.txn)
        BY <1>5, <3>2 DEF atop_has_r_rsp, is_atop
      <4> QED
        BY <2>2, <4>1, <4>2 DEF IInv, IdsRight, OwnId, InRegister
    <3> QED
      BY <3>1, <3>2
  <2> QED
    BY <1>1, <2>1, <2>3, <2>4, <2>5, <2>6 DEF IInv, IdsRight, OwnId, InRegister, LoadsInRegister
<1>12. QueuesRight'
  <2>1. \A t : (is_atop(t)' <=> is_atop(t)) /\ no_atop_req_id(t)' = no_atop_req_id(t)
    BY <1>1 DEF is_atop, no_atop_req_id
  <2>2. Numbers(writes)' \cup Numbers(aw_out_queue)' = Numbers(writes) \cup Numbers(aw_out_queue)
    BY <1>1, <1>4
  <2>3. {t \in Numbers(reads)' : ~is_atop(t)} = {t \in Numbers(reads) : ~is_atop(t)}
    <3>1. atop_has_r_rsp(h.txn) => is_atop(h.txn)
      BY DEF atop_has_r_rsp, is_atop
    <3> QED
      BY <1>5, <3>1
  <2> QED
    BY <1>1, <2>1, <2>2, <2>3 DEF IInv, QueuesRight, OwnId
<1>13. PacketRight' /\ PacketsOnLink'
  BY <1>1, <1>2, <1>6, PacketsStay
<1>14. HeadersFound' /\ WaitingRight'
  BY <1>1, <1>2 DEF IInv, HeadersFound, WaitingRight, valid_in, is_atop_rsp_in, is_atop, rsp, AtHead
<1>15. Accounted' /\ ResponsesInOrder'
  <2>1. \A t \in DOMAIN txn, ch \in RspChannels : ToCome(t, ch)' = ToCome(t, ch)
    BY AcceptToCome
  <2> QED
    BY <1>1, <1>2, <2>1, ResponsesStay
<1> QED
  BY <1>6, <1>7, <1>8, <1>9, <1>10, <1>11, <1>12, <1>13, <1>14, <1>15 DEF IInv

LEMMA IssueStep ==
    ASSUME IInv, NEW r \in Requests, Issue(r)
    PROVE  IInv'
BY IssueTypes, IssuePlaces, IssueRest, IssueResponses DEF IInv

-----------------------------------------------------------------------------
(* The manager takes responses.  In a channel, either nothing moves, or the  *)
(* reorder buffer gives what it holds, or the response at the end of the     *)
(* link is given, or kept.                                                   *)

\* The response at the end of the link leaves it.
Leaves(ready, store) ==
    \E ch \in RspChannels : valid_in(ch) /\
        (rob_ready_out(ch, ready, store) \/ (sel_atop(ch) /\ ch \in ready))

Gives(ch, f)  == \A t \in DOMAIN txn : got'[t][ch] = got[t][ch] + (IF f.txn = t THEN 1 ELSE 0)
GivesNone(ch) == \A t \in DOMAIN txn : got'[t][ch] = got[t][ch]

Unmoved(ch)   == GivesNone(ch) /\ rob'[ch] = rob[ch]
RobGives(ch)  == rob[ch] # NoFlit /\ Gives(ch, rob[ch]) /\ rob'[ch] = NoFlit
HeadGives(ch) == valid_in(ch) /\ (rob[ch] = NoFlit \/ is_atop(rsp.txn)) /\ Gives(ch, rsp) /\ rob'[ch] = rob[ch]
HeadKept(ch)  == valid_in(ch) /\ rob[ch] = NoFlit /\ ~is_atop(rsp.txn) /\ GivesNone(ch) /\ rob'[ch] = rsp

LEMMA ReturnGiven ==
    ASSUME IInv, NEW ready \in SUBSET RspChannels, NEW store \in BOOLEAN, Return(ready, store)
    PROVE  /\ got' \in Seq([RspChannels -> Nat]) /\ Len(got') = Len(txn)
           /\ \A ch \in RspChannels :
                 IF ch \in Given(ready, store) THEN Gives(ch, rsp_out(ch, store)) ELSE GivesNone(ch)
<1> DEFINE n(t, ch) == Cardinality({c \in Given(ready, store) \cap {ch} : rsp_out(c, store).txn = t})
<1>1. \A t, ch : n(t, ch) = IF ch \in Given(ready, store) /\ rsp_out(ch, store).txn = t THEN 1 ELSE 0
  <2>1. ASSUME NEW t, NEW ch PROVE n(t, ch) = IF ch \in Given(ready, store) /\ rsp_out(ch, store).txn = t THEN 1 ELSE 0
    <3>1. {c \in Given(ready, store) \cap {ch} : rsp_out(c, store).txn = t}
             = IF ch \in Given(ready, store) /\ rsp_out(ch, store).txn = t THEN {ch} ELSE {}
      OBVIOUS
    <3> QED
      BY <3>1, FS_EmptySet, FS_Singleton
  <2> QED
    BY <2>1
<1>2. got' = [t \in DOMAIN got |-> [ch \in RspChannels |-> got[t][ch] + n(t, ch)]]
  BY DEF Return
<1> HIDE DEF n
<1>3. Len(got) \in Nat /\ DOMAIN got = 1 .. Len(got) /\ Len(got) = Len(txn) /\ DOMAIN txn = DOMAIN got
  BY LenProperties DEF IInv, Types
<1>4. \A t \in DOMAIN got, ch \in RspChannels : got[t][ch] \in Nat
  <2>1. \A t \in DOMAIN got : got[t] \in [RspChannels -> Nat]
    BY <1>3, ElementOfSeq DEF IInv, Types
  <2> QED
    BY <2>1
<1>5. \A t \in DOMAIN got, ch \in RspChannels : got'[t][ch] = got[t][ch] + n(t, ch)
  BY <1>2
<1>6. got' \in Seq([RspChannels -> Nat]) /\ Len(got') = Len(txn)
  <2>1. \A t \in DOMAIN got : [ch \in RspChannels |-> got[t][ch] + n(t, ch)] \in [RspChannels -> Nat]
    BY <1>1, <1>4
  <2>2. got' \in [1 .. Len(got) -> [RspChannels -> Nat]]
    BY <1>2, <1>3, <2>1
  <2> QED
    BY <1>3, <2>2, SeqDef, LenProperties
<1> QED
  BY <1>1, <1>3, <1>4, <1>5, <1>6 DEF Gives, GivesNone

LEMMA ReturnMoves ==
    ASSUME IInv, NEW ready \in SUBSET RspChannels, NEW store \in BOOLEAN, Return(ready, store),
           NEW ch \in RspChannels
    PROVE  IF valid_in(ch) /\ Leaves(ready, store) THEN HeadGives(ch) \/ HeadKept(ch)
           ELSE Unmoved(ch) \/ RobGives(ch)
<1>1. IF ch \in Given(ready, store) THEN Gives(ch, rsp_out(ch, store)) ELSE GivesNone(ch)
  BY ReturnGiven
<1>2. rob'[ch] = IF rob[ch] # NoFlit THEN IF rob_ready_in(ch, ready) THEN NoFlit ELSE rob[ch]
                 ELSE IF store /\ rob_valid_in(ch) THEN rsp ELSE NoFlit
  BY DEF Return
<1>3. ch \in Given(ready, store) <=> ch \in ready /\ rsp_out(ch, store) # NoFlit
  BY DEF Given
<1>4. valid_in(ch) => (Leaves(ready, store) <=> rob_ready_out(ch, ready, store) \/ (sel_atop(ch) /\ ch \in ready))
  BY DEF Leaves, valid_in
<1>5. valid_in(ch) => rsp # NoFlit
  BY DEF valid_in, NoFlit, RspChannels
<1>6. CASE ~valid_in(ch)
  <2>1. ~sel_atop(ch) /\ ~rob_valid_in(ch) /\ (rob_ready_in(ch, ready) <=> ch \in ready)
    BY <1>6 DEF sel_atop, is_atop_rsp_in, rob_valid_in, rob_ready_in
  <2>2. rsp_out(ch, store) = rob[ch]
    BY <2>1 DEF rsp_out
  <2> QED
    BY <1>1, <1>2, <1>3, <1>6, <2>1, <2>2 DEF Unmoved, RobGives
<1>7. CASE valid_in(ch) /\ ~is_atop(rsp.txn)
  <2>1. ~sel_atop(ch) /\ rob_valid_in(ch) /\ (rob_ready_in(ch, ready) <=> ch \in ready)
    BY <1>7 DEF sel_atop, is_atop_rsp_in, rob_valid_in, rob_ready_in
  <2>2. rsp_out(ch, store) = IF rob[ch] # NoFlit THEN rob[ch] ELSE IF ~store THEN rsp ELSE NoFlit
    BY <2>1 DEF rsp_out
  <2>3. Leaves(ready, store) <=> rob[ch] = NoFlit /\ (store \/ ch \in ready)
    BY <1>4, <1>7, <2>1 DEF rob_ready_out
  <2> QED
    BY <1>1, <1>2, <1>3, <1>5, <1>7, <2>1, <2>2, <2>3 DEF Unmoved, RobGives, HeadGives, HeadKept
<1>8. CASE valid_in(ch) /\ is_atop(rsp.txn) /\ ch \notin rob_pending_q
  <2>1. sel_atop(ch) /\ ~rob_valid_in(ch) /\ ~rob_ready_in(ch, ready)
    BY <1>8 DEF sel_atop, is_atop_rsp_in, rob_valid_in, rob_ready_in
  <2>2. rsp_out(ch, store) = rsp
    BY <2>1 DEF rsp_out
  <2>3. Leaves(ready, store) <=> ch \in ready
    BY <1>4, <1>8, <2>1 DEF rob_ready_out
  <2>4. rob'[ch] = rob[ch]
    BY <1>2, <2>1
  <2> QED
    BY <1>1, <1>3, <1>5, <1>8, <2>2, <2>3, <2>4 DEF Unmoved, HeadGives
<1>9. CASE valid_in(ch) /\ is_atop(rsp.txn) /\ ch \in rob_pending_q
  <2>1. ~sel_atop(ch) /\ ~rob_valid_in(ch) /\ (rob_ready_in(ch, ready) <=> ch \in ready)
    BY <1>9 DEF sel_atop, is_atop_rsp_in, rob_valid_in, rob_ready_in
  <2>2. rob[ch] # NoFlit
    BY <1>9 DEF IInv, WaitingRight, is_atop_rsp_in
  <2>3. rsp_out(ch, store) = rob[ch] /\ ~Leaves(ready, store)
    BY <1>4, <1>9, <2>1, <2>2 DEF rsp_out, rob_ready_out
  <2> QED
    BY <1>1, <1>2, <1>3, <2>1, <2>2, <2>3 DEF Unmoved, RobGives
<1> QED
  BY <1>6, <1>7, <1>8, <1>9

\* The responses on their link, counted, when one leaves and when one enters.
LEMMA OnLinkFinite ==
    ASSUME IInv, NEW t, NEW ch
    PROVE  IsFiniteSet(OnLink(t, ch)) /\ Cardinality(OnLink(t, ch)) \in Nat /\ OnLink(t, ch) \subseteq Nat \ {0}
<1>1. DOMAIN rsp_link = 1 .. Len(rsp_link) /\ Len(rsp_link) \in Nat
  BY LenProperties DEF IInv, Types
<1>2. IsFiniteSet(DOMAIN rsp_link)
  BY <1>1, FS_Interval
<1>3. OnLink(t, ch) \subseteq DOMAIN rsp_link
  BY DEF OnLink
<1> QED
  BY <1>1, <1>2, <1>3, FS_Subset, FS_CardinalityType

LEMMA ResponseLeaves ==
    ASSUME IInv, rsp_link # <<>>, rsp_link' = Tail(rsp_link), NEW t, NEW ch
    PROVE  /\ Cardinality(OnLink(t, ch)')
                 = Cardinality(OnLink(t, ch)) - (IF valid_in(ch) /\ rsp.txn = t THEN 1 ELSE 0)
           /\ \A k \in OnLink(t, ch)' : k + 1 \in OnLink(t, ch) /\ k \in Nat
           /\ valid_in(ch) /\ rsp.txn = t => 1 \in OnLink(t, ch)
<1>1. /\ rsp_link \in Seq(RspFlits) /\ DOMAIN rsp_link = 1 .. Len(rsp_link) /\ Len(rsp_link) \in Nat
      /\ Len(rsp_link) >= 1 /\ Head(rsp_link) = rsp_link[1]
  BY EmptySeq, LenProperties DEF IInv, Types
<1>2. /\ DOMAIN rsp_link' = 1 .. Len(rsp_link) - 1
      /\ \A k \in 1 .. Len(rsp_link) - 1 : rsp_link'[k] = rsp_link[k + 1]
  <2>1. /\ Tail(rsp_link) \in Seq(RspFlits) /\ Len(Tail(rsp_link)) = Len(rsp_link) - 1
        /\ \A k \in 1 .. Len(Tail(rsp_link)) : Tail(rsp_link)[k] = rsp_link[k + 1]
    BY <1>1, HeadTailProperties
  <2> QED
    BY <2>1, LenProperties
<1>3. valid_in(ch) /\ rsp.txn = t <=> 1 \in OnLink(t, ch)
  BY <1>1 DEF valid_in, rsp, AtHead, OnLink, RspFor
<1> DEFINE S == OnLink(t, ch) \ {1}
           T == OnLink(t, ch)'
           f == [k \in S |-> k - 1]
<1>4. \A k \in T : k + 1 \in S /\ k \in Nat
  BY <1>1, <1>2 DEF OnLink, RspFor
<1>5. \A k \in S : k - 1 \in T /\ k \in Nat
  BY <1>1, <1>2 DEF OnLink, RspFor
<1>6. IsFiniteSet(S) /\ Cardinality(S) = IF 1 \in OnLink(t, ch) THEN Cardinality(OnLink(t, ch)) - 1
                                         ELSE Cardinality(OnLink(t, ch))
  BY OnLinkFinite, FS_RemoveElement
<1> HIDE DEF S, T
<1>7. f \in Bijection(S, T)
  <2>1. f \in [S -> T]
    BY <1>5
  <2>2. \A a, b \in S : f[a] = f[b] => a = b
    BY <1>5
  <2>3. \A k \in T : \E a \in S : f[a] = k
    <3>1. ASSUME NEW k \in T PROVE k + 1 \in S /\ f[k + 1] = k
      <4>1. k + 1 \in S /\ k \in Nat
        BY <1>4
      <4>2. f[k + 1] = k + 1 - 1
        BY <4>1
      <4> QED
        BY <4>1, <4>2
    <3> QED
      BY <3>1
  <2> QED
    BY <2>1, <2>2, <2>3, Fun_IsBij
<1>8. Cardinality(T) = Cardinality(S)
  BY <1>6, <1>7, FS_Bijection DEF ExistsBijection
<1> QED
  BY <1>3, <1>4, <1>6, <1>8, OnLinkFinite DEF S, T

LEMMA ResponseEnters ==
    ASSUME IInv, NEW f \in RspFlits, rsp_link' = Append(rsp_link, f), NEW t, NEW ch
    PROVE  /\ Cardinality(OnLink(t, ch)') = Cardinality(OnLink(t, ch)) + (IF f.ch = ch /\ f.txn = t THEN 1 ELSE 0)
           /\ OnLink(t, ch)' = OnLink(t, ch) \cup (IF f.ch = ch /\ f.txn = t THEN {Len(rsp_link) + 1} ELSE {})
           /\ \A k \in OnLink(t, ch) : k < Len(rsp_link) + 1
<1>1. Len(rsp_link) \in Nat /\ DOMAIN rsp_link = 1 .. Len(rsp_link) /\ rsp_link \in Seq(RspFlits)
  BY LenProperties DEF IInv, Types
<1>2. /\ DOMAIN rsp_link' = 1 .. Len(rsp_link) + 1
      /\ \A k \in 1 .. Len(rsp_link) : rsp_link'[k] = rsp_link[k]
      /\ rsp_link'[Len(rsp_link) + 1] = f
  BY <1>1, AppendProperties, LenProperties
<1>3. OnLink(t, ch)' = OnLink(t, ch) \cup (IF f.ch = ch /\ f.txn = t THEN {Len(rsp_link) + 1} ELSE {})
  <2>1. \A k \in DOMAIN rsp_link : k \in OnLink(t, ch)' <=> k \in OnLink(t, ch)
    BY <1>1, <1>2 DEF OnLink, RspFor
  <2>2. Len(rsp_link) + 1 \in OnLink(t, ch)' <=> f.ch = ch /\ f.txn = t
    BY <1>1, <1>2 DEF OnLink, RspFor
  <2>3. \A k \in OnLink(t, ch)' : k \in DOMAIN rsp_link \/ k = Len(rsp_link) + 1
    BY <1>1, <1>2 DEF OnLink
  <2>4. OnLink(t, ch) \subseteq DOMAIN rsp_link
    BY DEF OnLink
  <2> QED
    BY <2>1, <2>2, <2>3, <2>4
<1>4. \A k \in OnLink(t, ch) : k < Len(rsp_link) + 1
  BY <1>1 DEF OnLink
<1>5. Len(rsp_link) + 1 \notin OnLink(t, ch)
  BY <1>1 DEF OnLink
<1>6. IsFiniteSet(OnLink(t, ch)) /\ Cardinality(OnLink(t, ch)) \in Nat
  BY OnLinkFinite
<1>7. CASE f.ch = ch /\ f.txn = t
  <2>1. OnLink(t, ch)' = OnLink(t, ch) \cup {Len(rsp_link) + 1}
    BY <1>3, <1>7
  <2>2. Cardinality(OnLink(t, ch) \cup {Len(rsp_link) + 1}) = Cardinality(OnLink(t, ch)) + 1
    BY <1>5, <1>6, FS_AddElement
  <2> QED
    BY <1>3, <1>4, <1>7, <2>1, <2>2
<1>8. CASE ~(f.ch = ch /\ f.txn = t)
  <2>1. OnLink(t, ch)' = OnLink(t, ch)
    BY <1>3, <1>8
  <2> QED
    BY <1>4, <1>6, <1>8, <2>1
<1> QED
  BY <1>7, <1>8

LEMMA ReturnStep ==
    ASSUME IInv, NEW ready \in SUBSET RspChannels, NEW store \in BOOLEAN, Return(ready, store)
    PROVE  IInv'
<1> DEFINE leaves == Leaves(ready, store)
<1>1. UNCHANGED <<txn, meta, chimney, req_link>> /\ rsp_link' = (IF leaves THEN Tail(rsp_link) ELSE rsp_link)
  BY DEF Return, Leaves
<1>2. /\ txn' = txn /\ aw_queue' = aw_queue /\ ar_queue' = ar_queue
      /\ aw_atop' = aw_atop /\ ar_atop' = ar_atop /\ lzc_cnt_q' = lzc_cnt_q
      /\ atop_req_pending_q' = atop_req_pending_q /\ aw_out_queue' = aw_out_queue
      /\ writes' = writes /\ reads' = reads /\ aw' = aw /\ ar' = ar /\ w' = w /\ aw_w_sel_q' = aw_w_sel_q
      /\ axi_aw_id_q' = axi_aw_id_q /\ req_arb' = req_arb /\ packet' = packet /\ req_link' = req_link
      /\ data_done' = data_done /\ aw_offer' = aw_offer
  BY <1>1 DEF meta, chimney
<1>3. \A t : (is_atop(t)' <=> is_atop(t)) /\ (HasR(t)' <=> HasR(t)) /\ (HasB(t)' <=> HasB(t))
  BY <1>2 DEF is_atop, HasR, HasB
<1>4. /\ LinkAw' = LinkAw /\ LinkAr' = LinkAr /\ Offered(aw)' = Offered(aw) /\ Offered(ar)' = Offered(ar)
      /\ WriteNumbers' = WriteNumbers /\ ReadNumbers' = ReadNumbers
  BY <1>2 DEF LinkAw, LinkAr, Offered, WriteNumbers, ReadNumbers
<1>5. leaves => rsp_link # <<>> /\ rsp \in RspFlits /\ rsp.txn \in DOMAIN txn
  BY ResponseKnown DEF Leaves
<1>6. \A ch \in RspChannels :
         IF valid_in(ch) /\ leaves THEN HeadGives(ch) \/ HeadKept(ch) ELSE Unmoved(ch) \/ RobGives(ch)
  BY ReturnMoves
<1>7. got' \in Seq([RspChannels -> Nat]) /\ Len(got') = Len(txn)
  BY ReturnGiven
<1>8. rsp_link' \in Seq(RspFlits) /\ \A k \in DOMAIN rsp_link' : \E j \in DOMAIN rsp_link : rsp_link'[k] = rsp_link[j]
  <2>1. CASE ~leaves
    BY <1>1, <2>1 DEF IInv, Types
  <2>2. CASE leaves
    <3>1. rsp_link \in Seq(RspFlits) /\ rsp_link # <<>> /\ rsp_link' = Tail(rsp_link)
      BY <1>1, <1>5, <2>2 DEF IInv, Types
    <3>2. /\ Tail(rsp_link) \in Seq(RspFlits) /\ Len(Tail(rsp_link)) = Len(rsp_link) - 1
          /\ \A k \in 1 .. Len(Tail(rsp_link)) : Tail(rsp_link)[k] = rsp_link[k + 1]
      BY <3>1, HeadTailProperties
    <3>3. DOMAIN rsp_link' = 1 .. Len(rsp_link) - 1 /\ DOMAIN rsp_link = 1 .. Len(rsp_link) /\ Len(rsp_link) \in Nat
      BY <3>1, <3>2, LenProperties
    <3>4. \A k \in DOMAIN rsp_link' : k + 1 \in DOMAIN rsp_link
      BY <3>3
    <3> QED
      BY <3>1, <3>2, <3>3, <3>4
  <2> QED
    BY <2>1, <2>2
<1> HIDE DEF leaves
<1>9. rob' \in [RspChannels -> RspFlits \cup {NoFlit}]
  <2>1. rob' = [ch \in RspChannels |-> rob'[ch]]
    BY DEF Return
  <2>2. \A ch \in RspChannels : rob[ch] \in RspFlits \cup {NoFlit}
    BY DEF IInv, Types
  <2>3. \A ch \in RspChannels : rob'[ch] \in RspFlits \cup {NoFlit}
    BY <1>5, <1>6, <2>2 DEF HeadGives, HeadKept, Unmoved, RobGives
  <2> QED
    BY <2>1, <2>3
<1>10. rob_pending_q' \in SUBSET RspChannels
  BY DEF Return
<1>11. Types'
  BY <1>2, <1>7, <1>8, <1>9, <1>10 DEF IInv, Types
<1>12. Known'
  <2>1. \A ch \in RspChannels : rob'[ch] # NoFlit => rob'[ch].txn \in DOMAIN txn /\ ~is_atop(rob'[ch].txn)
    <3>1. \A ch \in RspChannels : rob[ch] # NoFlit => rob[ch].txn \in DOMAIN txn /\ ~is_atop(rob[ch].txn)
      BY DEF IInv, Known
    <3> QED
      BY <1>5, <1>6, <3>1 DEF HeadGives, HeadKept, Unmoved, RobGives
  <2>2. \A k \in DOMAIN rsp_link' : rsp_link'[k].txn \in DOMAIN txn
    BY <1>8 DEF IInv, Known
  <2>3. \A ch \in RspChannels : is_atop(rob[ch].txn)' <=> is_atop(rob'[ch].txn)
    BY <1>2 DEF is_atop
  <2> QED
    BY <1>2, <1>3, <1>4, <2>1, <2>2, <2>3 DEF IInv, Known
<1>13. WritesInOrder' /\ ReadsInOrder'
  <2>1. WritesInOrder'
    BY <1>2, <1>4 DEF IInv, WritesInOrder
  <2>2. ReadsInOrder'
    BY <1>2, <1>4 DEF IInv, ReadsInOrder, is_atop
  <2> QED
    BY <2>1, <2>2
<1>14. IdsRight' /\ QueuesRight' /\ DataRight' /\ data_done' = data_done
  BY <1>1, MetaStays
<1>15. PacketRight' /\ PacketsOnLink'
  <2>1. Pending' = Pending
    BY <1>2, <1>4, <1>14 DEF Pending
  <2> QED
    BY <1>1, <2>1, PacketsStay
<1>16. HeadersFound'
  BY <1>8 DEF IInv, HeadersFound
<1>17. WaitingRight'
  <2>1. ASSUME NEW ch \in rob_pending_q', rob'[ch] = NoFlit
        PROVE  valid_in(ch)' /\ ~is_atop_rsp_in(ch)'
    <3>1. /\ ch \in RspChannels /\ rob_valid_out(ch, store) /\ ~rob_ready_in(ch, ready) /\ ~is_atop_rsp_in(ch)
          /\ rob'[ch] = IF rob[ch] # NoFlit THEN IF rob_ready_in(ch, ready) THEN NoFlit ELSE rob[ch]
                        ELSE IF store /\ rob_valid_in(ch) THEN rsp ELSE NoFlit
      BY <2>1 DEF Return
    <3>2. rob[ch] = NoFlit /\ rob_valid_in(ch) /\ ~store
      BY <2>1, <3>1 DEF rob_valid_out
    <3>3. valid_in(ch) /\ ~sel_atop(ch)
      BY <3>2 DEF rob_valid_in, sel_atop
    <3>4. ~rob_ready_out(ch, ready, store)
      BY <3>1, <3>2 DEF rob_ready_out
    <3>5. ~leaves
      BY <3>3, <3>4 DEF leaves, Leaves, valid_in
    <3>6. rsp' = rsp
      BY <1>1, <3>5 DEF rsp, AtHead
    <3> QED
      BY <1>2, <3>1, <3>3, <3>6 DEF valid_in, is_atop_rsp_in, is_atop
  <2> QED
    BY <2>1 DEF WaitingRight
\* The responses of a transaction are counted as they move.
<1>18. \A t, ch : ToCome(t, ch)' = ToCome(t, ch) /\ Owed(t, ch)' = Owed(t, ch)
  BY <1>2, <1>3, <1>4 DEF ToCome, Owed
<1>19. ASSUME NEW t, NEW ch
       PROVE  /\ Cardinality(OnLink(t, ch)')
                    = Cardinality(OnLink(t, ch)) - (IF leaves /\ valid_in(ch) /\ rsp.txn = t THEN 1 ELSE 0)
              /\ \A k \in OnLink(t, ch)' : (IF leaves THEN k + 1 ELSE k) \in OnLink(t, ch) /\ k \in Nat
              /\ leaves /\ valid_in(ch) /\ rsp.txn = t => 1 \in OnLink(t, ch)
  <2>1. CASE leaves
    <3>1. rsp_link # <<>> /\ rsp_link' = Tail(rsp_link)
      BY <1>1, <1>5, <2>1
    <3> QED
      BY <2>1, <3>1, ResponseLeaves
  <2>2. CASE ~leaves
    <3>1. OnLink(t, ch)' = OnLink(t, ch)
      BY <1>1, <2>2 DEF OnLink, RspFor
    <3> QED
      BY <2>2, <3>1, OnLinkFinite
  <2> QED
    BY <2>1, <2>2
<1>20. Accounted'
  <2>1. ASSUME NEW t \in DOMAIN txn, NEW ch \in RspChannels
        PROVE  got'[t][ch] + (IF Kept(t, ch)' THEN 1 ELSE 0) + Cardinality(OnLink(t, ch)') + ToCome(t, ch)'
                  = Owed(t, ch)'
    <3>1. got[t][ch] + (IF Kept(t, ch) THEN 1 ELSE 0) + Cardinality(OnLink(t, ch)) + ToCome(t, ch) = Owed(t, ch)
      BY DEF IInv, Accounted
    <3>2. got[t][ch] \in Nat
      <4>1. t \in DOMAIN got /\ got \in Seq([RspChannels -> Nat])
        BY LenProperties DEF IInv, Types
      <4>2. got[t] \in [RspChannels -> Nat]
        BY <4>1, ElementOfSeq, LenProperties
      <4> QED
        BY <4>2
    <3>3. Cardinality(OnLink(t, ch)) \in Nat
      BY OnLinkFinite
    <3>4. ToCome(t, ch) \in Int
      <4>1. txn[t].beats \in Nat
        <5>1. txn[t] \in Txns
          BY ElementOfSeq, LenProperties DEF IInv, Types
        <5> QED
          BY <5>1 DEF Txns
      <4>2. t \in Numbers(reads) => reads[Entry(reads, t)].left \in Nat
        <5>1. ASSUME t \in Numbers(reads) PROVE reads[Entry(reads, t)].left \in Nat
          <6>1. PICK i \in DOMAIN reads : reads[i].txn = t
            BY <5>1 DEF Numbers
          <6> DEFINE S == [id : Nat, txn : Nat, left : Nat \ {0}]
          <6>4. reads \in Seq(S) /\ i \in 1 .. Len(reads)
            BY <6>1, LenProperties DEF IInv, Types
          <6>5. reads[i] \in S
            BY <6>4, ElementOfSeq
          <6>2. reads[i].left \in Nat
            BY <6>5
          <6>3. Entry(reads, t) = i
            BY <6>1, ReadsDistinct
          <6> QED
            BY <6>2, <6>3
        <5> QED
          BY <5>1
      <4> QED
        BY <4>1, <4>2 DEF ToCome
    <3>5. CASE leaves /\ valid_in(ch)
      <4>1. Cardinality(OnLink(t, ch)') = Cardinality(OnLink(t, ch)) - (IF rsp.txn = t THEN 1 ELSE 0)
        BY <1>19, <3>5
      <4>2. rsp # NoFlit
        BY <3>5 DEF valid_in, NoFlit, RspChannels
      <4>3. CASE HeadGives(ch)
        <5>1. got'[t][ch] = got[t][ch] + (IF rsp.txn = t THEN 1 ELSE 0)
          BY <4>3 DEF HeadGives, Gives
        <5>2. Kept(t, ch)' <=> Kept(t, ch)
          BY <4>3 DEF HeadGives, Kept
        <5> QED
          BY <1>18, <3>1, <3>2, <3>3, <3>4, <4>1, <5>1, <5>2
      <4>4. CASE HeadKept(ch)
        <5>1. got'[t][ch] = got[t][ch] /\ ~Kept(t, ch)
          BY <4>4 DEF HeadKept, GivesNone, Kept
        <5>2. Kept(t, ch)' <=> rsp.txn = t
          BY <4>2, <4>4 DEF HeadKept, Kept
        <5> QED
          BY <1>18, <3>1, <3>2, <3>3, <3>4, <4>1, <5>1, <5>2
      <4> QED
        BY <1>6, <3>5, <4>3, <4>4
    <3>6. CASE ~(leaves /\ valid_in(ch))
      <4>1. Cardinality(OnLink(t, ch)') = Cardinality(OnLink(t, ch))
        BY <1>19, <3>3, <3>6
      <4>2. CASE Unmoved(ch)
        <5>1. got'[t][ch] = got[t][ch] /\ (Kept(t, ch)' <=> Kept(t, ch))
          BY <4>2 DEF Unmoved, GivesNone, Kept
        <5> QED
          BY <1>18, <3>1, <4>1, <5>1
      <4>3. CASE RobGives(ch)
        <5>1. got'[t][ch] = got[t][ch] + (IF rob[ch].txn = t THEN 1 ELSE 0)
          BY <4>3 DEF RobGives, Gives
        <5>2. ~Kept(t, ch)' /\ (Kept(t, ch) <=> rob[ch].txn = t)
          BY <4>3 DEF RobGives, Kept
        <5> QED
          BY <1>18, <3>1, <3>2, <3>3, <3>4, <4>1, <5>1, <5>2
      <4> QED
        BY <1>6, <3>6, <4>2, <4>3
    <3> QED
      BY <3>5, <3>6
  <2> QED
    BY <1>2, <2>1 DEF Accounted
<1>21. ResponsesInOrder'
  <2> SUFFICES ASSUME NEW t \in DOMAIN txn, NEW u \in DOMAIN txn, NEW ch \in RspChannels, Precedes(t, u)'
               PROVE  /\ got'[u][ch] > 0 => ~Kept(t, ch)' /\ OnLink(t, ch)' = {} /\ ToCome(t, ch)' = 0
                      /\ Kept(u, ch)' => OnLink(t, ch)' = {} /\ ToCome(t, ch)' = 0
                      /\ \A k \in OnLink(u, ch)' : ToCome(t, ch)' = 0 /\ \A l \in OnLink(t, ch)' : l < k
    BY <1>2 DEF ResponsesInOrder
  <2>1. Precedes(t, u)
    BY <1>2 DEF Precedes, is_atop
  <2>2. /\ got[u][ch] > 0 => ~Kept(t, ch) /\ OnLink(t, ch) = {} /\ ToCome(t, ch) = 0
        /\ Kept(u, ch) => OnLink(t, ch) = {} /\ ToCome(t, ch) = 0
        /\ \A k \in OnLink(u, ch) : ToCome(t, ch) = 0 /\ \A l \in OnLink(t, ch) : l < k
    BY <2>1 DEF IInv, ResponsesInOrder
  <2>3. t # u /\ ~is_atop(u) /\ ~is_atop(t)
    <3>1. t \in Nat /\ u \in Nat
      BY LenProperties DEF IInv, Types
    <3> QED
      BY <2>1, <3>1 DEF Precedes
  <2>4. OnLink(t, ch) = {} => OnLink(t, ch)' = {}
    BY <1>19
  <2>5. ASSUME NEW k \in OnLink(u, ch)'
        PROVE  ToCome(t, ch)' = 0 /\ \A l \in OnLink(t, ch)' : l < k
    <3>1. k \in Nat /\ (IF leaves THEN k + 1 ELSE k) \in OnLink(u, ch)
      BY <1>19, <2>5
    <3>2. \A l \in OnLink(t, ch)' : l \in Nat /\ (IF leaves THEN l + 1 ELSE l) \in OnLink(t, ch)
      BY <1>19
    <3> QED
      BY <1>18, <2>2, <3>1, <3>2
  <2>6. leaves /\ valid_in(ch) /\ rsp.txn = u => OnLink(t, ch) = {} /\ ToCome(t, ch) = 0
    <3>1. ASSUME leaves, valid_in(ch), rsp.txn = u PROVE OnLink(t, ch) = {} /\ ToCome(t, ch) = 0
      <4>1. 1 \in OnLink(u, ch)
        BY <1>19, <3>1
      <4>2. ToCome(t, ch) = 0 /\ \A l \in OnLink(t, ch) : l < 1
        BY <2>2, <4>1
      <4>3. OnLink(t, ch) \subseteq Nat \ {0}
        BY OnLinkFinite
      <4>4. \A l \in OnLink(t, ch) : FALSE
        BY <4>2, <4>3
      <4> QED
        BY <4>2, <4>4
    <3> QED
      BY <3>1
  <2>7. leaves /\ valid_in(ch) /\ rsp.txn = t => OnLink(t, ch) # {}
    BY <1>19
  <2>8. got[u][ch] \in Nat
    <3>1. u \in DOMAIN got /\ got \in Seq([RspChannels -> Nat])
      BY LenProperties DEF IInv, Types
    <3>2. got[u] \in [RspChannels -> Nat]
      BY <3>1, ElementOfSeq, LenProperties
    <3> QED
      BY <3>2
  <2>9. CASE leaves /\ valid_in(ch) /\ HeadGives(ch)
    <3>1. got'[u][ch] > 0 => got[u][ch] > 0 \/ rsp.txn = u
      BY <2>8, <2>9 DEF HeadGives, Gives
    <3>2. \A x : Kept(x, ch)' <=> Kept(x, ch)
      BY <2>9 DEF HeadGives, Kept
    <3>3. rsp.txn = u => ~Kept(t, ch)
      BY <2>3, <2>9 DEF HeadGives, Kept
    <3> QED
      BY <1>18, <2>2, <2>4, <2>5, <2>6, <2>9, <3>1, <3>2, <3>3
  <2>10. CASE leaves /\ valid_in(ch) /\ HeadKept(ch)
    <3>1. got'[u][ch] = got[u][ch]
      BY <2>10 DEF HeadKept, GivesNone
    <3>2. \A x : Kept(x, ch)' => rsp.txn = x
      BY <2>10 DEF HeadKept, Kept
    <3> QED
      BY <1>18, <2>2, <2>4, <2>5, <2>6, <2>7, <2>10, <3>1, <3>2
  <2>11. CASE ~(leaves /\ valid_in(ch)) /\ Unmoved(ch)
    <3>1. got'[u][ch] = got[u][ch] /\ \A x : Kept(x, ch)' <=> Kept(x, ch)
      BY <2>11 DEF Unmoved, GivesNone, Kept
    <3> QED
      BY <1>18, <2>2, <2>4, <2>5, <3>1
  <2>12. CASE ~(leaves /\ valid_in(ch)) /\ RobGives(ch)
    <3>1. got'[u][ch] > 0 => got[u][ch] > 0 \/ Kept(u, ch)
      BY <2>8, <2>12 DEF RobGives, Gives, Kept
    <3>2. \A x : ~Kept(x, ch)'
      BY <2>12 DEF RobGives, Kept
    <3> QED
      BY <1>18, <2>2, <2>4, <2>5, <3>1, <3>2
  <2> QED
    BY <1>6, <2>9, <2>10, <2>11, <2>12
<1> QED
  BY <1>11, <1>12, <1>13, <1>14, <1>15, <1>16, <1>17, <1>20, <1>21 DEF IInv

-----------------------------------------------------------------------------
(* The subordinate's end: what is answered *)

ReadEntries == [id : Nat, txn : Nat, left : Nat \ {0}]

LEMMA WritesDistinct ==
    ASSUME IInv
    PROVE  /\ writes \in Seq(Headers) /\ Distinct(writes) /\ DOMAIN writes \subseteq Nat
           /\ DOMAIN writes = 1 .. Len(writes) /\ Len(writes) \in Nat
           /\ \A i \in DOMAIN writes : writes[i] \in Headers /\ Entry(writes, writes[i].txn) = i
<1>1. writes \in Seq(Headers) /\ Increasing(writes)
  BY DEF IInv, Types, WritesInOrder
<1>2. DOMAIN writes = 1 .. Len(writes) /\ Len(writes) \in Nat
  BY <1>1, LenProperties
<1>3. \A i \in DOMAIN writes : writes[i] \in Headers
  BY <1>1, <1>2, ElementOfSeq
<1>4. Distinct(writes)
  <2>1. Numbered(writes)
    BY <1>3 DEF Numbered, Headers
  <2> QED
    BY <1>1, <2>1, IncreasingDistinct
<1>5. DOMAIN writes \subseteq Nat
  BY <1>2
<1> QED
  BY <1>1, <1>2, <1>3, <1>4, <1>5, EntryFound

LEMMA ReadsTyped ==
    ASSUME IInv
    PROVE  reads \in Seq(ReadEntries) /\ \A i \in DOMAIN reads : reads[i] \in ReadEntries
<1>1. reads \in Seq(ReadEntries)
  BY DEF IInv, Types, ReadEntries
<1> QED
  BY <1>1, ElementOfSeq, LenProperties

\* An answer is one to the first entry of its identifier.
AnswersWrite(answer, i) ==
    /\ i \in DOMAIN writes /\ writes[i].txn \in data_done /\ FirstOfId(writes, i)
    /\ answer = [ch |-> "B", id |-> writes[i].id, of |-> writes[i].txn, last |-> TRUE]
AnswersRead(answer, i) ==
    /\ i \in DOMAIN reads /\ FirstOfId(reads, i)
    /\ answer = [ch |-> "R", id |-> reads[i].id, of |-> reads[i].txn, last |-> reads[i].left = 1]

LEMMA AnswerCases ==
    ASSUME NEW answer \in Answers \cup {NoAnswer}
    PROVE  \/ answer = NoAnswer /\ answer.ch = "none"
           \/ answer.ch = "B" /\ \E i \in DOMAIN writes : AnswersWrite(answer, i)
           \/ answer.ch = "R" /\ \E i \in DOMAIN reads : AnswersRead(answer, i)
BY DEF Answers, NoAnswer, AnswersWrite, AnswersRead

\* Identifiers of atomics are below those of the others.
LEMMA NonAtomicIds ==
    ASSUME IInv, NEW t \in DOMAIN txn
    PROVE  no_atop_req_id(t) \in Nat /\ no_atop_req_id(t) >= MaxAtomicTxns
<1>1. txn[t].id \in Nat
  <2>1. txn[t] \in Txns
    BY ElementOfSeq, LenProperties DEF IInv, Types
  <2> QED
    BY <2>1 DEF Txns
<1>2. CASE MaxUniqueIds = 1
  BY <1>2, MetaBufferAssumption DEF no_atop_req_id
<1>3. CASE MaxUniqueIds # 1
  BY <1>1, <1>3, MetaBufferAssumption DEF no_atop_req_id
<1> QED
  BY <1>2, <1>3

\* The header of the first entry of an identifier is the oldest one of the queue.
LEMMA HeaderInQueue ==
    ASSUME NEW queue \in Seq(Headers), NEW entries, NEW i \in DOMAIN entries, DOMAIN entries \subseteq Nat,
           FirstOfId(entries, i), OwnId(queue), OwnId(entries), Increasing(queue),
           ~is_atop(entries[i].txn), entries[i].txn \in Numbers(queue),
           \A s \in Numbers(queue) :
              s < entries[i].txn => ~is_atop(s) /\ \E j \in DOMAIN entries : entries[j].txn = s /\ 1 <= j /\ j < i
    PROVE  \E p \in 1 .. Len(queue) : queue[p].txn = entries[i].txn /\ Oldest(queue, entries[i].id) = p
<1>1. DOMAIN queue = 1 .. Len(queue) /\ Len(queue) \in Nat
  BY LenProperties
<1>2. PICK p \in DOMAIN queue : queue[p].txn = entries[i].txn
  BY DEF Numbers
<1>3. queue[p].id = no_atop_req_id(entries[i].txn) /\ entries[i].id = no_atop_req_id(entries[i].txn)
  BY <1>2 DEF OwnId
<1>4. ASSUME NEW q \in 1 .. p - 1, queue[q].id = queue[p].id PROVE FALSE
  <2>1. q \in DOMAIN queue /\ q < p
    BY <1>1, <1>4
  <2>2. queue[q].txn < entries[i].txn /\ queue[q].txn \in Numbers(queue)
    BY <1>2, <2>1 DEF Increasing, Numbers
  <2>3. ~is_atop(queue[q].txn)
    BY <2>2
  <2>4. PICK j \in DOMAIN entries : entries[j].txn = queue[q].txn /\ 1 <= j /\ j < i
    BY <2>2
  <2>5. entries[j].id = queue[q].id
    BY <2>1, <2>3, <2>4 DEF OwnId
  <2>6. j \in 1 .. i - 1
    BY <2>4
  <2> QED
    BY <1>3, <1>4, <2>5, <2>6 DEF FirstOfId
<1>5. FirstOfId(queue, p)
  BY <1>4 DEF FirstOfId
<1>6. Oldest(queue, queue[p].id) = p
  BY <1>1, <1>5, OldestFound
<1> QED
  BY <1>1, <1>2, <1>3, <1>6

\* A response B finds its header, and no earlier write of its identifier waits.
LEMMA AnswerOfWrite ==
    ASSUME IInv, NEW answer, NEW i, AnswersWrite(answer, i)
    PROVE  /\ i \in DOMAIN writes /\ answer.of = writes[i].txn /\ answer.id = writes[i].id
           /\ answer.ch = "B" /\ answer.last
           /\ answer.of \in Numbers(writes) /\ answer.of \in DOMAIN txn /\ answer.of \in Nat
           /\ answer.of \in data_done /\ Entry(writes, answer.of) = i
           /\ is_atop_rsp(answer) <=> is_atop(answer.of)
           /\ ~is_atop(answer.of) =>
                 \E p \in 1 .. Len(aw_queue) : aw_queue[p].txn = answer.of /\ Oldest(aw_queue, answer.id) = p
           /\ is_atop(answer.of) => answer.id \in AtopIds /\ aw_atop[answer.id] = answer.of
           /\ header(answer) = answer.of
           /\ \A t \in DOMAIN txn : Precedes(t, answer.of) => t \notin WriteNumbers
<1>1. /\ i \in DOMAIN writes /\ answer.of = writes[i].txn /\ answer.id = writes[i].id
      /\ answer.ch = "B" /\ answer.last /\ writes[i].txn \in data_done /\ FirstOfId(writes, i)
  BY DEF AnswersWrite
<1>2. /\ Distinct(writes) /\ DOMAIN writes \subseteq Nat
      /\ DOMAIN writes = 1 .. Len(writes) /\ Len(writes) \in Nat
      /\ \A j \in DOMAIN writes : Entry(writes, writes[j].txn) = j
  BY WritesDistinct
<1>3. \A j \in DOMAIN writes : writes[j].txn \in Nat /\ writes[j].id \in Nat
  BY WritesDistinct DEF Headers
<1>4. answer.of \in Numbers(writes)
  BY <1>1 DEF Numbers
<1>5. answer.of \in DOMAIN txn /\ answer.of \in Nat
  BY <1>1, <1>3, <1>4 DEF IInv, Known, WriteNumbers
<1>6. answer.of \in data_done
  BY <1>1
<1>7. is_atop(answer.of) => answer.id \in AtopIds /\ aw_atop[answer.id] = answer.of
  BY <1>1 DEF IInv, IdsRight, InRegister
<1>8. ~is_atop(answer.of) => answer.id = no_atop_req_id(answer.of)
  BY <1>1 DEF IInv, IdsRight, OwnId
<1>9. is_atop_rsp(answer) <=> is_atop(answer.of)
  <2>1. is_atop(answer.of) => is_atop_rsp(answer)
    BY <1>7, MetaBufferAssumption DEF is_atop_rsp, AtopIds
  <2>2. no_atop_req_id(answer.of) \in Nat /\ no_atop_req_id(answer.of) >= MaxAtomicTxns
    BY <1>5, NonAtomicIds
  <2> QED
    BY <1>8, <2>1, <2>2, MetaBufferAssumption DEF is_atop_rsp
<1>10. \A s \in Numbers(writes) : s < answer.of => \E j \in DOMAIN writes : writes[j].txn = s /\ 1 <= j /\ j < i
  <2>1. ASSUME NEW j \in DOMAIN writes, writes[j].txn < answer.of PROVE 1 <= j /\ j < i
    <3>1. ~(i < j) /\ i # j
      BY <1>1, <1>3, <2>1 DEF IInv, WritesInOrder, Increasing
    <3> QED
      BY <1>1, <1>2, <3>1
  <2> QED
    BY <2>1 DEF Numbers
<1>11. ASSUME NEW s \in Numbers(aw_out_queue) \cup LinkAw \cup Offered(aw) PROVE answer.of < s
  BY <1>4 DEF IInv, WritesInOrder, Before
<1>12. Numbers(aw_queue) = {t \in Numbers(writes) \cup Numbers(aw_out_queue) : ~is_atop(t)}
  BY DEF IInv, QueuesRight
<1>13. ASSUME ~is_atop(answer.of)
       PROVE  \E p \in 1 .. Len(aw_queue) : aw_queue[p].txn = answer.of /\ Oldest(aw_queue, answer.id) = p
  <2>1. answer.of \in Numbers(aw_queue)
    BY <1>4, <1>12, <1>13
  <2>2. ASSUME NEW s \in Numbers(aw_queue), s < answer.of
        PROVE  ~is_atop(s) /\ \E j \in DOMAIN writes : writes[j].txn = s /\ 1 <= j /\ j < i
    <3>1. ~is_atop(s) /\ s \in Numbers(writes) \cup Numbers(aw_out_queue)
      BY <1>12
    <3>2. s \in DOMAIN txn /\ s \in Nat
      BY <3>1, LenProperties DEF IInv, Known, WriteNumbers, Types
    <3>3. s \in Numbers(writes)
      BY <1>5, <1>11, <2>2, <3>1, <3>2
    <3> QED
      BY <1>10, <2>2, <3>1, <3>3
  <2>3. aw_queue \in Seq(Headers) /\ OwnId(aw_queue) /\ OwnId(writes) /\ Increasing(aw_queue)
    BY DEF IInv, Types, QueuesRight, IdsRight
  <2>4. \E p \in 1 .. Len(aw_queue) : aw_queue[p].txn = writes[i].txn /\ Oldest(aw_queue, writes[i].id) = p
    BY <1>1, <1>2, <1>13, <2>1, <2>2, <2>3, HeaderInQueue
  <2> QED
    BY <1>1, <2>4
<1>14. header(answer) = answer.of
  BY <1>1, <1>7, <1>9, <1>13 DEF header
<1>15. ASSUME NEW t \in DOMAIN txn, Precedes(t, answer.of) PROVE t \notin WriteNumbers
  <2>1. t < answer.of /\ txn[t].id = txn[answer.of].id /\ ~is_atop(t) /\ ~is_atop(answer.of) /\ t \in Nat
    BY <1>15, LenProperties DEF Precedes, IInv, Types
  <2>2. t \notin Numbers(aw_out_queue) \cup LinkAw \cup Offered(aw)
    BY <1>5, <1>11, <2>1
  <2>3. ASSUME t \in Numbers(writes) PROVE FALSE
    <3>1. PICK j \in DOMAIN writes : writes[j].txn = t /\ 1 <= j /\ j < i
      BY <1>10, <2>1, <2>3
    <3>2. writes[j].id = no_atop_req_id(t)
      BY <2>1, <3>1 DEF IInv, IdsRight, OwnId
    <3>3. no_atop_req_id(t) = no_atop_req_id(answer.of)
      BY <2>1 DEF no_atop_req_id
    <3>4. j \in 1 .. i - 1
      BY <1>1, <1>2, <3>1
    <3> QED
      BY <1>1, <1>8, <2>1, <3>2, <3>3, <3>4 DEF FirstOfId
  <2> QED
    BY <2>2, <2>3 DEF WriteNumbers
<1> QED
  BY <1>1, <1>2, <1>4, <1>5, <1>6, <1>7, <1>9, <1>13, <1>14, <1>15

\* Reads at the subordinate are known by their places.
LEMMA ReadPlaces ==
    ASSUME IInv
    PROVE  /\ \A t \in Numbers(reads) : t \in DOMAIN txn /\ t \in Nat /\ HasR(t)
           /\ \A t \in Numbers(reads) : ~is_atop(t) => txn[t].kind = "read"
           /\ \A t \in Numbers(reads), s \in ReadNumbers : ~is_atop(t) => t < s
           /\ \A t \in Numbers(reads) : t \notin ReadNumbers
           /\ \A t \in Numbers(reads) : t \notin Numbers(aw_out_queue) \cup LinkAw \cup Offered(aw)
<1>1. \A t \in Numbers(reads) : t \in DOMAIN txn /\ t \in Nat /\ HasR(t)
  BY LenProperties DEF IInv, Known, Types
<1>2. \A t \in Numbers(reads) : ~is_atop(t) => txn[t].kind = "read"
  BY <1>1 DEF is_atop, HasR
<1>3. \A t \in Numbers(reads), s \in ReadNumbers : ~is_atop(t) => t < s
  BY DEF IInv, ReadsInOrder, Before
<1>4. ASSUME NEW t \in Numbers(reads) PROVE t \notin ReadNumbers
  <2>1. CASE is_atop(t)
    BY <2>1 DEF IInv, Known, is_atop
  <2>2. CASE ~is_atop(t)
    <3>1. ~(t < t)
      BY <1>1
    <3> QED
      BY <1>3, <2>2, <3>1
  <2> QED
    BY <2>1, <2>2
<1>5. ASSUME NEW t \in Numbers(reads) PROVE t \notin Numbers(aw_out_queue) \cup LinkAw \cup Offered(aw)
  <2>1. CASE is_atop(t)
    <3>1. ~(t < t) /\ \A s \in Numbers(aw_out_queue) \cup LinkAw \cup Offered(aw) : t < s
      BY <1>1, <2>1 DEF IInv, ReadsInOrder, Before
    <3> QED
      BY <3>1
  <2>2. CASE ~is_atop(t)
    BY <1>2, <2>2 DEF IInv, Known, WriteNumbers, HasB
  <2> QED
    BY <2>1, <2>2
<1> QED
  BY <1>1, <1>2, <1>3, <1>4, <1>5

\* A response R finds its header, and no earlier read of its identifier waits.
LEMMA AnswerOfRead ==
    ASSUME IInv, NEW answer, NEW i, AnswersRead(answer, i)
    PROVE  /\ i \in DOMAIN reads /\ answer.of = reads[i].txn /\ answer.id = reads[i].id
           /\ answer.ch = "R" /\ answer.last \in BOOLEAN /\ (answer.last <=> reads[i].left = 1)
           /\ answer.of \in Numbers(reads) /\ answer.of \in DOMAIN txn /\ answer.of \in Nat
           /\ Entry(reads, answer.of) = i
           /\ is_atop_rsp(answer) <=> is_atop(answer.of)
           /\ ~is_atop(answer.of) =>
                 \E p \in 1 .. Len(ar_queue) : ar_queue[p].txn = answer.of /\ Oldest(ar_queue, answer.id) = p
           /\ is_atop(answer.of) => answer.id \in AtopIds /\ ar_atop[answer.id] = answer.of
           /\ header(answer) = answer.of
           /\ \A t \in DOMAIN txn : Precedes(t, answer.of) => ToCome(t, "R") = 0
<1>1. /\ i \in DOMAIN reads /\ answer.of = reads[i].txn /\ answer.id = reads[i].id
      /\ answer.ch = "R" /\ answer.last \in BOOLEAN /\ (answer.last <=> reads[i].left = 1) /\ FirstOfId(reads, i)
  BY DEF AnswersRead
<1>2. /\ Distinct(reads) /\ DOMAIN reads \subseteq Nat
      /\ DOMAIN reads = 1 .. Len(reads) /\ Len(reads) \in Nat
      /\ \A j \in DOMAIN reads : Entry(reads, reads[j].txn) = j
  BY ReadsDistinct
<1>3. \A j \in DOMAIN reads : reads[j].txn \in Nat /\ reads[j].id \in Nat
  BY ReadsTyped DEF ReadEntries
<1>4. answer.of \in Numbers(reads)
  BY <1>1 DEF Numbers
<1>5. answer.of \in DOMAIN txn /\ answer.of \in Nat
  BY <1>1, <1>3, <1>4 DEF IInv, Known
<1>7. is_atop(answer.of) => answer.id \in AtopIds /\ ar_atop[answer.id] = answer.of
  BY <1>1 DEF IInv, IdsRight, InRegister
<1>8. ~is_atop(answer.of) => answer.id = no_atop_req_id(answer.of)
  BY <1>1 DEF IInv, IdsRight, OwnId
<1>9. is_atop_rsp(answer) <=> is_atop(answer.of)
  <2>1. is_atop(answer.of) => is_atop_rsp(answer)
    BY <1>7, MetaBufferAssumption DEF is_atop_rsp, AtopIds
  <2>2. no_atop_req_id(answer.of) \in Nat /\ no_atop_req_id(answer.of) >= MaxAtomicTxns
    BY <1>5, NonAtomicIds
  <2> QED
    BY <1>8, <2>1, <2>2, MetaBufferAssumption DEF is_atop_rsp
<1>10. ASSUME ~is_atop(answer.of), NEW s \in Numbers(reads), s < answer.of, ~is_atop(s)
       PROVE  \E j \in DOMAIN reads : reads[j].txn = s /\ 1 <= j /\ j < i
  <2>1. PICK j \in DOMAIN reads : reads[j].txn = s
    BY <1>10 DEF Numbers
  <2>2. ~(i < j)
    <3>1. i < j => answer.of < s
      BY <1>1, <1>10, <2>1 DEF IInv, ReadsInOrder
    <3> QED
      BY <1>3, <1>5, <1>10, <2>1, <3>1
  <2>3. i # j
    BY <1>1, <1>5, <1>10, <2>1
  <2> QED
    BY <1>1, <1>2, <2>1, <2>2, <2>3
<1>12. Numbers(ar_queue) = {t \in Numbers(reads) : ~is_atop(t)}
  BY DEF IInv, QueuesRight
<1>13. ASSUME ~is_atop(answer.of)
       PROVE  \E p \in 1 .. Len(ar_queue) : ar_queue[p].txn = answer.of /\ Oldest(ar_queue, answer.id) = p
  <2>1. answer.of \in Numbers(ar_queue)
    BY <1>4, <1>12, <1>13
  <2>2. ASSUME NEW s \in Numbers(ar_queue), s < answer.of
        PROVE  ~is_atop(s) /\ \E j \in DOMAIN reads : reads[j].txn = s /\ 1 <= j /\ j < i
    <3>1. ~is_atop(s) /\ s \in Numbers(reads)
      BY <1>12
    <3> QED
      BY <1>10, <1>13, <2>2, <3>1
  <2>3. ar_queue \in Seq(Headers) /\ OwnId(ar_queue) /\ OwnId(reads) /\ Increasing(ar_queue)
    BY DEF IInv, Types, QueuesRight, IdsRight
  <2>4. \E p \in 1 .. Len(ar_queue) : ar_queue[p].txn = reads[i].txn /\ Oldest(ar_queue, reads[i].id) = p
    BY <1>1, <1>2, <1>13, <2>1, <2>2, <2>3, HeaderInQueue
  <2> QED
    BY <1>1, <2>4
<1>14. header(answer) = answer.of
  BY <1>1, <1>7, <1>9, <1>13 DEF header
<1>15. ASSUME NEW t \in DOMAIN txn, Precedes(t, answer.of) PROVE ToCome(t, "R") = 0
  <2>1. t < answer.of /\ txn[t].id = txn[answer.of].id /\ ~is_atop(t) /\ ~is_atop(answer.of) /\ t \in Nat
    BY <1>15, LenProperties DEF Precedes, IInv, Types
  <2>2. ASSUME t \in Numbers(reads) PROVE FALSE
    <3>1. PICK j \in DOMAIN reads : reads[j].txn = t /\ 1 <= j /\ j < i
      BY <1>10, <2>1, <2>2
    <3>2. reads[j].id = no_atop_req_id(t)
      BY <2>1, <3>1 DEF IInv, IdsRight, OwnId
    <3>3. no_atop_req_id(t) = no_atop_req_id(answer.of)
      BY <2>1 DEF no_atop_req_id
    <3>4. j \in 1 .. i - 1
      BY <1>1, <1>2, <3>1
    <3> QED
      BY <1>1, <1>8, <2>1, <3>2, <3>3, <3>4 DEF FirstOfId
  <2>3. t \notin ReadNumbers
    <3>1. t \in ReadNumbers => answer.of < t
      BY <1>4, <2>1, ReadPlaces
    <3> QED
      BY <1>5, <2>1, <3>1
  <2>4. HasR(t) => t \notin WriteNumbers
    BY <2>1 DEF IInv, Known, HasB, HasR, is_atop
  <2> QED
    BY <2>2, <2>3, <2>4 DEF ToCome, WriteNumbers
<1> QED
  BY <1>1, <1>2, <1>4, <1>5, <1>7, <1>9, <1>13, <1>14, <1>15

-----------------------------------------------------------------------------
(* The subordinate's end: what is taken off the request link *)

LEMMA LeastFound ==
    ASSUME NEW S \in SUBSET Nat, S # {}
    PROVE  \E x \in S : \A y \in S : x <= y
<1> DEFINE below == OpToRel(<, Nat)
<1>1. \E x \in S : \A y \in S : <<y, x>> \notin below
  BY WFMin, NatLessThanWellFounded
<1>2. \A x, y \in S : y < x => <<y, x>> \in below
  BY DEF OpToRel
<1> HIDE DEF below
<1>3. PICK x \in S : \A y \in S : <<y, x>> \notin below
  BY <1>1
<1>4. ASSUME NEW y \in S PROVE x <= y
  <2>1. ~(y < x)
    BY <1>2, <1>3
  <2> QED
    BY <2>1
<1> QED
  BY <1>3, <1>4

\* The identifier of a new atomic is one whose registers are empty.
LEMMA FreeId ==
    ASSUME IInv, NEW answer
    PROVE  /\ available_atop_ids(answer) # {} => atop_req_id(answer) \in available_atop_ids(answer)
           /\ available_atop_ids(answer) # {} => lzc_cnt_d(answer) \in available_atop_ids(answer)
           /\ available_atop_ids(answer) \subseteq AtopIds /\ lzc_cnt_d(answer) \in AtopIds
<1>1. available_atop_ids(answer) \subseteq AtopIds /\ 0 \in AtopIds /\ AtopIds \subseteq Nat
  BY MetaBufferAssumption DEF available_atop_ids, AtopIds
<1>2. ASSUME available_atop_ids(answer) # {} PROVE lzc_cnt_d(answer) \in available_atop_ids(answer)
  <2>1. \E x \in available_atop_ids(answer) : \A y \in available_atop_ids(answer) : x <= y
    BY <1>1, <1>2, LeastFound
  <2> QED
    BY <1>2, <2>1 DEF lzc_cnt_d
<1>3. lzc_cnt_d(answer) \in AtopIds
  BY <1>1, <1>2 DEF lzc_cnt_d
<1>4. ASSUME atop_req_pending_q PROVE lzc_cnt_q \in available_atop_ids(answer)
  <2>1. lzc_cnt_q \in AtopIds /\ aw_atop[lzc_cnt_q] = 0 /\ ar_atop[lzc_cnt_q] = 0
    BY <1>4 DEF IInv, Types, IdsRight
  <2> QED
    BY <2>1 DEF available_atop_ids, Registers
<1> QED
  BY <1>1, <1>2, <1>3, <1>4 DEF atop_req_id

\* The flit that is taken is at the end of the link.
LEMMA FlitKnown ==
    ASSUME IInv, NEW flit, flit = AtHead(req_link), flit.ch \in {"AW", "AR", "W"}
    PROVE  /\ req_link # <<>> /\ flit = Head(req_link) /\ flit \in ReqFlits /\ flit.txn = flit.of
           /\ flit.txn \in Nat /\ flit.last \in BOOLEAN
           /\ req_link[1] = flit /\ 1 \in DOMAIN req_link
           /\ DOMAIN req_link = 1 .. Len(req_link) /\ Len(req_link) \in Nat
           /\ flit.ch = "AW" => flit.txn \in LinkAw
           /\ flit.ch = "AR" => flit.txn \in LinkAr
<1>1. req_link # <<>>
  BY DEF AtHead, NoFlit
<1>2. flit = Head(req_link) /\ req_link \in Seq(ReqFlits)
  BY <1>1 DEF AtHead, IInv, Types
<1>3. /\ DOMAIN req_link = 1 .. Len(req_link) /\ Len(req_link) \in Nat
      /\ 1 \in DOMAIN req_link /\ Head(req_link) = req_link[1]
  BY <1>1, <1>2, EmptySeq, LenProperties
<1>4. flit \in ReqFlits /\ flit.txn = flit.of
  BY <1>2, <1>3, FlitTypes
<1>5. flit.txn \in Nat /\ flit.last \in BOOLEAN
  BY <1>4 DEF ReqFlits
<1> QED
  BY <1>1, <1>2, <1>3, <1>4, <1>5 DEF LinkAw, LinkAr, FlitsOf

\* The writes that have left the link are in order.
LEMMA BegunInOrder ==
    ASSUME IInv
    PROVE  /\ DOMAIN Begun = 1 .. Len(Begun) /\ Len(Begun) \in Nat
           /\ Numbers(Begun) = Numbers(writes) \cup Numbers(aw_out_queue)
           /\ Increasing(Begun) /\ \A i \in DOMAIN Begun : Begun[i].txn \in Nat
<1> DEFINE m == Len(writes)
           n == Len(aw_out_queue)
<1>1. /\ writes \in Seq(Headers) /\ aw_out_queue \in Seq(Headers)
      /\ Increasing(writes) /\ Increasing(aw_out_queue) /\ Before(Numbers(writes), Numbers(aw_out_queue))
  BY DEF IInv, Types, WritesInOrder
<1>2. /\ Begun \in Seq(Headers) /\ Len(Begun) = m + n
      /\ \A i \in 1 .. m + n : Begun[i] = IF i <= m THEN writes[i] ELSE aw_out_queue[i - m]
  BY <1>1, ConcatProperties DEF Begun
<1>3. /\ m \in Nat /\ n \in Nat /\ DOMAIN writes = 1 .. m /\ DOMAIN aw_out_queue = 1 .. n
      /\ DOMAIN Begun = 1 .. m + n
  BY <1>1, <1>2, LenProperties
<1> HIDE DEF m, n
<1>4. \A i \in DOMAIN Begun : IF i <= m THEN i \in DOMAIN writes /\ Begun[i] = writes[i]
                             ELSE i - m \in DOMAIN aw_out_queue /\ Begun[i] = aw_out_queue[i - m]
  BY <1>2, <1>3
<1>5. \A i \in DOMAIN Begun : Begun[i].txn \in Nat
  <2>1. \A i \in DOMAIN Begun : Begun[i] \in Headers
    BY <1>2, ElementOfSeq, LenProperties
  <2> QED
    BY <2>1 DEF Headers
<1>6. Numbers(Begun) = Numbers(writes) \cup Numbers(aw_out_queue)
  <2>1. Numbers(Begun) \subseteq Numbers(writes) \cup Numbers(aw_out_queue)
    BY <1>4 DEF Numbers
  <2>2. \A i \in DOMAIN writes : i \in DOMAIN Begun /\ Begun[i] = writes[i]
    BY <1>2, <1>3
  <2>3. ASSUME NEW i \in DOMAIN aw_out_queue PROVE m + i \in DOMAIN Begun /\ Begun[m + i] = aw_out_queue[i]
    <3>1. m + i \in DOMAIN Begun /\ ~(m + i <= m) /\ m + i - m = i
      BY <1>3
    <3> QED
      BY <1>2, <1>3, <3>1
  <2>4. Numbers(writes) \subseteq Numbers(Begun)
    BY <2>2 DEF Numbers
  <2>5. Numbers(aw_out_queue) \subseteq Numbers(Begun)
    BY <2>3 DEF Numbers
  <2> QED
    BY <2>1, <2>4, <2>5
<1>7. Increasing(Begun)
  <2>1. ASSUME NEW i \in DOMAIN Begun, NEW j \in DOMAIN Begun, i < j PROVE Begun[i].txn < Begun[j].txn
    <3>1. i \in Nat /\ j \in Nat
      BY <1>3
    <3>2. CASE j <= m
      <4>1. i <= m
        BY <1>3, <2>1, <3>1, <3>2
      <4> QED
        BY <1>1, <1>4, <2>1, <3>2, <4>1 DEF Increasing
    <3>3. CASE ~(j <= m) /\ i <= m
      <4>1. Begun[i].txn \in Numbers(writes) /\ Begun[j].txn \in Numbers(aw_out_queue)
        BY <1>4, <3>3 DEF Numbers
      <4> QED
        BY <1>1, <4>1 DEF Before
    <3>4. CASE ~(i <= m)
      <4>1. ~(j <= m) /\ i - m < j - m
        BY <1>3, <2>1, <3>1, <3>4
      <4> QED
        BY <1>1, <1>4, <3>4, <4>1 DEF Increasing
    <3> QED
      BY <3>2, <3>3, <3>4
  <2> QED
    BY <2>1 DEF Increasing
<1> QED
  BY <1>2, <1>3, <1>5, <1>6, <1>7

\* Data meets the write that it belongs to.
LEMMA DataMeetsWrite ==
    ASSUME IInv, NEW flit, flit = AtHead(req_link), flit.ch = "W",
           \E i \in DOMAIN Begun : Begun[i].txn \notin data_done
    PROVE  /\ FirstOpen \in DOMAIN Begun /\ Begun[FirstOpen].txn = flit.of
           /\ flit.of \in Numbers(writes) \cup Numbers(aw_out_queue)
           /\ \A j \in DOMAIN Begun : Begun[j].txn \notin data_done => FirstOpen <= j
<1>1. /\ flit.txn = flit.of /\ flit.of \in Nat /\ req_link[1] = flit /\ 1 \in DOMAIN req_link
      /\ DOMAIN req_link = 1 .. Len(req_link) /\ Len(req_link) \in Nat
  BY FlitKnown
<1>2. IsWriteFlit(req_link[1]) /\ flit.of \in Pending /\ (packet # 0 => flit.of <= packet)
  BY <1>1 DEF IsWriteFlit, IInv, PacketsOnLink
<1>3. /\ DOMAIN Begun = 1 .. Len(Begun) /\ Len(Begun) \in Nat
      /\ Numbers(Begun) = Numbers(writes) \cup Numbers(aw_out_queue)
      /\ Increasing(Begun) /\ \A i \in DOMAIN Begun : Begun[i].txn \in Nat
  BY BegunInOrder
<1>4. \A t \in Pending : t \in Nat /\ t # 0
  <2>1. Pending \subseteq WriteNumbers
    BY DEF Pending, WriteNumbers
  <2>2. DOMAIN txn = 1 .. Len(txn) /\ Len(txn) \in Nat
    BY LenProperties DEF IInv, Types
  <2>3. \A t \in Pending : t \in DOMAIN txn
    BY <2>1 DEF IInv, Known
  <2> QED
    BY <2>2, <2>3
<1>5. ASSUME NEW t \in Pending, t < flit.of PROVE FALSE
  <2>1. t # packet
    <3>1. t \in Nat /\ t # 0
      BY <1>4
    <3> QED
      BY <1>1, <1>2, <1>5, <3>1
  <2>2. PICK k \in DOMAIN req_link : LastData(req_link[k]) /\ req_link[k].of = t
    BY <2>1 DEF IInv, PacketsOnLink
  <2>3. k # 1
    BY <1>1, <1>4, <1>5, <2>2
  <2>4. 1 < k /\ IsWriteFlit(req_link[k])
    BY <1>1, <2>2, <2>3 DEF LastData, IsWriteFlit
  <2>5. req_link[1].of <= req_link[k].of
    BY <1>1, <1>2, <2>4 DEF IInv, PacketsOnLink
  <2> QED
    BY <1>1, <1>4, <1>5, <2>2, <2>5
<1>6. PICK s \in Numbers(Begun) : s \notin data_done
  BY DEF Numbers
<1>7. flit.of \in Numbers(Begun) /\ flit.of \notin data_done
  <2>1. ASSUME flit.of \in LinkAw PROVE FALSE
    <3>1. s < flit.of /\ s \in Pending
      BY <1>3, <1>6, <2>1 DEF IInv, WritesInOrder, Before, Pending
    <3> QED
      BY <1>5, <3>1
  <2> QED
    BY <1>2, <1>3, <2>1 DEF Pending
<1>8. PICK i \in DOMAIN Begun : Begun[i].txn = flit.of
  BY <1>7 DEF Numbers
<1>9. ASSUME NEW j \in DOMAIN Begun, Begun[j].txn \notin data_done PROVE i <= j
  <2>1. Begun[j].txn \in Pending
    BY <1>3, <1>9 DEF Numbers, Pending
  <2>2. ~(Begun[j].txn < flit.of)
    BY <1>5, <2>1
  <2>3. ~(j < i)
    BY <1>3, <1>8, <2>2 DEF Increasing
  <2> QED
    BY <1>3, <2>3
<1>10. \A j \in 1 .. i - 1 : Begun[j].txn \in data_done
  <2>1. ASSUME NEW j \in 1 .. i - 1 PROVE j \in DOMAIN Begun /\ ~(i <= j)
    BY <1>3
  <2> QED
    BY <1>9, <2>1
<1>11. ASSUME NEW k \in DOMAIN Begun, Begun[k].txn \notin data_done, \A j \in 1 .. k - 1 : Begun[j].txn \in data_done
       PROVE  k = i
  <2>1. i <= k
    BY <1>9, <1>11
  <2>2. i < k => i \in 1 .. k - 1
    BY <1>3
  <2> QED
    BY <1>3, <1>7, <1>8, <1>11, <2>1, <2>2
<1>12. FirstOpen = i
  BY <1>7, <1>8, <1>10, <1>11 DEF FirstOpen
<1> QED
  BY <1>3, <1>7, <1>8, <1>9, <1>12

-----------------------------------------------------------------------------
(* The subordinate's end: a cycle of the meta buffer *)

ServeAs(ready, answer, flit, take) ==
    /\ Serve(ready, answer) /\ answer \in Answers \cup {NoAnswer}
    /\ flit = AtHead(req_link) /\ take \in BOOLEAN /\ (take <=> taken(flit, ready, answer))

\* The write, or the read, that the answer completes, and the request that enters.
GoneWrite(answer) == IF answer.ch = "B" THEN {answer.of} ELSE {}
GoneRead(answer)  == IF answer.ch = "R" /\ answer.last THEN {answer.of} ELSE {}
Entered(ch, take, flit) == IF take /\ flit.ch = ch THEN {flit.txn} ELSE {}
\* The write whose data is complete.
Closed(take, flit) == IF take /\ LastData(flit) THEN {flit.of} ELSE {}

HeaderOf(id, t) == [id |-> id, txn |-> t]
Appended(q, c, e) == q \o IF c THEN <<e>> ELSE <<>>

IsAppended(r, q, c, e) ==
    /\ Numbers(r) = Numbers(q) \cup (IF c THEN {e.txn} ELSE {})
    /\ Increasing(q) /\ (c => Before(Numbers(q), {e.txn})) => Increasing(r)
    /\ Distinct(q) /\ (c => e.txn \notin Numbers(q)) => Distinct(r)
    /\ \A k \in DOMAIN r : (k \in DOMAIN q /\ r[k] = q[k]) \/ (c /\ r[k] = e)
    /\ \A k, l \in DOMAIN r : k < l => k \in DOMAIN q /\ (l \in DOMAIN q \/ (c /\ r[l] = e))
    /\ \A k \in DOMAIN q : k \in DOMAIN r /\ r[k] = q[k]
    /\ c => \E k \in DOMAIN r : r[k] = e

LEMMA AppendedFacts ==
    ASSUME NEW S, NEW q \in Seq(S), NEW c \in BOOLEAN, NEW e, c => e \in S
    PROVE  Appended(q, c, e) \in Seq(S) /\ IsAppended(Appended(q, c, e), q, c, e)
<1> DEFINE r == Appended(q, c, e)
<1>1. CASE ~c
  <2>1. r = q
    BY <1>1, ConcatEmptySeq DEF Appended
  <2>2. DOMAIN q = 1 .. Len(q) /\ Len(q) \in Nat
    BY LenProperties
  <2> HIDE DEF r
  <2>3. \A k, l \in DOMAIN r : k < l => k \in DOMAIN q /\ l \in DOMAIN q
    BY <2>1
  <2> QED
    BY <1>1, <2>1, <2>3 DEF r, IsAppended
<1>2. CASE c
  <2>1. r = q \o <<e>> /\ e \in S
    BY <1>2 DEF Appended
  <2>2. /\ q \o <<e>> \in Seq(S) /\ Numbers(q \o <<e>>) = Numbers(q) \cup {e.txn}
        /\ Increasing(q) /\ Before(Numbers(q), {e.txn}) => Increasing(q \o <<e>>)
        /\ Distinct(q) /\ e.txn \notin Numbers(q) => Distinct(q \o <<e>>)
    BY <2>1, NumbersAppend
  <2>3. <<e>> \in Seq(S) /\ Len(<<e>>) = 1 /\ <<e>>[1] = e /\ Len(q) \in Nat /\ DOMAIN q = 1 .. Len(q)
    BY <2>1, LenProperties
  <2>4. /\ r \in Seq(S) /\ DOMAIN r = 1 .. Len(q) + 1
        /\ \A k \in 1 .. Len(q) : r[k] = q[k]
        /\ r[Len(q) + 1] = e
    BY <2>1, <2>3, ConcatProperties, LenProperties
  <2> HIDE DEF r
  <2>5. \A k \in DOMAIN r : (k \in DOMAIN q /\ r[k] = q[k]) \/ (k = Len(q) + 1 /\ r[k] = e)
    BY <2>3, <2>4
  <2>6. \A k, l \in DOMAIN r : k < l => k \in DOMAIN q /\ (l \in DOMAIN q \/ r[l] = e)
    BY <2>3, <2>4
  <2>7. \A k \in DOMAIN q : k \in DOMAIN r /\ r[k] = q[k]
    BY <2>3, <2>4
  <2>8. Len(q) + 1 \in DOMAIN r /\ r[Len(q) + 1] = e
    BY <2>3, <2>4
  <2> QED
    BY <1>2, <2>1, <2>2, <2>4, <2>5, <2>6, <2>7, <2>8 DEF r, IsAppended
<1> QED
  BY <1>1, <1>2

LEMMA ServeFacts ==
    ASSUME NEW ready, NEW answer, NEW flit, NEW take, ServeAs(ready, answer, flit, take)
    PROVE  txn' = txn /\ UNCHANGED <<chimney, returns>>
BY DEF ServeAs, Serve

LEMMA ServeReqLink ==
    ASSUME NEW ready, NEW answer, NEW flit, NEW take, ServeAs(ready, answer, flit, take)
    PROVE  req_link' = (IF take THEN Tail(req_link) ELSE req_link)
BY DEF ServeAs, Serve

LEMMA ServeRspLink ==
    ASSUME NEW ready, NEW answer, NEW flit, NEW take, ServeAs(ready, answer, flit, take)
    PROVE  rsp_link' = (IF answer = NoAnswer THEN rsp_link
                        ELSE Append(rsp_link, [ch |-> answer.ch, txn |-> header(answer),
                                               of |-> answer.of, last |-> answer.last]))
BY DEF ServeAs, Serve

LEMMA ServeIds ==
    ASSUME NEW ready, NEW answer, NEW flit, NEW take, ServeAs(ready, answer, flit, take)
    PROVE  /\ lzc_cnt_q' = (IF atop_req_pending_q THEN lzc_cnt_q ELSE lzc_cnt_d(answer))
           /\ atop_req_pending_q' \in BOOLEAN
           /\ atop_req_pending_q' => aw_valid(flit, answer) /\ is_atop(flit.txn) /\ ~take
BY DEF ServeAs, Serve, MetaCycle

LEMMA ServeAwHeader ==
    ASSUME NEW ready, NEW answer, NEW flit, NEW take, ServeAs(ready, answer, flit, take)
    PROVE  aw_queue' = Appended(Queue(aw_queue, answer, "B"), take /\ flit.ch = "AW" /\ ~is_atop(flit.txn),
                                HeaderOf(no_atop_req_id(flit.txn), flit.txn))
BY DEF ServeAs, Serve, MetaCycle, Appended, HeaderOf

LEMMA ServeArHeader ==
    ASSUME NEW ready, NEW answer, NEW flit, NEW take, ServeAs(ready, answer, flit, take)
    PROVE  ar_queue' = Appended(Queue(ar_queue, answer, "R"), take /\ flit.ch = "AR",
                                HeaderOf(no_atop_req_id(flit.txn), flit.txn))
BY DEF ServeAs, Serve, MetaCycle, Appended, HeaderOf

LEMMA ServeAwOut ==
    ASSUME NEW ready, NEW answer, NEW flit, NEW take, ServeAs(ready, answer, flit, take)
    PROVE  aw_out_queue' = Appended(aw_out_queue, take /\ flit.ch = "AW",
                                    HeaderOf(IF is_atop(flit.txn) THEN atop_req_id(answer)
                                             ELSE no_atop_req_id(flit.txn), flit.txn))
BY DEF ServeAs, Serve, MetaCycle, Appended, HeaderOf, aw_id

\* A queue of headers after the answer.
LEMMA QueueAfter ==
    ASSUME NEW queue \in Seq(Headers), Increasing(queue), OwnId(queue), NEW answer, NEW ch,
           pops(answer, ch) /\ ~is_atop_rsp(answer) =>
              \E p \in 1 .. Len(queue) : queue[p].txn = answer.of /\ Oldest(queue, answer.id) = p
    PROVE  /\ Queue(queue, answer, ch) \in Seq(Headers)
           /\ Increasing(Queue(queue, answer, ch)) /\ OwnId(Queue(queue, answer, ch))
           /\ Numbers(Queue(queue, answer, ch))
                 = IF pops(answer, ch) /\ ~is_atop_rsp(answer) THEN Numbers(queue) \ {answer.of} ELSE Numbers(queue)
<1>1. CASE ~(pops(answer, ch) /\ ~is_atop_rsp(answer))
  <2>1. Queue(queue, answer, ch) = queue
    BY <1>1 DEF Queue
  <2> QED
    BY <1>1, <2>1
<1>2. CASE pops(answer, ch) /\ ~is_atop_rsp(answer)
  <2>1. PICK p \in 1 .. Len(queue) : queue[p].txn = answer.of /\ Oldest(queue, answer.id) = p
    BY <1>2
  <2>2. Queue(queue, answer, ch) = RemoveAt(queue, p)
    BY <1>2, <2>1 DEF Queue
  <2>3. Distinct(queue)
    <3>1. \A i \in DOMAIN queue : queue[i] \in Headers
      BY ElementOfSeq, LenProperties
    <3>2. Numbered(queue)
      BY <3>1 DEF Numbered, Headers
    <3> QED
      BY <3>2, IncreasingDistinct
  <2>4. RemoveAt(queue, p) \in Seq(Headers) /\ IsRemoved(RemoveAt(queue, p), queue, p)
    BY <2>3, NumbersRemove
  <2>5. OwnId(RemoveAt(queue, p))
    <3>1. \A k \in DOMAIN RemoveAt(queue, p) : \E j \in DOMAIN queue : RemoveAt(queue, p)[k] = queue[j]
      BY <2>4 DEF IsRemoved
    <3> HIDE <2>4
    <3> QED
      BY <3>1 DEF OwnId
  <2> QED
    BY <1>2, <2>1, <2>2, <2>4, <2>5 DEF IsRemoved
<1> QED
  BY <1>1, <1>2

LEMMA TakenFlit ==
    ASSUME IInv, NEW ready, NEW answer, NEW flit, NEW take, ServeAs(ready, answer, flit, take), take
    PROVE  /\ flit.ch \in {"AW", "AR", "W"} /\ req_link # <<>> /\ flit = Head(req_link) /\ flit \in ReqFlits
           /\ flit.txn = flit.of /\ flit.txn \in Nat /\ req_link[1] = flit /\ 1 \in DOMAIN req_link
<1>1. flit = AtHead(req_link) /\ taken(flit, ready, answer)
  BY DEF ServeAs
<1>2. flit.ch \in {"AW", "AR", "W"}
  BY <1>1 DEF taken
<1> QED
  BY <1>1, <1>2, FlitKnown

\* Where the request that is taken comes from.
LEMMA EnteredKnown ==
    ASSUME IInv, NEW ready, NEW answer, NEW flit, NEW take, ServeAs(ready, answer, flit, take)
    PROVE  /\ take => flit.ch \in {"AW", "AR", "W"} /\ req_link # <<>> /\ flit = Head(req_link) /\ flit \in ReqFlits
                      /\ flit.txn = flit.of /\ flit.txn \in Nat
           /\ take /\ flit.ch = "AW" => /\ flit.txn \in LinkAw /\ flit.txn \in DOMAIN txn /\ HasB(flit.txn)
                                        /\ Before(Numbers(writes) \cup Numbers(aw_out_queue), {flit.txn})
                                        /\ aw_valid(flit, answer)
           /\ take /\ flit.ch = "AR" => /\ flit.txn \in LinkAr /\ flit.txn \in DOMAIN txn /\ ~is_atop(flit.txn)
                                        /\ txn[flit.txn].kind = "read" /\ HasR(flit.txn)
                                        /\ flit.txn \notin Numbers(reads)
                                        /\ \A t \in Numbers(reads) : ~is_atop(t) => t < flit.txn
           /\ take /\ flit.ch = "W" => \E i \in DOMAIN Begun : Begun[i].txn \notin data_done
<1>1. flit = AtHead(req_link) /\ take \in BOOLEAN /\ (take <=> taken(flit, ready, answer))
  BY DEF ServeAs
<1>2. take => flit.ch \in {"AW", "AR", "W"}
  BY <1>1 DEF taken
<1>3. flit.ch \in {"AW", "AR", "W"} =>
          /\ req_link # <<>> /\ flit = Head(req_link) /\ flit \in ReqFlits /\ flit.txn = flit.of
          /\ flit.txn \in Nat
          /\ flit.ch = "AW" => flit.txn \in LinkAw
          /\ flit.ch = "AR" => flit.txn \in LinkAr
  BY <1>1, FlitKnown
<1>4. take /\ flit.ch = "AW" => aw_valid(flit, answer)
  BY <1>1 DEF taken
<1>5. take /\ flit.ch = "W" => \E i \in DOMAIN Begun : Begun[i].txn \notin data_done
  BY <1>1 DEF taken
<1>6. ASSUME flit.txn \in LinkAw
      PROVE  /\ flit.txn \in DOMAIN txn /\ HasB(flit.txn)
             /\ Before(Numbers(writes) \cup Numbers(aw_out_queue), {flit.txn})
  BY <1>6 DEF IInv, Known, WriteNumbers, WritesInOrder, Before
<1>7. ASSUME flit.txn \in LinkAr
      PROVE  /\ flit.txn \in DOMAIN txn /\ ~is_atop(flit.txn) /\ txn[flit.txn].kind = "read" /\ HasR(flit.txn)
             /\ flit.txn \notin Numbers(reads)
             /\ \A t \in Numbers(reads) : ~is_atop(t) => t < flit.txn
  <2>1. flit.txn \in ReadNumbers
    BY <1>7 DEF ReadNumbers
  <2>2. flit.txn \in DOMAIN txn /\ txn[flit.txn].kind = "read"
    BY <2>1 DEF IInv, Known
  <2> QED
    BY <2>1, <2>2, ReadPlaces DEF is_atop, HasR
<1> QED
  BY <1>2, <1>3, <1>4, <1>5, <1>6, <1>7

LEMMA ServeAwQueue ==
    ASSUME IInv, NEW ready, NEW answer, NEW flit, NEW take, ServeAs(ready, answer, flit, take)
    PROVE  /\ aw_queue' \in Seq(Headers) /\ Increasing(aw_queue') /\ OwnId(aw_queue')
           /\ Numbers(aw_queue') = (Numbers(aw_queue) \ GoneWrite(answer))
                                      \cup {t \in Entered("AW", take, flit) : ~is_atop(t)}
<1> DEFINE q == Queue(aw_queue, answer, "B")
           c == take /\ flit.ch = "AW" /\ ~is_atop(flit.txn)
           e == HeaderOf(no_atop_req_id(flit.txn), flit.txn)
<1>0. c \in BOOLEAN
  BY DEF ServeAs
<1>1. aw_queue' = Appended(q, c, e)
  BY ServeAwHeader
<1>2. /\ aw_queue \in Seq(Headers) /\ Increasing(aw_queue) /\ OwnId(aw_queue)
      /\ Numbers(aw_queue) = {t \in Numbers(writes) \cup Numbers(aw_out_queue) : ~is_atop(t)}
  BY DEF IInv, Types, QueuesRight
<1>3. answer \in Answers \cup {NoAnswer}
  BY DEF ServeAs
<1>4. q \in Seq(Headers) /\ Increasing(q) /\ OwnId(q) /\ Numbers(q) = Numbers(aw_queue) \ GoneWrite(answer)
  <2>1. CASE answer.ch = "B"
    <3>1. PICK i : AnswersWrite(answer, i)
      BY <1>3, <2>1, AnswerCases
    <3>2. /\ answer.last /\ answer.of \in Numbers(writes)
          /\ is_atop_rsp(answer) <=> is_atop(answer.of)
          /\ ~is_atop(answer.of) =>
                \E p \in 1 .. Len(aw_queue) : aw_queue[p].txn = answer.of /\ Oldest(aw_queue, answer.id) = p
      BY <3>1, AnswerOfWrite
    <3>3. /\ q \in Seq(Headers) /\ Increasing(q) /\ OwnId(q)
          /\ Numbers(q) = IF pops(answer, "B") /\ ~is_atop_rsp(answer) THEN Numbers(aw_queue) \ {answer.of}
                          ELSE Numbers(aw_queue)
      BY <1>2, <3>2, QueueAfter
    <3>4. Numbers(q) = Numbers(aw_queue) \ GoneWrite(answer)
      BY <1>2, <2>1, <3>2, <3>3 DEF pops, GoneWrite
    <3> QED
      BY <3>3, <3>4
  <2>2. CASE answer.ch # "B"
    <3>1. q = aw_queue /\ GoneWrite(answer) = {}
      BY <2>2 DEF Queue, pops, GoneWrite
    <3> QED
      BY <1>2, <3>1
  <2> QED
    BY <2>1, <2>2
<1> HIDE DEF q, c, e
<1>5. e.txn = flit.txn /\ e.id = no_atop_req_id(flit.txn)
  BY DEF e, HeaderOf
<1>6. c => e \in Headers /\ Before(Numbers(q), {flit.txn})
  <2>1. c => /\ flit.txn \in DOMAIN txn /\ flit.txn \in Nat
             /\ Before(Numbers(writes) \cup Numbers(aw_out_queue), {flit.txn})
    BY EnteredKnown DEF c
  <2>2. c => no_atop_req_id(flit.txn) \in Nat
    BY <2>1, NonAtomicIds
  <2> QED
    BY <1>2, <1>4, <2>1, <2>2 DEF e, HeaderOf, Headers, Before
<1>7. Appended(q, c, e) \in Seq(Headers) /\ IsAppended(Appended(q, c, e), q, c, e)
  BY <1>0, <1>4, <1>6, AppendedFacts
<1>8. OwnId(Appended(q, c, e))
  BY <1>4, <1>5, <1>7 DEF OwnId, IsAppended
<1>9. (IF c THEN {e.txn} ELSE {}) = {t \in Entered("AW", take, flit) : ~is_atop(t)}
  BY <1>5 DEF c, Entered
<1> QED
  BY <1>1, <1>4, <1>5, <1>6, <1>7, <1>8, <1>9 DEF IsAppended

LEMMA ServeArQueue ==
    ASSUME IInv, NEW ready, NEW answer, NEW flit, NEW take, ServeAs(ready, answer, flit, take)
    PROVE  /\ ar_queue' \in Seq(Headers) /\ Increasing(ar_queue') /\ OwnId(ar_queue')
           /\ Numbers(ar_queue') = (Numbers(ar_queue) \ GoneRead(answer)) \cup Entered("AR", take, flit)
<1> DEFINE q == Queue(ar_queue, answer, "R")
           c == take /\ flit.ch = "AR"
           e == HeaderOf(no_atop_req_id(flit.txn), flit.txn)
<1>0. c \in BOOLEAN
  BY DEF ServeAs
<1>1. ar_queue' = Appended(q, c, e)
  BY ServeArHeader
<1>2. /\ ar_queue \in Seq(Headers) /\ Increasing(ar_queue) /\ OwnId(ar_queue)
      /\ Numbers(ar_queue) = {t \in Numbers(reads) : ~is_atop(t)}
  BY DEF IInv, Types, QueuesRight
<1>3. answer \in Answers \cup {NoAnswer}
  BY DEF ServeAs
<1>4. q \in Seq(Headers) /\ Increasing(q) /\ OwnId(q) /\ Numbers(q) = Numbers(ar_queue) \ GoneRead(answer)
  <2>1. CASE answer.ch = "R" /\ answer.last
    <3>1. PICK i : AnswersRead(answer, i)
      BY <1>3, <2>1, AnswerCases
    <3>2. /\ is_atop_rsp(answer) <=> is_atop(answer.of)
          /\ ~is_atop(answer.of) =>
                \E p \in 1 .. Len(ar_queue) : ar_queue[p].txn = answer.of /\ Oldest(ar_queue, answer.id) = p
      BY <3>1, AnswerOfRead
    <3>3. /\ q \in Seq(Headers) /\ Increasing(q) /\ OwnId(q)
          /\ Numbers(q) = IF pops(answer, "R") /\ ~is_atop_rsp(answer) THEN Numbers(ar_queue) \ {answer.of}
                          ELSE Numbers(ar_queue)
      BY <1>2, <3>2, QueueAfter
    <3>4. Numbers(q) = Numbers(ar_queue) \ GoneRead(answer)
      BY <1>2, <2>1, <3>2, <3>3 DEF pops, GoneRead
    <3> QED
      BY <3>3, <3>4
  <2>2. CASE ~(answer.ch = "R" /\ answer.last)
    <3>1. q = ar_queue /\ GoneRead(answer) = {}
      BY <2>2 DEF Queue, pops, GoneRead
    <3> QED
      BY <1>2, <3>1
  <2> QED
    BY <2>1, <2>2
<1> HIDE DEF q, c, e
<1>5. e.txn = flit.txn /\ e.id = no_atop_req_id(flit.txn)
  BY DEF e, HeaderOf
<1>6. c => e \in Headers /\ Before(Numbers(q), {flit.txn})
  <2>1. c => /\ flit.txn \in DOMAIN txn /\ flit.txn \in Nat
             /\ \A t \in Numbers(reads) : ~is_atop(t) => t < flit.txn
    BY EnteredKnown DEF c
  <2>2. c => no_atop_req_id(flit.txn) \in Nat
    BY <2>1, NonAtomicIds
  <2> QED
    BY <1>2, <1>4, <2>1, <2>2 DEF e, HeaderOf, Headers, Before
<1>7. Appended(q, c, e) \in Seq(Headers) /\ IsAppended(Appended(q, c, e), q, c, e)
  BY <1>0, <1>4, <1>6, AppendedFacts
<1>8. OwnId(Appended(q, c, e))
  BY <1>4, <1>5, <1>7 DEF OwnId, IsAppended
<1>9. (IF c THEN {e.txn} ELSE {}) = Entered("AR", take, flit)
  BY <1>5 DEF c, Entered
<1> QED
  BY <1>1, <1>4, <1>5, <1>6, <1>7, <1>8, <1>9 DEF IsAppended

LEMMA ServeOut ==
    ASSUME IInv, NEW ready, NEW answer, NEW flit, NEW take, ServeAs(ready, answer, flit, take)
    PROVE  /\ aw_out_queue' \in Seq(Headers) /\ Increasing(aw_out_queue')
           /\ Numbers(aw_out_queue') = Numbers(aw_out_queue) \cup Entered("AW", take, flit)
           /\ \A k \in DOMAIN aw_out_queue' :
                 \/ k \in DOMAIN aw_out_queue /\ aw_out_queue'[k] = aw_out_queue[k]
                 \/ /\ take /\ flit.ch = "AW" /\ aw_out_queue'[k].txn = flit.txn
                    /\ aw_out_queue'[k].id = IF is_atop(flit.txn) THEN atop_req_id(answer)
                                             ELSE no_atop_req_id(flit.txn)
<1> DEFINE c  == take /\ flit.ch = "AW"
           id == IF is_atop(flit.txn) THEN atop_req_id(answer) ELSE no_atop_req_id(flit.txn)
           e  == HeaderOf(id, flit.txn)
<1>0. c \in BOOLEAN
  BY DEF ServeAs
<1>1. aw_out_queue' = Appended(aw_out_queue, c, e)
  BY ServeAwOut
<1>2. aw_out_queue \in Seq(Headers) /\ Increasing(aw_out_queue)
  BY DEF IInv, Types, WritesInOrder
<1>3. e.txn = flit.txn /\ e.id = id
  BY DEF HeaderOf
<1>4. c => /\ flit.txn \in DOMAIN txn /\ flit.txn \in Nat
           /\ Before(Numbers(writes) \cup Numbers(aw_out_queue), {flit.txn})
           /\ aw_valid(flit, answer)
  BY EnteredKnown
<1>5. c => id \in Nat
  <2>1. c /\ is_atop(flit.txn) => atop_req_id(answer) \in AtopIds
    BY <1>4, FreeId DEF aw_valid
  <2>2. AtopIds \subseteq Nat
    BY DEF AtopIds
  <2>3. c => no_atop_req_id(flit.txn) \in Nat
    BY <1>4, NonAtomicIds
  <2> QED
    BY <2>1, <2>2, <2>3
<1> HIDE DEF c, id
<1>6. c => e \in Headers
  BY <1>4, <1>5 DEF Headers, HeaderOf
<1> HIDE DEF e
<1>7. aw_out_queue' \in Seq(Headers) /\ IsAppended(aw_out_queue', aw_out_queue, c, e)
  BY <1>0, <1>1, <1>2, <1>6, AppendedFacts
<1>8. Increasing(aw_out_queue')
  <2>1. c => Before(Numbers(aw_out_queue), {e.txn})
    BY <1>3, <1>4 DEF Before
  <2> QED
    BY <1>2, <1>7, <2>1 DEF IsAppended
<1>9. Numbers(aw_out_queue') = Numbers(aw_out_queue) \cup Entered("AW", take, flit)
  BY <1>3, <1>7 DEF IsAppended, Entered, c
<1>10. \A k \in DOMAIN aw_out_queue' :
          \/ k \in DOMAIN aw_out_queue /\ aw_out_queue'[k] = aw_out_queue[k]
          \/ c /\ aw_out_queue'[k].txn = flit.txn /\ aw_out_queue'[k].id = id
  BY <1>3, <1>7 DEF IsAppended
<1> QED
  BY <1>7, <1>8, <1>9, <1>10 DEF c, id

LEMMA ServeLink ==
    ASSUME IInv, NEW ready, NEW answer, NEW flit, NEW take, ServeAs(ready, answer, flit, take)
    PROVE  /\ req_link' \in Seq(ReqFlits)
           /\ LinkAw' = LinkAw \ Entered("AW", take, flit) /\ LinkAr' = LinkAr \ Entered("AR", take, flit)
           /\ FlitsIncrease(req_link', "AW") /\ FlitsIncrease(req_link', "AR")
           /\ Before(Entered("AW", take, flit), LinkAw') /\ Before(Entered("AR", take, flit), LinkAr')
           /\ IF take THEN /\ \A k \in DOMAIN req_link' : /\ k \in Nat /\ k + 1 > 1 /\ k + 1 \in DOMAIN req_link
                                                           /\ req_link'[k] = req_link[k + 1]
                           /\ \A j \in DOMAIN req_link \ {1} : j - 1 \in DOMAIN req_link' /\ req_link'[j - 1] = req_link[j]
              ELSE req_link' = req_link
<1>1. req_link' = (IF take THEN Tail(req_link) ELSE req_link)
  BY ServeReqLink
<1>2. req_link \in Seq(ReqFlits) /\ FlitsIncrease(req_link, "AW") /\ FlitsIncrease(req_link, "AR")
  BY DEF IInv, Types, WritesInOrder, ReadsInOrder
<1>3. CASE ~take
  <2>1. \A ch : Entered(ch, take, flit) = {}
    BY <1>3 DEF Entered
  <2>2. req_link' = req_link
    BY <1>1, <1>3
  <2> QED
    BY <1>2, <1>3, <2>1, <2>2 DEF LinkAw, LinkAr, Before
<1>4. CASE take
  <2>0. req_link # <<>> /\ flit = Head(req_link)
    BY <1>4, TakenFlit
  <2>1. req_link # <<>> /\ flit = Head(req_link) /\ req_link' = Tail(req_link)
    BY <1>1, <1>4, <2>0
  <2>2. \A f \in ReqFlits : f.txn \in Nat
    BY DEF ReqFlits
  <2>3. /\ FlitsOf(Tail(req_link), "AW")
              = IF flit.ch = "AW" THEN FlitsOf(req_link, "AW") \ {flit.txn} ELSE FlitsOf(req_link, "AW")
        /\ FlitsIncrease(Tail(req_link), "AW")
        /\ flit.ch = "AW" => /\ flit.txn \in FlitsOf(req_link, "AW")
                             /\ Before({flit.txn}, FlitsOf(Tail(req_link), "AW"))
    BY <1>2, <2>1, <2>2, FlitsTail
  <2>4. /\ FlitsOf(Tail(req_link), "AR")
              = IF flit.ch = "AR" THEN FlitsOf(req_link, "AR") \ {flit.txn} ELSE FlitsOf(req_link, "AR")
        /\ FlitsIncrease(Tail(req_link), "AR")
        /\ flit.ch = "AR" => /\ flit.txn \in FlitsOf(req_link, "AR")
                             /\ Before({flit.txn}, FlitsOf(Tail(req_link), "AR"))
    BY <1>2, <2>1, <2>2, FlitsTail
  <2>5. LinkAw' = LinkAw \ Entered("AW", take, flit) /\ Before(Entered("AW", take, flit), LinkAw')
    BY <1>4, <2>1, <2>3 DEF LinkAw, Entered, Before
  <2>6. LinkAr' = LinkAr \ Entered("AR", take, flit) /\ Before(Entered("AR", take, flit), LinkAr')
    BY <1>4, <2>1, <2>4 DEF LinkAr, Entered, Before
  <2>7. /\ req_link' \in Seq(ReqFlits) /\ Len(req_link') = Len(req_link) - 1
        /\ \A k \in 1 .. Len(req_link') : req_link'[k] = req_link[k + 1]
    BY <1>2, <2>1, HeadTailProperties
  <2>8. /\ DOMAIN req_link' = 1 .. Len(req_link) - 1 /\ DOMAIN req_link = 1 .. Len(req_link)
        /\ Len(req_link) \in Nat
    BY <1>2, <2>7, LenProperties
  <2>9. \A k \in DOMAIN req_link' : k \in Nat /\ k + 1 > 1 /\ k + 1 \in DOMAIN req_link /\ req_link'[k] = req_link[k + 1]
    BY <2>7, <2>8
  <2>10. \A j \in DOMAIN req_link \ {1} : j - 1 \in DOMAIN req_link' /\ req_link'[j - 1] = req_link[j]
    <3>1. ASSUME NEW j \in DOMAIN req_link \ {1} PROVE j - 1 \in DOMAIN req_link' /\ j - 1 + 1 = j
      BY <2>8
    <3> QED
      BY <2>9, <3>1
  <2> QED
    BY <1>4, <2>1, <2>3, <2>4, <2>5, <2>6, <2>7, <2>9, <2>10
<1> QED
  BY <1>3, <1>4 DEF ServeAs

LEMMA ServeWrites ==
    ASSUME IInv, NEW ready, NEW answer, NEW flit, NEW take, ServeAs(ready, answer, flit, take)
    PROVE  /\ writes' \in Seq(Headers) /\ Increasing(writes')
           /\ Numbers(writes') = Numbers(writes) \ GoneWrite(answer)
           /\ \A k \in DOMAIN writes' : \E j \in DOMAIN writes : writes'[k] = writes[j]
<1>1. /\ answer \in Answers \cup {NoAnswer}
      /\ writes' = IF answer.ch = "B" THEN RemoveAt(writes, Entry(writes, answer.of)) ELSE writes
  BY DEF ServeAs, Serve, MetaCycle
<1>2. writes \in Seq(Headers) /\ Distinct(writes) /\ Increasing(writes) /\ DOMAIN writes = 1 .. Len(writes)
  BY WritesDistinct DEF IInv, WritesInOrder
<1>3. CASE answer.ch = "B"
  <2>1. PICK i : AnswersWrite(answer, i)
    BY <1>1, <1>3, AnswerCases
  <2>2. i \in 1 .. Len(writes) /\ answer.of = writes[i].txn /\ Entry(writes, answer.of) = i
    BY <1>2, <2>1, AnswerOfWrite
  <2>3. RemoveAt(writes, i) \in Seq(Headers) /\ IsRemoved(RemoveAt(writes, i), writes, i)
    BY <1>2, <2>2, NumbersRemove
  <2>4. writes' = RemoveAt(writes, i) /\ GoneWrite(answer) = {writes[i].txn}
    BY <1>1, <1>3, <2>2 DEF GoneWrite
  <2>5. /\ Increasing(writes') /\ Numbers(writes') = Numbers(writes) \ GoneWrite(answer)
        /\ \A k \in DOMAIN writes' : \E j \in DOMAIN writes : writes'[k] = writes[j]
    BY <1>2, <2>3, <2>4 DEF IsRemoved
  <2> QED
    BY <2>3, <2>4, <2>5
<1>4. CASE answer.ch # "B"
  BY <1>1, <1>2, <1>4 DEF GoneWrite
<1> QED
  BY <1>3, <1>4

LEMMA ServeData ==
    ASSUME IInv, NEW ready, NEW answer, NEW flit, NEW take, ServeAs(ready, answer, flit, take)
    PROVE  /\ data_done' = (data_done \cup Closed(take, flit)) \ GoneWrite(answer)
           /\ Closed(take, flit) \subseteq Numbers(writes) \cup Numbers(aw_out_queue)
           /\ GoneWrite(answer) \subseteq data_done
<1>1. /\ answer \in Answers \cup {NoAnswer} /\ flit = AtHead(req_link)
      /\ data_done' = (data_done \cup (IF take /\ LastData(flit) THEN {Begun[FirstOpen].txn} ELSE {}))
                         \ GoneWrite(answer)
  BY DEF ServeAs, Serve, MetaCycle, LastData, GoneWrite
<1>2. ASSUME take, LastData(flit)
      PROVE  Begun[FirstOpen].txn = flit.of /\ flit.of \in Numbers(writes) \cup Numbers(aw_out_queue)
  <2>1. flit.ch = "W" /\ \E i \in DOMAIN Begun : Begun[i].txn \notin data_done
    BY <1>2, EnteredKnown DEF LastData
  <2> QED
    BY <1>1, <2>1, DataMeetsWrite
<1>3. GoneWrite(answer) \subseteq data_done
  <2>1. ASSUME answer.ch = "B" PROVE answer.of \in data_done
    BY <1>1, <2>1, AnswerCases, AnswerOfWrite
  <2> QED
    BY <2>1 DEF GoneWrite
<1> QED
  BY <1>1, <1>2, <1>3 DEF Closed

\* The reads after the answer: the one that is answered has a beat less to give.
ReadOrder(q) ==
    \A i, j \in DOMAIN q :
       i < j => /\ q[i].txn # q[j].txn
                /\ ~is_atop(q[i].txn) /\ ~is_atop(q[j].txn) => q[i].txn < q[j].txn
BeatLess(e, f, answer) ==
    /\ e.id = f.id /\ e.txn = f.txn
    /\ e.left = f.left - (IF answer.ch = "R" /\ answer.of = f.txn THEN 1 ELSE 0)
Rest(answer) ==
    IF answer.ch # "R" THEN reads
    ELSE IF answer.last THEN RemoveAt(reads, Entry(reads, answer.of))
    ELSE [reads EXCEPT ![Entry(reads, answer.of)].left = @ - 1]

LEMMA RestFacts ==
    ASSUME IInv, NEW answer \in Answers \cup {NoAnswer}
    PROVE  /\ Rest(answer) \in Seq(ReadEntries) /\ ReadOrder(Rest(answer))
           /\ Numbers(Rest(answer)) = Numbers(reads) \ GoneRead(answer)
           /\ \A k \in DOMAIN Rest(answer) : \E j \in DOMAIN reads : BeatLess(Rest(answer)[k], reads[j], answer)
<1> DEFINE r == Rest(answer)
<1>1. /\ reads \in Seq(ReadEntries) /\ Distinct(reads) /\ ReadOrder(reads)
      /\ DOMAIN reads = 1 .. Len(reads) /\ Len(reads) \in Nat
  BY ReadsDistinct, ReadsTyped DEF IInv, ReadsInOrder, ReadOrder
<1>2. \A j \in DOMAIN reads : reads[j] \in ReadEntries /\ reads[j].left \in Nat \ {0}
  BY ReadsTyped DEF ReadEntries
<1>3. CASE answer.ch # "R"
  <2>1. r = reads /\ GoneRead(answer) = {}
    BY <1>3 DEF Rest, GoneRead
  <2>2. \A j \in DOMAIN reads : BeatLess(reads[j], reads[j], answer)
    BY <1>2, <1>3 DEF BeatLess
  <2> QED
    BY <1>1, <2>1, <2>2
<1>4. ASSUME answer.ch = "R"
      PROVE  \E i \in DOMAIN reads : /\ answer.of = reads[i].txn /\ Entry(reads, answer.of) = i
                                     /\ answer.last <=> reads[i].left = 1
  <2>1. PICK i : AnswersRead(answer, i)
    BY <1>4, AnswerCases
  <2> QED
    BY <2>1, AnswerOfRead
<1>5. CASE answer.ch = "R" /\ answer.last
  <2>1. PICK i \in DOMAIN reads : answer.of = reads[i].txn /\ Entry(reads, answer.of) = i
    BY <1>4, <1>5
  <2>2. r = RemoveAt(reads, i) /\ GoneRead(answer) = {reads[i].txn}
    BY <1>5, <2>1 DEF Rest, GoneRead
  <2>3. RemoveAt(reads, i) \in Seq(ReadEntries) /\ IsRemoved(RemoveAt(reads, i), reads, i)
    BY <1>1, NumbersRemove
  <2> HIDE DEF r
  <2>4. ReadOrder(r)
    <3>1. \A k, l \in DOMAIN r : k < l => \E m, n \in DOMAIN reads : m < n /\ r[k] = reads[m] /\ r[l] = reads[n]
      BY <2>2, <2>3 DEF IsRemoved
    <3> QED
      BY <1>1, <3>1 DEF ReadOrder
  <2>5. \A k \in DOMAIN r : \E j \in DOMAIN reads : BeatLess(r[k], reads[j], answer)
    <3>1. \A k \in DOMAIN r : \E j \in DOMAIN reads \ {i} : r[k] = reads[j]
      BY <2>2, <2>3 DEF IsRemoved
    <3>2. \A j \in DOMAIN reads \ {i} : reads[j].txn # answer.of
      BY <1>1, <2>1 DEF Distinct
    <3>3. \A j \in DOMAIN reads \ {i} : BeatLess(reads[j], reads[j], answer)
      BY <1>2, <3>2 DEF BeatLess
    <3> QED
      BY <3>1, <3>3
  <2>6. Numbers(r) = Numbers(reads) \ {reads[i].txn}
    BY <2>2, <2>3 DEF IsRemoved
  <2> QED
    BY <2>2, <2>3, <2>4, <2>5, <2>6 DEF r
<1>6. CASE answer.ch = "R" /\ ~answer.last
  <2>1. PICK i \in DOMAIN reads : /\ answer.of = reads[i].txn /\ Entry(reads, answer.of) = i
                                  /\ answer.last <=> reads[i].left = 1
    BY <1>4, <1>6
  <2> DEFINE e == [reads[i] EXCEPT !.left = @ - 1]
  <2>2. r = [reads EXCEPT ![i] = e] /\ GoneRead(answer) = {}
    BY <1>6, <2>1 DEF Rest, GoneRead
  <2>3. /\ e \in ReadEntries /\ e.id = reads[i].id /\ e.txn = reads[i].txn
        /\ e.left = reads[i].left - 1
    <3>1. reads[i].left - 1 \in Nat \ {0}
      BY <1>2, <1>6, <2>1
    <3> QED
      BY <1>2, <3>1 DEF ReadEntries
  <2> HIDE DEF r, e
  <2>4. reads \in [1 .. Len(reads) -> ReadEntries]
    BY <1>1, SeqDef
  <2>5. /\ r \in [1 .. Len(reads) -> ReadEntries] /\ r[i] = e
        /\ \A j \in DOMAIN reads : j # i => r[j] = reads[j]
    BY <1>1, <2>1, <2>2, <2>3, <2>4
  <2>6. r \in Seq(ReadEntries) /\ DOMAIN r = DOMAIN reads
    BY <1>1, <2>5, SeqDef
  <2>7. \A j \in DOMAIN reads : r[j].txn = reads[j].txn
    BY <2>3, <2>5
  <2>8. ReadOrder(r)
    BY <1>1, <2>6, <2>7 DEF ReadOrder
  <2>9. Numbers(r) = Numbers(reads)
    BY <2>6, <2>7 DEF Numbers
  <2>10. ASSUME NEW k \in DOMAIN reads PROVE BeatLess(r[k], reads[k], answer)
    <3>1. CASE k = i
      BY <1>6, <2>1, <2>3, <2>5, <3>1 DEF BeatLess
    <3>2. CASE k # i
      <4>1. reads[k].txn # answer.of
        BY <1>1, <2>1, <3>2 DEF Distinct
      <4> QED
        BY <1>2, <2>5, <3>2, <4>1 DEF BeatLess
    <3> QED
      BY <3>1, <3>2
  <2> QED
    BY <2>2, <2>6, <2>8, <2>9, <2>10 DEF r
<1> QED
  BY <1>3, <1>5, <1>6

ReadOf(t) == [id |-> no_atop_req_id(t), txn |-> t, left |-> txn[t].beats]

LEMMA ServeReadsAs ==
    ASSUME NEW ready, NEW answer, NEW flit, NEW take, ServeAs(ready, answer, flit, take)
    PROVE  reads' = Appended(Rest(answer), take /\ flit.ch = "AR", ReadOf(flit.txn))
BY DEF ServeAs, Serve, MetaCycle, Appended, Rest, ReadOf

LEMMA ServeReads ==
    ASSUME IInv, NEW ready, NEW answer, NEW flit, NEW take, ServeAs(ready, answer, flit, take)
    PROVE  /\ reads' \in Seq(ReadEntries) /\ ReadOrder(reads')
           /\ Numbers(reads') = (Numbers(reads) \ GoneRead(answer)) \cup Entered("AR", take, flit)
           /\ \A k \in DOMAIN reads' :
                 \/ \E j \in DOMAIN reads : BeatLess(reads'[k], reads[j], answer)
                 \/ take /\ flit.ch = "AR" /\ reads'[k] = ReadOf(flit.txn)
<1> DEFINE q == Rest(answer)
           c == take /\ flit.ch = "AR"
           e == ReadOf(flit.txn)
<1>0. c \in BOOLEAN /\ answer \in Answers \cup {NoAnswer}
  BY DEF ServeAs
<1>1. reads' = Appended(q, c, e)
  BY ServeReadsAs
<1>2. /\ q \in Seq(ReadEntries) /\ ReadOrder(q) /\ Numbers(q) = Numbers(reads) \ GoneRead(answer)
      /\ \A k \in DOMAIN q : \E j \in DOMAIN reads : BeatLess(q[k], reads[j], answer)
  BY <1>0, RestFacts
<1>3. e.txn = flit.txn
  BY DEF ReadOf
<1>4. c => /\ flit.txn \in DOMAIN txn /\ flit.txn \in Nat /\ ~is_atop(flit.txn)
           /\ flit.txn \notin Numbers(reads)
           /\ \A t \in Numbers(reads) : ~is_atop(t) => t < flit.txn
  BY EnteredKnown
<1>5. c => e \in ReadEntries
  <2>1. c => txn[flit.txn] \in Txns
    BY <1>4, ElementOfSeq, LenProperties DEF IInv, Types
  <2>2. c => no_atop_req_id(flit.txn) \in Nat
    BY <1>4, NonAtomicIds
  <2> QED
    BY <1>4, <2>1, <2>2 DEF ReadOf, ReadEntries, Txns
<1> HIDE DEF q, c, e
<1>6. reads' \in Seq(ReadEntries) /\ IsAppended(reads', q, c, e)
  BY <1>0, <1>1, <1>2, <1>5, AppendedFacts
<1>7. Numbers(reads') = (Numbers(reads) \ GoneRead(answer)) \cup Entered("AR", take, flit)
  BY <1>2, <1>3, <1>6 DEF IsAppended, Entered, c
<1>8. \A k \in DOMAIN reads' :
         \/ \E j \in DOMAIN reads : BeatLess(reads'[k], reads[j], answer)
         \/ c /\ reads'[k] = e
  <2>1. \A k \in DOMAIN reads' : (k \in DOMAIN q /\ reads'[k] = q[k]) \/ (c /\ reads'[k] = e)
    BY <1>6 DEF IsAppended
  <2> QED
    BY <1>2, <2>1
<1>9. ReadOrder(reads')
  <2>1. /\ \A k, l \in DOMAIN reads' : k < l => k \in DOMAIN q /\ (l \in DOMAIN q \/ (c /\ reads'[l] = e))
        /\ \A k \in DOMAIN q : reads'[k] = q[k]
    BY <1>6 DEF IsAppended
  <2>2. c => \A k \in DOMAIN q : q[k].txn # e.txn /\ (~is_atop(q[k].txn) => q[k].txn < e.txn)
    <3>1. \A k \in DOMAIN q : q[k].txn \in Numbers(reads)
      BY <1>2 DEF Numbers
    <3> QED
      BY <1>3, <1>4, <3>1
  <2>3. ASSUME NEW k \in DOMAIN reads', NEW l \in DOMAIN reads', k < l
        PROVE  /\ reads'[k].txn # reads'[l].txn
               /\ ~is_atop(reads'[k].txn) /\ ~is_atop(reads'[l].txn) => reads'[k].txn < reads'[l].txn
    <3>1. k \in DOMAIN q /\ reads'[k] = q[k]
      BY <2>1, <2>3
    <3>2. CASE l \in DOMAIN q
      BY <1>2, <2>1, <2>3, <3>1, <3>2 DEF ReadOrder
    <3>3. CASE c /\ reads'[l] = e
      BY <2>2, <3>1, <3>3
    <3> QED
      BY <2>1, <2>3, <3>2, <3>3
  <2> QED
    BY <2>3 DEF ReadOrder
<1> QED
  BY <1>6, <1>7, <1>8, <1>9 DEF c, e

-----------------------------------------------------------------------------
(* The subordinate's end: identifiers of atomics *)

EntersAtop(take, flit) == take /\ flit.ch = "AW" /\ is_atop(flit.txn)

LEMMA ServeAwRegisters ==
    ASSUME NEW ready, NEW answer, NEW flit, NEW take, ServeAs(ready, answer, flit, take)
    PROVE  aw_atop' = IF EntersAtop(take, flit)
                      THEN [Registers(aw_atop, answer, "B") EXCEPT ![atop_req_id(answer)] = flit.txn]
                      ELSE Registers(aw_atop, answer, "B")
BY DEF ServeAs, Serve, MetaCycle, EntersAtop

LEMMA ServeArRegisters ==
    ASSUME NEW ready, NEW answer, NEW flit, NEW take, ServeAs(ready, answer, flit, take)
    PROVE  ar_atop' = IF EntersAtop(take, flit) /\ atop_has_r_rsp(flit.txn)
                      THEN [Registers(ar_atop, answer, "R") EXCEPT ![atop_req_id(answer)] = flit.txn]
                      ELSE Registers(ar_atop, answer, "R")
BY DEF ServeAs, Serve, MetaCycle, EntersAtop

LEMMA RegistersTyped ==
    ASSUME NEW atop \in [AtopIds -> Nat], NEW answer, NEW ch
    PROVE  /\ Registers(atop, answer, ch) \in [AtopIds -> Nat]
           /\ \A i \in AtopIds : Registers(atop, answer, ch)[i]
                                    = IF pops(answer, ch) /\ answer.id = i THEN 0 ELSE atop[i]
BY DEF Registers

\* An atomic that enters takes a register that is empty after the answer.
LEMMA AtopEnters ==
    ASSUME IInv, NEW ready, NEW answer, NEW flit, NEW take, ServeAs(ready, answer, flit, take),
           EntersAtop(take, flit)
    PROVE  /\ atop_req_id(answer) \in AtopIds
           /\ Registers(aw_atop, answer, "B")[atop_req_id(answer)] = 0
           /\ Registers(ar_atop, answer, "R")[atop_req_id(answer)] = 0
<1>1. aw_valid(flit, answer)
  BY EnteredKnown DEF EntersAtop
<1>2. available_atop_ids(answer) # {}
  BY <1>1 DEF aw_valid, EntersAtop
<1>3. atop_req_id(answer) \in available_atop_ids(answer)
  BY <1>2, FreeId
<1> QED
  BY <1>3 DEF available_atop_ids

LEMMA ServeRegistersAt ==
    ASSUME IInv, NEW ready, NEW answer, NEW flit, NEW take, ServeAs(ready, answer, flit, take)
    PROVE  /\ aw_atop' \in [AtopIds -> Nat] /\ ar_atop' \in [AtopIds -> Nat]
           /\ \A i \in AtopIds :
                 \/ aw_atop'[i] = Registers(aw_atop, answer, "B")[i]
                    /\ ar_atop'[i] = Registers(ar_atop, answer, "R")[i]
                 \/ /\ EntersAtop(take, flit) /\ i = atop_req_id(answer)
                    /\ aw_atop'[i] = flit.txn
                    /\ IF atop_has_r_rsp(flit.txn) THEN ar_atop'[i] = flit.txn ELSE ar_atop'[i] = 0
           /\ EntersAtop(take, flit) => /\ aw_atop'[atop_req_id(answer)] = flit.txn
                                        /\ atop_has_r_rsp(flit.txn) => ar_atop'[atop_req_id(answer)] = flit.txn
<1> DEFINE b == Registers(aw_atop, answer, "B")
           r == Registers(ar_atop, answer, "R")
           x == atop_req_id(answer)
<1>1. b \in [AtopIds -> Nat] /\ r \in [AtopIds -> Nat]
  BY RegistersTyped DEF IInv, Types
<1>2. EntersAtop(take, flit) => x \in AtopIds /\ r[x] = 0
  BY AtopEnters
<1>3. EntersAtop(take, flit) => flit.txn \in Nat
  BY TakenFlit DEF EntersAtop
<1>4. aw_atop' = IF EntersAtop(take, flit) THEN [b EXCEPT ![x] = flit.txn] ELSE b
  BY ServeAwRegisters
<1>5. ar_atop' = IF EntersAtop(take, flit) /\ atop_has_r_rsp(flit.txn) THEN [r EXCEPT ![x] = flit.txn] ELSE r
  BY ServeArRegisters
<1> HIDE DEF b, r, x
<1>6. CASE EntersAtop(take, flit)
  <2>1. aw_atop' = [b EXCEPT ![x] = flit.txn]
    BY <1>4, <1>6
  <2>2. aw_atop' \in [AtopIds -> Nat] /\ aw_atop'[x] = flit.txn /\ \A i \in AtopIds : i # x => aw_atop'[i] = b[i]
    BY <1>1, <1>2, <1>3, <1>6, <2>1
  <2>3. CASE atop_has_r_rsp(flit.txn)
    <3>1. ar_atop' = [r EXCEPT ![x] = flit.txn]
      BY <1>5, <1>6, <2>3
    <3>2. ar_atop' \in [AtopIds -> Nat] /\ ar_atop'[x] = flit.txn /\ \A i \in AtopIds : i # x => ar_atop'[i] = r[i]
      BY <1>1, <1>2, <1>3, <1>6, <3>1
    <3> QED
      BY <1>6, <2>2, <2>3, <3>2 DEF b, r, x
  <2>4. CASE ~atop_has_r_rsp(flit.txn)
    <3>1. ar_atop' = r
      BY <1>5, <2>4
    <3> QED
      BY <1>1, <1>2, <1>6, <2>2, <2>4, <3>1 DEF b, r, x
  <2> QED
    BY <2>3, <2>4
<1>7. CASE ~EntersAtop(take, flit)
  <2>1. aw_atop' = b /\ ar_atop' = r
    BY <1>4, <1>5, <1>7
  <2> QED
    BY <1>1, <1>7, <2>1 DEF b, r
<1> QED
  BY <1>6, <1>7

\* An answer clears the registers of its own atomic only.
LEMMA AwRegisterKept ==
    ASSUME IInv, NEW ready, NEW answer, NEW flit, NEW take, ServeAs(ready, answer, flit, take),
           NEW i \in AtopIds, aw_atop[i] # 0, aw_atop[i] \notin GoneWrite(answer)
    PROVE  aw_atop'[i] = aw_atop[i]
<1>1. answer \in Answers \cup {NoAnswer} /\ aw_atop \in [AtopIds -> Nat]
  BY DEF ServeAs, IInv, Types
<1>2. ~(pops(answer, "B") /\ answer.id = i)
  <2> SUFFICES ASSUME answer.ch = "B", answer.id = i
               PROVE  FALSE
    BY DEF pops
  <2>1. PICK j : AnswersWrite(answer, j)
    BY <1>1, AnswerCases
  <2>2. is_atop_rsp(answer)
    BY MetaBufferAssumption DEF is_atop_rsp, AtopIds
  <2>3. aw_atop[answer.id] = answer.of
    BY <2>1, <2>2, AnswerOfWrite
  <2> QED
    BY <2>3 DEF GoneWrite
<1>3. Registers(aw_atop, answer, "B")[i] = aw_atop[i]
  BY <1>1, <1>2, RegistersTyped
<1>4. CASE EntersAtop(take, flit) /\ i = atop_req_id(answer)
  BY <1>3, <1>4, AtopEnters
<1>5. CASE ~(EntersAtop(take, flit) /\ i = atop_req_id(answer))
  BY <1>3, <1>5, ServeRegistersAt
<1> QED
  BY <1>4, <1>5

LEMMA ArRegisterKept ==
    ASSUME IInv, NEW ready, NEW answer, NEW flit, NEW take, ServeAs(ready, answer, flit, take),
           NEW i \in AtopIds, ar_atop[i] # 0, ar_atop[i] \notin GoneRead(answer)
    PROVE  ar_atop'[i] = ar_atop[i]
<1>1. answer \in Answers \cup {NoAnswer} /\ ar_atop \in [AtopIds -> Nat]
  BY DEF ServeAs, IInv, Types
<1>2. ~(pops(answer, "R") /\ answer.id = i)
  <2> SUFFICES ASSUME answer.ch = "R", answer.last, answer.id = i
               PROVE  FALSE
    BY DEF pops
  <2>1. PICK j : AnswersRead(answer, j)
    BY <1>1, AnswerCases
  <2>2. is_atop_rsp(answer)
    BY MetaBufferAssumption DEF is_atop_rsp, AtopIds
  <2>3. ar_atop[answer.id] = answer.of
    BY <2>1, <2>2, AnswerOfRead
  <2> QED
    BY <2>3 DEF GoneRead
<1>3. Registers(ar_atop, answer, "R")[i] = ar_atop[i]
  BY <1>1, <1>2, RegistersTyped
<1>4. CASE EntersAtop(take, flit) /\ i = atop_req_id(answer)
  BY <1>3, <1>4, AtopEnters
<1>5. CASE ~(EntersAtop(take, flit) /\ i = atop_req_id(answer))
  BY <1>3, <1>5, ServeRegistersAt
<1> QED
  BY <1>4, <1>5

LEMMA SamePredicates ==
    ASSUME txn' = txn
    PROVE  \A t : /\ is_atop(t)' <=> is_atop(t)
                  /\ no_atop_req_id(t)' = no_atop_req_id(t)
                  /\ atop_has_r_rsp(t)' <=> atop_has_r_rsp(t)
                  /\ HasR(t)' <=> HasR(t)
                  /\ HasB(t)' <=> HasB(t)
BY DEF is_atop, no_atop_req_id, atop_has_r_rsp, HasR, HasB

LEMMA ServeIdsRight ==
    ASSUME IInv, NEW ready, NEW answer, NEW flit, NEW take, ServeAs(ready, answer, flit, take)
    PROVE  IdsRight'
<1>1. txn' = txn /\ answer \in Answers \cup {NoAnswer}
  BY ServeFacts DEF ServeAs
<1>2. \A t : /\ is_atop(t)' <=> is_atop(t)
             /\ no_atop_req_id(t)' = no_atop_req_id(t)
             /\ atop_has_r_rsp(t)' <=> atop_has_r_rsp(t)
  BY <1>1, SamePredicates
<1>3. /\ OwnId(writes) /\ OwnId(aw_out_queue) /\ OwnId(reads)
      /\ InRegister(writes, aw_atop) /\ InRegister(aw_out_queue, aw_atop) /\ InRegister(reads, ar_atop)
      /\ LoadsInRegister
  BY DEF IInv, IdsRight
<1>4. \A t \in WriteNumbers \cup Numbers(reads) : t \in Nat \ {0}
  BY LenProperties DEF IInv, Known, Types
<1>5. \A t \in GoneWrite(answer) : t \in Numbers(writes)
  BY <1>1, AnswerCases, AnswerOfWrite DEF GoneWrite
<1>6. \A t \in GoneRead(answer) : t \in Numbers(reads)
  BY <1>1, AnswerCases, AnswerOfRead DEF GoneRead
<1>7. \A t \in Numbers(aw_out_queue) : t \notin GoneWrite(answer) /\ t \notin GoneRead(answer)
  <2>1. ASSUME NEW t \in Numbers(aw_out_queue), t \in Numbers(writes) PROVE FALSE
    <3>1. t < t /\ t \in Nat
      BY <1>4, <2>1 DEF IInv, WritesInOrder, Before, WriteNumbers
    <3> QED
      BY <3>1
  <2> QED
    BY <1>5, <1>6, <2>1, ReadPlaces
<1>8. OwnId(writes') /\ InRegister(writes', aw_atop')
  <2>1. /\ Numbers(writes') = Numbers(writes) \ GoneWrite(answer)
        /\ \A k \in DOMAIN writes' :
              \E j \in DOMAIN writes : writes'[k].id = writes[j].id /\ writes'[k].txn = writes[j].txn
    BY ServeWrites
  <2>2. OwnId(writes')
    BY <1>3, <2>1 DEF OwnId
  <2>3. ASSUME NEW k \in DOMAIN writes', is_atop(writes'[k].txn)
        PROVE  writes'[k].id \in AtopIds /\ aw_atop'[writes'[k].id] = writes'[k].txn
    <3>1. PICK j \in DOMAIN writes : writes'[k].id = writes[j].id /\ writes'[k].txn = writes[j].txn
      BY <2>1
    <3>2. writes[j].id \in AtopIds /\ aw_atop[writes[j].id] = writes[j].txn
      BY <1>3, <2>3, <3>1 DEF InRegister
    <3>3. writes'[k].txn \in Numbers(writes')
      BY DEF Numbers
    <3>4. writes[j].txn \notin GoneWrite(answer) /\ writes[j].txn \in Numbers(writes)
      BY <2>1, <3>1, <3>3
    <3>5. writes[j].txn # 0
      BY <1>4, <3>4 DEF WriteNumbers
    <3>6. aw_atop'[writes[j].id] = aw_atop[writes[j].id]
      BY <3>2, <3>4, <3>5, AwRegisterKept
    <3> QED
      BY <3>1, <3>2, <3>6
  <2> QED
    BY <2>2, <2>3 DEF InRegister
<1>9. /\ OwnId(aw_out_queue') /\ InRegister(aw_out_queue', aw_atop')
      /\ \A k \in DOMAIN aw_out_queue' :
            atop_has_r_rsp(aw_out_queue'[k].txn) => ar_atop'[aw_out_queue'[k].id] = aw_out_queue'[k].txn
  <2>1. \A k \in DOMAIN aw_out_queue' :
           \/ k \in DOMAIN aw_out_queue /\ aw_out_queue'[k] = aw_out_queue[k]
           \/ /\ take /\ flit.ch = "AW" /\ aw_out_queue'[k].txn = flit.txn
              /\ aw_out_queue'[k].id = IF is_atop(flit.txn) THEN atop_req_id(answer)
                                       ELSE no_atop_req_id(flit.txn)
    BY ServeOut
  <2>2. OwnId(aw_out_queue')
    BY <1>3, <2>1 DEF OwnId
  <2>3. \A t : atop_has_r_rsp(t) => is_atop(t)
    BY DEF atop_has_r_rsp, is_atop
  <2>4. ASSUME NEW k \in DOMAIN aw_out_queue', is_atop(aw_out_queue'[k].txn)
        PROVE  /\ aw_out_queue'[k].id \in AtopIds /\ aw_atop'[aw_out_queue'[k].id] = aw_out_queue'[k].txn
               /\ atop_has_r_rsp(aw_out_queue'[k].txn) => ar_atop'[aw_out_queue'[k].id] = aw_out_queue'[k].txn
    <3>1. CASE k \in DOMAIN aw_out_queue /\ aw_out_queue'[k] = aw_out_queue[k]
      <4> DEFINE t == aw_out_queue[k].txn
                 i == aw_out_queue[k].id
      <4>1. /\ i \in AtopIds /\ aw_atop[i] = t
            /\ atop_has_r_rsp(t) => ar_atop[i] = t
        BY <1>3, <2>4, <3>1 DEF InRegister, LoadsInRegister
      <4>2. t \in Numbers(aw_out_queue)
        BY <3>1 DEF Numbers
      <4>3. t # 0 /\ t \notin GoneWrite(answer) /\ t \notin GoneRead(answer)
        BY <1>4, <1>7, <4>2 DEF WriteNumbers
      <4> HIDE DEF t, i
      <4>4. aw_atop'[i] = t
        BY <4>1, <4>3, AwRegisterKept
      <4>5. atop_has_r_rsp(t) => ar_atop'[i] = t
        BY <4>1, <4>3, ArRegisterKept
      <4> QED
        BY <3>1, <4>1, <4>4, <4>5 DEF t, i
    <3>2. CASE /\ take /\ flit.ch = "AW" /\ aw_out_queue'[k].txn = flit.txn
               /\ aw_out_queue'[k].id = IF is_atop(flit.txn) THEN atop_req_id(answer)
                                        ELSE no_atop_req_id(flit.txn)
      <4>1. EntersAtop(take, flit) /\ aw_out_queue'[k].id = atop_req_id(answer)
        BY <2>4, <3>2 DEF EntersAtop
      <4>2. atop_req_id(answer) \in AtopIds
        BY <4>1, AtopEnters
      <4>3. /\ aw_atop'[atop_req_id(answer)] = flit.txn
            /\ atop_has_r_rsp(flit.txn) => ar_atop'[atop_req_id(answer)] = flit.txn
        BY <4>1, ServeRegistersAt
      <4> QED
        BY <3>2, <4>1, <4>2, <4>3
    <3> QED
      BY <2>1, <3>1, <3>2
  <2> QED
    BY <2>2, <2>3, <2>4 DEF InRegister
<1>10. OwnId(reads') /\ InRegister(reads', ar_atop')
  <2>1. /\ Numbers(reads') = (Numbers(reads) \ GoneRead(answer)) \cup Entered("AR", take, flit)
        /\ \A k \in DOMAIN reads' :
              \/ \E j \in DOMAIN reads : BeatLess(reads'[k], reads[j], answer)
              \/ take /\ flit.ch = "AR" /\ reads'[k] = ReadOf(flit.txn)
    BY ServeReads
  <2>2. take /\ flit.ch = "AR" => ~is_atop(flit.txn)
    BY EnteredKnown
  <2>3. \A t : ReadOf(t).id = no_atop_req_id(t) /\ ReadOf(t).txn = t
    BY DEF ReadOf
  <2>4. \A k \in DOMAIN reads' :
           \/ \E j \in DOMAIN reads : reads'[k].id = reads[j].id /\ reads'[k].txn = reads[j].txn
           \/ reads'[k].id = no_atop_req_id(reads'[k].txn) /\ ~is_atop(reads'[k].txn) 
    BY <2>1, <2>2, <2>3 DEF BeatLess
  <2>5. OwnId(reads')
    BY <1>3, <2>4 DEF OwnId
  <2>6. ASSUME NEW k \in DOMAIN reads', is_atop(reads'[k].txn)
        PROVE  reads'[k].id \in AtopIds /\ ar_atop'[reads'[k].id] = reads'[k].txn
    <3>1. PICK j \in DOMAIN reads : reads'[k].id = reads[j].id /\ reads'[k].txn = reads[j].txn
      BY <2>4, <2>6
    <3>2. reads[j].id \in AtopIds /\ ar_atop[reads[j].id] = reads[j].txn
      BY <1>3, <2>6, <3>1 DEF InRegister
    <3>3. reads'[k].txn \in Numbers(reads')
      BY DEF Numbers
    <3>7. reads[j].txn \notin Entered("AR", take, flit)
      BY <2>2, <2>6, <3>1 DEF Entered
    <3>4. reads[j].txn \notin GoneRead(answer) /\ reads[j].txn \in Numbers(reads)
      BY <2>1, <3>1, <3>3, <3>7
    <3>5. reads[j].txn # 0
      BY <1>4, <3>4
    <3>6. ar_atop'[reads[j].id] = ar_atop[reads[j].id]
      BY <3>2, <3>4, <3>5, ArRegisterKept
    <3> QED
      BY <3>1, <3>2, <3>6
  <2> QED
    BY <2>5, <2>6 DEF InRegister
<1>11. /\ aw_atop \in [AtopIds -> Nat] /\ ar_atop \in [AtopIds -> Nat]
       /\ \A i \in AtopIds : aw_atop[i] # 0 /\ ar_atop[i] # 0 => aw_atop[i] = ar_atop[i]
       /\ atop_req_pending_q => aw_atop[lzc_cnt_q] = 0 /\ ar_atop[lzc_cnt_q] = 0
  BY DEF IInv, Types, IdsRight
<1>12. /\ \A i \in AtopIds : Registers(aw_atop, answer, "B")[i] \in {0, aw_atop[i]}
       /\ \A i \in AtopIds : Registers(ar_atop, answer, "R")[i] \in {0, ar_atop[i]}
  BY <1>11, RegistersTyped
<1>13. \A i \in AtopIds :
          \/ aw_atop'[i] = Registers(aw_atop, answer, "B")[i]
             /\ ar_atop'[i] = Registers(ar_atop, answer, "R")[i]
          \/ /\ EntersAtop(take, flit) /\ i = atop_req_id(answer)
             /\ aw_atop'[i] = flit.txn
             /\ IF atop_has_r_rsp(flit.txn) THEN ar_atop'[i] = flit.txn ELSE ar_atop'[i] = 0
  BY ServeRegistersAt
<1>14. \A i \in AtopIds : aw_atop'[i] # 0 /\ ar_atop'[i] # 0 => aw_atop'[i] = ar_atop'[i]
  BY <1>11, <1>12, <1>13
<1>15. ASSUME atop_req_pending_q' PROVE aw_atop'[lzc_cnt_q'] = 0 /\ ar_atop'[lzc_cnt_q'] = 0
  <2>1. aw_valid(flit, answer) /\ is_atop(flit.txn) /\ ~take
    BY <1>15, ServeIds
  <2>2. available_atop_ids(answer) # {}
    BY <2>1 DEF aw_valid
  <2>3. lzc_cnt_q' = IF atop_req_pending_q THEN lzc_cnt_q ELSE lzc_cnt_d(answer)
    BY ServeIds
  <2>4. lzc_cnt_q' = atop_req_id(answer)
    BY <2>3 DEF atop_req_id
  <2>5. atop_req_id(answer) \in available_atop_ids(answer)
    BY <2>2, FreeId
  <2>6. ~EntersAtop(take, flit)
    BY <2>1 DEF EntersAtop
  <2> QED
    BY <1>13, <2>4, <2>5, <2>6 DEF available_atop_ids
<1> QED
  BY <1>2, <1>8, <1>9, <1>10, <1>14, <1>15 DEF IdsRight, OwnId, InRegister, LoadsInRegister

-----------------------------------------------------------------------------
(* The subordinate's end: where the transactions are after the cycle *)

LEMMA ServeGone ==
    ASSUME IInv, NEW answer \in Answers \cup {NoAnswer}
    PROVE  /\ GoneWrite(answer) \subseteq Numbers(writes) /\ GoneRead(answer) \subseteq Numbers(reads)
           /\ \A t \in Numbers(writes) : t \notin Numbers(aw_out_queue) \cup LinkAw \cup Offered(aw)
<1>1. GoneWrite(answer) \subseteq Numbers(writes)
  BY AnswerCases, AnswerOfWrite DEF GoneWrite
<1>2. GoneRead(answer) \subseteq Numbers(reads)
  BY AnswerCases, AnswerOfRead DEF GoneRead
<1>3. ASSUME NEW t \in Numbers(writes), t \in Numbers(aw_out_queue) \cup LinkAw \cup Offered(aw) PROVE FALSE
  <2>1. t < t
    BY <1>3 DEF IInv, WritesInOrder, Before
  <2>2. t \in Nat
    BY LenProperties DEF IInv, Known, WriteNumbers, Types
  <2> QED
    BY <2>1, <2>2
<1> QED
  BY <1>1, <1>2, <1>3

LEMMA ServePlaces ==
    ASSUME IInv, NEW ready, NEW answer, NEW flit, NEW take, ServeAs(ready, answer, flit, take)
    PROVE  /\ Offered(aw)' = Offered(aw) /\ Offered(ar)' = Offered(ar)
           /\ (Numbers(aw_out_queue) \cup LinkAw)' = Numbers(aw_out_queue) \cup LinkAw
           /\ WriteNumbers' = WriteNumbers \ GoneWrite(answer)
           /\ ReadNumbers' = ReadNumbers \ Entered("AR", take, flit)
           /\ Pending' = Pending \ Closed(take, flit) /\ DataRight'
           /\ Entered("AW", take, flit) \subseteq LinkAw /\ Entered("AR", take, flit) \subseteq LinkAr
<1>1. aw' = aw /\ ar' = ar /\ answer \in Answers \cup {NoAnswer}
  BY ServeFacts DEF chimney, ServeAs
<1>2. Offered(aw)' = Offered(aw) /\ Offered(ar)' = Offered(ar)
  BY <1>1 DEF Offered
<1>3. Entered("AW", take, flit) \subseteq LinkAw /\ Entered("AR", take, flit) \subseteq LinkAr
  BY EnteredKnown DEF Entered
<1>4. Numbers(aw_out_queue') = Numbers(aw_out_queue) \cup Entered("AW", take, flit)
  BY ServeOut
<1>5. LinkAw' = LinkAw \ Entered("AW", take, flit) /\ LinkAr' = LinkAr \ Entered("AR", take, flit)
  BY ServeLink
<1>6. (Numbers(aw_out_queue) \cup LinkAw)' = Numbers(aw_out_queue) \cup LinkAw
  BY <1>3, <1>4, <1>5
<1>7. Numbers(writes') = Numbers(writes) \ GoneWrite(answer)
  BY ServeWrites
<1>8. /\ GoneWrite(answer) \subseteq Numbers(writes)
      /\ \A t \in Numbers(writes) : t \notin Numbers(aw_out_queue) \cup LinkAw \cup Offered(aw)
  BY <1>1, ServeGone
<1>9. WriteNumbers' = WriteNumbers \ GoneWrite(answer)
  BY <1>2, <1>6, <1>7, <1>8 DEF WriteNumbers
<1>10. ReadNumbers' = ReadNumbers \ Entered("AR", take, flit)
  <2>1. ASSUME NEW t \in LinkAr, t \in Offered(ar) PROVE FALSE
    <3>1. t < t
      BY <2>1 DEF IInv, ReadsInOrder, Before
    <3>2. t \in Nat
      BY LenProperties DEF IInv, Known, ReadNumbers, Types
    <3> QED
      BY <3>1, <3>2
  <2> QED
    BY <1>2, <1>3, <1>5, <2>1 DEF ReadNumbers
<1>11. /\ data_done' = (data_done \cup Closed(take, flit)) \ GoneWrite(answer)
       /\ Closed(take, flit) \subseteq Numbers(writes) \cup Numbers(aw_out_queue)
       /\ GoneWrite(answer) \subseteq data_done
  BY ServeData
<1>12. Pending' = Pending \ Closed(take, flit)
  <2>1. Pending' = ((Numbers(writes) \ GoneWrite(answer)) \cup Numbers(aw_out_queue) \cup LinkAw)
                      \ ((data_done \cup Closed(take, flit)) \ GoneWrite(answer))
    BY <1>6, <1>7, <1>11 DEF Pending
  <2> QED
    BY <1>8, <1>11, <2>1 DEF Pending
<1>13. DataRight'
  <2>1. data_done \subseteq Numbers(writes) \cup Numbers(aw_out_queue)
    BY DEF IInv, DataRight
  <2> QED
    BY <1>4, <1>7, <1>11, <2>1 DEF DataRight
<1> QED
  BY <1>2, <1>3, <1>6, <1>9, <1>10, <1>12, <1>13

LEMMA ServeQueues ==
    ASSUME IInv, NEW ready, NEW answer, NEW flit, NEW take, ServeAs(ready, answer, flit, take)
    PROVE  QueuesRight'
<1>1. txn' = txn /\ answer \in Answers \cup {NoAnswer}
  BY ServeFacts DEF ServeAs
<1>2. \A t : (is_atop(t)' <=> is_atop(t)) /\ no_atop_req_id(t)' = no_atop_req_id(t)
  BY <1>1, SamePredicates
<1>3. /\ Increasing(aw_queue') /\ OwnId(aw_queue')
      /\ Numbers(aw_queue') = (Numbers(aw_queue) \ GoneWrite(answer))
                                 \cup {t \in Entered("AW", take, flit) : ~is_atop(t)}
  BY ServeAwQueue
<1>4. /\ Increasing(ar_queue') /\ OwnId(ar_queue')
      /\ Numbers(ar_queue') = (Numbers(ar_queue) \ GoneRead(answer)) \cup Entered("AR", take, flit)
  BY ServeArQueue
<1>5. Numbers(aw_out_queue') = Numbers(aw_out_queue) \cup Entered("AW", take, flit)
  BY ServeOut
<1>6. Numbers(writes') = Numbers(writes) \ GoneWrite(answer)
  BY ServeWrites
<1>7. Numbers(reads') = (Numbers(reads) \ GoneRead(answer)) \cup Entered("AR", take, flit)
  BY ServeReads
<1>8. /\ GoneWrite(answer) \subseteq Numbers(writes)
      /\ \A t \in Numbers(writes) : t \notin Numbers(aw_out_queue)
  BY <1>1, ServeGone
<1>9. \A t \in Entered("AR", take, flit) : ~is_atop(t)
  BY EnteredKnown DEF Entered
<1>10. /\ Numbers(aw_queue) = {t \in Numbers(writes) \cup Numbers(aw_out_queue) : ~is_atop(t)}
       /\ Numbers(ar_queue) = {t \in Numbers(reads) : ~is_atop(t)}
  BY DEF IInv, QueuesRight
<1>11. Numbers(aw_queue') = {t \in Numbers(writes') \cup Numbers(aw_out_queue') : ~is_atop(t)}
  BY <1>3, <1>5, <1>6, <1>8, <1>10
<1>12. Numbers(ar_queue') = {t \in Numbers(reads') : ~is_atop(t)}
  BY <1>4, <1>7, <1>9, <1>10
<1> QED
  BY <1>2, <1>3, <1>4, <1>11, <1>12 DEF QueuesRight, OwnId

LEMMA ServeOrder ==
    ASSUME IInv, NEW ready, NEW answer, NEW flit, NEW take, ServeAs(ready, answer, flit, take)
    PROVE  WritesInOrder' /\ ReadsInOrder'
<1> DEFINE W == Numbers(writes)
           O == Numbers(aw_out_queue)
           EW == Entered("AW", take, flit)
           ER == Entered("AR", take, flit)
<1>1. txn' = txn /\ answer \in Answers \cup {NoAnswer}
  BY ServeFacts DEF ServeAs
<1>2. \A t : is_atop(t)' <=> is_atop(t)
  BY <1>1, SamePredicates
<1>3. /\ Offered(aw)' = Offered(aw) /\ Offered(ar)' = Offered(ar)
      /\ (Numbers(aw_out_queue) \cup LinkAw)' = O \cup LinkAw
      /\ ReadNumbers' = ReadNumbers \ ER
      /\ EW \subseteq LinkAw /\ ER \subseteq LinkAr
  BY ServePlaces
<1>4. /\ LinkAw' = LinkAw \ EW /\ LinkAr' = LinkAr \ ER
      /\ FlitsIncrease(req_link', "AW") /\ FlitsIncrease(req_link', "AR")
      /\ Before(EW, LinkAw') /\ Before(ER, LinkAr')
  BY ServeLink
<1>5. Increasing(aw_out_queue') /\ Numbers(aw_out_queue') = O \cup EW
  BY ServeOut
<1>6. Increasing(writes') /\ Numbers(writes') = W \ GoneWrite(answer)
  BY ServeWrites
<1>7. ReadOrder(reads') /\ Numbers(reads') = (Numbers(reads) \ GoneRead(answer)) \cup ER
  BY ServeReads
<1>8. /\ Before(W, O) /\ Before(W \cup O, LinkAw) /\ Before(W \cup O \cup LinkAw, Offered(aw))
      /\ Before(LinkAr, Offered(ar))
  BY DEF IInv, WritesInOrder, ReadsInOrder
<1>9. \A t \in Numbers(reads) :
         IF is_atop(t) THEN Before({t}, O \cup LinkAw \cup Offered(aw)) ELSE Before({t}, ReadNumbers)
  BY DEF IInv, ReadsInOrder
<1>10. \A t \in ER : ~is_atop(t)
  BY EnteredKnown DEF Entered
<1> HIDE DEF W, O, EW, ER
<1>11. Before(Numbers(writes'), Numbers(aw_out_queue'))
  BY <1>3, <1>5, <1>6, <1>8 DEF Before
<1>12. Before(Numbers(writes') \cup Numbers(aw_out_queue'), LinkAw')
  BY <1>3, <1>4, <1>5, <1>6, <1>8 DEF Before
<1>13. Before(Numbers(writes') \cup Numbers(aw_out_queue') \cup LinkAw', Offered(aw)')
  BY <1>3, <1>6, <1>8 DEF Before
<1>14. WritesInOrder'
  BY <1>4, <1>5, <1>6, <1>11, <1>12, <1>13 DEF WritesInOrder
<1>15. Before(LinkAr', Offered(ar)')
  BY <1>3, <1>4, <1>8 DEF Before
<1>16. \A t \in Numbers(reads') :
          IF is_atop(t) THEN Before({t}, (Numbers(aw_out_queue) \cup LinkAw \cup Offered(aw))')
          ELSE Before({t}, ReadNumbers')
  <2>1. (Numbers(aw_out_queue) \cup LinkAw \cup Offered(aw))' = O \cup LinkAw \cup Offered(aw)
    BY <1>3
  <2>2. ReadNumbers' = LinkAr' \cup Offered(ar)'
    BY DEF ReadNumbers
  <2>3. ASSUME NEW t \in ER PROVE Before({t}, ReadNumbers')
    BY <1>3, <1>4, <1>8, <2>2, <2>3 DEF Before
  <2>4. ASSUME NEW t \in Numbers(reads), ~is_atop(t) PROVE Before({t}, ReadNumbers')
    BY <1>3, <1>9, <2>4 DEF Before
  <2> QED
    BY <1>7, <1>9, <1>10, <2>1, <2>3, <2>4
<1>17. ReadsInOrder'
  BY <1>2, <1>4, <1>7, <1>15, <1>16 DEF ReadsInOrder, ReadOrder
<1> QED
  BY <1>14, <1>17

LEMMA ServePackets ==
    ASSUME IInv, NEW ready, NEW answer, NEW flit, NEW take, ServeAs(ready, answer, flit, take)
    PROVE  PacketRight' /\ PacketsOnLink'
<1>1. UNCHANGED chimney
  BY ServeFacts
<1>2. /\ aw' = aw /\ ar' = ar /\ w' = w /\ aw_w_sel_q' = aw_w_sel_q /\ axi_aw_id_q' = axi_aw_id_q
      /\ req_arb' = req_arb /\ packet' = packet
  BY <1>1 DEF chimney
<1>3. Offered(aw)' = Offered(aw) /\ Offered(packet)' = Offered(packet)
  BY <1>2 DEF Offered
<1>4. Pending' = Pending \ Closed(take, flit)
  BY ServePlaces
<1>5. CASE ~take
  <2>1. req_link' = req_link
    BY <1>5, ServeReqLink
  <2>2. Pending' = Pending
    BY <1>4, <1>5 DEF Closed
  <2> QED
    BY <1>1, <2>1, <2>2, PacketsStay
<1>6. CASE take
  <2>0. /\ flit.ch \in {"AW", "AR", "W"} /\ req_link # <<>> /\ flit = Head(req_link) /\ flit \in ReqFlits
        /\ flit.txn = flit.of /\ flit.txn \in Nat /\ req_link[1] = flit /\ 1 \in DOMAIN req_link
    BY <1>6, TakenFlit
  <2>1. req_link[1] = flit /\ 1 \in DOMAIN req_link
    BY <2>0
  <2>2. /\ \A k \in DOMAIN req_link' : /\ k \in Nat /\ k + 1 > 1 /\ k + 1 \in DOMAIN req_link
                                       /\ req_link'[k] = req_link[k + 1]
        /\ \A j \in DOMAIN req_link \ {1} : j - 1 \in DOMAIN req_link' /\ req_link'[j - 1] = req_link[j]
    <3>1. IF take THEN /\ \A k \in DOMAIN req_link' : /\ k \in Nat /\ k + 1 > 1 /\ k + 1 \in DOMAIN req_link
                                                      /\ req_link'[k] = req_link[k + 1]
                      /\ \A j \in DOMAIN req_link \ {1} : j - 1 \in DOMAIN req_link' /\ req_link'[j - 1] = req_link[j]
          ELSE req_link' = req_link
      BY ServeLink
    <3> QED
      BY <1>6, <3>1
  <2>3. \A k \in DOMAIN req_link : req_link[k].of \in Nat
    BY FlitTypes
  <2>4. Closed(take, flit) = IF LastData(flit) THEN {flit.of} ELSE {}
    BY <1>6 DEF Closed
  <2>5. LastData(flit) => flit.of # packet /\ IsWriteFlit(flit)
    BY <2>1 DEF IInv, PacketsOnLink, LastData, IsWriteFlit
  <2>6. PacketRight'
    <3>1. packet # 0 => packet \in Pending'
      BY <1>4, <2>4, <2>5 DEF IInv, PacketRight
    <3> QED
      BY <1>2, <1>3, <3>1 DEF IInv, PacketRight
  <2>7. ASSUME NEW k \in DOMAIN req_link', IsWriteFlit(req_link'[k]) PROVE req_link'[k].of \notin Closed(take, flit)
    <3>1. 1 < k + 1 /\ k + 1 \in DOMAIN req_link /\ req_link'[k] = req_link[k + 1] /\ k \in Nat
      BY <2>2
    <3>2. LastData(flit) => req_link[1].of < req_link[k + 1].of
      <4>1. IsWriteFlit(req_link[k + 1])
        BY <2>7, <3>1
      <4> QED
        BY <2>1, <2>5, <3>1, <4>1 DEF IInv, PacketsOnLink
    <3> QED
      BY <2>1, <2>3, <2>4, <3>1, <3>2
  <2>8. \A k, l \in DOMAIN req_link' : k < l /\ IsWriteFlit(req_link'[k]) /\ IsWriteFlit(req_link'[l]) =>
           /\ req_link'[k].of <= req_link'[l].of
           /\ LastData(req_link'[k]) \/ req_link'[l].ch = "AW" => req_link'[k].of < req_link'[l].of
    <3>1. ASSUME NEW k \in DOMAIN req_link', NEW l \in DOMAIN req_link', k < l,
                 IsWriteFlit(req_link'[k]), IsWriteFlit(req_link'[l])
          PROVE  /\ req_link'[k].of <= req_link'[l].of
                 /\ LastData(req_link'[k]) \/ req_link'[l].ch = "AW" => req_link'[k].of < req_link'[l].of
      <4>1. /\ k + 1 \in DOMAIN req_link /\ req_link'[k] = req_link[k + 1] /\ k \in Nat
            /\ l + 1 \in DOMAIN req_link /\ req_link'[l] = req_link[l + 1] /\ l \in Nat
        BY <2>2
      <4>2. k + 1 < l + 1
        BY <3>1, <4>1
      <4> QED
        BY <3>1, <4>1, <4>2 DEF IInv, PacketsOnLink
    <3> QED
      BY <3>1
  <2>9. \A k \in DOMAIN req_link' :
           /\ req_link'[k].txn = req_link'[k].of
           /\ IsWriteFlit(req_link'[k]) => /\ Before({req_link'[k].of}, Offered(aw))
                                           /\ packet # 0 => req_link'[k].of <= packet
                                           /\ req_link'[k].of \in Pending'
           /\ LastData(req_link'[k]) => req_link'[k].of # packet
    <3>1. \A k \in DOMAIN req_link' : IsWriteFlit(req_link'[k]) => req_link'[k].of \notin Closed(take, flit)
      BY <2>7
    <3>2. \A k \in DOMAIN req_link' : k + 1 \in DOMAIN req_link /\ req_link'[k] = req_link[k + 1]
      BY <2>2
    <3>3. \A k \in DOMAIN req_link :
             /\ req_link[k].txn = req_link[k].of
             /\ IsWriteFlit(req_link[k]) => /\ Before({req_link[k].of}, Offered(aw))
                                            /\ packet # 0 => req_link[k].of <= packet
                                            /\ req_link[k].of \in Pending
             /\ LastData(req_link[k]) => req_link[k].of # packet
      BY DEF IInv, PacketsOnLink
    <3> QED
      BY <1>4, <3>1, <3>2, <3>3
  <2>10. \A t \in Pending' : t # packet => \E k \in DOMAIN req_link' : LastData(req_link'[k]) /\ req_link'[k].of = t
    <3>1. ASSUME NEW t \in Pending', t # packet
          PROVE  \E k \in DOMAIN req_link' : LastData(req_link'[k]) /\ req_link'[k].of = t
      <4>1. t \in Pending /\ t \notin Closed(take, flit)
        BY <1>4, <3>1
      <4>2. PICK j \in DOMAIN req_link : LastData(req_link[j]) /\ req_link[j].of = t
        BY <3>1, <4>1 DEF IInv, PacketsOnLink
      <4>3. j # 1
        BY <2>1, <2>4, <4>1, <4>2
      <4> QED
        BY <2>2, <4>2, <4>3
    <3> QED
      BY <3>1
  <2> QED
    BY <1>2, <1>3, <2>6, <2>8, <2>9, <2>10 DEF PacketsOnLink
<1> QED
  BY <1>5, <1>6

-----------------------------------------------------------------------------
(* The subordinate's end: the response enters its link *)

LEMMA ToComeType ==
    ASSUME IInv, NEW t \in DOMAIN txn, NEW ch
    PROVE  ToCome(t, ch) \in Nat
<1>1. txn[t].beats \in Nat
  <2>1. txn[t] \in Txns
    BY ElementOfSeq, LenProperties DEF IInv, Types
  <2> QED
    BY <2>1 DEF Txns
<1>2. t \in Numbers(reads) => reads[Entry(reads, t)].left \in Nat
  <2> SUFFICES ASSUME t \in Numbers(reads)
               PROVE  reads[Entry(reads, t)].left \in Nat
    OBVIOUS
  <2>1. PICK i \in DOMAIN reads : reads[i].txn = t
    BY DEF Numbers
  <2>2. Entry(reads, t) = i
    BY <2>1, ReadsDistinct
  <2>3. reads[i] \in ReadEntries
    BY ReadsTyped
  <2> QED
    BY <2>2, <2>3 DEF ReadEntries
<1> QED
  BY <1>1, <1>2 DEF ToCome

\* An answer is one that was to come.
LEMMA AnswerToCome ==
    ASSUME IInv, NEW answer \in Answers \cup {NoAnswer}, answer.ch \in RspChannels
    PROVE  /\ answer.of \in DOMAIN txn /\ header(answer) = answer.of /\ answer.last \in BOOLEAN
           /\ answer.of \in Nat /\ ToCome(answer.of, answer.ch) > 0
           /\ answer.ch = "B" => answer.of \in Numbers(writes) /\ ToCome(answer.of, "B") = 1
           /\ answer.ch = "R" => answer.of \in Numbers(reads) /\ (answer.last <=> ToCome(answer.of, "R") = 1)
           /\ \A t \in DOMAIN txn : Precedes(t, answer.of) => ToCome(t, answer.ch) = 0
<1>1. CASE answer.ch = "B"
  <2>1. PICK i : AnswersWrite(answer, i)
    BY <1>1, AnswerCases
  <2>2. /\ answer.of \in Numbers(writes) /\ answer.of \in DOMAIN txn /\ answer.of \in Nat
        /\ header(answer) = answer.of /\ answer.last \in BOOLEAN
        /\ \A t \in DOMAIN txn : Precedes(t, answer.of) => t \notin WriteNumbers
    <3>1. answer.last = TRUE
      BY <2>1 DEF AnswersWrite
    <3> QED
      BY <2>1, <3>1, AnswerOfWrite
  <2>3. ToCome(answer.of, "B") = 1
    BY <2>2 DEF ToCome, WriteNumbers
  <2>4. \A t \in DOMAIN txn : Precedes(t, answer.of) => ToCome(t, "B") = 0
    BY <2>2 DEF ToCome
  <2> QED
    BY <1>1, <2>2, <2>3, <2>4
<1>2. CASE answer.ch = "R"
  <2>1. PICK i : AnswersRead(answer, i)
    BY <1>2, AnswerCases
  <2>2. /\ i \in DOMAIN reads /\ answer.of = reads[i].txn
        /\ answer.of \in Numbers(reads) /\ answer.of \in DOMAIN txn /\ answer.of \in Nat
        /\ header(answer) = answer.of /\ answer.last \in BOOLEAN /\ (answer.last <=> reads[i].left = 1)
        /\ \A t \in DOMAIN txn : Precedes(t, answer.of) => ToCome(t, "R") = 0
    BY <2>1, AnswerOfRead
  <2>3. ToCome(answer.of, "R") = reads[i].left
    BY <2>2, ReadsDistinct, LeftAt
  <2>4. reads[i].left \in Nat \ {0}
    BY <2>2, ReadsTyped DEF ReadEntries
  <2> QED
    BY <1>2, <2>2, <2>3, <2>4
<1> QED
  BY <1>1, <1>2 DEF RspChannels

LEMMA ServeToCome ==
    ASSUME IInv, NEW ready, NEW answer, NEW flit, NEW take, ServeAs(ready, answer, flit, take),
           NEW t \in DOMAIN txn, NEW ch \in RspChannels
    PROVE  ToCome(t, ch)' = ToCome(t, ch) - (IF answer.ch = ch /\ answer.of = t THEN 1 ELSE 0)
<1>1. txn' = txn /\ answer \in Answers \cup {NoAnswer}
  BY ServeFacts DEF ServeAs
<1>2. HasR(t)' <=> HasR(t)
  BY <1>1, SamePredicates
<1>3. /\ Offered(aw)' = Offered(aw)
      /\ (Numbers(aw_out_queue) \cup LinkAw)' = Numbers(aw_out_queue) \cup LinkAw
      /\ WriteNumbers' = WriteNumbers \ GoneWrite(answer)
      /\ ReadNumbers' = ReadNumbers \ Entered("AR", take, flit)
      /\ Entered("AR", take, flit) \subseteq LinkAr
  BY ServePlaces
<1>4. ToCome(t, ch) \in Nat
  BY ToComeType
<1>5. answer.ch = "B" => answer.of \in Numbers(writes) /\ ToCome(answer.of, "B") = 1
  BY <1>1, AnswerToCome DEF RspChannels
<1>6. answer.ch = "R" => answer.of \in Numbers(reads) /\ (answer.last <=> ToCome(answer.of, "R") = 1)
  BY <1>1, AnswerToCome DEF RspChannels
<1>7. CASE ch = "B"
  <2>1. CASE answer.ch = "B" /\ answer.of = t
    <3>1. ToCome(t, "B") = 1 /\ t \in GoneWrite(answer)
      BY <1>5, <2>1 DEF GoneWrite
    <3>2. ToCome(t, "B")' = 0
      BY <1>3, <3>1 DEF ToCome
    <3> QED
      BY <1>7, <2>1, <3>1, <3>2
  <2>2. CASE ~(answer.ch = "B" /\ answer.of = t)
    <3>1. t \notin GoneWrite(answer)
      BY <2>2 DEF GoneWrite
    <3>2. ToCome(t, "B")' = ToCome(t, "B")
      BY <1>3, <3>1 DEF ToCome
    <3> QED
      BY <1>4, <1>7, <2>2, <3>2
  <2> QED
    BY <2>1, <2>2
<1>8. CASE ch = "R"
  <2>1. /\ reads' \in Seq(ReadEntries) /\ ReadOrder(reads')
        /\ Numbers(reads') = (Numbers(reads) \ GoneRead(answer)) \cup Entered("AR", take, flit)
        /\ \A k \in DOMAIN reads' :
              \/ \E j \in DOMAIN reads : BeatLess(reads'[k], reads[j], answer)
              \/ take /\ flit.ch = "AR" /\ reads'[k] = ReadOf(flit.txn)
    BY ServeReads
  <2>2. Distinct(reads') /\ DOMAIN reads' \subseteq Nat
    <3>1. DOMAIN reads' = 1 .. Len(reads') /\ Len(reads') \in Nat
      BY <2>1, LenProperties
    <3> QED
      BY <2>1, <3>1 DEF Distinct, ReadOrder
  <2>3. \A k \in DOMAIN reads' : Entry(reads', reads'[k].txn) = k
    BY <2>2, EntryFound
  <2>4. Entered("AR", take, flit) \cap Numbers(reads) = {} /\ \A x \in Entered("AR", take, flit) : HasR(x)
    BY EnteredKnown DEF Entered
  <2>5. CASE t \in Numbers(reads) /\ t \notin GoneRead(answer)
    <3>1. t \in Numbers(reads')
      BY <2>1, <2>5
    <3>2. PICK k \in DOMAIN reads' : reads'[k].txn = t
      BY <3>1 DEF Numbers
    <3>3. ~(take /\ flit.ch = "AR" /\ reads'[k] = ReadOf(flit.txn))
      BY <2>4, <2>5, <3>2 DEF Entered, ReadOf
    <3>4. PICK j \in DOMAIN reads : BeatLess(reads'[k], reads[j], answer)
      BY <2>1, <3>3
    <3>5. reads[j].txn = t /\ reads'[k].left = reads[j].left - (IF answer.ch = "R" /\ answer.of = t THEN 1 ELSE 0)
      BY <3>2, <3>4 DEF BeatLess
    <3>6. ToCome(t, "R") = reads[j].left
      BY <3>5, ReadsDistinct, LeftAt
    <3>7. reads'[Entry(reads', t)].left = reads'[k].left
      BY <2>3, <3>2
    <3>8. ToCome(t, "R")' = reads'[k].left
      BY <3>1, <3>7 DEF ToCome
    <3> QED
      BY <1>8, <3>5, <3>6, <3>8
  <2>6. CASE t \in Numbers(reads) /\ t \in GoneRead(answer)
    <3>1. answer.ch = "R" /\ answer.last /\ answer.of = t
      BY <2>6 DEF GoneRead
    <3>2. ToCome(t, "R") = 1
      BY <1>6, <3>1
    <3>3. t \notin Numbers(reads')
      BY <2>1, <2>4, <2>6
    <3>4. t \notin Numbers(aw_out_queue) \cup LinkAw \cup Offered(aw) \cup ReadNumbers
      BY <2>6, ReadPlaces
    <3>5. t \notin (Numbers(aw_out_queue) \cup LinkAw \cup Offered(aw) \cup ReadNumbers)'
      BY <1>3, <3>4
    <3>6. ToCome(t, "R")' = 0
      BY <3>3, <3>5 DEF ToCome
    <3> QED
      BY <1>8, <3>1, <3>2, <3>6
  <2>7. CASE t \notin Numbers(reads)
    <3>1. ~(answer.ch = "R" /\ answer.of = t)
      BY <1>6, <2>7
    <3>2. CASE t \in Entered("AR", take, flit)
      <4>1. t \in Numbers(reads') /\ t = flit.txn
        BY <2>1, <3>2 DEF Entered
      <4>2. PICK k \in DOMAIN reads' : reads'[k].txn = t
        BY <4>1 DEF Numbers
      <4>3. \A j \in DOMAIN reads : reads[j].txn # t
        BY <2>7 DEF Numbers
      <4>4. reads'[k] = ReadOf(t)
        BY <2>1, <4>1, <4>2, <4>3 DEF BeatLess
      <4>5. reads'[Entry(reads', t)].left = txn[t].beats
        BY <2>3, <4>2, <4>4 DEF ReadOf
      <4>6. ToCome(t, "R")' = txn[t].beats
        BY <4>1, <4>5 DEF ToCome
      <4>7. ToCome(t, "R") = txn[t].beats
        BY <1>3, <2>4, <2>7, <3>2 DEF ToCome, ReadNumbers
      <4> QED
        BY <1>4, <1>8, <3>1, <4>6, <4>7
    <3>3. CASE t \notin Entered("AR", take, flit)
      <4>1. t \notin Numbers(reads')
        BY <2>1, <2>7, <3>3
      <4>2. t \in (Numbers(aw_out_queue) \cup LinkAw \cup Offered(aw) \cup ReadNumbers)'
               <=> t \in Numbers(aw_out_queue) \cup LinkAw \cup Offered(aw) \cup ReadNumbers
        BY <1>3, <3>3
      <4>3. ToCome(t, "R")' = ToCome(t, "R")
        BY <1>1, <1>2, <2>7, <4>1, <4>2 DEF ToCome
      <4> QED
        BY <1>4, <1>8, <3>1, <4>3
    <3> QED
      BY <3>2, <3>3
  <2> QED
    BY <2>5, <2>6, <2>7
<1> QED
  BY <1>7, <1>8 DEF RspChannels

\* The response link after the cycle.
LEMMA ServeRsp ==
    ASSUME IInv, NEW ready, NEW answer, NEW flit, NEW take, ServeAs(ready, answer, flit, take)
    PROVE  \/ /\ rsp_link' = rsp_link /\ answer.ch \notin RspChannels
           \/ /\ answer.ch \in RspChannels
              /\ \E f \in RspFlits : /\ rsp_link' = Append(rsp_link, f)
                                     /\ f.ch = answer.ch /\ f.txn = answer.of /\ f.of = answer.of
<1>1. answer \in Answers \cup {NoAnswer}
  BY DEF ServeAs
<1>2. rsp_link' = (IF answer = NoAnswer THEN rsp_link
                   ELSE Append(rsp_link, [ch |-> answer.ch, txn |-> header(answer),
                                          of |-> answer.of, last |-> answer.last]))
  BY ServeRspLink
<1>3. \/ answer = NoAnswer /\ answer.ch = "none"
      \/ answer.ch \in RspChannels
  BY <1>1, AnswerCases DEF RspChannels
<1>4. CASE answer = NoAnswer /\ answer.ch = "none"
  BY <1>2, <1>4 DEF RspChannels
<1>5. CASE answer.ch \in RspChannels
  <2> DEFINE f == [ch |-> answer.ch, txn |-> header(answer), of |-> answer.of, last |-> answer.last]
  <2>1. answer.of \in Nat /\ header(answer) = answer.of /\ answer.last \in BOOLEAN
    BY <1>1, <1>5, AnswerToCome
  <2>2. f \in RspFlits /\ f.ch = answer.ch /\ f.txn = answer.of /\ f.of = answer.of
    BY <1>5, <2>1 DEF RspFlits
  <2>3. answer # NoAnswer
    BY <1>5 DEF NoAnswer, RspChannels
  <2> QED
    BY <1>2, <1>5, <2>2, <2>3
<1> QED
  BY <1>3, <1>4, <1>5

LEMMA ServeResponses ==
    ASSUME IInv, NEW ready, NEW answer, NEW flit, NEW take, ServeAs(ready, answer, flit, take)
    PROVE  Accounted' /\ ResponsesInOrder'
<1> DEFINE For(t, ch) == answer.ch = ch /\ answer.of = t
<1>1. txn' = txn /\ got' = got /\ rob' = rob /\ answer \in Answers \cup {NoAnswer}
  BY ServeFacts DEF ServeAs, returns
<1>2. \A t, ch : Kept(t, ch)' <=> Kept(t, ch)
  BY <1>1 DEF Kept
<1>3. \A t, ch : Owed(t, ch)' = Owed(t, ch)
  BY <1>1, SamePredicates DEF Owed
<1>4. \A t, u : Precedes(t, u)' <=> Precedes(t, u)
  BY <1>1, SamePredicates DEF Precedes
<1>5. \A t \in DOMAIN txn, ch \in RspChannels :
         ToCome(t, ch) \in Nat /\ ToCome(t, ch)' = ToCome(t, ch) - (IF For(t, ch) THEN 1 ELSE 0)
  BY ServeToCome, ToComeType
<1>6. \A t \in DOMAIN txn, ch \in RspChannels : For(t, ch) => ToCome(t, ch) > 0
  BY <1>1, AnswerToCome
<1>7. ASSUME NEW t, NEW ch \in RspChannels
      PROVE  /\ Cardinality(OnLink(t, ch)') = Cardinality(OnLink(t, ch)) + (IF For(t, ch) THEN 1 ELSE 0)
             /\ OnLink(t, ch)' = OnLink(t, ch) \cup (IF For(t, ch) THEN {Len(rsp_link) + 1} ELSE {})
             /\ \A k \in OnLink(t, ch) : k < Len(rsp_link) + 1
  <2>1. CASE rsp_link' = rsp_link /\ answer.ch \notin RspChannels
    <3>1. OnLink(t, ch)' = OnLink(t, ch) /\ ~For(t, ch)
      BY <2>1 DEF OnLink, RspFor
    <3>2. Cardinality(OnLink(t, ch)) \in Nat
      BY OnLinkFinite
    <3>3. \A k \in OnLink(t, ch) : k < Len(rsp_link) + 1
      <4>1. DOMAIN rsp_link = 1 .. Len(rsp_link) /\ Len(rsp_link) \in Nat
        BY LenProperties DEF IInv, Types
      <4> QED
        BY <4>1 DEF OnLink
    <3> QED
      BY <3>1, <3>2, <3>3
  <2>2. ASSUME NEW f \in RspFlits, rsp_link' = Append(rsp_link, f), f.ch = answer.ch, f.txn = answer.of
        PROVE  /\ Cardinality(OnLink(t, ch)') = Cardinality(OnLink(t, ch)) + (IF For(t, ch) THEN 1 ELSE 0)
               /\ OnLink(t, ch)' = OnLink(t, ch) \cup (IF For(t, ch) THEN {Len(rsp_link) + 1} ELSE {})
               /\ \A k \in OnLink(t, ch) : k < Len(rsp_link) + 1
    <3>1. /\ Cardinality(OnLink(t, ch)') = Cardinality(OnLink(t, ch)) + (IF f.ch = ch /\ f.txn = t THEN 1 ELSE 0)
          /\ OnLink(t, ch)' = OnLink(t, ch) \cup (IF f.ch = ch /\ f.txn = t THEN {Len(rsp_link) + 1} ELSE {})
          /\ \A k \in OnLink(t, ch) : k < Len(rsp_link) + 1
      BY <2>2, ResponseEnters
    <3> QED
      BY <2>2, <3>1
  <2> QED
    BY <2>1, <2>2, ServeRsp
<1> HIDE DEF For
<1>8. Accounted'
  <2> SUFFICES ASSUME NEW t \in DOMAIN txn, NEW ch \in RspChannels
               PROVE  got[t][ch] + (IF Kept(t, ch) THEN 1 ELSE 0) + Cardinality(OnLink(t, ch)') + ToCome(t, ch)'
                         = Owed(t, ch)
    BY <1>1, <1>2, <1>3 DEF Accounted
  <2>1. got[t][ch] + (IF Kept(t, ch) THEN 1 ELSE 0) + Cardinality(OnLink(t, ch)) + ToCome(t, ch) = Owed(t, ch)
    BY DEF IInv, Accounted
  <2>2. got[t][ch] \in Nat
    <3>1. t \in DOMAIN got /\ got \in Seq([RspChannels -> Nat])
      BY LenProperties DEF IInv, Types
    <3>2. got[t] \in [RspChannels -> Nat]
      BY <3>1, ElementOfSeq, LenProperties
    <3> QED
      BY <3>2
  <2>3. Cardinality(OnLink(t, ch)) \in Nat
    BY OnLinkFinite
  <2>4. Cardinality(OnLink(t, ch)') = Cardinality(OnLink(t, ch)) + (IF For(t, ch) THEN 1 ELSE 0)
    BY <1>7
  <2>5. ToCome(t, ch) \in Nat /\ ToCome(t, ch)' = ToCome(t, ch) - (IF For(t, ch) THEN 1 ELSE 0)
    BY <1>5
  <2> QED
    BY <2>1, <2>2, <2>3, <2>4, <2>5
<1>9. ResponsesInOrder'
  <2> SUFFICES ASSUME NEW t \in DOMAIN txn, NEW u \in DOMAIN txn, NEW ch \in RspChannels, Precedes(t, u)
               PROVE  /\ got[u][ch] > 0 => ~Kept(t, ch) /\ OnLink(t, ch)' = {} /\ ToCome(t, ch)' = 0
                      /\ Kept(u, ch) => OnLink(t, ch)' = {} /\ ToCome(t, ch)' = 0
                      /\ \A k \in OnLink(u, ch)' : ToCome(t, ch)' = 0 /\ \A l \in OnLink(t, ch)' : l < k
    BY <1>1, <1>2, <1>4 DEF ResponsesInOrder
  <2>1. /\ got[u][ch] > 0 => ~Kept(t, ch) /\ OnLink(t, ch) = {} /\ ToCome(t, ch) = 0
        /\ Kept(u, ch) => OnLink(t, ch) = {} /\ ToCome(t, ch) = 0
        /\ \A k \in OnLink(u, ch) : ToCome(t, ch) = 0 /\ \A l \in OnLink(t, ch) : l < k
    BY DEF IInv, ResponsesInOrder
  <2>2. ASSUME ToCome(t, ch) = 0 PROVE OnLink(t, ch)' = OnLink(t, ch) /\ ToCome(t, ch)' = 0
    <3>1. ~For(t, ch)
      BY <1>6, <2>2
    <3>2. OnLink(t, ch)' = OnLink(t, ch) \cup (IF For(t, ch) THEN {Len(rsp_link) + 1} ELSE {})
      BY <1>7
    <3>3. ToCome(t, ch)' = ToCome(t, ch) - (IF For(t, ch) THEN 1 ELSE 0)
      BY <1>5
    <3>4. OnLink(t, ch)' = OnLink(t, ch)
      BY <3>1, <3>2
    <3>5. ToCome(t, ch)' = ToCome(t, ch) - 0
      BY <3>1, <3>3, Zenon
    <3>6. ToCome(t, ch)' = 0
      BY <2>2, <3>5
    <3> QED
      BY <3>4, <3>6
  <2>3. ASSUME NEW k \in OnLink(u, ch)'
        PROVE  ToCome(t, ch)' = 0 /\ \A l \in OnLink(t, ch)' : l < k
    <3>1. CASE k \in OnLink(u, ch)
      BY <2>1, <2>2, <3>1
    <3>2. CASE For(u, ch) /\ k = Len(rsp_link) + 1
      <4>1. ToCome(t, ch) = 0
        BY <1>1, <3>2, AnswerToCome DEF For
      <4>2. \A l \in OnLink(t, ch) : l < Len(rsp_link) + 1
        BY <1>7
      <4> QED
        BY <2>2, <3>2, <4>1, <4>2
    <3>3. OnLink(u, ch)' = OnLink(u, ch) \cup (IF For(u, ch) THEN {Len(rsp_link) + 1} ELSE {})
      BY <1>7
    <3> QED
      BY <2>3, <3>1, <3>2, <3>3
  <2> QED
    BY <2>1, <2>2, <2>3
<1> QED
  BY <1>8, <1>9

LEMMA ServeHead ==
    ASSUME IInv, NEW ready, NEW answer, NEW flit, NEW take, ServeAs(ready, answer, flit, take)
    PROVE  /\ HeadersFound' /\ WaitingRight' /\ rsp_link' \in Seq(RspFlits)
           /\ \A k \in DOMAIN rsp_link' : rsp_link'[k].txn \in DOMAIN txn
<1>1. /\ txn' = txn /\ rob' = rob /\ rob_pending_q' = rob_pending_q /\ answer \in Answers \cup {NoAnswer}
  BY ServeFacts DEF ServeAs, returns
<1>2. /\ rsp_link \in Seq(RspFlits) /\ Len(rsp_link) \in Nat /\ DOMAIN rsp_link = 1 .. Len(rsp_link)
      /\ \A k \in DOMAIN rsp_link : rsp_link[k].txn \in DOMAIN txn /\ rsp_link[k].txn = rsp_link[k].of
  BY LenProperties DEF IInv, Types, Known, HeadersFound
<1>3. CASE rsp_link' = rsp_link
  BY <1>1, <1>2, <1>3 DEF IInv, HeadersFound, WaitingRight, valid_in, is_atop_rsp_in, is_atop, rsp, AtHead
<1>4. CASE rsp_link' # rsp_link
  <2>1. PICK f \in RspFlits : /\ rsp_link' = Append(rsp_link, f) /\ answer.ch \in RspChannels
                              /\ f.ch = answer.ch /\ f.txn = answer.of /\ f.of = answer.of
    BY <1>4, ServeRsp
  <2>2. f.txn \in DOMAIN txn /\ f.txn = f.of
    BY <1>1, <2>1, AnswerToCome
  <2>3. /\ rsp_link' \in Seq(RspFlits) /\ Len(rsp_link') = Len(rsp_link) + 1
        /\ \A k \in 1 .. Len(rsp_link) : rsp_link'[k] = rsp_link[k]
        /\ rsp_link'[Len(rsp_link) + 1] = f
    BY <1>2, <2>1, AppendProperties
  <2>4. DOMAIN rsp_link' = 1 .. Len(rsp_link) + 1
    BY <2>3, LenProperties
  <2>5. \A k \in DOMAIN rsp_link' : k \in DOMAIN rsp_link \/ k = Len(rsp_link) + 1
    BY <1>2, <2>4
  <2>6. \A k \in DOMAIN rsp_link' : rsp_link'[k].txn \in DOMAIN txn /\ rsp_link'[k].txn = rsp_link'[k].of
    BY <1>2, <2>2, <2>3, <2>5
  <2>7. ASSUME NEW ch \in rob_pending_q, rob[ch] = NoFlit
        PROVE  rsp' = rsp
    <3>1. valid_in(ch) /\ ch \in RspChannels
      BY <2>7 DEF IInv, WaitingRight, Types
    <3>2. rsp_link # <<>>
      BY <3>1 DEF valid_in, rsp, AtHead, NoFlit, RspChannels
    <3>3. Len(rsp_link) >= 1
      BY <1>2, <3>2, EmptySeq
    <3>4. rsp_link'[1] = rsp_link[1] /\ rsp_link' # <<>>
      <4>1. 1 \in 1 .. Len(rsp_link) /\ Len(rsp_link') # 0
        BY <1>2, <2>3, <3>3
      <4> QED
        BY <2>3, <4>1, EmptySeq
    <3>5. rsp = rsp_link[1]
      BY <1>2, <3>2, HeadTailProperties DEF rsp, AtHead
    <3>6. rsp' = rsp_link'[1]
      BY <2>3, <3>4, HeadTailProperties DEF rsp, AtHead
    <3> QED
      BY <3>4, <3>5, <3>6
  <2>8. WaitingRight'
    <3> SUFFICES ASSUME NEW ch \in rob_pending_q, rob[ch] = NoFlit
                 PROVE  (valid_in(ch) /\ ~is_atop_rsp_in(ch))'
      BY <1>1 DEF WaitingRight
    <3>1. valid_in(ch) /\ ~is_atop_rsp_in(ch)
      BY DEF IInv, WaitingRight
    <3>2. rsp' = rsp
      BY <2>7
    <3> QED
      BY <1>1, <3>1, <3>2 DEF valid_in, is_atop_rsp_in, is_atop
  <2> QED
    BY <2>3, <2>6, <2>8 DEF HeadersFound
<1> QED
  BY <1>3, <1>4

\* What the spill register is offered is a header.
LEMMA ServeOffer ==
    ASSUME IInv, NEW ready, NEW answer, NEW flit, NEW take, ServeAs(ready, answer, flit, take)
    PROVE  aw_offer' \in Headers
<1>1. /\ aw_offer' = (IF aw_valid(flit, answer) /\ ~take
                      THEN HeaderOf(aw_id(flit, answer), flit.txn) ELSE NoOffer)
      /\ flit = AtHead(req_link)
  BY DEF ServeAs, Serve, MetaCycle, HeaderOf
<1>2. ASSUME aw_valid(flit, answer) PROVE HeaderOf(aw_id(flit, answer), flit.txn) \in Headers
  <2>1. flit.ch = "AW" /\ (is_atop(flit.txn) => available_atop_ids(answer) # {})
    BY <1>2 DEF aw_valid
  <2>2. flit.txn \in LinkAw /\ flit.txn \in Nat
    BY <1>1, <2>1, FlitKnown
  <2>3. flit.txn \in DOMAIN txn
    BY <2>2 DEF IInv, Known, WriteNumbers
  <2>4. is_atop(flit.txn) => atop_req_id(answer) \in Nat
    BY <2>1, FreeId DEF AtopIds
  <2>5. no_atop_req_id(flit.txn) \in Nat
    BY <2>3, NonAtomicIds
  <2> QED
    BY <2>2, <2>4, <2>5 DEF Headers, HeaderOf, aw_id
<1> QED
  BY <1>1, <1>2 DEF Headers, NoOffer

LEMMA ServeTypes ==
    ASSUME IInv, NEW ready, NEW answer, NEW flit, NEW take, ServeAs(ready, answer, flit, take)
    PROVE  Types'
<1>1. UNCHANGED <<txn, chimney, returns>>
  BY ServeFacts
<1>2. /\ txn' = txn /\ got' = got /\ aw' = aw /\ ar' = ar /\ packet' = packet /\ axi_aw_id_q' = axi_aw_id_q
      /\ w' = w /\ aw_w_sel_q' = aw_w_sel_q /\ req_arb' = req_arb /\ rob' = rob /\ rob_pending_q' = rob_pending_q
  BY <1>1 DEF chimney, returns
<1>3. aw_queue' \in Seq(Headers)
  BY ServeAwQueue
<1>4. ar_queue' \in Seq(Headers)
  BY ServeArQueue
<1>5. aw_out_queue' \in Seq(Headers)
  BY ServeOut
<1>6. req_link' \in Seq(ReqFlits)
  BY ServeLink
<1>7. writes' \in Seq(Headers)
  BY ServeWrites
<1>8. reads' \in Seq(ReadEntries)
  BY ServeReads
<1>9. aw_atop' \in [AtopIds -> Nat] /\ ar_atop' \in [AtopIds -> Nat]
  BY ServeRegistersAt
<1>10. rsp_link' \in Seq(RspFlits)
  BY ServeHead
<1>11. lzc_cnt_q' \in AtopIds
  <2>1. lzc_cnt_q' = IF atop_req_pending_q THEN lzc_cnt_q ELSE lzc_cnt_d(answer)
    BY ServeIds
  <2>2. lzc_cnt_d(answer) \in AtopIds
    BY FreeId
  <2> QED
    BY <2>1, <2>2 DEF IInv, Types
<1>12. atop_req_pending_q' \in BOOLEAN
  BY ServeIds
<1>13. data_done' \subseteq Nat
  <2>1. Closed(take, flit) \subseteq Nat
    BY TakenFlit DEF Closed
  <2>2. data_done' = (data_done \cup Closed(take, flit)) \ GoneWrite(answer)
    BY ServeData
  <2> QED
    BY <2>1, <2>2 DEF IInv, Types
<1>14. aw_offer' \in Headers
  BY ServeOffer
<1> QED
  BY <1>2, <1>3, <1>4, <1>5, <1>6, <1>7, <1>8, <1>9, <1>10, <1>11, <1>12, <1>13, <1>14
     DEF IInv, Types, ReadEntries

LEMMA ServeKnown ==
    ASSUME IInv, NEW ready, NEW answer, NEW flit, NEW take, ServeAs(ready, answer, flit, take)
    PROVE  Known'
<1>1. txn' = txn /\ rob' = rob
  BY ServeFacts DEF returns
<1>2. \A t : (is_atop(t)' <=> is_atop(t)) /\ (HasR(t)' <=> HasR(t)) /\ (HasB(t)' <=> HasB(t))
  BY <1>1, SamePredicates
<1>3. /\ WriteNumbers' = WriteNumbers \ GoneWrite(answer)
      /\ ReadNumbers' = ReadNumbers \ Entered("AR", take, flit)
  BY ServePlaces
<1>4. Numbers(reads') = (Numbers(reads) \ GoneRead(answer)) \cup Entered("AR", take, flit)
  BY ServeReads
<1>5. \A t \in Entered("AR", take, flit) : t \in DOMAIN txn /\ HasR(t)
  BY EnteredKnown DEF Entered
<1>6. \A k \in DOMAIN rsp_link' : rsp_link'[k].txn \in DOMAIN txn
  BY ServeHead
<1>7. \A t \in WriteNumbers' : t \in DOMAIN txn /\ HasB(t)
  BY <1>3 DEF IInv, Known
<1>8. \A t \in ReadNumbers' : t \in DOMAIN txn /\ txn[t].kind = "read"
  BY <1>3 DEF IInv, Known
<1>9. \A t \in Numbers(reads') : t \in DOMAIN txn /\ HasR(t)
  BY <1>4, <1>5 DEF IInv, Known
<1>10. \A ch \in RspChannels : rob[ch] # NoFlit => rob[ch].txn \in DOMAIN txn /\ ~is_atop(rob[ch].txn)
  BY DEF IInv, Known
<1> QED
  BY <1>1, <1>2, <1>6, <1>7, <1>8, <1>9, <1>10 DEF Known

LEMMA ServeStep ==
    ASSUME IInv, NEW ready \in BOOLEAN, NEW answer \in Answers \cup {NoAnswer}, Serve(ready, answer)
    PROVE  IInv'
<1> SUFFICES ASSUME NEW flit, NEW take, ServeAs(ready, answer, flit, take)
             PROVE  IInv'
  <2>1. ServeAs(ready, answer, AtHead(req_link), IF taken(AtHead(req_link), ready, answer) THEN TRUE ELSE FALSE)
    BY DEF ServeAs
  <2> QED
    BY <2>1
<1>1. Types'
  BY ServeTypes
<1>2. Known'
  BY ServeKnown
<1>3. WritesInOrder' /\ ReadsInOrder'
  BY ServeOrder
<1>4. IdsRight'
  BY ServeIdsRight
<1>5. QueuesRight'
  BY ServeQueues
<1>6. DataRight' /\ PacketRight' /\ PacketsOnLink'
  BY ServePlaces, ServePackets
<1>7. HeadersFound' /\ WaitingRight'
  BY ServeHead
<1>8. Accounted' /\ ResponsesInOrder'
  BY ServeResponses
<1> QED
  BY <1>1, <1>2, <1>3, <1>4, <1>5, <1>6, <1>7, <1>8 DEF IInv

-----------------------------------------------------------------------------
(* The theorems *)

LEMMA StutterStep ==
    ASSUME IInv, UNCHANGED vars
    PROVE  IInv'
<1>1. UNCHANGED <<txn, meta>> /\ UNCHANGED <<chimney, links, returns>>
  BY DEF vars
<1>2. /\ txn' = txn /\ got' = got /\ rob' = rob /\ rob_pending_q' = rob_pending_q
      /\ aw' = aw /\ ar' = ar /\ w' = w /\ aw_w_sel_q' = aw_w_sel_q /\ axi_aw_id_q' = axi_aw_id_q
      /\ req_arb' = req_arb /\ packet' = packet /\ req_link' = req_link /\ rsp_link' = rsp_link
  BY <1>1 DEF chimney, links, returns
<1>3. /\ aw_queue' = aw_queue /\ ar_queue' = ar_queue
      /\ aw_atop' = aw_atop /\ ar_atop' = ar_atop /\ lzc_cnt_q' = lzc_cnt_q
      /\ atop_req_pending_q' = atop_req_pending_q /\ aw_out_queue' = aw_out_queue
      /\ writes' = writes /\ reads' = reads /\ data_done' = data_done /\ aw_offer' = aw_offer
  BY <1>1 DEF meta
<1>4. IdsRight' /\ QueuesRight' /\ DataRight' /\ data_done' = data_done
  BY <1>1, MetaStays
<1>5. LinkAw' = LinkAw /\ LinkAr' = LinkAr /\ Offered(aw)' = Offered(aw) /\ Offered(ar)' = Offered(ar)
  BY <1>2 DEF LinkAw, LinkAr, Offered
<1>6. WriteNumbers' = WriteNumbers /\ ReadNumbers' = ReadNumbers /\ Pending' = Pending
  BY <1>3, <1>5 DEF WriteNumbers, ReadNumbers, Pending
<1>7. PacketRight' /\ PacketsOnLink'
  BY <1>1, <1>2, <1>6, PacketsStay
<1>8. Types'
  BY <1>2, <1>3 DEF IInv, Types
<1>9. Known'
  BY <1>2, <1>3, <1>6 DEF IInv, Known, HasB, HasR, is_atop
<1>10. WritesInOrder'
  BY <1>2, <1>3, <1>5 DEF IInv, WritesInOrder
<1>11. ReadsInOrder'
  BY <1>2, <1>3, <1>5, <1>6 DEF IInv, ReadsInOrder, is_atop
<1>12. HeadersFound' /\ WaitingRight'
  BY <1>2 DEF IInv, HeadersFound, WaitingRight, valid_in, is_atop_rsp_in, is_atop, rsp, AtHead
<1>13. Accounted' /\ ResponsesInOrder'
  <2>1. (Numbers(aw_out_queue) \cup LinkAw \cup Offered(aw) \cup ReadNumbers)'
           = Numbers(aw_out_queue) \cup LinkAw \cup Offered(aw) \cup ReadNumbers
    BY <1>3, <1>5, <1>6
  <2>2. \A t \in DOMAIN txn, ch \in RspChannels : ToCome(t, ch)' = ToCome(t, ch)
    BY <1>2, <1>3, <1>6, <2>1, ToComeStays
  <2> QED
    BY <1>2, <2>2, ResponsesStay
<1> QED
  BY <1>4, <1>7, <1>8, <1>9, <1>10, <1>11, <1>12, <1>13 DEF IInv

LEMMA NextStep ==
    ASSUME IInv, [Next]_vars
    PROVE  IInv'
<1>1. ASSUME NEW r \in Requests, Issue(r) PROVE IInv'
  BY <1>1, IssueStep
<1>2. ASSUME NEW ready \in BOOLEAN, NEW answer \in Answers \cup {NoAnswer}, Serve(ready, answer) PROVE IInv'
  BY <1>2, ServeStep
<1>3. ASSUME NEW ready \in SUBSET RspChannels, NEW store \in BOOLEAN, Return(ready, store) PROVE IInv'
  BY <1>3, ReturnStep
<1>4. CASE SendAr \/ SendAw \/ SendW
  BY <1>4, SendArStep, SendAwStep, SendWStep
<1>5. CASE Accept
  BY <1>5, AcceptStep
<1>6. CASE UNCHANGED vars
  BY <1>6, StutterStep
<1> QED
  BY <1>1, <1>2, <1>3, <1>4, <1>5, <1>6 DEF Next

\* The network interfaces keep the inductive invariant: requests keep their order
\* on the way to the subordinate, the queues and registers of the meta buffer
\* hold the headers of exactly what is outstanding, and every response is
\* accounted for between the subordinate and the manager.
THEOREM Invariance == Spec => []IInv
<1>1. Init => IInv
  BY InitIInv
<1>2. IInv /\ [Next]_vars => IInv'
  BY NextStep
<1> QED
  BY <1>1, <1>2, PTL DEF Spec

\* Every response carries the header of the request that it answers, no more are
\* given than asked for, and those of one identifier come in order, for links of
\* any depth, any numbers of identifiers and headers, with and without a buffer.
THEOREM ResponsesReturn == Spec => []AnswersReturn
<1>1. ASSUME IInv PROVE AnswersReturn
  <2>1. \A i \in DOMAIN rsp_link : rsp_link[i].txn = rsp_link[i].of
    BY <1>1 DEF IInv, HeadersFound
  <2>2. ASSUME NEW t \in DOMAIN txn, NEW ch \in RspChannels
        PROVE  /\ got[t][ch] \in Nat /\ Cardinality(OnLink(t, ch)) \in Nat /\ ToCome(t, ch) \in Nat
               /\ got[t][ch] + (IF Kept(t, ch) THEN 1 ELSE 0) + Cardinality(OnLink(t, ch)) + ToCome(t, ch)
                     = Owed(t, ch)
    <3>1. t \in DOMAIN got /\ got \in Seq([RspChannels -> Nat])
      BY <1>1, LenProperties DEF IInv, Types
    <3>2. got[t] \in [RspChannels -> Nat]
      BY <3>1, ElementOfSeq, LenProperties
    <3>3. got[t][ch] \in Nat
      BY <3>2
    <3>4. Cardinality(OnLink(t, ch)) \in Nat
      BY <1>1, OnLinkFinite
    <3>5. ToCome(t, ch) \in Nat
      BY <1>1, ToComeType
    <3> QED
      BY <1>1, <3>3, <3>4, <3>5 DEF IInv, Accounted
  <2>3. \A t \in DOMAIN txn, ch \in RspChannels : got[t][ch] <= Owed(t, ch)
    <3>1. ASSUME NEW t \in DOMAIN txn, NEW ch \in RspChannels PROVE got[t][ch] <= Owed(t, ch)
      BY <2>2
    <3> QED
      BY <3>1
  <2>4. ASSUME NEW t \in DOMAIN txn, NEW u \in DOMAIN txn, NEW ch \in RspChannels,
               t < u, txn[t].id = txn[u].id, ~is_atop(t), ~is_atop(u), got[u][ch] > 0
        PROVE  got[t][ch] = Owed(t, ch)
    <3>1. Precedes(t, u)
      BY <2>4 DEF Precedes
    <3>2. ~Kept(t, ch) /\ OnLink(t, ch) = {} /\ ToCome(t, ch) = 0
      BY <1>1, <2>4, <3>1 DEF IInv, ResponsesInOrder
    <3>3. Cardinality(OnLink(t, ch)) = 0
      BY <3>2, FS_EmptySet
    <3>4. got[t][ch] \in Nat /\ got[t][ch] + (IF Kept(t, ch) THEN 1 ELSE 0) + Cardinality(OnLink(t, ch)) + ToCome(t, ch)
                                = Owed(t, ch)
      BY <2>2
    <3>5. (IF Kept(t, ch) THEN 1 ELSE 0) = 0
      BY <3>2
    <3>6. got[t][ch] + 0 + 0 + 0 = Owed(t, ch)
      BY <3>2, <3>3, <3>4, <3>5, Zenon
    <3> QED
      BY <3>4, <3>6
  <2> QED
    BY <2>1, <2>3, <2>4 DEF AnswersReturn
<1> QED
  BY <1>1, Invariance, PTL

\* An atomic has an identifier that nothing else at the subordinate's port has.
THEOREM AtomicsAlone == Spec => []AtomicIdsUnique
<1>1. ASSUME IInv PROVE AtomicIdsUnique
  <2> DEFINE InAw(e) == e.id \in AtopIds /\ aw_atop[e.id] = e.txn
             InAr(e) == e.id \in AtopIds /\ ar_atop[e.id] = e.txn
  <2>1. ASSUME NEW e \in AtPort
        PROVE  /\ e.txn \in DOMAIN txn
               /\ is_atop(e.txn) => InAw(e) \/ InAr(e)
               /\ ~is_atop(e.txn) => e.id = no_atop_req_id(e.txn)
    <3>1. CASE e \in ToSet(aw_out_queue)
      <4>1. PICK i \in DOMAIN aw_out_queue : e = aw_out_queue[i]
        BY <3>1 DEF ToSet
      <4>2. e.txn \in WriteNumbers
        BY <4>1 DEF WriteNumbers, Numbers
      <4> QED
        BY <1>1, <4>1, <4>2 DEF IInv, Known, IdsRight, InRegister, OwnId
    <3>2. CASE e \in ToSet(writes)
      <4>1. PICK i \in DOMAIN writes : e = writes[i]
        BY <3>2 DEF ToSet
      <4>2. e.txn \in WriteNumbers
        BY <4>1 DEF WriteNumbers, Numbers
      <4> QED
        BY <1>1, <4>1, <4>2 DEF IInv, Known, IdsRight, InRegister, OwnId
    <3>3. CASE e \in ToSet(reads)
      <4>1. PICK i \in DOMAIN reads : e = reads[i]
        BY <3>3 DEF ToSet
      <4>2. e.txn \in Numbers(reads)
        BY <4>1 DEF Numbers
      <4> QED
        BY <1>1, <4>1, <4>2 DEF IInv, Known, IdsRight, InRegister, OwnId
    <3> QED
      BY <3>1, <3>2, <3>3 DEF AtPort
  <2>2. \A t \in DOMAIN txn : t \in Nat /\ t # 0
    BY <1>1, LenProperties DEF IInv, Types
  <2>3. \A i \in AtopIds : aw_atop[i] # 0 /\ ar_atop[i] # 0 => aw_atop[i] = ar_atop[i]
    BY <1>1 DEF IInv, IdsRight
  <2>4. ASSUME NEW e \in AtPort, NEW f \in AtPort, e.txn # f.txn, is_atop(e.txn), e.id = f.id
        PROVE  FALSE
    <3>1. CASE is_atop(f.txn)
      BY <2>1, <2>2, <2>3, <2>4, <3>1
    <3>2. CASE ~is_atop(f.txn)
      <4>1. f.id \in Nat /\ f.id >= MaxAtomicTxns
        BY <1>1, <2>1, <3>2, NonAtomicIds
      <4>2. e.id \in AtopIds
        BY <2>1, <2>4
      <4> QED
        BY <2>4, <4>1, <4>2, MetaBufferAssumption DEF AtopIds
    <3> QED
      BY <3>1, <3>2
  <2> QED
    BY <2>4 DEF AtomicIdsUnique
<1> QED
  BY <1>1, Invariance, PTL

\* A step of the interfaces: what enters the request link, and what data meets.
Packets ==
    /\ Len(req_link') > Len(req_link) =>
          LET f == req_link'[Len(req_link')]
          IN  IF packet = 0 THEN f.ch # "W"
              ELSE f.ch = "W" /\ f.txn = packet /\ f.of = packet
    /\ Len(req_link') < Len(req_link) /\ AtHead(req_link).ch = "W" =>
          \E i \in DOMAIN Begun : /\ Begun[i].txn = AtHead(req_link).of
                                  /\ \A j \in DOMAIN Begun : Begun[j].txn \notin data_done => i <= j

LEMMA SendPackets ==
    ASSUME IInv, NEW f, req_link' = Append(req_link, f),
           IF packet = 0 THEN f.ch # "W" ELSE f.ch = "W" /\ f.txn = packet /\ f.of = packet
    PROVE  Packets
<1>1. req_link \in Seq(ReqFlits) /\ Len(req_link) \in Nat
  BY LenProperties DEF IInv, Types
<1>2. Len(req_link') = Len(req_link) + 1 /\ req_link'[Len(req_link')] = f
  BY <1>1
<1>3. Len(req_link') > Len(req_link) /\ ~(Len(req_link') < Len(req_link))
  BY <1>1, <1>2
<1> QED
  BY <1>2, <1>3 DEF Packets

LEMMA StayPackets ==
    ASSUME IInv, req_link' = req_link
    PROVE  Packets
<1>1. Len(req_link) \in Nat
  BY LenProperties DEF IInv, Types
<1> QED
  BY <1>1 DEF Packets

LEMMA ServePacketsMeet ==
    ASSUME IInv, NEW ready \in BOOLEAN, NEW answer \in Answers \cup {NoAnswer}, Serve(ready, answer)
    PROVE  Packets
<1> DEFINE flit == AtHead(req_link)
<1>1. req_link \in Seq(ReqFlits) /\ Len(req_link) \in Nat
  BY LenProperties DEF IInv, Types
<1>2. req_link' = (IF taken(flit, ready, answer) THEN Tail(req_link) ELSE req_link)
  BY DEF Serve
<1>3. CASE ~taken(flit, ready, answer)
  BY <1>2, <1>3, StayPackets
<1>4. CASE taken(flit, ready, answer)
  <2>1. flit.ch \in {"AW", "AR", "W"}
    BY <1>4 DEF taken
  <2>2. req_link # <<>>
    BY <2>1 DEF AtHead, NoFlit
  <2>3. ~(Len(req_link') > Len(req_link))
    <3>1. req_link' = Tail(req_link) /\ Len(Tail(req_link)) = Len(req_link) - 1
      BY <1>1, <1>2, <1>4, <2>2, HeadTailProperties
    <3> QED
      BY <1>1, <3>1
  <2>4. ASSUME flit.ch = "W"
        PROVE  \E i \in DOMAIN Begun : /\ Begun[i].txn = flit.of
                                       /\ \A j \in DOMAIN Begun : Begun[j].txn \notin data_done => i <= j
    <3>1. \E i \in DOMAIN Begun : Begun[i].txn \notin data_done
      BY <1>4, <2>4 DEF taken
    <3>2. /\ FirstOpen \in DOMAIN Begun /\ Begun[FirstOpen].txn = flit.of
          /\ \A j \in DOMAIN Begun : Begun[j].txn \notin data_done => FirstOpen <= j
      BY <2>4, <3>1, DataMeetsWrite
    <3> QED
      BY <3>2
  <2> QED
    BY <2>3, <2>4 DEF Packets
<1> QED
  BY <1>3, <1>4

\* A write crosses the link as one packet: between its AW and its last beat
\* nothing else enters, its data has its own destination, and at the other end
\* the data meets the first write that waits for data, which is its own.
THEOREM WritesTogether == Spec => WritesArePackets
<1>1. ASSUME IInv, [Next]_vars PROVE [Packets]_vars
  <2>1. ASSUME NEW r \in Requests, Issue(r) PROVE Packets
    BY <1>1, <2>1, StayPackets DEF Issue, links
  <2>2. CASE SendAr
    <3>1. packet = 0
      BY <1>1, <2>2 DEF SendAr, Send, IInv, PacketRight
    <3> DEFINE f == [ch |-> "AR", txn |-> ar, of |-> ar, last |-> TRUE]
    <3>2. req_link' = Append(req_link, f) /\ f.ch # "W"
      BY <2>2 DEF SendAr, Send
    <3> HIDE DEF f
    <3> QED
      BY <1>1, <3>1, <3>2, SendPackets
  <2>3. CASE SendAw
    <3>1. packet = 0
      BY <1>1, <2>3 DEF SendAw, IInv, PacketRight
    <3> DEFINE f == [ch |-> "AW", txn |-> aw, of |-> aw, last |-> FALSE]
    <3>2. req_link' = Append(req_link, f) /\ f.ch # "W"
      BY <2>3 DEF SendAw, Send
    <3> HIDE DEF f
    <3> QED
      BY <1>1, <3>1, <3>2, SendPackets
  <2>4. CASE SendW
    <3>1. packet # 0 /\ packet = axi_aw_id_q /\ w[1] = packet
      BY <1>1, <2>4 DEF SendW, IInv, PacketRight
    <3> DEFINE f == [ch |-> "W", txn |-> axi_aw_id_q, of |-> w[1], last |-> w_last]
    <3>2. req_link' = Append(req_link, f) /\ f.ch = "W" /\ f.txn = packet /\ f.of = packet
      BY <2>4, <3>1 DEF SendW, Send
    <3> HIDE DEF f
    <3> QED
      BY <1>1, <3>1, <3>2, SendPackets
  <2>5. ASSUME NEW ready \in BOOLEAN, NEW answer \in Answers \cup {NoAnswer}, Serve(ready, answer) PROVE Packets
    BY <1>1, <2>5, ServePacketsMeet
  <2>6. CASE Accept
    BY <1>1, <2>6, StayPackets DEF Accept, links
  <2>7. ASSUME NEW ready \in SUBSET RspChannels, NEW store \in BOOLEAN, Return(ready, store) PROVE Packets
    BY <1>1, <2>7, StayPackets DEF Return
  <2> QED
    BY <1>1, <2>1, <2>2, <2>3, <2>4, <2>5, <2>6, <2>7 DEF Next
<1>2. WritesArePackets <=> [][Packets]_vars
  BY DEF WritesArePackets, Packets
<1> QED
  BY <1>1, <1>2, Invariance, PTL DEF Spec

----------------------------------------------------------------

-----------------------------------------------------------------------------
(* The request that waits for the spill register *)

\* What was offered is the AW at the end of the link, and its identifier is kept:
\* that of an atomic in lzc_cnt_q, and room for the header of any other.
OfferKept ==
    LET flit == AtHead(req_link)
    IN  /\ flit.ch = "AW" /\ flit.txn = aw_offer.txn
        /\ IF is_atop(flit.txn) THEN atop_req_pending_q /\ lzc_cnt_q = aw_offer.id
           ELSE Len(aw_queue) < MaxTxns /\ no_atop_req_id(flit.txn) = aw_offer.id
OfferRight == Len(aw_queue) <= MaxTxns /\ (aw_offer # NoOffer => OfferKept)

LEMMA OfferedFlit ==
    ASSUME IInv, AtHead(req_link).ch = "AW"
    PROVE  /\ req_link # <<>> /\ AtHead(req_link).txn \in DOMAIN txn
           /\ AtHead(req_link) = req_link[1] /\ 1 \in DOMAIN req_link
<1>1. /\ req_link # <<>> /\ AtHead(req_link).txn \in LinkAw
      /\ AtHead(req_link) = req_link[1] /\ 1 \in DOMAIN req_link
  BY FlitKnown
<1> QED
  BY <1>1 DEF IInv, Known, WriteNumbers

\* The link grows, or nothing of it changes.
LEMMA OfferUndisturbed ==
    ASSUME IInv, OfferRight, UNCHANGED <<aw_offer, aw_queue, atop_req_pending_q, lzc_cnt_q>>,
           \A t \in DOMAIN txn : txn'[t] = txn[t],
           req_link' = req_link \/ \E f \in ReqFlits : req_link' = Append(req_link, f)
    PROVE  OfferRight'
<1> SUFFICES ASSUME aw_offer # NoOffer PROVE OfferKept'
  BY DEF OfferRight
<1>1. OfferKept
  BY DEF OfferRight
<1>2. AtHead(req_link).ch = "AW"
  BY <1>1 DEF OfferKept
<1>3. /\ req_link # <<>> /\ AtHead(req_link).txn \in DOMAIN txn
      /\ AtHead(req_link) = req_link[1] /\ 1 \in DOMAIN req_link
  BY <1>2, OfferedFlit
<1>4. AtHead(req_link)' = AtHead(req_link)
  <2>1. CASE req_link' = req_link
    BY <2>1 DEF AtHead
  <2>2. ASSUME NEW f \in ReqFlits, req_link' = Append(req_link, f) PROVE req_link' # <<>> /\ req_link'[1] = req_link[1]
    <3>1. req_link \in Seq(ReqFlits) /\ Len(req_link) \in Nat /\ 1 \in 1 .. Len(req_link)
      BY <1>3, LenProperties DEF IInv, Types
    <3>2. /\ Append(req_link, f) \in Seq(ReqFlits) /\ Len(Append(req_link, f)) = Len(req_link) + 1
          /\ Append(req_link, f)[1] = req_link[1]
      BY <3>1, AppendProperties
    <3> QED
      BY <2>2, <3>1, <3>2, EmptySeq
  <2> QED
    BY <1>3, <2>1, <2>2 DEF AtHead
<1>5. LET t == AtHead(req_link).txn
      IN  (is_atop(t)' <=> is_atop(t)) /\ no_atop_req_id(t)' = no_atop_req_id(t)
  BY <1>3, <1>4 DEF is_atop, no_atop_req_id
<1> QED
  BY <1>1, <1>4, <1>5 DEF OfferKept

\* The AW that waits still has an identifier, the same one.
LEMMA OfferStays ==
    ASSUME IInv, OfferKept, NEW answer, NEW flit, flit = AtHead(req_link)
    PROVE  aw_valid(flit, answer) /\ HeaderOf(aw_id(flit, answer), flit.txn) = aw_offer
<1>1. flit.ch = "AW" /\ flit.txn = aw_offer.txn
  BY DEF OfferKept
<1>2. aw_offer = HeaderOf(aw_offer.id, aw_offer.txn)
  BY DEF IInv, Types, Headers, HeaderOf
<1>3. CASE is_atop(flit.txn)
  <2>1. atop_req_pending_q /\ lzc_cnt_q = aw_offer.id
    BY <1>3 DEF OfferKept
  <2>2. lzc_cnt_q \in AtopIds /\ aw_atop[lzc_cnt_q] = 0 /\ ar_atop[lzc_cnt_q] = 0
    BY <2>1 DEF IInv, Types, IdsRight
  <2>3. lzc_cnt_q \in available_atop_ids(answer)
    BY <2>2 DEF available_atop_ids, Registers
  <2> QED
    BY <1>1, <1>2, <1>3, <2>1, <2>3 DEF aw_valid, aw_id, atop_req_id
<1>4. CASE ~is_atop(flit.txn)
  BY <1>1, <1>2, <1>4 DEF OfferKept, aw_valid, aw_id, not_full
<1> QED
  BY <1>3, <1>4

\* The queue of headers takes one only while it has room, or gives one.
LEMMA ServeAwRoom ==
    ASSUME IInv, OfferRight, NEW ready, NEW answer, NEW flit, NEW take, ServeAs(ready, answer, flit, take)
    PROVE  /\ Len(aw_queue') <= MaxTxns
           /\ aw_valid(flit, answer) /\ ~is_atop(flit.txn) /\ ~take => Len(aw_queue') < MaxTxns
<1> DEFINE q == Queue(aw_queue, answer, "B")
           c == take /\ flit.ch = "AW" /\ ~is_atop(flit.txn)
           e == HeaderOf(no_atop_req_id(flit.txn), flit.txn)
           gives == pops(answer, "B") /\ ~is_atop_rsp(answer)
<1>1. /\ aw_queue' = Appended(q, c, e) /\ answer \in Answers \cup {NoAnswer}
      /\ take => (flit.ch = "AW" => aw_valid(flit, answer))
  <2>1. aw_queue' = Appended(q, c, e)
    BY ServeAwHeader
  <2>2. answer \in Answers \cup {NoAnswer}
    BY DEF ServeAs
  <2>3. take => (flit.ch = "AW" => aw_valid(flit, answer))
    BY EnteredKnown
  <2> QED
    BY <2>1, <2>2, <2>3
<1>2. aw_queue \in Seq(Headers) /\ Len(aw_queue) \in Nat /\ Len(aw_queue) <= MaxTxns /\ MaxTxns \in Nat
  BY LenProperties, MetaBufferAssumption DEF IInv, Types, OfferRight
<1>3. q \in Seq(Headers) /\ Len(q) = IF gives THEN Len(aw_queue) - 1 ELSE Len(aw_queue)
  <2>1. CASE ~gives
    BY <1>2, <2>1 DEF Queue
  <2>2. CASE gives
    <3>1. PICK i : AnswersWrite(answer, i)
      BY <1>1, <2>2, AnswerCases DEF pops
    <3>2. \E p \in 1 .. Len(aw_queue) : Oldest(aw_queue, answer.id) = p
      BY <2>2, <3>1, AnswerOfWrite
    <3> QED
      BY <1>2, <2>2, <3>2, RemoveAtElements DEF Queue
  <2> QED
    BY <2>1, <2>2
<1>4. Len(q) \in Nat
  BY <1>3, LenProperties
<1>5. (aw_valid(flit, answer) /\ ~is_atop(flit.txn)) => Len(q) < MaxTxns
  <2>1. (aw_valid(flit, answer) /\ ~is_atop(flit.txn)) => (Len(aw_queue) < MaxTxns \/ gives)
    BY DEF aw_valid, not_full
  <2> QED
    BY <1>2, <1>3, <2>1
<1> HIDE DEF q, e, gives
<1>6. Len(aw_queue') = IF c THEN Len(q) + 1 ELSE Len(q)
  <2>1. ASSUME c PROVE Len(q \o <<e>>) = Len(q) + 1
    <3>1. flit.txn \in DOMAIN txn /\ flit.txn \in Nat
      BY <2>1, EnteredKnown
    <3>2. e \in Headers
      BY <3>1, NonAtomicIds DEF e, HeaderOf, Headers
    <3>3. <<e>> \in Seq(Headers) /\ Len(<<e>>) = 1
      BY <3>2
    <3> QED
      BY <1>3, <3>3, ConcatProperties
  <2>2. ASSUME ~c PROVE q \o <<>> = q
    BY <1>3, ConcatEmptySeq
  <2> QED
    BY <1>1, <2>1, <2>2 DEF Appended
<1> QED
  BY <1>1, <1>2, <1>3, <1>4, <1>5, <1>6 DEF gives

\* What a cycle does with the AW that waits.
OfferMoves ==
    aw_offer # NoOffer =>
       \/ aw_offer' = aw_offer
       \/ aw_offer' = NoOffer /\ aw_out_queue' = Append(aw_out_queue, aw_offer)

LEMMA ServeOfferRight ==
    ASSUME IInv, OfferRight, NEW ready \in BOOLEAN, NEW answer \in Answers \cup {NoAnswer}, Serve(ready, answer)
    PROVE  OfferRight' /\ OfferMoves
<1> SUFFICES ASSUME NEW flit, NEW take, ServeAs(ready, answer, flit, take)
             PROVE  OfferRight' /\ OfferMoves
  <2>1. ServeAs(ready, answer, AtHead(req_link), IF taken(AtHead(req_link), ready, answer) THEN TRUE ELSE FALSE)
    BY DEF ServeAs
  <2> QED
    BY <2>1
<1>1. /\ aw_offer' = (IF aw_valid(flit, answer) /\ ~take
                      THEN HeaderOf(aw_id(flit, answer), flit.txn) ELSE NoOffer)
      /\ (atop_req_pending_q' <=> aw_valid(flit, answer) /\ is_atop(flit.txn) /\ ~take)
      /\ flit = AtHead(req_link) /\ take \in BOOLEAN
  BY DEF ServeAs, Serve, MetaCycle, HeaderOf
<1>2. txn' = txn /\ req_link' = (IF take THEN Tail(req_link) ELSE req_link)
  BY ServeFacts, ServeReqLink
<1>3. lzc_cnt_q' = atop_req_id(answer)
  BY ServeIds DEF atop_req_id
<1>4. /\ Len(aw_queue') <= MaxTxns
      /\ aw_valid(flit, answer) /\ ~is_atop(flit.txn) /\ ~take => Len(aw_queue') < MaxTxns
  BY ServeAwRoom
<1>5. ASSUME aw_valid(flit, answer), ~take PROVE OfferKept'
  <2>1. AtHead(req_link)' = flit /\ flit.ch = "AW"
    BY <1>1, <1>2, <1>5 DEF AtHead, aw_valid
  <2>2. /\ is_atop(flit.txn)' <=> is_atop(flit.txn)
        /\ no_atop_req_id(flit.txn)' = no_atop_req_id(flit.txn)
    BY <1>2, SamePredicates
  <2>3. aw_offer'.txn = flit.txn /\ aw_offer'.id = aw_id(flit, answer)
    BY <1>1, <1>5 DEF HeaderOf
  <2>4. CASE is_atop(flit.txn)
    <3>1. atop_req_pending_q' /\ lzc_cnt_q' = aw_offer'.id
      BY <1>1, <1>3, <1>5, <2>3, <2>4 DEF aw_id
    <3> QED
      BY <2>1, <2>2, <2>3, <2>4, <3>1 DEF OfferKept
  <2>5. CASE ~is_atop(flit.txn)
    <3>1. Len(aw_queue') < MaxTxns /\ no_atop_req_id(flit.txn) = aw_offer'.id
      BY <1>4, <1>5, <2>3, <2>5 DEF aw_id
    <3> QED
      BY <2>1, <2>2, <2>3, <2>5, <3>1 DEF OfferKept
  <2> QED
    BY <2>4, <2>5
<1>6. OfferRight'
  BY <1>1, <1>4, <1>5 DEF OfferRight
<1>7. ASSUME aw_offer # NoOffer
      PROVE  aw_offer' = aw_offer \/ (aw_offer' = NoOffer /\ aw_out_queue' = Append(aw_out_queue, aw_offer))
  <2>1. OfferKept
    BY <1>7 DEF OfferRight
  <2>2. aw_valid(flit, answer) /\ HeaderOf(aw_id(flit, answer), flit.txn) = aw_offer
    BY <1>1, <2>1, OfferStays
  <2>3. CASE ~take
    BY <1>1, <2>2, <2>3
  <2>4. CASE take
    <3>1. aw_out_queue' = aw_out_queue \o <<aw_offer>>
      BY <2>2, <2>4, ServeAwOut DEF Appended, aw_id, aw_valid
    <3>2. aw_out_queue \in Seq(Headers) /\ aw_offer \in Headers
      BY DEF IInv, Types
    <3> QED
      BY <1>1, <2>4, <3>1, <3>2, AppendIsConcat
  <2> QED
    BY <1>1, <2>3, <2>4
<1> QED
  BY <1>6, <1>7 DEF OfferMoves

LEMMA OfferStep ==
    ASSUME IInv, OfferRight, [Next]_vars
    PROVE  OfferRight' /\ [OfferMoves]_vars
<1>1. ASSUME NEW r \in Requests, Issue(r) PROVE OfferRight' /\ OfferMoves
  <2>1. /\ UNCHANGED <<aw_offer, aw_queue, atop_req_pending_q, lzc_cnt_q>> /\ req_link' = req_link
    BY <1>1 DEF Issue, meta, links
  <2>2. \A t \in DOMAIN txn : txn'[t] = txn[t]
    BY <1>1, IssueFacts
  <2> QED
    BY <2>1, <2>2, OfferUndisturbed DEF OfferMoves
<1>2. CASE SendAr \/ SendAw \/ SendW
  <2>1. UNCHANGED <<aw_offer, aw_queue, atop_req_pending_q, lzc_cnt_q>> /\ txn' = txn
    BY <1>2 DEF SendAr, SendAw, SendW, meta
  <2>2. \E f \in ReqFlits : req_link' = Append(req_link, f)
    <3>1. /\ aw \in Nat /\ ar \in Nat /\ axi_aw_id_q \in Nat /\ w \in Seq(Nat)
          /\ DOMAIN w = 1 .. Len(w) /\ Len(w) \in Nat
      BY LenProperties DEF IInv, Types
    <3>2. CASE SendAr
      BY <3>1, <3>2 DEF SendAr, Send, ReqFlits
    <3>3. CASE SendAw
      BY <3>1, <3>3 DEF SendAw, Send, ReqFlits
    <3>4. CASE SendW
      <4>1. w[1] \in Nat /\ w_last \in BOOLEAN
        <5>1. w # <<>>
          BY <3>4 DEF SendW
        <5> QED
          BY <3>1, <5>1, EmptySeq, ElementOfSeq DEF w_last
      <4> QED
        BY <3>1, <3>4, <4>1 DEF SendW, Send, ReqFlits
    <3> QED
      BY <1>2, <3>2, <3>3, <3>4
  <2> QED
    BY <2>1, <2>2, OfferUndisturbed DEF OfferMoves
<1>3. ASSUME NEW ready \in BOOLEAN, NEW answer \in Answers \cup {NoAnswer}, Serve(ready, answer)
      PROVE  OfferRight' /\ OfferMoves
  BY <1>3, ServeOfferRight
<1>4. CASE Accept
  <2>1. UNCHANGED <<aw_offer, aw_queue, atop_req_pending_q, lzc_cnt_q, txn, req_link>>
    BY <1>4 DEF Accept, TakeAw, links
  <2> QED
    BY <2>1, OfferUndisturbed DEF OfferMoves
<1>5. ASSUME NEW ready \in SUBSET RspChannels, NEW store \in BOOLEAN, Return(ready, store)
      PROVE  OfferRight' /\ OfferMoves
  <2>1. UNCHANGED <<aw_offer, aw_queue, atop_req_pending_q, lzc_cnt_q, txn, req_link>>
    BY <1>5 DEF Return, meta
  <2> QED
    BY <2>1, OfferUndisturbed DEF OfferMoves
<1>6. CASE UNCHANGED vars
  <2>1. UNCHANGED <<aw_offer, aw_queue, atop_req_pending_q, lzc_cnt_q, txn, req_link>>
    BY <1>6 DEF vars, meta, links
  <2> QED
    BY <2>1, OfferUndisturbed DEF OfferMoves
<1> QED
  BY <1>1, <1>2, <1>3, <1>4, <1>5, <1>6 DEF Next

\* An AW that waits for the spill register is offered to it unchanged until it is
\* taken: an atomic's identifier is remembered in lzc_cnt_q while others become
\* free, and stays free itself, and room for any other header stays.
THEOREM OffersWait == Spec => StalledRequestsStay
<1>1. Init => IInv /\ OfferRight
  <2>1. Init => OfferRight
    BY MetaBufferAssumption DEF Init, MetaInit, OfferRight
  <2> QED
    BY <2>1, InitIInv
<1>2. IInv /\ OfferRight /\ [Next]_vars => (IInv /\ OfferRight)' /\ [OfferMoves]_vars
  BY NextStep, OfferStep
<1>3. StalledRequestsStay <=> [][OfferMoves]_vars
  BY DEF StalledRequestsStay, OfferMoves
<1> QED
  BY <1>1, <1>2, <1>3, PTL DEF Spec

=============================================================================
