------------------------------ MODULE RobProofs ------------------------------
(***************************************************************************)
(* Proofs about Rob for any numbers of IDs, destinations, requests, beats   *)
(* and slots: slots are safe, and responses come back in order, in every    *)
(* behaviour in which the bursts of an ID arrive one after the other, and   *)
(* so whatever the network does when responses have one beat.               *)
(***************************************************************************)
EXTENDS Rob, RobPortsProofs, WellFoundedInduction

-----------------------------------------------------------------------------
(* The inductive invariant.  A flit is outstanding while it is on its way or *)
(* in the buffer.  A stored beat is a flit again: its slot tells the index.  *)

Offsets == UNION {0 .. len : len \in Lens}
Tags  == [rob_req : BOOLEAN, rob_idx : Nat]
Flits == [beat : Beats, tag : Tags]

InNet(n) == UNION {{n[d][k] : k \in DOMAIN n[d]} : d \in Dests}
InSlot(b, s) == [beat |-> b, tag |-> [rob_req |-> TRUE, rob_idx |-> s - b.pos + 1]]
Stored(valid, meta) == {InSlot(meta[s], s) : s \in valid}

Same(f, g) == f.beat.id = g.beat.id /\ f.beat.num = g.beat.num
Place(f)   == f.tag.rob_idx + f.beat.pos - 1

\* The rest of a burst is outstanding with each of its beats.
BurstsWhole(G) ==
    /\ G \subseteq Flits
    /\ \A f \in G : f.beat.pos >= 1 /\ f.beat.pos - 1 \in Offsets
    /\ \A f, g \in G : Same(f, g) => /\ f.beat.pos = g.beat.pos => f = g
                                     /\ f.beat.last => g.beat.pos <= f.beat.pos
    /\ \A f \in G : ~f.beat.last => \E g \in G : Same(f, g) /\ g.beat.pos = f.beat.pos + 1
    /\ BurstIds = {} => \A f \in G : f.beat.pos = 1 /\ f.beat.last

\* The number of a request among those of its ID in the status table.
Oldest(fifo, iss, id) == iss[id] - Len(fifo[id])
First(f, fifo, iss)   == f.beat.num = Oldest(fifo, iss, f.beat.id)

\* The status table has an entry for each request that is outstanding, and
\* those that need slots come last.
EntriesRight(G, fifo, iss) ==
    /\ fifo \in [Ids -> Seq(Tags)] /\ iss \in [Ids -> Nat]
    /\ \A f \in G : LET k == f.beat.num - Oldest(fifo, iss, f.beat.id) + 1
                    IN  k \in DOMAIN fifo[f.beat.id] /\ fifo[f.beat.id][k] = f.tag
    /\ \A id \in Ids : \A k \in DOMAIN fifo[id] :
          \E f \in G : f.beat.id = id /\ f.beat.num = Oldest(fifo, iss, id) + k - 1 /\ f.beat.last
    /\ \A id \in Ids : \A k, l \in DOMAIN fifo[id] :
          k < l /\ fifo[id][k].rob_req => fifo[id][l].rob_req
    /\ \A f \in G : ~First(f, fifo, iss) => \E g \in G : Same(f, g) /\ g.beat.pos = 1

\* Slots of different requests are disjoint, and the last one is flagged.
SlotsRight(G, alloc) ==
    /\ alloc \subseteq Slots
    /\ \A f \in G : f.tag.rob_req => Place(f) \in Slots /\ (f.beat.last => Place(f) \in alloc)
    /\ \A f, g \in G : f.tag.rob_req /\ g.tag.rob_req /\ ~Same(f, g) =>
          Place(f) < g.tag.rob_idx \/ Place(g) < f.tag.rob_idx

\* A destination answers in order, burst by burst.
After(b, c) == b.num < c.num \/ (b.num = c.num /\ b.pos < c.pos)
QueuesRight(n) ==
    /\ n \in [Dests -> Seq(Flits)]
    /\ \A d \in Dests : \A k \in DOMAIN n[d] :
          IF n[d][k].beat.last THEN k + 1 \in DOMAIN n[d] => n[d][k + 1].beat.pos = 1
          ELSE /\ k + 1 \in DOMAIN n[d] /\ Same(n[d][k], n[d][k + 1])
               /\ n[d][k + 1].beat.pos = n[d][k].beat.pos + 1
    /\ \A d \in Dests : \A k, l \in DOMAIN n[d] :
          k < l /\ n[d][k].beat.id = n[d][l].beat.id => After(n[d][k].beat, n[d][l].beat)
    /\ \A d, e \in Dests : \A k \in DOMAIN n[d], l \in DOMAIN n[e] :
          Same(n[d][k], n[e][l]) => d = e

\* Requests without slots go to one destination; the reorder flag tells whether
\* there are others.
DestsRight(n, fifo, sticky, prev) ==
    /\ sticky \in [Ids -> BOOLEAN] /\ prev \in [Ids -> Dests]
    /\ \A d, e \in Dests : \A k \in DOMAIN n[d], l \in DOMAIN n[e] :
          n[d][k].beat.id = n[e][l].beat.id /\ ~n[d][k].tag.rob_req /\ ~n[e][l].tag.rob_req
             => d = e
    /\ \A id \in Ids : ~sticky[id] =>
          /\ \A k \in DOMAIN fifo[id] : ~fifo[id][k].rob_req
          /\ \A d \in Dests : \A k \in DOMAIN n[d] : n[d][k].beat.id = id => d = prev[id]

\* The rest of a burst, of an ID, is at the head.
Mid(n, d)       == n[d] # <<>> /\ n[d][1].beat.pos > 1
MidOf(n, d, id) == Mid(n, d) /\ n[d][1].beat.id = id
OneMid(n) == \A d, e \in Dests : Mid(n, d) /\ MidOf(n, e, n[d][1].beat.id) => d = e

\* The offset at which the rest of a burst is stored.
WriteRight(n, woff) ==
    /\ woff \in [Ids -> Nat]
    /\ \A d \in Dests : Mid(n, d) /\ n[d][1].tag.rob_req =>
          woff[n[d][1].beat.id] = n[d][1].beat.pos - 1
    /\ \A id \in Ids : woff[id] # 0 =>
          \E d \in Dests : Mid(n, d) /\ n[d][1].tag.rob_req /\ n[d][1].beat.id = id

\* When beats of the oldest request of an ID are in the buffer all of them are,
\* and they are being released.
StoredRight(S, n, fifo, iss, peek, roff) ==
    /\ \A f \in S, g \in InNet(n) : Same(f, g) => f.beat.pos < g.beat.pos
    /\ \A f \in S : First(f, fifo, iss) =>
          /\ peek = f.beat.id
          /\ roff[f.beat.id] < f.beat.pos
          /\ \E g \in S : Same(f, g) /\ g.beat.pos = roff[f.beat.id] + 1
          /\ \A g \in InNet(n) : ~Same(f, g)
          /\ \A d \in Dests : ~MidOf(n, d, f.beat.id)
    /\ peek \in Ids /\ roff \in [Ids -> Nat]
    /\ \A id \in Ids : roff[id] # 0 => \E f \in S : f.beat.id = id /\ First(f, fifo, iss)

\* The beats that are owed are outstanding, in the order of the requests.
OwedRight(G, o) ==
    /\ o \in [Ids -> Seq(Beats)]
    /\ \A id \in Ids : \A k, l \in DOMAIN o[id] : k < l => After(o[id][k], o[id][l])
    /\ \A id \in Ids : \A k \in DOMAIN o[id] : \E f \in G : f.beat = o[id][k] /\ f.beat.id = id
    /\ \A f \in G : \E k \in DOMAIN o[f.beat.id] : o[f.beat.id][k] = f.beat

BufferRight ==
    /\ rob_state_q \in {"RoBRead", "RoBWrite"}
    /\ rob_valid_q \subseteq Slots /\ rob_meta_q \in [Slots -> Beats]
    /\ rob_addr_q \in 0 .. IdxSpan - 1 /\ rsp_out_valid_q \in BOOLEAN
    /\ rob_state_q = "RoBRead" /\ rsp_out_valid_q /\ Releasable => rob_addr_q = ReadAddr

Outstanding == InNet(net) \cup Stored(rob_valid_q, rob_meta_q)

Core(n, S, fifo, iss, alloc, sticky, prev, woff, peek, roff) ==
    /\ BurstsWhole(InNet(n) \cup S)
    /\ EntriesRight(InNet(n) \cup S, fifo, iss)
    /\ \A id \in Ids : Len(fifo[id]) <= MaxRoTxnsPerId
    /\ SlotsRight(InNet(n) \cup S, alloc)
    /\ QueuesRight(n)
    /\ DestsRight(n, fifo, sticky, prev)
    /\ OneMid(n)
    /\ WriteRight(n, woff)
    /\ StoredRight(S, n, fifo, iss, peek, roff)

IInv ==
    /\ AxInv /\ RspInv /\ BufferRight
    /\ Interleaved \/ BurstsApart
    /\ Core(net, Stored(rob_valid_q, rob_meta_q), st_fifo, issued, rob_alloc_q, ax_rob_req_q,
            prev_dest_q, write_rob_idx_offset_q, st_rob_peek_id_q, read_rob_idx_offset_q)

OrderInv == OwedRight(Outstanding, owed)

-----------------------------------------------------------------------------
(* Flits *)

\* What the assumptions on the constants say.
LEMMA SpanFacts ==
    /\ RoBSize \in Nat /\ RoBSize >= 2 /\ IdxSpan \in Nat /\ RoBSize <= IdxSpan
    /\ Slots = 0 .. RoBSize - 1
    /\ MaxRoTxnsPerId \in Nat /\ MaxRoTxnsPerId >= 2
    /\ UsageSpan \in Nat /\ MaxRoTxnsPerId <= UsageSpan
BY RobAssumption DEF Slots

\* An index within the buffer is not truncated.
LEMMA IdxKept ==
    ASSUME NEW s \in Slots
    PROVE  RobIdx(s) = s
<1> DEFINE m == IdxSpan
<1>1. m \in Nat /\ s \in Nat /\ s < m
  BY SpanFacts
<1> HIDE DEF m
<1>2. s % m = s
  BY <1>1
<1> QED
  BY <1>2 DEF RobIdx, m

\* What the fields of a flit are.
LEMMA FlitTypes ==
    ASSUME NEW f \in Flits
    PROVE  /\ f.beat \in Beats /\ f.tag \in Tags
           /\ f.beat.id \in Ids /\ f.beat.num \in Nat /\ f.beat.pos \in Nat
           /\ f.beat.last \in BOOLEAN /\ f.tag.rob_req \in BOOLEAN /\ f.tag.rob_idx \in Nat
           /\ Place(f) \in Int
BY DEF Flits, Beats, Tags, Place

\* Offsets in a burst are numbers.
LEMMA OffsetTypes ==
    ASSUME NEW k \in Offsets
    PROVE  k \in Nat
BY PortsAssumption DEF Offsets, Lens

\* A flit is left out: it is the first of its burst.
LEMMA BurstsRemoved ==
    ASSUME NEW G, BurstsWhole(G), NEW f \in G,
           \A g \in G : Same(f, g) => f.beat.pos <= g.beat.pos
    PROVE  BurstsWhole(G \ {f})
<1> DEFINE R == G \ {f}
<1>1. G \subseteq Flits /\ R \subseteq G
  BY DEF BurstsWhole
<1>2. \A g \in R : g.beat.pos >= 1 /\ g.beat.pos - 1 \in Offsets
  BY <1>1 DEF BurstsWhole
<1>3. \A g, h \in R : Same(g, h) => /\ g.beat.pos = h.beat.pos => g = h
                                    /\ g.beat.last => h.beat.pos <= g.beat.pos
  BY <1>1 DEF BurstsWhole
<1>4. ASSUME NEW g \in R, ~g.beat.last
      PROVE  \E h \in R : Same(g, h) /\ h.beat.pos = g.beat.pos + 1
  <2>1. PICK h \in G : Same(g, h) /\ h.beat.pos = g.beat.pos + 1
    BY <1>4 DEF BurstsWhole
  <2>2. h # f
    <3>1. SUFFICES ASSUME h = f PROVE FALSE
      OBVIOUS
    <3>2. Same(f, g)
      BY <2>1, <3>1 DEF Same
    <3>3. f.beat.pos <= g.beat.pos /\ f.beat.pos = g.beat.pos + 1
      BY <2>1, <3>1, <3>2
    <3>4. g.beat.pos \in Nat
      BY <1>1, FlitTypes
    <3> QED
      BY <3>3, <3>4
  <2> QED
    BY <2>1, <2>2
<1>5. BurstIds = {} => \A g \in R : g.beat.pos = 1 /\ g.beat.last
  BY <1>1 DEF BurstsWhole
<1> QED
  BY <1>1, <1>2, <1>3, <1>4, <1>5 DEF BurstsWhole

\* The flits that answer a request.
IsBurst(A, id, num, len, tag) ==
    /\ A \subseteq Flits
    /\ \A f \in A : /\ f.beat.id = id /\ f.beat.num = num /\ f.tag = tag
                    /\ f.beat.pos \in 1 .. len + 1
                    /\ (f.beat.last <=> f.beat.pos = len + 1)
    /\ \A f, g \in A : f.beat.pos = g.beat.pos => f = g
    /\ \A p \in 1 .. len + 1 : \E f \in A : f.beat.pos = p

\* A new burst keeps bursts whole, if its number is new among those of its ID.
LEMMA BurstsAdded ==
    ASSUME NEW G, BurstsWhole(G), NEW A, NEW id, NEW num, NEW len \in Lens, NEW tag,
           IsBurst(A, id, num, len, tag),
           \A g \in G : g.beat.id = id => g.beat.num # num,
           BurstIds = {} => len = 0
    PROVE  BurstsWhole(G \cup A)
<1>1. len \in Nat /\ \A p \in 1 .. len + 1 : p - 1 \in Offsets
  <2>1. len \in Nat
    BY PortsAssumption DEF Lens
  <2>2. \A p \in 1 .. len + 1 : p - 1 \in 0 .. len
    BY <2>1
  <2> QED
    BY <2>1, <2>2 DEF Offsets
<1>2. G \subseteq Flits /\ A \subseteq Flits
  BY DEF BurstsWhole, IsBurst
<1>3. \A f \in A : f.beat.pos >= 1 /\ f.beat.pos - 1 \in Offsets
  BY <1>1 DEF IsBurst
<1>4. \A f \in G, g \in A : ~Same(f, g) /\ ~Same(g, f)
  BY DEF IsBurst, Same
<1>5. ASSUME NEW f \in A, NEW g \in A
      PROVE  /\ f.beat.pos = g.beat.pos => f = g
             /\ f.beat.last => g.beat.pos <= f.beat.pos
  <2>1. f.beat.pos \in 1 .. len + 1 /\ g.beat.pos \in 1 .. len + 1
        /\ (f.beat.last <=> f.beat.pos = len + 1)
    BY DEF IsBurst
  <2>2. f.beat.pos = g.beat.pos => f = g
    BY DEF IsBurst
  <2> QED
    BY <1>1, <2>1, <2>2
<1>6. ASSUME NEW f \in A, ~f.beat.last
      PROVE  \E g \in A : Same(f, g) /\ g.beat.pos = f.beat.pos + 1
  <2>1. f.beat.pos \in 1 .. len + 1 /\ f.beat.pos # len + 1 /\ f.beat.id = id /\ f.beat.num = num
    BY <1>6 DEF IsBurst
  <2>2. f.beat.pos + 1 \in 1 .. len + 1
    BY <1>1, <2>1
  <2>3. PICK g \in A : g.beat.pos = f.beat.pos + 1
    BY <2>2 DEF IsBurst
  <2>4. g.beat.id = id /\ g.beat.num = num
    BY DEF IsBurst
  <2> QED
    BY <2>1, <2>3, <2>4 DEF Same
<1>7. ASSUME BurstIds = {}, NEW f \in A PROVE f.beat.pos = 1 /\ f.beat.last
  <2>1. f.beat.pos \in 1 .. len + 1 /\ (f.beat.last <=> f.beat.pos = len + 1) /\ len = 0
    BY <1>7 DEF IsBurst
  <2> QED
    BY <2>1
<1> DEFINE H == G \cup A
<1>8. H \subseteq Flits /\ \A f \in H : f.beat.pos >= 1 /\ f.beat.pos - 1 \in Offsets
  BY <1>2, <1>3 DEF BurstsWhole
<1>9. \A f, g \in H : Same(f, g) => /\ f.beat.pos = g.beat.pos => f = g
                                    /\ f.beat.last => g.beat.pos <= f.beat.pos
  BY <1>4, <1>5 DEF BurstsWhole
<1>10. \A f \in H : ~f.beat.last => \E g \in H : Same(f, g) /\ g.beat.pos = f.beat.pos + 1
  BY <1>6 DEF BurstsWhole
<1>11. BurstIds = {} => \A f \in H : f.beat.pos = 1 /\ f.beat.last
  BY <1>7 DEF BurstsWhole
<1> HIDE DEF H
<1>12. BurstsWhole(H)
  BY <1>8, <1>9, <1>10, <1>11 DEF BurstsWhole
<1> QED
  BY <1>12 DEF H

-----------------------------------------------------------------------------
(* Entries of the status table *)

\* The entry of a flit is at a place of the table that its number tells.
Nth(f, fifo, iss) == f.beat.num - Oldest(fifo, iss, f.beat.id) + 1

\* What the status table says of a flit that is outstanding.
LEMMA EntryOf ==
    ASSUME NEW G, NEW fifo, NEW iss, EntriesRight(G, fifo, iss), NEW f \in G, f \in Flits
    PROVE  /\ f.beat.id \in Ids
           /\ Nth(f, fifo, iss) \in 1 .. Len(fifo[f.beat.id])
           /\ fifo[f.beat.id][Nth(f, fifo, iss)] = f.tag
           /\ fifo[f.beat.id] \in Seq(Tags) /\ Len(fifo[f.beat.id]) \in Nat
           /\ DOMAIN fifo[f.beat.id] = 1 .. Len(fifo[f.beat.id])
           /\ iss[f.beat.id] \in Nat /\ Oldest(fifo, iss, f.beat.id) \in Int
           /\ Oldest(fifo, iss, f.beat.id) <= f.beat.num
           /\ f.beat.num < iss[f.beat.id]
           /\ First(f, fifo, iss) <=> Nth(f, fifo, iss) = 1
<1> DEFINE q == fifo[f.beat.id]
           i == iss[f.beat.id]
<1>1. f.beat.id \in Ids /\ f.beat.num \in Nat
  BY FlitTypes
<1>2. q \in Seq(Tags) /\ i \in Nat
  BY <1>1 DEF EntriesRight
<1>3. Len(q) \in Nat /\ DOMAIN q = 1 .. Len(q)
  BY <1>2, LenProperties
<1>4. Nth(f, fifo, iss) \in DOMAIN q /\ q[Nth(f, fifo, iss)] = f.tag
  BY DEF EntriesRight, Nth
<1>5. Oldest(fifo, iss, f.beat.id) = i - Len(q)
  BY DEF Oldest
<1>6. Nth(f, fifo, iss) = f.beat.num - (i - Len(q)) + 1
  BY <1>5 DEF Nth
<1>7. First(f, fifo, iss) <=> f.beat.num = i - Len(q)
  BY <1>5 DEF First
<1> HIDE DEF q, i
<1>8. /\ Nth(f, fifo, iss) \in 1 .. Len(q) /\ Oldest(fifo, iss, f.beat.id) \in Int
      /\ Oldest(fifo, iss, f.beat.id) <= f.beat.num /\ f.beat.num < i
      /\ First(f, fifo, iss) <=> Nth(f, fifo, iss) = 1
  BY <1>1, <1>2, <1>3, <1>4, <1>5, <1>6, <1>7
<1> USE DEF q, i
<1> QED
  BY <1>1, <1>2, <1>3, <1>4, <1>8

\* Flits of the same request have the same entry.
LEMMA SameTags ==
    ASSUME NEW G, G \subseteq Flits, NEW fifo, NEW iss, EntriesRight(G, fifo, iss),
           NEW f \in G, NEW g \in G, Same(f, g)
    PROVE  f.tag = g.tag
<1>1. Nth(f, fifo, iss) = Nth(g, fifo, iss) /\ f.beat.id = g.beat.id
  BY DEF Same, Nth
<1> QED
  BY <1>1, EntryOf

\* The last beat of a request is outstanding.
LEMMA LastThere ==
    ASSUME NEW G, BurstsWhole(G), NEW fifo, NEW iss, EntriesRight(G, fifo, iss), NEW f \in G
    PROVE  \E g \in G : Same(f, g) /\ g.beat.last /\ f.beat.pos <= g.beat.pos /\ g.tag = f.tag
<1>1. G \subseteq Flits
  BY DEF BurstsWhole
<1> DEFINE k == Nth(f, fifo, iss)
           id == f.beat.id
           o  == Oldest(fifo, iss, id)
<1>2. id \in Ids /\ k \in DOMAIN fifo[id] /\ o \in Int /\ f.beat.num \in Nat
  BY <1>1, EntryOf, FlitTypes
<1>3. o + k - 1 = f.beat.num
  BY <1>2 DEF Nth
<1> HIDE DEF k
<1>4. PICK g \in G : g.beat.id = id /\ g.beat.num = o + k - 1 /\ g.beat.last
  BY <1>2 DEF EntriesRight
<1>5. Same(f, g) /\ Same(g, f)
  BY <1>3, <1>4 DEF Same
<1>6. f.beat.pos <= g.beat.pos
  BY <1>4, <1>5 DEF BurstsWhole
<1>7. g.tag = f.tag
  BY <1>1, <1>5, SameTags
<1> QED
  BY <1>4, <1>5, <1>6, <1>7

\* A beat leaves that is not the last one of its request.
LEMMA EntriesKept ==
    ASSUME NEW G, NEW fifo, NEW iss, EntriesRight(G, fifo, iss),
           NEW f \in G, First(f, fifo, iss), ~f.beat.last
    PROVE  EntriesRight(G \ {f}, fifo, iss)
<1> DEFINE R == G \ {f}
<1>1. \A g \in R : g \in G
  OBVIOUS
<1>2. \A id \in Ids : \A k \in DOMAIN fifo[id] :
         \E g \in R : g.beat.id = id /\ g.beat.num = Oldest(fifo, iss, id) + k - 1 /\ g.beat.last
  <2> TAKE id \in Ids
  <2> TAKE k \in DOMAIN fifo[id]
  <2>1. PICK g \in G : g.beat.id = id /\ g.beat.num = Oldest(fifo, iss, id) + k - 1 /\ g.beat.last
    BY DEF EntriesRight
  <2>2. g \in R
    BY <2>1
  <2> QED
    BY <2>1, <2>2
<1>3. ASSUME NEW g \in R, ~First(g, fifo, iss)
      PROVE  \E h \in R : Same(g, h) /\ h.beat.pos = 1
  <2>1. PICK h \in G : Same(g, h) /\ h.beat.pos = 1
    BY <1>3 DEF EntriesRight
  <2>2. h # f
    BY <1>3, <2>1 DEF Same, First
  <2> QED
    BY <2>1, <2>2
<1>4. \A g \in R : LET k == g.beat.num - Oldest(fifo, iss, g.beat.id) + 1
                   IN  k \in DOMAIN fifo[g.beat.id] /\ fifo[g.beat.id][k] = g.tag
  BY <1>1 DEF EntriesRight
<1>5. /\ fifo \in [Ids -> Seq(Tags)] /\ iss \in [Ids -> Nat]
      /\ \A id \in Ids : \A k, l \in DOMAIN fifo[id] :
            k < l /\ fifo[id][k].rob_req => fifo[id][l].rob_req
  BY DEF EntriesRight
<1> HIDE DEF R
<1>6. EntriesRight(R, fifo, iss)
  BY <1>2, <1>3, <1>4, <1>5 DEF EntriesRight
<1> QED
  BY <1>6 DEF R

\* The last beat of the oldest request leaves, and with it its entry.
Popped(fifo, id, fifo2) ==
    /\ fifo2 \in [Ids -> Seq(Tags)]
    /\ \A i \in Ids : fifo2[i] = IF i = id THEN Tail(fifo[i]) ELSE fifo[i]

PoppedFacts(fifo, iss, id, fifo2) ==
    /\ fifo[id] \in Seq(Tags) /\ fifo2[id] \in Seq(Tags)
    /\ Len(fifo[id]) \in Nat /\ Len(fifo[id]) >= 1 /\ iss[id] \in Nat
    /\ Len(fifo2[id]) = Len(fifo[id]) - 1
    /\ DOMAIN fifo[id] = 1 .. Len(fifo[id]) /\ DOMAIN fifo2[id] = 1 .. Len(fifo[id]) - 1
    /\ \A k \in 1 .. Len(fifo[id]) - 1 : fifo2[id][k] = fifo[id][k + 1]
    /\ Oldest(fifo, iss, id) \in Int
    /\ Oldest(fifo2, iss, id) = Oldest(fifo, iss, id) + 1
    /\ \A i \in Ids : i # id => fifo2[i] = fifo[i] /\ Oldest(fifo2, iss, i) = Oldest(fifo, iss, i)

\* Popping moves the entries of an ID one place down and leaves the others
\* alone.
LEMMA PoppedTable ==
    ASSUME NEW fifo \in [Ids -> Seq(Tags)], NEW iss \in [Ids -> Nat],
           NEW id \in Ids, fifo[id] # <<>>, NEW fifo2, Popped(fifo, id, fifo2)
    PROVE  PoppedFacts(fifo, iss, id, fifo2)
<1> DEFINE q == fifo[id]
           r == fifo2[id]
           n == iss[id]
<1>1. q \in Seq(Tags) /\ q # <<>> /\ r = Tail(q) /\ r \in Seq(Tags) /\ n \in Nat
  BY DEF Popped
<1>2. /\ Oldest(fifo, iss, id) = n - Len(q) /\ Oldest(fifo2, iss, id) = n - Len(r)
  BY DEF Oldest
<1>3. \A i \in Ids : i # id => fifo2[i] = fifo[i] /\ Oldest(fifo2, iss, i) = Oldest(fifo, iss, i)
  BY DEF Oldest, Popped
<1> HIDE DEF q, r, n
<1>4. /\ Len(q) \in Nat /\ Len(q) >= 1 /\ DOMAIN q = 1 .. Len(q)
      /\ Len(r) = Len(q) - 1 /\ DOMAIN r = 1 .. Len(r)
      /\ \A k \in 1 .. Len(q) - 1 : r[k] = q[k + 1]
  BY <1>1, HeadTailProperties, LenProperties, EmptySeq
<1>5. /\ DOMAIN r = 1 .. Len(q) - 1 /\ n - Len(q) \in Int /\ n - Len(r) = n - Len(q) + 1
  BY <1>1, <1>4
<1>6. /\ Oldest(fifo, iss, id) \in Int
      /\ Oldest(fifo2, iss, id) = Oldest(fifo, iss, id) + 1
  BY <1>2, <1>5
<1> USE DEF q, r, n
<1> QED
  BY <1>1, <1>3, <1>4, <1>5, <1>6 DEF PoppedFacts

\* The table stays right when the last beat of an oldest request leaves.
LEMMA EntriesPopped ==
    ASSUME NEW G, BurstsWhole(G), NEW fifo, NEW iss, EntriesRight(G, fifo, iss),
           NEW f \in G, First(f, fifo, iss), f.beat.last,
           \A g \in G : Same(f, g) => f.beat.pos <= g.beat.pos,
           NEW fifo2, Popped(fifo, f.beat.id, fifo2)
    PROVE  EntriesRight(G \ {f}, fifo2, iss)
<1> DEFINE R == G \ {f}
           id == f.beat.id
           o  == Oldest(fifo, iss, id)
           q  == fifo[id]
           r  == fifo2[id]
<1>1. G \subseteq Flits /\ fifo \in [Ids -> Seq(Tags)] /\ iss \in [Ids -> Nat]
  BY DEF BurstsWhole, EntriesRight
<1>2. id \in Ids /\ q # <<>>
  <2>1. /\ id \in Ids /\ Nth(f, fifo, iss) \in 1 .. Len(q)
        /\ q \in Seq(Tags) /\ Len(q) \in Nat
    BY <1>1, EntryOf
  <2> QED
    BY <2>1, EmptySeq
<1>a. Popped(fifo, id, fifo2)
  OBVIOUS
<1> HIDE DEF id
<1>b. /\ fifo[id] \in Seq(Tags) /\ fifo2[id] \in Seq(Tags)
      /\ Len(fifo[id]) \in Nat /\ Len(fifo[id]) >= 1 /\ iss[id] \in Nat
      /\ Len(fifo2[id]) = Len(fifo[id]) - 1
      /\ DOMAIN fifo[id] = 1 .. Len(fifo[id]) /\ DOMAIN fifo2[id] = 1 .. Len(fifo[id]) - 1
      /\ \A k \in 1 .. Len(fifo[id]) - 1 : fifo2[id][k] = fifo[id][k + 1]
      /\ Oldest(fifo, iss, id) \in Int
      /\ Oldest(fifo2, iss, id) = Oldest(fifo, iss, id) + 1
      /\ \A i \in Ids : i # id => fifo2[i] = fifo[i] /\ Oldest(fifo2, iss, i) = Oldest(fifo, iss, i)
  <2>1. PoppedFacts(fifo, iss, id, fifo2)
    BY <1>1, <1>2, <1>a, PoppedTable
  <2> QED
    BY <2>1 DEF PoppedFacts
<1> USE DEF id
<1>3. /\ Len(q) \in Nat /\ Len(q) >= 1 /\ iss[id] \in Nat
      /\ Len(r) = Len(q) - 1
      /\ DOMAIN q = 1 .. Len(q) /\ DOMAIN r = 1 .. Len(q) - 1
      /\ \A k \in 1 .. Len(q) - 1 : r[k] = q[k + 1]
      /\ o \in Int /\ Oldest(fifo2, iss, id) = o + 1
  BY <1>b
<1>4. \A i \in Ids : i # id => fifo2[i] = fifo[i] /\ Oldest(fifo2, iss, i) = Oldest(fifo, iss, i)
  BY <1>b
<1>c. Len(q) \in Nat /\ DOMAIN q = 1 .. Len(q) /\ o \in Int
  BY <1>3
<1>5. fifo2 \in [Ids -> Seq(Tags)]
  BY DEF Popped
<1>6. \A g \in R : g \in G /\ g # f
  OBVIOUS
<1> HIDE DEF R
<1>7. ASSUME NEW g \in R, g.beat.id = id PROVE g.beat.num # o
  <2> SUFFICES ASSUME g.beat.num = o PROVE FALSE
    OBVIOUS
  <2>1. Same(f, g)
    BY <1>7 DEF Same, First
  <2>2. g.beat.pos <= f.beat.pos /\ f.beat.pos <= g.beat.pos
    BY <1>6, <2>1 DEF BurstsWhole
  <2>3. g.beat.pos \in Nat /\ f.beat.pos \in Nat
    BY <1>1, <1>6, FlitTypes
  <2>4. f = g
    BY <1>6, <2>1, <2>2, <2>3 DEF BurstsWhole
  <2> QED
    BY <1>6, <2>4
<1>8. ASSUME NEW g \in R
      PROVE  LET k == g.beat.num - Oldest(fifo2, iss, g.beat.id) + 1
             IN  k \in DOMAIN fifo2[g.beat.id] /\ fifo2[g.beat.id][k] = g.tag
  <2> DEFINE j == g.beat.num - Oldest(fifo, iss, g.beat.id) + 1
             k == g.beat.num - Oldest(fifo2, iss, g.beat.id) + 1
  <2>1. g \in G /\ g.beat.id \in Ids /\ g.beat.num \in Nat
    BY <1>1, <1>6, FlitTypes
  <2>2. j \in DOMAIN fifo[g.beat.id] /\ fifo[g.beat.id][j] = g.tag
    BY <2>1 DEF EntriesRight
  <2>3. CASE g.beat.id # id
    BY <1>4, <2>1, <2>2, <2>3
  <2>4. CASE g.beat.id = id
    <3>1. g.beat.num # o
      BY <1>7, <2>4
    <3>2. j \in DOMAIN q /\ q[j] = g.tag /\ j = g.beat.num - o + 1 /\ k = g.beat.num - (o + 1) + 1
      BY <1>3, <2>2, <2>4
    <3> DEFINE m == g.beat.num
    <3> HIDE DEF q, r, o, id, j, k, m
    <3>a. m \in Nat /\ m # o /\ j = m - o + 1 /\ k = m - (o + 1) + 1 /\ j \in 1 .. Len(q)
      BY <1>c, <2>1, <3>1, <3>2 DEF m
    <3>3. j = k + 1 /\ k \in 1 .. Len(q) - 1
      BY <1>c, <3>a
    <3>4. k \in DOMAIN r /\ r[k] = g.tag
      BY <1>3, <3>2, <3>3
    <3> QED
      BY <2>4, <3>4 DEF r, k
  <2> QED
    BY <2>3, <2>4
<1>9. ASSUME NEW i \in Ids, NEW k \in DOMAIN fifo2[i]
      PROVE  \E g \in R : g.beat.id = i /\ g.beat.num = Oldest(fifo2, iss, i) + k - 1 /\ g.beat.last
  <2>1. CASE i # id
    <3>1. k \in DOMAIN fifo[i] /\ Oldest(fifo2, iss, i) = Oldest(fifo, iss, i)
      BY <1>4, <1>9, <2>1
    <3>2. PICK g \in G : g.beat.id = i /\ g.beat.num = Oldest(fifo, iss, i) + k - 1 /\ g.beat.last
      BY <3>1 DEF EntriesRight
    <3>3. g \in R
      BY <2>1, <3>2 DEF R
    <3> QED
      BY <3>1, <3>2, <3>3
  <2>2. CASE i = id
    <3>1. k \in 1 .. Len(q) - 1
      BY <1>3, <1>9, <2>2
    <3>2. k + 1 \in DOMAIN q
      BY <1>3, <3>1
    <3>a. \A j \in DOMAIN q : \E g \in G : g.beat.id = id /\ g.beat.num = o + j - 1 /\ g.beat.last
      BY <1>2 DEF EntriesRight
    <3>4. f.beat.num = o
      BY DEF First
    <3> HIDE DEF q, r, o, id
    <3>3. PICK g \in G : g.beat.id = id /\ g.beat.num = o + (k + 1) - 1 /\ g.beat.last
      BY <3>2, <3>a
    <3>5. o + (k + 1) - 1 = (o + 1) + k - 1 /\ o + (k + 1) - 1 # o
      BY <1>c, <3>1
    <3>6. g \in R
      BY <3>3, <3>4, <3>5 DEF R
    <3> QED
      BY <1>3, <2>2, <3>3, <3>5, <3>6
  <2> QED
    BY <2>1, <2>2
<1>10. ASSUME NEW i \in Ids, NEW k \in DOMAIN fifo2[i], NEW l \in DOMAIN fifo2[i],
              k < l, fifo2[i][k].rob_req
       PROVE  fifo2[i][l].rob_req
  <2>1. CASE i # id
    BY <1>4, <1>10, <2>1 DEF EntriesRight
  <2>2. CASE i = id
    <3>1. k \in 1 .. Len(q) - 1 /\ l \in 1 .. Len(q) - 1
      BY <1>3, <1>10, <2>2
    <3>2. k + 1 \in DOMAIN q /\ l + 1 \in DOMAIN q /\ k + 1 < l + 1
      BY <1>3, <1>10, <3>1
    <3>3. r[k] = q[k + 1] /\ r[l] = q[l + 1]
      BY <1>3, <3>1
    <3>4. \A a, b \in DOMAIN q : a < b /\ q[a].rob_req => q[b].rob_req
      BY <1>2 DEF EntriesRight
    <3>5. r[k].rob_req
      BY <1>10, <2>2
    <3> HIDE DEF q, r
    <3>6. r[l].rob_req
      BY <3>2, <3>3, <3>4, <3>5
    <3> QED
      BY <2>2, <3>6 DEF r
  <2> QED
    BY <2>1, <2>2
<1>11. ASSUME NEW g \in R, ~First(g, fifo2, iss)
       PROVE  \E h \in R : Same(g, h) /\ h.beat.pos = 1
  <2>1. g \in G /\ g.beat.id \in Ids
    BY <1>1, <1>6, FlitTypes
  <2>2. ~First(g, fifo, iss)
    BY <1>4, <1>7, <1>11, <2>1 DEF First
  <2>3. PICK h \in G : Same(g, h) /\ h.beat.pos = 1
    BY <2>1, <2>2 DEF EntriesRight
  <2>4. h # f
    BY <2>2, <2>3 DEF Same, First
  <2> QED
    BY <2>3, <2>4 DEF R
<1>12. EntriesRight(R, fifo2, iss)
  <2>1. \A i \in Ids : \A k \in DOMAIN fifo2[i] :
          \E g \in R : g.beat.id = i /\ g.beat.num = Oldest(fifo2, iss, i) + k - 1 /\ g.beat.last
    BY <1>9
  <2>2. \A i \in Ids : \A k, l \in DOMAIN fifo2[i] :
          k < l /\ fifo2[i][k].rob_req => fifo2[i][l].rob_req
    BY <1>10
  <2> QED
    BY <1>1, <1>5, <1>8, <2>1, <2>2, <1>11 DEF EntriesRight
<1> QED
  BY <1>12 DEF R

\* A request is sent, and its entry is appended.
Pushed(fifo, iss, id, tag, fifo2, iss2) ==
    /\ fifo2 \in [Ids -> Seq(Tags)] /\ iss2 \in [Ids -> Nat]
    /\ \A i \in Ids : /\ fifo2[i] = IF i = id THEN fifo[i] \o <<tag>> ELSE fifo[i]
                      /\ iss2[i] = IF i = id THEN iss[i] + 1 ELSE iss[i]

EntryAppended(fifo, iss, id, tag, fifo2, iss2) ==
    /\ Len(fifo[id]) \in Nat /\ iss[id] \in Nat
    /\ Len(fifo2[id]) = Len(fifo[id]) + 1
    /\ DOMAIN fifo[id] = 1 .. Len(fifo[id]) /\ DOMAIN fifo2[id] = 1 .. Len(fifo[id]) + 1
    /\ \A k \in 1 .. Len(fifo[id]) : fifo2[id][k] = fifo[id][k]
    /\ fifo2[id][Len(fifo[id]) + 1] = tag
    /\ Oldest(fifo, iss, id) = iss[id] - Len(fifo[id])
    /\ \A i \in Ids : Oldest(fifo2, iss2, i) = Oldest(fifo, iss, i)
    /\ \A i \in Ids : i # id => fifo2[i] = fifo[i]

\* Pushing appends an entry and leaves the others where they are.
LEMMA PushedTable ==
    ASSUME NEW fifo \in [Ids -> Seq(Tags)], NEW iss \in [Ids -> Nat],
           NEW id \in Ids, NEW tag \in Tags, NEW fifo2, NEW iss2,
           Pushed(fifo, iss, id, tag, fifo2, iss2)
    PROVE  EntryAppended(fifo, iss, id, tag, fifo2, iss2)
<1> DEFINE q == fifo[id]
           r == fifo2[id]
           n == iss[id]
<1>1. q \in Seq(Tags) /\ r = q \o <<tag>> /\ n \in Nat /\ iss2[id] = n + 1
  BY DEF Pushed
<1>2. /\ Oldest(fifo, iss, id) = n - Len(q) /\ Oldest(fifo2, iss2, id) = (n + 1) - Len(r)
  BY <1>1 DEF Oldest
<1>3. \A i \in Ids : i # id => fifo2[i] = fifo[i] /\ Oldest(fifo2, iss2, i) = Oldest(fifo, iss, i)
  BY DEF Oldest, Pushed
<1> HIDE DEF q, r, n
<1>4. <<tag>> \in Seq(Tags) /\ Len(<<tag>>) = 1 /\ <<tag>>[1] = tag
  OBVIOUS
<1>5. /\ r \in Seq(Tags) /\ Len(q) \in Nat /\ Len(r) = Len(q) + 1
      /\ \A k \in 1 .. Len(q) : r[k] = q[k]
      /\ r[Len(q) + 1] = tag
  BY <1>1, <1>4, ConcatElements
<1>6. DOMAIN q = 1 .. Len(q) /\ DOMAIN r = 1 .. Len(q) + 1
  BY <1>1, <1>5, LenProperties
<1>7. (n + 1) - Len(r) = n - Len(q)
  BY <1>1, <1>5
<1>8. \A i \in Ids : Oldest(fifo2, iss2, i) = Oldest(fifo, iss, i)
  BY <1>2, <1>3, <1>7
<1> USE DEF q, r, n
<1> QED
  BY <1>1, <1>2, <1>3, <1>5, <1>6, <1>8 DEF EntryAppended


\* The table stays right when a request is sent.
LEMMA EntriesAdded ==
    ASSUME NEW G, BurstsWhole(G), NEW fifo, NEW iss, EntriesRight(G, fifo, iss),
           NEW id \in Ids, NEW tag \in Tags, NEW len \in Nat, NEW A,
           IsBurst(A, id, iss[id], len, tag),
           tag.rob_req \/ \A k \in DOMAIN fifo[id] : ~fifo[id][k].rob_req,
           NEW fifo2, NEW iss2, Pushed(fifo, iss, id, tag, fifo2, iss2)
    PROVE  EntriesRight(G \cup A, fifo2, iss2)
<1> DEFINE H == G \cup A
           q == fifo[id]
           r == fifo2[id]
           n == iss[id]
           o == Oldest(fifo, iss, id)
<1>1. G \subseteq Flits /\ fifo \in [Ids -> Seq(Tags)] /\ iss \in [Ids -> Nat]
      /\ A \subseteq Flits
  BY DEF BurstsWhole, EntriesRight, IsBurst
<1>2. /\ Len(fifo[id]) \in Nat /\ iss[id] \in Nat
      /\ Len(fifo2[id]) = Len(fifo[id]) + 1
      /\ DOMAIN fifo[id] = 1 .. Len(fifo[id]) /\ DOMAIN fifo2[id] = 1 .. Len(fifo[id]) + 1
      /\ \A k \in 1 .. Len(fifo[id]) : fifo2[id][k] = fifo[id][k]
      /\ fifo2[id][Len(fifo[id]) + 1] = tag
      /\ Oldest(fifo, iss, id) = iss[id] - Len(fifo[id])
      /\ \A i \in Ids : Oldest(fifo2, iss2, i) = Oldest(fifo, iss, i)
      /\ \A i \in Ids : i # id => fifo2[i] = fifo[i]
  <2>1. EntryAppended(fifo, iss, id, tag, fifo2, iss2)
    BY <1>1, PushedTable
  <2> QED
    BY <2>1 DEF EntryAppended
<1>3. /\ Len(q) \in Nat /\ n \in Nat /\ DOMAIN q = 1 .. Len(q) /\ DOMAIN r = 1 .. Len(q) + 1
      /\ \A k \in 1 .. Len(q) : r[k] = q[k]
      /\ r[Len(q) + 1] = tag /\ o = n - Len(q) /\ Oldest(fifo2, iss2, id) = o
  BY <1>2
<1>4. \A i \in Ids : Oldest(fifo2, iss2, i) = Oldest(fifo, iss, i)
  BY <1>2
<1>5. \A i \in Ids : i # id => fifo2[i] = fifo[i]
  BY <1>2
<1>6. fifo2 \in [Ids -> Seq(Tags)] /\ iss2 \in [Ids -> Nat]
  BY DEF Pushed
<1>a. \A f \in A : f.beat.id = id /\ f.beat.num = n /\ f.tag = tag /\ f \in Flits
  BY <1>1 DEF IsBurst
<1> HIDE DEF n, o, q, r
\* an entry stays where it was
<1>7. ASSUME NEW i \in Ids, NEW k \in DOMAIN fifo[i]
      PROVE  k \in DOMAIN fifo2[i] /\ fifo2[i][k] = fifo[i][k]
  <2>1. CASE i = id
    <3>1. k \in 1 .. Len(q)
      BY <1>3, <1>7, <2>1 DEF q
    <3>2. k \in 1 .. Len(q) + 1
      BY <1>3, <3>1
    <3> QED
      BY <1>3, <2>1, <3>1, <3>2 DEF q, r
  <2>2. CASE i # id
    BY <1>5, <1>7, <2>2
  <2> QED
    BY <2>1, <2>2
<1>8. ASSUME NEW f \in H
      PROVE  LET k == f.beat.num - Oldest(fifo2, iss2, f.beat.id) + 1
             IN  k \in DOMAIN fifo2[f.beat.id] /\ fifo2[f.beat.id][k] = f.tag
  <2>1. CASE f \in G
    <3> DEFINE k == f.beat.num - Oldest(fifo, iss, f.beat.id) + 1
    <3>1. f.beat.id \in Ids
      BY <1>1, <2>1, FlitTypes
    <3>2. k \in DOMAIN fifo[f.beat.id] /\ fifo[f.beat.id][k] = f.tag
      BY <2>1 DEF EntriesRight
    <3>3. Oldest(fifo2, iss2, f.beat.id) = Oldest(fifo, iss, f.beat.id)
      BY <1>4, <3>1
    <3>4. k \in DOMAIN fifo2[f.beat.id] /\ fifo2[f.beat.id][k] = f.tag
      <4> HIDE DEF k
      <4> QED
        BY <1>7, <3>1, <3>2
    <3> QED
      BY <3>3, <3>4
  <2>2. CASE f \in A
    <3>1. f.beat.id = id /\ f.beat.num = n /\ f.tag = tag
      BY <1>a, <2>2
    <3>2. n - o + 1 = Len(q) + 1 /\ Len(q) + 1 \in 1 .. Len(q) + 1
      BY <1>3
    <3>3. Len(q) + 1 \in DOMAIN r /\ r[Len(q) + 1] = tag
      BY <1>3, <3>2
    <3> QED
      BY <1>3, <3>1, <3>2, <3>3 DEF r
  <2> QED
    BY <2>1, <2>2
<1>9. ASSUME NEW i \in Ids, NEW k \in DOMAIN fifo2[i]
      PROVE  \E f \in H : f.beat.id = i /\ f.beat.num = Oldest(fifo2, iss2, i) + k - 1 /\ f.beat.last
  <2>1. CASE k \in DOMAIN fifo[i]
    <3>1. PICK f \in G : f.beat.id = i /\ f.beat.num = Oldest(fifo, iss, i) + k - 1 /\ f.beat.last
      BY <2>1 DEF EntriesRight
    <3>2. Oldest(fifo2, iss2, i) = Oldest(fifo, iss, i)
      BY <1>4
    <3> QED
      BY <3>1, <3>2
  <2>2. CASE k \notin DOMAIN fifo[i]
    <3>1. i = id
      BY <1>5, <1>9, <2>2
    <3>2. k \in 1 .. Len(q) + 1 /\ k \notin 1 .. Len(q)
      BY <1>3, <1>9, <2>2, <3>1 DEF q, r
    <3>3. k = Len(q) + 1
      BY <1>3, <3>2
    <3>4. o + k - 1 = n
      BY <1>3, <3>3
    <3>5. len + 1 \in 1 .. len + 1
      OBVIOUS
    <3>6. PICK f \in A : f.beat.pos = len + 1
      BY <3>5 DEF IsBurst
    <3>7. f.beat.last
      BY <3>6 DEF IsBurst
    <3>8. f.beat.id = i /\ f.beat.num = Oldest(fifo2, iss2, i) + k - 1
      BY <1>3, <1>a, <3>1, <3>4
    <3> QED
      BY <3>7, <3>8
  <2> QED
    BY <2>1, <2>2
<1>10. ASSUME NEW i \in Ids, NEW k \in DOMAIN fifo2[i], NEW l \in DOMAIN fifo2[i],
              k < l, fifo2[i][k].rob_req
       PROVE  fifo2[i][l].rob_req
  <2>1. CASE i # id
    BY <1>5, <1>10, <2>1 DEF EntriesRight
  <2>2. CASE i = id
    <3>1. k \in 1 .. Len(q) + 1 /\ l \in 1 .. Len(q) + 1
      BY <1>3, <1>10, <2>2 DEF r
    <3>2. k \in 1 .. Len(q)
      BY <1>3, <1>10, <3>1
    <3>3. k \in DOMAIN fifo[id] /\ fifo[id][k].rob_req
      BY <1>3, <1>10, <2>2, <3>2 DEF q, r
    <3>4. CASE l \in 1 .. Len(q)
      <4>1. l \in DOMAIN fifo[id] /\ fifo2[id][l] = fifo[id][l]
        BY <1>3, <3>4 DEF q, r
      <4>2. fifo[id][l].rob_req
        BY <1>10, <3>3, <4>1 DEF EntriesRight
      <4> QED
        BY <2>2, <4>1, <4>2
    <3>5. CASE l \notin 1 .. Len(q)
      <4>1. l = Len(q) + 1
        BY <1>3, <3>1, <3>5
      <4>2. tag.rob_req
        BY <3>3
      <4> QED
        BY <1>3, <2>2, <4>1, <4>2 DEF r
    <3> QED
      BY <3>4, <3>5
  <2> QED
    BY <2>1, <2>2
<1>11. ASSUME NEW f \in H, ~First(f, fifo2, iss2)
       PROVE  \E g \in H : Same(f, g) /\ g.beat.pos = 1
  <2>1. CASE f \in G
    <3>1. f.beat.id \in Ids
      BY <1>1, <2>1, FlitTypes
    <3>2. ~First(f, fifo, iss)
      BY <1>4, <1>11, <3>1 DEF First
    <3> QED
      BY <2>1, <3>2 DEF EntriesRight
  <2>2. CASE f \in A
    <3>1. 1 \in 1 .. len + 1
      OBVIOUS
    <3>2. PICK g \in A : g.beat.pos = 1
      BY <3>1 DEF IsBurst
    <3>3. Same(f, g)
      BY <1>a, <2>2 DEF Same
    <3> QED
      BY <3>2, <3>3
  <2> QED
    BY <2>1, <2>2
<1> HIDE DEF H
<1>12. EntriesRight(H, fifo2, iss2)
  <2>1. \A i \in Ids : \A k \in DOMAIN fifo2[i] :
          \E f \in H : f.beat.id = i /\ f.beat.num = Oldest(fifo2, iss2, i) + k - 1 /\ f.beat.last
    BY <1>9
  <2>2. \A i \in Ids : \A k, l \in DOMAIN fifo2[i] :
          k < l /\ fifo2[i][k].rob_req => fifo2[i][l].rob_req
    BY <1>10
  <2> QED
    BY <1>6, <1>8, <2>1, <2>2, <1>11 DEF EntriesRight
<1> QED
  BY <1>12 DEF H

-----------------------------------------------------------------------------
(* Slots *)

\* The slots of different requests are disjoint.
LEMMA Disjoint ==
    ASSUME NEW G, G \subseteq Flits, NEW alloc, SlotsRight(G, alloc),
           \A f \in G : f.beat.pos >= 1,
           NEW f \in G, NEW g \in G, f.tag.rob_req, g.tag.rob_req, ~Same(f, g)
    PROVE  /\ Place(f) # Place(g)
           /\ ~ (f.tag.rob_idx <= Place(g) /\ Place(g) <= Place(f))
           /\ f.tag.rob_idx # g.tag.rob_idx
<1> DEFINE x == f.tag.rob_idx
           y == g.tag.rob_idx
<1>1. Place(f) < y \/ Place(g) < x
  BY DEF SlotsRight
<1>2. /\ x \in Nat /\ y \in Nat /\ f.beat.pos \in Nat /\ g.beat.pos \in Nat
      /\ f.beat.pos >= 1 /\ g.beat.pos >= 1
  BY FlitTypes
<1>3. Place(f) = x + f.beat.pos - 1 /\ Place(g) = y + g.beat.pos - 1
  BY DEF Place
<1> DEFINE p == f.beat.pos
           s == g.beat.pos
<1> HIDE DEF x, y, p, s
<1>4. Place(f) = x + p - 1 /\ Place(g) = y + s - 1 /\ x \in Nat /\ y \in Nat
      /\ p \in Nat /\ s \in Nat /\ p >= 1 /\ s >= 1
  BY <1>2, <1>3 DEF p, s
<1>5. Place(f) # Place(g) /\ ~ (x <= Place(g) /\ Place(g) <= Place(f)) /\ x # y
  BY <1>1, <1>4
<1> QED
  BY <1>5 DEF x, y

\* The oldest beat of its request leaves; the flag of its slot is cleared, or
\* it has none.
LEMMA SlotsRemoved ==
    ASSUME NEW G, BurstsWhole(G), NEW fifo, NEW iss, EntriesRight(G, fifo, iss),
           NEW alloc, SlotsRight(G, alloc), NEW f \in G, NEW unset,
           unset = {} \/ (f.tag.rob_req /\ unset = {Place(f)})
    PROVE  SlotsRight(G \ {f}, alloc \ unset)
<1> DEFINE R == G \ {f}
<1>1. G \subseteq Flits /\ \A g \in G : g.beat.pos >= 1
  BY DEF BurstsWhole
<1>2. ASSUME NEW g \in R, g.tag.rob_req, g.beat.last PROVE Place(g) \notin unset
  <2> SUFFICES ASSUME f.tag.rob_req, unset = {Place(f)}, Place(g) = Place(f) PROVE FALSE
    OBVIOUS
  <2>1. Same(f, g)
    BY <1>1, <1>2, Disjoint
  <2>2. f.tag = g.tag
    BY <1>1, <2>1, SameTags
  <2>3. f.beat.pos # g.beat.pos
    BY <2>1 DEF BurstsWhole
  <2>4. f.beat.pos \in Nat /\ g.beat.pos \in Nat /\ f.tag.rob_idx \in Nat
    BY <1>1, FlitTypes
  <2>5. f.tag.rob_idx + f.beat.pos - 1 = f.tag.rob_idx + g.beat.pos - 1
    BY <2>2 DEF Place
  <2> QED
    BY <2>3, <2>4, <2>5
<1>3. /\ alloc \subseteq Slots /\ alloc \ unset \subseteq Slots
      /\ \A g \in R : g.tag.rob_req => Place(g) \in Slots /\ (g.beat.last => Place(g) \in alloc)
      /\ \A g, h \in R : g.tag.rob_req /\ h.tag.rob_req /\ ~Same(g, h) =>
            Place(g) < h.tag.rob_idx \/ Place(h) < g.tag.rob_idx
  BY DEF SlotsRight
<1> HIDE DEF R
<1>4. SlotsRight(R, alloc \ unset)
  BY <1>2, <1>3 DEF SlotsRight
<1> QED
  BY <1>4 DEF R

\* A request is given the slots above the flags.
LEMMA SlotsAdded ==
    ASSUME NEW G, BurstsWhole(G), NEW fifo, NEW iss, EntriesRight(G, fifo, iss),
           NEW alloc, SlotsRight(G, alloc),
           NEW id, NEW num, NEW len \in Nat, NEW tag \in Tags,
           NEW A, IsBurst(A, id, num, len, tag),
           NEW alloc2, alloc2 = alloc \cup (IF tag.rob_req THEN {tag.rob_idx + len} ELSE {}),
           tag.rob_req => /\ tag.rob_idx + len \in Slots
                          /\ \A s \in alloc : s < tag.rob_idx
    PROVE  SlotsRight(G \cup A, alloc2)
<1> DEFINE H == G \cup A
           x == tag.rob_idx
<1>1. G \subseteq Flits /\ A \subseteq Flits /\ \A f \in G : f.beat.pos >= 1
  BY DEF BurstsWhole, IsBurst
<1>2. x \in Nat
  BY DEF Tags
<1>3. RoBSize \in Nat /\ Slots = 0 .. RoBSize - 1
  BY SpanFacts
<1>4. \A f \in A : f.tag = tag
  BY DEF IsBurst
<1>5. ASSUME NEW f \in A, f.tag.rob_req
      PROVE  Place(f) \in Slots /\ (f.beat.last => Place(f) \in alloc2)
  <2>1. f.beat.pos \in 1 .. len + 1 /\ (f.beat.last <=> f.beat.pos = len + 1)
    BY DEF IsBurst
  <2>2. Place(f) = x + f.beat.pos - 1 /\ tag.rob_req /\ x + len \in Slots
    BY <1>4, <1>5 DEF Place
  <2>3. x + len \in alloc2
    BY <2>2
  <2> HIDE DEF x
  <2>4. Place(f) \in Slots
    BY <1>2, <1>3, <2>1, <2>2
  <2>5. ASSUME f.beat.last PROVE Place(f) = x + len
    <3>1. f.beat.pos = len + 1
      BY <2>1, <2>5
    <3>2. Place(f) = x + (len + 1) - 1
      BY <2>2, <3>1
    <3> QED
      BY <1>2, <3>2
  <2> QED
    BY <2>3, <2>4, <2>5
<1>6. ASSUME NEW f \in G, f.tag.rob_req, tag.rob_req
      PROVE  Place(f) < x
  <2>1. PICK g \in G : Same(f, g) /\ g.beat.last /\ f.beat.pos <= g.beat.pos /\ g.tag = f.tag
    BY LastThere
  <2>2. Place(g) \in alloc
    BY <1>6, <2>1 DEF SlotsRight
  <2>3. Place(g) < x
    BY <1>6, <2>2
  <2>4. f.beat.pos \in Nat /\ g.beat.pos \in Nat /\ f.tag.rob_idx \in Nat
    BY <1>1, FlitTypes
  <2>5. Place(f) = f.tag.rob_idx + f.beat.pos - 1 /\ Place(g) = f.tag.rob_idx + g.beat.pos - 1
    BY <2>1 DEF Place
  <2> DEFINE y == f.tag.rob_idx
             p == f.beat.pos
             s == g.beat.pos
  <2> HIDE DEF x, y, p, s
  <2>6. Place(f) = y + p - 1 /\ Place(g) = y + s - 1 /\ y \in Nat /\ p \in Nat /\ s \in Nat /\ p <= s
    BY <2>1, <2>4, <2>5 DEF y, p, s
  <2> QED
    BY <1>2, <2>3, <2>6
<1>7. ASSUME NEW f \in H, NEW g \in H, f.tag.rob_req, g.tag.rob_req, ~Same(f, g)
      PROVE  Place(f) < g.tag.rob_idx \/ Place(g) < f.tag.rob_idx
  <2>1. CASE f \in G /\ g \in G
    BY <1>7, <2>1 DEF SlotsRight
  <2>2. CASE f \in G /\ g \in A
    BY <1>4, <1>6, <1>7, <2>2
  <2>3. CASE f \in A /\ g \in G
    BY <1>4, <1>6, <1>7, <2>3
  <2>4. CASE f \in A /\ g \in A
    BY <1>7, <2>4 DEF IsBurst, Same
  <2> QED
    BY <2>1, <2>2, <2>3, <2>4
<1>8. alloc2 \subseteq Slots
  BY DEF SlotsRight
<1>9. ASSUME NEW f \in H, f.tag.rob_req
      PROVE  Place(f) \in Slots /\ (f.beat.last => Place(f) \in alloc2)
  <2>1. CASE f \in G
    BY <1>9, <2>1 DEF SlotsRight
  <2>2. CASE f \in A
    BY <1>5, <1>9, <2>2
  <2> QED
    BY <2>1, <2>2
<1> HIDE DEF H
<1>10. SlotsRight(H, alloc2)
  BY <1>7, <1>8, <1>9 DEF SlotsRight
<1> QED
  BY <1>10 DEF H


-----------------------------------------------------------------------------
(* Queues *)

\* A flit on its way is in the queue of a destination.
LEMMA InNetElement ==
    ASSUME NEW n, NEW f
    PROVE  f \in InNet(n) <=> \E d \in Dests : \E k \in DOMAIN n[d] : f = n[d][k]
BY DEF InNet

\* A stored flit is in a slot that is valid.
LEMMA StoredElement ==
    ASSUME NEW valid, NEW meta, NEW f
    PROVE  f \in Stored(valid, meta) <=> \E s \in valid : f = InSlot(meta[s], s)
BY DEF Stored

\* A queue is a sequence of flits that are on their way.
LEMMA QueueTypes ==
    ASSUME NEW n, QueuesRight(n), NEW d \in Dests
    PROVE  /\ n[d] \in Seq(Flits) /\ Len(n[d]) \in Nat /\ DOMAIN n[d] = 1 .. Len(n[d])
           /\ n[d] # <<>> => 1 \in DOMAIN n[d] /\ Head(n[d]) = n[d][1]
           /\ \A k \in DOMAIN n[d] : n[d][k] \in Flits /\ n[d][k] \in InNet(n)
<1> DEFINE q == n[d]
<1>1. q \in Seq(Flits)
  BY DEF QueuesRight
<1>2. \A k \in DOMAIN n[d] : n[d][k] \in InNet(n)
  BY InNetElement
<1> HIDE DEF q
<1>3. Len(q) \in Nat /\ DOMAIN q = 1 .. Len(q)
  BY <1>1, LenProperties
<1>4. q # <<>> => Len(q) # 0
  BY <1>1, EmptySeq
<1>5. q # <<>> => 1 \in DOMAIN q /\ Head(q) = q[1]
  BY <1>1, <1>3, <1>4, HeadTailProperties
<1>6. \A k \in DOMAIN q : q[k] \in Flits
  BY <1>1, <1>3, ElementOfSeq
<1> QED
  BY <1>1, <1>2, <1>3, <1>5, <1>6 DEF q

\* The first beat of the queue of e leaves.
Shifted(n, e, n2) ==
    /\ n2 \in [Dests -> Seq(Flits)]
    /\ \A d \in Dests : n2[d] = IF d = e THEN Tail(n[d]) ELSE n[d]

\* Where the k-th beat was before.
Was(e, d, k) == IF d = e THEN k + 1 ELSE k

\* Every flit but the one that leaves keeps its place or moves one place up.
LEMMA ShiftedElements ==
    ASSUME NEW n, QueuesRight(n), NEW e \in Dests, n[e] # <<>>, NEW n2, Shifted(n, e, n2),
           NEW d \in Dests
    PROVE  /\ \A k \in DOMAIN n2[d] : /\ k \in Nat /\ Was(e, d, k) \in DOMAIN n[d]
                                      /\ n2[d][k] = n[d][Was(e, d, k)]
                                      /\ Was(e, d, k + 1) = Was(e, d, k) + 1
                                      /\ k + 1 \in DOMAIN n2[d] <=> Was(e, d, k) + 1 \in DOMAIN n[d]
                                      /\ d = e => Was(e, d, k) > 1
           /\ \A k, l \in DOMAIN n2[d] : k < l => Was(e, d, k) < Was(e, d, l)
           /\ \A k \in DOMAIN n[d] : (k = 1 /\ d = e) \/ \E l \in DOMAIN n2[d] : Was(e, d, l) = k
<1> DEFINE q == n[d]
           r == n2[d]
<1>1. q \in Seq(Flits) /\ Len(q) \in Nat /\ DOMAIN q = 1 .. Len(q)
  BY QueueTypes
<1>2. r = (IF d = e THEN Tail(q) ELSE q) /\ (d = e => q # <<>>)
  BY DEF Shifted
<1> HIDE DEF q, r
<1>3. CASE d # e
  <2>1. r = q /\ \A k : Was(e, d, k) = k
    BY <1>2, <1>3 DEF Was
  <2>2. /\ \A k \in DOMAIN r : /\ k \in Nat /\ Was(e, d, k) \in DOMAIN q
                               /\ r[k] = q[Was(e, d, k)]
                               /\ Was(e, d, k + 1) = Was(e, d, k) + 1
                               /\ k + 1 \in DOMAIN r <=> Was(e, d, k) + 1 \in DOMAIN q
        /\ \A k, l \in DOMAIN r : k < l => Was(e, d, k) < Was(e, d, l)
        /\ \A k \in DOMAIN q : \E l \in DOMAIN r : Was(e, d, l) = k
    BY <1>1, <2>1
  <2> QED
    BY <1>3, <2>2 DEF q, r
<1>4. CASE d = e
  <2>1. r = Tail(q) /\ q # <<>> /\ \A k : Was(e, d, k) = k + 1
    BY <1>2, <1>4 DEF Was
  <2>2. Len(q) # 0
    BY <1>1, <2>1, EmptySeq
  <2>3. r \in Seq(Flits) /\ Len(r) = Len(q) - 1 /\ \A k \in 1 .. Len(q) - 1 : r[k] = q[k + 1]
    BY <1>1, <2>1, HeadTailProperties
  <2>4. DOMAIN r = 1 .. Len(q) - 1
    BY <2>3, LenProperties
  <2> DEFINE m == Len(q)
  <2>5. m \in Nat /\ m # 0 /\ DOMAIN r = 1 .. m - 1 /\ DOMAIN q = 1 .. m
        /\ \A k \in 1 .. m - 1 : r[k] = q[k + 1]
    BY <1>1, <2>2, <2>3, <2>4
  <2> HIDE DEF m
  <2>6. ASSUME NEW k \in DOMAIN r
        PROVE  /\ k \in Nat /\ Was(e, d, k) \in DOMAIN q
               /\ r[k] = q[Was(e, d, k)]
               /\ Was(e, d, k + 1) = Was(e, d, k) + 1
               /\ k + 1 \in DOMAIN r <=> Was(e, d, k) + 1 \in DOMAIN q
               /\ Was(e, d, k) > 1
    <3>1. k \in Nat /\ Was(e, d, k) \in DOMAIN q /\ Was(e, d, k + 1) = Was(e, d, k) + 1
          /\ Was(e, d, k) > 1
      BY <2>1, <2>5, <2>6
    <3>2. r[k] = q[Was(e, d, k)]
      BY <2>1, <2>5, <2>6
    <3>3. k + 1 \in DOMAIN r <=> Was(e, d, k) + 1 \in DOMAIN q
      BY <2>1, <2>5, <2>6
    <3> QED
      BY <3>1, <3>2, <3>3
  <2>7. \A k, l \in DOMAIN r : k < l => Was(e, d, k) < Was(e, d, l)
    BY <2>1, <2>5
  <2>8. \A k \in DOMAIN q : k = 1 \/ \E l \in DOMAIN r : Was(e, d, l) = k
    <3> SUFFICES ASSUME NEW k \in DOMAIN q, k # 1 PROVE \E l \in DOMAIN r : Was(e, d, l) = k
      OBVIOUS
    <3>1. k - 1 \in DOMAIN r /\ Was(e, d, k - 1) = k
      BY <2>1, <2>5
    <3> QED
      BY <3>1
  <2> QED
    BY <1>4, <2>6, <2>7, <2>8 DEF q, r
<1> QED
  BY <1>3, <1>4

\* The queues stay right when a head leaves.
LEMMA QueuesShifted ==
    ASSUME NEW n, QueuesRight(n), NEW e \in Dests, n[e] # <<>>, NEW n2, Shifted(n, e, n2)
    PROVE  QueuesRight(n2)
<1>1. ASSUME NEW d \in Dests, NEW k \in DOMAIN n2[d]
      PROVE  IF n2[d][k].beat.last THEN k + 1 \in DOMAIN n2[d] => n2[d][k + 1].beat.pos = 1
             ELSE /\ k + 1 \in DOMAIN n2[d] /\ Same(n2[d][k], n2[d][k + 1])
                  /\ n2[d][k + 1].beat.pos = n2[d][k].beat.pos + 1
  <2> DEFINE j == Was(e, d, k)
  <2>1. /\ j \in DOMAIN n[d] /\ n2[d][k] = n[d][j]
        /\ k + 1 \in DOMAIN n2[d] <=> j + 1 \in DOMAIN n[d]
        /\ Was(e, d, k + 1) = j + 1
    BY <1>1, ShiftedElements
  <2>2. k + 1 \in DOMAIN n2[d] => n2[d][k + 1] = n[d][j + 1]
    BY <2>1, ShiftedElements
  <2> HIDE DEF j
  <2>3. IF n[d][j].beat.last THEN j + 1 \in DOMAIN n[d] => n[d][j + 1].beat.pos = 1
        ELSE /\ j + 1 \in DOMAIN n[d] /\ Same(n[d][j], n[d][j + 1])
             /\ n[d][j + 1].beat.pos = n[d][j].beat.pos + 1
    BY <2>1 DEF QueuesRight
  <2> QED
    BY <2>1, <2>2, <2>3
<1>2. ASSUME NEW d \in Dests, NEW k \in DOMAIN n2[d], NEW l \in DOMAIN n2[d],
             k < l, n2[d][k].beat.id = n2[d][l].beat.id
      PROVE  After(n2[d][k].beat, n2[d][l].beat)
  <2>1. /\ Was(e, d, k) \in DOMAIN n[d] /\ n2[d][k] = n[d][Was(e, d, k)]
        /\ Was(e, d, l) \in DOMAIN n[d] /\ n2[d][l] = n[d][Was(e, d, l)]
        /\ Was(e, d, k) < Was(e, d, l)
    BY <1>2, ShiftedElements
  <2> QED
    BY <1>2, <2>1 DEF QueuesRight
<1>3. ASSUME NEW d1 \in Dests, NEW d2 \in Dests, NEW k \in DOMAIN n2[d1], NEW l \in DOMAIN n2[d2],
             Same(n2[d1][k], n2[d2][l])
      PROVE  d1 = d2
  <2>1. Was(e, d1, k) \in DOMAIN n[d1] /\ n2[d1][k] = n[d1][Was(e, d1, k)]
    BY <1>3, ShiftedElements
  <2>2. Was(e, d2, l) \in DOMAIN n[d2] /\ n2[d2][l] = n[d2][Was(e, d2, l)]
    BY <1>3, ShiftedElements
  <2> QED
    BY <1>3, <2>1, <2>2 DEF QueuesRight
<1>4. n2 \in [Dests -> Seq(Flits)]
  BY DEF Shifted
<1>5. \A d \in Dests : \A k \in DOMAIN n2[d] :
             IF n2[d][k].beat.last THEN k + 1 \in DOMAIN n2[d] => n2[d][k + 1].beat.pos = 1
             ELSE /\ k + 1 \in DOMAIN n2[d] /\ Same(n2[d][k], n2[d][k + 1])
                  /\ n2[d][k + 1].beat.pos = n2[d][k].beat.pos + 1
  BY <1>1
<1>6. \A d \in Dests : \A k, l \in DOMAIN n2[d] :
          k < l /\ n2[d][k].beat.id = n2[d][l].beat.id => After(n2[d][k].beat, n2[d][l].beat)
  BY <1>2
<1>7. \A d, h \in Dests : \A k \in DOMAIN n2[d], l \in DOMAIN n2[h] :
          Same(n2[d][k], n2[h][l]) => d = h
  BY <1>3
<1> QED
  BY <1>4, <1>5, <1>6, <1>7 DEF QueuesRight

\* A beat is outstanding once.
LEMMA HeadOnce ==
    ASSUME NEW n, QueuesRight(n), NEW e \in Dests, n[e] # <<>>,
           NEW g \in InNet(n), Same(n[e][1], g)
    PROVE  g = n[e][1] \/ n[e][1].beat.pos < g.beat.pos
<1>1d. PICK d \in Dests : \E k \in DOMAIN n[d] : g = n[d][k]
  BY InNetElement
<1>1. PICK k \in DOMAIN n[d] : g = n[d][k]
  BY <1>1d
<1>2. 1 \in DOMAIN n[e] /\ DOMAIN n[e] = 1 .. Len(n[e]) /\ Len(n[e]) \in Nat
  BY QueueTypes
<1>3. d = e
  BY <1>1, <1>2 DEF QueuesRight
<1>4. CASE k = 1
  BY <1>1, <1>3, <1>4
<1>5. CASE k # 1
  <2>1. 1 < k /\ k \in DOMAIN n[e]
    BY <1>1, <1>2, <1>3, <1>5
  <2>2. n[e][1].beat.id = n[e][k].beat.id /\ n[e][1].beat.num = n[e][k].beat.num
    BY <1>1, <1>3 DEF Same
  <2>3. After(n[e][1].beat, n[e][k].beat)
    BY <1>2, <2>1, <2>2 DEF QueuesRight
  <2>4. n[e][1].beat.num \in Nat
    BY <1>2, QueueTypes, FlitTypes
  <2> DEFINE m == n[e][1].beat.num
  <2>5. m \in Nat /\ (m < m \/ n[e][1].beat.pos < n[e][k].beat.pos)
    BY <2>2, <2>3, <2>4 DEF After
  <2> HIDE DEF m
  <2>6. n[e][1].beat.pos < n[e][k].beat.pos
    BY <2>5
  <2> QED
    BY <1>1, <1>3, <2>6
<1> QED
  BY <1>4, <1>5

\* Exactly the head is no longer on its way.
LEMMA ShiftedNet ==
    ASSUME NEW n, QueuesRight(n), NEW e \in Dests, n[e] # <<>>, NEW n2, Shifted(n, e, n2)
    PROVE  InNet(n2) = InNet(n) \ {n[e][1]}
<1>1. 1 \in DOMAIN n[e] /\ DOMAIN n[e] = 1 .. Len(n[e]) /\ Len(n[e]) \in Nat
  BY QueueTypes
<1>2. ASSUME NEW f \in InNet(n2) PROVE f \in InNet(n) /\ f # n[e][1]
  <2>1d. PICK d \in Dests : \E k \in DOMAIN n2[d] : f = n2[d][k]
    BY <1>2, InNetElement
  <2>1. PICK k \in DOMAIN n2[d] : f = n2[d][k]
    BY <2>1d
  <2> DEFINE j == Was(e, d, k)
  <2>2. j \in DOMAIN n[d] /\ n2[d][k] = n[d][j] /\ (d = e => j > 1)
    BY <2>1, ShiftedElements
  <2> HIDE DEF j
  <2>3. f \in InNet(n) /\ f = n[d][j]
    BY <2>1, <2>2, InNetElement
  <2>4. SUFFICES ASSUME n[d][j] = n[e][1] PROVE FALSE
    BY <2>3
  <2>5. d = e
    <3>1. Same(n[d][j], n[e][1])
      BY <2>4 DEF Same
    <3> QED
      BY <1>1, <2>2, <3>1 DEF QueuesRight
  <2>6. After(n[e][1].beat, n[e][j].beat)
    <3>1. 1 < j /\ j \in DOMAIN n[e] /\ n[e][1].beat.id = n[e][j].beat.id
      BY <1>1, <2>2, <2>4, <2>5
    <3> QED
      BY <1>1, <3>1 DEF QueuesRight
  <2>7. n[e][1].beat.num \in Nat /\ n[e][1].beat.pos \in Nat
    BY <1>1, QueueTypes, FlitTypes
  <2> DEFINE m == n[e][1].beat.num
             p == n[e][1].beat.pos
  <2>8. m < m \/ p < p
    BY <2>4, <2>5, <2>6 DEF After
  <2> HIDE DEF m, p
  <2>9. m \in Nat /\ p \in Nat
    BY <2>7 DEF m, p
  <2> QED
    BY <2>8, <2>9
<1>3. ASSUME NEW f \in InNet(n), f # n[e][1] PROVE f \in InNet(n2)
  <2>1d. PICK d \in Dests : \E k \in DOMAIN n[d] : f = n[d][k]
    BY <1>3, InNetElement
  <2>1. PICK k \in DOMAIN n[d] : f = n[d][k]
    BY <2>1d
  <2>2. PICK l \in DOMAIN n2[d] : Was(e, d, l) = k
    BY <1>3, <2>1, ShiftedElements
  <2>3. n2[d][l] = f
    BY <2>1, <2>2, ShiftedElements
  <2> QED
    BY <2>1, <2>2, <2>3, InNetElement
<1> QED
  BY <1>2, <1>3

\* Which bursts are under way after that.
LEMMA ShiftedMid ==
    ASSUME NEW n, QueuesRight(n), NEW e \in Dests, n[e] # <<>>, NEW n2, Shifted(n, e, n2),
           \A f \in InNet(n) : f.beat.pos >= 1
    PROVE  /\ \A d \in Dests : d # e => n2[d] = n[d] /\ (Mid(n2, d) <=> Mid(n, d))
           /\ n[e][1].beat.last => ~Mid(n2, e)
           /\ ~n[e][1].beat.last =>
                 /\ Mid(n2, e) /\ n2[e][1].beat.id = n[e][1].beat.id
                 /\ Same(n[e][1], n2[e][1])
                 /\ n2[e][1].beat.pos = n[e][1].beat.pos + 1
<1>1. \A d \in Dests : d # e => n2[d] = n[d]
  BY DEF Shifted
<1>2. \A d \in Dests : d # e => n2[d] = n[d] /\ (Mid(n2, d) <=> Mid(n, d))
  BY <1>1 DEF Mid
<1>3. QueuesRight(n2)
  BY QueuesShifted
<1>4. /\ 1 \in DOMAIN n[e] /\ DOMAIN n[e] = 1 .. Len(n[e]) /\ Len(n[e]) \in Nat
      /\ n[e] \in Seq(Flits)
  BY QueueTypes
<1>5. /\ DOMAIN n2[e] = 1 .. Len(n2[e]) /\ Len(n2[e]) \in Nat /\ n2[e] \in Seq(Flits)
      /\ n2[e] # <<>> => 1 \in DOMAIN n2[e]
  BY <1>3, QueueTypes
<1>6. ASSUME 1 \in DOMAIN n2[e] PROVE n2[e][1] = n[e][2] /\ 2 \in DOMAIN n[e]
  <2>1. Was(e, e, 1) = 2
    BY DEF Was
  <2> QED
    BY <1>6, <2>1, ShiftedElements
<1>7. ASSUME 2 \in DOMAIN n[e] PROVE 1 \in DOMAIN n2[e] /\ n2[e] # <<>>
  <2>1. PICK l \in DOMAIN n2[e] : Was(e, e, l) = 2
    BY <1>7, ShiftedElements
  <2>2. l \in Nat /\ l + 1 = 2
    BY <1>5, <2>1 DEF Was
  <2>3. l = 1
    BY <2>2
  <2>4. 1 \in DOMAIN n2[e]
    BY <2>1, <2>3
  <2>5. n2[e] # <<>>
    BY <1>5, <2>4, EmptySeq
  <2> QED
    BY <2>4, <2>5
<1>8. IF n[e][1].beat.last THEN 2 \in DOMAIN n[e] => n[e][2].beat.pos = 1
      ELSE /\ 2 \in DOMAIN n[e] /\ Same(n[e][1], n[e][2])
           /\ n[e][2].beat.pos = n[e][1].beat.pos + 1
  <2>1. 1 + 1 = 2
    OBVIOUS
  <2> QED
    BY <1>4, <2>1 DEF QueuesRight
<1>9. ASSUME n[e][1].beat.last PROVE ~Mid(n2, e)
  <2> SUFFICES ASSUME n2[e] # <<>>, n2[e][1].beat.pos > 1 PROVE FALSE
    BY DEF Mid
  <2> QED
    BY <1>5, <1>6, <1>8, <1>9
<1>10. ASSUME ~n[e][1].beat.last
       PROVE  /\ Mid(n2, e) /\ n2[e][1].beat.id = n[e][1].beat.id
              /\ Same(n[e][1], n2[e][1])
              /\ n2[e][1].beat.pos = n[e][1].beat.pos + 1
  <2>1. /\ 2 \in DOMAIN n[e] /\ Same(n[e][1], n[e][2])
        /\ n[e][2].beat.pos = n[e][1].beat.pos + 1
    BY <1>8, <1>10
  <2>2. n2[e] # <<>> /\ n2[e][1] = n[e][2]
    BY <1>6, <1>7, <2>1
  <2>3. n[e][1].beat.pos \in Nat /\ n[e][1].beat.pos >= 1
    BY <1>4, QueueTypes, FlitTypes
  <2>4. n2[e][1].beat.pos > 1
    BY <2>1, <2>2, <2>3
  <2> QED
    BY <2>1, <2>2, <2>4 DEF Mid, Same
<1> QED
  BY <1>2, <1>9, <1>10


\* The answer to a request is queued behind.
AnswerOf(a, id, num, len, tag) ==
    /\ a \in Seq(Flits) /\ Len(a) = len + 1
    /\ \A k \in 1 .. len + 1 : /\ a[k].beat.id = id /\ a[k].beat.num = num /\ a[k].tag = tag
                               /\ a[k].beat.pos = k /\ (a[k].beat.last <=> k = len + 1)

BeatsOf(a, len) == {a[k] : k \in 1 .. len + 1}

Behind(n, e, a, n2) ==
    /\ n2 \in [Dests -> Seq(Flits)]
    /\ \A d \in Dests : n2[d] = IF d = e THEN n[d] \o a ELSE n[d]

\* The beats of an answer are one burst.
LEMMA AnswerIsBurst ==
    ASSUME NEW a, NEW id, NEW num, NEW len \in Nat, NEW tag, AnswerOf(a, id, num, len, tag)
    PROVE  IsBurst(BeatsOf(a, len), id, num, len, tag)
<1> DEFINE A == BeatsOf(a, len)
<1>1. \A k \in 1 .. len + 1 : a[k] \in Flits
  <2>1. a \in Seq(Flits) /\ Len(a) = len + 1
    BY DEF AnswerOf
  <2> QED
    BY <2>1, ElementOfSeq
<1>2. \A f \in A : \E k \in 1 .. len + 1 : f = a[k]
  BY DEF BeatsOf
<1>3. \A k \in 1 .. len + 1 : a[k] \in A
  BY DEF BeatsOf
<1> HIDE DEF A
<1>4. A \subseteq Flits
  BY <1>1, <1>2
<1>5. ASSUME NEW f \in A
      PROVE  /\ f.beat.id = id /\ f.beat.num = num /\ f.tag = tag
             /\ f.beat.pos \in 1 .. len + 1 /\ (f.beat.last <=> f.beat.pos = len + 1)
             /\ f = a[f.beat.pos]
  BY <1>2 DEF AnswerOf
<1>6. \A p \in 1 .. len + 1 : \E f \in A : f.beat.pos = p
  BY <1>3 DEF AnswerOf
<1> QED
  BY <1>4, <1>5, <1>6 DEF IsBurst, A

\* The beats stay where they were, and the answer comes after them.
Longer(n, e, a, len, n2) ==
    /\ Len(n[e]) \in Nat
    /\ DOMAIN n[e] = 1 .. Len(n[e]) /\ DOMAIN n2[e] = 1 .. Len(n[e]) + len + 1
    /\ \A k \in DOMAIN n[e] : n2[e][k] = n[e][k]
    /\ \A k \in 1 .. len + 1 : n2[e][Len(n[e]) + k] = a[k]
    /\ \A d \in Dests : d # e => n2[d] = n[d]

\* An answer comes behind what a destination has queued.
LEMMA BehindElements ==
    ASSUME NEW n, QueuesRight(n), NEW e \in Dests, NEW id, NEW num, NEW len \in Nat, NEW tag,
           NEW a, AnswerOf(a, id, num, len, tag), NEW n2, Behind(n, e, a, n2)
    PROVE  Longer(n, e, a, len, n2)
<1> DEFINE q == n[e]
           r == n2[e]
           m == Len(n[e])
<1>1. q \in Seq(Flits) /\ m \in Nat /\ DOMAIN q = 1 .. m
  BY QueueTypes
<1>2. r = q \o a /\ r \in Seq(Flits)
  BY DEF Behind
<1>3. \A d \in Dests : d # e => n2[d] = n[d]
  BY DEF Behind
<1>4. a \in Seq(Flits) /\ Len(a) = len + 1
  BY DEF AnswerOf
<1>a. m = Len(q)
  OBVIOUS
<1> HIDE DEF q, r, m
<1>5. /\ Len(r) = m + (len + 1)
      /\ \A k \in 1 .. m : r[k] = q[k]
      /\ \A k \in 1 .. len + 1 : r[m + k] = a[k]
  <2>1. /\ r \in Seq(Flits) /\ Len(r) = Len(q) + Len(a)
        /\ \A i \in 1 .. Len(q) + Len(a) :
              r[i] = IF i <= Len(q) THEN q[i] ELSE a[i - Len(q)]
    BY <1>1, <1>2, <1>4, ConcatProperties
  <2>2. Len(r) = m + (len + 1)
    BY <1>4, <1>a, <2>1
  <2>3. \A k \in 1 .. m : r[k] = q[k]
    BY <1>1, <1>4, <1>a, <2>1
  <2>4. \A k \in 1 .. len + 1 : r[m + k] = a[k]
    <3> TAKE k \in 1 .. len + 1
    <3>1. m + k \in 1 .. m + (len + 1) /\ ~ (m + k <= m) /\ m + k - m = k
      BY <1>1
    <3> QED
      BY <1>4, <1>a, <2>1, <3>1
  <2> QED
    BY <2>2, <2>3, <2>4
<1>6. DOMAIN r = 1 .. Len(r)
  BY <1>2, LenProperties
<1>7. m + (len + 1) = m + len + 1
  BY <1>1
<1> USE DEF q, r, m
<1> QED
  BY <1>1, <1>3, <1>5, <1>6, <1>7 DEF Longer

Joined(n, a, len, n2) == InNet(n2) = InNet(n) \cup BeatsOf(a, len)

\* Exactly the beats of the answer are added to those on their way.
LEMMA BehindNet ==
    ASSUME NEW n, QueuesRight(n), NEW e \in Dests, NEW id, NEW num, NEW len \in Nat, NEW tag,
           NEW a, AnswerOf(a, id, num, len, tag), NEW n2, Behind(n, e, a, n2)
    PROVE  Joined(n, a, len, n2)
<1> DEFINE m == Len(n[e])
           A == BeatsOf(a, len)
<1>0. \A f : f \in A <=> \E k \in 1 .. len + 1 : f = a[k]
  BY DEF BeatsOf
<1>1. /\ m \in Nat /\ DOMAIN n[e] = 1 .. m /\ DOMAIN n2[e] = 1 .. m + len + 1
      /\ \A k \in DOMAIN n[e] : n2[e][k] = n[e][k]
      /\ \A k \in 1 .. len + 1 : n2[e][m + k] = a[k]
      /\ \A d \in Dests : d # e => n2[d] = n[d]
  <2>1. Longer(n, e, a, len, n2)
    BY BehindElements
  <2> QED
    BY <2>1 DEF Longer
<1> HIDE DEF m
<1>2. ASSUME NEW f \in InNet(n2) PROVE f \in InNet(n) \/ \E k \in 1 .. len + 1 : f = a[k]
  <2>1. PICK d \in Dests : \E k \in DOMAIN n2[d] : f = n2[d][k]
    BY <1>2, InNetElement
  <2>2. PICK k \in DOMAIN n2[d] : f = n2[d][k]
    BY <2>1
  <2>3. CASE k \in DOMAIN n[d]
    <3>1. f = n[d][k]
      BY <1>1, <2>2, <2>3
    <3> QED
      BY <2>3, <3>1, InNetElement
  <2>4. CASE k \notin DOMAIN n[d]
    <3>1. d = e /\ k \in 1 .. m + len + 1 /\ k \notin 1 .. m
      BY <1>1, <2>2, <2>4
    <3>2. k - m \in 1 .. len + 1 /\ m + (k - m) = k
      BY <1>1, <3>1
    <3>3. n2[e][m + (k - m)] = a[k - m]
      BY <1>1, <3>2
    <3> QED
      BY <2>2, <3>1, <3>2, <3>3
  <2> QED
    BY <2>3, <2>4
<1>3. ASSUME NEW f \in InNet(n) PROVE f \in InNet(n2)
  <2>1. PICK d \in Dests : \E k \in DOMAIN n[d] : f = n[d][k]
    BY <1>3, InNetElement
  <2>2. PICK k \in DOMAIN n[d] : f = n[d][k]
    BY <2>1
  <2>3. k \in DOMAIN n2[d] /\ n2[d][k] = f
    <3>1. CASE d # e
      BY <1>1, <2>2, <3>1
    <3>2. CASE d = e
      <4>1. k \in 1 .. m + len + 1
        BY <1>1, <2>2, <3>2
      <4> QED
        BY <1>1, <2>2, <3>2, <4>1
    <3> QED
      BY <3>1, <3>2
  <2> QED
    BY <2>3, InNetElement
<1>4. ASSUME NEW k \in 1 .. len + 1 PROVE a[k] \in InNet(n2)
  <2>1. m + k \in 1 .. m + len + 1
    BY <1>1
  <2>2. m + k \in DOMAIN n2[e] /\ n2[e][m + k] = a[k]
    BY <1>1, <2>1
  <2> QED
    BY <2>2, InNetElement
<1> HIDE DEF A
<1>5. InNet(n2) \subseteq InNet(n) \cup A
  BY <1>0, <1>2
<1>6. InNet(n) \cup A \subseteq InNet(n2)
  BY <1>0, <1>3, <1>4
<1> QED
  BY <1>5, <1>6 DEF A, Joined

\* No burst comes under way or ends.
LEMMA BehindMid ==
    ASSUME NEW n, QueuesRight(n), NEW e \in Dests, NEW id, NEW num, NEW len \in Nat, NEW tag,
           NEW a, AnswerOf(a, id, num, len, tag), NEW n2, Behind(n, e, a, n2),
           NEW d \in Dests
    PROVE  /\ Mid(n2, d) <=> Mid(n, d)
           /\ n[d] # <<>> => n2[d] # <<>> /\ n2[d][1] = n[d][1]
<1> DEFINE m == Len(n[e])
<1>1. /\ m \in Nat /\ DOMAIN n[e] = 1 .. m /\ DOMAIN n2[e] = 1 .. m + len + 1
      /\ \A k \in DOMAIN n[e] : n2[e][k] = n[e][k]
      /\ \A k \in 1 .. len + 1 : n2[e][m + k] = a[k]
      /\ \A h \in Dests : h # e => n2[h] = n[h]
  <2>1. Longer(n, e, a, len, n2)
    BY BehindElements
  <2> QED
    BY <2>1 DEF Longer
<1>2. n[e] \in Seq(Flits) /\ n2[e] \in Seq(Flits) /\ (n[e] # <<>> => 1 \in DOMAIN n[e])
  BY QueueTypes DEF Behind
<1>3. CASE d # e
  BY <1>1, <1>3 DEF Mid
<1>4. CASE d = e
  <2>1. n2[e] # <<>>
    <3>1. 1 \in DOMAIN n2[e]
      <4> HIDE DEF m
      <4> QED
        BY <1>1
    <3> QED
      BY <3>1, <1>2, EmptySeq
  <2>2. n[e] # <<>> => n2[e][1] = n[e][1]
    BY <1>1, <1>2
  <2>3. ASSUME n[e] = <<>> PROVE n2[e][1].beat.pos = 1
    <3>1. m = 0
      BY <2>3, EmptySeq
    <3>2. 1 \in 1 .. len + 1 /\ 0 + 1 = 1
      OBVIOUS
    <3>3. n2[e][1] = a[1]
      BY <1>1, <3>1, <3>2
    <3> QED
      BY <3>2, <3>3 DEF AnswerOf
  <2>4. n[e] # <<>> => (Mid(n2, e) <=> Mid(n, e))
    BY <2>1, <2>2 DEF Mid
  <2>5. n[e] = <<>> => ~Mid(n2, e) /\ ~Mid(n, e)
    BY <2>3 DEF Mid
  <2> QED
    BY <1>4, <2>1, <2>2, <2>4, <2>5
<1> QED
  BY <1>3, <1>4

\* The queues stay right when a newer request is answered.
LEMMA QueuesBehind ==
    ASSUME NEW n, QueuesRight(n), NEW e \in Dests, NEW id, NEW num \in Nat, NEW len \in Nat,
           NEW tag, NEW a, AnswerOf(a, id, num, len, tag), NEW n2, Behind(n, e, a, n2),
           \A g \in InNet(n) : g.beat.id = id => g.beat.num < num
    PROVE  QueuesRight(n2)
<1> DEFINE m == Len(n[e])
<1>1. /\ m \in Nat /\ DOMAIN n[e] = 1 .. m /\ DOMAIN n2[e] = 1 .. m + len + 1
      /\ \A k \in DOMAIN n[e] : n2[e][k] = n[e][k]
      /\ \A k \in 1 .. len + 1 : n2[e][m + k] = a[k]
      /\ \A d \in Dests : d # e => n2[d] = n[d]
  <2>1. Longer(n, e, a, len, n2)
    BY BehindElements
  <2> QED
    BY <2>1 DEF Longer
<1> HIDE DEF m
<1>2. n2 \in [Dests -> Seq(Flits)]
  BY DEF Behind
\* a beat was there before, or is one of the answer
<1>3. ASSUME NEW d \in Dests, NEW k \in DOMAIN n2[d]
      PROVE  \/ k \in DOMAIN n[d] /\ n2[d][k] = n[d][k] /\ n[d][k] \in InNet(n)
             \/ d = e /\ k > m /\ k - m \in 1 .. len + 1 /\ n2[d][k] = a[k - m]
  <2>1. CASE k \in DOMAIN n[d]
    <3>1. n2[d][k] = n[d][k]
      BY <1>1, <2>1
    <3> QED
      BY <2>1, <3>1, QueueTypes
  <2>2. CASE k \notin DOMAIN n[d]
    <3>1. d = e /\ k \in 1 .. m + len + 1 /\ k \notin 1 .. m
      BY <1>1, <1>3, <2>2
    <3>2. k - m \in 1 .. len + 1 /\ m + (k - m) = k /\ k > m
      BY <1>1, <3>1
    <3>3. n2[e][m + (k - m)] = a[k - m]
      BY <1>1, <3>2
    <3> QED
      BY <3>1, <3>2, <3>3
  <2> QED
    BY <2>1, <2>2
<1>4. \A k \in 1 .. len + 1 : /\ a[k].beat.id = id /\ a[k].beat.num = num
                              /\ a[k].beat.pos = k /\ (a[k].beat.last <=> k = len + 1)
  BY DEF AnswerOf
<1>5. ASSUME NEW d \in Dests, NEW k \in DOMAIN n2[d]
      PROVE  IF n2[d][k].beat.last THEN k + 1 \in DOMAIN n2[d] => n2[d][k + 1].beat.pos = 1
             ELSE /\ k + 1 \in DOMAIN n2[d] /\ Same(n2[d][k], n2[d][k + 1])
                  /\ n2[d][k + 1].beat.pos = n2[d][k].beat.pos + 1
  <2>1. CASE k \in DOMAIN n[d] /\ n2[d][k] = n[d][k]
    <3>1. IF n[d][k].beat.last THEN k + 1 \in DOMAIN n[d] => n[d][k + 1].beat.pos = 1
          ELSE /\ k + 1 \in DOMAIN n[d] /\ Same(n[d][k], n[d][k + 1])
               /\ n[d][k + 1].beat.pos = n[d][k].beat.pos + 1
      BY <2>1 DEF QueuesRight
    <3>2. CASE k + 1 \in DOMAIN n[d]
      <4>1. n2[d][k + 1] = n[d][k + 1] /\ k + 1 \in DOMAIN n2[d]
        <5>1. CASE d # e
          BY <1>1, <3>2, <5>1
        <5>2. CASE d = e
          <6>1. k + 1 \in 1 .. m + len + 1
            BY <1>1, <3>2, <5>2
          <6> QED
            BY <1>1, <3>2, <5>2, <6>1
        <5> QED
          BY <5>1, <5>2
      <4>2. CASE n[d][k].beat.last
        BY <2>1, <3>1, <3>2, <4>1, <4>2
      <4>3. CASE ~n[d][k].beat.last
        BY <2>1, <3>1, <3>2, <4>1, <4>3
      <4> QED
        BY <4>2, <4>3
    <3>3. CASE k + 1 \notin DOMAIN n[d]
      <4>1. n2[d][k].beat.last
        BY <2>1, <3>1, <3>3
      <4>2. SUFFICES ASSUME k + 1 \in DOMAIN n2[d] PROVE n2[d][k + 1].beat.pos = 1
        BY <4>1
      <4>3. d = e
        BY <1>1, <3>3, <4>2
      <4>4. k = m
        BY <1>1, <2>1, <3>3, <4>3
      <4>5. 1 \in 1 .. len + 1
        OBVIOUS
      <4>6. n2[e][m + 1] = a[1]
        BY <1>1, <4>5
      <4> QED
        BY <1>4, <4>3, <4>4, <4>5, <4>6
    <3> QED
      BY <3>2, <3>3
  <2>2. CASE d = e /\ k > m /\ k - m \in 1 .. len + 1 /\ n2[d][k] = a[k - m]
    <3> DEFINE j == k - m
    <3>1. k \in Nat /\ k = m + j /\ k + 1 = m + (j + 1)
      BY <1>1, <1>5, <2>2
    <3>2. j \in 1 .. len + 1 /\ n2[d][k] = a[j]
      BY <2>2
    <3> HIDE DEF j
    <3>3. CASE j = len + 1
      <4>1. n2[d][k].beat.last
        BY <1>4, <3>2, <3>3
      <4>2. k + 1 \notin 1 .. m + len + 1
        BY <1>1, <3>1, <3>3
      <4> QED
        BY <1>1, <2>2, <4>1, <4>2
    <3>4. CASE j # len + 1
      <4>1. j + 1 \in 1 .. len + 1 /\ m + (j + 1) \in 1 .. m + len + 1
        BY <1>1, <3>2, <3>4
      <4>2. k + 1 \in DOMAIN n2[d] /\ n2[d][k + 1] = a[j + 1]
        BY <1>1, <2>2, <3>1, <4>1
      <4>3. ~a[j].beat.last /\ a[j].beat.pos = j /\ a[j + 1].beat.pos = j + 1
        BY <1>4, <3>2, <3>4, <4>1
      <4>4. Same(a[j], a[j + 1])
        BY <1>4, <3>2, <4>1 DEF Same
      <4> QED
        BY <3>2, <4>2, <4>3, <4>4
    <3> QED
      BY <3>3, <3>4
  <2> QED
    BY <1>3, <2>1, <2>2
<1>6. ASSUME NEW d \in Dests, NEW k \in DOMAIN n2[d], NEW l \in DOMAIN n2[d],
             k < l, n2[d][k].beat.id = n2[d][l].beat.id
      PROVE  After(n2[d][k].beat, n2[d][l].beat)
  <2>1. CASE k \in DOMAIN n[d] /\ n2[d][k] = n[d][k] /\ n[d][k] \in InNet(n)
    <3>1. CASE l \in DOMAIN n[d] /\ n2[d][l] = n[d][l]
      BY <1>6, <2>1, <3>1 DEF QueuesRight
    <3>2. CASE l - m \in 1 .. len + 1 /\ n2[d][l] = a[l - m]
      <4>1. n2[d][l].beat.id = id /\ n2[d][l].beat.num = num
        BY <1>4, <3>2
      <4>2. n2[d][k].beat.num < num
        BY <1>6, <2>1, <4>1
      <4> QED
        BY <4>1, <4>2 DEF After
    <3> QED
      BY <1>3, <3>1, <3>2
  <2>2. CASE d = e /\ k > m /\ k - m \in 1 .. len + 1 /\ n2[d][k] = a[k - m]
    <3>0. k \in 1 .. m + len + 1 /\ l \in 1 .. m + len + 1
      BY <1>1, <1>6, <2>2
    <3>1. l - m \in 1 .. len + 1 /\ n2[d][l] = a[l - m]
      <4>1. l \notin 1 .. m
        BY <1>1, <1>6, <2>2, <3>0
      <4> QED
        BY <1>1, <1>3, <2>2, <4>1
    <3>2. k - m < l - m
      BY <1>1, <1>6, <3>0
    <3>3. /\ n2[d][k].beat.num = num /\ n2[d][l].beat.num = num
          /\ n2[d][k].beat.pos = k - m /\ n2[d][l].beat.pos = l - m
      BY <1>4, <2>2, <3>1
    <3> QED
      BY <3>2, <3>3 DEF After
  <2> QED
    BY <1>3, <2>1, <2>2
<1>7. ASSUME NEW d1 \in Dests, NEW d2 \in Dests, NEW k \in DOMAIN n2[d1], NEW l \in DOMAIN n2[d2],
             Same(n2[d1][k], n2[d2][l])
      PROVE  d1 = d2
  <2>0. \A g \in InNet(n) : ~ (g.beat.id = id /\ g.beat.num = num)
    OBVIOUS
  <2>1. CASE k \in DOMAIN n[d1] /\ n2[d1][k] = n[d1][k] /\ n[d1][k] \in InNet(n)
    <3>1. CASE l \in DOMAIN n[d2] /\ n2[d2][l] = n[d2][l]
      BY <1>7, <2>1, <3>1 DEF QueuesRight
    <3>2. CASE l - m \in 1 .. len + 1 /\ n2[d2][l] = a[l - m]
      BY <1>4, <1>7, <2>0, <2>1, <3>2 DEF Same
    <3> QED
      BY <1>3, <3>1, <3>2
  <2>2. CASE d1 = e /\ k - m \in 1 .. len + 1 /\ n2[d1][k] = a[k - m]
    <3>1. CASE l \in DOMAIN n[d2] /\ n2[d2][l] = n[d2][l] /\ n[d2][l] \in InNet(n)
      BY <1>4, <1>7, <2>0, <2>2, <3>1 DEF Same
    <3>2. CASE d2 = e
      BY <2>2, <3>2
    <3> QED
      BY <1>3, <3>1, <3>2
  <2> QED
    BY <1>3, <2>1, <2>2
<1>8. \A d \in Dests : \A k \in DOMAIN n2[d] :
             IF n2[d][k].beat.last THEN k + 1 \in DOMAIN n2[d] => n2[d][k + 1].beat.pos = 1
             ELSE /\ k + 1 \in DOMAIN n2[d] /\ Same(n2[d][k], n2[d][k + 1])
                  /\ n2[d][k + 1].beat.pos = n2[d][k].beat.pos + 1
  BY <1>5
<1>9. \A d \in Dests : \A k, l \in DOMAIN n2[d] :
          k < l /\ n2[d][k].beat.id = n2[d][l].beat.id => After(n2[d][k].beat, n2[d][l].beat)
  BY <1>6
<1>10. \A d, h \in Dests : \A k \in DOMAIN n2[d], l \in DOMAIN n2[h] :
          Same(n2[d][k], n2[h][l]) => d = h
  BY <1>7
<1> QED
  BY <1>2, <1>8, <1>9, <1>10 DEF QueuesRight


-----------------------------------------------------------------------------
(* The destinations of an ID *)

Fewer(fifo, fifo2) ==
    \A id \in Ids : \A k \in DOMAIN fifo2[id] : \E l \in DOMAIN fifo[id] : fifo2[id][k] = fifo[id][l]
FewerBeats(n, n2) ==
    \A d \in Dests : \A k \in DOMAIN n2[d] : \E l \in DOMAIN n[d] : n2[d][k] = n[d][l]

\* What is known of the destinations survives when beats and entries leave.
LEMMA DestsFewer ==
    ASSUME NEW n, NEW fifo, NEW sticky, NEW prev, DestsRight(n, fifo, sticky, prev),
           NEW n2, FewerBeats(n, n2), NEW fifo2, Fewer(fifo, fifo2)
    PROVE  DestsRight(n2, fifo2, sticky, prev)
<1>1. ASSUME NEW d \in Dests, NEW e \in Dests, NEW k \in DOMAIN n2[d], NEW l \in DOMAIN n2[e],
             n2[d][k].beat.id = n2[e][l].beat.id, ~n2[d][k].tag.rob_req, ~n2[e][l].tag.rob_req
      PROVE  d = e
  <2>1. PICK i \in DOMAIN n[d] : n2[d][k] = n[d][i]
    BY <1>1 DEF FewerBeats
  <2>2. PICK j \in DOMAIN n[e] : n2[e][l] = n[e][j]
    BY <1>1 DEF FewerBeats
  <2> QED
    BY <1>1, <2>1, <2>2 DEF DestsRight
<1>2. ASSUME NEW id \in Ids, ~sticky[id]
      PROVE  /\ \A k \in DOMAIN fifo2[id] : ~fifo2[id][k].rob_req
             /\ \A d \in Dests : \A k \in DOMAIN n2[d] : n2[d][k].beat.id = id => d = prev[id]
  <2>1. ASSUME NEW k \in DOMAIN fifo2[id] PROVE ~fifo2[id][k].rob_req
    <3>1. PICK l \in DOMAIN fifo[id] : fifo2[id][k] = fifo[id][l]
      BY <2>1 DEF Fewer
    <3> QED
      BY <1>2, <3>1 DEF DestsRight
  <2>2. ASSUME NEW d \in Dests, NEW k \in DOMAIN n2[d], n2[d][k].beat.id = id PROVE d = prev[id]
    <3>1. PICK l \in DOMAIN n[d] : n2[d][k] = n[d][l]
      BY <2>2 DEF FewerBeats
    <3> QED
      BY <1>2, <2>2, <3>1 DEF DestsRight
  <2> QED
    BY <2>1, <2>2
<1>3. sticky \in [Ids -> BOOLEAN] /\ prev \in [Ids -> Dests]
  BY DEF DestsRight
<1>4. \A d, e \in Dests : \A k \in DOMAIN n2[d], l \in DOMAIN n2[e] :
          n2[d][k].beat.id = n2[e][l].beat.id /\ ~n2[d][k].tag.rob_req /\ ~n2[e][l].tag.rob_req
             => d = e
  BY <1>1
<1>5. \A id \in Ids : ~sticky[id] =>
          /\ \A k \in DOMAIN fifo2[id] : ~fifo2[id][k].rob_req
          /\ \A d \in Dests : \A k \in DOMAIN n2[d] : n2[d][k].beat.id = id => d = prev[id]
  BY <1>2
<1> QED
  BY <1>3, <1>4, <1>5 DEF DestsRight

\* When a head leaves no other beat comes.
LEMMA ShiftedFewer ==
    ASSUME NEW n, QueuesRight(n), NEW e \in Dests, n[e] # <<>>, NEW n2, Shifted(n, e, n2)
    PROVE  FewerBeats(n, n2)
BY ShiftedElements DEF FewerBeats

\* Popping adds no entry.
LEMMA PoppedFewer ==
    ASSUME NEW fifo \in [Ids -> Seq(Tags)], NEW iss \in [Ids -> Nat],
           NEW id \in Ids, fifo[id] # <<>>, NEW fifo2, Popped(fifo, id, fifo2)
    PROVE  Fewer(fifo, fifo2)
<1> DEFINE m == Len(fifo[id])
<1>1. /\ m \in Nat /\ DOMAIN fifo[id] = 1 .. m /\ DOMAIN fifo2[id] = 1 .. m - 1
      /\ \A k \in 1 .. m - 1 : fifo2[id][k] = fifo[id][k + 1]
      /\ \A i \in Ids : i # id => fifo2[i] = fifo[i]
  BY PoppedTable DEF PoppedFacts
<1> HIDE DEF m
<1>2. ASSUME NEW i \in Ids, NEW k \in DOMAIN fifo2[i]
      PROVE  \E l \in DOMAIN fifo[i] : fifo2[i][k] = fifo[i][l]
  <2>1. CASE i # id
    BY <1>1, <1>2, <2>1
  <2>2. CASE i = id
    <3>1. k \in 1 .. m - 1 /\ k + 1 \in 1 .. m
      BY <1>1, <1>2, <2>2
    <3> QED
      BY <1>1, <2>2, <3>1
  <2> QED
    BY <2>1, <2>2
<1> QED
  BY <1>2 DEF Fewer

\* An ID without entries has no beats outstanding.
LEMMA NoneOutstanding ==
    ASSUME NEW G, G \subseteq Flits, NEW fifo, NEW iss, EntriesRight(G, fifo, iss),
           NEW f \in G
    PROVE  fifo[f.beat.id] # <<>>
<1> DEFINE q == fifo[f.beat.id]
<1>1. /\ Nth(f, fifo, iss) \in 1 .. Len(q) /\ q \in Seq(Tags)
  BY EntryOf
<1> HIDE DEF q
<1>2. q # <<>>
  <2>1. SUFFICES ASSUME q = <<>> PROVE FALSE
    OBVIOUS
  <2>2. Len(q) = 0
    BY <2>1
  <2> QED
    BY <1>1, <2>2
<1> QED
  BY <1>2 DEF q

\* Without a request the flag of an ID is cleared only if it has no entries.
LEMMA DestsIdle ==
    ASSUME NEW n, QueuesRight(n), NEW G, G \subseteq Flits, InNet(n) \subseteq G,
           NEW fifo, NEW iss, EntriesRight(G, fifo, iss),
           NEW sticky, NEW prev, DestsRight(n, fifo, sticky, prev),
           NEW sticky2 \in [Ids -> BOOLEAN],
           \A i \in Ids : ~sticky2[i] => ~sticky[i] \/ fifo[i] = <<>>
    PROVE  DestsRight(n, fifo, sticky2, prev)
<1>1. ASSUME NEW id \in Ids, ~sticky2[id]
      PROVE  /\ \A k \in DOMAIN fifo[id] : ~fifo[id][k].rob_req
             /\ \A d \in Dests : \A k \in DOMAIN n[d] : n[d][k].beat.id = id => d = prev[id]
  <2>1. CASE ~sticky[id]
    BY <2>1 DEF DestsRight
  <2>2. CASE fifo[id] = <<>>
    <3>1. ASSUME NEW d \in Dests, NEW k \in DOMAIN n[d] PROVE n[d][k].beat.id # id
      <4>1. n[d][k] \in G
        BY <3>1, QueueTypes
      <4> QED
        BY <2>2, <4>1, NoneOutstanding
    <3>2. DOMAIN fifo[id] = {}
      BY <2>2
    <3> QED
      BY <3>1, <3>2
  <2> QED
    BY <1>1, <2>1, <2>2
<1>2. /\ sticky2 \in [Ids -> BOOLEAN] /\ prev \in [Ids -> Dests]
      /\ \A d, e \in Dests : \A k \in DOMAIN n[d], l \in DOMAIN n[e] :
          n[d][k].beat.id = n[e][l].beat.id /\ ~n[d][k].tag.rob_req /\ ~n[e][l].tag.rob_req
             => d = e
  BY DEF DestsRight
<1> QED
  BY <1>1, <1>2 DEF DestsRight

\* A request without slots goes where the others of its ID go.
LEMMA DestsAdded ==
    ASSUME NEW n, QueuesRight(n), NEW G, G \subseteq Flits, InNet(n) \subseteq G,
           NEW fifo, NEW iss, EntriesRight(G, fifo, iss),
           NEW sticky, NEW prev, DestsRight(n, fifo, sticky, prev),
           NEW id \in Ids, NEW e \in Dests, NEW num, NEW len \in Nat, NEW tag \in Tags,
           NEW a, AnswerOf(a, id, num, len, tag), NEW n2, Behind(n, e, a, n2),
           NEW fifo2, NEW iss2, Pushed(fifo, iss, id, tag, fifo2, iss2),
           ~tag.rob_req =>
              /\ \A d \in Dests : \A k \in DOMAIN n[d] : n[d][k].beat.id = id => d = e
              /\ \A k \in DOMAIN fifo[id] : ~fifo[id][k].rob_req,
           NEW sticky2 \in [Ids -> BOOLEAN],
           \A i \in Ids : i # id /\ ~sticky2[i] => ~sticky[i] \/ fifo[i] = <<>>,
           ~sticky2[id] => ~tag.rob_req,
           NEW prev2 \in [Ids -> Dests], prev2[id] = e,
           \A i \in Ids : i # id => prev2[i] = prev[i]
    PROVE  DestsRight(n2, fifo2, sticky2, prev2)
<1> DEFINE m == Len(n[e])
<1>1. /\ m \in Nat /\ DOMAIN n[e] = 1 .. m /\ DOMAIN n2[e] = 1 .. m + len + 1
      /\ \A k \in DOMAIN n[e] : n2[e][k] = n[e][k]
      /\ \A k \in 1 .. len + 1 : n2[e][m + k] = a[k]
      /\ \A d \in Dests : d # e => n2[d] = n[d]
  <2>1. Longer(n, e, a, len, n2)
    BY BehindElements
  <2> QED
    BY <2>1 DEF Longer
<1> HIDE DEF m
<1>2. ASSUME NEW d \in Dests, NEW k \in DOMAIN n2[d]
      PROVE  \/ k \in DOMAIN n[d] /\ n2[d][k] = n[d][k]
             \/ d = e /\ n2[d][k].beat.id = id /\ n2[d][k].tag = tag
  <2>1. CASE k \in DOMAIN n[d]
    BY <1>1, <2>1
  <2>2. CASE k \notin DOMAIN n[d]
    <3>1. d = e /\ k \in 1 .. m + len + 1 /\ k \notin 1 .. m
      BY <1>1, <1>2, <2>2
    <3>2. k - m \in 1 .. len + 1 /\ m + (k - m) = k
      BY <1>1, <3>1
    <3>3. n2[d][k] = a[k - m]
      BY <1>1, <3>1, <3>2
    <3> QED
      BY <3>1, <3>2, <3>3 DEF AnswerOf
  <2> QED
    BY <2>1, <2>2
<1>3. ASSUME NEW d \in Dests, NEW h \in Dests, NEW k \in DOMAIN n2[d], NEW l \in DOMAIN n2[h],
             n2[d][k].beat.id = n2[h][l].beat.id, ~n2[d][k].tag.rob_req, ~n2[h][l].tag.rob_req
      PROVE  d = h
  <2>1. CASE k \in DOMAIN n[d] /\ n2[d][k] = n[d][k] /\ l \in DOMAIN n[h] /\ n2[h][l] = n[h][l]
    BY <1>3, <2>1 DEF DestsRight
  <2>2. CASE d = e /\ n2[d][k].beat.id = id /\ n2[d][k].tag = tag
    <3>1. CASE l \in DOMAIN n[h] /\ n2[h][l] = n[h][l]
      BY <1>3, <2>2, <3>1
    <3> QED
      BY <1>2, <2>2, <3>1
  <2>3. CASE h = e /\ n2[h][l].beat.id = id /\ n2[h][l].tag = tag
    <3>1. CASE k \in DOMAIN n[d] /\ n2[d][k] = n[d][k]
      BY <1>3, <2>3, <3>1
    <3> QED
      BY <1>2, <2>3, <3>1
  <2> QED
    BY <1>2, <2>1, <2>2, <2>3
<1>4. \A i \in Ids : fifo2[i] = IF i = id THEN fifo[i] \o <<tag>> ELSE fifo[i]
  BY DEF Pushed
<1>5. ASSUME ~tag.rob_req, NEW k \in DOMAIN fifo2[id] PROVE ~fifo2[id][k].rob_req
  <2>1. /\ fifo[id] \in Seq(Tags) /\ <<tag>> \in Seq(Tags) /\ fifo2[id] = fifo[id] \o <<tag>>
        /\ fifo2[id] \in Seq(Tags)
    <3>1. fifo \in [Ids -> Seq(Tags)] /\ fifo2 \in [Ids -> Seq(Tags)]
      BY DEF EntriesRight, Pushed
    <3>2. <<tag>> \in Seq(Tags)
      OBVIOUS
    <3> QED
      BY <1>4, <3>1, <3>2
  <2> DEFINE q == fifo[id]
             r == fifo2[id]
  <2> HIDE DEF q, r
  <2>2. Len(<<tag>>) = 1 /\ <<tag>>[1] = tag
    OBVIOUS
  <2>3. /\ Len(q) \in Nat /\ DOMAIN q = 1 .. Len(q) /\ DOMAIN r = 1 .. Len(q) + 1
        /\ \A i \in 1 .. Len(q) + 1 : r[i] = IF i <= Len(q) THEN q[i] ELSE <<tag>>[i - Len(q)]
    BY <2>1, <2>2, ConcatProperties, LenProperties DEF q, r
  <2>4. k \in 1 .. Len(q) + 1
    BY <1>5, <2>3 DEF r
  <2>5. CASE k <= Len(q)
    <3>1. k \in DOMAIN q /\ r[k] = q[k]
      BY <2>3, <2>4, <2>5
    <3> QED
      BY <1>5, <3>1 DEF q, r
  <2>6. CASE ~ (k <= Len(q))
    <3>1. k - Len(q) = 1
      BY <2>3, <2>4, <2>6
    <3>2. r[k] = tag
      BY <2>2, <2>3, <2>4, <2>6, <3>1
    <3> QED
      BY <1>5, <3>2 DEF r
  <2> QED
    BY <2>5, <2>6
<1>6. ASSUME NEW i \in Ids, ~sticky2[i]
      PROVE  /\ \A k \in DOMAIN fifo2[i] : ~fifo2[i][k].rob_req
             /\ \A d \in Dests : \A k \in DOMAIN n2[d] : n2[d][k].beat.id = i => d = prev2[i]
  <2>1. CASE i = id
    <3>1. ~tag.rob_req
      BY <1>6, <2>1
    <3>2. \A k \in DOMAIN fifo2[id] : ~fifo2[id][k].rob_req
      BY <1>5, <3>1
    <3>3. ASSUME NEW d \in Dests, NEW k \in DOMAIN n2[d], n2[d][k].beat.id = id PROVE d = e
      BY <1>2, <3>1, <3>3
    <3> QED
      BY <2>1, <3>2, <3>3
  <2>2. CASE i # id
    <3>1. fifo2[i] = fifo[i] /\ prev2[i] = prev[i]
      BY <1>4, <2>2
    <3>2. \A d \in Dests : \A k \in DOMAIN n2[d] :
             n2[d][k].beat.id = i => k \in DOMAIN n[d] /\ n2[d][k] = n[d][k]
      BY <1>2, <2>2
    <3>3. CASE ~sticky[i]
      BY <3>1, <3>2, <3>3 DEF DestsRight
    <3>4. CASE fifo[i] = <<>>
      <4>1. ASSUME NEW d \in Dests, NEW k \in DOMAIN n[d] PROVE n[d][k].beat.id # i
        <5>1. n[d][k] \in G
          BY <4>1, QueueTypes
        <5> QED
          BY <3>4, <5>1, NoneOutstanding
      <4>2. DOMAIN fifo2[i] = {}
        BY <3>1, <3>4
      <4> QED
        BY <3>2, <4>1, <4>2
    <3> QED
      BY <1>6, <2>2, <3>3, <3>4
  <2> QED
    BY <2>1, <2>2
<1>7. \A d, h \in Dests : \A k \in DOMAIN n2[d], l \in DOMAIN n2[h] :
          n2[d][k].beat.id = n2[h][l].beat.id /\ ~n2[d][k].tag.rob_req /\ ~n2[h][l].tag.rob_req
             => d = h
  BY <1>3
<1>8. \A i \in Ids : ~sticky2[i] =>
          /\ \A k \in DOMAIN fifo2[i] : ~fifo2[i][k].rob_req
          /\ \A d \in Dests : \A k \in DOMAIN n2[d] : n2[d][k].beat.id = i => d = prev2[i]
  BY <1>6
<1> QED
  BY <1>7, <1>8 DEF DestsRight


-----------------------------------------------------------------------------
(* Where the rest of a burst is stored *)

\* No other destination offers the rest of a burst of the ID at the head of e.
Alone(n, e) == \A d \in Dests : MidOf(n, d, n[e][1].beat.id) => d = e

\* The beat at the head of a queue is to be stored at its own offset.
LEMMA WriteOffset ==
    ASSUME NEW n, QueuesRight(n), \A f \in InNet(n) : f.beat.pos >= 1,
           NEW e \in Dests, n[e] # <<>>, Alone(n, e),
           NEW woff, WriteRight(n, woff)
    PROVE  IF n[e][1].tag.rob_req THEN woff[n[e][1].beat.id] = n[e][1].beat.pos - 1
           ELSE woff[n[e][1].beat.id] = 0
<1>1. n[e][1] \in Flits /\ n[e][1] \in InNet(n)
  BY QueueTypes
<1>2. n[e][1].beat.id \in Ids /\ n[e][1].beat.pos \in Nat /\ n[e][1].beat.pos >= 1
  BY <1>1, FlitTypes
<1>3. woff[n[e][1].beat.id] # 0 => Mid(n, e) /\ n[e][1].tag.rob_req
  BY <1>2 DEF WriteRight, Alone, MidOf
<1>4. ASSUME n[e][1].tag.rob_req PROVE woff[n[e][1].beat.id] = n[e][1].beat.pos - 1
  <2>1. CASE Mid(n, e)
    BY <1>4, <2>1 DEF WriteRight
  <2>2. CASE ~Mid(n, e)
    <3>1. n[e][1].beat.pos = 1
      BY <1>2, <2>2 DEF Mid
    <3>2. woff[n[e][1].beat.id] = 0
      BY <1>3, <2>2
    <3> QED
      BY <3>1, <3>2
  <2> QED
    BY <2>1, <2>2
<1> QED
  BY <1>3, <1>4

\* The offset of an ID is changed, to that of the rest of its burst.
Offset(n2, woff, woff2, id) ==
    /\ woff2 \in [Ids -> Nat]
    /\ \A i \in Ids : i # id => woff2[i] = woff[i]
    /\ \A d \in Dests : MidOf(n2, d, id) /\ n2[d][1].tag.rob_req =>
          woff2[id] = n2[d][1].beat.pos - 1
    /\ woff2[id] # 0 => \E d \in Dests : MidOf(n2, d, id) /\ n2[d][1].tag.rob_req

\* The offsets of the other IDs do not change when the head of e is taken.
LEMMA WriteOthers ==
    ASSUME NEW n, QueuesRight(n), \A f \in InNet(n) : f.beat.pos >= 1,
           NEW e \in Dests, n[e] # <<>>, Alone(n, e), NEW n2, Shifted(n, e, n2),
           NEW woff, WriteRight(n, woff), NEW woff2, Offset(n2, woff, woff2, n[e][1].beat.id)
    PROVE  WriteRight(n2, woff2)
<1> DEFINE id == n[e][1].beat.id
<1>1. id \in Ids
  BY QueueTypes, FlitTypes
<1>2. /\ \A d \in Dests : d # e => n2[d] = n[d] /\ (Mid(n2, d) <=> Mid(n, d))
      /\ Mid(n2, e) => n2[e][1].beat.id = id
  BY ShiftedMid
<1>3. \A d \in Dests : Mid(n2, d) => n2[d][1].beat.id \in Ids
  <2>1. QueuesRight(n2)
    BY QueuesShifted
  <2> QED
    BY <2>1, QueueTypes, FlitTypes DEF Mid
<1>4. /\ woff2 \in [Ids -> Nat]
      /\ \A d \in Dests : MidOf(n2, d, id) /\ n2[d][1].tag.rob_req =>
            woff2[id] = n2[d][1].beat.pos - 1
      /\ woff2[id] # 0 => \E d \in Dests : MidOf(n2, d, id) /\ n2[d][1].tag.rob_req
      /\ \A i \in Ids : i # id => woff2[i] = woff[i]
  BY DEF Offset
<1> HIDE DEF id
<1>5. ASSUME NEW d \in Dests, Mid(n2, d), n2[d][1].tag.rob_req
      PROVE  woff2[n2[d][1].beat.id] = n2[d][1].beat.pos - 1
  <2>1. CASE n2[d][1].beat.id = id
    BY <1>4, <1>5, <2>1 DEF MidOf
  <2>2. CASE n2[d][1].beat.id # id
    <3>1. n2[d] = n[d] /\ Mid(n, d)
      BY <1>2, <1>5, <2>2
    <3>2. woff[n[d][1].beat.id] = n[d][1].beat.pos - 1
      BY <1>5, <3>1 DEF WriteRight
    <3> QED
      BY <1>3, <1>4, <1>5, <2>2, <3>1, <3>2
  <2> QED
    BY <2>1, <2>2
<1>6. ASSUME NEW i \in Ids, woff2[i] # 0
      PROVE  \E d \in Dests : Mid(n2, d) /\ n2[d][1].tag.rob_req /\ n2[d][1].beat.id = i
  <2>1. CASE i = id
    BY <1>4, <1>6, <2>1 DEF MidOf
  <2>2. CASE i # id
    <3>1. woff[i] # 0
      BY <1>4, <1>6, <2>2
    <3>2. PICK d \in Dests : Mid(n, d) /\ n[d][1].tag.rob_req /\ n[d][1].beat.id = i
      BY <3>1 DEF WriteRight
    <3>3. d # e
      BY <2>2, <3>2 DEF id
    <3> QED
      BY <1>2, <3>2, <3>3
  <2> QED
    BY <2>1, <2>2
<1> QED
  BY <1>4, <1>5, <1>6 DEF WriteRight

\* It is taken, and the offset advances.
LEMMA WriteAdvanced ==
    ASSUME NEW n, QueuesRight(n), \A f \in InNet(n) : f.beat.pos >= 1,
           NEW e \in Dests, n[e] # <<>>, Alone(n, e),
           NEW n2, Shifted(n, e, n2),
           NEW woff, WriteRight(n, woff), n[e][1].tag.rob_req,
           ~n[e][1].beat.last => RobIdx(n[e][1].beat.pos) = n[e][1].beat.pos,
           NEW woff2, woff2 = Advance(woff, n[e][1].beat.id, n[e][1].beat.last),
           n2[e] # <<>> => (Same(n[e][1], n2[e][1]) => n2[e][1].tag = n[e][1].tag)
    PROVE  WriteRight(n2, woff2)
<1> DEFINE f == n[e][1]
           id == f.beat.id
           p == f.beat.pos
<1>1. f \in Flits /\ f \in InNet(n)
  BY QueueTypes
<1>2. id \in Ids /\ p \in Nat /\ p >= 1
  BY <1>1, FlitTypes
<1>3. woff[id] = p - 1
  BY WriteOffset
<1>4. woff \in [Ids -> Nat]
  BY DEF WriteRight
<1>5. /\ \A d \in Dests : d # e => n2[d] = n[d] /\ (Mid(n2, d) <=> Mid(n, d))
      /\ f.beat.last => ~Mid(n2, e)
      /\ ~f.beat.last => /\ Mid(n2, e) /\ n2[e][1].beat.id = f.beat.id
                         /\ Same(f, n2[e][1])
                         /\ n2[e][1].beat.pos = f.beat.pos + 1
  BY ShiftedMid
<1>6. /\ woff2 = [woff EXCEPT ![id] = IF f.beat.last THEN 0 ELSE RobIdx(@ + 1)]
  BY DEF Advance
<1>a. \A d \in Dests : MidOf(n2, d, id) => d = e
  BY <1>5 DEF Alone, MidOf
<1> HIDE DEF f, id, p
<1>7. (p - 1) + 1 = p
  BY <1>2
<1>8. \A i \in Ids : i # id => woff2[i] = woff[i]
  BY ONLY <1>2, <1>4, <1>6
<1>9. (f.beat.last => woff2[id] = 0) /\ (~f.beat.last => woff2[id] = p)
  <2>1. woff2[id] = IF f.beat.last THEN 0 ELSE RobIdx(woff[id] + 1)
    BY ONLY <1>2, <1>4, <1>6
  <2>2. ~f.beat.last => RobIdx(p) = p
    BY DEF f, p
  <2>3. woff[id] + 1 = p
    BY ONLY <1>3, <1>7
  <2> QED
    BY ONLY <2>1, <2>2, <2>3
<1>10. woff2 \in [Ids -> Nat]
  <2>1. woff2[id] \in Nat
    BY ONLY <1>2, <1>9
  <2>2. \A i \in Ids : woff2[i] \in Nat
    BY ONLY <1>4, <1>8, <2>1
  <2>3. DOMAIN woff2 = Ids /\ woff2 = [i \in Ids |-> woff2[i]]
    BY ONLY <1>4, <1>6
  <2> QED
    BY ONLY <2>2, <2>3
<1>11. ASSUME NEW d \in Dests, MidOf(n2, d, id)
       PROVE  d = e /\ ~f.beat.last /\ woff2[id] = n2[d][1].beat.pos - 1
  <2>1. d = e
    BY <1>a, <1>11
  <2>2. ~f.beat.last
    BY ONLY <1>5, <1>11, <2>1 DEF MidOf
  <2>3. n2[e][1].beat.pos = p + 1
    BY ONLY <1>5, <2>2 DEF p
  <2>4. woff2[id] = p /\ (p + 1) - 1 = p
    BY ONLY <1>2, <1>9, <2>2
  <2> QED
    BY ONLY <2>1, <2>2, <2>3, <2>4
<1>12. ASSUME woff2[id] # 0
       PROVE  \E d \in Dests : MidOf(n2, d, id) /\ n2[d][1].tag.rob_req
  <2>1. ~f.beat.last
    BY ONLY <1>9, <1>12
  <2>2. /\ Mid(n2, e) /\ n2[e][1].beat.id = id /\ Same(f, n2[e][1])
    BY <1>5, <2>1 DEF id
  <2>3. n2[e] # <<>>
    BY <2>2 DEF Mid
  <2>4. n2[e][1].tag.rob_req
    BY <2>2, <2>3 DEF f
  <2>5. e \in Dests
    OBVIOUS
  <2> QED
    BY ONLY <2>2, <2>4, <2>5 DEF MidOf
<1>13. Offset(n2, woff, woff2, id)
  BY ONLY <1>8, <1>10, <1>11, <1>12 DEF Offset
<1>14. Offset(n2, woff, woff2, n[e][1].beat.id)
  BY <1>13 DEF id, f
<1> QED
  BY <1>14, WriteOthers

\* A beat without a slot is taken, and the offset stays.
LEMMA WriteStays ==
    ASSUME NEW n, QueuesRight(n), \A f \in InNet(n) : f.beat.pos >= 1,
           NEW e \in Dests, n[e] # <<>>, Alone(n, e),
           NEW n2, Shifted(n, e, n2),
           NEW woff, WriteRight(n, woff), ~n[e][1].tag.rob_req,
           n2[e] # <<>> => (Same(n[e][1], n2[e][1]) => n2[e][1].tag = n[e][1].tag)
    PROVE  WriteRight(n2, woff)
<1>1. woff[n[e][1].beat.id] = 0
  BY WriteOffset
<1>2. /\ \A d \in Dests : d # e => n2[d] = n[d] /\ (Mid(n2, d) <=> Mid(n, d))
      /\ n[e][1].beat.last => ~Mid(n2, e)
      /\ ~n[e][1].beat.last => Same(n[e][1], n2[e][1])
  BY ShiftedMid
<1>3. ASSUME NEW d \in Dests, MidOf(n2, d, n[e][1].beat.id) PROVE ~n2[d][1].tag.rob_req
  <2>1. d = e
    BY <1>2, <1>3 DEF Alone, MidOf
  <2>2. ~n[e][1].beat.last /\ Same(n[e][1], n2[e][1]) /\ n2[e] # <<>>
    BY <1>2, <1>3, <2>1 DEF MidOf, Mid
  <2> QED
    BY <2>1, <2>2
<1>4. woff \in [Ids -> Nat]
  BY DEF WriteRight
<1>5. Offset(n2, woff, woff, n[e][1].beat.id)
  BY <1>1, <1>3, <1>4 DEF Offset
<1> QED
  BY <1>5, WriteOthers

\* The offsets depend on the heads of the queues only.
LEMMA WriteBehind ==
    ASSUME NEW n, NEW n2, NEW woff, WriteRight(n, woff),
           \A d \in Dests : Mid(n2, d) <=> Mid(n, d),
           \A d \in Dests : n[d] # <<>> => n2[d][1] = n[d][1]
    PROVE  WriteRight(n2, woff)
<1>1. \A d \in Dests : Mid(n, d) => n2[d][1] = n[d][1]
  BY DEF Mid
<1> QED
  BY <1>1 DEF WriteRight

-----------------------------------------------------------------------------
(* Stored beats *)

\* A request is sent: none of its beats is stored.
Unstored(S, n, A, n2, fifo, iss, fifo2, iss2) ==
    /\ InNet(n2) = InNet(n) \cup A
    /\ \A f \in S, g \in A : ~Same(f, g)
    /\ \A d \in Dests : Mid(n2, d) <=> Mid(n, d)
    /\ \A d \in Dests : n[d] # <<>> => n2[d][1] = n[d][1]
    /\ \A f \in S : f.beat.id \in Ids
    /\ \A i \in Ids : Oldest(fifo2, iss2, i) = Oldest(fifo, iss, i)

\* The stored beats are as they were.
LEMMA StoredBehind ==
    ASSUME NEW S, NEW n, NEW fifo, NEW iss, NEW peek, NEW roff,
           StoredRight(S, n, fifo, iss, peek, roff), NEW n2, NEW A, NEW fifo2, NEW iss2,
           Unstored(S, n, A, n2, fifo, iss, fifo2, iss2)
    PROVE  StoredRight(S, n2, fifo2, iss2, peek, roff)
<1>a. /\ InNet(n2) = InNet(n) \cup A
      /\ \A f \in S, g \in A : ~Same(f, g)
      /\ \A d \in Dests : Mid(n2, d) <=> Mid(n, d)
      /\ \A d \in Dests : n[d] # <<>> => n2[d][1] = n[d][1]
      /\ \A f \in S : f.beat.id \in Ids
      /\ \A i \in Ids : Oldest(fifo2, iss2, i) = Oldest(fifo, iss, i)
  BY DEF Unstored
<1>1. \A f \in S : First(f, fifo2, iss2) <=> First(f, fifo, iss)
  BY <1>a DEF First
<1>2. \A f \in S, g \in InNet(n2) : Same(f, g) => g \in InNet(n)
  BY <1>a
<1>3. \A f \in S, g \in InNet(n2) : Same(f, g) => f.beat.pos < g.beat.pos
  BY <1>2 DEF StoredRight
<1>4. ASSUME NEW f \in S, First(f, fifo2, iss2)
      PROVE  /\ peek = f.beat.id /\ roff[f.beat.id] < f.beat.pos
             /\ \E g \in S : Same(f, g) /\ g.beat.pos = roff[f.beat.id] + 1
             /\ \A g \in InNet(n2) : ~Same(f, g)
             /\ \A d \in Dests : ~MidOf(n2, d, f.beat.id)
  <2>1. First(f, fifo, iss)
    BY <1>1, <1>4
  <2>2. /\ peek = f.beat.id /\ roff[f.beat.id] < f.beat.pos
        /\ \E g \in S : Same(f, g) /\ g.beat.pos = roff[f.beat.id] + 1
        /\ \A g \in InNet(n) : ~Same(f, g)
        /\ \A d \in Dests : ~MidOf(n, d, f.beat.id)
    BY <2>1 DEF StoredRight
  <2>3. \A d \in Dests : ~MidOf(n2, d, f.beat.id)
    BY <1>a, <2>2 DEF MidOf, Mid
  <2> QED
    BY <1>2, <2>2, <2>3
<1>5. peek \in Ids /\ roff \in [Ids -> Nat]
  BY DEF StoredRight
<1>6. \A id \in Ids : roff[id] # 0 => \E f \in S : f.beat.id = id /\ First(f, fifo2, iss2)
  BY <1>1 DEF StoredRight
<1> QED
  BY <1>3, <1>4, <1>5, <1>6 DEF StoredRight

\* The number of a request that is outstanding.
LEMMA NumberBounds ==
    ASSUME NEW G, G \subseteq Flits, NEW fifo, NEW iss, EntriesRight(G, fifo, iss),
           NEW f \in G
    PROVE  /\ Oldest(fifo, iss, f.beat.id) <= f.beat.num /\ f.beat.num < iss[f.beat.id]
           /\ f.beat.id \in Ids /\ f.beat.num \in Nat
BY EntryOf, FlitTypes

-----------------------------------------------------------------------------
(* What is owed *)

\* The oldest beat outstanding is the first that is owed.
LEMMA OwedHead ==
    ASSUME NEW G, BurstsWhole(G), NEW fifo, NEW iss, EntriesRight(G, fifo, iss),
           NEW o, OwedRight(G, o), NEW f \in G, First(f, fifo, iss),
           \A g \in G : Same(f, g) => f.beat.pos <= g.beat.pos
    PROVE  /\ f.beat.id \in Ids /\ o[f.beat.id] \in Seq(Beats) /\ o[f.beat.id] # <<>>
           /\ Head(o[f.beat.id]) = f.beat /\ o[f.beat.id][1] = f.beat
<1> DEFINE id == f.beat.id
           q == o[id]
<1>1. G \subseteq Flits
  BY DEF BurstsWhole
<1>2. id \in Ids /\ q \in Seq(Beats) /\ Len(q) \in Nat /\ DOMAIN q = 1 .. Len(q)
  <2>1. id \in Ids
    BY <1>1, FlitTypes
  <2>2. q \in Seq(Beats)
    BY <2>1 DEF OwedRight
  <2> HIDE DEF q
  <2> QED
    BY <2>1, <2>2, LenProperties
<1>3. PICK k \in DOMAIN q : q[k] = f.beat
  BY DEF OwedRight
<1>4. 1 \in DOMAIN q
  <2> HIDE DEF q
  <2> QED
    BY <1>2
<1>5. q # <<>> /\ Head(q) = q[1]
  <2> HIDE DEF q
  <2>1. q # <<>>
    BY <1>2, <1>4, EmptySeq
  <2> QED
    BY <1>2, <2>1, HeadTailProperties
<1>6. k = 1
  <2> SUFFICES ASSUME k # 1 PROVE FALSE
    OBVIOUS
  <2>1. 1 < k
    <3> HIDE DEF q
    <3> QED
      BY <1>2
  <2>2. After(q[1], q[k])
    BY <1>2, <1>4, <2>1 DEF OwedRight
  <2>3. PICK g \in G : g.beat = q[1] /\ g.beat.id = id
    BY <1>2, <1>4 DEF OwedRight
  <2>4. After(g.beat, f.beat)
    BY <1>3, <2>2, <2>3
  <2>5. /\ Oldest(fifo, iss, id) <= g.beat.num /\ f.beat.num = Oldest(fifo, iss, id)
        /\ g.beat.num \in Nat /\ f.beat.num \in Nat
    <3>1. Oldest(fifo, iss, g.beat.id) <= g.beat.num /\ g.beat.num \in Nat
      BY <1>1, NumberBounds
    <3>2. f.beat.num \in Nat
      BY <1>1, NumberBounds
    <3> QED
      BY <2>3, <3>1, <3>2 DEF First
  <2>6. g.beat.num = f.beat.num /\ g.beat.pos < f.beat.pos
    BY <2>4, <2>5 DEF After
  <2>7. Same(f, g)
    BY <2>3, <2>6 DEF Same
  <2>8. f.beat.pos \in Nat /\ g.beat.pos \in Nat /\ f.beat.pos <= g.beat.pos
    BY <1>1, <2>7, FlitTypes
  <2> QED
    BY <2>6, <2>8
<1> QED
  BY <1>2, <1>3, <1>5, <1>6

\* The first beat owed to an ID is the first outstanding one of its oldest
\* request.
LEMMA OwedServed ==
    ASSUME NEW G, BurstsWhole(G), NEW fifo, NEW iss, EntriesRight(G, fifo, iss),
           NEW o, OwedRight(G, o), NEW f \in G, First(f, fifo, iss),
           \A g \in G : Same(f, g) => f.beat.pos <= g.beat.pos,
           NEW o2, o2 = [o EXCEPT ![f.beat.id] = Tail(@)]
    PROVE  OwedRight(G \ {f}, o2)
<1> DEFINE id == f.beat.id
           q == o[id]
           r == o2[id]
           R == G \ {f}
<1>1. /\ id \in Ids /\ q \in Seq(Beats) /\ q # <<>> /\ q[1] = f.beat
  BY OwedHead
<1>2. o \in [Ids -> Seq(Beats)] /\ G \subseteq Flits
  BY DEF OwedRight, BurstsWhole
<1>3. r = Tail(q) /\ \A i \in Ids : i # id => o2[i] = o[i]
  BY <1>1, <1>2
<1>4. /\ Len(q) \in Nat /\ DOMAIN q = 1 .. Len(q) /\ r \in Seq(Beats) /\ DOMAIN r = 1 .. Len(q) - 1
      /\ \A k \in 1 .. Len(q) - 1 : r[k] = q[k + 1]
      /\ Len(q) # 0
  <2> HIDE DEF q, r
  <2>1. Len(q) \in Nat /\ DOMAIN q = 1 .. Len(q) /\ Len(q) # 0
    BY <1>1, LenProperties, EmptySeq
  <2>2. r \in Seq(Beats) /\ Len(r) = Len(q) - 1 /\ \A k \in 1 .. Len(q) - 1 : r[k] = q[k + 1]
    BY <1>1, <1>3, HeadTailProperties
  <2>3. DOMAIN r = 1 .. Len(r)
    BY <2>2, LenProperties
  <2> QED
    BY <2>1, <2>2, <2>3
<1>5. o2 \in [Ids -> Seq(Beats)]
  <2>1. o2 = [o EXCEPT ![id] = r]
    BY <1>1, <1>2, <1>3
  <2> HIDE DEF r, id
  <2> QED
    BY <1>2, <1>4, <2>1
<1> DEFINE m == Len(q)
<1>6. /\ m \in Nat /\ m # 0 /\ DOMAIN q = 1 .. m /\ DOMAIN r = 1 .. m - 1
      /\ \A k \in 1 .. m - 1 : r[k] = q[k + 1]
  BY <1>4
<1> HIDE DEF m, q, r
<1>7. ASSUME NEW k \in DOMAIN r
      PROVE  /\ k \in Nat /\ k + 1 \in DOMAIN q /\ r[k] = q[k + 1] /\ 1 < k + 1 /\ 1 \in DOMAIN q
  BY <1>6, <1>7
<1>8. \A k, l \in DOMAIN q : k < l => After(q[k], q[l])
  BY <1>1 DEF OwedRight, q
<1>9. \A k \in DOMAIN q : \E g \in G : g.beat = q[k] /\ g.beat.id = id
  BY <1>1 DEF OwedRight, q
<1>10. ASSUME NEW i \in Ids, NEW k \in DOMAIN o2[i], NEW l \in DOMAIN o2[i], k < l
       PROVE  After(o2[i][k], o2[i][l])
  <2>1. CASE i = id
    <3>1. k \in DOMAIN r /\ l \in DOMAIN r
      BY <1>10, <2>1 DEF r
    <3>2. k + 1 < l + 1
      BY <1>7, <1>10, <3>1
    <3>3. After(q[k + 1], q[l + 1])
      BY <1>7, <1>8, <3>1, <3>2
    <3> QED
      BY <1>7, <2>1, <3>1, <3>3 DEF r
  <2>2. CASE i # id
    BY <1>3, <1>10, <2>2 DEF OwedRight
  <2> QED
    BY <2>1, <2>2
<1>11. ASSUME NEW i \in Ids, NEW k \in DOMAIN o2[i]
       PROVE  \E g \in R : g.beat = o2[i][k] /\ g.beat.id = i
  <2>1. CASE i = id
    <3>1. k \in DOMAIN r
      BY <1>11, <2>1 DEF r
    <3>2. PICK g \in G : g.beat = q[k + 1] /\ g.beat.id = id
      BY <1>7, <1>9, <3>1
    <3>3. After(q[1], q[k + 1])
      BY <1>7, <1>8, <3>1
    <3>4. g # f
      <4> SUFFICES ASSUME g = f PROVE FALSE
        OBVIOUS
      <4>1. After(f.beat, f.beat)
        BY <1>1, <3>2, <3>3 DEF q
      <4>2. f.beat.num \in Nat /\ f.beat.pos \in Nat
        BY <1>2, FlitTypes
      <4> DEFINE u == f.beat.num
                 v == f.beat.pos
      <4>3. (u < u \/ v < v) /\ u \in Nat /\ v \in Nat
        BY <4>1, <4>2 DEF After
      <4> HIDE DEF u, v
      <4> QED
        BY <4>3
    <3>5. g.beat = o2[i][k]
      BY <1>7, <2>1, <3>1, <3>2 DEF r
    <3> QED
      BY <2>1, <3>2, <3>4, <3>5
  <2>2. CASE i # id
    <3>1. k \in DOMAIN o[i] /\ o2[i][k] = o[i][k]
      BY <1>3, <1>11, <2>2
    <3>2. PICK g \in G : g.beat = o[i][k] /\ g.beat.id = i
      BY <3>1 DEF OwedRight
    <3>3. g # f
      BY <2>2, <3>2
    <3> QED
      BY <3>1, <3>2, <3>3
  <2> QED
    BY <2>1, <2>2
<1>12. ASSUME NEW g \in R
       PROVE  \E k \in DOMAIN o2[g.beat.id] : o2[g.beat.id][k] = g.beat
  <2>1. PICK k \in DOMAIN o[g.beat.id] : o[g.beat.id][k] = g.beat
    BY DEF OwedRight
  <2>2. g.beat.id \in Ids
    BY <1>2, FlitTypes
  <2>3. CASE g.beat.id # id
    BY <1>3, <2>1, <2>2, <2>3
  <2>4. CASE g.beat.id = id
    <3>1. k \in DOMAIN q /\ q[k] = g.beat
      BY <2>1, <2>4 DEF q
    <3>2. k # 1
      <4> SUFFICES ASSUME k = 1 PROVE FALSE
        OBVIOUS
      <4>1. g.beat = f.beat
        BY <1>1, <3>1 DEF q
      <4>2. Same(f, g)
        BY <4>1 DEF Same
      <4>3. f = g
        BY <4>1, <4>2 DEF BurstsWhole
      <4> QED
        BY <4>3
    <3>3. k - 1 \in 1 .. m - 1 /\ (k - 1) + 1 = k
      BY <1>6, <3>1, <3>2
    <3>4. k - 1 \in DOMAIN r /\ r[k - 1] = g.beat
      BY <1>6, <3>1, <3>3
    <3> QED
      BY <2>4, <3>4 DEF r
  <2> QED
    BY <2>3, <2>4
<1> HIDE DEF R
<1>13. OwedRight(R, o2)
  BY <1>5, <1>10, <1>11, <1>12 DEF OwedRight
<1> QED
  BY <1>13 DEF R

\* A request is sent, and its beats are owed.
LEMMA OwedAdded ==
    ASSUME NEW G, G \subseteq Flits, NEW o, OwedRight(G, o),
           NEW id \in Ids, NEW num \in Nat, NEW len \in Nat, NEW tag, NEW a,
           AnswerOf(a, id, num, len, tag),
           \A g \in G : g.beat.id = id => g.beat.num < num,
           NEW b \in Seq(Beats), Len(b) = len + 1, \A k \in 1 .. len + 1 : b[k] = a[k].beat,
           NEW o2, o2 = [o EXCEPT ![id] = @ \o b]
    PROVE  OwedRight(G \cup BeatsOf(a, len), o2)
<1> DEFINE q == o[id]
           r == o2[id]
           m == Len(q)
           A == BeatsOf(a, len)
           H == G \cup A
<1>1. o \in [Ids -> Seq(Beats)]
  BY DEF OwedRight
<1>2. q \in Seq(Beats) /\ r = q \o b /\ \A i \in Ids : i # id => o2[i] = o[i]
  BY <1>1
<1> HIDE DEF q, r
<1>3. m \in Nat /\ DOMAIN q = 1 .. m
  BY <1>2, LenProperties
<1>4. /\ r \in Seq(Beats) /\ Len(r) = Len(q) + Len(b)
      /\ \A i \in 1 .. Len(q) + Len(b) :
              r[i] = IF i <= Len(q) THEN q[i] ELSE b[i - Len(q)]
  BY <1>2, ConcatProperties
<1>5. DOMAIN r = 1 .. m + (len + 1)
  BY <1>4, LenProperties
<1>6. \A i \in 1 .. m + (len + 1) : r[i] = IF i <= m THEN q[i] ELSE b[i - m]
  BY <1>4
<1> HIDE DEF m
<1>7. o2 \in [Ids -> Seq(Beats)]
  <2>1. o2 = [o EXCEPT ![id] = r]
    BY <1>1, <1>2 DEF q
  <2> QED
    BY <1>1, <1>4, <2>1
<1>8. ASSUME NEW k \in DOMAIN r
      PROVE  \/ k \in DOMAIN q /\ r[k] = q[k] /\ k <= m
             \/ k - m \in 1 .. len + 1 /\ r[k] = a[k - m].beat /\ m < k
  <2>1. k \in 1 .. m + (len + 1)
    BY <1>5, <1>8
  <2>2. CASE k <= m
    <3>1. k \in 1 .. m
      BY <1>3, <2>1, <2>2
    <3> QED
      BY <1>3, <1>6, <2>1, <2>2, <3>1
  <2>3. CASE ~ (k <= m)
    <3>1. k - m \in 1 .. len + 1 /\ m < k
      BY <1>3, <2>1, <2>3
    <3>2. r[k] = b[k - m]
      BY <1>6, <2>1, <2>3
    <3> QED
      BY <3>1, <3>2
  <2> QED
    BY <2>2, <2>3
<1>9. \A k \in 1 .. len + 1 : /\ a[k].beat.id = id /\ a[k].beat.num = num /\ a[k].beat.pos = k
  BY DEF AnswerOf
<1>10. \A k \in 1 .. len + 1 : a[k] \in H
  BY DEF BeatsOf
<1>11. ASSUME NEW k \in DOMAIN q PROVE \E g \in G : g.beat = q[k] /\ g.beat.id = id
  BY <1>11 DEF q, OwedRight
<1>12. ASSUME NEW i \in Ids, NEW k \in DOMAIN o2[i], NEW l \in DOMAIN o2[i], k < l
       PROVE  After(o2[i][k], o2[i][l])
  <2>1. CASE i # id
    BY <1>2, <1>12, <2>1 DEF OwedRight
  <2>2. CASE i = id
    <3>1. k \in DOMAIN r /\ l \in DOMAIN r /\ k \in 1 .. m + (len + 1) /\ l \in 1 .. m + (len + 1)
      BY <1>5, <1>12, <2>2 DEF r
    <3>2. CASE k \in DOMAIN q /\ r[k] = q[k] /\ k <= m
      <4>1. CASE l \in DOMAIN q /\ r[l] = q[l]
        <5>1. After(q[k], q[l])
          BY <1>12, <3>2, <4>1 DEF q, OwedRight
        <5> QED
          BY <2>2, <3>2, <4>1, <5>1 DEF r
      <4>2. CASE l - m \in 1 .. len + 1 /\ r[l] = a[l - m].beat
        <5>1. r[l].num = num
          BY <1>9, <4>2
        <5>2. r[k].num < num
          BY <1>11, <3>2
        <5>3. After(r[k], r[l])
          BY <5>1, <5>2 DEF After
        <5> QED
          BY <2>2, <5>3 DEF r
      <4> QED
        BY <1>8, <3>1, <4>1, <4>2
    <3>3. CASE k - m \in 1 .. len + 1 /\ r[k] = a[k - m].beat /\ m < k
      <4>1. ~ (l <= m) /\ k - m < l - m
        BY <1>3, <1>12, <3>1, <3>3
      <4>2. l - m \in 1 .. len + 1 /\ r[l] = a[l - m].beat
        BY <1>8, <3>1, <4>1
      <4>3. r[k].num = num /\ r[l].num = num /\ r[k].pos = k - m /\ r[l].pos = l - m
        BY <1>9, <3>3, <4>2
      <4>4. After(r[k], r[l])
        BY <4>1, <4>3 DEF After
      <4> QED
        BY <2>2, <4>4 DEF r
    <3> QED
      BY <1>8, <3>1, <3>2, <3>3
  <2> QED
    BY <2>1, <2>2
<1>13. ASSUME NEW i \in Ids, NEW k \in DOMAIN o2[i]
       PROVE  \E g \in H : g.beat = o2[i][k] /\ g.beat.id = i
  <2>1. CASE i # id
    <3>1. k \in DOMAIN o[i] /\ o2[i][k] = o[i][k]
      BY <1>2, <1>13, <2>1
    <3>2. \E g \in G : g.beat = o[i][k] /\ g.beat.id = i
      BY <3>1 DEF OwedRight
    <3> QED
      BY <3>1, <3>2
  <2>2. CASE i = id
    <3>1. k \in DOMAIN r
      BY <1>13, <2>2 DEF r
    <3>2. CASE k \in DOMAIN q /\ r[k] = q[k]
      <4>1. PICK g \in G : g.beat = q[k] /\ g.beat.id = id
        BY <1>11, <3>2
      <4> QED
        BY <2>2, <3>2, <4>1 DEF r
    <3>3. CASE k - m \in 1 .. len + 1 /\ r[k] = a[k - m].beat
      <4>1. a[k - m] \in H /\ a[k - m].beat.id = id
        BY <1>9, <1>10, <3>3
      <4> QED
        BY <2>2, <3>3, <4>1 DEF r
    <3> QED
      BY <1>8, <3>1, <3>2, <3>3
  <2> QED
    BY <2>1, <2>2
<1>14. ASSUME NEW g \in H
       PROVE  \E k \in DOMAIN o2[g.beat.id] : o2[g.beat.id][k] = g.beat
  <2>1. CASE g \in G
    <3>1. PICK k \in DOMAIN o[g.beat.id] : o[g.beat.id][k] = g.beat
      BY <2>1 DEF OwedRight
    <3>2. CASE g.beat.id # id
      <4>1. g.beat.id \in Ids
        BY <2>1, FlitTypes
      <4> QED
        BY <1>2, <3>1, <3>2, <4>1
    <3>3. CASE g.beat.id = id
      <4>1. k \in DOMAIN q /\ q[k] = g.beat
        BY <3>1, <3>3 DEF q
      <4>2. k \in 1 .. m + (len + 1) /\ k <= m
        BY <1>3, <4>1
      <4>3. k \in DOMAIN r /\ r[k] = g.beat
        BY <1>5, <1>6, <4>1, <4>2
      <4> QED
        BY <3>3, <4>3 DEF r
    <3> QED
      BY <3>2, <3>3
  <2>2. CASE g \in A
    <3>1. PICK k \in 1 .. len + 1 : g = a[k]
      BY <2>2 DEF BeatsOf
    <3>2. m + k \in 1 .. m + (len + 1) /\ ~ (m + k <= m) /\ (m + k) - m = k
      BY <1>3
    <3>3. m + k \in DOMAIN r /\ r[m + k] = b[k]
      BY <1>5, <1>6, <3>2
    <3>4. b[k] = g.beat /\ g.beat.id = id
      BY <1>9, <3>1
    <3> QED
      BY <3>3, <3>4 DEF r
  <2> QED
    BY <2>1, <2>2
<1> HIDE DEF H
<1>15. OwedRight(H, o2)
  BY <1>7, <1>12, <1>13, <1>14 DEF OwedRight
<1> QED
  BY <1>15 DEF H


-----------------------------------------------------------------------------
(* What the request side of a cycle does *)

\* A non-empty set of numbers has a least one.
LEMMA LeastNat ==
    ASSUME NEW T, T \subseteq Nat, T # {}
    PROVE  \E x \in T : \A y \in T : x <= y
<1> DEFINE R == OpToRel(<, Nat)
<1>1. IsWellFoundedOn(R, Nat)
  BY NatLessThanWellFounded
<1>2. \A x, y \in Nat : y < x => <<y, x>> \in R
  BY DEF OpToRel
<1> HIDE DEF R
<1>3. PICK x \in T : \A y \in T : ~ (<<y, x>> \in R)
  BY <1>1, WFMin
<1>4. ASSUME NEW y \in T PROVE x <= y
  <2>1. x \in Nat /\ y \in Nat /\ ~ (y < x)
    BY <1>2, <1>3, <1>4
  <2> QED
    BY <2>1
<1> QED
  BY <1>4

\* The slots that are handed out next are above all flags.
LEMMA FreeSlots ==
    ASSUME rob_alloc_q \subseteq Slots
    PROVE  /\ rob_next_free_idx \in Nat
           /\ \A len \in Nat : rob_free_space > len =>
                 /\ LastSlot(len) = rob_next_free_idx + len
                 /\ rob_next_free_idx + len \in Slots
                 /\ \A s \in rob_alloc_q : s < rob_next_free_idx
<1> DEFINE size == RoBSize
           top == rob_free_space
           A == rob_alloc_q
<1>1. size \in Nat /\ size >= 2 /\ Slots = 0 .. size - 1 /\ IdxSpan \in Nat /\ size <= IdxSpan
  BY SpanFacts
<1>2. top = IF A = {} THEN size - 1
            ELSE CHOOSE n \in 0 .. size - 1 :
                    size - 1 - n \in A /\ \A s \in A : s <= size - 1 - n
  BY DEF rob_free_space
<1> HIDE DEF size, top, A
<1>a. A \subseteq 0 .. size - 1
  BY <1>1 DEF A
<1>3. /\ top \in 0 .. size - 1
      /\ \A s \in A : s <= size - 1 - top
      /\ A = {} => top = size - 1
  <2>1. CASE A = {}
    BY <1>1, <1>2, <2>1
  <2>2. CASE A # {}
    <3> DEFINE T == {n \in 0 .. size - 1 : size - 1 - n \in A}
    <3>1. PICK s \in A : TRUE
      BY <2>2
    <3>2. size - 1 - s \in 0 .. size - 1 /\ size - 1 - (size - 1 - s) = s
      BY <1>1, <1>a
    <3>3. T \subseteq Nat /\ T # {}
      BY <1>1, <3>2
    <3> HIDE DEF T
    <3>4. PICK n \in T : \A m \in T : n <= m
      BY <3>3, LeastNat
    <3>5. n \in 0 .. size - 1 /\ size - 1 - n \in A
      BY DEF T
    <3>6. ASSUME NEW t \in A PROVE t <= size - 1 - n
      <4>1. size - 1 - t \in 0 .. size - 1 /\ size - 1 - (size - 1 - t) = t /\ t \in Nat
        BY <1>1, <1>a
      <4>2. size - 1 - t \in T
        BY <4>1 DEF T
      <4>3. n <= size - 1 - t
        BY <3>4, <4>2
      <4> QED
        BY <1>1, <3>5, <4>1, <4>3
    <3>7. \E k \in 0 .. size - 1 : size - 1 - k \in A /\ \A t \in A : t <= size - 1 - k
      BY <3>5, <3>6
    <3>8. top = CHOOSE k \in 0 .. size - 1 :
                    size - 1 - k \in A /\ \A t \in A : t <= size - 1 - k
      BY <1>2, <2>2
    <3> QED
      BY <2>2, <3>7, <3>8
  <2> QED
    BY <2>1, <2>2
<1> DEFINE idx == rob_next_free_idx
<1>4. idx = (size - top) % IdxSpan
  BY DEF rob_next_free_idx, RobIdx, size, top
<1> HIDE DEF idx
<1>5. idx \in Nat
  <2>1. size - top \in Int /\ IdxSpan > 0
    BY <1>1, <1>3
  <2> QED
    BY <1>1, <1>4, <2>1
<1>6. ASSUME NEW len \in Nat, top > len
      PROVE  /\ LastSlot(len) = idx + len
             /\ idx + len \in Slots
             /\ \A s \in A : s < idx
  <2>1. size - top \in 0 .. size - 1
    BY <1>1, <1>3, <1>6
  <2>2. idx = size - top
    BY <1>1, <1>4, <2>1
  <2>3. idx + len \in 0 .. size - 1
    BY <1>1, <1>3, <1>6, <2>2
  <2>4. idx + len \in Slots
    BY <1>1, <2>3
  <2>5. LastSlot(len) = idx + len
    BY <2>4, IdxKept DEF LastSlot, idx
  <2>6. ASSUME NEW s \in A PROVE s < idx
    BY <1>1, <1>3, <1>a, <2>2, <2>6
  <2> QED
    BY <2>4, <2>5, <2>6
<1> QED
  BY <1>5, <1>6 DEF idx, top, A

\* The answer to a request.
LEMMA AnswerRight ==
    ASSUME ax \in Requests, issued \in [Ids -> Nat], NEW tag \in Tags
    PROVE  /\ AnswerOf(Answer(tag), ax.id, issued[ax.id], ax.len, tag)
           /\ Burst(ax.id, issued[ax.id], ax.len) \in Seq(Beats)
           /\ Len(Burst(ax.id, issued[ax.id], ax.len)) = ax.len + 1
           /\ \A k \in 1 .. ax.len + 1 :
                 Burst(ax.id, issued[ax.id], ax.len)[k] = Answer(tag)[k].beat
           /\ ax.id \in Ids /\ ax.dest \in Dests /\ ax.len \in Nat /\ ax.len \in Lens
           /\ BurstIds = {} => ax.len = 0
<1> DEFINE id == ax.id
           len == ax.len
           num == issued[ax.id]
           b == Burst(id, num, len)
           a == Answer(tag)
<1>1. id \in Ids /\ ax.dest \in Dests /\ len \in Nat /\ len \in Lens
  BY RequestTypes
<1>2. BurstIds = {} => len = 0
  BY DEF Requests
<1>3. num \in Nat
  BY <1>1
<1>4. a = [k \in DOMAIN b |-> [beat |-> b[k], tag |-> tag]]
  BY DEF Answer
<1>5. b = [k \in 1 .. (len + 1) |->
              [id |-> id, num |-> num, pos |-> k, last |-> k = len + 1]]
  BY DEF Burst
<1> HIDE DEF id, len, num, a, b
<1>6. b \in [1 .. len + 1 -> Beats]
  <2>1. \A k \in 1 .. len + 1 :
           [id |-> id, num |-> num, pos |-> k, last |-> k = len + 1] \in Beats
    BY <1>1, <1>3 DEF Beats
  <2> QED
    BY <1>5, <2>1
<1>7. /\ DOMAIN b = 1 .. len + 1
      /\ \A k \in 1 .. len + 1 : /\ b[k].id = id /\ b[k].num = num /\ b[k].pos = k
                                 /\ (b[k].last <=> k = len + 1)
  <2>1. DOMAIN b = 1 .. len + 1
    BY <1>5
  <2>2. ASSUME NEW k \in 1 .. len + 1
        PROVE  b[k].id = id /\ b[k].num = num /\ b[k].pos = k /\ (b[k].last <=> k = len + 1)
    <3> DEFINE v == k = len + 1
    <3>1. b[k] = [id |-> id, num |-> num, pos |-> k, last |-> v]
      BY <1>5
    <3> HIDE DEF v
    <3>2. b[k].id = id /\ b[k].num = num /\ b[k].pos = k /\ b[k].last = v
      BY <3>1
    <3> QED
      BY <3>2 DEF v
  <2> QED
    BY <2>1, <2>2
<1>8. /\ a \in [1 .. len + 1 -> Flits]
      /\ \A k \in 1 .. len + 1 : a[k].beat = b[k] /\ a[k].tag = tag
  <2>1. \A k \in 1 .. len + 1 : [beat |-> b[k], tag |-> tag] \in Flits
    BY <1>6 DEF Flits
  <2>2. a \in [1 .. len + 1 -> Flits]
    BY <1>4, <1>7, <2>1
  <2>3. \A k \in 1 .. len + 1 : a[k] = [beat |-> b[k], tag |-> tag]
    BY <1>4, <1>7
  <2> QED
    BY <2>2, <2>3
<1>9. a \in Seq(Flits) /\ b \in Seq(Beats)
  BY <1>1, <1>6, <1>8, SeqDef
<1>10. Len(a) = len + 1 /\ Len(b) = len + 1
  <2>1. DOMAIN a = 1 .. len + 1
    BY <1>8
  <2>2. /\ 1 .. Len(a) = 1 .. len + 1 /\ 1 .. Len(b) = 1 .. len + 1
        /\ Len(a) \in Nat /\ Len(b) \in Nat
    BY <1>7, <1>9, <2>1, LenProperties
  <2> QED
    BY <1>1, <2>2
<1>11. AnswerOf(a, id, num, len, tag)
  BY <1>7, <1>8, <1>9, <1>10 DEF AnswerOf
<1>12. \A k \in 1 .. len + 1 : b[k] = a[k].beat
  BY <1>8
<1> QED
  BY <1>1, <1>2, <1>9, <1>10, <1>11, <1>12 DEF id, len, num, a, b


\* A request that may leave, what leaving changes, and the reorder flags after it.
Fits(n, fifo, iss, alloc, sticky, prev, id, e, len, tag, a) ==
    /\ id \in Ids /\ e \in Dests /\ len \in Nat /\ len \in Lens /\ (BurstIds = {} => len = 0)
    /\ tag \in Tags /\ AnswerOf(a, id, iss[id], len, tag)
    /\ Len(fifo[id]) < MaxRoTxnsPerId
    /\ tag.rob_req => /\ tag.rob_idx + len \in Slots
                      /\ \A s \in alloc : s < tag.rob_idx
    /\ ~tag.rob_req =>
          /\ \A d \in Dests : \A k \in DOMAIN n[d] : n[d][k].beat.id = id => d = e
          /\ \A k \in DOMAIN fifo[id] : ~fifo[id][k].rob_req
Sent(n, fifo, iss, alloc, prev, id, e, len, tag, a, n2, fifo2, iss2, alloc2, prev2) ==
    /\ Behind(n, e, a, n2) /\ Pushed(fifo, iss, id, tag, fifo2, iss2)
    /\ alloc2 = alloc \cup (IF tag.rob_req THEN {tag.rob_idx + len} ELSE {})
    /\ prev2 \in [Ids -> Dests] /\ prev2[id] = e
    /\ \A i \in Ids : i # id => prev2[i] = prev[i]
Flagged(fifo, sticky, id, tag, sticky2) ==
    /\ sticky2 \in [Ids -> BOOLEAN]
    /\ \A i \in Ids : i # id /\ ~sticky2[i] => ~sticky[i] \/ fifo[i] = <<>>
    /\ ~sticky2[id] => ~tag.rob_req

\* A request leaves.
LEMMA CoreAdded ==
    ASSUME NEW n, NEW S, NEW fifo, NEW iss, NEW alloc, NEW sticky, NEW prev, NEW woff,
           NEW peek, NEW roff, Core(n, S, fifo, iss, alloc, sticky, prev, woff, peek, roff),
           NEW id, NEW e, NEW len, NEW tag, NEW a, NEW n2, NEW fifo2, NEW iss2, NEW alloc2,
           NEW sticky2, NEW prev2,
           Fits(n, fifo, iss, alloc, sticky, prev, id, e, len, tag, a),
           Sent(n, fifo, iss, alloc, prev, id, e, len, tag, a, n2, fifo2, iss2, alloc2, prev2),
           Flagged(fifo, sticky, id, tag, sticky2)
    PROVE  Core(n2, S, fifo2, iss2, alloc2, sticky2, prev2, woff, peek, roff)
<1> DEFINE G == InNet(n) \cup S
           A == BeatsOf(a, len)
           num == iss[id]
<1>a. /\ id \in Ids /\ e \in Dests /\ len \in Nat /\ len \in Lens /\ (BurstIds = {} => len = 0)
      /\ tag \in Tags /\ AnswerOf(a, id, iss[id], len, tag)
      /\ Len(fifo[id]) < MaxRoTxnsPerId
      /\ tag.rob_req => /\ tag.rob_idx + len \in Slots
                        /\ \A s \in alloc : s < tag.rob_idx
      /\ ~tag.rob_req =>
            /\ \A d \in Dests : \A k \in DOMAIN n[d] : n[d][k].beat.id = id => d = e
            /\ \A k \in DOMAIN fifo[id] : ~fifo[id][k].rob_req
  BY DEF Fits
<1>b. /\ Behind(n, e, a, n2) /\ Pushed(fifo, iss, id, tag, fifo2, iss2)
      /\ alloc2 = alloc \cup (IF tag.rob_req THEN {tag.rob_idx + len} ELSE {})
      /\ prev2 \in [Ids -> Dests] /\ prev2[id] = e
      /\ \A i \in Ids : i # id => prev2[i] = prev[i]
  BY DEF Sent
<1>c. /\ sticky2 \in [Ids -> BOOLEAN]
      /\ \A i \in Ids : i # id /\ ~sticky2[i] => ~sticky[i] \/ fifo[i] = <<>>
      /\ ~sticky2[id] => ~tag.rob_req
  BY DEF Flagged
<1>1. /\ BurstsWhole(G) /\ EntriesRight(G, fifo, iss) /\ SlotsRight(G, alloc)
      /\ QueuesRight(n) /\ DestsRight(n, fifo, sticky, prev) /\ OneMid(n)
      /\ WriteRight(n, woff) /\ StoredRight(S, n, fifo, iss, peek, roff)
      /\ \A i \in Ids : Len(fifo[i]) <= MaxRoTxnsPerId
  BY DEF Core
<1>2. G \subseteq Flits /\ InNet(n) \subseteq G /\ S \subseteq G
  BY <1>1 DEF BurstsWhole
<1>3. iss \in [Ids -> Nat] /\ fifo \in [Ids -> Seq(Tags)] /\ num \in Nat
  BY <1>1, <1>a DEF EntriesRight
<1>4. AnswerOf(a, id, num, len, tag)
  BY <1>a
<1> HIDE DEF num
<1>5. IsBurst(A, id, num, len, tag)
  BY <1>4, <1>a, AnswerIsBurst
<1>6. \A g \in G : g.beat.id = id => g.beat.num < num
  <2> SUFFICES ASSUME NEW g \in G, g.beat.id = id PROVE g.beat.num < iss[id]
    BY DEF num
  <2>1. g.beat.num < iss[g.beat.id]
    BY <1>1, <1>2, NumberBounds
  <2> QED
    BY <2>1
<1>7. InNet(n2) = InNet(n) \cup A
  <2>1. Joined(n, a, len, n2)
    BY <1>1, <1>4, <1>a, <1>b, BehindNet
  <2> QED
    BY <2>1 DEF Joined
<1>8. InNet(n2) \cup S = G \cup A
  BY <1>7
<1> HIDE DEF A
<1>9. QueuesRight(n2)
  <2>1. \A g \in InNet(n) : g.beat.id = id => g.beat.num < num
    BY <1>2, <1>6
  <2> QED
    BY <1>1, <1>3, <1>4, <1>a, <1>b, <2>1, QueuesBehind
<1>10. \A d \in Dests : /\ Mid(n2, d) <=> Mid(n, d)
                        /\ n[d] # <<>> => n2[d] # <<>> /\ n2[d][1] = n[d][1]
  BY <1>1, <1>4, <1>a, <1>b, BehindMid
<1>11. OneMid(n2)
  <2>1. \A d \in Dests : Mid(n2, d) => Mid(n, d) /\ n2[d][1] = n[d][1]
    BY <1>10 DEF Mid
  <2> QED
    BY <1>1, <2>1 DEF OneMid, MidOf
<1> HIDE DEF G
<1>12. BurstsWhole(G \cup A)
  <2>1. \A g \in G : g.beat.id = id => g.beat.num # num
    BY <1>2, <1>3, <1>6, FlitTypes
  <2>2. len \in Lens /\ (BurstIds = {} => len = 0)
    BY <1>a
  <2> QED
    BY ONLY <1>1, <1>5, <2>1, <2>2, BurstsAdded
<1>13. EntriesRight(G \cup A, fifo2, iss2)
  <2>1. IsBurst(A, id, iss[id], len, tag)
    BY <1>5 DEF num
  <2>2. tag.rob_req \/ \A k \in DOMAIN fifo[id] : ~fifo[id][k].rob_req
    BY <1>a
  <2>3. id \in Ids /\ tag \in Tags /\ len \in Nat /\ Pushed(fifo, iss, id, tag, fifo2, iss2)
    BY <1>a, <1>b
  <2> QED
    BY ONLY <1>1, <2>1, <2>2, <2>3, EntriesAdded
<1>14. SlotsRight(G \cup A, alloc2)
  BY ONLY <1>1, <1>5, <1>a, <1>b, SlotsAdded
<1>15. DestsRight(n2, fifo2, sticky2, prev2)
  BY ONLY <1>1, <1>2, <1>4, <1>a, <1>b, <1>c, DestsAdded
<1>16. WriteRight(n2, woff)
  BY <1>1, <1>10, WriteBehind
<1>17. /\ \A i \in Ids : Oldest(fifo2, iss2, i) = Oldest(fifo, iss, i)
       /\ \A i \in Ids : i # id => fifo2[i] = fifo[i]
       /\ Len(fifo[id]) \in Nat /\ Len(fifo2[id]) = Len(fifo[id]) + 1
  <2>1. EntryAppended(fifo, iss, id, tag, fifo2, iss2)
    BY <1>3, <1>a, <1>b, PushedTable
  <2> QED
    BY <2>1 DEF EntryAppended
<1>18. \A i \in Ids : Len(fifo2[i]) <= MaxRoTxnsPerId
  <2>1. Len(fifo2[id]) <= MaxRoTxnsPerId
    BY <1>17, <1>a, SpanFacts
  <2> QED
    BY <1>1, <1>17, <2>1
<1>19. StoredRight(S, n2, fifo2, iss2, peek, roff)
  <2>1. \A f \in S, g \in A : ~Same(f, g)
    <3>1. \A f \in S : f.beat.id = id => f.beat.num # num
      BY <1>2, <1>3, <1>6, FlitTypes
    <3> QED
      BY <1>5, <3>1 DEF IsBurst, Same
  <2>2. \A f \in S : f.beat.id \in Ids
    BY <1>2, FlitTypes
  <2>3. /\ \A d \in Dests : Mid(n2, d) <=> Mid(n, d)
        /\ \A d \in Dests : n[d] # <<>> => n2[d][1] = n[d][1]
    BY <1>10
  <2>4. \A i \in Ids : Oldest(fifo2, iss2, i) = Oldest(fifo, iss, i)
    BY <1>17
  <2> QED
    <3>1. StoredRight(S, n, fifo, iss, peek, roff)
      BY <1>1
    <3>2. Unstored(S, n, A, n2, fifo, iss, fifo2, iss2)
      BY ONLY <1>7, <2>1, <2>2, <2>3, <2>4 DEF Unstored
    <3> QED
      BY ONLY <3>1, <3>2, StoredBehind
<1> QED
  BY <1>8, <1>9, <1>11, <1>12, <1>13, <1>14, <1>15, <1>16, <1>18, <1>19 DEF Core

\* No request leaves.
LEMMA CoreIdle ==
    ASSUME NEW n, NEW S, NEW fifo, NEW iss, NEW alloc, NEW sticky, NEW prev, NEW woff,
           NEW peek, NEW roff, Core(n, S, fifo, iss, alloc, sticky, prev, woff, peek, roff),
           NEW sticky2 \in [Ids -> BOOLEAN],
           \A i \in Ids : ~sticky2[i] => ~sticky[i] \/ fifo[i] = <<>>
    PROVE  Core(n, S, fifo, iss, alloc, sticky2, prev, woff, peek, roff)
<1> DEFINE G == InNet(n) \cup S
<1>1. /\ BurstsWhole(G) /\ EntriesRight(G, fifo, iss) /\ QueuesRight(n)
      /\ DestsRight(n, fifo, sticky, prev)
  BY DEF Core
<1>2. G \subseteq Flits /\ InNet(n) \subseteq G
  BY <1>1 DEF BurstsWhole
<1> HIDE DEF G
<1>3. DestsRight(n, fifo, sticky2, prev)
  BY <1>1, <1>2, DestsIdle
<1> QED
  BY <1>3 DEF Core

-----------------------------------------------------------------------------

\* What the response side of a cycle may leave to the request side.
Afterwards(popped, unset, fifo1) ==
    /\ fifo1 = [id \in Ids |-> IF id = popped THEN Tail(st_fifo[id]) ELSE st_fifo[id]]
    /\ \A id \in Ids : id = popped => st_fifo[id] # <<>>
    /\ st_fifo \in [Ids -> Seq(Tags)] /\ issued \in [Ids -> Nat] /\ rob_alloc_q \subseteq Slots
    /\ \A id \in Ids : Len(st_fifo[id]) <= MaxRoTxnsPerId
    /\ ax_rob_req_q \in [Ids -> BOOLEAN] /\ prev_dest_q \in [Ids -> Dests]

\* The FIFO of an ID is empty once its last entry is popped.
LEMMA UsageKnown ==
    ASSUME NEW popped, NEW unset, NEW fifo1, Afterwards(popped, unset, fifo1), NEW id \in Ids
    PROVE  /\ st_fifo[id] \in Seq(Tags) /\ Len(st_fifo[id]) \in Nat
           /\ FifoUsage(id) = 1 /\ id = popped => fifo1[id] = <<>>
           /\ FifoUsage(id) = 0 /\ Len(st_fifo[id]) < MaxRoTxnsPerId => st_fifo[id] = <<>>
           /\ st_fifo[id] = <<>> => fifo1[id] = <<>>
<1> DEFINE q == st_fifo[id]
           m == MaxRoTxnsPerId
           u == UsageSpan
<1>1. q \in Seq(Tags) /\ Len(q) \in Nat /\ Len(q) <= m
  <2>1. q \in Seq(Tags) /\ Len(q) <= m
    BY DEF Afterwards
  <2> HIDE DEF q
  <2> QED
    BY <2>1, LenProperties
<1>2. m \in Nat /\ m >= 2 /\ u \in Nat /\ m <= u
  BY SpanFacts
<1>3. FifoUsage(id) = Len(q) % u
  BY DEF FifoUsage
<1>4. /\ id = popped => fifo1[id] = Tail(q) /\ q # <<>>
      /\ id # popped => fifo1[id] = q
  BY DEF Afterwards
<1> HIDE DEF q, m, u
<1> DEFINE k == Len(q)
<1>a. k \in Nat /\ k <= m /\ FifoUsage(id) = k % u
  BY <1>1, <1>3
<1> HIDE DEF k
<1>5. k < u => k % u = k
  BY <1>2, <1>a
<1>6. k = u => k % u = 0
  BY <1>2, <1>a
<1>7. k < u \/ k = u
  BY <1>2, <1>a
<1>8. FifoUsage(id) = 1 => k = 1
  BY <1>5, <1>6, <1>7, <1>a
<1>9. FifoUsage(id) = 0 /\ k < m => k = 0
  BY <1>2, <1>5, <1>7, <1>a
<1>10. k = 0 => q = <<>>
  BY <1>1, EmptySeq DEF k
<1>11. ASSUME k = 1 PROVE Tail(q) = <<>>
  <2>1. q # <<>>
    BY <1>11 DEF k
  <2>2. Tail(q) \in Seq(Tags) /\ Len(Tail(q)) = Len(q) - 1
    BY <1>1, <2>1, HeadTailProperties
  <2>3. Len(Tail(q)) = 0
    BY <1>11, <2>2 DEF k
  <2> QED
    BY <2>2, <2>3, EmptySeq
<1>12. FifoUsage(id) = 1 /\ id = popped => fifo1[id] = <<>>
  BY <1>4, <1>8, <1>11
<1>13. q = <<>> => fifo1[id] = <<>>
  BY <1>4
<1> QED
  BY <1>1, <1>9, <1>10, <1>12, <1>13 DEF q, k, m


\* The entry that a request is given.
Entry(seen) == [rob_req |-> ax_rob_req(seen.id, seen.dest), rob_idx |-> rob_next_free_idx]

\* The entry of a request starts at the next free slot.
LEMMA EntryTypes ==
    ASSUME NEW seen, rob_alloc_q \subseteq Slots
    PROVE  /\ Entry(seen) \in Tags /\ Entry(seen).rob_idx = rob_next_free_idx
           /\ Entry(seen).rob_req <=> ax_rob_req(seen.id, seen.dest)
<1> DEFINE need == ax_rob_req(seen.id, seen.dest)
           idx == rob_next_free_idx
<1>1. need \in BOOLEAN
  BY DEF ax_rob_req
<1>2. idx \in Nat
  BY FreeSlots
<1>3. Entry(seen) = [rob_req |-> need, rob_idx |-> idx]
  BY DEF Entry
<1> HIDE DEF need, idx
<1>4. Entry(seen) \in Tags /\ Entry(seen).rob_idx = idx /\ Entry(seen).rob_req = need
  BY <1>1, <1>2, <1>3 DEF Tags
<1>5. Entry(seen).rob_req <=> need
  BY <1>4
<1> QED
  BY <1>4, <1>5 DEF need, idx

TableDone(seen, pushed, fifo1) ==
    /\ st_fifo' \in [Ids -> Seq(Tags)] /\ fifo1 \in [Ids -> Seq(Tags)]
    /\ \A i \in Ids : st_fifo'[i] = IF pushed /\ i = seen.id THEN fifo1[i] \o <<Entry(seen)>>
                                    ELSE fifo1[i]
    /\ ax_rob_req_q' \in [Ids -> BOOLEAN]
    /\ \A i \in Ids : ~ax_rob_req_q'[i] =>
          \/ ~ax_rob_req_q[i] /\ ~ (i = seen.id /\ ax_rob_req(seen.id, seen.dest))
          \/ fifo1[i] = <<>> /\ ~ (pushed /\ i = seen.id)

\* What a cycle makes of the status table, after what the response side does.
LEMMA TableFacts ==
    ASSUME NEW popped, NEW unset, NEW fifo1, Afterwards(popped, unset, fifo1),
           NEW seen, NEW pushed \in BOOLEAN, Table(seen, pushed, popped, unset)
    PROVE  TableDone(seen, pushed, fifo1)
<1> DEFINE need == ax_rob_req(seen.id, seen.dest)
           tag == Entry(seen)
<1>1. st_fifo' = [id \in Ids |->
              (IF id = popped THEN Tail(st_fifo[id]) ELSE st_fifo[id])
              \o (IF pushed /\ id = seen.id THEN <<tag>> ELSE <<>>)]
  BY DEF Table, Entry
<1>2. ax_rob_req_q' = [id \in Ids |->
              /\ ax_rob_req_q[id] \/ (id = seen.id /\ need)
              /\ ~ (id = popped /\ Cleared(seen, pushed, popped))]
  BY DEF Table
<1>3. tag \in Tags
  BY EntryTypes DEF Afterwards
<1> HIDE DEF need, tag
<1>4. ASSUME NEW i \in Ids PROVE fifo1[i] \in Seq(Tags)
  <2>1. st_fifo[i] \in Seq(Tags) /\ (i = popped => st_fifo[i] # <<>>)
    BY DEF Afterwards
  <2>2. fifo1[i] = IF i = popped THEN Tail(st_fifo[i]) ELSE st_fifo[i]
    BY DEF Afterwards
  <2> DEFINE q == st_fifo[i]
  <2> HIDE DEF q
  <2>3. i = popped => Tail(q) \in Seq(Tags)
    BY <2>1, HeadTailProperties DEF q
  <2> QED
    BY <2>1, <2>2, <2>3 DEF q
<1>5. fifo1 \in [Ids -> Seq(Tags)]
  <2>1. fifo1 = [i \in Ids |-> fifo1[i]]
    BY DEF Afterwards
  <2> QED
    BY <1>4, <2>1
<1>6. ASSUME NEW i \in Ids
      PROVE  /\ st_fifo'[i] = IF pushed /\ i = seen.id THEN fifo1[i] \o <<tag>> ELSE fifo1[i]
             /\ st_fifo'[i] \in Seq(Tags)
  <2>1. st_fifo'[i] = fifo1[i] \o (IF pushed /\ i = seen.id THEN <<tag>> ELSE <<>>)
    BY <1>1 DEF Afterwards
  <2> DEFINE q == fifo1[i]
  <2>2. q \in Seq(Tags)
    BY <1>4
  <2>3. CASE pushed /\ i = seen.id
    <3>1. st_fifo'[i] = q \o <<tag>>
      BY <2>1, <2>3
    <3>2. <<tag>> \in Seq(Tags)
      BY <1>3
    <3> HIDE DEF q
    <3>3. q \o <<tag>> \in Seq(Tags)
      BY <2>2, <3>2, ConcatProperties
    <3> QED
      BY <2>3, <3>1, <3>3 DEF q
  <2>4. CASE ~ (pushed /\ i = seen.id)
    <3>1. st_fifo'[i] = q \o <<>>
      BY <2>1, <2>4
    <3> HIDE DEF q
    <3>2. q \o <<>> = q
      BY <2>2, ConcatEmptySeq
    <3> QED
      BY <2>2, <2>4, <3>1, <3>2 DEF q
  <2> QED
    BY <2>3, <2>4
<1>7. st_fifo' \in [Ids -> Seq(Tags)]
  <2>1. st_fifo' = [i \in Ids |-> st_fifo'[i]]
    BY <1>1
  <2> QED
    BY <1>6, <2>1
<1>8. ax_rob_req_q' \in [Ids -> BOOLEAN]
  BY <1>2
<1>9. ASSUME NEW i \in Ids, ~ax_rob_req_q'[i]
      PROVE  \/ ~ax_rob_req_q[i] /\ ~ (i = seen.id /\ need)
             \/ fifo1[i] = <<>> /\ ~ (pushed /\ i = seen.id)
  <2>1. \/ ~ (ax_rob_req_q[i] \/ (i = seen.id /\ need))
        \/ i = popped /\ Cleared(seen, pushed, popped)
    BY <1>2, <1>9
  <2>2. ASSUME i = popped, Cleared(seen, pushed, popped)
        PROVE  fifo1[i] = <<>> /\ ~ (pushed /\ i = seen.id)
    <3>1. FifoUsage(i) = 1 /\ ~ (pushed /\ i = seen.id)
      BY <2>2 DEF Cleared
    <3> QED
      BY <2>2, <3>1, UsageKnown
  <2> QED
    BY <2>1, <2>2
<1> QED
  BY <1>5, <1>6, <1>7, <1>8, <1>9 DEF need, tag, TableDone

RequestsDone(net1, owed1, fifo1, S, woff, peek, roff) ==
    /\ AxInv'
    /\ Core(net', S, st_fifo', issued', rob_alloc_q', ax_rob_req_q', prev_dest_q', woff, peek, roff)
    /\ \A d \in Dests : Mid(net', d) <=> Mid(net1, d)
    /\ \A d \in Dests : net1[d] # <<>> => net'[d] # <<>> /\ net'[d][1] = net1[d][1]
    /\ \A i \in Ids : fifo1[i] # <<>> => st_fifo'[i] # <<>> /\ Head(st_fifo'[i]) = Head(fifo1[i])
    /\ Pushes(owed1)
    /\ OwedRight(InNet(net1) \cup S, owed1) => OwedRight(InNet(net') \cup S, owed')

\* Whatever the response side did, the request side keeps the invariant.
LEMMA RequestSide ==
    ASSUME AxInv, NEW popped, NEW unset, NEW net1, NEW owed1, AxSide(popped, unset, net1, owed1),
           NEW fifo1, Afterwards(popped, unset, fifo1), NEW S, NEW woff, NEW peek, NEW roff,
           Core(net1, S, fifo1, issued, rob_alloc_q \ unset, ax_rob_req_q, prev_dest_q,
                woff, peek, roff)
    PROVE  RequestsDone(net1, owed1, fifo1, S, woff, peek, roff)
<1> DEFINE G == InNet(net1) \cup S
           alloc1 == rob_alloc_q \ unset
<1>1. /\ BurstsWhole(G) /\ EntriesRight(G, fifo1, issued)
      /\ QueuesRight(net1) /\ DestsRight(net1, fifo1, ax_rob_req_q, prev_dest_q)
      /\ Core(net1, S, fifo1, issued, alloc1, ax_rob_req_q, prev_dest_q, woff, peek, roff)
      /\ G \subseteq Flits /\ InNet(net1) \subseteq G
  BY DEF Core, BurstsWhole
<1>2. rob_alloc_q \subseteq Slots /\ alloc1 \subseteq rob_alloc_q
  BY DEF Afterwards
<1> HIDE DEF G, alloc1
<1>3. CASE /\ ax_valid_o
           /\ AxHandshake([rob_req |-> ax_rob_req(ax.id, ax.dest),
                           rob_idx |-> rob_next_free_idx], net1, owed1)
           /\ Table(ax, TRUE, popped, unset)
  <2> DEFINE tag == Entry(ax)
             id == ax.id
             e == ax.dest
             len == ax.len
             a == Answer(tag)
             b == Burst(ax.id, issued[ax.id], ax.len)
  <2>1. ax \in Requests /\ issued \in [Ids -> Nat]
    BY <1>3 DEF AxInv, ax_valid_o
  <2>2. /\ tag \in Tags /\ tag.rob_idx = rob_next_free_idx
        /\ tag.rob_req <=> ax_rob_req(id, e)
    BY <1>2, EntryTypes
  <2>3. /\ AnswerOf(a, id, issued[id], len, tag)
        /\ b \in Seq(Beats) /\ Len(b) = len + 1 /\ \A k \in 1 .. len + 1 : b[k] = a[k].beat
        /\ id \in Ids /\ e \in Dests /\ len \in Nat /\ len \in Lens
        /\ BurstIds = {} => len = 0
    <3> HIDE DEF tag
    <3> QED
      BY <2>1, <2>2, AnswerRight
  <2>4. /\ net' = [net1 EXCEPT ![e] = @ \o a]
        /\ owed' = [owed1 EXCEPT ![id] = @ \o b]
        /\ issued' = [issued EXCEPT ![id] = @ + 1]
        /\ NewAx
    BY <1>3 DEF AxHandshake, Entry
  <2>5. /\ st_fifo' \in [Ids -> Seq(Tags)] /\ fifo1 \in [Ids -> Seq(Tags)]
        /\ \A i \in Ids : st_fifo'[i] = IF i = id THEN fifo1[i] \o <<tag>> ELSE fifo1[i]
        /\ ax_rob_req_q' \in [Ids -> BOOLEAN]
        /\ \A i \in Ids : ~ax_rob_req_q'[i] =>
              \/ ~ax_rob_req_q[i] /\ ~ (i = id /\ ax_rob_req(id, e))
              \/ fifo1[i] = <<>> /\ ~ (i = id)
    <3>1. TRUE \in BOOLEAN /\ Table(ax, TRUE, popped, unset)
      BY <1>3
    <3>2. TableDone(ax, TRUE, fifo1)
      BY <3>1, TableFacts
    <3> QED
      BY <3>2 DEF TableDone
  <2>6. rob_alloc_q' = alloc1 \cup (IF ax_rob_req(id, e) THEN {LastSlot(len)} ELSE {})
    BY <1>3 DEF Table, alloc1
  <2>7. prev_dest_q' = [prev_dest_q EXCEPT ![id] = e]
    BY <1>3 DEF Table
  <2>8. /\ Len(st_fifo[id]) < MaxRoTxnsPerId
        /\ ax_rob_req(id, e) => rob_free_space > len
    BY <1>3 DEF ax_valid_o, st_ax_gnt
  <2>9. ~ax_rob_req(id, e) =>
           /\ ~ax_rob_req_q[id]
           /\ FifoUsage(id) = 0 \/ prev_dest_q[id] = e
    BY DEF ax_rob_req
  <2> HIDE DEF tag, id, e, len, a, b
  <2>10. Behind(net1, e, a, net')
    <3>1. net1 \in [Dests -> Seq(Flits)]
      BY <1>1 DEF QueuesRight
    <3>2. \A d \in Dests : net'[d] = IF d = e THEN net1[d] \o a ELSE net1[d]
      BY <2>4, <3>1
    <3>3. net1[e] \o a \in Seq(Flits)
      <4> DEFINE q == net1[e]
      <4>1. q \in Seq(Flits) /\ a \in Seq(Flits)
        BY <2>3, <3>1 DEF AnswerOf
      <4> HIDE DEF q
      <4>2. q \o a \in Seq(Flits)
        BY <4>1, ConcatProperties
      <4> QED
        BY <4>2 DEF q
    <3>4. net' \in [Dests -> Seq(Flits)]
      BY <2>4, <3>1, <3>3
    <3> QED
      BY <3>2, <3>4 DEF Behind
  <2>11. Pushed(fifo1, issued, id, tag, st_fifo', issued')
    <3>1. issued' \in [Ids -> Nat]
      BY <2>1, <2>3, <2>4
    <3>2. \A i \in Ids : issued'[i] = IF i = id THEN issued[i] + 1 ELSE issued[i]
      BY <2>1, <2>3, <2>4
    <3> QED
      BY <2>5, <3>1, <3>2 DEF Pushed
  <2>12. Len(fifo1[id]) < MaxRoTxnsPerId
    <3> DEFINE q == st_fifo[id]
    <3>1. q \in Seq(Tags) /\ Len(q) \in Nat
      BY <2>3, UsageKnown
    <3>2. fifo1[id] = q \/ (fifo1[id] = Tail(q) /\ q # <<>>)
      BY <2>3 DEF Afterwards
    <3>3. Len(q) < MaxRoTxnsPerId
      BY <2>8
    <3> HIDE DEF q
    <3>4. q # <<>> => Len(Tail(q)) = Len(q) - 1
      BY <3>1, HeadTailProperties
    <3> QED
      BY <3>1, <3>2, <3>3, <3>4, SpanFacts
  <2>13. /\ tag.rob_req => /\ tag.rob_idx + len \in Slots
                           /\ \A s \in alloc1 : s < tag.rob_idx
         /\ rob_alloc_q' = alloc1 \cup (IF tag.rob_req THEN {tag.rob_idx + len} ELSE {})
    <3>1. CASE tag.rob_req
      <4>1. rob_free_space > len /\ ax_rob_req(id, e)
        BY <2>2, <2>8, <3>1
      <4>2. /\ LastSlot(len) = rob_next_free_idx + len
            /\ rob_next_free_idx + len \in Slots
            /\ \A s \in rob_alloc_q : s < rob_next_free_idx
        BY <1>2, <2>3, <4>1, FreeSlots
      <4> QED
        BY <1>2, <2>2, <2>6, <3>1, <4>1, <4>2
    <3>2. CASE ~tag.rob_req
      BY <2>2, <2>6, <3>2
    <3> QED
      BY <3>1, <3>2
  <2>14. ASSUME ~tag.rob_req
         PROVE  /\ \A d \in Dests : \A k \in DOMAIN net1[d] : net1[d][k].beat.id = id => d = e
                /\ \A k \in DOMAIN fifo1[id] : ~fifo1[id][k].rob_req
    <3>1. ~ax_rob_req_q[id] /\ (FifoUsage(id) = 0 \/ prev_dest_q[id] = e)
      BY <2>2, <2>9, <2>14
    <3>2. \A k \in DOMAIN fifo1[id] : ~fifo1[id][k].rob_req
      BY <1>1, <2>3, <3>1 DEF DestsRight
    <3>3. CASE FifoUsage(id) = 0
      <4>1. fifo1[id] = <<>>
        BY <2>3, <2>8, <3>3, UsageKnown
      <4>2. ASSUME NEW d \in Dests, NEW k \in DOMAIN net1[d] PROVE net1[d][k].beat.id # id
        <5>1. net1[d][k] \in G
          BY <1>1, <4>2, QueueTypes
        <5> QED
          BY <1>1, <4>1, <5>1, NoneOutstanding
      <4> QED
        BY <3>2, <4>2
    <3>4. CASE prev_dest_q[id] = e
      BY <1>1, <2>3, <3>1, <3>2, <3>4 DEF DestsRight
    <3> QED
      BY <3>1, <3>3, <3>4
  <2>15. /\ \A i \in Ids : i # id /\ ~ax_rob_req_q'[i] => ~ax_rob_req_q[i] \/ fifo1[i] = <<>>
         /\ ~ax_rob_req_q'[id] => ~tag.rob_req
    BY <2>2, <2>3, <2>5
  <2>16. /\ prev_dest_q' \in [Ids -> Dests] /\ prev_dest_q'[id] = e
         /\ \A i \in Ids : i # id => prev_dest_q'[i] = prev_dest_q[i]
    BY <2>3, <2>7 DEF Afterwards
  <2>17. Core(net', S, st_fifo', issued', rob_alloc_q', ax_rob_req_q', prev_dest_q', woff, peek, roff)
    <3>1. Fits(net1, fifo1, issued, alloc1, ax_rob_req_q, prev_dest_q, id, e, len, tag, a)
      BY <2>2, <2>3, <2>12, <2>13, <2>14 DEF Fits
    <3>2. Sent(net1, fifo1, issued, alloc1, prev_dest_q, id, e, len, tag, a,
               net', st_fifo', issued', rob_alloc_q', prev_dest_q')
      BY <2>10, <2>11, <2>13, <2>16 DEF Sent
    <3>3. Flagged(fifo1, ax_rob_req_q, id, tag, ax_rob_req_q')
      BY <2>5, <2>15 DEF Flagged
    <3> QED
      BY ONLY <1>1, <3>1, <3>2, <3>3, CoreAdded
  <2>18. AxInv'
    <3>1. issued' \in [Ids -> Nat]
      BY <2>11 DEF Pushed
    <3>2. ax' = NoAx \/ \E r \in Requests : issued'[r.id] < MaxRequests /\ ax' = r
      BY <2>4 DEF NewAx
    <3> QED
      BY <3>1, <3>2 DEF AxInv
  <2>19. \A d \in Dests : /\ Mid(net', d) <=> Mid(net1, d)
                          /\ net1[d] # <<>> => net'[d] # <<>> /\ net'[d][1] = net1[d][1]
    BY <1>1, <2>3, <2>10, BehindMid
  <2>20. ASSUME NEW i \in Ids, fifo1[i] # <<>>
         PROVE  st_fifo'[i] # <<>> /\ Head(st_fifo'[i]) = Head(fifo1[i])
    <3>1. CASE i # id
      BY <2>5, <2>20, <3>1
    <3>2. CASE i = id
      <4> DEFINE q == fifo1[i]
                 r == st_fifo'[i]
      <4>1. q \in Seq(Tags) /\ <<tag>> \in Seq(Tags) /\ q # <<>> /\ r = q \o <<tag>> /\ r \in Seq(Tags)
        <5>1. q \in Seq(Tags) /\ r \in Seq(Tags) /\ r = q \o <<tag>> /\ q # <<>>
          BY <2>5, <2>20, <3>2
        <5>2. <<tag>> \in Seq(Tags)
          BY <2>2
        <5> QED
          BY <5>1, <5>2
      <4> HIDE DEF q, r
      <4>2. Len(q) \in Nat /\ Len(q) # 0 /\ Len(<<tag>>) = 1
        BY <4>1, EmptySeq, LenProperties
      <4>3. /\ Len(r) = Len(q) + 1
            /\ \A j \in 1 .. Len(q) + 1 : r[j] = IF j <= Len(q) THEN q[j] ELSE <<tag>>[j - Len(q)]
        BY <4>1, <4>2, ConcatProperties
      <4>4. r[1] = q[1] /\ Len(r) # 0
        BY <4>2, <4>3
      <4>5. r # <<>>
        BY <4>4
      <4>6. Head(r) = r[1] /\ Head(q) = q[1]
        BY <4>1, <4>5, HeadTailProperties
      <4> QED
        BY <4>4, <4>5, <4>6 DEF q, r
    <3> QED
      BY <3>1, <3>2
  <2>21. Pushes(owed1)
    <3>1. b \in AllBursts
      <4>1. issued[ax.id] \in 0 .. MaxRequests
        <5>1. issued[ax.id] < MaxRequests /\ issued[ax.id] \in Nat
          BY <1>3, <2>1, <2>3 DEF AxInv, ax_valid_o, id
        <5> QED
          BY <5>1, PortsAssumption
      <4> QED
        BY <2>3, <4>1 DEF AllBursts, b, id, len
    <3> QED
      BY <2>3, <2>4, <3>1 DEF Pushes, id
  <2>22. ASSUME OwedRight(G, owed1) PROVE OwedRight(InNet(net') \cup S, owed')
    <3>1. Joined(net1, a, len, net')
      BY <1>1, <2>3, <2>10, BehindNet
    <3>2. InNet(net') \cup S = G \cup BeatsOf(a, len)
      BY <3>1 DEF Joined, G
    <3>3. \A g \in G : g.beat.id = id => g.beat.num < issued[id]
      <4> SUFFICES ASSUME NEW g \in G, g.beat.id = id PROVE g.beat.num < issued[id]
        OBVIOUS
      <4>1. g.beat.num < issued[g.beat.id]
        BY <1>1, NumberBounds
      <4> QED
        BY <4>1
    <3>4. issued[id] \in Nat
      BY <2>1, <2>3
    <3>5. OwedRight(G \cup BeatsOf(a, len), owed')
      BY ONLY <1>1, <2>3, <2>4, <2>22, <3>3, <3>4, OwedAdded
    <3> QED
      BY <3>2, <3>5
  <2>23. OwedRight(InNet(net1) \cup S, owed1) => OwedRight(InNet(net') \cup S, owed')
    BY <2>22 DEF G
  <2> QED
    BY <2>17, <2>18, <2>19, <2>20, <2>21, <2>23 DEF RequestsDone
<1>4. CASE /\ NoAxHandshake(net1, owed1)
           /\ \E seen \in IF ax = NoAx THEN [id : Ids, dest : Dests] ELSE {ax} :
                 Table(seen, FALSE, popped, unset)
  <2>1. PICK seen : Table(seen, FALSE, popped, unset)
    BY <1>4
  <2>2. /\ st_fifo' \in [Ids -> Seq(Tags)] /\ fifo1 \in [Ids -> Seq(Tags)]
        /\ \A i \in Ids : st_fifo'[i] = fifo1[i]
        /\ ax_rob_req_q' \in [Ids -> BOOLEAN]
        /\ \A i \in Ids : ~ax_rob_req_q'[i] => ~ax_rob_req_q[i] \/ fifo1[i] = <<>>
    <3>1. FALSE \in BOOLEAN /\ Table(seen, FALSE, popped, unset)
      BY <2>1
    <3>2. TableDone(seen, FALSE, fifo1)
      BY <3>1, TableFacts
    <3> QED
      BY <3>2 DEF TableDone
  <2>3. st_fifo' = fifo1
    BY <2>2
  <2>4. rob_alloc_q' = alloc1 /\ prev_dest_q' = prev_dest_q
    BY <2>1 DEF Table, alloc1
  <2>5. net' = net1 /\ owed' = owed1 /\ issued' = issued
    BY <1>4 DEF NoAxHandshake
  <2>6. Core(net1, S, fifo1, issued, alloc1, ax_rob_req_q', prev_dest_q, woff, peek, roff)
    BY ONLY <1>1, <2>2, CoreIdle
  <2>7. Core(net', S, st_fifo', issued', rob_alloc_q', ax_rob_req_q', prev_dest_q', woff, peek, roff)
    BY <2>3, <2>4, <2>5, <2>6
  <2>8. AxInv'
    <3>1. CASE ax = NoAx
      <4>1. ax' = NoAx \/ \E r \in Requests : issued'[r.id] < MaxRequests /\ ax' = r
        BY <1>4, <3>1 DEF NoAxHandshake, NewAx
      <4> QED
        BY <2>5, <4>1 DEF AxInv
    <3>2. CASE ax # NoAx
      <4>1. ax' = ax
        BY <1>4, <3>2 DEF NoAxHandshake
      <4> QED
        BY <2>5, <4>1 DEF AxInv
    <3> QED
      BY <3>1, <3>2
  <2>9. Pushes(owed1)
    BY <2>5 DEF Pushes
  <2> QED
    BY <2>3, <2>5, <2>7, <2>8, <2>9 DEF RequestsDone
<1> QED
  BY <1>3, <1>4 DEF AxSide

-----------------------------------------------------------------------------
(* A beat leaves for the manager *)

\* The oldest beat of the oldest request of its ID.
Served1(G, f, fifo, iss) ==
    /\ f \in G /\ First(f, fifo, iss)
    /\ \A g \in G : Same(f, g) => f.beat.pos <= g.beat.pos

\* The entry is popped with the last beat.
Leaves(fifo, f, fifo2) ==
    \/ f.beat.last /\ Popped(fifo, f.beat.id, fifo2)
    \/ ~f.beat.last /\ fifo2 = fifo

Cleared1(f, unset) == unset = {} \/ (f.tag.rob_req /\ unset = {Place(f)})

LeftRight(G, fifo, iss, alloc) ==
    /\ BurstsWhole(G) /\ EntriesRight(G, fifo, iss) /\ SlotsRight(G, alloc)
    /\ \A i \in Ids : Len(fifo[i]) <= MaxRoTxnsPerId

\* The first beat of an oldest request leaves: the rest stays right, with its
\* slots free.
LEMMA BeatLeaves ==
    ASSUME NEW G, NEW fifo, NEW iss, NEW alloc, LeftRight(G, fifo, iss, alloc),
           NEW f, Served1(G, f, fifo, iss), NEW fifo2, Leaves(fifo, f, fifo2),
           NEW unset, Cleared1(f, unset)
    PROVE  LeftRight(G \ {f}, fifo2, iss, alloc \ unset) /\ Fewer(fifo, fifo2)
<1>1. /\ BurstsWhole(G) /\ EntriesRight(G, fifo, iss) /\ SlotsRight(G, alloc)
      /\ \A i \in Ids : Len(fifo[i]) <= MaxRoTxnsPerId
      /\ G \subseteq Flits
  BY DEF LeftRight, BurstsWhole
<1>2. f \in G /\ First(f, fifo, iss) /\ \A g \in G : Same(f, g) => f.beat.pos <= g.beat.pos
  BY DEF Served1
<1>3. unset = {} \/ (f.tag.rob_req /\ unset = {Place(f)})
  BY DEF Cleared1
<1>4. BurstsWhole(G \ {f})
  BY ONLY <1>1, <1>2, BurstsRemoved
<1>5. SlotsRight(G \ {f}, alloc \ unset)
  BY ONLY <1>1, <1>2, <1>3, SlotsRemoved
<1>6. fifo \in [Ids -> Seq(Tags)] /\ iss \in [Ids -> Nat] /\ f.beat.id \in Ids
  BY <1>1, <1>2, FlitTypes DEF EntriesRight
<1>7. CASE f.beat.last /\ Popped(fifo, f.beat.id, fifo2)
  <2>1. EntriesRight(G \ {f}, fifo2, iss)
    BY ONLY <1>1, <1>2, <1>7, EntriesPopped
  <2>2. fifo[f.beat.id] # <<>>
    BY <1>1, <1>2, NoneOutstanding
  <2>3. Fewer(fifo, fifo2)
    BY ONLY <1>6, <1>7, <2>2, PoppedFewer
  <2>4. ASSUME NEW i \in Ids PROVE Len(fifo2[i]) <= MaxRoTxnsPerId
    <3>1. CASE i = f.beat.id
      <4> DEFINE id == f.beat.id
      <4>a. id \in Ids /\ fifo[id] # <<>> /\ Popped(fifo, id, fifo2)
        BY <1>6, <1>7, <2>2
      <4> HIDE DEF id
      <4>b. Len(fifo[id]) \in Nat /\ Len(fifo2[id]) = Len(fifo[id]) - 1
        <5> DEFINE q == fifo[id]
        <5>1. q \in Seq(Tags) /\ q # <<>>
          BY <1>6, <4>a
        <5>2. fifo2[id] = Tail(q)
          BY <4>a DEF Popped
        <5> HIDE DEF q
        <5>3. Len(q) \in Nat /\ Len(Tail(q)) = Len(q) - 1
          BY <5>1, HeadTailProperties, LenProperties
        <5> QED
          BY <5>2, <5>3 DEF q
      <4>1. Len(fifo[i]) \in Nat /\ Len(fifo2[i]) = Len(fifo[i]) - 1
        BY <3>1, <4>b DEF id
      <4>2. Len(fifo[i]) <= MaxRoTxnsPerId
        BY <1>1
      <4> QED
        BY <4>1, <4>2, SpanFacts
    <3>2. CASE i # f.beat.id
      BY <1>1, <1>7, <3>2 DEF Popped
    <3> QED
      BY <3>1, <3>2
  <2> QED
    BY <1>4, <1>5, <2>1, <2>3, <2>4 DEF LeftRight
<1>8. CASE ~f.beat.last /\ fifo2 = fifo
  <2>1. EntriesRight(G \ {f}, fifo, iss)
    BY ONLY <1>1, <1>2, <1>8, EntriesKept
  <2>2. Fewer(fifo, fifo2)
    BY <1>8 DEF Fewer
  <2> QED
    BY <1>1, <1>4, <1>5, <1>8, <2>1, <2>2 DEF LeftRight
<1> QED
  BY <1>7, <1>8 DEF Leaves

-----------------------------------------------------------------------------
(* What is released next *)

\* While no burst of an ID is under way the first beat of each is on its way too.
LEMMA FirstBeats ==
    ASSUME NEW n, QueuesRight(n), \A g \in InNet(n) : g.beat.pos >= 1,
           NEW f \in InNet(n), \A d \in Dests : ~MidOf(n, d, f.beat.id)
    PROVE  \E g \in InNet(n) : Same(f, g) /\ g.beat.pos = 1
<1>1. PICK d \in Dests : \E k \in DOMAIN n[d] : f = n[d][k]
  BY InNetElement
<1>2. PICK k \in DOMAIN n[d] : f = n[d][k]
  BY <1>1
<1>3. /\ Len(n[d]) \in Nat /\ DOMAIN n[d] = 1 .. Len(n[d])
      /\ n[d] # <<>> => 1 \in DOMAIN n[d] /\ Head(n[d]) = n[d][1]
      /\ \A l \in DOMAIN n[d] : n[d][l] \in Flits /\ n[d][l] \in InNet(n)
  BY <1>1, QueueTypes
<1> DEFINE T == {l \in DOMAIN n[d] : Same(f, n[d][l])}
<1>4. T \subseteq Nat /\ k \in T
  BY <1>2, <1>3 DEF Same
<1> HIDE DEF T
<1>5. PICK m \in T : \A l \in T : m <= l
  BY <1>4, LeastNat
<1>6. m \in 1 .. Len(n[d]) /\ m \in DOMAIN n[d] /\ Same(f, n[d][m])
  BY <1>3, <1>5 DEF T
<1>7. /\ n[d][m] \in InNet(n) /\ n[d][m].beat.pos \in Nat /\ n[d][m].beat.pos >= 1
  BY <1>3, <1>6, FlitTypes
<1>8. CASE m = 1
  <2>1. n[d] # <<>>
    BY <1>3, <1>6
  <2>2. ~ (n[d][1].beat.pos > 1)
    BY <1>1, <1>6, <1>8, <2>1 DEF MidOf, Mid, Same
  <2>3. n[d][m].beat.pos = 1
    BY <1>7, <1>8, <2>2
  <2> QED
    BY <1>6, <1>7, <2>3
<1>9. CASE m # 1
  <2> DEFINE p == m - 1
  <2>1. p \in DOMAIN n[d] /\ p + 1 = m /\ p < m /\ p \in Nat /\ m \in Nat
    BY <1>3, <1>6, <1>9
  <2> HIDE DEF p
  <2>2. p \notin T
    BY <1>5, <2>1
  <2>3. IF n[d][p].beat.last THEN n[d][m].beat.pos = 1 ELSE Same(n[d][p], n[d][m])
    <3>1. IF n[d][p].beat.last THEN p + 1 \in DOMAIN n[d] => n[d][p + 1].beat.pos = 1
          ELSE Same(n[d][p], n[d][p + 1])
      BY <2>1 DEF QueuesRight
    <3> QED
      BY <1>6, <2>1, <3>1
  <2>4. ~Same(f, n[d][p])
    BY <2>1, <2>2 DEF T
  <2>5. ~Same(n[d][p], n[d][m])
    BY <1>6, <2>4 DEF Same
  <2>6. n[d][m].beat.pos = 1
    BY <2>3, <2>5
  <2> QED
    BY <1>6, <1>7, <2>6
<1> QED
  BY <1>8, <1>9

\* A request whose beats are stored, but for the oldest one of its ID, has its
\* first beat stored; without a burst of its ID under way it has no beat in the
\* network.
LEMMA WaitingWhole ==
    ASSUME NEW n, QueuesRight(n), NEW S, BurstsWhole(InNet(n) \cup S),
           \A f \in S, g \in InNet(n) : Same(f, g) => f.beat.pos < g.beat.pos,
           NEW n2, QueuesRight(n2), InNet(n2) \subseteq InNet(n),
           NEW fifo, NEW iss, EntriesRight(InNet(n) \cup S, fifo, iss),
           NEW f \in S, ~First(f, fifo, iss), \A d \in Dests : ~MidOf(n2, d, f.beat.id)
    PROVE  /\ \E g \in S : Same(f, g) /\ g.beat.pos = 1
           /\ \A g \in InNet(n2) : ~Same(f, g)
<1> DEFINE G == InNet(n) \cup S
<1>1. /\ G \subseteq Flits /\ \A g \in G : g.beat.pos >= 1
      /\ \A g \in G : g.beat.pos \in Nat
      /\ f \in G
  BY FlitTypes DEF BurstsWhole
<1>2. PICK g \in G : Same(f, g) /\ g.beat.pos = 1
  BY <1>1 DEF EntriesRight
<1>3. g \in S
  <2>1. ASSUME g \in InNet(n) PROVE FALSE
    <3>1. f.beat.pos < g.beat.pos
      BY <1>2, <2>1
    <3> QED
      BY <1>1, <1>2, <3>1
  <2> QED
    BY <1>2, <2>1
<1>4. ASSUME NEW h \in InNet(n2), Same(f, h) PROVE FALSE
  <2>1. \A x \in InNet(n2) : x.beat.pos >= 1
    BY <1>1
  <2>2. PICK x \in InNet(n2) : Same(h, x) /\ x.beat.pos = 1
    BY <1>4, <2>1, FirstBeats DEF Same
  <2>3. Same(g, x) /\ x \in InNet(n)
    BY <1>2, <1>4, <2>2 DEF Same
  <2>4. g.beat.pos < x.beat.pos
    BY <1>3, <2>3
  <2> QED
    BY <1>2, <2>2, <2>4
<1> QED
  BY <1>2, <1>3, <1>4

\* Which request is the oldest one after a beat has left.
NextOnly(f, g, fifo, iss) ==
    /\ First(g, fifo, iss) \/ (f.beat.last /\ g.beat.id = f.beat.id)
    /\ f.beat.last /\ g.beat.id = f.beat.id => ~First(g, fifo, iss)

\* The oldest request of an ID is the same until its last beat has left.
LEMMA NextFirst ==
    ASSUME NEW fifo \in [Ids -> Seq(Tags)], NEW iss \in [Ids -> Nat],
           NEW f \in Flits, First(f, fifo, iss), fifo[f.beat.id] # <<>>,
           NEW fifo2, Leaves(fifo, f, fifo2),
           NEW g \in Flits, First(g, fifo2, iss)
    PROVE  NextOnly(f, g, fifo, iss)
<1> DEFINE id == f.beat.id
           q == fifo[id]
<1>1. id \in Ids /\ g.beat.id \in Ids /\ f.beat.num \in Nat /\ g.beat.num \in Nat
  BY FlitTypes
<1>2. CASE ~f.beat.last /\ fifo2 = fifo
  BY <1>2 DEF NextOnly
<1>3. CASE f.beat.last /\ Popped(fifo, f.beat.id, fifo2)
  <2>1. \A i \in Ids : fifo2[i] = IF i = id THEN Tail(fifo[i]) ELSE fifo[i]
    BY <1>3 DEF Popped
  <2>2. CASE g.beat.id # id
    <3>1. fifo2[g.beat.id] = fifo[g.beat.id]
      BY <1>1, <2>1, <2>2
    <3>2. First(g, fifo, iss)
      BY <3>1 DEF First, Oldest
    <3> QED
      BY <2>2, <3>2 DEF NextOnly
  <2>3. CASE g.beat.id = id
    <3>1. fifo2[id] = Tail(q)
      BY <1>1, <2>1
    <3>2. q \in Seq(Tags) /\ q # <<>> /\ iss[id] \in Nat
      BY <1>1
    <3>3. g.beat.num = iss[id] - Len(Tail(q))
      BY <2>3, <3>1 DEF First, Oldest
    <3>4. First(g, fifo, iss) => g.beat.num = iss[id] - Len(q)
      BY <2>3 DEF First, Oldest
    <3> HIDE DEF q, id
    <3>5. Len(q) \in Nat /\ Len(Tail(q)) = Len(q) - 1
      BY <3>2, HeadTailProperties, LenProperties
    <3>6. iss[id] - (Len(q) - 1) # iss[id] - Len(q)
      BY <3>2, <3>5
    <3>7. ~First(g, fifo, iss)
      BY <3>3, <3>4, <3>5, <3>6
    <3> QED
      BY <1>3, <2>3, <3>7 DEF id, NextOnly
  <2> QED
    BY <2>2, <2>3
<1> QED
  BY <1>2, <1>3 DEF Leaves

\* A beat goes from the network to the manager while none that is stored may.
LEMMA StoredServed ==
    ASSUME NEW S, NEW n, NEW fifo, NEW iss, NEW peek, NEW roff,
           StoredRight(S, n, fifo, iss, peek, roff),
           BurstsWhole(InNet(n) \cup S), EntriesRight(InNet(n) \cup S, fifo, iss),
           \A g \in S : ~First(g, fifo, iss),
           QueuesRight(n), NEW n2, QueuesRight(n2), InNet(n2) \subseteq InNet(n),
           NEW f \in InNet(n), First(f, fifo, iss),
           f.beat.last => \A d \in Dests : ~MidOf(n2, d, f.beat.id),
           NEW fifo2, Leaves(fifo, f, fifo2)
    PROVE  StoredRight(S, n2, fifo2, iss, f.beat.id, roff)
<1> DEFINE G == InNet(n) \cup S
<1>1. /\ \A g \in S, h \in InNet(n) : Same(g, h) => g.beat.pos < h.beat.pos
      /\ roff \in [Ids -> Nat] /\ \A i \in Ids : roff[i] = 0
  BY DEF StoredRight
<1>2. G \subseteq Flits /\ \A g \in G : g.beat.pos >= 1 /\ g.beat.pos \in Nat
  BY FlitTypes DEF BurstsWhole
<1>3. /\ fifo \in [Ids -> Seq(Tags)] /\ iss \in [Ids -> Nat] /\ fifo[f.beat.id] # <<>>
      /\ f.beat.id \in Ids
  BY <1>2, NoneOutstanding, FlitTypes DEF EntriesRight
<1>4. ASSUME NEW g \in S, First(g, fifo2, iss)
      PROVE  /\ f.beat.id = g.beat.id
             /\ roff[g.beat.id] < g.beat.pos
             /\ \E h \in S : Same(g, h) /\ h.beat.pos = roff[g.beat.id] + 1
             /\ \A h \in InNet(n2) : ~Same(g, h)
             /\ \A d \in Dests : ~MidOf(n2, d, g.beat.id)
  <2>1. f.beat.last /\ g.beat.id = f.beat.id
    <3>1. f \in Flits /\ g \in Flits
      BY <1>2, <1>4
    <3>3. First(g, fifo2, iss) /\ ~First(g, fifo, iss)
      BY <1>4
    <3>2. NextOnly(f, g, fifo, iss)
      BY ONLY <1>3, <3>1, <3>3, First(f, fifo, iss), Leaves(fifo, f, fifo2), NextFirst
    <3> QED
      BY <3>2, <3>3 DEF NextOnly
  <2>2. \A d \in Dests : ~MidOf(n2, d, g.beat.id)
    BY <2>1
  <2>3. /\ \E h \in S : Same(g, h) /\ h.beat.pos = 1
        /\ \A h \in InNet(n2) : ~Same(g, h)
    BY <1>1, <1>4, <2>2, WaitingWhole
  <2>4. roff[g.beat.id] = 0
    BY <1>1, <1>3, <2>1
  <2> QED
    BY <1>2, <1>4, <2>1, <2>2, <2>3, <2>4
<1>5. \A g \in S, h \in InNet(n2) : Same(g, h) => g.beat.pos < h.beat.pos
  BY <1>1
<1> QED
  BY <1>1, <1>3, <1>4, <1>5 DEF StoredRight

\* A beat is stored that is not of the oldest request of its ID.
LEMMA StoredMore ==
    ASSUME NEW S, NEW n, NEW fifo, NEW iss, NEW peek, NEW roff,
           StoredRight(S, n, fifo, iss, peek, roff),
           \A g \in S : ~First(g, fifo, iss),
           NEW n2, InNet(n2) \subseteq InNet(n),
           NEW f, f.beat.id \in Ids, ~First(f, fifo, iss),
           \A g \in InNet(n2) : Same(f, g) => f.beat.pos < g.beat.pos
    PROVE  StoredRight(S \cup {f}, n2, fifo, iss, f.beat.id, roff)
<1>1. /\ \A g \in S, h \in InNet(n) : Same(g, h) => g.beat.pos < h.beat.pos
      /\ roff \in [Ids -> Nat] /\ \A i \in Ids : roff[i] = 0
  BY DEF StoredRight
<1>2. \A g \in S \cup {f} : ~First(g, fifo, iss)
  OBVIOUS
<1>3. \A g \in S \cup {f}, h \in InNet(n2) : Same(g, h) => g.beat.pos < h.beat.pos
  BY <1>1
<1> QED
  BY <1>1, <1>2, <1>3 DEF StoredRight

\* A stored beat goes to the manager.
LEMMA StoredReleased ==
    ASSUME NEW S, NEW n, NEW fifo, NEW iss, NEW peek, NEW roff,
           StoredRight(S, n, fifo, iss, peek, roff),
           BurstsWhole(InNet(n) \cup S), EntriesRight(InNet(n) \cup S, fifo, iss),
           QueuesRight(n),
           NEW f \in S, First(f, fifo, iss), f.beat.pos = roff[peek] + 1,
           NEW fifo2, Leaves(fifo, f, fifo2),
           NEW roff2, roff2 = [roff EXCEPT ![peek] = IF f.beat.last THEN 0 ELSE f.beat.pos]
    PROVE  StoredRight(S \ {f}, n, fifo2, iss, peek, roff2)
<1> DEFINE G == InNet(n) \cup S
<1>1. /\ \A g \in S, h \in InNet(n) : Same(g, h) => g.beat.pos < h.beat.pos
      /\ \A g \in S : First(g, fifo, iss) =>
           /\ peek = g.beat.id
           /\ roff[g.beat.id] < g.beat.pos
           /\ \E h \in S : Same(g, h) /\ h.beat.pos = roff[g.beat.id] + 1
           /\ \A h \in InNet(n) : ~Same(g, h)
           /\ \A d \in Dests : ~MidOf(n, d, g.beat.id)
      /\ peek \in Ids /\ roff \in [Ids -> Nat]
      /\ \A id \in Ids : roff[id] # 0 => \E g \in S : g.beat.id = id /\ First(g, fifo, iss)
  BY DEF StoredRight
<1>2. /\ G \subseteq Flits
      /\ \A g \in G : g.beat.pos >= 1 /\ g.beat.pos \in Nat
      /\ \A g, h \in G : Same(g, h) /\ g.beat.pos = h.beat.pos => g = h
      /\ \A g \in G : ~g.beat.last => \E h \in G : Same(g, h) /\ h.beat.pos = g.beat.pos + 1
  BY FlitTypes DEF BurstsWhole
<1>3. /\ fifo \in [Ids -> Seq(Tags)] /\ iss \in [Ids -> Nat] /\ fifo[f.beat.id] # <<>>
      /\ f.beat.id \in Ids
  BY <1>2, NoneOutstanding, FlitTypes DEF EntriesRight
<1>4. /\ peek = f.beat.id /\ (\A h \in InNet(n) : ~Same(f, h))
      /\ \A d \in Dests : ~MidOf(n, d, peek)
  BY <1>1
<1>5. \A i \in Ids : i # peek => roff[i] = 0
  BY <1>1
<1>6. /\ roff2 \in [Ids -> Nat] /\ roff2[peek] = IF f.beat.last THEN 0 ELSE f.beat.pos
      /\ \A i \in Ids : i # peek => roff2[i] = 0
  BY <1>1, <1>2, <1>5
<1>7. \A g \in S \ {f}, h \in InNet(n) : Same(g, h) => g.beat.pos < h.beat.pos
  BY <1>1
<1>8. CASE ~f.beat.last
  <2>1. fifo2 = fifo
    BY <1>8 DEF Leaves
  <2>2. PICK x \in G : Same(f, x) /\ x.beat.pos = f.beat.pos + 1
    BY <1>2, <1>8
  <2>3. x \in S /\ x # f
    BY <1>2, <1>4, <2>2
  <2>4. ASSUME NEW g \in S \ {f}, First(g, fifo2, iss)
        PROVE  /\ peek = g.beat.id
               /\ roff2[g.beat.id] < g.beat.pos
               /\ \E h \in S \ {f} : Same(g, h) /\ h.beat.pos = roff2[g.beat.id] + 1
               /\ \A h \in InNet(n) : ~Same(g, h)
               /\ \A d \in Dests : ~MidOf(n, d, g.beat.id)
    <3>1. /\ peek = g.beat.id /\ roff[peek] < g.beat.pos
          /\ \A h \in InNet(n) : ~Same(g, h)
      BY <1>1, <2>1, <2>4
    <3>2. Same(f, g) /\ Same(g, x)
      BY <1>4, <2>1, <2>2, <2>4, <3>1 DEF Same, First
    <3>3. f.beat.pos # g.beat.pos
      BY <1>2, <2>4, <3>2
    <3>4. roff[peek] \in Nat /\ g.beat.pos \in Nat
      BY <1>1, <1>2, <2>4
    <3>5. f.beat.pos < g.beat.pos
      BY <3>1, <3>3, <3>4
    <3> QED
      BY <1>4, <1>6, <1>8, <2>2, <2>3, <3>1, <3>2, <3>5
  <2>5. First(x, fifo2, iss) /\ x.beat.id = peek
    BY <1>4, <2>1, <2>2 DEF Same, First
  <2>6. \A i \in Ids : roff2[i] # 0 => \E g \in S \ {f} : g.beat.id = i /\ First(g, fifo2, iss)
    BY <1>6, <2>3, <2>5
  <2> QED
    BY <1>1, <1>6, <1>7, <2>4, <2>6 DEF StoredRight
<1>9. CASE f.beat.last
  <2>1. ASSUME NEW g \in S \ {f}, First(g, fifo2, iss)
        PROVE  /\ peek = g.beat.id
               /\ roff2[g.beat.id] < g.beat.pos
               /\ \E h \in S \ {f} : Same(g, h) /\ h.beat.pos = roff2[g.beat.id] + 1
               /\ \A h \in InNet(n) : ~Same(g, h)
               /\ \A d \in Dests : ~MidOf(n, d, g.beat.id)
    <3>1. NextOnly(f, g, fifo, iss)
      <4>1. f \in Flits /\ g \in Flits
        BY <1>2, <2>1
      <4> QED
        BY ONLY <1>3, <4>1, <2>1, First(f, fifo, iss), Leaves(fifo, f, fifo2), NextFirst
    <3>2. g.beat.id = f.beat.id /\ ~First(g, fifo, iss)
      BY <1>1, <1>4, <1>9, <2>1, <3>1 DEF NextOnly
    <3>3. /\ \E h \in S : Same(g, h) /\ h.beat.pos = 1
          /\ \A h \in InNet(n) : ~Same(g, h)
      <4>1. InNet(n) \subseteq InNet(n) /\ g \in S
        BY <2>1
      <4> QED
        BY <1>1, <1>4, <4>1, <3>2, WaitingWhole
    <3>4. PICK h \in S : Same(g, h) /\ h.beat.pos = 1
      BY <3>3
    <3>5. h # f
      BY <3>2, <3>4 DEF Same, First
    <3> QED
      BY <1>2, <1>4, <1>6, <1>9, <2>1, <3>2, <3>3, <3>4, <3>5
  <2>2. \A i \in Ids : roff2[i] = 0
    BY <1>6, <1>9
  <2> QED
    BY <1>1, <1>6, <1>7, <2>1, <2>2 DEF StoredRight
<1> QED
  BY <1>8, <1>9

-----------------------------------------------------------------------------
(* What the response side of a cycle does *)

\* The beat at the head of a queue is taken, and the offset advances if it has
\* a slot.
Taking(n, e, n2, woff, woff2) ==
    /\ e \in Dests /\ n[e] # <<>> /\ Shifted(n, e, n2)
    /\ Alone(n, e)
    /\ n[e][1].tag.rob_req => woff2 = Advance(woff, n[e][1].beat.id, n[e][1].beat.last)
    /\ ~n[e][1].tag.rob_req => woff2 = woff

TakenRight(n, S, e, n2, woff2) ==
    /\ n[e][1] \in InNet(n) /\ n[e][1] \in Flits
    /\ InNet(n2) = InNet(n) \ {n[e][1]}
    /\ n[e][1] \notin S
    /\ \A g \in InNet(n2) : Same(n[e][1], g) => n[e][1].beat.pos < g.beat.pos
    /\ QueuesRight(n2) /\ OneMid(n2) /\ FewerBeats(n, n2) /\ WriteRight(n2, woff2)
    /\ n[e][1].beat.last => \A d \in Dests : ~MidOf(n2, d, n[e][1].beat.id)

\* The head of a queue is taken, and the offset follows it.
LEMMA BeatTaken ==
    ASSUME NEW n, NEW S, NEW fifo, NEW iss, NEW alloc, NEW sticky, NEW prev, NEW woff,
           NEW peek, NEW roff, Core(n, S, fifo, iss, alloc, sticky, prev, woff, peek, roff),
           NEW e, NEW n2, NEW woff2, Taking(n, e, n2, woff, woff2)
    PROVE  TakenRight(n, S, e, n2, woff2)
<1> DEFINE G == InNet(n) \cup S
           f == n[e][1]
<1>1. /\ BurstsWhole(G) /\ EntriesRight(G, fifo, iss) /\ SlotsRight(G, alloc)
      /\ QueuesRight(n) /\ OneMid(n)
      /\ WriteRight(n, woff) /\ StoredRight(S, n, fifo, iss, peek, roff)
  BY DEF Core
<1>2. /\ e \in Dests /\ n[e] # <<>> /\ Shifted(n, e, n2)
      /\ Alone(n, e)
      /\ f.tag.rob_req => woff2 = Advance(woff, f.beat.id, f.beat.last)
      /\ ~f.tag.rob_req => woff2 = woff
  BY DEF Taking
<1>3. G \subseteq Flits /\ \A g \in G : g.beat.pos >= 1
  BY <1>1 DEF BurstsWhole
<1>4. f \in InNet(n) /\ f \in Flits /\ f \in G
  BY <1>1, <1>2, QueueTypes
<1>5. InNet(n2) = InNet(n) \ {f}
  BY <1>1, <1>2, ShiftedNet
<1>6. f \notin S
  <2>1. f \in S => f.beat.pos < f.beat.pos
    BY <1>1, <1>4 DEF StoredRight, Same
  <2>2. f.beat.pos \in Nat
    BY <1>4, FlitTypes
  <2> QED
    BY <2>1, <2>2
<1>7. ASSUME NEW g \in InNet(n2), Same(f, g) PROVE f.beat.pos < g.beat.pos
  <2>1. g \in InNet(n) /\ g # f
    BY <1>5
  <2>2. g = f \/ f.beat.pos < g.beat.pos
    BY <1>1, <1>2, <1>7, <2>1, HeadOnce
  <2> QED
    BY <2>1, <2>2
<1>8. QueuesRight(n2) /\ FewerBeats(n, n2)
  BY <1>1, <1>2, QueuesShifted, ShiftedFewer
<1>9. /\ \A d \in Dests : d # e => n2[d] = n[d] /\ (Mid(n2, d) <=> Mid(n, d))
      /\ f.beat.last => ~Mid(n2, e)
      /\ ~f.beat.last => n2[e][1].beat.id = f.beat.id
  BY <1>1, <1>2, <1>3, ShiftedMid
<1>a. \A d \in Dests : MidOf(n2, d, f.beat.id) => d = e
  BY <1>2, <1>9 DEF Alone, MidOf
<1>b. Mid(n2, e) => n2[e][1].beat.id = f.beat.id
  BY <1>9
<1>10. OneMid(n2)
  <2> SUFFICES ASSUME NEW c \in Dests, NEW d \in Dests, Mid(n2, c), MidOf(n2, d, n2[c][1].beat.id)
               PROVE  c = d
    BY DEF OneMid
  <2>1. CASE c # e /\ d # e
    <3>1. n2[c] = n[c] /\ n2[d] = n[d] /\ Mid(n, c) /\ Mid(n, d)
      BY <1>9, <2>1 DEF MidOf
    <3> QED
      BY <1>1, <3>1 DEF OneMid, MidOf
  <2>2. CASE c = e
    BY <1>a, <1>b, <2>2
  <2>3. CASE d = e
    <3>1. n2[c][1].beat.id = f.beat.id
      BY <1>b, <2>3 DEF MidOf
    <3> QED
      BY <1>a, <2>3, <3>1 DEF MidOf
  <2> QED
    BY <2>1, <2>2, <2>3
<1>11. n2[e] # <<>> => (Same(f, n2[e][1]) => n2[e][1].tag = f.tag)
  <2>1. ASSUME n2[e] # <<>>, Same(f, n2[e][1]) PROVE n2[e][1].tag = f.tag
    <3> DEFINE g == n2[e][1]
    <3>1. g \in InNet(n2)
      BY <1>2, <1>8, <2>1, QueueTypes
    <3>2. g \in G
      BY <1>5, <3>1
    <3> HIDE DEF f, g, G
    <3>3. f.tag = g.tag
      BY <1>1, <1>3, <1>4, <2>1, <3>2, SameTags DEF g
    <3> QED
      BY <3>3 DEF g
  <2> QED
    BY <2>1
<1>12. WriteRight(n2, woff2)
  <2>1. CASE ~f.tag.rob_req
    <3>1. woff2 = woff
      BY <1>2, <2>1
    <3>2. \A g \in InNet(n) : g.beat.pos >= 1
      BY <1>3
    <3>3. WriteRight(n2, woff)
      BY ONLY <1>1, <1>2, <1>11, <2>1, <3>2, WriteStays
    <3> QED
      BY <3>1, <3>3
  <2>2. CASE f.tag.rob_req
    <3>1. woff2 = Advance(woff, f.beat.id, f.beat.last)
      BY <1>2, <2>2
    <3>2. \A g \in InNet(n) : g.beat.pos >= 1
      BY <1>3
    <3>3. ASSUME ~f.beat.last PROVE RobIdx(f.beat.pos) = f.beat.pos
      <4> HIDE DEF f, G
      <4>1. PICK x \in G : Same(f, x) /\ x.beat.pos = f.beat.pos + 1
        BY <1>1, <1>4, <3>3 DEF BurstsWhole
      <4>2. x.tag = f.tag
        BY <1>1, <1>3, <1>4, <4>1, SameTags
      <4>3. Place(x) \in Slots
        BY <1>1, <2>2, <4>1, <4>2 DEF SlotsRight
      <4>4. f.tag.rob_idx \in Nat /\ f.beat.pos \in Nat
        BY <1>4, FlitTypes
      <4>5. Place(x) = f.tag.rob_idx + (f.beat.pos + 1) - 1
        BY <4>1, <4>2 DEF Place
      <4>6. f.beat.pos \in Slots
        BY <4>3, <4>4, <4>5, SpanFacts
      <4> QED
        BY <4>6, IdxKept
    <3>4. ~f.beat.last => RobIdx(f.beat.pos) = f.beat.pos
      BY <3>3
    <3> QED
      BY ONLY <1>1, <1>2, <1>11, <2>2, <3>1, <3>2, <3>4, WriteAdvanced
  <2> QED
    BY <2>1, <2>2
<1>13. f.beat.last => \A d \in Dests : ~MidOf(n2, d, f.beat.id)
  BY <1>9, <1>a DEF MidOf
<1> QED
  BY <1>4, <1>5, <1>6, <1>7, <1>8, <1>10, <1>12, <1>13 DEF TakenRight

NoneFirst(S, fifo, iss) == \A g \in S : ~First(g, fifo, iss)
Without(G2, G, f) == G2 = G \ {f}

\* A beat goes from the network to the manager.
Forwarding(n, S, e, f, fifo, iss, fifo2, unset) ==
    /\ f = n[e][1] /\ First(f, fifo, iss) /\ NoneFirst(S, fifo, iss)
    /\ Leaves(fifo, f, fifo2) /\ Cleared1(f, unset)

\* Forwarding the next beat of the oldest request keeps the invariant.
LEMMA CoreForwarded ==
    ASSUME NEW n, NEW S, NEW fifo, NEW iss, NEW alloc, NEW sticky, NEW prev, NEW woff,
           NEW peek, NEW roff, Core(n, S, fifo, iss, alloc, sticky, prev, woff, peek, roff),
           NEW e, NEW n2, NEW woff2, Taking(n, e, n2, woff, woff2), NEW f, NEW fifo2, NEW unset,
           Forwarding(n, S, e, f, fifo, iss, fifo2, unset)
    PROVE  /\ Core(n2, S, fifo2, iss, alloc \ unset, sticky, prev, woff2, f.beat.id, roff)
           /\ Served1(InNet(n) \cup S, f, fifo, iss)
           /\ Without(InNet(n2) \cup S, InNet(n) \cup S, f)
<1> DEFINE G == InNet(n) \cup S
<1>0. f = n[e][1]
  BY DEF Forwarding
<1>a. \A g \in S : ~First(g, fifo, iss)
  BY DEF Forwarding, NoneFirst
<1>1. /\ BurstsWhole(G) /\ EntriesRight(G, fifo, iss) /\ SlotsRight(G, alloc)
      /\ QueuesRight(n) /\ DestsRight(n, fifo, sticky, prev)
      /\ StoredRight(S, n, fifo, iss, peek, roff)
      /\ \A i \in Ids : Len(fifo[i]) <= MaxRoTxnsPerId
  BY DEF Core
<1>2. /\ f \in InNet(n) /\ f \in Flits
      /\ InNet(n2) = InNet(n) \ {f}
      /\ f \notin S
      /\ \A g \in InNet(n2) : Same(f, g) => f.beat.pos < g.beat.pos
      /\ QueuesRight(n2) /\ OneMid(n2) /\ FewerBeats(n, n2) /\ WriteRight(n2, woff2)
      /\ f.beat.last => \A d \in Dests : ~MidOf(n2, d, f.beat.id)
  <2>1. TakenRight(n, S, e, n2, woff2)
    BY BeatTaken
  <2> QED
    BY <1>0, <2>1 DEF TakenRight
<1>3. First(f, fifo, iss) /\ Leaves(fifo, f, fifo2) /\ Cleared1(f, unset)
  BY DEF Forwarding
<1>4. InNet(n2) \cup S = G \ {f}
  BY <1>2
<1>5. Served1(G, f, fifo, iss)
  <2>1. ASSUME NEW g \in G, Same(f, g) PROVE f.beat.pos <= g.beat.pos
    <3>1. CASE g \in S
      <4>1. First(g, fifo, iss)
        BY <1>3, <2>1 DEF Same, First
      <4> QED
        BY <1>a, <3>1, <4>1
    <3>2. CASE g \in InNet(n) /\ g # f
      <4>1. f.beat.pos < g.beat.pos /\ g \in Flits
        BY <1>1, <1>2, <2>1, <3>2 DEF BurstsWhole
      <4> QED
        BY <1>2, <4>1, FlitTypes
    <3>3. CASE g = f
      BY <1>2, <3>3, FlitTypes
    <3> QED
      BY <2>1, <3>1, <3>2, <3>3
  <2> QED
    BY <1>2, <1>3, <2>1 DEF Served1
<1>6. LeftRight(G \ {f}, fifo2, iss, alloc \ unset) /\ Fewer(fifo, fifo2)
  <2>1. LeftRight(G, fifo, iss, alloc)
    BY <1>1 DEF LeftRight
  <2> HIDE DEF G
  <2> QED
    BY ONLY <1>3, <1>5, <2>1, BeatLeaves
<1>7. StoredRight(S, n2, fifo2, iss, f.beat.id, roff)
  <2>1. InNet(n2) \subseteq InNet(n)
    BY <1>2
  <2> QED
    BY ONLY <1>1, <1>2, <1>3, <2>1, <1>a, StoredServed
<1>8. DestsRight(n2, fifo2, sticky, prev)
  BY <1>1, <1>2, <1>6, DestsFewer
<1>9. /\ BurstsWhole(G \ {f}) /\ EntriesRight(G \ {f}, fifo2, iss)
      /\ SlotsRight(G \ {f}, alloc \ unset)
      /\ \A i \in Ids : Len(fifo2[i]) <= MaxRoTxnsPerId
  BY <1>6 DEF LeftRight
<1>10. Core(n2, S, fifo2, iss, alloc \ unset, sticky, prev, woff2, f.beat.id, roff)
  BY <1>2, <1>4, <1>7, <1>8, <1>9 DEF Core
<1> QED
  BY <1>4, <1>5, <1>10 DEF Without

\* A beat goes from the network to its slot.
LEMMA CoreStored ==
    ASSUME NEW n, NEW S, NEW fifo, NEW iss, NEW alloc, NEW sticky, NEW prev, NEW woff,
           NEW peek, NEW roff, Core(n, S, fifo, iss, alloc, sticky, prev, woff, peek, roff),
           NEW e, NEW n2, NEW woff2, Taking(n, e, n2, woff, woff2), NEW f, f = n[e][1],
           NoneFirst(S, fifo, iss), ~First(f, fifo, iss),
           NEW S2, S2 = S \cup {f}
    PROVE  /\ Core(n2, S2, fifo, iss, alloc, sticky, prev, woff2, f.beat.id, roff)
           /\ InNet(n2) \cup S2 = InNet(n) \cup S
<1> DEFINE G == InNet(n) \cup S
<1>0. f = n[e][1]
  OBVIOUS
<1>a. \A g \in S : ~First(g, fifo, iss)
  BY DEF NoneFirst
<1>1. /\ BurstsWhole(G) /\ EntriesRight(G, fifo, iss) /\ SlotsRight(G, alloc)
      /\ QueuesRight(n) /\ DestsRight(n, fifo, sticky, prev)
      /\ StoredRight(S, n, fifo, iss, peek, roff)
      /\ \A i \in Ids : Len(fifo[i]) <= MaxRoTxnsPerId
  BY DEF Core
<1>2. /\ f \in InNet(n) /\ f \in Flits
      /\ InNet(n2) = InNet(n) \ {f}
      /\ \A g \in InNet(n2) : Same(f, g) => f.beat.pos < g.beat.pos
      /\ QueuesRight(n2) /\ OneMid(n2) /\ FewerBeats(n, n2) /\ WriteRight(n2, woff2)
  <2>1. TakenRight(n, S, e, n2, woff2)
    BY BeatTaken
  <2> QED
    BY <1>0, <2>1 DEF TakenRight
<1>3. ~First(f, fifo, iss)
  OBVIOUS
<1>4. InNet(n2) \cup (S \cup {f}) = G
  BY <1>2
<1>5. StoredRight(S \cup {f}, n2, fifo, iss, f.beat.id, roff)
  <2>1. InNet(n2) \subseteq InNet(n) /\ f.beat.id \in Ids
    BY <1>2, FlitTypes
  <2> QED
    BY ONLY <1>1, <1>2, <1>3, <2>1, <1>a, StoredMore
<1>6. DestsRight(n2, fifo, sticky, prev)
  <2>1. Fewer(fifo, fifo)
    BY DEF Fewer
  <2> QED
    BY <1>1, <1>2, <2>1, DestsFewer
<1>7. Core(n2, S \cup {f}, fifo, iss, alloc, sticky, prev, woff2, f.beat.id, roff)
  BY <1>1, <1>2, <1>4, <1>5, <1>6 DEF Core
<1> QED
  BY <1>4, <1>7

\* A beat goes from its slot to the manager.
Releasing(S, f, fifo, iss, peek, roff, fifo2, unset, roff2) ==
    /\ f \in S /\ First(f, fifo, iss) /\ f.beat.pos = roff[peek] + 1
    /\ Leaves(fifo, f, fifo2) /\ Cleared1(f, unset)
    /\ roff2 = [roff EXCEPT ![peek] = IF f.beat.last THEN 0 ELSE f.beat.pos]

\* Releasing the next beat of the oldest request keeps the invariant.
LEMMA CoreReleased ==
    ASSUME NEW n, NEW S, NEW fifo, NEW iss, NEW alloc, NEW sticky, NEW prev, NEW woff,
           NEW peek, NEW roff, Core(n, S, fifo, iss, alloc, sticky, prev, woff, peek, roff),
           NEW f, NEW fifo2, NEW unset, NEW roff2,
           Releasing(S, f, fifo, iss, peek, roff, fifo2, unset, roff2),
           NEW S2, S2 = S \ {f}
    PROVE  /\ Core(n, S2, fifo2, iss, alloc \ unset, sticky, prev, woff, peek, roff2)
           /\ Served1(InNet(n) \cup S, f, fifo, iss)
           /\ Without(InNet(n) \cup S2, InNet(n) \cup S, f)
<1> DEFINE G == InNet(n) \cup S
<1>a. /\ f \in S /\ First(f, fifo, iss) /\ f.beat.pos = roff[peek] + 1
      /\ Leaves(fifo, f, fifo2) /\ Cleared1(f, unset)
      /\ roff2 = [roff EXCEPT ![peek] = IF f.beat.last THEN 0 ELSE f.beat.pos]
  BY DEF Releasing
<1>1. /\ BurstsWhole(G) /\ EntriesRight(G, fifo, iss) /\ SlotsRight(G, alloc)
      /\ QueuesRight(n) /\ DestsRight(n, fifo, sticky, prev) /\ OneMid(n)
      /\ WriteRight(n, woff) /\ StoredRight(S, n, fifo, iss, peek, roff)
      /\ \A i \in Ids : Len(fifo[i]) <= MaxRoTxnsPerId
  BY DEF Core
<1>2. G \subseteq Flits /\ f \in G
  BY <1>1, <1>a DEF BurstsWhole
<1>3. /\ \A h \in InNet(n) : ~Same(f, h)
      /\ peek = f.beat.id /\ peek \in Ids /\ roff \in [Ids -> Nat]
      /\ \A g \in S : First(g, fifo, iss) => roff[g.beat.id] < g.beat.pos
  BY <1>1, <1>a DEF StoredRight
<1>4. InNet(n) \cup (S \ {f}) = G \ {f}
  <2>1. f \notin InNet(n)
    BY <1>3 DEF Same
  <2> QED
    BY <2>1
<1>5. Served1(G, f, fifo, iss)
  <2>1. ASSUME NEW g \in G, Same(f, g) PROVE f.beat.pos <= g.beat.pos
    <3>1. g \in S /\ First(g, fifo, iss) /\ g.beat.id = peek
      BY <1>a, <1>3, <2>1 DEF Same, First
    <3>2. roff[peek] < g.beat.pos /\ g.beat.pos \in Nat /\ roff[peek] \in Nat
      BY <1>2, <1>3, <2>1, <3>1, FlitTypes
    <3> QED
      BY <1>a, <3>2
  <2> QED
    BY <1>a, <1>2, <2>1 DEF Served1
<1>6. LeftRight(G \ {f}, fifo2, iss, alloc \ unset) /\ Fewer(fifo, fifo2)
  <2>1. LeftRight(G, fifo, iss, alloc)
    BY <1>1 DEF LeftRight
  <2> HIDE DEF G
  <2> QED
    BY ONLY <1>a, <1>5, <2>1, BeatLeaves
<1>7. StoredRight(S \ {f}, n, fifo2, iss, peek, roff2)
  BY ONLY <1>1, <1>a, StoredReleased
<1>8. DestsRight(n, fifo2, sticky, prev)
  <2>1. FewerBeats(n, n)
    BY DEF FewerBeats
  <2> QED
    BY <1>1, <1>6, <2>1, DestsFewer
<1>9. /\ BurstsWhole(G \ {f}) /\ EntriesRight(G \ {f}, fifo2, iss)
      /\ SlotsRight(G \ {f}, alloc \ unset)
      /\ \A i \in Ids : Len(fifo2[i]) <= MaxRoTxnsPerId
  BY <1>6 DEF LeftRight
<1>10. Core(n, S2, fifo2, iss, alloc \ unset, sticky, prev, woff, peek, roff2)
  BY <1>1, <1>4, <1>7, <1>8, <1>9 DEF Core
<1> QED
  BY <1>4, <1>5, <1>10 DEF Without

-----------------------------------------------------------------------------
(* What may be released, forwarded or stored *)

\* The oldest request of an ID has the first entry.
LEMMA FirstTag ==
    ASSUME NEW G, G \subseteq Flits, NEW fifo, NEW iss, EntriesRight(G, fifo, iss),
           NEW f \in G, First(f, fifo, iss)
    PROVE  f.tag = Head(fifo[f.beat.id])
<1> DEFINE q == fifo[f.beat.id]
<1>1. /\ q \in Seq(Tags) /\ q[Nth(f, fifo, iss)] = f.tag
      /\ First(f, fifo, iss) <=> Nth(f, fifo, iss) = 1
  BY EntryOf
<1>2. q # <<>>
  BY NoneOutstanding
<1> HIDE DEF q
<1>3. Head(q) = q[1]
  BY <1>1, <1>2, HeadTailProperties
<1> QED
  BY <1>1, <1>3 DEF q

OldestBeat(g, fifo, iss, id) ==
    g.beat.id = id /\ First(g, fifo, iss) /\ g.beat.last /\ g.tag = Head(fifo[id])

\* The last beat of the oldest request of an ID is outstanding.
LEMMA OldestThere ==
    ASSUME NEW G, G \subseteq Flits, NEW fifo, NEW iss, EntriesRight(G, fifo, iss),
           NEW id \in Ids, fifo[id] # <<>>
    PROVE  \E g \in G : OldestBeat(g, fifo, iss, id)
<1> DEFINE q == fifo[id]
<1>1. q \in Seq(Tags) /\ q # <<>> /\ iss[id] \in Nat
  BY DEF EntriesRight
<1>2. \A k \in DOMAIN q : \E g \in G : /\ g.beat.id = id /\ g.beat.last
                                       /\ g.beat.num = Oldest(fifo, iss, id) + k - 1
  BY DEF EntriesRight
<1>3. Oldest(fifo, iss, id) = iss[id] - Len(q)
  BY DEF Oldest
<1> HIDE DEF q
<1>4. Len(q) \in Nat /\ 1 \in DOMAIN q
  BY <1>1, EmptySeq, LenProperties
<1>5. PICK g \in G : /\ g.beat.id = id /\ g.beat.last
                     /\ g.beat.num = Oldest(fifo, iss, id) + 1 - 1
  BY <1>2, <1>4
<1>6. g.beat.num = Oldest(fifo, iss, id)
  BY <1>1, <1>3, <1>4, <1>5
<1>7. First(g, fifo, iss)
  BY <1>5, <1>6 DEF First
<1>8. g.tag = Head(fifo[id])
  BY <1>5, <1>7, FirstTag
<1> QED
  BY <1>5, <1>7, <1>8 DEF OldestBeat

\* A slot tells the index of the beat in it.
LEMMA SlotFlit ==
    ASSUME NEW s \in Nat, NEW b \in Beats
    PROVE  /\ InSlot(b, s).beat = b /\ InSlot(b, s).tag.rob_req
           /\ Place(InSlot(b, s)) = s /\ InSlot(b, s).tag.rob_idx = s - b.pos + 1
<1> DEFINE f == InSlot(b, s)
<1>1. f.beat = b /\ f.tag.rob_req /\ f.tag.rob_idx = s - b.pos + 1
  BY DEF InSlot
<1>2. b.pos \in Nat
  BY DEF Beats
<1> HIDE DEF f
<1>3. Place(f) = s - b.pos + 1 + b.pos - 1
  BY <1>1 DEF Place
<1>4. Place(f) = s
  BY <1>2, <1>3
<1> QED
  BY <1>1, <1>4 DEF f

\* A flit with a slot is what is stored in it.
LEMMA FlitInSlot ==
    ASSUME NEW f \in Flits, f.tag.rob_req
    PROVE  InSlot(f.beat, Place(f)) = f
<1> DEFINE b == f.beat
           i == f.tag.rob_idx
<1>1. b.pos \in Nat /\ i \in Nat
  BY FlitTypes
<1>2. f.tag = [rob_req |-> TRUE, rob_idx |-> i]
  BY DEF Flits, Tags
<1>3. f = [beat |-> b, tag |-> [rob_req |-> TRUE, rob_idx |-> i]]
  BY <1>2 DEF Flits
<1>4. Place(f) = i + b.pos - 1
  BY DEF Place
<1>5. InSlot(b, Place(f)) = [beat |-> b, tag |-> [rob_req |-> TRUE, rob_idx |-> Place(f) - b.pos + 1]]
  BY DEF InSlot
<1> HIDE DEF b, i
<1>6. Place(f) - b.pos + 1 = i
  BY <1>1, <1>4
<1> QED
  BY <1>3, <1>5, <1>6 DEF b

Kept == Stored(rob_valid_q, rob_meta_q)

\* What a valid slot holds is a flit whose place it is.
LEMMA KeptFlits ==
    ASSUME IInv, NEW s \in rob_valid_q, NEW f, f = InSlot(rob_meta_q[s], s)
    PROVE  /\ f \in Kept /\ s \in Slots /\ s \in Nat /\ rob_meta_q[s] \in Beats
           /\ f.beat = rob_meta_q[s] /\ f.tag.rob_req /\ Place(f) = s
<1>1. s \in Slots /\ s \in Nat /\ rob_meta_q[s] \in Beats
  BY SpanFacts DEF IInv, BufferRight
<1>2. f \in Kept
  BY StoredElement DEF Kept
<1> DEFINE b == rob_meta_q[s]
<1> HIDE DEF b
<1>3. b \in Beats /\ f = InSlot(b, s)
  BY <1>1 DEF b
<1>4. f.beat = b /\ f.tag.rob_req /\ Place(f) = s
  BY <1>1, <1>3, SlotFlit
<1> QED
  BY <1>1, <1>2, <1>4 DEF b

\* A flit that is kept is in a valid slot.
LEMMA KeptElement ==
    ASSUME IInv, NEW f \in Kept
    PROVE  \E s \in rob_valid_q : f = InSlot(rob_meta_q[s], s)
BY StoredElement DEF Kept

\* The parts of the invariant about beats.
CoreNow == Core(net, Kept, st_fifo, issued, rob_alloc_q, ax_rob_req_q, prev_dest_q,
                write_rob_idx_offset_q, st_rob_peek_id_q, read_rob_idx_offset_q)
CoreParts ==
    /\ CoreNow
    /\ BurstsWhole(Outstanding) /\ EntriesRight(Outstanding, st_fifo, issued)
    /\ SlotsRight(Outstanding, rob_alloc_q)
    /\ QueuesRight(net) /\ DestsRight(net, st_fifo, ax_rob_req_q, prev_dest_q) /\ OneMid(net)
    /\ WriteRight(net, write_rob_idx_offset_q)
    /\ StoredRight(Kept, net, st_fifo, issued, st_rob_peek_id_q, read_rob_idx_offset_q)
    /\ \A id \in Ids : Len(st_fifo[id]) <= MaxRoTxnsPerId
    /\ Outstanding = InNet(net) \cup Kept
    /\ Outstanding \subseteq Flits /\ (\A g \in Outstanding : g.beat.pos >= 1)
    /\ st_fifo \in [Ids -> Seq(Tags)] /\ issued \in [Ids -> Nat] /\ rob_alloc_q \subseteq Slots

\* The parts of the invariant, for the registers as they are.
LEMMA PartsNow ==
    ASSUME IInv
    PROVE  CoreParts
<1>1. CoreNow
  BY DEF IInv, CoreNow, Kept
<1>2. Outstanding = InNet(net) \cup Kept
  BY DEF Outstanding, Kept
<1>3. /\ BurstsWhole(Outstanding) /\ EntriesRight(Outstanding, st_fifo, issued)
      /\ SlotsRight(Outstanding, rob_alloc_q)
      /\ QueuesRight(net) /\ DestsRight(net, st_fifo, ax_rob_req_q, prev_dest_q) /\ OneMid(net)
      /\ WriteRight(net, write_rob_idx_offset_q)
      /\ StoredRight(Kept, net, st_fifo, issued, st_rob_peek_id_q, read_rob_idx_offset_q)
      /\ \A id \in Ids : Len(st_fifo[id]) <= MaxRoTxnsPerId
  BY <1>1, <1>2 DEF CoreNow, Core
<1>4. /\ Outstanding \subseteq Flits /\ (\A g \in Outstanding : g.beat.pos >= 1)
      /\ st_fifo \in [Ids -> Seq(Tags)] /\ issued \in [Ids -> Nat] /\ rob_alloc_q \subseteq Slots
  BY <1>3 DEF BurstsWhole, EntriesRight, SlotsRight
<1> QED
  BY <1>1, <1>2, <1>3, <1>4 DEF CoreParts

\* The place of a beat is the address of its slot.
LEMMA Addressed ==
    ASSUME IInv, NEW f \in Outstanding, f.tag.rob_req, NEW o \in Nat, f.beat.pos = o + 1
    PROVE  /\ RobIdx(f.tag.rob_idx + o) = Place(f) /\ Place(f) \in Slots
           /\ Place(f) = f.tag.rob_idx + o
<1>1. SlotsRight(Outstanding, rob_alloc_q) /\ f \in Flits
  BY PartsNow DEF CoreParts
<1>2. Place(f) \in Slots
  BY <1>1 DEF SlotsRight
<1>3. Place(f) = f.tag.rob_idx + f.beat.pos - 1 /\ f.tag.rob_idx \in Nat
  BY <1>1, FlitTypes DEF Place
<1>4. Place(f) = f.tag.rob_idx + o
  BY <1>3
<1> QED
  BY <1>2, <1>4, IdxKept

\* The beat that is read is the next one of the oldest request.
PeekRight(f) ==
    /\ f \in Kept /\ f \in Flits /\ First(f, st_fifo, issued)
    /\ f.beat = rob_meta_q[ReadAddr] /\ f.tag.rob_req /\ Place(f) = ReadAddr
    /\ f.beat.id = st_rob_peek_id_q
    /\ f.beat.pos = read_rob_idx_offset_q[st_rob_peek_id_q] + 1
    /\ ReadAddr \in Slots /\ ReadAddr \in Nat /\ f.tag.rob_idx = st_peek_rob_idx
    /\ st_fifo[st_rob_peek_id_q] # <<>> /\ st_rob_peek_id_q \in Ids
    /\ read_rob_idx_offset_q \in [Ids -> Nat]

\* A response that may be released is the next beat of the oldest request of
\* its ID.
LEMMA Peeked ==
    ASSUME IInv, Releasable, NEW f, f = InSlot(rob_meta_q[ReadAddr], ReadAddr)
    PROVE  PeekRight(f)
<1> DEFINE G == Outstanding
           peek == st_rob_peek_id_q
           o == read_rob_idx_offset_q[peek]
           a == ReadAddr
<1>1. /\ BurstsWhole(G) /\ EntriesRight(G, st_fifo, issued) /\ SlotsRight(G, rob_alloc_q)
      /\ StoredRight(Kept, net, st_fifo, issued, peek, read_rob_idx_offset_q)
      /\ G = InNet(net) \cup Kept /\ G \subseteq Flits /\ \A g \in G : g.beat.pos >= 1
      /\ peek \in Ids /\ read_rob_idx_offset_q \in [Ids -> Nat] /\ o \in Nat
  BY PartsNow DEF CoreParts, StoredRight
<1>2. /\ st_fifo[peek] # <<>> /\ Head(st_fifo[peek]).rob_req /\ a \in rob_valid_q
  BY DEF Releasable, st_peek_valid
<1>3. /\ f \in Kept /\ a \in Slots /\ a \in Nat /\ f.beat = rob_meta_q[a] /\ f.tag.rob_req
      /\ Place(f) = a
  BY <1>2, KeptFlits
<1>4. PICK g \in G : /\ g.beat.id = peek /\ First(g, st_fifo, issued) /\ g.beat.last
                     /\ g.tag = Head(st_fifo[peek])
  <2> HIDE DEF G, peek
  <2> QED
    BY <1>1, <1>2, OldestThere DEF OldestBeat
<1>5. a = RobIdx(g.tag.rob_idx + o) /\ g.tag.rob_req
  BY <1>2, <1>4 DEF ReadAddr, st_peek_rob_idx
<1>6. f \in G /\ f \in Flits /\ g \in Flits
  BY <1>1, <1>3
<1> HIDE DEF G, peek, o, a
<1>7. /\ f.beat.pos \in Nat /\ f.beat.pos >= 1 /\ f.tag.rob_idx \in Nat
      /\ g.beat.pos \in Nat /\ g.beat.pos >= 1 /\ g.tag.rob_idx \in Nat
  BY <1>1, <1>6, FlitTypes
<1>8. Same(f, g) /\ f.beat.pos = o + 1
  <2>1. CASE o = 0
    <3>1. Place(g) \in Slots /\ Place(g) = g.tag.rob_idx + g.beat.pos - 1
      BY <1>1, <1>5 DEF SlotsRight, Place
    <3>2. g.tag.rob_idx \in Slots /\ g.tag.rob_idx <= Place(g)
      BY <1>7, <3>1, SpanFacts
    <3>3. a = g.tag.rob_idx
      <4>1. g.tag.rob_idx + 0 = g.tag.rob_idx
        BY <1>7
      <4> QED
        BY <1>5, <2>1, <3>2, <4>1, IdxKept
    <3>4. Same(f, g)
      <4>1. ~Same(f, g) => ~Same(g, f)
        BY DEF Same
      <4>2. ASSUME ~Same(g, f)
            PROVE  ~ (g.tag.rob_idx <= Place(f) /\ Place(f) <= Place(g))
        BY <1>1, <1>3, <1>5, <1>6, <4>2, Disjoint
      <4>3. g.tag.rob_idx <= Place(f) /\ Place(f) <= Place(g)
        BY <1>3, <1>7, <3>2, <3>3
      <4> QED
        BY <4>1, <4>2, <4>3
    <3>5. f.tag = g.tag
      BY <1>1, <1>6, <3>4, SameTags
    <3>6. f.beat.pos = 1
      <4>1. Place(f) = f.tag.rob_idx + f.beat.pos - 1
        BY DEF Place
      <4>2. f.tag.rob_idx + f.beat.pos - 1 = f.tag.rob_idx
        BY <1>3, <3>3, <3>5, <4>1
      <4> QED
        BY <1>7, <4>2
    <3> QED
      BY <2>1, <3>4, <3>6
  <2>2. CASE o # 0
    <3>1. PICK x \in Kept : x.beat.id = peek /\ First(x, st_fifo, issued)
      BY <1>1, <2>2 DEF StoredRight, o
    <3>2. PICK h \in Kept : Same(x, h) /\ h.beat.pos = o + 1
      BY <1>1, <3>1 DEF StoredRight, o
    <3>3. h \in G /\ Same(h, g) /\ First(h, st_fifo, issued) /\ h.beat.id = peek
      BY <1>1, <1>4, <3>1, <3>2 DEF Same, First
    <3>4. h.tag = g.tag
      BY <1>1, <3>3, SameTags
    <3>5. RobIdx(h.tag.rob_idx + o) = Place(h)
      BY <1>1, <1>5, <3>2, <3>3, <3>4, Addressed DEF G
    <3>6. Place(h) = a
      BY <1>5, <3>4, <3>5
    <3>7. h = f
      <4>1. PICK s \in rob_valid_q : h = InSlot(rob_meta_q[s], s)
        BY KeptElement
      <4>2. Place(h) = s
        BY <4>1, KeptFlits
      <4> QED
        BY <3>6, <4>1, <4>2 DEF a
    <3> QED
      BY <3>2, <3>3, <3>7
  <2> QED
    BY <2>1, <2>2
<1>9. First(f, st_fifo, issued) /\ f.beat.id = peek
  BY <1>4, <1>8 DEF Same, First
<1>10. f.tag = g.tag
  BY <1>1, <1>6, <1>8, SameTags
<1>11. f.tag.rob_idx = st_peek_rob_idx
  BY <1>4, <1>10 DEF st_peek_rob_idx, peek
<1> QED
  BY <1>1, <1>2, <1>3, <1>6, <1>8, <1>9, <1>11 DEF PeekRight, o, peek, a

\* While nothing can be released no beat of an oldest request is stored.
LEMMA NothingOldest ==
    ASSUME IInv, ~Releasable
    PROVE  \A g \in Kept : ~First(g, st_fifo, issued)
<1> SUFFICES ASSUME NEW g \in Kept, First(g, st_fifo, issued) PROVE FALSE
  OBVIOUS
<1> DEFINE G == Outstanding
           peek == st_rob_peek_id_q
           o == read_rob_idx_offset_q[peek]
<1>1. /\ EntriesRight(G, st_fifo, issued)
      /\ StoredRight(Kept, net, st_fifo, issued, peek, read_rob_idx_offset_q)
      /\ G = InNet(net) \cup Kept /\ G \subseteq Flits
      /\ peek \in Ids /\ o \in Nat
  BY PartsNow DEF CoreParts, StoredRight
<1>2. peek = g.beat.id /\ \E h \in Kept : Same(g, h) /\ h.beat.pos = o + 1
  BY <1>1 DEF StoredRight
<1>3. PICK h \in Kept : Same(g, h) /\ h.beat.pos = o + 1
  BY <1>2
<1>4. h \in G /\ First(h, st_fifo, issued) /\ h.beat.id = peek
  BY <1>1, <1>2, <1>3 DEF Same, First
<1>5. PICK s \in rob_valid_q : h = InSlot(rob_meta_q[s], s)
  BY KeptElement
<1>6. h.tag.rob_req /\ Place(h) = s
  BY <1>5, KeptFlits
<1>7. h.tag = Head(st_fifo[peek]) /\ st_fifo[peek] # <<>>
  BY <1>1, <1>4, FirstTag, NoneOutstanding
<1>8. RobIdx(h.tag.rob_idx + o) = Place(h)
  BY <1>1, <1>3, <1>4, <1>6, Addressed
<1>9. ReadAddr = s
  BY <1>6, <1>7, <1>8 DEF ReadAddr, st_peek_rob_idx
<1>10. Releasable
  BY <1>6, <1>7, <1>9 DEF Releasable, st_peek_valid
<1> QED
  BY <1>10

-----------------------------------------------------------------------------
(* The response that the network offers *)

Offered == net[rsp][1]

OfferRight ==
    /\ rsp \in Dests /\ net[rsp] # <<>>
    /\ rsp_i = Offered.beat /\ rsp_tag = Offered.tag
    /\ Shifted(net, rsp, Consumed)
    /\ Alone(net, rsp)
    /\ Offered \in InNet(net) /\ Offered \in Flits /\ Offered \in Outstanding
    /\ Offered.beat.id \in Ids /\ st_fifo[Offered.beat.id] # <<>>
    /\ Offered.tag.rob_req => WriteAddr = Place(Offered) /\ Place(Offered) \in Slots

\* What the network offers is the head of a queue, and the slot it may be
\* stored in is its own.
LEMMA OfferNow ==
    ASSUME IInv, BurstsApart, rsp # NoRsp
    PROVE  OfferRight
<1>1. /\ EntriesRight(Outstanding, st_fifo, issued)
      /\ QueuesRight(net) /\ WriteRight(net, write_rob_idx_offset_q)
      /\ Outstanding = InNet(net) \cup Kept
      /\ Outstanding \subseteq Flits /\ \A g \in Outstanding : g.beat.pos >= 1
  BY PartsNow DEF CoreParts
<1>2. rsp \in Dests /\ net[rsp] # <<>>
  BY DEF IInv, RspInv
<1>3. /\ Head(net[rsp]) = Offered /\ Offered \in InNet(net) /\ Offered \in Flits
  BY <1>1, <1>2, QueueTypes DEF Offered
<1>4. rsp_i = Offered.beat /\ rsp_tag = Offered.tag
  BY <1>3 DEF rsp_i, rsp_tag
<1>a. Alone(net, rsp)
  <2> SUFFICES ASSUME NEW d \in Dests, MidOf(net, d, Offered.beat.id) PROVE d = rsp
    BY DEF Alone, Offered
  <2>1. Head(net[d]) = net[d][1]
    BY <1>1, QueueTypes DEF MidOf, Mid
  <2>2. MidBurst(d, rsp_i.id, net)
    BY <1>4, <2>1 DEF MidBurst, MidOf, Mid
  <2> QED
    BY <2>2 DEF BurstsApart
<1>5. Offered \in Outstanding
  BY <1>1, <1>3
<1>6. Offered.beat.id \in Ids /\ st_fifo[Offered.beat.id] # <<>>
  BY <1>1, <1>3, <1>5, FlitTypes, NoneOutstanding
<1>7. Shifted(net, rsp, Consumed)
  <2>1. net \in [Dests -> Seq(Flits)]
    BY <1>1 DEF QueuesRight
  <2> DEFINE q == net[rsp]
  <2>2. q \in Seq(Flits) /\ q # <<>>
    BY <1>2, <2>1
  <2>3. Tail(q) \in Seq(Flits)
    <3> HIDE DEF q
    <3> QED
      BY <2>2, HeadTailProperties
  <2>4. Consumed = [net EXCEPT ![rsp] = Tail(q)]
    BY DEF Consumed
  <2> DEFINE t == Tail(q)
  <2>5. t \in Seq(Flits) /\ Consumed = [net EXCEPT ![rsp] = t]
    BY <2>3, <2>4
  <2>6. t = Tail(net[rsp])
    OBVIOUS
  <2> HIDE DEF q, t
  <2>7. Consumed \in [Dests -> Seq(Flits)] /\ \A d \in Dests : Consumed[d] = IF d = rsp THEN t ELSE net[d]
    BY <1>2, <2>1, <2>5
  <2>8. \A d \in Dests : Consumed[d] = IF d = rsp THEN Tail(net[d]) ELSE net[d]
    BY <2>6, <2>7
  <2> QED
    BY <2>7, <2>8 DEF Shifted
<1>8. ASSUME Offered.tag.rob_req
      PROVE  WriteAddr = Place(Offered) /\ Place(Offered) \in Slots
  <2>1. \A f \in InNet(net) : f.beat.pos >= 1
    BY <1>1
  <2>2. write_rob_idx_offset_q[Offered.beat.id] = Offered.beat.pos - 1
    BY <1>1, <1>2, <1>a, <1>8, <2>1, WriteOffset DEF Offered
  <2> DEFINE o == Offered.beat.pos - 1
  <2>3. o \in Nat /\ Offered.beat.pos = o + 1
    BY <1>1, <1>3, <1>5, FlitTypes
  <2>4. WriteAddr = RobIdx(Offered.tag.rob_idx + o)
    BY <1>4, <2>2 DEF WriteAddr
  <2> HIDE DEF o
  <2>5. RobIdx(Offered.tag.rob_idx + o) = Place(Offered) /\ Place(Offered) \in Slots
    BY <1>5, <1>8, <2>3, Addressed
  <2> QED
    BY <2>4, <2>5
<1> QED
  BY <1>2, <1>3, <1>4, <1>a, <1>5, <1>6, <1>7, <1>8 DEF OfferRight

\* A response that needs no slot is of the oldest request of its ID.
LEMMA DirectFirst ==
    ASSUME IInv, BurstsApart, rsp # NoRsp, Direct
    PROVE  First(Offered, st_fifo, issued)
<1> DEFINE G == Outstanding
           f == Offered
           id == f.beat.id
<1>1. /\ EntriesRight(G, st_fifo, issued) /\ QueuesRight(net)
      /\ DestsRight(net, st_fifo, ax_rob_req_q, prev_dest_q)
      /\ G = InNet(net) \cup Kept /\ G \subseteq Flits
  BY PartsNow DEF CoreParts
<1>2. /\ rsp \in Dests /\ net[rsp] # <<>> /\ f = net[rsp][1] /\ f \in G /\ f \in Flits
      /\ id \in Ids /\ st_fifo[id] # <<>> /\ ~f.tag.rob_req
  BY OfferNow DEF OfferRight, Direct, Offered
<1>3. PICK g \in G : /\ g.beat.id = id /\ First(g, st_fifo, issued) /\ g.beat.last
                     /\ g.tag = Head(st_fifo[id])
  <2> HIDE DEF G, f, id
  <2>1. EntriesRight(G, st_fifo, issued) /\ G \subseteq Flits
    BY <1>1
  <2>2. id \in Ids /\ st_fifo[id] # <<>>
    BY <1>2
  <2>3. PICK g \in G : OldestBeat(g, st_fifo, issued, id)
    BY ONLY <2>1, <2>2, OldestThere
  <2> QED
    BY <2>3 DEF OldestBeat
<1> HIDE DEF G, f
<1>4. SUFFICES ASSUME ~First(f, st_fifo, issued) PROVE FALSE
  BY DEF f
<1> DEFINE k == Nth(f, st_fifo, issued)
           q == st_fifo[id]
<1>5. /\ k \in 1 .. Len(q) /\ q[k] = f.tag /\ q \in Seq(Tags) /\ Len(q) \in Nat
      /\ DOMAIN q = 1 .. Len(q) /\ k # 1
  BY <1>1, <1>2, <1>4, EntryOf
<1>6. Head(q) = q[1]
  <2>1. q \in Seq(Tags) /\ q # <<>>
    BY <1>2, <1>5
  <2> HIDE DEF q
  <2> QED
    BY <2>1, HeadTailProperties
<1>7. ~g.tag.rob_req
  <2>1. \A i, j \in DOMAIN q : i < j /\ q[i].rob_req => q[j].rob_req
    BY <1>1, <1>2 DEF EntriesRight
  <2> HIDE DEF q, k
  <2>2. 1 \in DOMAIN q /\ k \in DOMAIN q /\ 1 < k
    BY <1>5
  <2>3. ~q[1].rob_req
    BY <1>2, <1>5, <2>1, <2>2
  <2> QED
    BY <1>3, <1>6, <2>3 DEF q
<1>8. g \in InNet(net)
  <2>1. ASSUME g \in Kept PROVE FALSE
    <3>1. PICK s \in rob_valid_q : g = InSlot(rob_meta_q[s], s)
      BY <2>1, KeptElement
    <3> QED
      BY <1>7, <3>1, KeptFlits
  <2> QED
    BY <1>1, <1>3, <2>1
<1>9. PICK d \in Dests : \E l \in DOMAIN net[d] : g = net[d][l]
  BY <1>8, InNetElement
<1>10. PICK l \in DOMAIN net[d] : g = net[d][l]
  BY <1>9
<1>11. 1 \in DOMAIN net[rsp] /\ DOMAIN net[d] = 1 .. Len(net[d]) /\ Len(net[d]) \in Nat
  BY <1>1, <1>2, <1>9, QueueTypes
<1>12. d = rsp
  BY <1>1, <1>2, <1>3, <1>7, <1>9, <1>10, <1>11 DEF DestsRight
<1>13. l # 1
  BY <1>2, <1>3, <1>4, <1>10, <1>12
<1>14. After(f.beat, g.beat)
  <2>1. 1 < l
    BY <1>10, <1>11, <1>13
  <2> QED
    BY <1>1, <1>2, <1>3, <1>10, <1>11, <1>12, <2>1 DEF QueuesRight
<1>15. /\ f.beat.num \in Nat /\ g.beat.num \in Nat /\ f.beat.num <= g.beat.num
       /\ g.beat.num = Oldest(st_fifo, issued, id)
  BY <1>1, <1>2, <1>3, <1>14, FlitTypes DEF After, First
<1>16. Oldest(st_fifo, issued, id) <= f.beat.num
  BY <1>1, <1>2, NumberBounds
<1> QED
  BY <1>4, <1>15, <1>16 DEF First

\* A response that is in order is of the oldest request of its ID.
LEMMA InOrderFirst ==
    ASSUME IInv, BurstsApart, rsp # NoRsp, InOrder
    PROVE  First(Offered, st_fifo, issued) /\ Offered.tag.rob_req
<1> DEFINE G == Outstanding
           f == Offered
           id == f.beat.id
<1>1. /\ EntriesRight(G, st_fifo, issued) /\ SlotsRight(G, rob_alloc_q)
      /\ G \subseteq Flits /\ \A g \in G : g.beat.pos >= 1
  BY PartsNow DEF CoreParts
<1>2. /\ f \in G /\ id \in Ids /\ st_fifo[id] # <<>>
      /\ rsp_i = f.beat /\ rsp_tag = f.tag
  BY OfferNow DEF OfferRight
<1>3. f.tag.rob_req /\ Head(st_fifo[id]).rob_req /\ Head(st_fifo[id]).rob_idx = f.tag.rob_idx
  BY <1>2 DEF InOrder
<1>4. PICK g \in G : /\ g.beat.id = id /\ First(g, st_fifo, issued) /\ g.beat.last
                     /\ g.tag = Head(st_fifo[id])
  <2> HIDE DEF G, f, id
  <2>1. EntriesRight(G, st_fifo, issued) /\ G \subseteq Flits
    BY <1>1
  <2>2. id \in Ids /\ st_fifo[id] # <<>>
    BY <1>2
  <2> QED
    <3>1. PICK g \in G : OldestBeat(g, st_fifo, issued, id)
      BY ONLY <2>1, <2>2, OldestThere
    <3> QED
      BY <3>1 DEF OldestBeat
<1> HIDE DEF G, f
<1>5. Same(f, g)
  <2>1. ASSUME ~Same(f, g) PROVE f.tag.rob_idx # g.tag.rob_idx
    BY <1>1, <1>2, <1>3, <1>4, <2>1, Disjoint
  <2> QED
    BY <1>3, <1>4, <2>1
<1>6. First(f, st_fifo, issued)
  BY <1>4, <1>5 DEF Same, First
<1> QED
  BY <1>3, <1>6 DEF f

\* A response that is out of order is not; its slot is free.
LEMMA StoreLater ==
    ASSUME IInv, BurstsApart, rsp # NoRsp, ~Direct, ~InOrder
    PROVE  /\ ~First(Offered, st_fifo, issued) /\ Offered.tag.rob_req
           /\ Place(Offered) \notin rob_valid_q
<1> DEFINE G == Outstanding
           f == Offered
           id == f.beat.id
<1>1. /\ BurstsWhole(G) /\ EntriesRight(G, st_fifo, issued) /\ SlotsRight(G, rob_alloc_q)
      /\ StoredRight(Kept, net, st_fifo, issued, st_rob_peek_id_q, read_rob_idx_offset_q)
      /\ G = InNet(net) \cup Kept /\ G \subseteq Flits /\ \A g \in G : g.beat.pos >= 1
  BY PartsNow DEF CoreParts
<1>2. /\ f \in G /\ f \in InNet(net) /\ f \in Flits /\ id \in Ids
      /\ rsp_i = f.beat /\ rsp_tag = f.tag
  BY OfferNow DEF OfferRight
<1>3. f.tag.rob_req
  BY <1>2 DEF Direct
<1> HIDE DEF G, f
<1>4. ~First(f, st_fifo, issued)
  <2>1. ASSUME First(f, st_fifo, issued) PROVE FALSE
    <3>1. f.tag = Head(st_fifo[id])
      BY <1>1, <1>2, <2>1, FirstTag
    <3>2. InOrder
      BY <1>2, <1>3, <3>1 DEF InOrder
    <3> QED
      BY <3>2
  <2> QED
    BY <2>1
<1>5. Place(f) \notin rob_valid_q
  <2>1. ASSUME Place(f) \in rob_valid_q PROVE FALSE
    <3> DEFINE s == Place(f)
               h == InSlot(rob_meta_q[s], s)
    <3>1. h \in Kept /\ h.tag.rob_req /\ Place(h) = s
      BY <2>1, KeptFlits
    <3> HIDE DEF h
    <3>2. Same(h, f)
      <4>1. ASSUME ~Same(h, f) PROVE Place(h) # Place(f)
        BY <1>1, <1>2, <1>3, <3>1, <4>1, Disjoint
      <4> QED
        BY <3>1, <4>1
    <3>3. h.tag = f.tag /\ h \in Flits
      BY <1>1, <1>2, <3>1, <3>2, SameTags
    <3>4. h.beat.pos < f.beat.pos
      BY <1>1, <1>2, <3>1, <3>2 DEF StoredRight
    <3>5. /\ h.beat.pos \in Nat /\ f.beat.pos \in Nat /\ f.tag.rob_idx \in Nat
      BY <1>2, <3>3, FlitTypes
    <3>6. f.tag.rob_idx + h.beat.pos - 1 = f.tag.rob_idx + f.beat.pos - 1
      BY <3>1, <3>3 DEF Place
    <3> QED
      BY <3>4, <3>5, <3>6
  <2> QED
    BY <2>1
<1> QED
  BY <1>3, <1>4, <1>5 DEF f

-----------------------------------------------------------------------------
(* A cycle *)

\* The FIFOs after an entry is popped.
FifosAfter(popped) ==
    [id \in Ids |-> IF id = popped THEN Tail(st_fifo[id]) ELSE st_fifo[id]]

\* The last beat of a request pops the status table; others do not.
LEMMA PoppedNow ==
    ASSUME IInv, NEW f \in Outstanding, NEW popped,
           popped = IF f.beat.last THEN f.beat.id ELSE NoId
    PROVE  /\ Leaves(st_fifo, f, FifosAfter(popped))
           /\ \A id \in Ids : id = popped => st_fifo[id] # <<>>
<1> DEFINE fifo1 == FifosAfter(popped)
<1>1. /\ EntriesRight(Outstanding, st_fifo, issued) /\ Outstanding \subseteq Flits
      /\ st_fifo \in [Ids -> Seq(Tags)]
  BY PartsNow DEF CoreParts
<1>2. f.beat.id \in Ids /\ st_fifo[f.beat.id] # <<>>
  BY <1>1, FlitTypes, NoneOutstanding
<1>3. \A id \in Ids : fifo1[id] = IF id = popped THEN Tail(st_fifo[id]) ELSE st_fifo[id]
  BY DEF FifosAfter
<1>4. NoId \notin Ids
  BY DEF NoId, Ids
<1>5. fifo1 = [id \in Ids |-> fifo1[id]]
  BY DEF FifosAfter
<1> HIDE DEF fifo1
<1>6. CASE f.beat.last
  <2>1. popped = f.beat.id
    BY <1>6
  <2>2. ASSUME NEW id \in Ids PROVE fifo1[id] \in Seq(Tags)
    <3> DEFINE q == st_fifo[id]
    <3>1. q \in Seq(Tags) /\ (id = popped => q # <<>>)
      BY <1>1, <1>2, <2>1
    <3>2. fifo1[id] = IF id = popped THEN Tail(q) ELSE q
      BY <1>3
    <3> HIDE DEF q
    <3>3. q # <<>> => Tail(q) \in Seq(Tags)
      BY <3>1, HeadTailProperties
    <3> QED
      BY <3>1, <3>2, <3>3
  <2>3. fifo1 \in [Ids -> Seq(Tags)]
    BY <1>5, <2>2
  <2>4. Popped(st_fifo, f.beat.id, fifo1)
    BY <1>3, <2>1, <2>3 DEF Popped
  <2> QED
    BY <1>2, <1>6, <2>1, <2>4 DEF Leaves, fifo1
<1>7. CASE ~f.beat.last
  <2>1. popped = NoId
    BY <1>7
  <2>2. \A id \in Ids : fifo1[id] = st_fifo[id]
    BY <1>3, <1>4, <2>1
  <2>3. fifo1 = st_fifo
    BY <1>1, <1>5, <2>2
  <2> QED
    BY <1>4, <1>7, <2>1, <2>3 DEF Leaves, fifo1
<1> QED
  BY <1>6, <1>7

\* Nothing is popped when no beat leaves.
LEMMA NonePopped ==
    ASSUME IInv
    PROVE  FifosAfter(NoId) = st_fifo /\ \A id \in Ids : id # NoId
<1>1. st_fifo \in [Ids -> Seq(Tags)]
  BY PartsNow DEF CoreParts
<1>2. \A id \in Ids : id # NoId
  BY DEF NoId, Ids
<1>3. FifosAfter(NoId) = [id \in Ids |-> st_fifo[id]]
  BY <1>2 DEF FifosAfter
<1> QED
  BY <1>1, <1>2, <1>3

CycleRight(net1, owed1, fifo1) ==
    /\ RequestsDone(net1, owed1, fifo1, Kept', write_rob_idx_offset_q', st_rob_peek_id_q',
                    read_rob_idx_offset_q')
    /\ RspInv' /\ (Interleaved \/ BurstsApart')

\* A cycle is right when its response side is.
LEMMA CycleDone ==
    ASSUME IInv,
           NEW popped, NEW unset, NEW net1, NEW owed1, AxSide(popped, unset, net1, owed1),
           \A id \in Ids : id = popped => st_fifo[id] # <<>>,
           Core(net1, Kept', FifosAfter(popped), issued, rob_alloc_q \ unset, ax_rob_req_q,
                prev_dest_q, write_rob_idx_offset_q', st_rob_peek_id_q', read_rob_idx_offset_q'),
           NewRsp(net1) \/ (rsp' = rsp /\ net1 = net)
    PROVE  CycleRight(net1, owed1, FifosAfter(popped))
<1>1. Afterwards(popped, unset, FifosAfter(popped))
  <2>1. CoreParts
    BY PartsNow
  <2>2. ax_rob_req_q \in [Ids -> BOOLEAN] /\ prev_dest_q \in [Ids -> Dests]
    BY <2>1 DEF CoreParts, DestsRight
  <2> QED
    BY <2>1, <2>2 DEF CoreParts, Afterwards, FifosAfter
<1>2. AxInv
  BY DEF IInv
<1>3. RequestsDone(net1, owed1, FifosAfter(popped), Kept', write_rob_idx_offset_q',
                   st_rob_peek_id_q', read_rob_idx_offset_q')
  BY <1>1, <1>2, RequestSide
<1>4. /\ \A d \in Dests : Mid(net', d) <=> Mid(net1, d)
      /\ \A d \in Dests : net1[d] # <<>> => net'[d] # <<>> /\ net'[d][1] = net1[d][1]
      /\ QueuesRight(net1) /\ QueuesRight(net')
  BY <1>3 DEF RequestsDone, Core
<1>5. RspInv'
  <2>1. RspInv
    BY DEF IInv
  <2> QED
    BY <1>4, <2>1, OfferKept
<1>6. ASSUME NEW c \in Dests, net1[c] # <<>>
      PROVE  Head(net'[c]) = Head(net1[c]) /\ Head(net1[c]) = net1[c][1]
  <2>1. Head(net1[c]) = net1[c][1]
    BY <1>4, <1>6, QueueTypes
  <2>2. Head(net'[c]) = net'[c][1]
    BY <1>4, <1>6, QueueTypes
  <2> QED
    BY <1>4, <1>6, <2>1, <2>2
<1>7. ASSUME ~Interleaved, rsp' # NoRsp, NEW d \in Dests, MidBurst(d, rsp_i'.id, net')
      PROVE  rsp' = d
  <2>1. rsp' \in Dests /\ net1[rsp'] # <<>>
    <3>1. CASE NewRsp(net1)
      BY <1>7, <3>1 DEF NewRsp
    <3>2. CASE rsp' = rsp /\ net1 = net
      BY <1>7, <3>2 DEF IInv, RspInv
    <3> QED
      BY <3>1, <3>2
  <2>2. rsp_i' = Head(net1[rsp']).beat
    BY <1>6, <2>1 DEF rsp_i
  <2>3. Mid(net1, d)
    <3>1. net'[d] # <<>> /\ Head(net'[d]).beat.pos > 1
      BY <1>7 DEF MidBurst
    <3>2. Head(net'[d]) = net'[d][1]
      BY <1>4, <3>1, QueueTypes
    <3>3. Mid(net', d)
      BY <3>1, <3>2 DEF Mid
    <3> QED
      BY <1>4, <3>3
  <2>4. MidBurst(d, Head(net1[rsp']).beat.id, net1)
    <3>1. net1[d] # <<>>
      BY <2>3 DEF Mid
    <3> QED
      BY <1>6, <1>7, <2>2, <3>1 DEF MidBurst
  <2>5. CASE NewRsp(net1)
    BY <1>7, <2>4, <2>5 DEF NewRsp
  <2>6. CASE rsp' = rsp /\ net1 = net
    <3>1. BurstsApart
      BY <1>7 DEF IInv
    <3>2. MidBurst(d, rsp_i.id, net)
      BY <2>4, <2>6 DEF rsp_i
    <3> QED
      BY <1>7, <2>6, <3>1, <3>2 DEF BurstsApart
  <2> QED
    BY <2>5, <2>6
<1>8. Interleaved \/ BurstsApart'
  BY <1>7 DEF BurstsApart
<1> QED
  BY <1>3, <1>5, <1>8 DEF CycleRight

\* A cycle that is right, with a buffer that is right, keeps the inductive
\* invariant.
LEMMA NextInv ==
    ASSUME NEW net1, NEW owed1, NEW fifo1, CycleRight(net1, owed1, fifo1), BufferRight'
    PROVE  IInv'
BY DEF CycleRight, RequestsDone, IInv, Kept

\* No beat moves.
LEMMA QuietCycle ==
    ASSUME IInv, NotTaken(NoId, {}, owed),
           UNCHANGED <<rob_valid_q, read_rob_idx_offset_q>>
    PROVE  CycleRight(net, owed, st_fifo) /\ Kept' = Kept
<1>1. /\ AxSide(NoId, {}, net, owed) /\ KeepRsp
      /\ UNCHANGED <<rob_meta_q, st_rob_peek_id_q, write_rob_idx_offset_q>>
  BY DEF NotTaken
<1>2. NewRsp(net) \/ (rsp' = rsp /\ net = net)
  BY <1>1 DEF KeepRsp
<1>3. Kept' = Kept
  BY <1>1 DEF Kept, Stored
<1>4. FifosAfter(NoId) = st_fifo /\ \A id \in Ids : id # NoId
  BY NonePopped
<1>5. rob_alloc_q \ {} = rob_alloc_q
  OBVIOUS
<1>6. Core(net, Kept', FifosAfter(NoId), issued, rob_alloc_q \ {}, ax_rob_req_q,
           prev_dest_q, write_rob_idx_offset_q', st_rob_peek_id_q', read_rob_idx_offset_q')
  <2>1. CoreNow
    BY PartsNow DEF CoreParts
  <2> QED
    BY <1>1, <1>3, <1>4, <1>5, <2>1 DEF CoreNow
<1>7. \A id \in Ids : id = NoId => st_fifo[id] # <<>>
  BY <1>4
<1>8. CycleRight(net, owed, FifosAfter(NoId))
  BY ONLY IInv, <1>1, <1>2, <1>6, <1>7, CycleDone
<1> QED
  BY <1>3, <1>4, <1>8

\* Where the next beat of the peeked ID is does not change with a request.
LEMMA PeekStays ==
    ASSUME IInv, NEW net1, NEW owed1, CycleRight(net1, owed1, st_fifo),
           UNCHANGED <<st_rob_peek_id_q>>, st_fifo[st_rob_peek_id_q] # <<>>
    PROVE  st_peek_rob_idx' = st_peek_rob_idx
<1>1. st_rob_peek_id_q \in Ids
  BY PartsNow DEF CoreParts, StoredRight
<1>2. Head(st_fifo'[st_rob_peek_id_q]) = Head(st_fifo[st_rob_peek_id_q])
  BY <1>1 DEF CycleRight, RequestsDone
<1> QED
  BY <1>2 DEF st_peek_rob_idx

\* Waiting while a response is released keeps the inductive invariant.
LEMMA ReadWaitStep ==
    ASSUME IInv, ReadWait
    PROVE  IInv' /\ CycleRight(net, owed, st_fifo) /\ Kept' = Kept
<1>1. /\ rob_state_q = "RoBRead" /\ Releasable
      /\ rsp_out_valid_q' = TRUE /\ rob_addr_q' = ReadAddr
      /\ NotTaken(NoId, {}, owed)
      /\ UNCHANGED <<rob_state_q, rob_valid_q, read_rob_idx_offset_q>>
      /\ UNCHANGED <<rob_meta_q, st_rob_peek_id_q>>
  BY DEF ReadWait, NotTaken
<1>2. CycleRight(net, owed, st_fifo) /\ Kept' = Kept
  BY <1>1, QuietCycle
<1>3. ReadAddr \in Slots /\ st_fifo[st_rob_peek_id_q] # <<>>
  <2> DEFINE f == InSlot(rob_meta_q[ReadAddr], ReadAddr)
  <2>1. PeekRight(f)
    BY <1>1, Peeked
  <2> QED
    BY <2>1 DEF PeekRight
<1>4. st_peek_rob_idx' = st_peek_rob_idx
  BY <1>1, <1>2, <1>3, PeekStays
<1>5. ReadAddr' = ReadAddr
  BY <1>1, <1>4 DEF ReadAddr, RobIdx
<1>6. BufferRight'
  <2>1. ReadAddr \in 0 .. IdxSpan - 1
    BY <1>3, SpanFacts
  <2>2. rob_valid_q \subseteq Slots /\ rob_meta_q \in [Slots -> Beats]
    BY DEF IInv, BufferRight
  <2> QED
    BY <1>1, <1>5, <2>1, <2>2 DEF BufferRight
<1> QED
  BY <1>2, <1>6, NextInv

\* A cycle that moves no beat and offers none from the buffer.
LEMMA IdleStep ==
    ASSUME IInv, NotTaken(NoId, {}, owed),
           UNCHANGED <<rob_valid_q, read_rob_idx_offset_q>>,
           rob_state_q' \in {"RoBRead", "RoBWrite"}, rob_addr_q' = 0,
           \/ rob_state_q' = "RoBWrite" /\ rsp_out_valid_q' = rsp_out_valid_q
           \/ rsp_out_valid_q' = FALSE
    PROVE  IInv' /\ CycleRight(net, owed, st_fifo) /\ Kept' = Kept
<1>1. CycleRight(net, owed, st_fifo) /\ Kept' = Kept
  BY QuietCycle
<1>2. BufferRight'
  <2>1. 0 \in 0 .. IdxSpan - 1
    BY SpanFacts
  <2>2. /\ rob_valid_q \subseteq Slots /\ rob_meta_q \in [Slots -> Beats]
        /\ rsp_out_valid_q \in BOOLEAN
    BY DEF IInv, BufferRight
  <2>3. rob_meta_q' = rob_meta_q
    BY DEF NotTaken
  <2> QED
    BY <2>1, <2>2, <2>3 DEF BufferRight
<1> QED
  BY <1>1, <1>2, NextInv

-----------------------------------------------------------------------------
(* The actions that move a beat *)

\* A beat is given; no beat is given.
GiveDone(f) ==
    /\ Served1(Outstanding, f, st_fifo, issued)
    /\ given' = f.beat
    /\ \E net1, fifo1 : /\ CycleRight(net1, Served(f.beat), fifo1)
                        /\ InNet(net1) \cup Kept' = Outstanding \ {f}
QuietDone ==
    /\ given' = NoBeat
    /\ \E net1, fifo1 : /\ CycleRight(net1, owed, fifo1)
                        /\ InNet(net1) \cup Kept' = Outstanding

\* Forwarding a response of an oldest request keeps the inductive invariant,
\* and gives its beat.
LEMMA ForwardStep ==
    ASSUME IInv, BurstsApart, ~Releasable, rsp # NoRsp,
           First(Offered, st_fifo, issued),
           NEW unset, Cleared1(Offered, unset), Forwarded(unset), rob_state_q = "RoBWrite",
           Offered.tag.rob_req => write_rob_idx_offset_q' =
              Advance(write_rob_idx_offset_q, rsp_i.id, rsp_i.last),
           ~Offered.tag.rob_req => write_rob_idx_offset_q' = write_rob_idx_offset_q
    PROVE  IInv' /\ GiveDone(Offered)
<1> DEFINE f == Offered
           S == Kept
           popped == IF f.beat.last THEN f.beat.id ELSE NoId
<1>1. /\ rsp \in Dests /\ net[rsp] # <<>> /\ rsp_i = f.beat /\ rsp_tag = f.tag
      /\ Shifted(net, rsp, Consumed) /\ Alone(net, rsp)
      /\ f \in Outstanding /\ f = net[rsp][1]
  BY OfferNow DEF OfferRight, Offered
<1>2. CoreNow /\ Outstanding = InNet(net) \cup S
  BY PartsNow DEF CoreParts
<1>3. \A g \in S : ~First(g, st_fifo, issued)
  BY NothingOldest
<1>4. /\ given' = f.beat
      /\ AxSide(popped, unset, Consumed, Served(f.beat))
      /\ NewRsp(Consumed)
      /\ st_rob_peek_id_q' = f.beat.id
      /\ rob_addr_q' = 0 /\ rsp_out_valid_q' = FALSE
      /\ UNCHANGED <<rob_state_q, read_rob_idx_offset_q>>
      /\ UNCHANGED <<rob_valid_q, rob_meta_q>>
  BY <1>1 DEF Forwarded, Taken
<1>5. Kept' = S
  BY <1>4 DEF Kept, Stored
<1>6. /\ Leaves(st_fifo, f, FifosAfter(popped))
      /\ \A id \in Ids : id = popped => st_fifo[id] # <<>>
  <2> HIDE DEF f
  <2> QED
    BY <1>1, PoppedNow
<1>7. Taking(net, rsp, Consumed, write_rob_idx_offset_q, write_rob_idx_offset_q')
  BY <1>1 DEF Taking
<1>8. First(f, st_fifo, issued) /\ Cleared1(f, unset)
  OBVIOUS
<1> HIDE DEF f, S, popped
<1> DEFINE woff2 == write_rob_idx_offset_q'
           fifo1 == FifosAfter(popped)
           n2 == Consumed
<1>9. /\ Core(n2, S, fifo1, issued, rob_alloc_q \ unset, ax_rob_req_q,
              prev_dest_q, woff2, f.beat.id, read_rob_idx_offset_q)
      /\ Served1(InNet(net) \cup S, f, st_fifo, issued)
      /\ InNet(n2) \cup S = (InNet(net) \cup S) \ {f}
  <2>1. Core(net, S, st_fifo, issued, rob_alloc_q, ax_rob_req_q, prev_dest_q,
             write_rob_idx_offset_q, st_rob_peek_id_q, read_rob_idx_offset_q)
    BY <1>2 DEF CoreNow, S
  <2>2. Taking(net, rsp, n2, write_rob_idx_offset_q, woff2)
    BY <1>7
  <2>3. Forwarding(net, S, rsp, f, st_fifo, issued, fifo1, unset)
    BY <1>1, <1>3, <1>6, <1>8 DEF Forwarding, NoneFirst
  <2> HIDE DEF woff2, fifo1, n2
  <2>4. /\ Core(n2, S, fifo1, issued, rob_alloc_q \ unset, ax_rob_req_q,
                prev_dest_q, woff2, f.beat.id, read_rob_idx_offset_q)
        /\ Served1(InNet(net) \cup S, f, st_fifo, issued)
        /\ Without(InNet(n2) \cup S, InNet(net) \cup S, f)
    BY ONLY <2>1, <2>2, <2>3, CoreForwarded
  <2> QED
    BY <2>4 DEF Without
<1>10. CycleRight(Consumed, Served(f.beat), FifosAfter(popped))
  <2>1. Core(Consumed, Kept', FifosAfter(popped), issued, rob_alloc_q \ unset, ax_rob_req_q,
             prev_dest_q, write_rob_idx_offset_q', st_rob_peek_id_q', read_rob_idx_offset_q')
    BY <1>4, <1>5, <1>9
  <2>2. \A id \in Ids : id = popped => st_fifo[id] # <<>>
    BY <1>6
  <2> QED
    BY ONLY IInv, <1>4, <2>1, <2>2, CycleDone
<1>11. BufferRight'
  <2>1. 0 \in 0 .. IdxSpan - 1
    BY SpanFacts
  <2>2. rob_valid_q \subseteq Slots /\ rob_meta_q \in [Slots -> Beats]
    BY DEF IInv, BufferRight
  <2> QED
    BY <1>4, <2>1, <2>2 DEF BufferRight
<1>12. GiveDone(f)
  BY <1>2, <1>4, <1>5, <1>9, <1>10 DEF GiveDone
<1> QED
  BY <1>10, <1>11, <1>12, NextInv DEF f

\* So does forwarding a response without a slot.
LEMMA ForwardDirectStep ==
    ASSUME IInv, BurstsApart, ForwardDirect
    PROVE  IInv' /\ GiveDone(Offered)
<1>1. /\ ~Releasable /\ rsp # NoRsp /\ Direct /\ rob_state_q = "RoBWrite"
      /\ Forwarded({}) /\ write_rob_idx_offset_q' = write_rob_idx_offset_q
  BY DEF ForwardDirect, Writing
<1>2. First(Offered, st_fifo, issued)
  BY <1>1, DirectFirst
<1>3. ~Offered.tag.rob_req
  BY <1>1, OfferNow DEF OfferRight, Direct
<1>4. Cleared1(Offered, {})
  BY DEF Cleared1
<1> QED
  BY <1>1, <1>2, <1>3, <1>4, ForwardStep

\* So does forwarding a response in order.
LEMMA ForwardInOrderStep ==
    ASSUME IInv, BurstsApart, ForwardInOrder
    PROVE  IInv' /\ GiveDone(Offered)
<1>1. /\ ~Releasable /\ rsp # NoRsp /\ InOrder /\ rob_state_q = "RoBWrite"
      /\ Forwarded({WriteAddr})
      /\ write_rob_idx_offset_q' = Advance(write_rob_idx_offset_q, rsp_i.id, rsp_i.last)
  BY DEF ForwardInOrder, Writing
<1>2. First(Offered, st_fifo, issued) /\ Offered.tag.rob_req
  BY <1>1, InOrderFirst
<1>3. WriteAddr = Place(Offered)
  BY <1>1, <1>2, OfferNow DEF OfferRight
<1>4. Cleared1(Offered, {WriteAddr})
  BY <1>2, <1>3 DEF Cleared1
<1> QED
  BY <1>1, <1>2, <1>4, ForwardStep

\* Storing a response that is out of order keeps the inductive invariant, and
\* gives nothing.
LEMMA StoreStep ==
    ASSUME IInv, BurstsApart, Store
    PROVE  IInv' /\ QuietDone
<1> DEFINE f == Offered
           S == Kept
<1>1. /\ ~Releasable /\ rsp # NoRsp /\ ~Direct /\ ~InOrder /\ rob_state_q = "RoBWrite"
  BY DEF Store, Writing
<1>2. /\ rsp \in Dests /\ net[rsp] # <<>> /\ rsp_i = f.beat /\ rsp_tag = f.tag
      /\ Shifted(net, rsp, Consumed) /\ Alone(net, rsp)
      /\ f \in Outstanding /\ f = net[rsp][1] /\ f \in Flits
      /\ f.tag.rob_req => WriteAddr = Place(f) /\ Place(f) \in Slots
  BY <1>1, OfferNow DEF OfferRight, Offered
<1>3. ~First(f, st_fifo, issued) /\ f.tag.rob_req /\ Place(f) \notin rob_valid_q
  BY <1>1, StoreLater
<1>4. CoreNow /\ Outstanding = InNet(net) \cup S
  BY PartsNow DEF CoreParts
<1>5. \A g \in S : ~First(g, st_fifo, issued)
  BY <1>1, NothingOldest
<1>6. /\ rob_valid_q' = rob_valid_q \cup {Place(f)}
      /\ rob_meta_q' = [rob_meta_q EXCEPT ![Place(f)] = f.beat]
      /\ write_rob_idx_offset_q' = Advance(write_rob_idx_offset_q, f.beat.id, f.beat.last)
      /\ given' = NoBeat
      /\ AxSide(NoId, {}, Consumed, owed)
      /\ NewRsp(Consumed)
      /\ st_rob_peek_id_q' = f.beat.id
      /\ rob_addr_q' = 0 /\ rsp_out_valid_q' = FALSE
      /\ UNCHANGED <<rob_state_q, read_rob_idx_offset_q>>
  BY <1>2, <1>3 DEF Store, Taken
<1>7. /\ Place(f) \in Slots /\ f.beat \in Beats /\ InSlot(f.beat, Place(f)) = f
      /\ rob_valid_q \subseteq Slots /\ rob_meta_q \in [Slots -> Beats]
  BY <1>2, <1>3, FlitTypes, FlitInSlot DEF IInv, BufferRight
<1> HIDE DEF f, S
<1>8. Kept' = S \cup {f}
  <2> DEFINE p == Place(f)
             b == f.beat
             valid2 == rob_valid_q'
             meta2 == rob_meta_q'
  <2>0. /\ valid2 = rob_valid_q \cup {p} /\ meta2 = [rob_meta_q EXCEPT ![p] = b]
        /\ p \in Slots /\ p \notin rob_valid_q /\ InSlot(b, p) = f
        /\ Kept' = Stored(valid2, meta2) /\ S = Stored(rob_valid_q, rob_meta_q)
    BY <1>3, <1>6, <1>7 DEF Kept, S
  <2> HIDE DEF p, b, valid2, meta2
  <2>1. /\ meta2[p] = b /\ \A s \in rob_valid_q : meta2[s] = rob_meta_q[s]
    BY <1>7, <2>0
  <2>2. ASSUME NEW g PROVE g \in Stored(valid2, meta2) <=> g \in S \cup {f}
    <3>1. g \in Stored(valid2, meta2) <=> \E s \in valid2 : g = InSlot(meta2[s], s)
      BY StoredElement
    <3>2. g \in S <=> \E s \in rob_valid_q : g = InSlot(rob_meta_q[s], s)
      BY <2>0, StoredElement
    <3> QED
      BY <2>0, <2>1, <3>1, <3>2
  <2> QED
    BY <2>0, <2>2
<1>9. Taking(net, rsp, Consumed, write_rob_idx_offset_q, write_rob_idx_offset_q')
  BY <1>2, <1>3, <1>6 DEF Taking
<1> DEFINE woff2 == write_rob_idx_offset_q'
           n2 == Consumed
<1>10. /\ Core(n2, S \cup {f}, st_fifo, issued, rob_alloc_q, ax_rob_req_q,
               prev_dest_q, woff2, f.beat.id, read_rob_idx_offset_q)
       /\ InNet(n2) \cup (S \cup {f}) = InNet(net) \cup S
  <2>1. Core(net, S, st_fifo, issued, rob_alloc_q, ax_rob_req_q, prev_dest_q,
             write_rob_idx_offset_q, st_rob_peek_id_q, read_rob_idx_offset_q)
    BY <1>4 DEF CoreNow, S
  <2>2. Taking(net, rsp, n2, write_rob_idx_offset_q, woff2)
    BY <1>9
  <2>3. ~First(f, st_fifo, issued) /\ f = net[rsp][1] /\ NoneFirst(S, st_fifo, issued)
    BY <1>2, <1>3, <1>5 DEF NoneFirst
  <2> DEFINE S2 == S \cup {f}
  <2>5. S2 = S \cup {f}
    OBVIOUS
  <2> HIDE DEF woff2, n2, S2
  <2>4. /\ Core(n2, S2, st_fifo, issued, rob_alloc_q, ax_rob_req_q,
                prev_dest_q, woff2, f.beat.id, read_rob_idx_offset_q)
        /\ InNet(n2) \cup S2 = InNet(net) \cup S
    BY ONLY <2>1, <2>2, <2>3, <2>5, CoreStored
  <2> QED
    BY <2>4 DEF S2
<1>11. CycleRight(Consumed, owed, FifosAfter(NoId))
  <2>1. FifosAfter(NoId) = st_fifo /\ (\A id \in Ids : id # NoId) /\ rob_alloc_q \ {} = rob_alloc_q
    BY NonePopped
  <2>2. Core(Consumed, Kept', FifosAfter(NoId), issued, rob_alloc_q \ {}, ax_rob_req_q,
             prev_dest_q, write_rob_idx_offset_q', st_rob_peek_id_q', read_rob_idx_offset_q')
    BY <1>6, <1>8, <1>10, <2>1
  <2>3. \A id \in Ids : id = NoId => st_fifo[id] # <<>>
    BY <2>1
  <2> QED
    BY ONLY IInv, <1>6, <2>2, <2>3, CycleDone
<1>12. BufferRight'
  <2>1. 0 \in 0 .. IdxSpan - 1
    BY SpanFacts
  <2> DEFINE p == Place(f)
  <2>2. p \in Slots
    BY <1>7
  <2> HIDE DEF p
  <2>3. rob_valid_q' \subseteq Slots /\ rob_meta_q' \in [Slots -> Beats]
    BY <1>6, <1>7, <2>2 DEF p
  <2> QED
    BY <1>1, <1>6, <2>1, <2>3 DEF BufferRight
<1>13. QuietDone
  BY <1>4, <1>6, <1>8, <1>10, <1>11 DEF QuietDone
<1> QED
  BY <1>11, <1>12, <1>13, NextInv

\* The beat whose slot is read is left out of the buffer.
LEMMA KeptLess ==
    ASSUME IInv, NEW a \in rob_valid_q, NEW f, f = InSlot(rob_meta_q[a], a),
           NEW valid2, valid2 = rob_valid_q \ {a}
    PROVE  Stored(valid2, rob_meta_q) = Kept \ {f}
<1>1. ASSUME NEW g PROVE g \in Stored(valid2, rob_meta_q) <=> g \in Kept \ {f}
  <2>1. g \in Stored(valid2, rob_meta_q) <=> \E s \in valid2 : g = InSlot(rob_meta_q[s], s)
    BY StoredElement
  <2>2. g \in Kept <=> \E s \in rob_valid_q : g = InSlot(rob_meta_q[s], s)
    BY StoredElement DEF Kept
  <2>3. ASSUME NEW s \in valid2, g = InSlot(rob_meta_q[s], s) PROVE g # f
    <3>1. Place(g) = s
      BY <2>3, KeptFlits
    <3>2. Place(f) = a
      BY KeptFlits
    <3> QED
      BY <2>3, <3>1, <3>2
  <2>4. ASSUME NEW s \in rob_valid_q, g = InSlot(rob_meta_q[s], s), g # f PROVE s \in valid2
    BY <2>4
  <2> QED
    BY <2>1, <2>2, <2>3, <2>4
<1> QED
  BY <1>1

\* The slot of the next beat of a burst.
LEMMA NextSlot ==
    ASSUME IInv, NEW f, PeekRight(f), ~f.beat.last, NEW o, o = read_rob_idx_offset_q[st_rob_peek_id_q]
    PROVE  /\ RobIdx(o + 1) = f.beat.pos
           /\ RobIdx(ReadAddr + 1) = RobIdx(st_peek_rob_idx + f.beat.pos)
           /\ f.beat.pos \in Slots
<1>1. /\ BurstsWhole(Outstanding) /\ EntriesRight(Outstanding, st_fifo, issued)
      /\ Outstanding = InNet(net) \cup Kept /\ Outstanding \subseteq Flits
  BY PartsNow DEF CoreParts
<1>2. /\ f \in Outstanding /\ f \in Flits /\ f.tag.rob_req /\ Place(f) = ReadAddr
      /\ f.beat.pos = o + 1 /\ f.tag.rob_idx = st_peek_rob_idx
      /\ o \in Nat /\ ReadAddr \in Nat
  BY <1>1 DEF PeekRight
<1>3. PICK h \in Outstanding : Same(f, h) /\ h.beat.pos = f.beat.pos + 1
  BY <1>1, <1>2 DEF BurstsWhole
<1>4. h.tag = f.tag
  BY <1>1, <1>2, <1>3, SameTags
<1>5. f.beat.pos \in Nat /\ f.tag.rob_idx \in Nat
  BY <1>2, FlitTypes
<1> DEFINE p == f.beat.pos
           i == f.tag.rob_idx
<1>6. RobIdx(i + p) = Place(h) /\ Place(h) \in Slots /\ Place(h) = i + p
  <2>1. h.tag.rob_req /\ h.beat.pos = p + 1 /\ h.tag.rob_idx = i
    BY <1>2, <1>3, <1>4
  <2> QED
    BY <1>5, <2>1, Addressed
<1>7. Place(f) = i + p - 1
  BY DEF Place
<1> HIDE DEF p, i
<1>8. p \in Nat /\ i \in Nat /\ p = o + 1
  BY <1>2, <1>5 DEF p, i
<1>9. ReadAddr + 1 = i + p
  BY <1>2, <1>7, <1>8
<1>10. p \in Slots
  BY <1>6, <1>8, SpanFacts
<1>11. RobIdx(o + 1) = p
  BY <1>8, <1>10, IdxKept
<1> QED
  BY <1>2, <1>9, <1>10, <1>11 DEF p, i

\* Releasing a response keeps the inductive invariant; it gives the stored beat
\* unless only metadata is kept.
LEMMA ReadGiveStep ==
    ASSUME IInv, ReadGive,
           NEW f, f = InSlot(rob_meta_q[ReadAddr], ReadAddr)
    PROVE  IInv' /\ (~OnlyMetaData => GiveDone(f))
<1> DEFINE S == Kept
           popped == IF f.beat.last THEN f.beat.id ELSE NoId
           peek == st_rob_peek_id_q
           roff == read_rob_idx_offset_q
           roff2 == read_rob_idx_offset_q'
           a == ReadAddr
           unset == {ReadAddr}
           fifo1 == FifosAfter(popped)
           o == read_rob_idx_offset_q[st_rob_peek_id_q]
<1>1. /\ rob_state_q = "RoBRead" /\ Releasable /\ rsp_out_valid_q
      /\ rob_state_q' = rob_state_q
      /\ rob_valid_q' = rob_valid_q \ {a}
      /\ rob_addr_q' = RobIdx(a + 1)
      /\ rsp_out_valid_q' = ~is_last_rsp_in_rob
      /\ read_rob_idx_offset_q' = Advance(roff, peek, is_last_rsp_in_rob)
      /\ given' = rsp_o
      /\ AxSide(IF is_last_rsp_in_rob THEN peek ELSE NoId, {a}, net, Served(rsp_o))
      /\ KeepRsp
      /\ UNCHANGED <<rob_meta_q, st_rob_peek_id_q, write_rob_idx_offset_q>>
  BY DEF ReadGive, NotTaken
<1>2. PeekRight(f)
  BY <1>1, Peeked
<1>3. /\ f \in S /\ f \in Flits /\ First(f, st_fifo, issued)
      /\ f.beat = rob_meta_q[a] /\ f.tag.rob_req /\ Place(f) = a
      /\ f.beat.id = peek /\ f.beat.pos = roff[peek] + 1
      /\ a \in Slots /\ a \in Nat /\ st_fifo[peek] # <<>> /\ peek \in Ids
      /\ roff \in [Ids -> Nat]
  BY <1>2 DEF PeekRight
<1>4. /\ CoreNow /\ Outstanding = InNet(net) \cup S /\ BurstsWhole(Outstanding)
      /\ f \in Outstanding
  BY <1>3, PartsNow DEF CoreParts
<1>5. rob_addr_q = a
  BY <1>1 DEF IInv, BufferRight
<1>6. is_last_rsp_in_rob <=> f.beat.last
  <2>1. OnlyMetaData => f.beat.last
    BY <1>4, RobAssumption DEF BurstsWhole
  <2> QED
    BY <1>3, <1>5, <2>1 DEF is_last_rsp_in_rob
<1>7. ~OnlyMetaData => rsp_o = f.beat
  BY <1>3, <1>5 DEF rsp_o
<1>8. AxSide(popped, unset, net, Served(rsp_o))
  BY <1>1, <1>3, <1>6
<1>9. /\ Leaves(st_fifo, f, fifo1)
      /\ \A id \in Ids : id = popped => st_fifo[id] # <<>>
  BY <1>4, PoppedNow
<1>10. roff2 = [roff EXCEPT ![peek] = IF f.beat.last THEN 0 ELSE f.beat.pos]
  <2>1. roff2 = [roff EXCEPT ![peek] = IF is_last_rsp_in_rob THEN 0 ELSE RobIdx(roff[peek] + 1)]
    BY <1>1 DEF Advance
  <2>2. ~f.beat.last => RobIdx(roff[peek] + 1) = f.beat.pos
    BY <1>2, NextSlot
  <2> QED
    BY <1>6, <2>1, <2>2
<1>11. Kept' = S \ {f}
  <2>1. Kept' = Stored(rob_valid_q', rob_meta_q)
    BY <1>1 DEF Kept
  <2>2. a \in rob_valid_q
    BY <1>1 DEF Releasable
  <2> QED
    BY <1>1, <2>1, <2>2, KeptLess
<1>12. Cleared1(f, unset)
  BY <1>3 DEF Cleared1
<1>13. /\ Core(net, Kept', fifo1, issued, rob_alloc_q \ unset, ax_rob_req_q, prev_dest_q,
               write_rob_idx_offset_q, peek, roff2)
       /\ Served1(InNet(net) \cup S, f, st_fifo, issued)
       /\ Without(InNet(net) \cup Kept', InNet(net) \cup S, f)
  <2>1. Core(net, S, st_fifo, issued, rob_alloc_q, ax_rob_req_q, prev_dest_q,
             write_rob_idx_offset_q, peek, roff)
    BY <1>4 DEF CoreNow
  <2> DEFINE S2 == Kept'
  <2>2. S2 = S \ {f}
    BY <1>11
  <2> HIDE DEF S, popped, peek, roff, roff2, a, unset, fifo1, S2
  <2>3. Releasing(S, f, st_fifo, issued, peek, roff, fifo1, unset, roff2)
    BY <1>3, <1>9, <1>10, <1>12 DEF Releasing
  <2>4. /\ Core(net, S2, fifo1, issued, rob_alloc_q \ unset, ax_rob_req_q, prev_dest_q,
                write_rob_idx_offset_q, peek, roff2)
        /\ Served1(InNet(net) \cup S, f, st_fifo, issued)
        /\ Without(InNet(net) \cup S2, InNet(net) \cup S, f)
    BY ONLY <2>1, <2>2, <2>3, CoreReleased
  <2> QED
    BY <2>4 DEF S2
<1>14. NewRsp(net) \/ (rsp' = rsp /\ net = net)
  BY <1>1 DEF KeepRsp
<1>15. CycleRight(net, Served(rsp_o), FifosAfter(popped))
  <2>1. Core(net, Kept', FifosAfter(popped), issued, rob_alloc_q \ unset, ax_rob_req_q,
             prev_dest_q, write_rob_idx_offset_q', st_rob_peek_id_q', read_rob_idx_offset_q')
    BY <1>1, <1>11, <1>13
  <2> QED
    BY ONLY IInv, <1>8, <1>9, <1>14, <2>1, CycleDone
<1>16. BufferRight'
  <2>1. rob_addr_q' \in 0 .. IdxSpan - 1
    <3> HIDE DEF a
    <3>1. a \in Nat /\ IdxSpan \in Nat /\ IdxSpan >= 2
      BY <1>3, SpanFacts
    <3>2. (a + 1) % IdxSpan \in 0 .. IdxSpan - 1
      BY <3>1
    <3> QED
      BY <1>1, <3>2 DEF RobIdx
  <2>2. rob_valid_q' \subseteq Slots /\ rob_meta_q' \in [Slots -> Beats]
    BY <1>1 DEF IInv, BufferRight
  <2>3. rsp_out_valid_q' \in BOOLEAN
    BY <1>1 DEF is_last_rsp_in_rob
  <2>4. ASSUME rsp_out_valid_q' PROVE rob_addr_q' = ReadAddr'
    <3>1. ~f.beat.last
      BY <1>1, <1>6, <2>4
    <3>2. popped = NoId /\ FifosAfter(NoId) = st_fifo
      BY <3>1, NonePopped
    <3>3. CycleRight(net, Served(rsp_o), st_fifo)
      BY <1>15, <3>2
    <3>4. st_peek_rob_idx' = st_peek_rob_idx
      BY <1>1, <1>3, <3>3, PeekStays
    <3>5. roff2[peek] = f.beat.pos
      BY <1>3, <1>10, <3>1
    <3>6. RobIdx(ReadAddr + 1) = RobIdx(st_peek_rob_idx + f.beat.pos)
      BY <1>2, <3>1, NextSlot
    <3>7. ReadAddr' = RobIdx(st_peek_rob_idx + f.beat.pos)
      BY <1>1, <3>4, <3>5 DEF ReadAddr, RobIdx
    <3> QED
      BY <1>1, <3>6, <3>7
  <2> QED
    BY <1>1, <2>1, <2>2, <2>3, <2>4 DEF BufferRight
<1>17. ~OnlyMetaData => GiveDone(f)
  BY <1>1, <1>4, <1>7, <1>11, <1>13, <1>15 DEF GiveDone, Without
<1> QED
  BY <1>15, <1>16, <1>17, NextInv

-----------------------------------------------------------------------------
(* The invariant *)

\* The invariant holds when nothing is outstanding.
LEMMA CoreEmpty ==
    ASSUME NEW n, n = [d \in Dests |-> <<>>], NEW fifo, fifo = [id \in Ids |-> <<>>],
           NEW iss, iss = [id \in Ids |-> 0], NEW sticky, sticky = [id \in Ids |-> FALSE],
           NEW prev \in [Ids -> Dests], NEW woff, woff = [id \in Ids |-> 0], NEW peek \in Ids
    PROVE  Core(n, {}, fifo, iss, {}, sticky, prev, woff, peek, woff)
<1>1. \A d \in Dests : n[d] = <<>>
  OBVIOUS
<1>2. InNet(n) \cup {} = {}
  <2>1. ASSUME NEW f \in InNet(n) PROVE FALSE
    <3>1. PICK d \in Dests : \E k \in DOMAIN n[d] : f = n[d][k]
      BY InNetElement
    <3> QED
      BY <1>1, <3>1
  <2> QED
    BY <2>1
<1>3. BurstsWhole({})
  BY DEF BurstsWhole
<1>4. EntriesRight({}, fifo, iss)
  BY DEF EntriesRight
<1>5. \A id \in Ids : Len(fifo[id]) <= MaxRoTxnsPerId
  BY SpanFacts
<1>6. SlotsRight({}, {})
  BY DEF SlotsRight
<1>7. QueuesRight(n)
  BY <1>1 DEF QueuesRight
<1>8. DestsRight(n, fifo, sticky, prev)
  BY <1>1 DEF DestsRight
<1>9. \A d \in Dests : ~Mid(n, d)
  BY <1>1 DEF Mid
<1>10. OneMid(n) /\ WriteRight(n, woff)
  BY <1>9 DEF OneMid, WriteRight
<1>11. StoredRight({}, n, fifo, iss, peek, woff)
  BY DEF StoredRight
<1> QED
  BY <1>2, <1>3, <1>4, <1>5, <1>6, <1>7, <1>8, <1>10, <1>11 DEF Core

\* The inductive invariant holds after reset.
LEMMA InitInv == Init => IInv /\ OrderInv
<1> SUFFICES ASSUME Init PROVE IInv /\ OrderInv
  OBVIOUS
<1>1. 0 \in Ids
  BY PortsAssumption DEF Ids
<1>2. Stored(rob_valid_q, rob_meta_q) = {}
  BY DEF Init, Stored
<1>3. prev_dest_q \in [Ids -> Dests]
  BY DEF Init
<1>4. Core(net, Stored(rob_valid_q, rob_meta_q), st_fifo, issued, rob_alloc_q, ax_rob_req_q,
           prev_dest_q, write_rob_idx_offset_q, st_rob_peek_id_q, read_rob_idx_offset_q)
  <2>1. /\ net = [d \in Dests |-> <<>>] /\ issued = [id \in Ids |-> 0]
        /\ st_fifo = [id \in Ids |-> <<>>] /\ ax_rob_req_q = [id \in Ids |-> FALSE]
        /\ rob_alloc_q = {} /\ st_rob_peek_id_q = 0
        /\ read_rob_idx_offset_q = [id \in Ids |-> 0]
        /\ write_rob_idx_offset_q = read_rob_idx_offset_q
    BY DEF Init, PortsInit
  <2> QED
    BY <1>1, <1>2, <1>3, <2>1, CoreEmpty
<1>5. AxInv /\ RspInv /\ BurstsApart
  BY DEF Init, PortsInit, AxInv, RspInv, BurstsApart
<1>6. BufferRight
  <2>1. NoBeat \in Beats
    BY <1>1 DEF NoBeat, Beats
  <2>2. rob_meta_q \in [Slots -> Beats]
    BY <2>1 DEF Init
  <2>3. 0 \in 0 .. IdxSpan - 1
    BY SpanFacts
  <2> QED
    BY <2>2, <2>3 DEF Init, BufferRight
<1>7. IInv
  BY <1>4, <1>5, <1>6 DEF IInv
<1>8. Outstanding = {}
  <2>1. ASSUME NEW f \in InNet(net) PROVE FALSE
    <3>1. PICK d \in Dests : \E k \in DOMAIN net[d] : f = net[d][k]
      BY InNetElement
    <3> QED
      BY <3>1 DEF Init, PortsInit
  <2> QED
    BY <1>2, <2>1 DEF Outstanding
<1>9. OrderInv
  <2>1. owed = [id \in Ids |-> <<>>]
    BY DEF Init, PortsInit
  <2> QED
    BY <1>8, <2>1 DEF OrderInv, OwedRight
<1> QED
  BY <1>7, <1>9

\* What a cycle does to the beats: it gives the oldest one of an ID, or none.
LEMMA CycleSteps ==
    ASSUME IInv, BurstsApart, Next
    PROVE  IInv' /\ (~OnlyMetaData => QuietDone \/ \E f : GiveDone(f))
<1>1. CASE ReadWait
  <2>1. IInv' /\ CycleRight(net, owed, st_fifo) /\ Kept' = Kept
    BY <1>1, ReadWaitStep
  <2>2. given' = NoBeat
    BY <1>1 DEF ReadWait
  <2>3. Outstanding = InNet(net) \cup Kept
    BY DEF Outstanding, Kept
  <2>4. QuietDone
    BY <2>1, <2>2, <2>3 DEF QuietDone
  <2> QED
    BY <2>1, <2>4
<1>2. CASE ReadLeave \/ EnterRead \/ WriteWait
  <2>1. /\ NotTaken(NoId, {}, owed)
        /\ UNCHANGED <<rob_valid_q, read_rob_idx_offset_q>>
        /\ rob_state_q' \in {"RoBRead", "RoBWrite"} /\ rob_addr_q' = 0
        /\ \/ rob_state_q' = "RoBWrite" /\ rsp_out_valid_q' = rsp_out_valid_q
           \/ rsp_out_valid_q' = FALSE
        /\ given' = NoBeat
    <3>1. rob_state_q \in {"RoBRead", "RoBWrite"}
      BY DEF IInv, BufferRight
    <3> QED
      BY <1>2, <3>1 DEF ReadLeave, EnterRead, WriteWait
  <2>2. IInv' /\ CycleRight(net, owed, st_fifo) /\ Kept' = Kept
    BY <2>1, IdleStep
  <2>3. Outstanding = InNet(net) \cup Kept
    BY DEF Outstanding, Kept
  <2>4. QuietDone
    BY <2>1, <2>2, <2>3 DEF QuietDone
  <2> QED
    BY <2>2, <2>4
<1>3. CASE ReadGive
  BY <1>3, ReadGiveStep
<1>4. CASE ForwardDirect
  BY <1>4, ForwardDirectStep
<1>5. CASE ForwardInOrder
  BY <1>5, ForwardInOrderStep
<1>6. CASE Store
  BY <1>6, StoreStep
<1> QED
  BY <1>1, <1>2, <1>3, <1>4, <1>5, <1>6 DEF Next

\* The inductive invariant depends on no more than the variables of Rob.
LEMMA InvariantKept ==
    ASSUME IInv, UNCHANGED vars
    PROVE  IInv'
BY DEF IInv, AxInv, RspInv, BufferRight, Releasable, ReadAddr, st_peek_valid, st_peek_rob_idx,
       BurstsApart, rsp_i, MidBurst, vars, table, buffer, ports

\* The registers, the table and the beats on their way or stored stay
\* consistent in every cycle, for any number of IDs, destinations, requests,
\* beats and slots (hw/floo_rob.sv).
LEMMA Invariance == Spec /\ []BurstsApart => []IInv
<1>1. IInv /\ BurstsApart /\ [Next]_vars => IInv'
  BY CycleSteps, InvariantKept
<1> QED
  BY InitInv, <1>1, PTL DEF Spec

\* Responses of one beat never interleave.
LEMMA OneBeatApart == IInv /\ BurstIds = {} => BurstsApart
<1> SUFFICES ASSUME IInv, BurstIds = {}, NEW d \in Dests, NEW id, MidBurst(d, id, net) PROVE FALSE
  BY DEF BurstsApart
<1>1. QueuesRight(net) /\ BurstsWhole(Outstanding) /\ Outstanding = InNet(net) \cup Kept
  BY PartsNow DEF CoreParts
<1>2. net[d] # <<>> /\ Head(net[d]).beat.pos > 1
  BY DEF MidBurst
<1>3. Head(net[d]) = net[d][1] /\ net[d][1] \in InNet(net)
  BY <1>1, <1>2, QueueTypes
<1>4. net[d][1].beat.pos = 1
  BY <1>1, <1>3 DEF BurstsWhole
<1> QED
  BY <1>2, <1>3, <1>4

\* Bursts of an ID stay apart when the network keeps them apart, and in every
\* network when responses have one beat (hw/floo_rob.sv behind R channels whose
\* flits are packets of their own, hw/floo_axi_chimney.sv:643).
THEOREM BurstsStayApart == (~Interleaved \/ BurstIds = {}) /\ Spec => []BurstsApart
<1> SUFFICES ASSUME ~Interleaved \/ BurstIds = {} PROVE Spec => []BurstsApart
  OBVIOUS
<1>1. IInv => BurstsApart
  BY OneBeatApart DEF IInv
<1>2. IInv /\ [Next]_vars => IInv'
  BY <1>1, CycleSteps, InvariantKept
<1> QED
  BY InitInv, <1>1, <1>2, PTL DEF Spec

-----------------------------------------------------------------------------
(* Slots are safe *)

\* Offsets stay below the length of the longest burst.
LEMMA OffsetBounds ==
    ASSUME IInv
    PROVE  /\ read_rob_idx_offset_q \in [Ids -> Offsets]
           /\ write_rob_idx_offset_q \in [Ids -> Offsets]
<1>1. /\ BurstsWhole(Outstanding) /\ Outstanding = InNet(net) \cup Kept /\ QueuesRight(net)
      /\ WriteRight(net, write_rob_idx_offset_q)
      /\ StoredRight(Kept, net, st_fifo, issued, st_rob_peek_id_q, read_rob_idx_offset_q)
      /\ Outstanding \subseteq Flits
  BY PartsNow DEF CoreParts
<1>2. 0 \in Offsets
  BY DEF Offsets, Lens
<1>3. ASSUME NEW id \in Ids PROVE read_rob_idx_offset_q[id] \in Offsets
  <2> DEFINE o == read_rob_idx_offset_q[id]
  <2>1. o \in Nat
    BY <1>1 DEF StoredRight
  <2>2. ASSUME o # 0 PROVE o \in Offsets
    <3>1. PICK f \in Kept : f.beat.id = id /\ First(f, st_fifo, issued)
      BY <1>1, <2>2 DEF StoredRight
    <3>2. PICK g \in Kept : g.beat.pos = o + 1
      BY <1>1, <3>1 DEF StoredRight
    <3>3. g.beat.pos - 1 \in Offsets
      BY <1>1, <3>2 DEF BurstsWhole
    <3> HIDE DEF o
    <3>4. g.beat.pos - 1 = o
      BY <2>1, <3>2
    <3> QED
      BY <3>3, <3>4
  <2> QED
    BY <1>2, <2>2
<1>4. ASSUME NEW id \in Ids PROVE write_rob_idx_offset_q[id] \in Offsets
  <2> DEFINE o == write_rob_idx_offset_q[id]
  <2>1. ASSUME o # 0 PROVE o \in Offsets
    <3>1. PICK d \in Dests : Mid(net, d) /\ net[d][1].tag.rob_req /\ net[d][1].beat.id = id
      BY <1>1, <2>1 DEF WriteRight
    <3>2. o = net[d][1].beat.pos - 1
      BY <1>1, <3>1 DEF WriteRight
    <3>3. net[d][1] \in Outstanding
      BY <1>1, <3>1, QueueTypes DEF Mid
    <3> QED
      BY <1>1, <3>2, <3>3 DEF BurstsWhole
  <2> QED
    BY <1>2, <2>1
<1>5. read_rob_idx_offset_q \in [Ids -> Nat] /\ write_rob_idx_offset_q \in [Ids -> Nat]
  BY <1>1 DEF StoredRight, WriteRight
<1> QED
  BY <1>3, <1>4, <1>5

\* Slots that are occupied are reserved.
LEMMA ReservedNow ==
    ASSUME IInv
    PROVE  Reserved
<1>1. /\ BurstsWhole(Outstanding) /\ EntriesRight(Outstanding, st_fifo, issued)
      /\ SlotsRight(Outstanding, rob_alloc_q)
      /\ Outstanding = InNet(net) \cup Kept /\ Outstanding \subseteq Flits
  BY PartsNow DEF CoreParts
<1>2. ComingBeats = InNet(net)
  BY DEF ComingBeats, InNet
<1> SUFFICES ASSUME NEW f \in InNet(net), f.tag.rob_req
             PROVE  \E s \in rob_alloc_q : f.tag.rob_idx + f.beat.pos - 1 <= s
  BY <1>2 DEF Reserved
<1>3. PICK g \in Outstanding : /\ Same(f, g) /\ g.beat.last /\ f.beat.pos <= g.beat.pos
                               /\ g.tag = f.tag
  BY <1>1, LastThere
<1>4. Place(g) \in rob_alloc_q
  BY <1>1, <1>3 DEF SlotsRight
<1>5. Place(g) = f.tag.rob_idx + g.beat.pos - 1
  BY <1>3 DEF Place
<1>6. f.tag.rob_idx \in Nat /\ f.beat.pos \in Nat /\ g.beat.pos \in Nat
  BY <1>1, <1>3, FlitTypes
<1>7. f.tag.rob_idx + f.beat.pos - 1 <= Place(g)
  BY <1>3, <1>5, <1>6
<1> QED
  BY <1>4, <1>7

\* A beat is never stored over one that still waits, and no slot is handed out
\* while beats for it are still to come: the offset and the index of a beat
\* find its own slot, and the flag of the last slot of a response keeps those
\* before it (hw/floo_rob.sv).
THEOREM SlotsAreSafe == Spec /\ []BurstsApart => []SlotsSafe
<1>1. ASSUME IInv, BurstsApart PROVE SlotsSafe
  <2>1. TypeOK
    <3>1. \A id \in Ids : Len(st_fifo[id]) <= MaxRoTxnsPerId
      BY <1>1, PartsNow DEF CoreParts
    <3>2. /\ rob_state_q \in {"RoBRead", "RoBWrite"}
          /\ rob_valid_q \subseteq Slots /\ rob_alloc_q \subseteq Slots
          /\ rob_addr_q \in 0 .. IdxSpan - 1
      BY <1>1, PartsNow DEF CoreParts, IInv, BufferRight
    <3>3. st_rob_peek_id_q \in Ids
      BY <1>1, PartsNow DEF CoreParts, StoredRight
    <3>4. /\ read_rob_idx_offset_q \in [Ids -> Offsets]
          /\ write_rob_idx_offset_q \in [Ids -> Offsets]
      BY <1>1, OffsetBounds
    <3>5. rsp \in Dests \cup {NoRsp}
      BY <1>1 DEF IInv, RspInv
    <3> QED
      BY <3>1, <3>2, <3>3, <3>4, <3>5 DEF TypeOK, Offsets
  <2>2. NoOverwrite
    <3>1. ASSUME rsp # NoRsp, ~Direct, ~InOrder PROVE WriteAddr \notin rob_valid_q
      <4>1. Offered.tag.rob_req /\ Place(Offered) \notin rob_valid_q
        BY <1>1, <3>1, StoreLater
      <4>2. WriteAddr = Place(Offered)
        BY <1>1, <3>1, <4>1, OfferNow DEF OfferRight
      <4> QED
        BY <4>1, <4>2
    <3> QED
      BY <3>1 DEF NoOverwrite
  <2>3. Reserved
    BY <1>1, ReservedNow
  <2> QED
    BY <2>1, <2>2, <2>3 DEF SlotsSafe
<1> QED
  BY <1>1, Invariance, PTL

\* So it is in any network when responses have one beat, which is always the
\* case on the B channel (hw/floo_rob.sv).
THEOREM OneBeatSlots == BurstIds = {} /\ Spec => []SlotsSafe
<1> SUFFICES ASSUME BurstIds = {} PROVE Spec => []SlotsSafe
  OBVIOUS
<1>1. Spec => []BurstsApart
  BY BurstsStayApart
<1> QED
  BY <1>1, SlotsAreSafe, PTL

-----------------------------------------------------------------------------
(* Responses are in order *)

\* What is owed is outstanding after a cycle that is right.
LEMMA OutstandingLater ==
    ASSUME NEW net1, NEW owed1, NEW fifo1, CycleRight(net1, owed1, fifo1),
           OwedRight(InNet(net1) \cup Kept', owed1)
    PROVE  OrderInv'
<1>1. OwedRight(InNet(net') \cup Kept', owed')
  BY DEF CycleRight, RequestsDone
<1>2. Outstanding' = InNet(net') \cup Kept'
  BY DEF Outstanding, Kept
<1> QED
  BY <1>1, <1>2 DEF OrderInv

\* A cycle that gives nothing refines a step of a manager that may send a
\* request.
LEMMA QuietOrder ==
    ASSUME IInv, OrderInv, QuietDone
    PROVE  OrderInv' /\ [AXI!Next]_<<owed, given>>
<1>1. PICK net1, fifo1 : /\ CycleRight(net1, owed, fifo1)
                         /\ InNet(net1) \cup Kept' = Outstanding
  BY DEF QuietDone
<1>2. OrderInv'
  <2>1. OwedRight(InNet(net1) \cup Kept', owed)
    BY <1>1 DEF OrderInv
  <2> QED
    BY <1>1, <2>1, OutstandingLater
<1>3. Pushes(owed) /\ given' = NoBeat
  BY <1>1 DEF CycleRight, RequestsDone, QuietDone
<1> QED
  BY <1>2, <1>3, QuietRefines

\* A cycle that gives the first beat owed refines a response in order.
LEMMA GiveOrder ==
    ASSUME IInv, OrderInv, NEW f, GiveDone(f)
    PROVE  OrderInv' /\ [AXI!Next]_<<owed, given>>
<1> DEFINE G == Outstanding
           o == owed
           id == f.beat.id
           rest == [owed EXCEPT ![id] = Tail(@)]
<1>1. PICK net1, fifo1 : /\ CycleRight(net1, Served(f.beat), fifo1)
                         /\ InNet(net1) \cup Kept' = G \ {f}
  BY DEF GiveDone
<1>2. /\ f \in G /\ First(f, st_fifo, issued)
      /\ \A g \in G : Same(f, g) => f.beat.pos <= g.beat.pos
      /\ given' = f.beat
  BY DEF GiveDone, Served1
<1>3. BurstsWhole(G) /\ EntriesRight(G, st_fifo, issued)
  BY PartsNow DEF CoreParts
<1>4. OwedRight(G, o)
  BY DEF OrderInv
<1> HIDE DEF G, o
<1>5. /\ f.beat.id \in Ids /\ o[f.beat.id] \in Seq(Beats) /\ o[f.beat.id] # <<>>
      /\ Head(o[f.beat.id]) = f.beat
  BY ONLY <1>2, <1>3, <1>4, OwedHead
<1>6. owed \in [Ids -> Seq(Beats)]
  BY <1>4 DEF OwedRight, o
<1>7. Served(f.beat) = rest
  BY <1>5, <1>6 DEF Served, o
<1>8. OwedRight(G \ {f}, rest)
  <2>1. rest = [o EXCEPT ![f.beat.id] = Tail(@)]
    BY DEF o
  <2> HIDE DEF rest
  <2> QED
    BY ONLY <1>2, <1>3, <1>4, <2>1, OwedServed
<1>9. OrderInv'
  <2>1. OwedRight(InNet(net1) \cup Kept', Served(f.beat))
    BY <1>1, <1>7, <1>8
  <2> QED
    BY <1>1, <2>1, OutstandingLater
<1>10. Pushes(rest)
  BY <1>1, <1>7 DEF CycleRight, RequestsDone
<1>11. id \in Ids /\ owed[id] # <<>> /\ given' = Head(owed[id])
  BY <1>2, <1>5 DEF o
<1> HIDE DEF id
<1>12. [AXI!Next]_<<owed, given>>
  BY <1>6, <1>10, <1>11, GiveRefines
<1> QED
  BY <1>9, <1>12

\* Responses of an ID come back in the order of its requests, whole and once:
\* what is forwarded, and what is released from the buffer, is the oldest beat
\* of the oldest request of its ID (hw/floo_rob.sv, R channel).
THEOREM BufferKeepsOrder ==
    ~OnlyMetaData /\ Spec /\ []BurstsApart => OrderedResponses
<1> SUFFICES ASSUME ~OnlyMetaData PROVE Spec /\ []BurstsApart => OrderedResponses
  OBVIOUS
<1>1. Init => AXI!Init
  BY DEF Init, PortsInit, AXI!Init
<1>2. IInv /\ BurstsApart /\ OrderInv /\ [Next]_vars => OrderInv' /\ [AXI!Next]_<<owed, given>>
  <2> SUFFICES ASSUME IInv, BurstsApart, OrderInv, [Next]_vars
               PROVE  OrderInv' /\ [AXI!Next]_<<owed, given>>
    OBVIOUS
  <2>1. CASE Next
    <3>1. QuietDone \/ \E f : GiveDone(f)
      BY <2>1, CycleSteps
    <3>2. CASE QuietDone
      BY <3>2, QuietOrder
    <3>3. CASE \E f : GiveDone(f)
      BY <3>3, GiveOrder
    <3> QED
      BY <3>1, <3>2, <3>3
  <2>2. CASE UNCHANGED vars
    BY <2>2 DEF vars, table, buffer, ports, OrderInv, Outstanding
  <2> QED
    BY <2>1, <2>2
<1> QED
  <2>1. Spec /\ []BurstsApart => []IInv
    BY Invariance, PTL
  <2> QED
    BY <1>1, <1>2, <2>1, InitInv, PTL DEF Spec, OrderedResponses, AXI!Spec

\* So it is in any network when responses have one beat (hw/floo_rob.sv, R
\* channel).
THEOREM OneBeatOrder == BurstIds = {} /\ ~OnlyMetaData /\ Spec => OrderedResponses
<1> SUFFICES ASSUME BurstIds = {}, ~OnlyMetaData PROVE Spec => OrderedResponses
  OBVIOUS
<1>1. Spec => []BurstsApart
  BY BurstsStayApart
<1>2. Spec /\ []BurstsApart => OrderedResponses
  BY BufferKeepsOrder
<1> QED
  BY <1>1, <1>2, PTL

=============================================================================
