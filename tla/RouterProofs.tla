---------------------------- MODULE RouterProofs ----------------------------
(***************************************************************************)
(* Proofs about Router for any numbers of inputs and outputs, any depth of  *)
(* the FIFOs, any connections and any length of the packets, with and       *)
(* without multicast: first the copies of each flit, for which the arbiters *)
(* need only forward flits that are offered to them, then the output links, *)
(* for which their registers enter.                                         *)
(***************************************************************************)
EXTENDS Router, WellFoundedInduction, FiniteSetTheorems, TLAPS

-----------------------------------------------------------------------------
(* Streams of flits *)

\* The flit after a flit that is not the last of its packet.
NextFlit(x) == [route |-> x.route, left |-> x.left - 1]

\* A set of flits closed under what follows in a packet.
FlitSet(F) ==
    \A x \in F : /\ x.route # {}
                 /\ x.left \in Nat \ {0}
                 /\ x.left > 1 => NextFlit(x) \in F

\* The next flit of a packet.
Follows(x, y) == x.left > 1 => y = NextFlit(x)

\* A flit that is not the first of its packet.
Continued(F, y) == \E x \in F : x.left > 1 /\ y = NextFlit(x)

\* An input with queue f, lock and past handshakes, whose outputs have yet to
\* get the flits in ow and whose upstream router has sent up last.
Stream(F, f, lock, past, up, ow) ==
    /\ f \in Seq(F)
    /\ up \in F \cup {NoFlit}
    /\ \A k \in 1 .. Len(f) - 1 : Follows(f[k], f[k + 1])
    /\ f # <<>> =>
          /\ up = IF f[Len(f)].left = 1 THEN NoFlit ELSE f[Len(f)]
          /\ \/ lock = {}
             \/ /\ lock = f[1].route
                /\ Continued(F, f[1])
          /\ past \subseteq f[1].route
          /\ \A o \in Outputs :
                ow[o] = IF o \notin f[1].route THEN 0
                        ELSE IF o \in past THEN f[1].left - 1
                        ELSE IF lock = {} THEN 0 ELSE f[1].left
    /\ f = <<>> =>
          /\ lock = IF up.left = 1 THEN {} ELSE up.route
          /\ past = {}
          /\ \A o \in Outputs : ow[o] = IF o \in lock THEN up.left - 1 ELSE 0

\* The router upstream sends the next flit of its packet, or a first one.
LEMMA StreamReceives ==
    ASSUME NEW F, FlitSet(F), NEW f, NEW lock, NEW past, NEW up, NEW ow,
           Stream(F, f, lock, past, up, ow),
           NEW x \in F, Follows(up, x)
    PROVE  Stream(F, f \o <<x>>, lock, past, IF x.left = 1 THEN NoFlit ELSE x, ow)
<1> DEFINE g == f \o <<x>>
<1>0. f \in Seq(F) /\ up \in F \cup {NoFlit} /\ x.left \in Nat \ {0}
  BY DEF Stream, FlitSet
<1>1. /\ g \in Seq(F) /\ Len(g) = Len(f) + 1 /\ g # <<>>
      /\ \A k \in 1 .. Len(f) : g[k] = f[k]
      /\ g[Len(g)] = x
  BY <1>0
<1>2. CASE f # <<>>
  <2>1. Len(f) \in Nat \ {0} /\ f[Len(f)] \in F
    BY <1>0, <1>2
  <2>2. g[1] = f[1]
    BY <1>1, <2>1
  <2>3. Follows(f[Len(f)], x)
    <3>1. f[Len(f)].left > 1 => up = f[Len(f)]
      BY <1>2 DEF Stream
    <3> QED
      BY <3>1 DEF Follows
  <2>4. \A k \in 1 .. Len(g) - 1 : Follows(g[k], g[k + 1])
    <3> SUFFICES ASSUME NEW k \in 1 .. Len(f) PROVE Follows(g[k], g[k + 1])
      BY <1>1, <2>1
    <3>1. CASE k = Len(f)
      BY <1>1, <2>1, <2>3, <3>1
    <3>2. CASE k # Len(f)
      <4>1. k \in 1 .. Len(f) - 1 /\ k + 1 \in 1 .. Len(f)
        BY <2>1, <3>2
      <4>2. Follows(f[k], f[k + 1])
        BY <4>1 DEF Stream
      <4> QED
        BY <1>1, <4>1, <4>2
    <3> QED
      BY <3>1, <3>2
  <2> HIDE DEF g
  <2> QED
    BY <1>1, <1>2, <2>2, <2>4 DEF Stream
<1>3. CASE f = <<>>
  <2>1. Len(g) = 1 /\ g[1] = x
    BY <1>1, <1>3
  <2>2. CASE up.left = 1
    BY <1>0, <1>1, <1>3, <2>1, <2>2 DEF Stream
  <2>3. CASE up.left # 1
    <3>1. up \in F /\ up.left > 1 /\ up.route # {}
      <4>1. NoFlit.left = 1
        BY DEF NoFlit
      <4>2. \A y \in F : y.left \in Nat \ {0} /\ y.route # {}
        BY DEF FlitSet
      <4> QED
        BY <1>0, <2>3, <4>1, <4>2
    <3>2. x = NextFlit(up)
      BY <3>1 DEF Follows
    <3>3. x.route = up.route /\ x.left = up.left - 1
      BY <3>2 DEF NextFlit
    <3>4. /\ lock = up.route /\ past = {}
          /\ Continued(F, x)
          /\ \A o \in Outputs : ow[o] = IF o \in lock THEN up.left - 1 ELSE 0
      BY <1>3, <2>3, <3>1, <3>2 DEF Stream, Continued
    <3>5. Stream(F, g, lock, past, IF x.left = 1 THEN NoFlit ELSE x, ow)
      <4> HIDE DEF g
      <4> QED
        BY <1>1, <2>1, <3>1, <3>3, <3>4 DEF Stream
    <3> QED
      BY <3>5
  <2> QED
    BY <2>2, <2>3
<1> QED
  BY <1>2, <1>3


\* What the outputs have yet to get after the copies in cur were taken.
Owes(x, cur, ow, ow1) ==
    \A o \in Outputs : ow1[o] = IF o \notin cur THEN ow[o]
                                ELSE IF ow[o] > 0 THEN ow[o] - 1 ELSE x.left - 1

\* The head of a queue is a flit.
LEMMA StreamHead ==
    ASSUME NEW F, FlitSet(F), NEW f, NEW lock, NEW past, NEW up, NEW ow,
           Stream(F, f, lock, past, up, ow), f # <<>>
    PROVE  /\ f \in Seq(F) /\ Len(f) \in Nat \ {0}
           /\ f[1] \in F /\ f[1].left \in Nat \ {0} /\ f[1].route # {}
<1>1. f \in Seq(F)
  BY DEF Stream
<1>2. Len(f) \in Nat \ {0} /\ f[1] \in F
  BY <1>1
<1>3. \A x \in F : x.left \in Nat \ {0} /\ x.route # {}
  BY DEF FlitSet
<1> QED
  BY <1>1, <1>2, <1>3

\* Some copies are taken and the flit stays.
LEMMA StreamKeeps ==
    ASSUME NEW F, FlitSet(F), NEW f, NEW lock, NEW past, NEW up, NEW ow,
           Stream(F, f, lock, past, up, ow), f # <<>>,
           NEW cur \in SUBSET (f[1].route \ past), NEW ow1, Owes(f[1], cur, ow, ow1)
    PROVE  Stream(F, f, lock, past \cup cur, up, ow1)
<1>1. f[1] \in F /\ f[1].left \in Nat \ {0} /\ f[1].route # {}
  BY StreamHead
<1>2. ASSUME NEW o \in Outputs
      PROVE  ow1[o] = IF o \notin f[1].route THEN 0
                      ELSE IF o \in past \cup cur THEN f[1].left - 1
                      ELSE IF lock = {} THEN 0 ELSE f[1].left
  <2>1. ow[o] = IF o \notin f[1].route THEN 0
                ELSE IF o \in past THEN f[1].left - 1
                ELSE IF lock = {} THEN 0 ELSE f[1].left
    BY DEF Stream
  <2> QED
    BY <1>1, <2>1 DEF Owes
<1>3. past \cup cur \subseteq f[1].route
  BY DEF Stream
<1> QED
  BY <1>2, <1>3 DEF Stream

\* The last copies are taken and the flit leaves.
LEMMA StreamLeaves ==
    ASSUME NEW F, FlitSet(F), NEW f, NEW lock, NEW past, NEW up, NEW ow,
           Stream(F, f, lock, past, up, ow), f # <<>>,
           NEW cur \in SUBSET (f[1].route \ past), NEW ow1, Owes(f[1], cur, ow, ow1),
           f[1].route \subseteq past \cup cur
    PROVE  Stream(F, Tail(f), IF f[1].left = 1 THEN {} ELSE f[1].route, {}, up, ow1)
<1> DEFINE g == Tail(f)
           lock1 == IF f[1].left = 1 THEN {} ELSE f[1].route
<1>0. f \in Seq(F) /\ f[1] \in F /\ f[1].left \in Nat \ {0} /\ f[1].route # {}
      /\ Len(f) \in Nat \ {0}
  BY StreamHead
<1>1. /\ g \in Seq(F) /\ Len(g) = Len(f) - 1
      /\ \A k \in 1 .. Len(f) - 1 : g[k] = f[k + 1]
  BY <1>0
<1>2. \A o \in Outputs : ow1[o] = IF o \in f[1].route THEN f[1].left - 1 ELSE 0
  <2> TAKE o \in Outputs
  <2>1. ow[o] = IF o \notin f[1].route THEN 0
                ELSE IF o \in past THEN f[1].left - 1
                ELSE IF lock = {} THEN 0 ELSE f[1].left
    BY DEF Stream
  <2> QED
    BY <1>0, <2>1 DEF Owes
<1>3. up = IF f[Len(f)].left = 1 THEN NoFlit ELSE f[Len(f)]
  BY DEF Stream
<1>4. CASE Len(f) = 1
  <2>1. g = <<>>
    <3>1. g \in Seq(F) /\ Len(g) = 0
      BY <1>1, <1>4
    <3> HIDE DEF g
    <3> QED
      BY <3>1
  <2>2. lock1 = IF up.left = 1 THEN {} ELSE up.route
    BY <1>3, <1>4 DEF NoFlit
  <2>3. \A o \in Outputs : ow1[o] = IF o \in lock1 THEN up.left - 1 ELSE 0
    BY <1>2, <1>3, <1>4
  <2>4. up \in F \cup {NoFlit}
    BY DEF Stream
  <2>5. Stream(F, g, lock1, {}, up, ow1)
    <3> HIDE DEF g, lock1
    <3> QED
      BY <1>1, <1>4, <2>1, <2>2, <2>3, <2>4 DEF Stream
  <2> QED
    BY <2>5
<1>5. CASE Len(f) # 1
  <2>1. Len(g) \in Nat \ {0} /\ g[1] = f[2] /\ g[Len(g)] = f[Len(f)] /\ g # <<>>
    <3>1. Len(g) \in Nat \ {0} /\ Len(g) = Len(f) - 1 /\ Len(f) \in Nat
      BY <1>0, <1>1, <1>5
    <3>2. 1 \in 1 .. Len(f) - 1 /\ Len(g) \in 1 .. Len(f) - 1
      BY <3>1
    <3>3. g[1] = f[1 + 1] /\ g[Len(g)] = f[Len(g) + 1]
      BY <1>1, <3>2
    <3> HIDE DEF g
    <3> QED
      BY <3>1, <3>3
  <2>2. Follows(f[1], f[2])
    <3>1. Len(f) \in Nat /\ Len(f) > 1
      <4>1. \A n \in Nat \ {0} : n # 1 => n > 1
        OBVIOUS
      <4>2. Len(f) \in Nat \ {0} /\ Len(f) # 1
        BY <1>0, <1>5
      <4> QED
        BY <4>1, <4>2, Zenon
    <3>2. \A k \in 1 .. Len(f) - 1 : Follows(f[k], f[k + 1])
      BY DEF Stream
    <3>3. Follows(f[1], f[1 + 1])
      BY <3>1, <3>2
    <3> QED
      BY <3>3
  <2>3. \A k \in 1 .. Len(g) - 1 : Follows(g[k], g[k + 1])
    <3> SUFFICES ASSUME NEW k \in 1 .. Len(g) - 1 PROVE Follows(g[k], g[k + 1])
      OBVIOUS
    <3>1. k + 1 \in 1 .. Len(f) - 1 /\ k \in 1 .. Len(f) - 1
      BY <1>0, <1>1
    <3>2. Follows(f[k + 1], f[k + 1 + 1])
      BY <3>1 DEF Stream
    <3>3. g[k] = f[k + 1] /\ g[k + 1] = f[k + 1 + 1]
      BY <1>1, <3>1
    <3> QED
      BY <3>2, <3>3
  <2>4. /\ lock1 # {} => g[1] = NextFlit(f[1]) /\ f[1].left > 1
        /\ lock1 # {} => g[1].route = f[1].route /\ g[1].left = f[1].left - 1
    BY <1>0, <2>1, <2>2 DEF Follows, NextFlit
  <2>5. lock1 = {} \/ /\ lock1 = g[1].route
                      /\ Continued(F, g[1])
    BY <1>0, <2>4 DEF Continued
  <2>6. \A o \in Outputs : ow1[o] = IF o \notin g[1].route THEN 0
                                    ELSE IF lock1 = {} THEN 0 ELSE g[1].left
    <3>1. CASE lock1 = {}
      <4>1. f[1].left = 1
        BY <1>0, <3>1
      <4> QED
        BY <1>2, <3>1, <4>1
    <3>2. CASE lock1 # {}
      BY <1>2, <2>4, <3>2
    <3> QED
      BY <3>1, <3>2
  <2>7. up \in F \cup {NoFlit}
    BY DEF Stream
  <2>8. Stream(F, g, lock1, {}, up, ow1)
    <3> HIDE DEF g, lock1
    <3> QED
      BY <1>1, <1>3, <2>1, <2>3, <2>5, <2>6, <2>7 DEF Stream
  <2> QED
    BY <2>8
<1> QED
  BY <1>4, <1>5


-----------------------------------------------------------------------------
(* The inductive invariant *)

\* Every input carries a stream; without multicast no handshake is remembered.
StreamsInv ==
    \A i \in Inputs :
       /\ Stream(Flits(i), fifo[i], route_lock[i], past_handshakes_q[i], upstream[i], owed[i])
       /\ Len(fifo[i]) <= InFifoDepth
       /\ ~EnMultiCast => past_handshakes_q[i] = {}

\* The registers of the arbiters stay within their types.
ArbType ==
    arb \in [Outputs -> [valid_q : SUBSET Inputs, last_q : BOOLEAN,
                         lock_q : BOOLEAN, req_q : SUBSET Inputs, rr_q : Inputs]]

\* The other variables are functions.
Shapes ==
    /\ EnMultiCast \in MultiCasts
    /\ route_lock = [i \in Inputs |-> route_lock[i]]
    /\ past_handshakes_q = [i \in Inputs |-> past_handshakes_q[i]]
    /\ owed = [i \in Inputs |-> [o \in Outputs |-> owed[i][o]]]

IInv == StreamsInv /\ ArbType /\ Shapes

\* What an input may be sent is a set of flits, without multicast of flits to
\* one output.
LEMMA FlitsAreFlits ==
    ASSUME NEW i \in Inputs
    PROVE  /\ FlitSet(Flits(i))
           /\ \A x \in Flits(i) : /\ x.route \in SUBSET Outputs
                                  /\ x.left \in 1 .. MaxLen
                                  /\ EnMultiCast \/ \E o \in Outputs : x.route = {o}
<1>1. ASSUME NEW x \in Flits(i)
      PROVE  /\ x.route \in (SUBSET Outputs) \ {{}}
             /\ x.left \in 1 .. MaxLen
             /\ EnMultiCast \/ Cardinality(x.route) = 1
             /\ x.left > 1 => NextFlit(x) \in Flits(i)
  <2>1. PICK r \in {r \in Routes[i] : EnMultiCast \/ Cardinality(r) = 1} :
           x \in [route : {r}, left : 1 .. IF Cardinality(r) = 1 THEN MaxLen ELSE MaxMultiLen]
    BY <1>1 DEF Flits
  <2>2. r \in (SUBSET Outputs) \ {{}}
    BY RouterAssumption
  <2> DEFINE max == IF Cardinality(r) = 1 THEN MaxLen ELSE MaxMultiLen
  <2>3. max \in Nat /\ max <= MaxLen
    BY RouterAssumption
  <2> HIDE DEF max
  <2>4. x.route = r /\ x.left \in 1 .. max
    BY <2>1 DEF max
  <2>5. x.left > 1 => NextFlit(x) \in [route : {r}, left : 1 .. max]
    BY <2>3, <2>4 DEF NextFlit
  <2>6. x.left > 1 => NextFlit(x) \in Flits(i)
    BY <2>1, <2>5 DEF Flits, max
  <2> QED
    BY <2>1, <2>2, <2>3, <2>4, <2>6, RouterAssumption
<1>2. FlitSet(Flits(i))
  BY <1>1, RouterAssumption DEF FlitSet
<1>3. ASSUME NEW x \in Flits(i), ~EnMultiCast
      PROVE  \E o \in Outputs : x.route = {o}
  <2>1. x.route \in SUBSET Outputs /\ Cardinality(x.route) = 1
    BY <1>1, <1>3
  <2>2. IsFiniteSet(Outputs)
    BY RouterAssumption, FS_Interval DEF Outputs
  <2>3. IsFiniteSet(x.route)
    BY <2>1, <2>2, FS_Subset
  <2>4. \E o : x.route = {o}
    BY <2>1, <2>3, FS_Singleton
  <2> QED
    BY <2>1, <2>4
<1> QED
  BY <1>1, <1>2, <1>3

\* The routers start with empty queues.
LEMMA InitIInv == Init => IInv
<1> SUFFICES ASSUME Init PROVE IInv
  OBVIOUS
<1>1. StreamsInv
  <2> SUFFICES ASSUME NEW i \in Inputs
               PROVE  /\ Stream(Flits(i), fifo[i], route_lock[i], past_handshakes_q[i],
                                upstream[i], owed[i])
                      /\ Len(fifo[i]) <= InFifoDepth
                      /\ ~EnMultiCast => past_handshakes_q[i] = {}
    BY DEF StreamsInv
  <2>1. /\ fifo[i] = <<>> /\ route_lock[i] = {} /\ past_handshakes_q[i] = {}
        /\ upstream[i] = NoFlit /\ \A o \in Outputs : owed[i][o] = 0
    BY DEF Init
  <2>2. NoFlit.left = 1
    BY DEF NoFlit
  <2>3. Stream(Flits(i), fifo[i], route_lock[i], past_handshakes_q[i], upstream[i], owed[i])
    BY <2>1, <2>2 DEF Stream
  <2> QED
    BY <2>1, <2>3, RouterAssumption
<1>2. ArbType
  BY RouterAssumption DEF Init, ArbType, Inputs
<1>3. Shapes
  BY DEF Init, Shapes
<1> QED
  BY <1>1, <1>2, <1>3 DEF IInv


-----------------------------------------------------------------------------
(* One clock cycle *)

\* Only flits that are offered to an output cross to it.
LEMMA CrossingOffered ==
    ASSUME NEW ready \in SUBSET Outputs,
           NEW i \in Inputs, NEW o \in Outputs, <<i, o>> \in Crossing(ready)
    PROVE  i \in masked_valid(o)
<1>1. Arb(o)!valid_o /\ Arb(o)!valid_selected_idx = i
  BY DEF Crossing
<1> QED
  BY <1>1 DEF Arb!valid_o

\* The copies that cross are ones the head's header asks for and not taken yet.
LEMMA CopiesCrossing ==
    ASSUME IInv, NEW ready \in SUBSET Outputs, NEW i \in Inputs
    PROVE  LET cur == current_handshakes(i, Crossing(ready))
           IN  /\ ~in_valid(i) => cur = {}
               /\ in_valid(i) => /\ route_mask(i) = fifo[i][1].route
                                 /\ cur \in SUBSET (fifo[i][1].route \ past_handshakes_q[i])
<1> DEFINE cur == current_handshakes(i, Crossing(ready))
<1>1. \A o \in cur : o \in Outputs /\ i \in masked_valid(o)
  BY CrossingOffered DEF current_handshakes
<1>2. \A o \in cur : in_valid(i) /\ o \in route_mask(i) /\ (EnMultiCast => o \notin past_handshakes_q[i])
  BY <1>1 DEF masked_valid
<1> HIDE DEF cur
<1>3. ~EnMultiCast => past_handshakes_q[i] = {}
  BY DEF IInv, StreamsInv
<1>4. in_valid(i) => route_mask(i) = fifo[i][1].route
  <2> SUFFICES ASSUME in_valid(i) PROVE route_mask(i) = fifo[i][1].route
    OBVIOUS
  <2>1. Stream(Flits(i), fifo[i], route_lock[i], past_handshakes_q[i], upstream[i], owed[i])
    BY DEF IInv, StreamsInv
  <2>2. fifo[i] # <<>>
    BY DEF in_valid
  <2>3. route_lock[i] = {} \/ route_lock[i] = fifo[i][1].route
    BY <2>1, <2>2 DEF Stream
  <2>4. Head(fifo[i]) = fifo[i][1]
    OBVIOUS
  <2> QED
    BY <2>3, <2>4 DEF route_mask
<1> QED
  BY <1>2, <1>3, <1>4 DEF cur

\* An input after the copies of a cycle were taken, before it receives a flit.
LEMMA InputServes ==
    ASSUME IInv, NEW ready \in SUBSET Outputs, NEW i \in Inputs,
           Registers(ready, Crossing(ready))
    PROVE  /\ Stream(Flits(i),
                     IF Leaves(i, Crossing(ready)) THEN Tail(fifo[i]) ELSE fifo[i],
                     route_lock'[i], past_handshakes_q'[i], upstream[i], owed'[i])
           /\ ~EnMultiCast => past_handshakes_q'[i] = {}
<1> DEFINE crossing == Crossing(ready)
           cur == current_handshakes(i, crossing)
<1>0. /\ Stream(Flits(i), fifo[i], route_lock[i], past_handshakes_q[i], upstream[i], owed[i])
      /\ ~EnMultiCast => past_handshakes_q[i] = {}
      /\ FlitSet(Flits(i))
  BY FlitsAreFlits DEF IInv, StreamsInv
<1>1. /\ ~in_valid(i) => cur = {}
      /\ in_valid(i) => /\ route_mask(i) = fifo[i][1].route
                        /\ cur \in SUBSET (fifo[i][1].route \ past_handshakes_q[i])
  BY CopiesCrossing
<1>2. /\ route_lock'[i] = locked_route_d(i, crossing)
      /\ past_handshakes_q'[i] = past_handshakes_d(i, crossing)
      /\ \A o \in Outputs : owed'[i][o] = IF <<i, o>> \notin crossing THEN owed[i][o]
                                          ELSE IF owed[i][o] > 0 THEN owed[i][o] - 1
                                          ELSE Head(fifo[i]).left - 1
  BY DEF Registers
<1>3. Head(fifo[i]) = fifo[i][1]
  OBVIOUS
<1>4. Owes(fifo[i][1], cur, owed[i], owed'[i])
  BY <1>2, <1>3 DEF Owes, current_handshakes
<1>5. Leaves(i, crossing) <=> in_valid(i) /\ cross_ready(i, crossing)
  BY DEF Leaves
<1>6. cross_ready(i, crossing) <=> IF EnMultiCast
                                   THEN expected_handshakes(i) \subseteq past_handshakes_q[i] \cup cur
                                   ELSE route_mask(i) \cap cur # {}
  BY DEF cross_ready
<1>7. EnMultiCast \in BOOLEAN /\ (EnMultiCast => expected_handshakes(i) = route_mask(i))
  <2>1. EnMultiCast \in BOOLEAN
    BY RouterAssumption DEF IInv, Shapes
  <2>2. EnMultiCast => TRUE \in MultiCasts
    BY <2>1 DEF IInv, Shapes
  <2>3. EnMultiCast => ~NoLoopback
    BY <2>2, ConfigAssumption
  <2> QED
    BY <2>1, <2>3 DEF expected_handshakes
<1>8. ~EnMultiCast => past_handshakes_q'[i] = {}
  BY <1>2 DEF past_handshakes_d
<1>9. CASE ~in_valid(i)
  <2>1. ~Leaves(i, crossing) /\ fifo[i] = <<>>
    BY <1>5, <1>9 DEF in_valid
  <2>2. past_handshakes_q[i] = {} /\ cur = {}
    BY <1>0, <1>1, <1>9, <2>1 DEF Stream
  <2>3. route_lock'[i] = route_lock[i] /\ past_handshakes_q'[i] = past_handshakes_q[i]
    BY <1>2, <2>1, <2>2 DEF locked_route_d, past_handshakes_d
  <2>4. \A o \in Outputs : owed'[i][o] = owed[i][o]
    BY <1>4, <2>2 DEF Owes
  <2> HIDE DEF crossing, cur
  <2>5. Stream(Flits(i), fifo[i], route_lock'[i], past_handshakes_q'[i], upstream[i], owed'[i])
    BY <1>0, <2>1, <2>3, <2>4 DEF Stream
  <2> QED
    BY <1>8, <2>1, <2>5 DEF crossing
<1>10. CASE in_valid(i) /\ ~Leaves(i, crossing)
  <2>1. route_lock'[i] = route_lock[i]
    BY <1>2, <1>10 DEF locked_route_d
  <2>2. past_handshakes_q'[i] = past_handshakes_q[i] \cup cur
    <3>1. CASE EnMultiCast
      BY <1>2, <1>10, <3>1 DEF past_handshakes_d
    <3>2. CASE ~EnMultiCast
      <4>1. cur = {}
        BY <1>1, <1>5, <1>6, <1>10, <3>2
      <4> QED
        BY <1>0, <1>8, <3>2, <4>1
    <3> QED
      BY <3>1, <3>2
  <2>3. fifo[i] # <<>>
    BY <1>10 DEF in_valid
  <2> HIDE DEF crossing, cur
  <2>4. Stream(Flits(i), fifo[i], route_lock[i], past_handshakes_q[i] \cup cur, upstream[i], owed'[i])
    BY <1>0, <1>1, <1>4, <1>10, <2>3, StreamKeeps
  <2> QED
    BY <1>8, <1>10, <2>1, <2>2, <2>4 DEF crossing
<1>11. CASE Leaves(i, crossing)
  <2>0. in_valid(i) /\ fifo[i] # <<>>
    BY <1>5, <1>11 DEF in_valid
  <2>1. route_lock'[i] = IF fifo[i][1].left = 1 THEN {} ELSE fifo[i][1].route
    BY <1>1, <1>2, <1>3, <1>11, <2>0 DEF locked_route_d
  <2>2. past_handshakes_q'[i] = {}
    BY <1>2, <1>11 DEF past_handshakes_d
  <2>3. fifo[i][1].route \subseteq past_handshakes_q[i] \cup cur
    <3>1. CASE EnMultiCast
      BY <1>1, <1>5, <1>6, <1>7, <1>11, <2>0, <3>1
    <3>2. CASE ~EnMultiCast
      <4>1. fifo[i][1] \in Flits(i)
        BY <1>0, <2>0, StreamHead
      <4>2. PICK o \in Outputs : fifo[i][1].route = {o}
        BY <3>2, <4>1, FlitsAreFlits
      <4>3. fifo[i][1].route \cap cur # {}
        BY <1>1, <1>5, <1>6, <1>11, <2>0, <3>2
      <4> QED
        BY <4>2, <4>3
    <3> QED
      BY <3>1, <3>2
  <2> HIDE DEF crossing, cur
  <2>4. Stream(Flits(i), Tail(fifo[i]), IF fifo[i][1].left = 1 THEN {} ELSE fifo[i][1].route,
               {}, upstream[i], owed'[i])
    BY <1>0, <1>1, <1>4, <2>0, <2>3, StreamLeaves
  <2> QED
    BY <1>8, <1>11, <2>1, <2>2, <2>4 DEF crossing
<1> QED
  BY <1>9, <1>10, <1>11


\* Queues have a length.
LEMMA FifoLength ==
    ASSUME IInv, NEW i \in Inputs
    PROVE  Len(fifo[i]) \in Nat
<1>1. fifo[i] \in Seq(Flits(i))
  BY DEF IInv, StreamsInv, Stream
<1> QED
  BY <1>1

\* A cycle in which the inputs in push receive a flit each.
LEMMA ReceiveStreams ==
    ASSUME IInv, NEW ready \in SUBSET Outputs, NEW push \in SUBSET Inputs,
           Registers(ready, Crossing(ready)), Receive(push, Crossing(ready))
    PROVE  StreamsInv'
<1> DEFINE crossing == Crossing(ready)
           served(i) == IF Leaves(i, crossing) THEN Tail(fifo[i]) ELSE fifo[i]
<1>1. PICK flit \in [push -> UNION {Sendable(i) : i \in push}] :
         /\ \A i \in push : flit[i] \in Sendable(i)
         /\ fifo' = [i \in Inputs |->
                       served(i) \o (IF i \in push THEN <<flit[i]>> ELSE <<>>)]
         /\ upstream' = [i \in Inputs |->
                           IF i \notin push THEN upstream[i]
                           ELSE IF flit[i].left = 1 THEN NoFlit ELSE flit[i]]
  BY DEF Receive
<1>2. \A i \in push : ready_o(i)
  BY DEF Receive
<1>3. EnMultiCast' = EnMultiCast
  BY DEF Registers
<1>4. ASSUME NEW i \in Inputs
      PROVE  /\ Stream(Flits(i), served(i), route_lock'[i], past_handshakes_q'[i], upstream[i], owed'[i])
             /\ ~EnMultiCast => past_handshakes_q'[i] = {}
  BY InputServes
<1>5. ASSUME NEW i \in Inputs
      PROVE  served(i) \in Seq(Flits(i)) /\ Len(served(i)) <= Len(fifo[i])
  <2>1. Stream(Flits(i), fifo[i], route_lock[i], past_handshakes_q[i], upstream[i], owed[i])
    BY DEF IInv, StreamsInv
  <2>2. fifo[i] \in Seq(Flits(i))
    BY <2>1 DEF Stream
  <2>3. Leaves(i, crossing) => fifo[i] # <<>>
    BY DEF Leaves, in_valid
  <2> QED
    BY <2>2, <2>3
<1> HIDE DEF crossing, served
<1>6. ASSUME NEW i \in Inputs
      PROVE  /\ Stream(Flits(i), fifo'[i], route_lock'[i], past_handshakes_q'[i], upstream'[i], owed'[i])
             /\ Len(fifo'[i]) <= InFifoDepth
             /\ ~EnMultiCast => past_handshakes_q'[i] = {}
  <2>1. Len(fifo[i]) <= InFifoDepth
    BY DEF IInv, StreamsInv
  <2>2. CASE i \notin push
    <3>1. fifo'[i] = served(i) \o <<>> /\ upstream'[i] = upstream[i]
      BY <1>1, <2>2
    <3>2. fifo'[i] = served(i)
      BY <1>5, <3>1
    <3>3. Len(served(i)) \in Nat /\ Len(served(i)) <= Len(fifo[i])
      BY <1>5
    <3>4. Len(fifo[i]) \in Nat
      BY FifoLength
    <3> QED
      BY <1>4, <2>1, <3>1, <3>2, <3>3, <3>4, RouterAssumption
  <2>3. CASE i \in push
    <3>1. fifo'[i] = served(i) \o <<flit[i]>>
          /\ upstream'[i] = IF flit[i].left = 1 THEN NoFlit ELSE flit[i]
      BY <1>1, <2>3
    <3>2. flit[i] \in Flits(i) /\ Follows(upstream[i], flit[i])
      <4>1. upstream[i] \in Flits(i) \cup {NoFlit}
        BY <1>4 DEF Stream
      <4>2. flit[i] \in Sendable(i)
        BY <1>1, <2>3
      <4>3. CASE upstream[i].left > 1
        <5>1. flit[i] = NextFlit(upstream[i])
          BY <4>2, <4>3 DEF Sendable, NextFlit
        <5>2. upstream[i] \in Flits(i)
          BY <4>1, <4>3 DEF NoFlit
        <5> QED
          BY <4>3, <5>1, <5>2, FlitsAreFlits DEF Follows, FlitSet
      <4>4. CASE ~(upstream[i].left > 1)
        BY <4>2, <4>4 DEF Sendable, Follows
      <4> QED
        BY <4>3, <4>4
    <3>3. FlitSet(Flits(i))
      BY FlitsAreFlits
    <3>4. Stream(Flits(i), fifo'[i], route_lock'[i], past_handshakes_q'[i], upstream'[i], owed'[i])
      BY <1>4, <3>1, <3>2, <3>3, StreamReceives
    <3>5. Len(fifo'[i]) = Len(served(i)) + 1
      BY <1>5, <3>1, <3>2
    <3>6. Len(fifo[i]) < InFifoDepth
      BY <1>2, <2>3 DEF ready_o
    <3>7. Len(fifo[i]) \in Nat /\ Len(served(i)) \in Nat /\ Len(served(i)) <= Len(fifo[i])
      BY <1>5, FifoLength
    <3> QED
      BY <1>4, <3>4, <3>5, <3>6, <3>7, RouterAssumption
  <2> QED
    BY <2>2, <2>3
<1>7. ASSUME NEW i \in Inputs PROVE Flits(i)' = Flits(i)
  BY <1>3 DEF Flits
<1> QED
  BY <1>3, <1>6, <1>7 DEF StreamsInv

\* The lowest of a non-empty set of inputs is one of them.
LEMMA LowestInput ==
    ASSUME NEW o \in Outputs, NEW S \in SUBSET Inputs, S # {}
    PROVE  Arb(o)!Lowest(S) \in S
<1> DEFINE below == OpToRel(<, Nat)
<1>0. S \in SUBSET Nat
  BY RouterAssumption DEF Inputs
<1>1. PICK x \in S : \A y \in S : <<y, x>> \notin below
  BY <1>0, WFMin, NatLessThanWellFounded
<1>2. \A y \in S : y < x => <<y, x>> \in below
  BY <1>0 DEF OpToRel
<1> HIDE DEF below
<1>3. ASSUME NEW y \in S PROVE x <= y
  <2>1. ~ (y < x) /\ x \in Nat /\ y \in Nat
    BY <1>0, <1>1, <1>2
  <2> QED
    BY <2>1
<1> QED
  BY <1>3 DEF Arb!Lowest

\* The arbiters' registers stay within their types.
LEMMA ArbitersType ==
    ASSUME IInv, NEW ready \in SUBSET Outputs, Registers(ready, Crossing(ready))
    PROVE  ArbType'
<1>1. ASSUME NEW o \in Outputs
      PROVE  arb'[o] \in [valid_q : SUBSET Inputs, last_q : BOOLEAN,
                          lock_q : BOOLEAN, req_q : SUBSET Inputs, rr_q : Inputs]
  <2>1. arb'[o] = ArbClock(o, o \in ready)
    BY DEF Registers
  <2>2. /\ arb[o].valid_q \in SUBSET Inputs /\ arb[o].req_q \in SUBSET Inputs
        /\ arb[o].rr_q \in Inputs
    BY DEF IInv, ArbType
  <2>3. masked_valid(o) \in SUBSET Inputs
    BY DEF masked_valid
  <2>4. Arb(o)!valid_d \in SUBSET Inputs
    BY <2>2, <2>3 DEF Arb!valid_d
  <2>5. Arb(o)!arb_req \in SUBSET Inputs
    BY <2>2, <2>4 DEF Arb!arb_req, Arb!ArbRequests
  <2>6. Arb(o)!arb_req # {} => Arb(o)!NextPointer(Arb(o)!arb_req, arb[o].rr_q) \in Inputs
    <3> DEFINE req == Arb(o)!arb_req
               upper == {k \in req : k > arb[o].rr_q}
    <3>1. ASSUME upper # {} PROVE Arb(o)!Lowest(upper) \in Inputs
      BY <2>5, <3>1, LowestInput
    <3>2. ASSUME req # {} PROVE Arb(o)!Lowest(req) \in Inputs
      BY <2>5, <3>2, LowestInput
    <3> QED
      BY <3>1, <3>2 DEF Arb!NextPointer
  <2> QED
    BY <2>1, <2>2, <2>4, <2>5, <2>6 DEF ArbClock, Arb!last_out, Arb!gnt_i
<1>2. arb' = [o \in Outputs |-> ArbClock(o, o \in ready)]
  BY DEF Registers
<1>3. arb' = [o \in Outputs |-> arb'[o]]
  BY <1>2
<1> QED
  BY <1>1, <1>3 DEF ArbType

\* IInv holds in every reachable state.
LEMMA StepIInv ==
    ASSUME IInv, NEW ready \in SUBSET Outputs, NEW push \in SUBSET Inputs,
           Registers(ready, Crossing(ready)), Receive(push, Crossing(ready))
    PROVE  IInv'
<1>1. StreamsInv' /\ ArbType'
  BY ReceiveStreams, ArbitersType
<1>2. Shapes'
  BY DEF IInv, Shapes, Registers
<1> QED
  BY <1>1, <1>2 DEF IInv

LEMMA StutterIInv ==
    ASSUME IInv, UNCHANGED vars
    PROVE  IInv'
<1>1. ArbType' /\ Shapes'
  BY DEF IInv, ArbType, Shapes, vars
<1>2. StreamsInv'
  BY DEF IInv, StreamsInv, vars, Flits
<1> QED
  BY <1>1, <1>2 DEF IInv

LEMMA IInvHolds == Spec => []IInv
<1>1. ASSUME IInv, [Next]_vars PROVE IInv'
  <2>1. CASE Next
    BY <1>1, <2>1, StepIInv DEF Next, Cycle
  <2>2. CASE UNCHANGED vars
    BY <1>1, <2>2, StutterIInv
  <2> QED
    BY <1>1, <2>1, <2>2
<1> QED
  BY InitIInv, <1>1, PTL DEF Spec

\* The invariant says what each output has got of the flits at the inputs.
LEMMA InvCopies ==
    ASSUME IInv
    PROVE  CopiesRight
<1>1. ASSUME NEW i \in Inputs
      PROVE  /\ Stream(Flits(i), fifo[i], route_lock[i], past_handshakes_q[i],
                       upstream[i], owed[i])
             /\ FlitSet(Flits(i))
             /\ NoFlit.left = 1
             /\ \A x \in Flits(i) : x.route \in SUBSET Outputs /\ x.left \in 1 .. MaxLen
             /\ Head(fifo[i]) = fifo[i][1]
  BY FlitsAreFlits DEF IInv, StreamsInv, NoFlit
<1>2. ASSUME NEW i \in Inputs
      PROVE  /\ fifo[i] \in Seq(Flits(i))
             /\ upstream[i] \in Flits(i) \cup {NoFlit}
             /\ fifo[i] # <<>> => fifo[i][1] \in Flits(i)
  <2>1. fifo[i] \in Seq(Flits(i)) /\ upstream[i] \in Flits(i) \cup {NoFlit}
    BY <1>1 DEF Stream
  <2> QED
    BY <2>1
<1>3. ASSUME NEW i \in Inputs, NEW o \in Outputs
      PROVE  owed[i][o] =
               IF in_valid(i)
               THEN IF o \notin route_mask(i) THEN 0
                    ELSE IF o \in past_handshakes_q[i] THEN Head(fifo[i]).left - 1
                    ELSE IF route_lock[i] # {} THEN Head(fifo[i]).left ELSE 0
               ELSE IF o \in route_lock[i] THEN upstream[i].left - 1 ELSE 0
  <2>1. CASE in_valid(i)
    <3>1. fifo[i] # <<>>
      BY <2>1 DEF in_valid
    <3>2. route_mask(i) = fifo[i][1].route
      BY <1>1, <3>1 DEF Stream, route_mask
    <3> QED
      BY <1>1, <2>1, <3>1, <3>2 DEF Stream
  <2>2. CASE ~in_valid(i)
    BY <1>1, <2>2 DEF Stream, in_valid
  <2> QED
    BY <2>1, <2>2
<1>4. ASSUME NEW i \in Inputs
      PROVE  /\ route_lock[i] \in SUBSET Outputs
             /\ past_handshakes_q[i] \in SUBSET Outputs
             /\ \A o \in Outputs : owed[i][o] \in 0 .. MaxLen - 1
  <2>1. CASE fifo[i] # <<>>
    <3>1. fifo[i][1].route \in SUBSET Outputs /\ fifo[i][1].left \in 1 .. MaxLen
      BY <1>1, <1>2, <2>1
    <3>2. route_lock[i] \in SUBSET Outputs /\ past_handshakes_q[i] \in SUBSET Outputs
      BY <1>1, <2>1, <3>1 DEF Stream
    <3>3. route_lock[i] # {} => fifo[i][1].left < MaxLen
      <4> SUFFICES ASSUME route_lock[i] # {} PROVE fifo[i][1].left < MaxLen
        OBVIOUS
      <4>1. Continued(Flits(i), fifo[i][1])
        BY <1>1, <2>1 DEF Stream
      <4>2. PICK x \in Flits(i) : x.left > 1 /\ fifo[i][1] = NextFlit(x)
        BY <4>1 DEF Continued
      <4>3. x.left \in 1 .. MaxLen /\ fifo[i][1].left = x.left - 1
        BY <1>1, <4>2 DEF NextFlit
      <4> QED
        BY <4>3, RouterAssumption
    <3>4. \A o \in Outputs : owed[i][o] \in {0, fifo[i][1].left - 1}
                             \/ (owed[i][o] = fifo[i][1].left /\ route_lock[i] # {})
      BY <1>1, <2>1 DEF Stream
    <3>5. 0 \in 0 .. MaxLen - 1 /\ fifo[i][1].left - 1 \in 0 .. MaxLen - 1
          /\ (route_lock[i] # {} => fifo[i][1].left \in 0 .. MaxLen - 1)
      BY <3>1, <3>3, RouterAssumption
    <3> QED
      BY <3>2, <3>4, <3>5
  <2>2. CASE fifo[i] = <<>>
    <3>1. /\ route_lock[i] = IF upstream[i].left = 1 THEN {} ELSE upstream[i].route
          /\ past_handshakes_q[i] = {}
          /\ \A o \in Outputs : owed[i][o] = IF o \in route_lock[i] THEN upstream[i].left - 1 ELSE 0
      BY <1>1, <2>2 DEF Stream
    <3>2. upstream[i].left # 1 => upstream[i] \in Flits(i)
      BY <1>1, <1>2
    <3>3. upstream[i].left # 1 => upstream[i].route \in SUBSET Outputs /\ upstream[i].left \in 1 .. MaxLen
      BY <1>1, <3>2
    <3> QED
      BY <3>1, <3>3, RouterAssumption
  <2> QED
    BY <2>1, <2>2
<1>5. TypeOK
  <2>1. ASSUME NEW i \in Inputs
        PROVE  /\ Len(fifo[i]) <= InFifoDepth
               /\ \A k \in DOMAIN fifo[i] : fifo[i][k] \in Flits(i)
               /\ upstream[i] \in Flits(i) \cup {NoFlit}
    BY <1>2 DEF IInv, StreamsInv
  <2>2. route_lock \in [Inputs -> SUBSET Outputs] /\ past_handshakes_q \in [Inputs -> SUBSET Outputs]
    <3>1. /\ route_lock = [i \in Inputs |-> route_lock[i]]
          /\ past_handshakes_q = [i \in Inputs |-> past_handshakes_q[i]]
      BY DEF IInv, Shapes
    <3> QED
      BY <1>4, <3>1
  <2>3. owed \in [Inputs -> [Outputs -> 0 .. MaxLen - 1]]
    <3>1. owed = [i \in Inputs |-> [o \in Outputs |-> owed[i][o]]]
      BY DEF IInv, Shapes
    <3>2. \A i \in Inputs : [o \in Outputs |-> owed[i][o]] \in [Outputs -> 0 .. MaxLen - 1]
      BY <1>4
    <3> QED
      BY <3>1, <3>2
  <2> QED
    BY <2>1, <2>2, <2>3 DEF TypeOK, IInv, ArbType
<1> QED
  BY <1>3, <1>5 DEF CopiesRight, CopiesInStep

\* Every output a packet is routed to gets each of its flits exactly once and in
\* order, no other output gets any, and no queue overflows.
THEOREM EveryCopyOnce == Spec => []CopiesRight
<1>1. IInv => CopiesRight
  BY InvCopies
<1> QED
  BY <1>1, IInvHolds, PTL

-----------------------------------------------------------------------------
(* What is offered to the outputs *)

\* A flit that is offered to an output is the head of a queue; an output that
\* has begun with its packet has yet to get it.
OfferedHead(i, o) ==
    /\ fifo[i] # <<>> /\ Head(fifo[i]) = fifo[i][1] /\ Head(fifo[i]).left \in 1 .. MaxLen
    /\ owed[i][o] = 0 \/ owed[i][o] = Head(fifo[i]).left

LEMMA OfferedHeads ==
    ASSUME IInv, NEW i \in Inputs, NEW o \in Outputs, i \in masked_valid(o)
    PROVE  OfferedHead(i, o)
<1>1. /\ Stream(Flits(i), fifo[i], route_lock[i], past_handshakes_q[i], upstream[i], owed[i])
      /\ ~EnMultiCast => past_handshakes_q[i] = {}
      /\ FlitSet(Flits(i))
  BY FlitsAreFlits DEF IInv, StreamsInv
<1>2. fifo[i] # <<>> /\ o \notin past_handshakes_q[i]
  BY <1>1 DEF masked_valid, in_valid
<1>3. fifo[i][1] \in Flits(i)
  BY <1>1, <1>2, StreamHead
<1>4. Head(fifo[i]) = fifo[i][1]
  OBVIOUS
<1>5. Head(fifo[i]).left \in 1 .. MaxLen
  BY <1>3, <1>4, FlitsAreFlits
<1>6. owed[i][o] = 0 \/ owed[i][o] = fifo[i][1].left
  BY <1>1, <1>2 DEF Stream
<1> QED
  BY <1>2, <1>4, <1>5, <1>6 DEF OfferedHead

\* What is still owed is a number, and less than the longest packet.
LEMMA OwedType ==
    ASSUME IInv
    PROVE  owed \in [Inputs -> [Outputs -> 0 .. MaxLen - 1]]
BY InvCopies DEF CopiesRight, TypeOK

\* A flit stays on offer until the output takes its copy, whatever the others do.
LEMMA StaysOffered ==
    ASSUME IInv, NEW ready \in SUBSET Outputs, NEW push \in SUBSET Inputs,
           Registers(ready, Crossing(ready)), Receive(push, Crossing(ready)),
           NEW i \in Inputs, NEW o \in Outputs, i \in masked_valid(o),
           <<i, o>> \notin Crossing(ready)
    PROVE  i \in masked_valid(o)' /\ Head(fifo'[i]) = Head(fifo[i])
<1> DEFINE crossing == Crossing(ready)
           cur == current_handshakes(i, crossing)
           past == past_handshakes_q[i]
<1>1. /\ Stream(Flits(i), fifo[i], route_lock[i], past, upstream[i], owed[i])
      /\ ~EnMultiCast => past = {}
      /\ FlitSet(Flits(i))
  BY FlitsAreFlits DEF IInv, StreamsInv
<1>2. /\ in_valid(i) /\ fifo[i] # <<>> /\ connected(i, o)
      /\ o \in route_mask(i) /\ o \notin past
  BY <1>1 DEF masked_valid, in_valid
<1>3. route_mask(i) = fifo[i][1].route /\ o \notin cur
  BY <1>2, CopiesCrossing DEF current_handshakes
<1>4. EnMultiCast \in BOOLEAN /\ (EnMultiCast => expected_handshakes(i) = route_mask(i))
  <2>1. EnMultiCast \in BOOLEAN
    BY RouterAssumption DEF IInv, Shapes
  <2>2. EnMultiCast => ~NoLoopback
    BY <2>1, ConfigAssumption DEF IInv, Shapes
  <2> QED
    BY <2>1, <2>2 DEF expected_handshakes
<1>5. ~Leaves(i, crossing)
  <2>1. CASE EnMultiCast
    BY <1>2, <1>3, <1>4, <2>1 DEF Leaves, cross_ready
  <2>2. CASE ~EnMultiCast
    <3>1. fifo[i][1] \in Flits(i)
      BY <1>1, <1>2, StreamHead
    <3>2. PICK p \in Outputs : fifo[i][1].route = {p}
      BY <2>2, <3>1, FlitsAreFlits
    <3>3. route_mask(i) = {o}
      BY <1>2, <1>3, <3>2
    <3> QED
      BY <1>3, <2>2, <3>3 DEF Leaves, cross_ready
  <2> QED
    BY <1>4, <2>1, <2>2
<1>6. /\ route_lock'[i] = route_lock[i]
      /\ past_handshakes_q'[i] \subseteq past \cup cur
      /\ EnMultiCast' = EnMultiCast
  BY <1>5 DEF Registers, locked_route_d, past_handshakes_d
<1>7. fifo'[i] # <<>> /\ Head(fifo'[i]) = Head(fifo[i])
  <2>1. PICK flit \in [push -> UNION {Sendable(j) : j \in push}] :
           fifo' = [j \in Inputs |->
                      (IF Leaves(j, crossing) THEN Tail(fifo[j]) ELSE fifo[j])
                      \o (IF j \in push THEN <<flit[j]>> ELSE <<>>)]
    BY DEF Receive
  <2> HIDE DEF crossing
  <2>2. fifo'[i] = fifo[i] \o (IF i \in push THEN <<flit[i]>> ELSE <<>>)
    BY <1>5, <2>1
  <2>3. fifo[i] \in Seq(Flits(i))
    BY <1>1 DEF Stream
  <2>4. CASE i \in push
    <3>1. fifo'[i] = fifo[i] \o <<flit[i]>>
      BY <2>2, <2>4
    <3>2. fifo[i] \o <<flit[i]>> # <<>> /\ Head(fifo[i] \o <<flit[i]>>) = Head(fifo[i])
      BY <1>2, <2>3
    <3> QED
      BY <3>1, <3>2
  <2>5. CASE i \notin push
    <3>1. fifo'[i] = fifo[i]
      BY <2>2, <2>3, <2>5
    <3> QED
      BY <1>2, <3>1
  <2> QED
    BY <2>4, <2>5
<1>8. in_valid(i)' /\ route_mask(i)' = route_mask(i)
  BY <1>6, <1>7 DEF in_valid, route_mask
<1> QED
  BY <1>2, <1>3, <1>6, <1>7, <1>8 DEF masked_valid

-----------------------------------------------------------------------------
(* One packet at a time on each output *)

\* The inputs in the middle of a packet to an output.
Begun(o) == {i \in Inputs : owed[i][o] > 0}

\* What the tree selects.
Select(req, rr) == Tree[req, rr]

\* The registers of an arbiter whose inputs offer flits in mv and are in the
\* middle of the packets in begun: the tree's lock and the sampled requests
\* agree, those that were sampled still compete, and a frozen arbitration
\* selects the input whose packet is under way.
ArbRight(a, mv, begun) ==
    /\ a.lock_q => ~a.last_q /\ a.valid_q = a.req_q /\ a.req_q # {} /\ a.req_q \subseteq mv \cup begun
    /\ ~a.lock_q => a.valid_q = {} \/ a.last_q
    /\ \A i \in begun : a.lock_q /\ Select(a.req_q, a.rr_q) = i

LinkInv == IInv /\ \A o \in Outputs : ArbRight(arb[o], masked_valid(o), Begun(o))

\* The input an arbiter selects in a cycle.
Chosen(o) == Select(Arb(o)!arb_req, arb[o].rr_q)

\* An arbiter sees the requests that were sampled, chooses one of them, and the
\* one whose packet is under way; it forwards what that one offers.
ArbChooses(o) ==
    LET req == Arb(o)!arb_req
        mv  == masked_valid(o)
    IN  /\ req = Arb(o)!valid_d /\ req \in SUBSET Inputs
        /\ req \subseteq mv \cup Begun(o)
        /\ req # {} => Chosen(o) \in req
        /\ \A i \in Begun(o) : req # {} /\ i = Chosen(o)
        /\ Arb(o)!valid_o => Arb(o)!valid_selected_idx = Chosen(o) /\ Chosen(o) \in mv /\ req # {}

LEMMA Choice ==
    ASSUME LinkInv, NEW o \in Outputs
    PROVE  ArbChooses(o)
<1> DEFINE a   == arb[o]
           mv  == masked_valid(o)
           req == Arb(o)!arb_req
<1>1. ArbRight(a, mv, Begun(o))
  BY DEF LinkInv
<1>2. /\ a.valid_q \in SUBSET Inputs /\ a.req_q \in SUBSET Inputs /\ a.rr_q \in Inputs
      /\ a.lock_q \in BOOLEAN /\ a.last_q \in BOOLEAN
  BY DEF LinkInv, IInv, ArbType
<1>3. mv \in SUBSET Inputs /\ Begun(o) \subseteq Inputs
  BY DEF masked_valid, Begun
<1>4. /\ req = IF a.lock_q THEN a.req_q ELSE Arb(o)!valid_d
      /\ Arb(o)!valid_d = IF a.valid_q = {} \/ a.last_q THEN mv ELSE a.valid_q
  BY DEF Arb!arb_req, Arb!ArbRequests, Arb!valid_d
<1>5. /\ Chosen(o) = Select(req, a.rr_q)
      /\ Arb(o)!valid_o <=> Arb(o)!valid_selected_idx \in mv
      /\ Arb(o)!valid_selected_idx = IF mv # {} THEN Chosen(o) ELSE 0
  BY DEF Chosen, Arb!valid_o, Arb!valid_selected_idx, Arb!selected_idx, Select
<1> HIDE DEF a, mv, req
<1>6. /\ req = Arb(o)!valid_d /\ req \in SUBSET Inputs /\ req \subseteq mv \cup Begun(o)
      /\ \A i \in Begun(o) : req # {} /\ i = Chosen(o)
      /\ mv # {} => req # {}
  <2>1. CASE a.lock_q
    BY <1>1, <1>2, <1>3, <1>4, <1>5, <2>1 DEF ArbRight
  <2>2. CASE ~a.lock_q
    BY <1>1, <1>2, <1>3, <1>4, <1>5, <2>2 DEF ArbRight
  <2> QED
    BY <1>2, <2>1, <2>2
<1>7. req # {} => Chosen(o) \in req
  BY <1>2, <1>5, <1>6, TreesAssumption DEF Select
<1> QED
  BY <1>5, <1>6, <1>7 DEF ArbChooses, mv, req

\* A flit crosses to an output in a cycle.
Taken(o, ready) == o \in ready /\ Arb(o)!valid_o

\* The input chosen crosses, and no other one.
LEMMA ChosenCrosses ==
    ASSUME LinkInv, NEW ready \in SUBSET Outputs, NEW i \in Inputs, NEW o \in Outputs
    PROVE  <<i, o>> \in Crossing(ready) <=> Taken(o, ready) /\ i = Chosen(o)
<1>1. Arb(o)!valid_o => Arb(o)!valid_selected_idx = Chosen(o)
  BY Choice DEF ArbChooses
<1>2. <<i, o>> \in Crossing(ready) <=> o \in ready /\ Arb(o)!valid_o /\ Arb(o)!valid_selected_idx = i
  BY DEF Crossing
<1> QED
  BY <1>1, <1>2 DEF Taken

\* What a cycle does at an output: the flit chosen is taken, and one less is
\* owed of its packet; all else that is offered stays.
OutputDone(o, ready) ==
    LET c == Chosen(o)
        n == Head(fifo[c]).left
    IN  /\ ~Taken(o, ready) => \A i \in Inputs : owed'[i][o] = owed[i][o]
        /\ Taken(o, ready) =>
              /\ c \in masked_valid(o) /\ n \in 1 .. MaxLen /\ owed[c][o] \in {0, n}
              /\ \A i \in Inputs : owed'[i][o] = IF i = c THEN n - 1 ELSE owed[i][o]
        /\ \A i \in masked_valid(o) : ~Taken(o, ready) \/ i # c =>
              i \in masked_valid(o)' /\ Head(fifo'[i]) = Head(fifo[i])

LEMMA OutputCycle ==
    ASSUME LinkInv, NEW ready \in SUBSET Outputs, NEW push \in SUBSET Inputs,
           Registers(ready, Crossing(ready)), Receive(push, Crossing(ready)),
           NEW o \in Outputs
    PROVE  OutputDone(o, ready)
<1> DEFINE c == Chosen(o)
           n == Head(fifo[c]).left
<1>0. IInv /\ ArbChooses(o) /\ masked_valid(o) \subseteq Inputs
  BY Choice DEF LinkInv, masked_valid
<1>1. ASSUME NEW i \in Inputs
      PROVE  owed'[i][o] = IF ~(Taken(o, ready) /\ i = c) THEN owed[i][o]
                           ELSE IF owed[i][o] > 0 THEN owed[i][o] - 1
                           ELSE Head(fifo[i]).left - 1
  BY ChosenCrosses DEF Registers
<1>2. ASSUME NEW i \in masked_valid(o), ~Taken(o, ready) \/ i # c
      PROVE  i \in masked_valid(o)' /\ Head(fifo'[i]) = Head(fifo[i])
  <2>1. i \in Inputs /\ <<i, o>> \notin Crossing(ready)
    BY <1>0, <1>2, ChosenCrosses
  <2> QED
    BY <1>0, <2>1, StaysOffered
<1>3. ASSUME Taken(o, ready)
      PROVE  /\ c \in masked_valid(o) /\ n \in 1 .. MaxLen /\ owed[c][o] \in {0, n}
             /\ \A i \in Inputs : owed'[i][o] = IF i = c THEN n - 1 ELSE owed[i][o]
  <2>1. c \in masked_valid(o) /\ c \in Inputs
    BY <1>0, <1>3 DEF ArbChooses, Taken
  <2>2. n \in 1 .. MaxLen /\ (owed[c][o] = 0 \/ owed[c][o] = n)
    BY <1>0, <2>1, OfferedHeads DEF OfferedHead
  <2>3. owed'[c][o] = IF owed[c][o] > 0 THEN owed[c][o] - 1 ELSE n - 1
    BY <1>1, <1>3, <2>1
  <2> HIDE DEF n
  <2>4. owed'[c][o] = n - 1
    BY <2>2, <2>3, RouterAssumption
  <2> QED
    BY <1>1, <2>1, <2>2, <2>4
<1>4. ~Taken(o, ready) => \A i \in Inputs : owed'[i][o] = owed[i][o]
  BY <1>1
<1> QED
  BY <1>2, <1>3, <1>4 DEF OutputDone

\* What is begun after a cycle: a flit that is not the last begins a packet or
\* goes on with it, and the last one ends it.
LEMMA BegunNext ==
    ASSUME LinkInv, NEW ready \in SUBSET Outputs, NEW o \in Outputs, OutputDone(o, ready)
    PROVE  /\ ~Taken(o, ready) => Begun(o)' = Begun(o)
           /\ Taken(o, ready) => Begun(o)' = IF Head(fifo[Chosen(o)]).left = 1 THEN {}
                                             ELSE {Chosen(o)}
<1> DEFINE c == Chosen(o)
           n == Head(fifo[c]).left
<1>1. ArbChooses(o)
  BY Choice
<1>2. CASE ~Taken(o, ready)
  BY <1>2 DEF OutputDone, Begun
<1>3. CASE Taken(o, ready)
  <2>1. /\ c \in Inputs /\ n \in 1 .. MaxLen
        /\ \A i \in Inputs : owed'[i][o] = IF i = c THEN n - 1 ELSE owed[i][o]
    BY <1>1, <1>3 DEF OutputDone, ArbChooses, Taken, masked_valid
  <2>2. \A i \in Inputs : owed[i][o] > 0 => i = c
    BY <1>1 DEF ArbChooses, Begun
  <2> HIDE DEF c, n
  <2>3. \A i \in Inputs : owed'[i][o] > 0 <=> i = c /\ n # 1
    BY <2>1, <2>2, RouterAssumption
  <2>4. Begun(o)' = IF n = 1 THEN {} ELSE {c}
    BY <2>1, <2>3 DEF Begun
  <2> QED
    BY <1>3, <2>4 DEF c, n
<1> QED
  BY <1>2, <1>3

\* The clock edge keeps the arbiters right.
LEMMA ArbitersRight ==
    ASSUME LinkInv, NEW ready \in SUBSET Outputs, Registers(ready, Crossing(ready)),
           NEW o \in Outputs, OutputDone(o, ready)
    PROVE  ArbRight(arb'[o], masked_valid(o)', Begun(o)')
<1> DEFINE a   == arb[o]
           b   == arb'[o]
           mv  == masked_valid(o)
           req == Arb(o)!arb_req
           c   == Chosen(o)
           n   == Head(fifo[c]).left
           g   == Taken(o, ready) /\ n = 1
<1>1. /\ req = Arb(o)!valid_d /\ req \subseteq mv \cup Begun(o)
      /\ req # {} => c \in req
      /\ \A i \in Begun(o) : req # {} /\ i = c
      /\ Arb(o)!valid_o => Arb(o)!valid_selected_idx = c /\ c \in mv /\ req # {}
      /\ c = Select(req, a.rr_q)
  BY Choice DEF ArbChooses, Chosen
<1>2. mv \subseteq Inputs
  BY DEF masked_valid
<1>3. /\ b = ArbClock(o, o \in ready)
      /\ Arb(o)!last_out <=> Arb(o)!valid_o /\ n = 1
  <2>1. flits_left(o)[c] = n \/ c \notin mv
    BY <1>2 DEF flits_left
  <2>2. Arb(o)!last_out <=> Arb(o)!valid_o /\ flits_left(o)[Arb(o)!valid_selected_idx] = 1
    BY DEF Arb!last_out
  <2>3. Arb(o)!last_out <=> Arb(o)!valid_o /\ n = 1
    BY <1>1, <2>1, <2>2
  <2> QED
    BY <2>3 DEF Registers
<1>4. /\ b.valid_q = req /\ b.req_q = req
      /\ b.last_q <=> g
      /\ b.lock_q <=> req # {} /\ ~g
      /\ ~g => b.rr_q = a.rr_q
  <2>1. (Arb(o)!last_out /\ o \in ready) <=> g
    BY <1>3 DEF Taken
  <2>2. Arb(o)!gnt_i(o \in ready) <=> g
    BY <2>1 DEF Arb!gnt_i
  <2> QED
    <3>1. /\ b.valid_q = Arb(o)!valid_d /\ b.req_q = req
          /\ b.last_q = (Arb(o)!last_out /\ o \in ready)
          /\ b.lock_q = (req # {} /\ ~Arb(o)!gnt_i(o \in ready))
          /\ b.rr_q = IF req # {} /\ Arb(o)!gnt_i(o \in ready)
                      THEN Arb(o)!NextPointer(req, a.rr_q) ELSE a.rr_q
      BY <1>3 DEF ArbClock
    <3> HIDE DEF a, b, req, g
    <3> QED
      BY <1>1, <2>1, <2>2, <3>1
<1>5. /\ ~Taken(o, ready) => Begun(o)' = Begun(o)
      /\ Taken(o, ready) => Begun(o)' = IF n = 1 THEN {} ELSE {c}
  BY BegunNext
<1>6. \A i \in mv : ~Taken(o, ready) \/ i # c => i \in masked_valid(o)'
  BY DEF OutputDone
<1>7. Taken(o, ready) => req # {}
  BY <1>1 DEF Taken
<1> HIDE DEF a, b, mv, req, c, n
<1>8. \A i \in Begun(o)' : b.lock_q /\ Select(b.req_q, b.rr_q) = i
  BY <1>1, <1>4, <1>5, <1>7
<1>9. b.lock_q => ~b.last_q
  BY <1>4
<1>10. b.lock_q => b.valid_q = b.req_q /\ b.req_q # {}
  BY <1>4
<1>11. b.lock_q => b.req_q \subseteq masked_valid(o)' \cup Begun(o)'
  <2> SUFFICES ASSUME ~g PROVE req \subseteq masked_valid(o)' \cup Begun(o)'
    BY <1>4
  <2> QED
    BY <1>1, <1>5, <1>6
<1>12. ~b.lock_q => b.valid_q = {} \/ b.last_q
  BY <1>4
<1> HIDE DEF g
<1> QED
  BY <1>8, <1>9, <1>10, <1>11, <1>12, Zenon DEF ArbRight, b

-----------------------------------------------------------------------------
(* The outputs as links *)

\* At most one packet is under way, and its input owns the link.
LEMMA OwnerOfLink ==
    ASSUME NEW o \in Outputs, NEW B, B = Begun(o), NEW c, B \subseteq {c}
    PROVE  Owner(o) = IF B = {} THEN -1 ELSE c
BY DEF Owner, Begun

\* A cycle is a step of every output's link, or it does not change the link.
LinkStep == \A o \in Outputs : Link(o)!Next \/ UNCHANGED Link(o)!link

LEMMA OutputLink ==
    ASSUME LinkInv, NEW ready \in SUBSET Outputs, NEW o \in Outputs, OutputDone(o, ready)
    PROVE  Link(o)!Next \/ UNCHANGED Link(o)!link
<1> DEFINE c    == Chosen(o)
           n    == Head(fifo[c]).left
           rest == IF Owner(o) = -1 THEN 0 ELSE owed[Owner(o)][o]
<1>0. \A i \in Inputs : i # -1
  BY RouterAssumption DEF Inputs
<1>1. Begun(o) \subseteq {c} /\ Begun(o) \subseteq Inputs
  BY Choice DEF ArbChooses, Begun
<1>2. /\ ~Taken(o, ready) => Begun(o)' = Begun(o)
      /\ Taken(o, ready) => Begun(o)' = IF n = 1 THEN {} ELSE {c}
  BY BegunNext
<1>3. Owner(o) = IF Begun(o) = {} THEN -1 ELSE c
  BY <1>1, OwnerOfLink
<1>4. Begun(o)' \subseteq {c} /\ Owner(o)' = IF Begun(o)' = {} THEN -1 ELSE c
  <2>1. Begun(o)' \subseteq {c}
    BY <1>1, <1>2
  <2> QED
    BY <2>1 DEF Owner, Begun
<1>5. CASE ~Taken(o, ready)
  <2>1. Owner(o)' = Owner(o)
    BY <1>2, <1>3, <1>4, <1>5
  <2>2. \A i \in Inputs : owed'[i][o] = owed[i][o]
    BY <1>5 DEF OutputDone
  <2>3. Owner(o) = -1 \/ Owner(o) \in Inputs
    BY <1>1, <1>3
  <2>4. rest' = rest
    BY <2>1, <2>2, <2>3
  <2> QED
    BY <2>1, <2>4 DEF Link!link
<1>6. CASE Taken(o, ready)
  <2>1. /\ c \in Inputs /\ n \in 1 .. MaxLen /\ owed[c][o] \in {0, n}
        /\ \A i \in Inputs : owed'[i][o] = IF i = c THEN n - 1 ELSE owed[i][o]
    BY <1>6 DEF OutputDone, masked_valid
  <2>2. Owner(o)' = IF n = 1 THEN -1 ELSE c
    BY <1>2, <1>4, <1>6
  <2>3. rest' = n - 1
    <3>1. n \in Nat /\ owed'[c][o] = n - 1
      BY <2>1, RouterAssumption
    <3>2. rest' = IF Owner(o)' = -1 THEN 0 ELSE owed'[Owner(o)'][o]
      OBVIOUS
    <3> HIDE DEF rest, n, c
    <3> QED
      BY <1>0, <2>1, <2>2, <3>1, <3>2
  <2>4. CASE Begun(o) = {}
    <3>1. Owner(o) = -1
      BY <1>3, <2>4
    <3>2. Link(o)!Head(c, n)
      BY <2>2, <2>3, <3>1 DEF Link!Head
    <3> QED
      BY <2>1, <3>2 DEF Link!Next
  <2>5. CASE Begun(o) # {}
    <3>1. Owner(o) = c /\ c \in Begun(o)
      BY <1>1, <1>3, <2>5
    <3>2. owed[c][o] = n
      BY <2>1, <3>1 DEF Begun
    <3>3. rest = n
      BY <1>0, <2>1, <3>1, <3>2
    <3>4. Link(o)!Body(c)
      BY <2>2, <2>3, <3>1, <3>3 DEF Link!Body
    <3> QED
      BY <2>1, <3>4 DEF Link!Next
  <2> QED
    BY <2>4, <2>5
<1> QED
  BY <1>5, <1>6

\* What the arbiters' inputs offer next: a flit in waiting stays, and a flit that
\* is raised goes on with the packet that was begun.
OfferStep ==
    \A o \in Outputs :
       \/ Arb(o)!Offer(masked_valid(o), flits_left(o))
       \/ /\ Arb(o)!valid_o
          /\ LET i == Arb(o)!valid_selected_idx
             IN  Arb(o)!Offer(masked_valid(o) \ {i}, [flits_left(o) EXCEPT ![i] = @ - 1])

HeadsOffered == \A i \in Inputs, o \in Outputs : i \in masked_valid(o) => OfferedHead(i, o)

LEMMA HeadsAreOffered == IInv => HeadsOffered
BY OfferedHeads DEF HeadsOffered

LEMMA HeadsOfferedNext == IInv' => HeadsOffered'
BY HeadsAreOffered, PTL

LEMMA OutputOffer ==
    ASSUME LinkInv, HeadsOffered', NEW ready \in SUBSET Outputs, NEW o \in Outputs,
           OutputDone(o, ready)
    PROVE  \/ Arb(o)!Offer(masked_valid(o), flits_left(o))
           \/ /\ Arb(o)!valid_o
              /\ LET i == Arb(o)!valid_selected_idx
                 IN  Arb(o)!Offer(masked_valid(o) \ {i}, [flits_left(o) EXCEPT ![i] = @ - 1])
<1> DEFINE c   == Chosen(o)
           n   == Head(fifo[c]).left
           mv  == masked_valid(o)
           mv2 == masked_valid(o)'
           fl  == flits_left(o)
           fl2 == flits_left(o)'
           W   == IF Taken(o, ready) THEN mv \ {c} ELSE mv
           R   == IF Taken(o, ready) THEN [fl EXCEPT ![c] = @ - 1] ELSE fl
           len == [i \in mv2 \ W |-> Head(fifo'[i]).left]
<1>1. /\ mv \subseteq Inputs /\ mv2 \subseteq Inputs
      /\ fl = [i \in Inputs |-> IF i \in mv THEN Head(fifo[i]).left ELSE owed[i][o]]
      /\ fl2 = [i \in Inputs |-> IF i \in mv2 THEN Head(fifo'[i]).left ELSE owed'[i][o]]
  BY DEF masked_valid, flits_left
<1>2. ASSUME NEW i \in mv2
      PROVE  Head(fifo'[i]).left \in 1 .. MaxLen
             /\ (owed'[i][o] = 0 \/ owed'[i][o] = Head(fifo'[i]).left)
  BY <1>1, <1>2 DEF HeadsOffered, OfferedHead
<1>3. W \subseteq mv2 /\ \A i \in W : Head(fifo'[i]) = Head(fifo[i]) /\ i \in mv
  BY DEF OutputDone
<1>4. Taken(o, ready) => c \in mv /\ c \in Inputs
  BY <1>1 DEF OutputDone
<1>5. ASSUME NEW i \in Inputs
      PROVE  R[i] = IF i \in W THEN Head(fifo[i]).left ELSE owed'[i][o]
  BY <1>1, <1>4 DEF OutputDone
<1>6. fl2 = [i \in Inputs |-> IF i \in mv2 \ W /\ R[i] = 0 THEN len[i] ELSE R[i]]
  <2>1. ASSUME NEW i \in Inputs
        PROVE  (IF i \in mv2 THEN Head(fifo'[i]).left ELSE owed'[i][o])
               = (IF i \in mv2 \ W /\ R[i] = 0 THEN len[i] ELSE R[i])
    <3>1. CASE i \in W
      <4>1. i \in mv2 /\ R[i] = Head(fifo'[i]).left
        BY <1>3, <1>5, <3>1
      <4> HIDE DEF R, W, mv2, len
      <4> QED
        BY <3>1, <4>1
    <3>2. CASE i \in mv2 \ W
      <4>1. R[i] = owed'[i][o] /\ len[i] = Head(fifo'[i]).left
        BY <1>5, <3>2
      <4>2. owed'[i][o] = 0 \/ owed'[i][o] = Head(fifo'[i]).left
        BY <1>2, <3>2
      <4> HIDE DEF R, W, mv2, len
      <4> QED
        BY <3>2, <4>1, <4>2
    <3>3. CASE i \notin mv2
      <4>1. R[i] = owed'[i][o]
        BY <1>3, <1>5, <3>3
      <4> HIDE DEF R, W, mv2, len
      <4> QED
        BY <3>3, <4>1
    <3> HIDE DEF R, W, mv2, len
    <3> QED
      BY <1>3, <3>1, <3>2, <3>3
  <2> HIDE DEF R, W, mv2, len
  <2> QED
    BY <1>1, <2>1
<1>7. len \in [mv2 \ W -> 1 .. MaxLen] /\ mv2 \ W \in SUBSET (Inputs \ W) /\ mv2 = W \cup (mv2 \ W)
  BY <1>1, <1>2, <1>3
<1>8. \E raise \in SUBSET (Inputs \ W) :
         /\ mv2 = W \cup raise
         /\ \E l \in [raise -> 1 .. MaxLen] :
               fl2 = [i \in Inputs |-> IF i \in raise /\ R[i] = 0 THEN l[i] ELSE R[i]]
  <2> HIDE DEF mv2, fl2, W, R, len
  <2> QED
    BY <1>6, <1>7
<1>9. Arb(o)!Offer(W, R)
  BY <1>8 DEF Arb!Offer, Arb!Inputs, Arb!Requesters, Inputs
<1> QED
  BY <1>9, Choice DEF ArbChooses, Taken


-----------------------------------------------------------------------------
(* The outputs carry packets *)

LEMMA InitLinkInv ==
    ASSUME Init
    PROVE  LinkInv /\ \A o \in Outputs : Link(o)!Init
<1>1. IInv
  BY InitIInv
<1>2. ASSUME NEW o \in Outputs
      PROVE  ArbRight(arb[o], masked_valid(o), Begun(o)) /\ Link(o)!Init
  <2>1. Begun(o) = {}
    BY DEF Begun, Init
  <2>2. arb[o].lock_q = FALSE /\ arb[o].valid_q = {}
    BY DEF Init
  <2>3. Owner(o) = -1
    BY <2>1 DEF Owner, Begun
  <2>4. ArbRight(arb[o], masked_valid(o), Begun(o))
    BY <2>1, <2>2 DEF ArbRight
  <2>5. Link(o)!Init
    BY <2>3 DEF Link!Init
  <2> QED
    BY <2>4, <2>5
<1> QED
  BY <1>1, <1>2 DEF LinkInv

\* What every step does: the invariant stays, and each output goes on with its
\* packet.
LEMMA StepLinks ==
    ASSUME LinkInv, Next
    PROVE  LinkInv' /\ LinkStep /\ OfferStep
<1>1. PICK ready \in SUBSET Outputs, push \in SUBSET Inputs :
         Registers(ready, Crossing(ready)) /\ Receive(push, Crossing(ready))
  BY DEF Next, Cycle
<1>2. IInv'
  BY <1>1, StepIInv DEF LinkInv
<1>3. ASSUME NEW o \in Outputs
      PROVE  OutputDone(o, ready)
  BY <1>1, OutputCycle
<1>4. HeadsOffered'
  BY <1>2, HeadsOfferedNext
<1>5. \A o \in Outputs : ArbRight(arb'[o], masked_valid(o)', Begun(o)')
  BY <1>1, <1>3, ArbitersRight
<1>6. LinkInv'
  BY <1>2, <1>5 DEF LinkInv
<1>7. LinkStep
  BY <1>3, OutputLink DEF LinkStep
<1>8. OfferStep
  BY <1>3, <1>4, OutputOffer DEF OfferStep
<1> QED
  BY <1>6, <1>7, <1>8

LEMMA StutterLinks ==
    ASSUME LinkInv, UNCHANGED vars
    PROVE  LinkInv'
<1>1. IInv'
  BY StutterIInv DEF LinkInv
<1>2. \A o \in Outputs : masked_valid(o)' = masked_valid(o) /\ Begun(o)' = Begun(o) /\ arb'[o] = arb[o]
  BY DEF vars, masked_valid, Begun, in_valid, route_mask
<1> QED
  BY <1>1, <1>2 DEF LinkInv

\* Each output link carries one packet at a time, and what an output is offered
\* stays on offer, whatever the topology, the consumers and the other copies of
\* multicast flits.
THEOREM OutputsCarryPackets == Spec => LinksCarryPackets
<1>1. Init => LinkInv /\ \A o \in Outputs : Link(o)!Init
  BY InitLinkInv
<1>2. LinkInv /\ [Next]_vars => LinkInv'
  BY StepLinks, StutterLinks
<1>3. LinkInv /\ [Next]_vars => [LinkStep]_vars /\ [OfferStep]_vars
  BY StepLinks
<1>4. Spec => (\A o \in Outputs : Link(o)!Init) /\ [][LinkStep]_vars /\ [][OfferStep]_vars
  BY <1>1, <1>2, <1>3, PTL DEF Spec
<1> QED
  BY <1>4 DEF LinksCarryPackets, OffersStable, LinkStep, OfferStep

=============================================================================
