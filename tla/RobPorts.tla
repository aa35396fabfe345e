------------------------------ MODULE RobPorts ------------------------------
(***************************************************************************)
(* What surrounds each of the three reorder buffers behind the ports of     *)
(* hw/floo_rob_wrapper.sv, and what is required of all of them.             *)
(*                                                                         *)
(*  - The AXI manager offers a request until it is accepted.                *)
(*  - The network takes a request when it likes.  Every destination answers *)
(*    its requests in order with ax_len_i + 1 beats.  R flits are packets   *)
(*    of one flit (hw/floo_axi_chimney.sv:643): bursts of different         *)
(*    destinations arrive interleaved; unless Interleaved, those of an ID   *)
(*    arrive one after the other.  A beat is offered until it is accepted.  *)
(*                                                                         *)
(* Data is abstracted to the identity of a beat: the ID, the number of the  *)
(* request it answers, its position in the burst and its last flag.         *)
(***************************************************************************)
EXTENDS Integers, Sequences, FiniteSets

CONSTANTS NumIds, Dests,
          BurstLens,       \* bound: ax_len_i of the requests of BurstIds
          BurstIds,        \* bound: the IDs with requests of more than a beat
          Interleaved,
          MaxRequests      \* bound: requests of an ID in a behaviour

ASSUME PortsAssumption ==
    /\ NumIds \in Nat \ {0} /\ BurstLens \subseteq Nat /\ Interleaved \in BOOLEAN
    /\ BurstIds \subseteq 0 .. (NumIds - 1) /\ MaxRequests \in Nat

VARIABLES ax,           \* the request the manager offers, or NoAx
          net,          \* per destination: the beats it answers with, in order
          rsp,          \* the destination whose first beat is offered, or NoRsp
          issued,       \* per ID: the number of requests so far
          owed, given   \* history: the variables of InOrderResponses

ports == <<ax, net, rsp, issued, owed, given>>

Ids    == 0 .. (NumIds - 1)
NoAx   == [id |-> -1]
NoRsp  == "none"
NoBeat == [id |-> 0, num |-> 0, pos |-> 0, last |-> FALSE]   \* reset value '0

Lens     == BurstLens \cup {0}
Requests == [id : BurstIds, dest : Dests, len : BurstLens]
            \cup [id : Ids \ BurstIds, dest : Dests, len : {0}]

Burst(id, num, len) ==
    [k \in 1 .. (len + 1) |->
        [id |-> id, num |-> num, pos |-> k, last |-> k = len + 1]]

\* Range of the unsigned numbers of $clog2(n) bits.
IdxRange(n) == CHOOSE m \in n .. (2 * n) : \E w \in 0 .. n : m = 2^w

PortsInit ==
    /\ ax = NoAx /\ rsp = NoRsp
    /\ net = [d \in Dests |-> <<>>]
    /\ issued = [id \in Ids |-> 0]
    /\ owed = [id \in Ids |-> <<>>] /\ given = NoBeat

-----------------------------------------------------------------------------
(* Ax ports *)

NewAx == ax' = NoAx \/ \E r \in Requests : issued'[r.id] < MaxRequests /\ ax' = r

\* The beats of the response to ax, with the tag their flits carry back.
Answer(tag) ==
    LET beats == Burst(ax.id, issued[ax.id], ax.len)
    IN  [k \in DOMAIN beats |-> [beat |-> beats[k], tag |-> tag]]

\* ax_valid_o and ax_ready_i: the request leaves, with tag in its header.  net1
\* and owed1 are what the response side of the same cycle leaves.
AxHandshake(tag, net1, owed1) ==
    /\ net'    = [net1 EXCEPT ![ax.dest] = @ \o Answer(tag)]
    /\ owed'   = [owed1 EXCEPT ![ax.id] = @ \o Burst(ax.id, issued[ax.id], ax.len)]
    /\ issued' = [issued EXCEPT ![ax.id] = @ + 1]
    /\ NewAx

NoAxHandshake(net1, owed1) ==
    /\ net' = net1 /\ owed' = owed1
    /\ UNCHANGED issued
    /\ IF ax = NoAx THEN NewAx ELSE UNCHANGED ax

-----------------------------------------------------------------------------
(* Response ports *)

rsp_i == Head(net[rsp]).beat
rsp_tag == Head(net[rsp]).tag

Consumed == [net EXCEPT ![rsp] = Tail(@)]

\* The rest of a burst of an ID is what d offers next.
MidBurst(d, id, net1) ==
    net1[d] # <<>> /\ Head(net1[d]).beat.pos > 1 /\ Head(net1[d]).beat.id = id

\* The next beat the network offers.
NewRsp(net1) ==
    \/ rsp' = NoRsp
    \/ /\ rsp' \in {d \in Dests : net1[d] # <<>>}
       /\ Interleaved \/ \A d \in Dests : MidBurst(d, Head(net1[rsp']).beat.id, net1) => rsp' = d

KeepRsp == IF rsp = NoRsp THEN NewRsp(net) ELSE UNCHANGED rsp

\* What is offered is not of the ID of a burst that is under way elsewhere.
BurstsApart ==
    rsp # NoRsp => \A d \in Dests : MidBurst(d, rsp_i.id, net) => rsp = d

\* The manager is given a beat (history).
Served(beat) == [owed EXCEPT ![beat.id] = IF @ = <<>> THEN @ ELSE Tail(@)]

-----------------------------------------------------------------------------
(* Requirements *)

\* docs/floonoc/chimneys.md, "Ordering": responses with the same ID come back
\* in the order of the requests, whole, and each beat once.
AllBursts == {Burst(id, n, len) : id \in Ids, n \in 0 .. MaxRequests,
                                  len \in Lens}
AXI == INSTANCE InOrderResponses WITH Bursts <- AllBursts
OrderedResponses == AXI!Spec

\* Every request is answered in full: no ID waits for ever.
EveryRequestAnswered ==
    \A id \in Ids : owed[id] # <<>> ~> owed[id] = <<>>

\* No request blocks the Ax port for ever: what it waits for (slots, counters,
\* requests to another destination) is released.  (The number of requests is
\* bounded, so a port that is never empty again is blocked.)
EveryRequestAccepted == ax # NoAx ~> ax = NoAx

=============================================================================
