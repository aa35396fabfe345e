-------------------------------- MODULE NoRob --------------------------------
(***************************************************************************)
(* hw/floo_rob_wrapper.sv with RoBType = NoRoB: no reorder buffer.  A       *)
(* request is stalled while requests of its ID to another destination are   *)
(* in flight; responses pass straight through.                              *)
(*                                                                         *)
(* axi_demux_id_counters is a library module (external): a counter of the   *)
(* requests in flight and the destination of the last one, per ID.          *)
(***************************************************************************)
EXTENDS RobPorts

CONSTANT MaxRoTxnsPerId

VARIABLES in_flight_cnt, mst_select_q   \* registers of axi_demux_id_counters

noRobVars == <<in_flight_cnt, mst_select_q, ports>>

\* Counters of $clog2(MaxRoTxnsPerId) bits; full when any of them is all ones.
CounterMax == IdxRange(MaxRoTxnsPerId) - 1

ASSUME NoRobAssumption == MaxRoTxnsPerId \in Nat \ {0, 1} /\ CounterMax \in Nat

counter_full == \E id \in Ids : in_flight_cnt[id] = CounterMax

in_flight(id) == in_flight_cnt[id] # 0
prev_dest(id) == mst_select_q[id]

\* Mutants: the destination is not compared; the counters are not checked.
PushToAnyDest == ax # NoAx /\ ~ counter_full
PushWhenFull == ax # NoAx /\ (~ in_flight(ax.id) \/ ax.dest = prev_dest(ax.id))

push ==
    /\ ax # NoAx
    /\ ~ in_flight(ax.id) \/ ax.dest = prev_dest(ax.id)
    /\ ~ counter_full

\* Mutant: a pop is lost in the cycle of a push.
LostPop(pushed, popped) ==
    /\ in_flight_cnt' = [id \in Ids |->
          IF pushed /\ id = ax.id THEN in_flight_cnt[id] + 1
          ELSE in_flight_cnt[id] - (IF id \in popped THEN 1 ELSE 0)]
    /\ mst_select_q' = IF pushed THEN [mst_select_q EXCEPT ![ax.id] = ax.dest]
                       ELSE mst_select_q

\* The counters on a cycle that pushes (or not) the request on the Ax port and
\* pops the IDs in popped.
Count(pushed, popped) ==
    /\ in_flight_cnt' = [id \in Ids |->
          in_flight_cnt[id] + (IF pushed /\ id = ax.id THEN 1 ELSE 0)
                            - (IF id \in popped THEN 1 ELSE 0)]
    /\ mst_select_q' = IF pushed THEN [mst_select_q EXCEPT ![ax.id] = ax.dest]
                       ELSE mst_select_q

\* ax_rob_req_o and ax_rob_idx_o are constants here: the tag carries nothing.
NoRobAxSide(popped, net1, owed1) ==
    \/ push /\ AxHandshake(0, net1, owed1) /\ Count(TRUE, popped)
    \/ NoAxHandshake(net1, owed1) /\ Count(FALSE, popped)

\* No response, or one that the manager does not take.
Wait ==
    /\ NoRobAxSide({}, net, owed)
    /\ KeepRsp
    /\ given' = NoBeat

\* The manager takes the response.
Forward ==
    /\ rsp # NoRsp
    /\ NoRobAxSide({id \in Ids : id = rsp_i.id /\ rsp_i.last}, Consumed, Served(rsp_i))
    /\ NewRsp(Consumed)
    /\ given' = rsp_i

NoRobInit ==
    /\ in_flight_cnt = [id \in Ids |-> 0]
    /\ mst_select_q \in {[id \in Ids |-> d] : d \in Dests}   \* reset value '0
    /\ PortsInit

NoRobNext == Wait \/ Forward

NoRobSpec == NoRobInit /\ [][NoRobNext]_noRobVars

-----------------------------------------------------------------------------
(* Properties *)

\* The counters stay within their bits, and the ports within their types.
NoRobTypeOK ==
    /\ in_flight_cnt \in [Ids -> 0 .. CounterMax]
    /\ mst_select_q \in [Ids -> Dests]
    /\ ax \in Requests \cup {NoAx}
    /\ rsp \in Dests \cup {NoRsp}

\* Stalling works because all the beats in flight for an ID come from one
\* destination, the one of its last request (docs/floonoc/chimneys.md,
\* "Stalling").
OneDestinationPerId ==
    \A id \in Ids, d \in Dests :
       (\E k \in DOMAIN net[d] : net[d][k].beat.id = id)
          => in_flight(id) /\ mst_select_q[id] = d

\* The counters are exact: no request is forgotten, none is counted twice.
ExactCount ==
    \A id \in Ids :
       in_flight_cnt[id] = Cardinality({k \in DOMAIN owed[id] : owed[id][k].last})

\* The counters are right, and with them the stalling.
CountersRight == NoRobTypeOK /\ ExactCount /\ OneDestinationPerId

=============================================================================
