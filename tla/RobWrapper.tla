----------------------------- MODULE RobWrapper -----------------------------
(***************************************************************************)
(* hw/floo_rob_wrapper.sv with either of the two alternatives it holds      *)
(* besides floo_rob: RoBType is chosen at the start.  The other one is not  *)
(* generated, its registers keep their reset values.                        *)
(*                                                                         *)
(* SimpleRoB is given requests of one beat: more are outside its contract   *)
(* (assertion NoBurstSupport).                                              *)
(***************************************************************************)
EXTENDS NoRob, SimpleRob

CONSTANT MaxSimple   \* bound: requests of an ID in a behaviour of SimpleRoB

ASSUME WrapperAssumption == MaxSimple \in Nat

VARIABLE RoBType

wrapperVars == <<RoBType, in_flight_cnt, mst_select_q, vars>>

WrapperInit ==
    /\ RoBType \in {"NoRoB", "SimpleRoB"}
    /\ NoRobInit
    /\ Init

SimpleRequests == ax' # NoAx => ax'.len = 0 /\ issued'[ax'.id] < MaxSimple

NoRoBStep     == RoBType = "NoRoB" /\ NoRobNext
                 /\ UNCHANGED <<RoBType, buffer>>
SimpleRoBStep == RoBType = "SimpleRoB" /\ Next /\ SimpleRequests
                 /\ UNCHANGED <<RoBType, in_flight_cnt, mst_select_q>>

WrapperNext == NoRoBStep \/ SimpleRoBStep

\* The manager takes responses, the buffer is clocked, and the network takes
\* requests and answers them.
WrapperFairness ==
    /\ WF_wrapperVars(rsp # NoRsp /\ given' = rsp_i /\ NoRoBStep)
    /\ WF_wrapperVars(SimpleRoBStep)
    /\ WF_wrapperVars(rsp_out_valid_q /\ given' = rsp_o /\ SimpleRoBStep)
    /\ WF_wrapperVars(ax # NoAx /\ WrapperNext /\ issued' # issued)
    /\ \A d \in Dests :
          SF_wrapperVars(rsp = NoRsp /\ net[d] # <<>> /\ rsp' = d /\ WrapperNext)

WrapperSpec == WrapperInit /\ [][WrapperNext]_wrapperVars /\ WrapperFairness

-----------------------------------------------------------------------------
(* Properties *)

\* NoRoB: the counters are right, and with them the stalling.
NoRoBCounters == RoBType = "NoRoB" => CountersRight

\* SimpleRoB: the slots in use never overflow.
SimpleRoBSlots == RoBType = "SimpleRoB" => SlotsSafe

==============================================================================
