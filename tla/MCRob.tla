-------------------------------- MODULE MCRob --------------------------------
(***************************************************************************)
(* Rob for TLC: small sets of IDs and destinations.  The IDs without bursts *)
(* make MaxOthers requests each, to the same destination (destinations are  *)
(* interchangeable), those of BurstIds as many as MaxRequests.              *)
(***************************************************************************)
EXTENDS Rob

CONSTANT MaxOthers   \* bound

FewOthers ==
    ax' # NoAx /\ ax'.id \notin BurstIds
       => issued'[ax'.id] < MaxOthers /\ ax'.dest = CHOOSE d \in Dests : TRUE

MCSpec == Init /\ [][Next /\ FewOthers]_vars /\ Fairness

=============================================================================
