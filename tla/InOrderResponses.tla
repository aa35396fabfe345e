-------------------------- MODULE InOrderResponses --------------------------
(***************************************************************************)
(* What every reorder buffer of a network interface promises to the AXI     *)
(* manager it serves (abstract specification; docs/floonoc/chimneys.md,     *)
(* "Ordering"): the responses to requests of the same transaction ID come   *)
(* back in the order in which the requests were accepted, each response     *)
(* with all its beats and each beat once.                                   *)
(***************************************************************************)
EXTENDS Sequences

CONSTANTS Ids,      \* AXI transaction IDs
          Bursts,   \* the beat sequences that answer a request
          NoBeat    \* no beat is given to the manager

VARIABLES owed,     \* owed[id]: the beats still owed to id, in order
          given     \* the beat given to the manager in the last cycle

Init == owed = [id \in Ids |-> <<>>] /\ given = NoBeat

\* The request with ID id that burst answers is accepted.
Accepted(id, burst) == [owed EXCEPT ![id] = @ \o burst]

Quiet == UNCHANGED owed /\ given' = NoBeat

Accept(id, burst) == owed' = Accepted(id, burst) /\ given' = NoBeat

Give(id) ==
    /\ owed[id] # <<>>
    /\ given' = Head(owed[id])
    /\ owed'  = [owed EXCEPT ![id] = Tail(@)]

\* Both in the same clock cycle.
AcceptAndGive(id, burst, to) ==
    /\ owed[to] # <<>>
    /\ given' = Head(owed[to])
    /\ owed'  = [Accepted(id, burst) EXCEPT ![to] = Tail(@)]

Next ==
    \/ Quiet
    \/ \E id \in Ids : Give(id)
    \/ \E id \in Ids, burst \in Bursts : Accept(id, burst)
    \/ \E id, to \in Ids, burst \in Bursts : AcceptAndGive(id, burst, to)

Spec == Init /\ [][Next]_<<owed, given>>

=============================================================================
