---------------------------- MODULE MCAxiChimney ----------------------------
(* AxiChimney with bursts and single beats, and atomics of both kinds, for TLC: *)
(* a behaviour has three transactions of a mixture, or four that are mostly     *)
(* atomics and run out of identifiers.                                          *)
EXTENDS AxiChimney

Traffic ==
    {[kind |-> "read",  id |-> 0, beats |-> 2], [kind |-> "read",  id |-> 1, beats |-> 1],
     [kind |-> "write", id |-> 0, beats |-> 2], [kind |-> "write", id |-> 1, beats |-> 1],
     [kind |-> "store", id |-> 0, beats |-> 1],
     [kind |-> "load",  id |-> 0, beats |-> 1], [kind |-> "load",  id |-> 1, beats |-> 1]}

\* Three atomics may want two identifiers, and writes keep the spill register full.
Atomics ==
    {[kind |-> "load",  id |-> 0, beats |-> 1], [kind |-> "store", id |-> 2, beats |-> 1],
     [kind |-> "store", id |-> 3, beats |-> 1], [kind |-> "write", id |-> 1, beats |-> 1]}

Both == Traffic \cup Atomics

OneKind ==
    \/ Len(txn') <= 3 /\ ToSet(txn') \subseteq Traffic
    \/ ToSet(txn') \subseteq Atomics

MCSpec == Init /\ [][Next /\ OneKind]_vars /\ Fairness

=============================================================================
