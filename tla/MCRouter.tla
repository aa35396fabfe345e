------------------------------ MODULE MCRouter ------------------------------
(* Router with small crossbars and the arbitration tree of two inputs. *)
EXTENDS Router

\* With two inputs the pointer's input wins if it requests.
TwoInputTree ==
    [p \in (SUBSET Inputs) \X Inputs |->
        IF p[2] \in p[1] \/ p[1] = {} THEN p[2] ELSE 1 - p[2]]

\* As many outputs as the header asks for.
Multicast == [i \in Inputs |-> (SUBSET Outputs) \ {{}}]

AllConnected == Inputs \X Outputs
=============================================================================
