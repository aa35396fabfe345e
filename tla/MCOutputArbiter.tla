-------------------------- MODULE MCOutputArbiter --------------------------
(* OutputArbiter with the binary arbitration tree and small groups for TLC. *)
EXTENDS OutputArbiter, Sequences, TLC

CONSTANTS r1, r2, r3

\* A tree of three inputs, 2 in a half of its own: the inputs in the order in
\* which the tree prefers them when the pointer is at 0, 1 or 2.
Preference == <<<<0, 1, 2>>, <<1, 0, 2>>, <<2, 0, 1>>>>

BinaryTree ==
    [p \in (SUBSET Requesters) \X Requesters |->
        IF p[1] = {} THEN 0
        ELSE SelectSeq(Preference[p[2] + 1], LAMBDA i : i \in p[1])[1]]

TwoReductions == r1 :> {0, 1} @@ r2 :> {1, 2}

\* The first and the last share no input: both can be complete.
ThreeReductions == TwoReductions @@ r3 :> {2}

=============================================================================
