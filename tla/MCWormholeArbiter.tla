------------------------- MODULE MCWormholeArbiter -------------------------
(* WormholeArbiter with the binary tree of cc_rr_arb_tree for TLC. *)
EXTENDS WormholeArbiter

\* The tree compares two halves at each level: the half that the bit of the
\* pointer names wins if it has a request.  The winner is the request whose
\* index is closest to the pointer in the XOR metric.
Bit(n, k) == (n \div 2^k) % 2
Distance(i, j) == LET x(k) == IF Bit(i, k) = Bit(j, k) THEN 0 ELSE 2^k
                  IN  x(0) + x(1) + x(2)

BinaryTree ==
    [p \in (SUBSET (Requesters)) \X (Requesters) |->
        IF p[1] = {} THEN 0
        ELSE CHOOSE i \in p[1] :
                \A j \in p[1] : Distance(i, p[2]) <= Distance(j, p[2])]

=============================================================================
