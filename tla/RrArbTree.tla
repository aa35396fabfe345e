------------------------------ MODULE RrArbTree ------------------------------
(***************************************************************************)
(* The round-robin arbitration tree cc_rr_arb_tree of the common_cells      *)
(* library, as hw/floo_wormhole_arbiter.sv and hw/floo_vc_arbiter.sv        *)
(* configure it: ExtPrio = 0, LockIn = 1, FairArb = 1.  The library is not  *)
(* part of the repository, so only the next-state functions of its three    *)
(* registers (lock_q, req_q, rr_q) and the chosen index are modelled.       *)
(*                                                                         *)
(* The shape of the tree is a constant: Tree[req, rr] is the index the tree *)
(* selects among the requests req when the round-robin pointer is rr.  All  *)
(* its users rely on is TreeAssumption: a requester is chosen, and the one  *)
(* the pointer names if it requests.                                        *)
(***************************************************************************)
EXTENDS Integers

CONSTANTS NumIn, Tree

ASSUME NumInAssumption == NumIn \in Nat \ {0}

Requesters == 0 .. (NumIn - 1)

ASSUME TreeAssumption ==
    /\ Tree \in [(SUBSET Requesters) \X Requesters -> Requesters]
    /\ \A req \in (SUBSET Requesters) \ {{}}, rr \in Requesters :
          /\ Tree[req, rr] \in req
          /\ rr \in req => Tree[req, rr] = rr

\* The lowest index of a set of requests (the library's trailing-zero count).
Lowest(req) == CHOOSE i \in req : \A j \in req : i <= j

\* Mutant: the lowest request always wins.
LowestFirst(req, rr) == Lowest(req)

\* FairArb: on a grant the pointer moves to the next request above it, and
\* wraps to the lowest request when there is none above.
NextPointer(req, rr) ==
    LET upper == {i \in req : i > rr}
    IN  IF upper # {} THEN Lowest(upper) ELSE Lowest(req)

\* LockIn: an offer that was not granted is repeated with the same requests.
ArbRequests(lock, held, req) == IF lock THEN held ELSE req

=============================================================================
