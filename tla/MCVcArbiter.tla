----------------------------- MODULE MCVcArbiter -----------------------------
(* VcArbiter with all its implementations for TLC. *)
EXTENDS VcArbiter

CreditOnly == {"VcCredit"}
AllImpls == {"VcNaive", "VcPreemptValid", "VcCredit"}
=============================================================================
