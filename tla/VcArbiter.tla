----------------------------- MODULE VcArbiter -----------------------------
(***************************************************************************)
(* hw/floo_vc_arbiter.sv: two virtual channels share one physical link to   *)
(* the input FIFOs of the next router or network interface, one FIFO per    *)
(* virtual channel.  VcImpl selects how a channel whose FIFO is full is     *)
(* kept from blocking the link:                                             *)
(*   VcNaive         only channels whose FIFO is ready compete;             *)
(*   VcPreemptValid  a channel that stalls on the link is masked;           *)
(*   VcCredit        only channels with credits compete.                    *)
(* A step is one clock cycle.  The flits that wait (valid_i) and what the   *)
(* consumers of the FIFOs drain are the environment.                        *)
(***************************************************************************)
EXTENDS Integers

CONSTANTS
    VcImpls,       \* the implementations checked
    NumCredits,    \* initial credits of each channel (3 in the code)
    FifoDepth,     \* flits each FIFO at the other end stores
    AtChimney      \* the other end is a network interface

ASSUME VcAssumption ==
    /\ VcImpls \subseteq {"VcNaive", "VcPreemptValid", "VcCredit"}
    /\ NumCredits \in Nat \ {0} /\ FifoDepth \in Nat \ {0}
    /\ AtChimney \in BOOLEAN

VCs == {0, 1}
Other(v) == 1 - v

VARIABLES
    VcImpl,                    \* the parameter: it never changes
    mask_q, rr_q, credit,      \* registers of floo_vc_arbiter
    valid_i,                   \* channels with a flit to send
    usage,                     \* flits in each FIFO at the other end
    credit_gnt_q               \* credits on their way back

vcVars == <<VcImpl, mask_q, rr_q, credit, valid_i, usage, credit_gnt_q>>

-----------------------------------------------------------------------------
(* Combinational signals *)

ready_i == {v \in VCs : usage[v] < FifoDepth}

credit_left == {v \in VCs : credit[v] > 0}

vc_arb_req_in ==
    CASE VcImpl = "VcPreemptValid" -> valid_i \cap mask_q
      [] VcImpl = "VcCredit"       -> valid_i \cap credit_left
      [] VcImpl = "VcNaive"        -> valid_i \cap ready_i

\* The arbitration tree of two inputs, without LockIn.
Tree2 == [p \in (SUBSET VCs) \X VCs |->
            IF p[2] \in p[1] \/ p[1] = {} THEN p[2] ELSE Other(p[2])]
Arb == INSTANCE RrArbTree WITH NumIn <- 2, Tree <- Tree2

vc_arb_idx == Tree2[vc_arb_req_in, rr_q]

valid_o == IF vc_arb_req_in # {} THEN {vc_arb_idx} ELSE {}

vc_arb_gnt_in == vc_arb_idx \in ready_i

\* The channel whose flit crosses the link in this cycle.
handshake == IF vc_arb_gnt_in THEN valid_o ELSE {}

\* Mutant: a stalled channel keeps the link.
NeverMasked == mask_q

\* A channel that stalls while the other could send is masked in the next cycle.
mask_d ==
    IF VcImpl # "VcPreemptValid" \/ vc_arb_req_in = {} THEN mask_q
    ELSE IF vc_arb_gnt_in THEN VCs
    ELSE IF Other(vc_arb_idx) \in ready_i \cap valid_i THEN {Other(vc_arb_idx)}
    ELSE mask_q

\* The credits the other end returns: a router when a flit leaves its FIFO, a
\* network interface when a flit enters.  Mutant: also when nothing leaves.
CreditOnReady(drain) == drain
credit_gnt_d(drain) == IF AtChimney THEN handshake ELSE {v \in drain : usage[v] > 0}

-----------------------------------------------------------------------------
One(v, S) == IF v \in S THEN 1 ELSE 0

\* One clock cycle: the channels in raise get a flit to send, the consumers of
\* the FIFOs in drain take one.
Cycle(raise, drain) ==
    /\ UNCHANGED VcImpl
    /\ valid_i' = (valid_i \ handshake) \cup raise
    /\ usage' = [v \in VCs |-> usage[v] + One(v, handshake)
                               - One(v, {u \in drain : usage[u] > 0})]
    /\ mask_q' = mask_d
    /\ rr_q' = IF handshake # {} THEN Arb!NextPointer(vc_arb_req_in, rr_q) ELSE rr_q
    /\ IF VcImpl = "VcCredit"
       THEN /\ credit' = [v \in VCs |-> credit[v] + One(v, credit_gnt_q)
                                         - One(v, handshake)]
            /\ credit_gnt_q' = credit_gnt_d(drain)
       ELSE UNCHANGED <<credit, credit_gnt_q>>

VcInit ==
    /\ VcImpl \in VcImpls
    /\ mask_q = VCs /\ rr_q = 0 /\ credit = [v \in VCs |-> NumCredits]
    /\ valid_i = {} /\ usage = [v \in VCs |-> 0] /\ credit_gnt_q = {}

VcNext == \E raise, drain \in SUBSET VCs : Cycle(raise, drain)

VcSpec == VcInit /\ [][VcNext]_vcVars

\* The clock does not stop; nothing is assumed of senders and consumers.
VcFairSpec == VcSpec /\ WF_vcVars(Cycle({}, {}))

-----------------------------------------------------------------------------
(* Properties *)

\* The registers and FIFOs stay within their types.
VcTypeOK ==
    /\ VcImpl \in VcImpls
    /\ mask_q \in SUBSET VCs /\ rr_q \in VCs
    /\ credit \in [VCs -> 0 .. NumCredits]
    /\ valid_i \in SUBSET VCs /\ credit_gnt_q \in SUBSET VCs
    /\ usage \in [VCs -> 0 .. FifoDepth]

\* A channel's credits, the flits in its FIFO and the credit on its way back
\* add up, so that no credit is lost and none is invented.
CreditsConserved ==
    VcImpl = "VcCredit" =>
       \A v \in VCs : credit[v] + usage[v] + One(v, credit_gnt_q) = NumCredits

\* Assertion StableValidOut of hw/floo_router.sv, which it makes of all but
\* VcPreemptValid: a channel that offers a flit which is not taken offers it in
\* the next cycle, too.
StableValidOut ==
    [][\A v \in VCs : v \in valid_o /\ v \notin ready_i /\ VcImpl # "VcPreemptValid"
                      => v \in valid_o']_vcVars

\* The reason for virtual channels: a channel whose FIFO is drained again and
\* again makes progress even when the other channel's FIFO stays full ("even if
\* for instance the buffer for requests is full, responses can still be
\* received", docs/floonoc/links.md).
Sent(v) == \E raise, drain \in SUBSET VCs : v \in handshake /\ Cycle(raise, drain)
ChannelsIndependent ==
    \A v \in VCs :
       <>[](v \in valid_i) /\ []<>(usage[v] = 0) => []<><<Sent(v)>>_vcVars

=============================================================================
