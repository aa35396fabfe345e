----------------------------- MODULE MetaBuffer -----------------------------
(***************************************************************************)
(* The half of hw/floo_axi_chimney.sv that faces a subordinate, with        *)
(* hw/floo_meta_buffer.sv: a request leaves its header in a queue, or,      *)
(* when it is an atomic, in the registers of an identifier of its own, and  *)
(* the response that carries the identifier finds the header again.  A step *)
(* is one clock cycle of the meta buffer.                                   *)
(*                                                                         *)
(* A header stands for its transaction, given by its number; txn remembers  *)
(* what was asked for.  A transaction is a read, a write, or an atomic that *)
(* is answered by B only (store) or by B and R (load).                      *)
(***************************************************************************)
EXTENDS Integers, FiniteSets, SequencesExt

CONSTANTS
    MaxTxns,         \* headers of non-atomic requests per direction
    MaxUniqueIds,    \* 1: FIFOs of headers, more: queues by identifier
    MaxAtomicTxns,   \* identifiers kept for atomics
    LastId           \* the greatest identifier of the subordinate's port

ASSUME MetaBufferAssumption ==
    /\ MaxTxns \in Nat \ {0} /\ MaxUniqueIds \in Nat \ {0}
    /\ MaxAtomicTxns \in Nat \ {0} /\ LastId \in Nat
    /\ MaxAtomicTxns + MaxUniqueIds - 1 <= LastId    \* ToSmallIdWidth, TooFewIdBits1

VARIABLES
    txn,                    \* history: [kind, id, beats] of each transaction
    aw_queue, ar_queue,     \* no_atop FIFOs or ID queues: [id, txn]
    aw_atop, ar_atop,       \* registers of atomics: a transaction, or 0
    lzc_cnt_q, atop_req_pending_q,
    aw_out_queue,           \* spill register towards the subordinate
    aw_offer,               \* history: the AW it was offered and did not take
    writes, reads,          \* what the subordinate has accepted and not answered
    data_done               \* the writes whose data the subordinate has

meta == <<aw_queue, ar_queue, aw_atop, ar_atop, lzc_cnt_q, atop_req_pending_q,
          aw_out_queue, aw_offer, writes, reads, data_done>>

AtopIds == 0 .. MaxAtomicTxns - 1

is_atop(t)        == txn[t].kind \in {"store", "load"}
atop_has_r_rsp(t) == txn[t].kind = "load"

\* The identifier of a non-atomic request at the subordinate.
no_atop_req_id(t) == IF MaxUniqueIds = 1 THEN LastId ELSE MaxAtomicTxns + txn[t].id

-----------------------------------------------------------------------------
(* Responses: answer is a B or R beat of the subordinate, or NoAnswer *)

NoAnswer == [ch |-> "none"]

\* Responses with the same identifier are given in order; B needs all data.
FirstOfId(queue, i) == \A j \in 1 .. i - 1 : queue[j].id # queue[i].id
Answers ==
    {[ch |-> "B", id |-> writes[i].id, of |-> writes[i].txn, last |-> TRUE] :
        i \in {i \in DOMAIN writes : writes[i].txn \in data_done /\ FirstOfId(writes, i)}}
    \cup {[ch |-> "R", id |-> reads[i].id, of |-> reads[i].txn, last |-> reads[i].left = 1] :
        i \in {i \in DOMAIN reads : FirstOfId(reads, i)}}

\* The answer is the last one that needs its header in channel ch.
pops(answer, ch) == answer.ch = ch /\ answer.last
is_atop_rsp(answer) == answer.id < MaxAtomicTxns

\* The place of the header that a response with id takes; mutant: the newest one.
Newest(queue, id) ==
    CHOOSE i \in DOMAIN queue :
       queue[i].id = id /\ \A j \in i + 1 .. Len(queue) : queue[j].id # id
Oldest(queue, id) == CHOOSE i \in DOMAIN queue : queue[i].id = id /\ FirstOfId(queue, i)

\* b_buf_o, r_buf_o: the header that a response leaves with.
header(answer) ==
    LET atop  == IF answer.ch = "B" THEN aw_atop ELSE ar_atop
        queue == IF answer.ch = "B" THEN aw_queue ELSE ar_queue
    IN  IF is_atop_rsp(answer) THEN atop[answer.id] ELSE queue[Oldest(queue, answer.id)].txn

\* A queue, or the registers, after the answer.
Queue(queue, answer, ch) ==
    IF pops(answer, ch) /\ ~is_atop_rsp(answer) THEN RemoveAt(queue, Oldest(queue, answer.id)) ELSE queue
Registers(atop, answer, ch) ==
    [i \in AtopIds |-> IF pops(answer, ch) /\ answer.id = i THEN 0 ELSE atop[i]]

-----------------------------------------------------------------------------
(* Requests: flit is what waits on the request link, [ch, txn, of, last] *)

\* Mutant: the identifier is free when B has been given.
FreeAfterB(answer) == {i \in AtopIds : Registers(aw_atop, answer, "B")[i] = 0}

\* The registers are ready in the cycle in which they are read.
available_atop_ids(answer) ==
    {i \in AtopIds : /\ Registers(aw_atop, answer, "B")[i] = 0
                     /\ Registers(ar_atop, answer, "R")[i] = 0}
lzc_cnt_d(answer) ==
    IF available_atop_ids(answer) = {} THEN 0
    ELSE CHOOSE i \in available_atop_ids(answer) : \A j \in available_atop_ids(answer) : i <= j
\* Mutant: the identifier is chosen anew while the request stalls.
ChosenAnew(answer) == lzc_cnt_d(answer)
atop_req_id(answer) == IF atop_req_pending_q THEN lzc_cnt_q ELSE lzc_cnt_d(answer)

\* The queues by identifier take a header in the cycle in which they give one.
not_full(queue, answer, ch) ==
    \/ Len(queue) < MaxTxns
    \/ MaxUniqueIds > 1 /\ pops(answer, ch) /\ ~is_atop_rsp(answer)

aw_valid(flit, answer) ==
    /\ flit.ch = "AW"
    /\ IF is_atop(flit.txn) THEN available_atop_ids(answer) # {}
       ELSE not_full(aw_queue, answer, "B")
aw_id(flit, answer) ==
    IF is_atop(flit.txn) THEN atop_req_id(answer) ELSE no_atop_req_id(flit.txn)

\* The writes that have left the link, and the first of them without its data.
\* The subordinate may take the data before it takes the AW.
Begun == writes \o aw_out_queue
FirstOpen == CHOOSE i \in DOMAIN Begun : /\ Begun[i].txn \notin data_done
                                         /\ \A j \in 1 .. i - 1 : Begun[j].txn \in data_done

\* The flit is taken off the link; ready is the subordinate's signal for AR and W.
Unbuffered == 0   \* mutant
SpillRegister == 2
taken(flit, ready, answer) ==
    CASE flit.ch = "AW" -> aw_valid(flit, answer) /\ Len(aw_out_queue) < SpillRegister
      [] flit.ch = "AR" -> ready /\ not_full(ar_queue, answer, "R")
      [] flit.ch = "W"  -> ready /\ \E i \in DOMAIN Begun : Begun[i].txn \notin data_done
      [] OTHER          -> FALSE

\* The place of a transaction at the subordinate.
Entry(entries, t) == CHOOSE i \in DOMAIN entries : entries[i].txn = t
NoOffer == [id |-> 0, txn |-> 0]

\* One cycle: flit waits on the link, the response link takes answer.
MetaCycle(flit, ready, answer) ==
    LET take == taken(flit, ready, answer)
        aw   == take /\ flit.ch = "AW"
        atop == aw /\ is_atop(flit.txn)
        New(out_id) == [id |-> out_id, txn |-> flit.txn]
        Done == IF take /\ flit.ch = "W" /\ flit.last THEN {Begun[FirstOpen].txn} ELSE {}
        Entered(reg, enters) == IF enters THEN [reg EXCEPT ![atop_req_id(answer)] = flit.txn] ELSE reg
    IN  /\ aw_queue' = Queue(aw_queue, answer, "B")
              \o IF aw /\ ~atop THEN <<New(no_atop_req_id(flit.txn))>> ELSE <<>>
        /\ ar_queue' = Queue(ar_queue, answer, "R")
              \o IF take /\ flit.ch = "AR" THEN <<New(no_atop_req_id(flit.txn))>> ELSE <<>>
        /\ aw_atop' = Entered(Registers(aw_atop, answer, "B"), atop)
        /\ ar_atop' = Entered(Registers(ar_atop, answer, "R"), atop /\ atop_has_r_rsp(flit.txn))
        /\ lzc_cnt_q' = IF atop_req_pending_q THEN lzc_cnt_q ELSE lzc_cnt_d(answer)
        /\ atop_req_pending_q' = (aw_valid(flit, answer) /\ is_atop(flit.txn) /\ ~take)
        /\ aw_out_queue' = aw_out_queue \o IF aw THEN <<New(aw_id(flit, answer))>> ELSE <<>>
        /\ aw_offer' = IF aw_valid(flit, answer) /\ ~take THEN New(aw_id(flit, answer)) ELSE NoOffer
        \* the subordinate
        /\ data_done' = (data_done \cup Done) \ (IF answer.ch = "B" THEN {answer.of} ELSE {})
        /\ writes' = IF answer.ch = "B" THEN RemoveAt(writes, Entry(writes, answer.of)) ELSE writes
        /\ LET i    == Entry(reads, answer.of)
               rest == IF answer.ch # "R" THEN reads
                       ELSE IF answer.last THEN RemoveAt(reads, i)
                       ELSE [reads EXCEPT ![i].left = @ - 1]
           IN  reads' = rest \o IF take /\ flit.ch = "AR"
                                THEN <<[id |-> no_atop_req_id(flit.txn), txn |-> flit.txn,
                                        left |-> txn[flit.txn].beats]>>
                                ELSE <<>>

\* The subordinate takes the next AW from the spill register.
TakeAw ==
    /\ aw_out_queue # <<>>
    /\ LET h == Head(aw_out_queue)
       IN  /\ writes' = Append(writes, h)
           /\ reads' = IF atop_has_r_rsp(h.txn)
                       THEN Append(reads, [id |-> h.id, txn |-> h.txn, left |-> 1]) ELSE reads
    /\ aw_out_queue' = Tail(aw_out_queue)
    /\ UNCHANGED <<txn, aw_queue, ar_queue, aw_atop, ar_atop, lzc_cnt_q, atop_req_pending_q,
                   aw_offer, data_done>>

MetaInit ==
    /\ aw_queue = <<>> /\ ar_queue = <<>> /\ aw_out_queue = <<>>
    /\ aw_atop = [i \in AtopIds |-> 0] /\ ar_atop = [i \in AtopIds |-> 0]
    /\ lzc_cnt_q = 0 /\ atop_req_pending_q = FALSE
    /\ writes = <<>> /\ reads = <<>>
    /\ aw_offer = NoOffer /\ data_done = {}

=============================================================================
