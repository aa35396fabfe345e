----------------------------- MODULE AxiChimney -----------------------------
(***************************************************************************)
(* Transactions from end to end: a manager at one network interface         *)
(* (hw/floo_axi_chimney.sv), a subordinate at another one (module           *)
(* MetaBuffer), and the links req and rsp between them, which keep the      *)
(* order of what they carry.                                               *)
(*                                                                         *)
(* The arbiters of the interface are as their abstract specification        *)
(* PacketLink; the reorder buffers keep their promise (InOrderResponses):   *)
(* here they may hold back one response per channel, or none (NoRoB).  The  *)
(* manager obeys AXI: an atomic has an identifier that no other transaction *)
(* in flight uses.                                                         *)
(***************************************************************************)
EXTENDS MetaBuffer

CONSTANTS
    Requests,       \* what the manager may ask for: [kind, id, beats]
    MaxRequests,    \* bound on the number of transactions
    MaxTxnsPerId,   \* non-atomic transactions in flight per identifier
    LinkDepth,      \* flits on a link
    Buffered        \* whether BRoBType and RRoBType are a buffer or NoRoB

ASSUME ChimneyAssumption ==
    /\ MaxRequests \in Nat /\ MaxTxnsPerId \in Nat /\ LinkDepth \in Nat
    /\ Buffered \in BOOLEAN
    /\ Requests \subseteq [kind : {"read", "write", "store", "load"}, id : Nat, beats : Nat \ {0}]
    /\ \A r \in Requests : r.kind = "load" => r.beats = 1

VARIABLES
    aw, ar,            \* the request offered on a channel, or 0
    w,                 \* the beats of write data not yet sent, by transaction
    aw_w_sel_q,        \* what the AXI write channels may send next
    axi_aw_id_q,       \* the write whose destination the data goes to
    req_arb,           \* the channel whose packet is on the request link
    req_link, rsp_link,
    rob,               \* the response that a reorder buffer holds, or NoFlit
    rob_pending_q,     \* the channels in which its response waits
    packet,            \* history: the write whose packet is under way, or 0
    got                \* history: the responses given to the manager

chimney == <<aw, ar, w, aw_w_sel_q, axi_aw_id_q, req_arb, packet>>
links   == <<req_link, rsp_link>>
returns == <<rob, rob_pending_q, got>>
vars    == <<txn, meta, chimney, links, returns>>

NoFlit == [ch |-> "none"]
RspChannels == {"B", "R"}
HasB(t) == txn[t].kind # "read"
HasR(t) == txn[t].kind \in {"read", "load"}

-----------------------------------------------------------------------------
(* The manager issues requests *)

Answered(t) == /\ HasB(t) => got[t].B = 1
               /\ HasR(t) => got[t].R = txn[t].beats
InFlight == {t \in DOMAIN txn : ~Answered(t)}

Issue(r) ==
    /\ Len(txn) < MaxRequests
    /\ IF r.kind = "read" THEN ar = 0 ELSE aw = 0
    /\ \A t \in InFlight : txn[t].id = r.id => r.kind \in {"read", "write"} /\ ~is_atop(t)
    /\ txn' = Append(txn, r)
    /\ got' = Append(got, [B |-> 0, R |-> 0])
    /\ LET t == Len(txn) + 1
       IN  IF r.kind = "read" THEN ar' = t /\ UNCHANGED <<aw, w>>
           ELSE aw' = t /\ w' = w \o [b \in 1 .. r.beats |-> t] /\ UNCHANGED ar
    /\ UNCHANGED <<meta, aw_w_sel_q, axi_aw_id_q, req_arb, packet, links,
                   rob, rob_pending_q>>

-----------------------------------------------------------------------------
(* The request link *)

\* The reorder buffers admit a request while its identifier has a counter left.
Admitted(t) ==
    Cardinality({u \in InFlight : u < t /\ txn[u].id = txn[t].id
                                  /\ (txn[u].kind = "read") = (txn[t].kind = "read")}) < MaxTxnsPerId

\* A flit of a channel passes the arbiter.
Send(ch, flit) ==
    /\ req_arb \in {"none", ch}
    /\ Len(req_link) < LinkDepth
    /\ req_link' = Append(req_link, flit)
    /\ req_arb' = IF flit.last THEN "none" ELSE ch

SendAr ==
    /\ ar # 0 /\ Admitted(ar)
    /\ Send("AR", [ch |-> "AR", txn |-> ar, of |-> ar, last |-> TRUE])
    /\ ar' = 0
    /\ UNCHANGED <<txn, meta, aw, w, aw_w_sel_q, axi_aw_id_q, packet, rsp_link, returns>>

\* Atomics bypass the reorder buffer.
SendAw ==
    /\ aw_w_sel_q = "SelAw"
    /\ aw # 0 /\ (is_atop(aw) \/ Admitted(aw))
    /\ Send("W", [ch |-> "AW", txn |-> aw, of |-> aw, last |-> FALSE])
    /\ aw' = 0
    /\ aw_w_sel_q' = "SelW"
    /\ axi_aw_id_q' = aw
    /\ packet' = aw
    /\ UNCHANGED <<txn, meta, ar, w, rsp_link, returns>>

\* Mutant: every beat releases the lock.
EveryBeat == TRUE

w_last == Len(w) = 1 \/ w[2] # w[1]

SendW ==
    /\ aw_w_sel_q = "SelW"
    /\ w # <<>>
    /\ Send("W", [ch |-> "W", txn |-> axi_aw_id_q, of |-> w[1], last |-> w_last])
    /\ w' = Tail(w)
    /\ aw_w_sel_q' = IF w_last THEN "SelAw" ELSE "SelW"
    /\ packet' = IF w_last THEN 0 ELSE packet
    /\ UNCHANGED <<txn, meta, aw, ar, axi_aw_id_q, rsp_link, returns>>

-----------------------------------------------------------------------------
(* The subordinate's end *)

AtHead(link) == IF link = <<>> THEN NoFlit ELSE Head(link)

\* A cycle of the meta buffer; the response link takes one answer at most.
Serve(ready, answer) ==
    LET flit == AtHead(req_link)
    IN  /\ answer = NoAnswer \/ Len(rsp_link) < LinkDepth
        /\ MetaCycle(flit, ready, answer)
        /\ req_link' = IF taken(flit, ready, answer) THEN Tail(req_link) ELSE req_link
        /\ rsp_link' = IF answer = NoAnswer THEN rsp_link
                       ELSE Append(rsp_link, [ch |-> answer.ch, txn |-> header(answer),
                                              of |-> answer.of, last |-> answer.last])
        /\ UNCHANGED <<txn, chimney, returns>>

Accept == TakeAw /\ UNCHANGED <<chimney, links, returns>>

-----------------------------------------------------------------------------
(* The manager's end of the response link; ready are the channels in which the *)
(* manager is ready, store tells that the reorder buffer keeps the response.   *)

rsp == AtHead(rsp_link)
valid_in(ch)     == rsp.ch = ch
is_atop_rsp_in(ch) == valid_in(ch) /\ is_atop(rsp.txn)
sel_atop(ch)     == is_atop_rsp_in(ch) /\ ch \notin rob_pending_q
rob_valid_in(ch) == valid_in(ch) /\ ~is_atop_rsp_in(ch)
rob_valid_out(ch, store) == rob[ch] # NoFlit \/ (rob_valid_in(ch) /\ ~store)
rob_ready_in(ch, ready)  == ch \in ready /\ ~sel_atop(ch)
rob_ready_out(ch, ready, store) ==
    rob[ch] = NoFlit /\ IF store /\ rob_valid_in(ch) THEN TRUE ELSE rob_ready_in(ch, ready)

\* axi_rsp_out: what the manager is offered.
rsp_out(ch, store) ==
    IF sel_atop(ch) THEN rsp
    ELSE IF rob[ch] # NoFlit THEN rob[ch]
    ELSE IF rob_valid_in(ch) /\ ~store THEN rsp ELSE NoFlit

Given(ready, store) == {ch \in ready : rsp_out(ch, store) # NoFlit}

Return(ready, store) ==
    /\ store => \E ch \in RspChannels : Buffered /\ rob_valid_in(ch) /\ rob[ch] = NoFlit
    /\ got' = [t \in DOMAIN got |-> [ch \in RspChannels |->
                 got[t][ch] + Cardinality({c \in Given(ready, store) \cap {ch} : rsp_out(c, store).txn = t})]]
    /\ rob' = [ch \in RspChannels |->
                 IF rob[ch] # NoFlit THEN IF rob_ready_in(ch, ready) THEN NoFlit ELSE rob[ch]
                 ELSE IF store /\ rob_valid_in(ch) THEN rsp ELSE NoFlit]
    /\ rob_pending_q' = {ch \in RspChannels : /\ rob_valid_out(ch, store)
                                             /\ ~rob_ready_in(ch, ready)
                                             /\ ~is_atop_rsp_in(ch)}
    /\ rsp_link' = IF \E ch \in RspChannels : valid_in(ch) /\
                         (rob_ready_out(ch, ready, store) \/ (sel_atop(ch) /\ ch \in ready))
                   THEN Tail(rsp_link) ELSE rsp_link
    /\ UNCHANGED <<txn, meta, chimney, req_link>>

-----------------------------------------------------------------------------
Init ==
    /\ txn = <<>> /\ got = <<>>
    /\ MetaInit
    /\ aw = 0 /\ ar = 0 /\ w = <<>>
    /\ aw_w_sel_q = "SelAw" /\ axi_aw_id_q = 0
    /\ req_arb = "none" /\ packet = 0
    /\ req_link = <<>> /\ rsp_link = <<>>
    /\ rob = [ch \in RspChannels |-> NoFlit]
    /\ rob_pending_q = {}

Next ==
    \/ \E r \in Requests : Issue(r)
    \/ SendAr \/ SendAw \/ SendW
    \/ \E ready \in BOOLEAN, answer \in Answers \cup {NoAnswer} : Serve(ready, answer)
    \/ Accept
    \/ \E ready \in SUBSET RspChannels, store \in BOOLEAN : Return(ready, store)

Spec == Init /\ [][Next]_vars

\* The flit at the end of the request link is taken.
Take == taken(AtHead(req_link), TRUE, NoAnswer) /\ Serve(TRUE, NoAnswer)
\* The subordinate accepts an AW at the latest when data is offered with it, or
\* when it has all of it.
AcceptWithData ==
    /\ AtHead(req_link).ch = "W" \/ (aw_out_queue # <<>> /\ Head(aw_out_queue).txn \in data_done)
    /\ Accept

\* The links deliver, the subordinate accepts and answers, the manager takes
\* responses.
Fairness ==
    /\ WF_vars(SendAr) /\ WF_vars(SendAw) /\ WF_vars(SendW)
    /\ WF_vars(Take) /\ WF_vars(AcceptWithData)
    /\ WF_vars(\E answer \in Answers : Serve(FALSE, answer))
    /\ WF_vars(Return(RspChannels, FALSE))

FairSpec == Spec /\ Fairness

-----------------------------------------------------------------------------
(* Properties *)

\* A write is one packet on the request link: between its AW and its last beat
\* nothing else passes, the data has the destination of its own AW, and at the
\* other end it meets the write it belongs to.
WritesArePackets ==
    [][/\ Len(req_link') > Len(req_link) =>
             LET f == req_link'[Len(req_link')]
             IN  IF packet = 0 THEN f.ch # "W"
                 ELSE f.ch = "W" /\ f.txn = packet /\ f.of = packet
       /\ Len(req_link') < Len(req_link) /\ AtHead(req_link).ch = "W" =>
             \E i \in DOMAIN Begun : /\ Begun[i].txn = AtHead(req_link).of
                                     /\ \A j \in DOMAIN Begun : Begun[j].txn \notin data_done => i <= j
      ]_vars

\* Every response returns with the header of the request that it answers, no
\* more responses are given than asked for, and those of one identifier come in
\* the order of the requests, atomics and reorder buffers notwithstanding.
Owed(t, ch) == IF ch = "B" THEN IF HasB(t) THEN 1 ELSE 0
               ELSE IF HasR(t) THEN txn[t].beats ELSE 0
AnswersReturn ==
    /\ \A i \in DOMAIN rsp_link : rsp_link[i].txn = rsp_link[i].of
    /\ \A t \in DOMAIN txn, ch \in RspChannels : got[t][ch] <= Owed(t, ch)
    /\ \A t, u \in DOMAIN txn, ch \in RspChannels :
          t < u /\ txn[t].id = txn[u].id /\ ~is_atop(t) /\ ~is_atop(u) /\ got[u][ch] > 0
             => got[t][ch] = Owed(t, ch)

\* "Atomic Transactions are issued with `txnID` that are unique amongst all AXI
\* transactions in flight" (docs/floonoc/chimneys.md), on the subordinate's port.
AtPort == ToSet(aw_out_queue) \cup ToSet(writes) \cup ToSet(reads)
AtomicIdsUnique ==
    \A e, f \in AtPort : e.txn # f.txn /\ is_atop(e.txn) => e.id # f.id

\* An AW that waits for the spill register is offered to it, unchanged, until it is
\* taken: AXI asks for it, and an atomic's identifier must not change when others
\* become free (atop_req_pending_q in hw/floo_meta_buffer.sv).
StalledRequestsStay ==
    [][aw_offer # NoOffer =>
          \/ aw_offer' = aw_offer
          \/ aw_offer' = NoOffer /\ aw_out_queue' = Append(aw_out_queue, aw_offer)]_vars

\* Every transaction is answered, also when the subordinate accepts no AW before
\* its data (comment of i_aw_out_queue in hw/floo_axi_chimney.sv), and when
\* identifiers, queues and links are exhausted.
EveryRequestAnswered == []<>(InFlight = {})

\* A response of a reorder buffer that the manager was offered and has not taken
\* is not displaced by an atomic's (AXI, and the purpose of b_rob_pending_q).
\* It fails with a buffer, because the flag is cleared by the atomic.
OffersStay ==
    [][\A ch \in RspChannels :
          rob[ch] # NoFlit /\ rob'[ch] = rob[ch] /\ ch \in rob_pending_q => ~sel_atop(ch)']_vars

=============================================================================
