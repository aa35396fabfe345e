--------------------------------- MODULE Rob ---------------------------------
(***************************************************************************)
(* hw/floo_rob.sv (NormalRoB): the table-based reorder buffer of a network  *)
(* interface, with its status table floo_rob_status_table.                  *)
(*                                                                         *)
(* Registers keep the names of the code; a vector of flags is the set of    *)
(* the indices whose flag is set.  A step is one clock cycle: a response    *)
(* action (what the always_comb block does in the state RoBRead or          *)
(* RoBWrite) together with what the Ax side does in the same cycle.         *)
(*                                                                         *)
(* Data is abstracted to beats: the id, the number of the request it        *)
(* answers, its position and its last flag.  The SRAM word and the metadata *)
(* of a slot are one beat (both are written together; when the output is    *)
(* valid the SRAM's output register holds the word at rob_addr_q).          *)
(*                                                                         *)
(* The ports and their environment are those of RobPorts.                   *)
(***************************************************************************)
EXTENDS RobPorts

CONSTANTS RoBSize, MaxRoTxnsPerId,
          OnlyMetaData       \* B channel: no SRAM

UsageSpan == IdxRange(MaxRoTxnsPerId)
IdxSpan   == IdxRange(RoBSize)

ASSUME RobAssumption ==
    /\ RoBSize \in Nat \ {0, 1} /\ MaxRoTxnsPerId \in Nat \ {0, 1}
    /\ OnlyMetaData \in BOOLEAN
    /\ OnlyMetaData => BurstIds = {}
    /\ UsageSpan \in Nat /\ MaxRoTxnsPerId <= UsageSpan
    /\ IdxSpan \in Nat /\ RoBSize <= IdxSpan

Slots == 0 .. (RoBSize - 1)
NoId  == -1

VARIABLES
    st_fifo, ax_rob_req_q, prev_dest_q,                  \* status table
    rob_state_q, rob_valid_q, rob_alloc_q, rob_meta_q,   \* reorder buffer
    rob_addr_q, rsp_out_valid_q, st_rob_peek_id_q,
    read_rob_idx_offset_q, write_rob_idx_offset_q

table == <<st_fifo, ax_rob_req_q, prev_dest_q>>
buffer == <<rob_state_q, rob_valid_q, rob_alloc_q, rob_meta_q, rob_addr_q,
            rsp_out_valid_q, st_rob_peek_id_q, read_rob_idx_offset_q,
            write_rob_idx_offset_q>>
vars == <<table, buffer, ports>>

-----------------------------------------------------------------------------
(* The status table: a FIFO of [rob_req, rob_idx] per ID *)

\* cc_fifo's usage output has $clog2(Depth) bits: a full FIFO reads as empty.
FifoUsage(id) == Len(st_fifo[id]) % UsageSpan

st_ax_gnt(id) == Len(st_fifo[id]) < MaxRoTxnsPerId

st_peek_valid == /\ st_fifo[st_rob_peek_id_q] # <<>>
                 /\ Head(st_fifo[st_rob_peek_id_q]).rob_req
st_peek_rob_idx == Head(st_fifo[st_rob_peek_id_q]).rob_idx

\* Mutant: a request to the destination of the one before never needs a slot.
NeedsSlotUnlessSameDest(id, dest) ==
    (ax_rob_req_q[id] \/ FifoUsage(id) # 0) /\ prev_dest_q[id] # dest

\* The first request of an ID, and those to the destination of the one before,
\* need no slot; all others do until the ID has no request left.
ax_rob_req(id, dest) ==
    /\ ax_rob_req_q[id] \/ FifoUsage(id) # 0
    /\ ax_rob_req_q[id] \/ prev_dest_q[id] # dest

-----------------------------------------------------------------------------
(* Allocation: the slots above the highest allocated one are free *)

\* Mutant: the slot of the highest flag counts as free.
CountsTopFlag ==
    IF rob_alloc_q = {} THEN RoBSize - 1
    ELSE CHOOSE n \in 1 .. RoBSize :
            /\ RoBSize - n \in rob_alloc_q
            /\ \A s \in rob_alloc_q : s <= RoBSize - n

\* cc_lzc counts the leading zeroes, and returns RoBSize - 1 when all are zero.
rob_free_space ==
    IF rob_alloc_q = {} THEN RoBSize - 1
    ELSE CHOOSE n \in 0 .. RoBSize - 1 :
            /\ RoBSize - 1 - n \in rob_alloc_q
            /\ \A s \in rob_alloc_q : s <= RoBSize - 1 - n

RobIdx(n) == n % IdxSpan

rob_next_free_idx == RobIdx(RoBSize - rob_free_space)

FirstSlot(len) == rob_next_free_idx   \* mutant: the first slot is flagged

\* Only the last slot of a request is flagged.
LastSlot(len) == RobIdx(rob_next_free_idx + len)

\* The request leaves for the network if its ID has room in the table and, when
\* it needs slots, they are free.
ax_valid_o ==
    /\ ax # NoAx
    /\ st_ax_gnt(ax.id)
    /\ ax_rob_req(ax.id, ax.dest) => rob_free_space > ax.len

NeverCleared(seen, pushed, popped) == FALSE   \* mutant

\* The last request of an ID completes and no other is pushed in the cycle.
Cleared(seen, pushed, popped) ==
    /\ FifoUsage(popped) = 1
    /\ ~ (pushed /\ popped = seen.id)

\* What the status table and the allocation do in a cycle.  seen: the request
\* on the Ax inputs (the table looks at it even when it is not valid); pushed:
\* it is handed to the network; popped: the ID whose oldest request completes,
\* or NoId; unset: the allocated flags the response side clears.
Table(seen, pushed, popped, unset) ==
    LET need    == ax_rob_req(seen.id, seen.dest)
        entry   == [rob_req |-> need, rob_idx |-> rob_next_free_idx]
    IN  /\ st_fifo' = [id \in Ids |->
              (IF id = popped THEN Tail(st_fifo[id]) ELSE st_fifo[id])
              \o (IF pushed /\ id = seen.id THEN <<entry>> ELSE <<>>)]
        /\ ax_rob_req_q' = [id \in Ids |->
              /\ ax_rob_req_q[id] \/ (id = seen.id /\ need)
              /\ ~ (id = popped /\ Cleared(seen, pushed, popped))]
        /\ prev_dest_q' = IF pushed
                          THEN [prev_dest_q EXCEPT ![seen.id] = seen.dest]
                          ELSE prev_dest_q
        /\ rob_alloc_q' = (rob_alloc_q \ unset) \cup
              (IF pushed /\ need
               THEN {LastSlot(seen.len)} ELSE {})

\* The Ax side of a cycle in which the response side completes popped, clears
\* unset, and leaves net1 and owed1.
AxSide(popped, unset, net1, owed1) ==
    \/ /\ ax_valid_o                                    \* and ax_ready_i
       /\ AxHandshake([rob_req |-> ax_rob_req(ax.id, ax.dest),
                       rob_idx |-> rob_next_free_idx], net1, owed1)
       /\ Table(ax, TRUE, popped, unset)
    \/ /\ NoAxHandshake(net1, owed1)
       /\ \E seen \in IF ax = NoAx THEN [id : Ids, dest : Dests] ELSE {ax} :
             Table(seen, FALSE, popped, unset)

-----------------------------------------------------------------------------
(* Responses *)

ReadAddr  == RobIdx(st_peek_rob_idx + read_rob_idx_offset_q[st_rob_peek_id_q])
WriteAddr == RobIdx(rsp_tag.rob_idx + write_rob_idx_offset_q[rsp_i.id])

\* Mutant: the offset of the ID under release is forgotten.
FirstBeatWaits == st_peek_valid /\ st_peek_rob_idx \in rob_valid_q
\* Mutant: an oldest request without a slot is taken for one with a slot.
AnyPeek == st_fifo[st_rob_peek_id_q] # <<>> /\ ReadAddr \in rob_valid_q

\* The next beat of the peeked ID waits in the buffer.
Releasable == st_peek_valid /\ ReadAddr \in rob_valid_q

\* The manager samples, in the cycle of its handshake: on the R channel the
\* word read in the cycle before, on the B channel the entry rob_addr selects,
\* after the increment of the same cycle.
rsp_o == rob_meta_q[IF OnlyMetaData THEN RobIdx(ReadAddr + 1) ELSE rob_addr_q]

is_last_rsp_in_rob == OnlyMetaData \/ rob_meta_q[rob_addr_q].last

Advance(offset, id, last) ==
    [offset EXCEPT ![id] = IF last THEN 0 ELSE RobIdx(@ + 1)]

\* No response is taken from the network.
NotTaken(popped, unset, owed1) ==
    /\ AxSide(popped, unset, net, owed1)
    /\ KeepRsp
    /\ UNCHANGED <<rob_meta_q, st_rob_peek_id_q, write_rob_idx_offset_q>>

\* RoBRead: the next beat is read and offered; the manager does not take it.
ReadWait ==
    /\ rob_state_q = "RoBRead" /\ Releasable
    /\ rsp_out_valid_q' = TRUE /\ rob_addr_q' = ReadAddr
    /\ given' = NoBeat
    /\ NotTaken(NoId, {}, owed)
    /\ UNCHANGED <<rob_state_q, rob_valid_q, read_rob_idx_offset_q>>

\* RoBRead: the manager takes the beat.
ReadGive ==
    LET last == is_last_rsp_in_rob
    IN  /\ rob_state_q = "RoBRead" /\ Releasable /\ rsp_out_valid_q
        /\ rob_valid_q' = rob_valid_q \ {ReadAddr}
        /\ rob_addr_q' = RobIdx(ReadAddr + 1)
        /\ rsp_out_valid_q' = ~last
        /\ read_rob_idx_offset_q' =
              Advance(read_rob_idx_offset_q, st_rob_peek_id_q, last)
        /\ given' = rsp_o
        /\ NotTaken(IF last THEN st_rob_peek_id_q ELSE NoId, {ReadAddr},
                    Served(rsp_o))
        /\ UNCHANGED rob_state_q

\* RoBRead: nothing to release.  (rob_addr_q is looked at only after a cycle
\* of ReadWait or ReadGive; other cycles leave it 0 here.)
ReadLeave ==
    /\ rob_state_q = "RoBRead" /\ ~Releasable
    /\ rob_state_q' = "RoBWrite"
    /\ rob_addr_q' = 0
    /\ given' = NoBeat
    /\ NotTaken(NoId, {}, owed)
    /\ UNCHANGED <<rob_valid_q, rsp_out_valid_q, read_rob_idx_offset_q>>

\* RoBWrite: a stored beat can be released, which comes first.
EnterRead ==
    /\ rob_state_q = "RoBWrite" /\ Releasable
    /\ rob_state_q' = "RoBRead"
    /\ rob_addr_q' = 0 /\ rsp_out_valid_q' = FALSE
    /\ given' = NoBeat
    /\ NotTaken(NoId, {}, owed)
    /\ UNCHANGED <<rob_valid_q, read_rob_idx_offset_q>>

\* The response may go straight to the manager: it needs no slot, or it is the
\* oldest of its ID.
Direct  == ~ rsp_tag.rob_req
InOrder == /\ rsp_tag.rob_req
           /\ LET st == Head(st_fifo[rsp_i.id])
              IN  st.rob_req /\ st.rob_idx = rsp_tag.rob_idx

Writing == rob_state_q = "RoBWrite" /\ ~Releasable

\* RoBWrite: no response, or one that the manager does not take.
WriteWait ==
    /\ Writing
    /\ rsp # NoRsp => Direct \/ InOrder
    /\ rob_addr_q' = 0 /\ rsp_out_valid_q' = FALSE
    /\ given' = NoBeat
    /\ NotTaken(NoId, {}, owed)
    /\ UNCHANGED <<rob_state_q, rob_valid_q, read_rob_idx_offset_q>>

\* A response is taken from the network.
Taken(popped, unset, owed1) ==
    /\ AxSide(popped, unset, Consumed, owed1)
    /\ NewRsp(Consumed)
    /\ st_rob_peek_id_q' = rsp_i.id
    /\ rob_addr_q' = 0 /\ rsp_out_valid_q' = FALSE
    /\ UNCHANGED <<rob_state_q, read_rob_idx_offset_q>>

Forwarded(unset) ==
    /\ given' = rsp_i
    /\ Taken(IF rsp_i.last THEN rsp_i.id ELSE NoId, unset, Served(rsp_i))
    /\ UNCHANGED <<rob_valid_q, rob_meta_q>>

\* RoBWrite: a response that needs no slot goes to the manager.
ForwardDirect ==
    /\ Writing /\ rsp # NoRsp /\ Direct
    /\ Forwarded({})
    /\ UNCHANGED write_rob_idx_offset_q

\* RoBWrite: a response in order goes to the manager.
ForwardInOrder ==
    /\ Writing /\ rsp # NoRsp /\ InOrder
    /\ Forwarded({WriteAddr})
    /\ write_rob_idx_offset_q' =
          Advance(write_rob_idx_offset_q, rsp_i.id, rsp_i.last)

\* RoBWrite: a response out of order is stored.
Store ==
    /\ Writing /\ rsp # NoRsp /\ ~Direct /\ ~InOrder
    /\ rob_valid_q' = rob_valid_q \cup {WriteAddr}
    /\ rob_meta_q' = [rob_meta_q EXCEPT ![WriteAddr] = rsp_i]
    /\ write_rob_idx_offset_q' =
          Advance(write_rob_idx_offset_q, rsp_i.id, rsp_i.last)
    /\ given' = NoBeat
    /\ Taken(NoId, {}, owed)

Init ==
    /\ st_fifo = [id \in Ids |-> <<>>]
    /\ ax_rob_req_q = [id \in Ids |-> FALSE]
    /\ prev_dest_q \in {[id \in Ids |-> d] : d \in Dests}   \* reset value '0
    /\ rob_state_q = "RoBRead"
    /\ rob_valid_q = {} /\ rob_alloc_q = {}
    /\ rob_meta_q = [s \in Slots |-> NoBeat]
    /\ rob_addr_q = 0 /\ rsp_out_valid_q = FALSE /\ st_rob_peek_id_q = 0
    /\ read_rob_idx_offset_q = [id \in Ids |-> 0]
    /\ write_rob_idx_offset_q = [id \in Ids |-> 0]
    /\ PortsInit

Next ==
    \/ ReadWait \/ ReadGive \/ ReadLeave
    \/ EnterRead \/ WriteWait
    \/ ForwardDirect \/ ForwardInOrder \/ Store

Spec == Init /\ [][Next]_vars

\* The manager takes what is offered, the network takes requests and brings
\* the answer of every destination.
Fairness ==
    /\ WF_vars(Next)
    /\ WF_vars(ReadGive) /\ WF_vars(ForwardDirect \/ ForwardInOrder)
    /\ WF_vars(ax # NoAx /\ Next /\ issued' # issued)
    /\ \A d \in Dests : SF_vars(rsp = NoRsp /\ net[d] # <<>> /\ Next /\ rsp' = d)

FairSpec == Spec /\ Fairness

-----------------------------------------------------------------------------
(* Properties *)

\* Registers and queues hold values of their types.
TypeOK ==
    /\ \A id \in Ids : Len(st_fifo[id]) <= MaxRoTxnsPerId
    /\ rob_state_q \in {"RoBRead", "RoBWrite"}
    /\ rob_valid_q \subseteq Slots /\ rob_alloc_q \subseteq Slots
    /\ rob_addr_q \in 0 .. IdxSpan - 1 /\ st_rob_peek_id_q \in Ids
    /\ read_rob_idx_offset_q \in [Ids -> UNION {0 .. len : len \in Lens}]
    /\ write_rob_idx_offset_q \in [Ids -> UNION {0 .. len : len \in Lens}]
    /\ rsp \in Dests \cup {NoRsp}

\* A beat is never stored over one that still waits to be released.
NoOverwrite ==
    Writing /\ rsp # NoRsp /\ ~Direct /\ ~InOrder => WriteAddr \notin rob_valid_q

\* The flag of a response's last slot keeps all its slots reserved: beats still
\* to come never fall into the space that is handed out next.
ComingBeats == UNION {{net[d][k] : k \in DOMAIN net[d]} : d \in Dests}
Reserved ==
    \A f \in ComingBeats : f.tag.rob_req =>
       \E s \in rob_alloc_q : f.tag.rob_idx + f.beat.pos - 1 <= s

\* The slots are safe: neither overwritten nor handed out while beats for them
\* are still to come, with pointers and flags of their types.
SlotsSafe == TypeOK /\ NoOverwrite /\ Reserved

=============================================================================
