------------------------------ MODULE SimpleRob ------------------------------
(***************************************************************************)
(* hw/floo_simple_rob.sv (SimpleRoB): a FIFO-like reorder buffer.  Slots    *)
(* are handed out in the order of the requests, whatever their ID, and the  *)
(* beats are released in the order of the slots.                            *)
(*                                                                         *)
(* The SRAM word and the metadata of a slot are one beat (written together, *)
(* read at rob_addr_q).                                                     *)
(***************************************************************************)
EXTENDS RobPorts

CONSTANTS RoBSize,
          OnlyMetaData

Slots == 0 .. (RoBSize - 1)

IdxSpan == IdxRange(RoBSize)

ASSUME SimpleRobAssumption ==
    /\ RoBSize \in Nat \ {0, 1} /\ OnlyMetaData \in BOOLEAN
    /\ OnlyMetaData => BurstIds = {}
    /\ IdxSpan \in Nat /\ RoBSize <= IdxSpan

VARIABLES read_pointer_q, write_pointer_q, status_cnt_q, rsp_burst_cnt_q,
          rob_valid_q, rob_addr_q, rob_meta_q, rob_state_q, rsp_out_valid_q

buffer == <<read_pointer_q, write_pointer_q, status_cnt_q, rsp_burst_cnt_q,
            rob_valid_q, rob_addr_q, rob_meta_q, rob_state_q, rsp_out_valid_q>>
vars == <<buffer, ports>>

OneTooMany == RoBSize + 1 - status_cnt_q   \* mutant: off by one
free_entries == RoBSize - status_cnt_q
ax_len(len)  == IF OnlyMetaData THEN 1 ELSE len + 1

WrapLate(p) == IF p > RoBSize THEN p - RoBSize ELSE p   \* mutant: off by one
Wrap(p) == IF p >= RoBSize THEN p - RoBSize ELSE p

\* The Ax side; released: the response side frees a slot (0 or 1).
AxSide(released, net1, owed1) ==
    \/ /\ ax # NoAx /\ free_entries >= ax_len(ax.len)
       /\ AxHandshake(write_pointer_q, net1, owed1)
       /\ write_pointer_q' = Wrap(write_pointer_q + ax_len(ax.len))
       /\ status_cnt_q' = status_cnt_q + ax_len(ax.len) - released
    \/ /\ NoAxHandshake(net1, owed1)
       /\ UNCHANGED write_pointer_q
       /\ status_cnt_q' = status_cnt_q - released

\* Mutant: the beats of a response are stored in the slot after.
NextSlot == (rsp_tag + rsp_burst_cnt_q + 1) % IdxSpan

\* Addresses have $clog2(RoBSize) bits.
WriteAddr == (rsp_tag + rsp_burst_cnt_q) % IdxSpan

rsp_o == rob_meta_q[rob_addr_q]

NoRelease == given' = NoBeat /\ UNCHANGED read_pointer_q

\* RoBWrite, no response: the state is left when the next beat is there.  On
\* the B channel rsp_last_i is tied to 1, on the R channel it carries anything.
WriteIdle ==
    /\ rob_state_q = "RoBWrite" /\ rsp = NoRsp
    /\ \E last \in IF OnlyMetaData THEN {TRUE} ELSE BOOLEAN :
          LET leave == last /\ read_pointer_q \in rob_valid_q
          IN  /\ rob_state_q' = IF leave THEN "RoBRead" ELSE "RoBWrite"
              /\ rsp_burst_cnt_q' = IF leave THEN 0 ELSE rsp_burst_cnt_q
    /\ rob_addr_q' = 0 /\ rsp_out_valid_q' = FALSE
    /\ NoRelease
    /\ AxSide(0, net, owed) /\ KeepRsp
    /\ UNCHANGED <<rob_valid_q, rob_meta_q>>

\* RoBWrite: a response is stored.
Store ==
    /\ rob_state_q = "RoBWrite" /\ rsp # NoRsp
    /\ rob_valid_q' = rob_valid_q \cup {WriteAddr}
    /\ rob_meta_q' = [rob_meta_q EXCEPT ![WriteAddr] = rsp_i]
    /\ rob_addr_q' = WriteAddr /\ rsp_out_valid_q' = FALSE
    /\ rob_state_q' = IF rsp_i.last /\ read_pointer_q \in rob_valid_q'
                      THEN "RoBRead" ELSE "RoBWrite"
    /\ rsp_burst_cnt_q' = IF rsp_i.last THEN 0 ELSE rsp_burst_cnt_q + 1
    /\ NoRelease
    /\ AxSide(0, Consumed, owed) /\ NewRsp(Consumed)

\* Mutant: beats are released whether or not they are there.
ReadingAnyway == rob_state_q = "RoBRead"
Reading == rob_state_q = "RoBRead" /\ read_pointer_q \in rob_valid_q

\* RoBRead: the next beat is read and offered; the manager does not take it.
ReadWait ==
    /\ Reading
    /\ rob_addr_q' = read_pointer_q /\ rsp_out_valid_q' = TRUE
    /\ NoRelease
    /\ AxSide(0, net, owed) /\ KeepRsp
    /\ UNCHANGED <<rob_valid_q, rob_meta_q, rob_state_q, rsp_burst_cnt_q>>

\* RoBRead: the manager takes the beat, the next one is read.
ReadGive ==
    /\ Reading /\ rsp_out_valid_q
    /\ rob_valid_q' = rob_valid_q \ {read_pointer_q}
    /\ read_pointer_q' = Wrap(read_pointer_q + 1)
    /\ rob_addr_q' = read_pointer_q' /\ rsp_out_valid_q' = TRUE
    /\ given' = rsp_o
    /\ AxSide(1, net, Served(rsp_o)) /\ KeepRsp
    /\ UNCHANGED <<rob_meta_q, rob_state_q, rsp_burst_cnt_q>>

\* RoBRead: the next beat is not there.
ReadLeave ==
    /\ rob_state_q = "RoBRead" /\ read_pointer_q \notin rob_valid_q
    /\ rob_state_q' = "RoBWrite"
    /\ rob_addr_q' = 0 /\ rsp_out_valid_q' = FALSE
    /\ NoRelease
    /\ AxSide(0, net, owed) /\ KeepRsp
    /\ UNCHANGED <<rob_valid_q, rob_meta_q, rsp_burst_cnt_q>>

Init ==
    /\ read_pointer_q = 0 /\ write_pointer_q = 0 /\ status_cnt_q = 0
    /\ rsp_burst_cnt_q = 0 /\ rob_valid_q = {} /\ rob_addr_q = 0
    /\ rob_meta_q = [s \in Slots |-> NoBeat]
    /\ rob_state_q = "RoBWrite" /\ rsp_out_valid_q = FALSE
    /\ PortsInit

Next == WriteIdle \/ Store \/ ReadWait \/ ReadGive \/ ReadLeave

Spec == Init /\ [][Next]_vars

-----------------------------------------------------------------------------
(* Properties *)

\* Pointers, slots and the state machine stay within their types.
TypeOK ==
    /\ read_pointer_q \in Slots /\ write_pointer_q \in Slots
    /\ status_cnt_q \in 0 .. RoBSize
    /\ rob_valid_q \subseteq Slots /\ rob_addr_q \in Slots
    /\ rob_state_q \in {"RoBRead", "RoBWrite"}
    /\ ax \in Requests \cup {NoAx} /\ rsp \in Dests \cup {NoRsp}

\* The slots in use, in the order in which they were handed out.
InUse == {Wrap(read_pointer_q + k) : k \in 0 .. status_cnt_q - 1}

\* The slots handed out are the ones between the two pointers, and a beat is
\* stored, or will be, only in those: the buffer never overflows.
NoOverflow ==
    /\ write_pointer_q = Wrap(read_pointer_q + status_cnt_q)
    /\ rob_valid_q \subseteq InUse
    /\ \A d \in Dests : \A k \in DOMAIN net[d] :
          LET f == net[d][k]
              slot == Wrap(f.tag + f.beat.pos - 1)
          IN  slot \in InUse \ rob_valid_q

\* The slots in use never overflow, with pointers of their types.
SlotsSafe == TypeOK /\ NoOverflow

=============================================================================
