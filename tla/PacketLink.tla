----------------------------- MODULE PacketLink -----------------------------
(***************************************************************************)
(* What the output of a wormhole arbiter promises (abstract specification): *)
(* a link carries the flits of one packet at a time.  A packet of some      *)
(* source starts on an idle link with a given number of flits, the link     *)
(* then belongs to that source, and only the source's next flits pass until *)
(* the last one frees the link.                                             *)
(***************************************************************************)
EXTENDS Integers

CONSTANTS Sources, MaxLen, NoOwner

VARIABLES owner,   \* the source whose packet is under way, or NoOwner
          rest     \* the number of flits its packet still has to send

link == <<owner, rest>>

Init == owner = NoOwner /\ rest = 0

\* The first flit of a packet of n flits.
Head(i, n) ==
    /\ owner = NoOwner
    /\ rest' = n - 1
    /\ owner' = IF n = 1 THEN NoOwner ELSE i

\* A later flit of the packet under way.
Body(i) ==
    /\ owner = i
    /\ rest' = rest - 1
    /\ owner' = IF rest = 1 THEN NoOwner ELSE i

Next == \E i \in Sources : Body(i) \/ \E n \in 1 .. MaxLen : Head(i, n)

Spec == Init /\ [][Next]_link

=============================================================================
