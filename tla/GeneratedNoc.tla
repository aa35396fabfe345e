---------------------------- MODULE GeneratedNoc ----------------------------
(***************************************************************************)
(* The hardware that a generated package and top module describe: the      *)
(* wires of the templates and the way of a flit along them, by the routing *)
(* of floo_route_select.sv.  N and info are as in RoutingInfo.             *)
(***************************************************************************)
EXTENDS RoutingInfo

\* logic [b-1:0]; for b = 0 that are the two bits [-1:0].
Width(bits) == IF bits = 0 THEN 2 ELSE bits
Bits(value, bits) == value % 2^Width(bits)

\* A coordinate as the templates write it, in the widths of id_t.
AsId(info, xy) ==
    LET c == Minus(xy, info.xy.xy_id_offset)
    IN  <<Bits(c[1], info.xy.num_x_bits), Bits(c[2], info.xy.num_y_bits)>>

\* The destination that an address, or an interface that is answered, stands
\* for: the route of source routing, or the identifier.  Without an address table
\* XY routing takes coordinates from bits of the address; the others have one.
DstOfId(N, info, from, id) ==
    IF N.net.algo = "SRC" THEN RoutingTables(N, info)[N.nis[from].uid][id] ELSE id
DstOfAddr(N, info, from, addr) ==
    LET zero == IF IsDor(N.net.algo) THEN <<0, 0>> ELSE 0
        cfg == RouteCfg(N.net, info)
        Slice(offset, bits) == Bits(addr \div 2^offset, bits)
    IN  IF N.net.table
        THEN DstOfId(N, info, from, Decode(info.sam, addr, N.net.protocols[1].addr, zero))
        ELSE <<Slice(cfg.XYAddrOffsetX, info.xy.num_x_bits),
               Slice(cfg.XYAddrOffsetY, info.xy.num_y_bits)>>
DstOfNi(N, info, from, to) ==
    DstOfId(N, info, from, IF IsDor(N.net.algo) THEN AsId(info, N.nis[to].id) ELSE N.nis[to].id)

\* gen_xy_routing and gen_yx_routing; the mirrored algorithms use the other one
\* for responses.
Dor(x_first, me, dst) ==
    LET horizontal == IF dst[1] < me[1] THEN West ELSE East
        vertical   == IF dst[2] < me[2] THEN South ELSE North
    IN  CASE dst = me -> Eject
          [] x_first  -> IF dst[1] = me[1] THEN vertical ELSE horizontal
          [] OTHER    -> IF dst[2] = me[2] THEN horizontal ELSE vertical
XFirst(algo, is_rsp) == algo \in {"XY", IF is_rsp THEN "YX_MIRRORED" ELSE "XY_MIRRORED"}

\* floo_route_select: the port, and the destination that the flit goes on with.
RouteSelect(N, info, rt, is_rsp, dst) ==
    LET sel == clog2(N.rts[rt].degree)
    IN  CASE N.net.algo = "ID"  -> <<Decode(info.tables[rt], Bits(dst, info.num_id_bits),
                                            Width(info.num_id_bits), 0), dst>>
          [] N.net.algo = "SRC" -> <<Bits(dst, sel), dst \div 2^sel>>
          [] OTHER -> <<Dor(XFirst(N.net.algo, is_rsp), AsId(info, N.rts[rt].id), dst), dst>>

\* The link that a router drives at a port: requests leave on the outgoing one,
\* responses against the incoming one.  The first component is the node driving
\* the wire, the second one the node reading it.
Driven(router, port, is_rsp) ==
    IF port \notin 0 .. router.degree - 1 THEN NoLink
    ELSE IF is_rsp THEN Reverse(router.incoming[port]) ELSE router.outgoing[port]
\* The port at which a router reads a wire.
ReadAt(router, wire, is_rsp) ==
    {p \in 0 .. router.degree - 1 :
        (IF is_rsp THEN router.outgoing[p] = Reverse(wire) ELSE router.incoming[p] = wire)}

\* The wires between an interface and the network.
NiDrives(ni, is_rsp) == IF is_rsp THEN Reverse(ni.sbr_link) ELSE ni.mgr_link
NiReads(ni, is_rsp)  == IF is_rsp THEN Reverse(ni.mgr_link) ELSE ni.sbr_link

\* The wires a flit visits on its way from an interface; it stops at a wire that
\* no router reads.
Way(N, info, from, is_rsp, dst) ==
    LET Step(f, k) ==
            LET rt == f.wire[2]
            IN  IF f.stop \/ rt \notin DOMAIN N.rts \/ ReadAt(N.rts[rt], f.wire, is_rsp) = {}
                THEN [f EXCEPT !.stop = TRUE]
                ELSE LET route == RouteSelect(N, info, rt, is_rsp, f.dst)
                         back == CHOOSE p \in ReadAt(N.rts[rt], f.wire, is_rsp) : TRUE
                         wire == Driven(N.rts[rt], route[1], is_rsp)
                     IN  IF wire = NoLink THEN [f EXCEPT !.stop = TRUE, !.lost = TRUE]
                         ELSE [f EXCEPT !.wire = wire, !.dst = route[2],
                                        !.lost = f.lost \/ back = route[1]]
    IN  FoldLeft(Step, [wire |-> NiDrives(N.nis[from], is_rsp), dst |-> dst,
                        stop |-> FALSE, lost |-> FALSE], Positions(Cardinality(DOMAIN N.rts) + 1))

\* A flit arrives at an interface: it stops at the wire that this one reads,
\* and no router sent it back where it came from.
Arrives(N, info, from, to, is_rsp, dst) ==
    LET f == Way(N, info, from, is_rsp, dst)
    IN  f.stop /\ ~f.lost /\ f.wire = NiReads(N.nis[to], is_rsp)

Managers(N) == {key \in Elements(NiSeq(N)) : IsMgrNi(N, key)}
Subordinates(N) == {key \in Elements(NiSeq(N)) : IsSbrNi(N, key)}

-----------------------------------------------------------------------------
(* Properties of a generated network *)

\* Every request of a manager, to the first and the last address of every range
\* of another endpoint, arrives at that endpoint and nowhere else.
RequestsArrive(N, info) ==
    \A a \in Managers(N) : \A b \in Subordinates(N) \ {a} :
       \A r \in Elements(N.nis[b].ranges) : \A addr \in {r.start, r.end - 1} :
          Arrives(N, info, a, b, FALSE, DstOfAddr(N, info, a, addr))

\* Every subordinate that a manager reaches can answer it: the response finds
\* its way back to the interface of the manager.
ResponsesArrive(N, info) ==
    \A a \in Managers(N) : \A b \in Subordinates(N) \ {a} :
       Arrives(N, info, b, a, TRUE, DstOfNi(N, info, b, a))

\* A wire is read at its other end.
IsRead(N, wire) ==
    IF wire[2] \in DOMAIN N.rts THEN ReadAt(N.rts[wire[2]], wire, FALSE) # {}
    ELSE N.nis[wire[2]].sbr_link = wire

\* Both ends of every link agree on it: the wires of routers and interfaces are
\* read, a wire has one driver, an interface reads a wire that has one, and the
\* two links at a port connect the same two nodes, so that a response
\* leaves by the port at which a request comes in.
WiresAgree(N) ==
    LET drivers == {<<rt, p>> \in UNION {{r} \X (0 .. N.rts[r].degree - 1) : r \in DOMAIN N.rts} :
                       N.rts[rt].outgoing[p] # NoLink}
        Wire(d) == N.rts[d[1]].outgoing[d[2]]
    IN  /\ \A d, e \in drivers : Wire(d) = Wire(e) => d = e
        /\ \A d \in drivers : Wire(d)[1] = d[1] /\ IsRead(N, Wire(d))
        /\ \A key \in DOMAIN N.nis : /\ IsRead(N, N.nis[key].mgr_link)
                                     /\ \E d \in drivers : Wire(d) = N.nis[key].sbr_link
        /\ \A rt \in DOMAIN N.rts : \A p \in 0 .. N.rts[rt].degree - 1 :
              N.rts[rt].incoming[p] = Reverse(N.rts[rt].outgoing[p])

=============================================================================
