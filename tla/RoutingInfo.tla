----------------------------- MODULE RoutingInfo -----------------------------
(***************************************************************************)
(* What gen_routing_info derives from a compiled network (network.py and   *)
(* the Routing class of routing.py), and the parts of the package that are *)
(* computed from it: identifiers, address map, tables and routes.          *)
(*                                                                         *)
(* networkx promises a shortest path and not which of several; the model   *)
(* takes, with `last`, the last or the first of the neighbours that are    *)
(* nearer to the target.                                                   *)
(***************************************************************************)
EXTENDS Network, FiniteSetsExt

\* The nodes within k hops of a target, for k = 0, 1, ...
Rings(g, target) ==
    FoldLeft(LAMBDA rings, k :
                Append(rings, Last(rings) \cup
                    {e.src : e \in {f \in Elements(g.edges) : f.dst \in Last(rings)}}),
             <<{target}>>, Positions(Len(g.nodes)))
Hops(rings, key) == CHOOSE k \in DOMAIN rings : key \in rings[k]
                                     /\ \A j \in 1 .. k - 1 : key \notin rings[j]
Reaches(rings, key) == key \in Last(rings)

\* The next node of a shortest path.
NextHop(g, rings, key, last) ==
    LET succ == SelectSeq(g.edges, LAMBDA e : e.src = key)
        near == SelectSeq(succ, LAMBDA e : /\ Reaches(rings, e.dst)
                                           /\ Hops(rings, e.dst) < Hops(rings, key))
    IN  (IF last THEN Last(near) ELSE Head(near)).dst

\* rt.outgoing.index
PortOf(router, link) == CHOOSE k \in DOMAIN router.outgoing : router.outgoing[k] = link

-----------------------------------------------------------------------------
(* gen_routing_info, one operator for each method it calls.  N holds the   *)
(* description net, the graph g, the interfaces nis and the routers rts;   *)
(* a failure is an exception.                                              *)

NiSeq(N)  == NodesOf(N.g, "network_interface")
SbrSeq(N) == SelectSeq(NiSeq(N), LAMBDA key : IsSbr(DescOf(N.net, N.g, key)))
IsMgrNi(N, key) == IsMgr(DescOf(N.net, N.g, key))
IsSbrNi(N, key) == IsSbr(DescOf(N.net, N.g, key))

\* gen_xy_routing_info.  The coordinates are those of the interfaces only; every
\* subordinate needs an address range.
XyInfo(N) ==
    LET xs == {N.nis[key].id[1] : key \in Elements(NiSeq(N))}
        ys == {N.nis[key].id[2] : key \in Elements(NiSeq(N))}
        ends == {r.end : r \in UNION {Elements(N.nis[key].ranges) : key \in Elements(SbrSeq(N))}}
    IN  IF ends = {} \/ \E key \in Elements(SbrSeq(N)) : N.nis[key].ranges = <<>>
        THEN Error("ValueError")
        ELSE [num_x_bits |-> clog2(Max(xs) - Min(xs) + 1),
              num_y_bits |-> clog2(Max(ys) - Min(ys) + 1),
              addr_offset_bits |-> clog2(Max(ends)), xy_id_offset |-> <<Min(xs), Min(ys)>>]

\* Mutant: the offset of the coordinates is not subtracted.
SamWithoutOffset(N, offset) ==
    FlattenSeq([k \in DOMAIN SbrSeq(N) |->
        LET key == Reverse(SbrSeq(N))[k]
        IN  [j \in DOMAIN N.nis[key].ranges |-> Rule(N.nis[key].id, N.nis[key].ranges[j], <<key.n, j>>)]])

\* gen_sam: the rules of the last subordinate come first.
GenSam(N, offset) ==
    LET Dest(key) == IF offset = <<>> THEN N.nis[key].id ELSE Minus(N.nis[key].id, offset)
        Rules(key) == [j \in DOMAIN N.nis[key].ranges |->
                          Rule(Dest(key), N.nis[key].ranges[j], <<key.n, j>>)]
        nis == Reverse(SbrSeq(N))
    IN  FlattenSeq([k \in DOMAIN nis |-> Rules(nis[k])])

\* The system address map and the widths; the offset is applied to the address
\* map here and to the routers and interfaces when they are rendered.
SamAndWidths(N) ==
    LET dor == IsDor(N.net.algo)
        xy == IF dor THEN XyInfo(N) ELSE [xy_id_offset |-> <<>>, num_x_bits |-> None,
                                          num_y_bits |-> None, addr_offset_bits |-> None]
    IN  IF NiSeq(N) = <<>> THEN Error("ValueError")
        ELSE IF Failed(xy) THEN xy
        ELSE LET sam == GenSam(N, xy.xy_id_offset)
             IN  IF Overlapping(sam) THEN Error("exception")
                 ELSE [sam |-> sam, xy |-> xy, num_endpoints |-> Len(NiSeq(N)),
                       num_id_bits |-> clog2(Len(NiSeq(N)))]

\* gen_router_tables: rules for the subordinates.
RouterTable(N, rt, last) ==
    LET Out(key) == <<rt, NextHop(N.g, Rings(N.g, key), rt, last)>>
        id(key) == N.nis[key].id
        Only(key) == AddrRange([start |-> id(key), size |-> 1])
        rules == [k \in DOMAIN SbrSeq(N) |->
                     LET key == SbrSeq(N)[k]
                     IN  Rule(PortOf(N.rts[rt], Out(key)), Only(key), <<key.n, k>>)]
    IN  Trim(rules)
GenRouterTables(N, last) ==
    IF \E rt \in DOMAIN N.rts, key \in Elements(SbrSeq(N)) : ~Reaches(Rings(N.g, key), rt)
    THEN Error("NetworkXNoPath")
    ELSE [tables |-> [rt \in DOMAIN N.rts |-> RouterTable(N, rt, last)]]

\* The routers of a path and the ports by which it leaves them.
Ports(N, from, to, last) ==
    LET rings == Rings(N.g, to)
        Step(acc, k) ==
            IF acc.at = to THEN acc
            ELSE LET next == NextHop(N.g, rings, acc.at, last)
                 IN  [at |-> next, ports |-> IF acc.at = from THEN <<>>
                         ELSE Append(acc.ports, <<PortOf(N.rts[acc.at], <<acc.at, next>>),
                                                  clog2(N.rts[acc.at].degree)>>)]
    IN  FoldLeft(Step, [at |-> from, ports |-> <<>>], Positions(Hops(rings, from) - 1)).ports

\* gen_routes: from every interface to every other one, unless both have the
\* same one role.
Unused(N, a, b) ==
    \/ a = b
    \/ ~IsSbrNi(N, a) /\ ~IsSbrNi(N, b)
    \/ ~IsMgrNi(N, a) /\ ~IsMgrNi(N, b)
GenRoutes(N, last) ==
    LET nis == NiSeq(N)
        RouteTo(a, b) == Route(N.nis[b].id, IF Unused(N, a, b) THEN <<>> ELSE Ports(N, a, b, last))
        routes == [a \in Elements(nis) |-> SortAndPad([k \in DOMAIN nis |-> RouteTo(a, nis[k])])]
    IN  IF \E a, b \in Elements(nis) : ~Unused(N, a, b) /\ ~Reaches(Rings(N.g, b), a)
        THEN Error("NetworkXNoPath")
        ELSE [routes |-> routes,
              num_route_bits |-> Max({0} \cup
                 {RouteBits(routes[a][k]) : a \in Elements(nis), k \in DOMAIN nis})]

\* gen_collective_sam: the bits of an address that select an element, and the
\* coordinate of the first element.
Collective(rule) ==
    LET r == rule.range
        y0 == clog2(Size(r))
    IN  IF ~r.coll THEN [mask |-> <<>>]
        ELSE IF Len(r.dim) # 2 THEN Error("ValueError")
        ELSE [mask |-> [len |-> <<clog2(r.dim[1]), clog2(r.dim[2])>>,
                        offset |-> <<y0 + clog2(r.dim[2]), y0>>,
                        base |-> Minus(rule.dest, r.idx)]]
GenCollectiveSam(sam) ==
    IF \E k \in DOMAIN sam : Failed(Collective(sam[k])) THEN Error("ValueError")
    ELSE [rules |-> sam, masks |-> [k \in DOMAIN sam |-> Collective(sam[k]).mask]]

\* gen_routing_info: the tables that an algorithm does not need stay empty.
GenRoutingInfo(N, last) ==
    LET info == SamAndWidths(N)
        tables == IF N.net.algo = "ID" THEN GenRouterTables(N, last) ELSE [tables |-> <<>>]
        routes == IF N.net.algo = "SRC" THEN GenRoutes(N, last)
                  ELSE [routes |-> <<>>, num_route_bits |-> None]
        coll == IF N.net.coll THEN GenCollectiveSam(info.sam) ELSE [rules |-> <<>>, masks |-> <<>>]
    IN  CASE Failed(info)   -> info
          [] Failed(tables) -> tables
          [] Failed(routes) -> routes
          [] Failed(coll)   -> coll
          [] OTHER -> [sam |-> info.sam, xy |-> info.xy, num_endpoints |-> info.num_endpoints,
                       num_id_bits |-> info.num_id_bits, tables |-> tables.tables,
                       routes |-> routes.routes, num_route_bits |-> routes.num_route_bits,
                       masks |-> coll.masks]

-----------------------------------------------------------------------------
(* The constants of the package.                                           *)

\* render_param_decl, render_route_cfg: reading a width that the algorithm does
\* not have raises an exception.
RouteCfg(net, info) ==
    IF net.algo = "ID" /\ ~net.table THEN Error("ValueError")
    ELSE [RouteAlgo |-> net.algo, UseIdTable |-> net.table,
          XYAddrOffsetX |-> IF IsDor(net.algo) THEN info.xy.addr_offset_bits ELSE 0,
          XYAddrOffsetY |-> IF IsDor(net.algo)
                            THEN info.xy.addr_offset_bits + info.xy.num_x_bits ELSE 0,
          NumSamRules |-> Len(info.sam), NumRoutes |-> IF net.algo = "SRC" THEN info.num_endpoints ELSE 0]

\* render_ep_enum: the name of an interface and its number.
EpEnum(N) == {<<key, N.nis[key].uid>> : key \in Elements(NiSeq(N))}

\* render_sam_idx_enum: rules are numbered from the last one, which the literal
\* of the package puts at index 0.
SamIdx(info) == [k \in 0 .. Len(info.sam) - 1 |-> Reverse(info.sam)[k + 1]]

\* render_ni_tables: tables and routes are written from the highest identifier
\* to the lowest, and read by index.
RoutingTables(N, info) ==
    LET nis == SortedBy(NiSeq(N), LAMBDA key : N.nis[key].id)
        Read(list, i) == list[Len(list) - i]
        tables == Reverse([k \in DOMAIN nis |-> info.routes[nis[k]]])
    IN  [src \in 0 .. Len(nis) - 1 |->
            [dst \in 0 .. Len(Read(tables, src)) - 1 |-> RenderRoute(Read(Read(tables, src), dst))]]

=============================================================================
