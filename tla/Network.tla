------------------------------- MODULE Network -------------------------------
(***************************************************************************)
(* The elaboration of a network (floogen/model/network.py, up to           *)
(* gen_routing_info): the checks of its description, its graph, and the    *)
(* identifiers, links, endpoints, network interfaces and routers compiled  *)
(* from the graph.  Each operator is one method; it returns the value that *)
(* the method leaves, or an exception.                                     *)
(*                                                                         *)
(* An optional field of a description is a sequence of at most one value.  *)
(***************************************************************************)
EXTENDS NocGraph

Error(e) == [error |-> e]
Failed(r) == DOMAIN r = {"error"}
Elements(seq) == {seq[k] : k \in DOMAIN seq}
Positions(n) == [k \in 1 .. n |-> k]

\* The description of a node.
DescOf(net, g, key) ==
    LET descs == IF TypeOf(g, key) = "router" THEN net.routers ELSE net.endpoints
    IN  descs[CHOOSE k \in DOMAIN descs : descs[k].name = key.n]

IsMgr(ep) == ep.mgr # <<>>
IsSbr(ep) == ep.sbr # <<>>
IsDor(algo) == algo \in {"XY", "YX", "XY_MIRRORED", "YX_MIRRORED"}
Mirrored(algo) == algo \in {"XY_MIRRORED", "YX_MIRRORED"}

\* get_ni_name
NiOf(key) == [key EXCEPT !.ni = TRUE]
EpOf(key) == [key EXCEPT !.ni = FALSE]

-----------------------------------------------------------------------------
(* The validators.  What they refuse is reported with its line.            *)

UniqueNames(descs) == \A j, k \in DOMAIN descs : descs[j].name = descs[k].name => j = k

\* validate_protocols: exactly one value, also where no protocol is of a type.
SameOf(protocols, Field(_)) == Cardinality({Field(p) : p \in protocols}) = 1
ProtocolsFit(net) ==
    LET all == Elements(net.protocols)
        OfType(t) == {p \in all : p.type = t}
        Data(p) == p.data
        User(p) == p.user
    IN  /\ SameOf(all, LAMBDA p : p.addr)
        /\ IF net.network = "narrow-wide"
           THEN /\ \A t \in {"narrow", "wide"} : SameOf(OfType(t), Data)
                /\ net.coll \/ \A t \in {"narrow", "wide"} : SameOf(OfType(t), User)
                /\ \A p \in all : p.type \in {"narrow", "wide"}
           ELSE SameOf(all, Data) /\ SameOf(all, User)

IsCollective(ep) == \E k \in DOMAIN ep.ranges : AddrRange(ep.ranges[k]).coll

\* check_indexing tests for true values: a level of zero passes.
IndexingFits(c) ==
    /\ c.sidx = <<>> \/ c.slvl = <<>> \/ c.slvl[1] = 0
    /\ c.didx = <<>> \/ c.dlvl = <<>> \/ c.dlvl[1] = 0

\* A link in one direction is refused by an exception that is not reported.
Validated(net) ==
    IF \E k \in DOMAIN net.connections : ~net.connections[k].bidir THEN Error("exception")
    ELSE IF /\ \A ep \in Elements(net.endpoints) :
                   \A k \in DOMAIN ep.ranges : ~Failed(AddrRange(ep.ranges[k]))
            /\ \A c \in Elements(net.connections) : IndexingFits(c)
            /\ Mirrored(net.algo) => net.decouple = "Phys"
            /\ net.coll => IsDor(net.algo)
            /\ UniqueNames(net.endpoints) /\ UniqueNames(net.routers)
            /\ ProtocolsFit(net)
            /\ Mirrored(net.algo) => net.network = "narrow-wide"
            /\ net.coll <=> \E ep \in Elements(net.endpoints) : IsCollective(ep)
         THEN net ELSE Error("ConfigError")

-----------------------------------------------------------------------------
(* create_network                                                          *)

CreateRouters(net) ==
    LET Create(g, rt) ==
            CASE rt.array = <<>> /\ rt.tree = <<>> ->
                   AddNode(g, Node(Key(rt.name, FALSE, <<>>), "router", None))
              [] Len(rt.array) = 2 /\ rt.tree = <<>> ->
                   AddArray(g, rt.name, FALSE, rt.array, "router", rt.connect)
              [] rt.array = <<>> -> AddTree(g, rt.name, <<>>, rt.tree, rt.connect)
              [] OTHER -> Raise(g, "ValueError")
    IN  FoldLeft(Create, EmptyGraph, net.routers)

\* create_endpoints: requests of a subordinate's interface go to the endpoint,
\* those of a manager from the endpoint to its interface.
CreateEndpoints(net, graph) ==
    LET Nodes(g, ep, ni, type) ==
            IF ep.array = <<>> THEN AddNode(g, Node(Key(ep.name, ni, <<>>), type, None))
            ELSE AddArray(g, ep.name, ni, ep.array, type, FALSE)
        Keys(ep) == LET idxs == IF ep.array = <<>> THEN << <<>> >> ELSE Indices(ep.array)
                    IN  [k \in DOMAIN idxs |-> Key(ep.name, FALSE, idxs[k])]
        Inward(h, key)  == AddEdge(h, Edge(NiOf(key), key, "protocol", None, None))
        Outward(h, key) == AddEdge(h, Edge(key, NiOf(key), "protocol", None, None))
        Create(g, ep) ==
            LET h == Nodes(Nodes(g, ep, FALSE, "endpoint"), ep, TRUE, "network_interface")
                h1 == IF IsSbr(ep) THEN FoldLeft(Inward, h, Keys(ep)) ELSE h
            IN  IF IsMgr(ep) THEN FoldLeft(Outward, h1, Keys(ep)) ELSE h1
    IN  FoldLeft(Create, graph, net.endpoints)

\* The nodes at one side of a connection, as their network interfaces.
Ends(g, net, name, idx, rng, lvl) ==
    LET given == Cardinality({f \in {1, 2, 3} : <<idx, rng, lvl>>[f] # <<>>})
        sel == CASE given > 1  -> NoSelection("ValueError")
                 [] idx # <<>> -> NodesFromIdx(g, name, idx[1])
                 [] rng # <<>> -> NodesFromRange(g, name, rng[1])
                 [] lvl # <<>> -> NodesFromLvl(g, net.alike[name], lvl[1])
                 [] OTHER -> IF Has(g, Key(name, FALSE, <<>>))
                             THEN Selected(<<Key(name, FALSE, <<>>)>>) ELSE NoSelection("KeyError")
    IN  [sel EXCEPT !.keys = [k \in DOMAIN @ |->
                                 IF TypeOf(g, @[k]) = "endpoint" THEN NiOf(@[k]) ELSE @[k]]]

\* Each element n times, next to each other.
Repeat(keys, n) == [k \in 1 .. n * Len(keys) |-> keys[((k - 1) \div n) + 1]]

\* create_connections.  With allow_multi, lengths that do not divide each other
\* are not refused: the longer side is cut off.
CreateConnections(net, graph) ==
    LET Connect(g, c) ==
            LET s == Ends(g, net, c.src, c.sidx, c.srng, c.slvl)
                d == Ends(g, net, c.dst, c.didx, c.drng, c.dlvl)
                ns == Len(s.keys)
                nd == Len(d.keys)
                more == c.multi /\ ns > nd /\ ns % nd = 0
                less == c.multi /\ nd > ns /\ nd % ns = 0
                srcs == IF less THEN Repeat(s.keys, nd \div ns) ELSE s.keys
                dsts == IF more THEN Repeat(d.keys, ns \div nd) ELSE d.keys
            IN  CASE s.err # "" -> Raise(g, s.err)
                  [] d.err # "" -> Raise(g, d.err)
                  [] ns # nd /\ (~c.multi \/ ns = 0 \/ nd = 0) -> Raise(g, "exception")
                  [] OTHER -> FoldLeft(LAMBDA h, k : Bidir(h, srcs[k], dsts[k], c.sd, c.dd),
                                       g, Positions(IF Len(srcs) < Len(dsts)
                                                    THEN Len(srcs) ELSE Len(dsts)))
        Step(g, c) == IF g.err # "" THEN g ELSE Connect(g, c)
    IN  FoldLeft(Step, graph, net.connections)

-----------------------------------------------------------------------------
(* compile_network                                                         *)

Shifted(xy, desc) == IF desc.offset = <<>> THEN xy ELSE Plus(xy, desc.offset)

\* compile_ids.  A coordinate comes from a neighbour and the direction of the
\* link to it; where there is none, the last coordinate computed is used again.
\* Identifiers of the other algorithms, and those in the list of endpoints
\* (uid), count the endpoints.
CompileIds(net, g) ==
    LET routers == NodesOf(g, "router")
        nis == NodesOf(g, "network_interface")
        eps == NodesOf(g, "endpoint")
        uids == [key \in Elements(nis) |-> (CHOOSE k \in DOMAIN eps : eps[k] = EpOf(key)) - 1]
        rtids == [key \in Elements(routers) |-> Shifted(key.i, DescOf(net, g, key))]
        Towards(e) == IF e.dd # None THEN e.dd ELSE EdgeOf(g, e.dst, e.src).sd
        Assign(acc, key) ==
            LET known == SelectSeq(EdgesFrom(g, key, "link"),
                                   LAMBDA e : e.dst \in DOMAIN acc.ids /\ Towards(e) # None)
                bad == known # <<>> /\ Towards(known[1]) \notin 0 .. Eject
                xy == IF bad \/ known = <<>> THEN acc.last
                      ELSE Plus(acc.ids[known[1].dst], ToCoords(Towards(known[1])))
                id == Shifted(xy, DescOf(net, g, key))
            IN  [last |-> id, bad |-> acc.bad \/ bad,
                 ids |-> [k \in DOMAIN acc.ids \cup {key} |-> IF k = key THEN id ELSE acc.ids[k]]]
        assigned == FoldLeft(Assign, [last |-> rtids[Last(routers)], bad |-> FALSE, ids |-> rtids],
                             nis)
    IN  IF ~IsDor(net.algo) THEN [ids |-> uids, uids |-> uids]
        ELSE IF \/ routers = <<>>
                \/ \E key \in Elements(routers) : Len(DescOf(net, g, key).array) # 2
                \/ assigned.bad
             THEN Error("exception")
        ELSE [ids |-> assigned.ids, uids |-> uids]

\* compile_links: a link is known by its ends.  Virtual channels need a
\* narrow-wide network.
Link(e) == <<e.src, e.dst>>
NoLink == <<>>
CompileLinks(net, g) ==
    LET links == SelectSeq(g.edges, LAMBDA e : e.type = "link")
    IN  IF links # <<>> /\ net.network = "axi" /\ net.vcs # 0 THEN Error("NotImplementedError")
        ELSE [links |-> {[link |-> Link(links[k]), both |-> HasEdge(g, links[k].dst, links[k].src)] :
                         k \in DOMAIN links}]

\* compile_endpoints: using a protocol for a port fixes its direction, for the
\* endpoints that come later too.  Lists of protocols are not empty.
CompileEndpoints(net, g) ==
    LET eps == NodesOf(g, "endpoint")
        Named(name) == {p \in Elements(net.protocols) : p.name = name}
        Use(dirs, use) ==        \* use: the name of a protocol and its direction
            IF Failed(dirs) THEN dirs
            ELSE IF Named(use[1]) = {} THEN Error("StopIteration")
            ELSE IF dirs[use[1]] = "" THEN [dirs EXCEPT ![use[1]] = use[2]]
            ELSE IF dirs[use[1]] # use[2] THEN Error("ValueError") ELSE dirs
        Uses(list, dir) == [k \in DOMAIN list |-> <<list[k], dir>>]
        Ports(ep) == (IF IsMgr(ep) THEN Uses(ep.mgr[1], "input") ELSE <<>>)
                     \o (IF IsSbr(ep) THEN Uses(ep.sbr[1], "output") ELSE <<>>)
        unused == [name \in {p.name : p \in Elements(net.protocols)} |->
                      (CHOOSE p \in Named(name) : TRUE).dir]
        Compile(dirs, key) ==
            FoldLeft(Use, dirs, Ports(DescOf(net, g, key)))
    IN  FoldLeft(Compile, unused, eps)

\* compile_nis: the address ranges of the element, its ports by type, and the
\* first of its links in each direction.
CompileNis(net, g, id) ==
    LET nis == NodesOf(g, "network_interface")
        Ranges(ep, key) ==
            [k \in DOMAIN ep.ranges |->
                LET r == AddrRange(ep.ranges[k])
                IN  IF ep.array # <<>> /\ IsSbr(ep) THEN SetArr(r, key.i, ep.array) ELSE r]
        TypeOfProt(name) == (CHOOSE p \in Elements(net.protocols) : p.name = name).type
        Ports(list) == {TypeOfProt(name) : name \in Elements(list)}
        Compile(key) ==
            LET ep == DescOf(net, g, key)
                out == EdgesFrom(g, key, "link")
                inc == EdgesTo(g, key, "link")
                ranges == Ranges(ep, key)
            IN  IF \E k \in DOMAIN ranges : Failed(ranges[k]) THEN Error("ValueError")
                ELSE IF out = <<>> \/ inc = <<>> THEN Error("IndexError")
                ELSE [id |-> id.ids[key], uid |-> id.uids[key], ranges |-> ranges,
                      mgr |-> IF IsMgr(ep) THEN Ports(ep.mgr[1]) ELSE {},
                      sbr |-> IF IsSbr(ep) THEN Ports(ep.sbr[1]) ELSE {},
                      mgr_link |-> Link(out[1]), sbr_link |-> Link(inc[1])]
        all == [key \in Elements(nis) |-> Compile(key)]
    IN  IF \E key \in DOMAIN all : Failed(all[key]) THEN Error("exception") ELSE [nis |-> all]

\* Mutant: a link takes a slot away from another one.
TakeOver(slots, directed) ==
    FoldLeft(LAMBDA s, p :
                IF Failed(s) THEN s
                ELSE IF p[1] \notin DOMAIN s.slots THEN Error("IndexError")
                ELSE [s EXCEPT !.slots[p[1]] = p[2]],
             [slots |-> slots], directed)
\* Links with a direction have their slot, if there is one and it is free.
TakeSlots(slots, directed) ==
    FoldLeft(LAMBDA s, p :
                IF Failed(s) THEN s
                ELSE IF p[1] \notin DOMAIN s.slots THEN Error("IndexError")
                ELSE IF s.slots[p[1]] # NoLink THEN Error("ValueError")
                ELSE [s EXCEPT !.slots[p[1]] = p[2]],
             [slots |-> slots], directed)

\* The others fill the free slots in their order.
Fill(placed, links) ==
    FoldLeft(LAMBDA s, l :
                LET free == IF Failed(s) THEN {} ELSE {k \in DOMAIN s.slots : s.slots[k] = NoLink}
                IN  IF free = {} THEN Error("AssertionError")
                    ELSE [s EXCEPT !.slots[CHOOSE k \in free : \A j \in free : k <= j] = l],
             placed, links)

\* compile_routers.  Links in are in the order of the nodes they leave, links
\* out in the order of the connections.
CompileRouters(net, g, id) ==
    LET Side(edges, degree, Dir(_)) ==
            LET directed == SelectSeq(edges, LAMBDA e : Dir(e) # None)
                others == SelectSeq(edges, LAMBDA e : Dir(e) = None)
                slots == [k \in 0 .. degree - 1 |-> NoLink]
                placed == TakeSlots(slots, [k \in DOMAIN directed |->
                                           <<Dir(directed[k]), Link(directed[k])>>])
            IN  Fill(placed, [k \in DOMAIN others |-> Link(others[k])])
        Compile(key) ==
            LET desc == DescOf(net, g, key)
                inc == EdgesTo(g, key, "link")
                degree == IF desc.degree = None THEN Len(inc) ELSE desc.degree
                incoming == Side(inc, degree, LAMBDA e : e.dd)
                outgoing == Side(EdgesFrom(g, key, "link"), degree, LAMBDA e : e.sd)
            IN  IF Failed(incoming) THEN incoming ELSE IF Failed(outgoing) THEN outgoing
                ELSE [incoming |-> incoming.slots, outgoing |-> outgoing.slots, degree |-> degree,
                      id |-> IF IsDor(net.algo) THEN id.ids[key] ELSE None]
        all == [key \in Elements(NodesOf(g, "router")) |-> Compile(key)]
    IN  IF \E key \in DOMAIN all : Failed(all[key]) THEN Error("exception")
        ELSE [routers |-> all]

=============================================================================
