------------------------------ MODULE NocGraph ------------------------------
(***************************************************************************)
(* The graph of a network (floogen/model/graph.py): its nodes and edges in *)
(* the order in which they were added, and the selection of nodes.         *)
(*                                                                         *)
(* The name of a node is a key: the name of its description, whether it is *)
(* the network interface of that endpoint, and its index in the array or   *)
(* its path in the tree.  An exception is kept in err; the first one wins, *)
(* and nothing is added after it.                                          *)
(***************************************************************************)
EXTENDS AddrMap, FiniteSets

North == 0
East  == 1
South == 2
West  == 3
Eject == 4

\* XYDirections.to_coords; other ports have no coordinates (KeyError).
ToCoords(d) == CASE d = North -> <<0, 1>>  [] d = East -> <<1, 0>>
                 [] d = South -> <<0, -1>> [] d = West -> <<-1, 0>>
                 [] d = Eject -> <<0, 0>>
Plus(a, b)  == <<a[1] + b[1], a[2] + b[2]>>
Minus(a, b) == <<a[1] - b[1], a[2] - b[2]>>

Key(name, ni, idx) == [n |-> name, ni |-> ni, i |-> idx]
Node(key, type, lvl) == [key |-> key, type |-> type, lvl |-> lvl]
Edge(u, v, type, sd, dd) == [src |-> u, dst |-> v, type |-> type, sd |-> sd, dd |-> dd]

EmptyGraph == [nodes |-> <<>>, edges |-> <<>>, err |-> ""]
Raise(g, error) == IF g.err = "" THEN [g EXCEPT !.err = error] ELSE g

Has(g, key) == \E j \in DOMAIN g.nodes : g.nodes[j].key = key
HasEdge(g, u, v) == \E j \in DOMAIN g.edges : g.edges[j].src = u /\ g.edges[j].dst = v
TypeOf(g, key) == g.nodes[CHOOSE j \in DOMAIN g.nodes : g.nodes[j].key = key].type
EdgeOf(g, u, v) == g.edges[CHOOSE j \in DOMAIN g.edges : g.edges[j].src = u /\ g.edges[j].dst = v]

\* add_node and add_edge refuse what is there already.
AddNode(g, node) ==
    IF Has(g, node.key) THEN Raise(g, "ValueError")
    ELSE IF g.err # "" THEN g ELSE [g EXCEPT !.nodes = Append(@, node)]
AddEdge(g, e) ==
    IF HasEdge(g, e.src, e.dst) THEN Raise(g, "ValueError")
    ELSE IF g.err # "" THEN g ELSE [g EXCEPT !.edges = Append(@, e)]

\* Two edges between u and v; the first one leaves u in direction du and
\* arrives at v in direction dv.
Bidir(g, u, v, du, dv) ==
    AddEdge(AddEdge(g, Edge(u, v, "link", du, dv)), Edge(v, u, "link", dv, du))

\* The nodes of a type; the graph lists edges by the node they leave.
NodesOf(g, type) ==
    LET sel == SelectSeq(g.nodes, LAMBDA n : n.type = type)
    IN  [j \in DOMAIN sel |-> sel[j].key]
EdgesFrom(g, key, type) == SelectSeq(g.edges, LAMBDA e : e.src = key /\ e.type = type)
EdgesTo(g, key, type) ==
    FlattenSeq([j \in DOMAIN g.nodes |->
        SelectSeq(EdgesFrom(g, g.nodes[j].key, type), LAMBDA e : e.dst = key)])

-----------------------------------------------------------------------------
(* Arrays and trees of nodes.                                              *)

\* The indices of an array, row by row.
Indices(dim) ==
    IF Len(dim) = 1 THEN [k \in 1 .. dim[1] |-> <<k - 1>>]
    ELSE [k \in 1 .. dim[1] * dim[2] |-> <<(k - 1) \div dim[2], (k - 1) % dim[2]>>]

\* add_nodes_as_array: each node is connected to those before it in the array,
\* with directions in two dimensions only.
AddArray(g, name, ni, dim, type, connect) ==
    LET Dir(d) == IF Len(dim) = 2 THEN d ELSE None
        Before(idx, axis) == Key(name, ni, [idx EXCEPT ![axis] = @ - 1])
        Add(h, idx) ==
            LET key == Key(name, ni, idx)
                h1 == AddNode(h, Node(key, type, None))
                h2 == IF connect /\ idx[1] > 0
                      THEN Bidir(h1, key, Before(idx, 1), Dir(West), Dir(East)) ELSE h1
            IN  IF connect /\ Len(dim) = 2 /\ idx[2] > 0
                THEN Bidir(h2, key, Before(idx, 2), South, North) ELSE h2
    IN  FoldLeft(Add, g, Indices(dim))

\* add_nodes_as_tree: depth first; the nodes of level 0 are not connected.
RECURSIVE AddTree(_, _, _, _, _)
AddTree(g, name, path, tree, connect) ==
    LET Add(h, c) ==
            LET key == Key(name, FALSE, Append(path, c))
                h1 == AddNode(h, Node(key, "router", Len(path)))
                h2 == IF connect /\ path # <<>>
                      THEN Bidir(h1, Key(name, FALSE, path), key, None, None) ELSE h1
            IN  AddTree(h2, name, Append(path, c), tree, connect)
    IN  IF Len(path) = Len(tree) THEN g
        ELSE FoldLeft(Add, g, [c \in 1 .. tree[Len(path) + 1] |-> c - 1])

-----------------------------------------------------------------------------
(* Selections of nodes: keys, or an exception.                             *)

Selected(keys) == [keys |-> keys, err |-> ""]
NoSelection(error) == [keys |-> <<>>, err |-> error]
Existing(g, keys) ==
    IF \A k \in DOMAIN keys : Has(g, keys[k]) THEN Selected(keys) ELSE NoSelection("ValueError")

\* A range runs upwards or downwards, and both ends belong to it.
Span(a, b) == IF b > a THEN [k \in 1 .. b - a + 1 |-> a + k - 1]
                       ELSE [k \in 1 .. a - b + 1 |-> a - k + 1]

\* get_nodes_from_range, the last dimension fastest.
NodesFromRange(g, name, rng) ==
    LET Extend(prefixes, r) ==
            FlattenSeq([j \in DOMAIN prefixes |->
                [k \in DOMAIN Span(r[1], r[2]) |-> Append(prefixes[j], Span(r[1], r[2])[k])]])
        idxs == FoldLeft(Extend, << <<>> >>, rng)
    IN  IF rng = <<>> THEN NoSelection("ValueError")
        ELSE Existing(g, [k \in DOMAIN idxs |-> Key(name, FALSE, idxs[k])])

\* get_nodes_from_idx
NodesFromIdx(g, name, idx) ==
    IF idx = <<>> THEN NoSelection("ValueError") ELSE Existing(g, <<Key(name, FALSE, idx)>>)

\* get_nodes_from_lvl: every node whose name begins like this needs a level.
NodesFromLvl(g, names, lvl) ==
    LET alike == SelectSeq(g.nodes, LAMBDA n : n.key.n \in names)
        sel == SelectSeq(alike, LAMBDA n : n.lvl = lvl)
    IN  IF \E j \in DOMAIN alike : alike[j].lvl = None THEN NoSelection("KeyError")
        ELSE Selected([j \in DOMAIN sel |-> sel[j].key])

=============================================================================
