------------------------------- MODULE Floogen -------------------------------
(***************************************************************************)
(* A run of FlooGen (main in floogen/cli.py): the command line and the     *)
(* configuration are read, the parameters resolved and substituted, the    *)
(* network checked, elaborated and routed, and the files of the command    *)
(* written one after the other.  A step is one method of Network, one step *)
(* of the resolution of parameters (Params), one node or scalar of the     *)
(* document, or one file.                                                  *)
(*                                                                         *)
(* A run ends with exit status 0 ("ok"), with a report and status 1        *)
(* ("reported"), or with an exception that nothing catches ("traceback").  *)
(*                                                                         *)
(* The document is a graph of mappings and lists: YAML anchors share them, *)
(* and an anchor may be used inside itself.  Each has a sequence of items, *)
(* which are scalars or other mappings and lists.                          *)
(***************************************************************************)
EXTENDS Params, Traffic

CONSTANTS
    Scenarios,        \* command lines with the files they name
    Config(_, _)      \* the fields of a scenario's network, from its document

VARIABLES
    scenario,         \* the one that runs
    stage,            \* what comes next
    doc,              \* the items of each mapping and list
    seen, walking,    \* visited nodes; the calls of _walk, as <<node, item>>
    noc,              \* what was made so far of the network
    pending,          \* the outputs still to be written
    files,            \* the files written, as <<name, content>>
    exit              \* how the run ended; "" before

gen == <<scenario, stage, doc, seen, walking, noc, pending, files, exit>>
vars == <<params, gen>>

Leaf(v) == [leaf |-> v]
Sub(n)  == [node |-> n]
IsLeaf(item) == DOMAIN item = {"leaf"}
Root == "root"
ParamsBlock == "params"

\* parse_overrides: later ones replace earlier ones.
Overrides(given) ==
    [n \in {given[k][1] : k \in DOMAIN given} |->
        LET last == CHOOSE k \in DOMAIN given : given[k][1] = n
                                               /\ \A j \in k + 1 .. Len(given) : given[j][1] # n
        IN  given[last][2]]

Init ==
    /\ scenario \in Scenarios
    /\ Start(scenario.declared, scenario.order, Overrides(scenario.overrides))
    /\ stage = "args" /\ exit = ""
    /\ doc = scenario.doc /\ seen = {} /\ walking = <<>>
    /\ noc = [net |-> <<>>, g |-> EmptyGraph, id |-> <<>>, links |-> <<>>, dirs |-> <<>>,
              nis |-> <<>>, rts |-> <<>>, info |-> <<>>]
    /\ pending = <<>> /\ files = <<>>

End(how) == exit' = how /\ stage' = "ended"
ToStage(s)  == stage' = s /\ UNCHANGED exit

-----------------------------------------------------------------------------
(* Command line, configuration and parameters.                             *)

\* Commands that need no configuration; the schema is written to a file.
WithoutConfig ==
    /\ stage = "args" /\ scenario.command \in {"none", "help", "schema"}
    /\ files' = IF scenario.command = "schema" THEN << <<"schema", <<>> >> >> ELSE files
    /\ End("ok")
    /\ UNCHANGED <<params, scenario, doc, seen, walking, noc, pending>>

\* parse_overrides wants a name before the equals sign; the configuration has to
\* be YAML, and its parameters a mapping of names to scalars.
ReadConfig ==
    /\ stage = "args" /\ scenario.command \notin {"none", "help", "schema"}
    /\ IF (\E k \in DOMAIN scenario.overrides : scenario.overrides[k][1] = "") \/ ~scenario.readable
       THEN End("reported") ELSE ToStage("params")
    /\ UNCHANGED <<params, scenario, doc, seen, walking, noc, pending, files>>

ResolveParams ==
    /\ stage = "params" /\ ParamsNext
    /\ UNCHANGED gen

ParamsFail ==
    /\ stage = "params" /\ status \notin {"resolving", "resolved"}
    /\ End(IF status = "ParamError" THEN "reported" ELSE "traceback")
    /\ UNCHANGED <<params, scenario, doc, seen, walking, noc, pending, files>>

\* resolve_params writes the values into their block, and _walk starts at the
\* root with that block marked as visited.
WalkDocument ==
    /\ stage = "params" /\ status = "resolved"
    /\ doc' = IF ParamsBlock \in DOMAIN doc
              THEN [doc EXCEPT ![ParamsBlock] =
                       [k \in DOMAIN order |-> Leaf(resolved[order[k]])]]
              ELSE doc
    /\ seen' = {ParamsBlock, Root} /\ walking' = << <<Root, 1>> >>
    /\ ToStage("walk")
    /\ UNCHANGED <<params, scenario, noc, pending, files>>

Here  == walking[Len(walking)]
Item  == doc[Here[1]][Here[2]]
Below == SubSeq(walking, 1, Len(walking) - 1)
Advanced == Append(Below, <<Here[1], Here[2] + 1>>)
InNode == stage = "walk" /\ walking # <<>> /\ Here[2] <= Len(doc[Here[1]])

\* A text is substituted in place; a parameter without a value is undeclared.
WalkScalar ==
    /\ InNode /\ IsLeaf(Item)
    /\ LET r == Resolve(Item.leaf, resolved)
       IN  IF DOMAIN r = {"val"}
           THEN /\ doc' = [doc EXCEPT ![Here[1]][Here[2]] = Leaf(r.val)]
                /\ walking' = Advanced
                /\ UNCHANGED <<stage, exit>>
           ELSE /\ End(IF r = [err |-> "exception"] THEN "traceback" ELSE "reported")
                /\ UNCHANGED <<doc, walking>>
    /\ UNCHANGED <<params, scenario, seen, noc, pending, files>>

\* Mutant: a node is visited every time it is reached.
EveryTime(n) == TRUE
Unseen(n) == n \notin seen
WalkNode ==
    /\ InNode /\ ~IsLeaf(Item)
    /\ IF Unseen(Item.node)
       THEN walking' = Append(Advanced, <<Item.node, 1>>) /\ seen' = seen \cup {Item.node}
       ELSE walking' = Advanced /\ UNCHANGED seen
    /\ UNCHANGED <<params, scenario, stage, doc, noc, pending, files, exit>>

WalkReturns ==
    /\ stage = "walk" /\ walking # <<>> /\ Here[2] > Len(doc[Here[1]])
    /\ walking' = Below
    /\ UNCHANGED <<params, scenario, stage, doc, seen, noc, pending, files, exit>>

-----------------------------------------------------------------------------
(* Elaboration.  An exception of these methods is not caught.              *)

\* parse_config reports what does not validate.
Validate ==
    /\ stage = "walk" /\ walking = <<>>
    /\ LET config == Config(scenario, doc)
           net == IF Failed(config) THEN config ELSE Validated(config)
       IN  IF Failed(net)
           THEN End(IF net = Error("ConfigError") THEN "reported" ELSE "traceback") /\ UNCHANGED noc
           ELSE ToStage("create_routers") /\ noc' = [noc EXCEPT !.net = net]
    /\ UNCHANGED <<params, scenario, doc, seen, walking, pending, files>>

\* A method that leaves `result` in a field, or raises.
Method(next, field, result, raised) ==
    /\ IF raised THEN End("traceback") /\ UNCHANGED noc
       ELSE ToStage(next) /\ noc' = [noc EXCEPT ![field] = result]
    /\ UNCHANGED <<params, scenario, doc, seen, walking, pending, files>>

Grow(name, next, g) ==
    stage = name /\ Method(next, "g", g, g.err # "")
create_routers == Grow("create_routers", "create_endpoints", CreateRouters(noc.net))
create_endpoints ==
    Grow("create_endpoints", "create_connections", CreateEndpoints(noc.net, noc.g))
create_connections ==
    Grow("create_connections", "compile_ids", CreateConnections(noc.net, noc.g))

compile_ids ==
    /\ stage = "compile_ids"
    /\ LET id == CompileIds(noc.net, noc.g)
       IN  Method("compile_links", "id", id, Failed(id))
compile_links ==
    /\ stage = "compile_links"
    /\ LET r == CompileLinks(noc.net, noc.g)
       IN  Method("compile_endpoints", "links", r, Failed(r))
compile_endpoints ==
    /\ stage = "compile_endpoints"
    /\ LET dirs == CompileEndpoints(noc.net, noc.g)
       IN  Method("compile_nis", "dirs", dirs, Failed(dirs))
compile_nis ==
    /\ stage = "compile_nis"
    /\ LET r == CompileNis(noc.net, noc.g, noc.id)
       IN  Method("compile_routers", "nis", IF Failed(r) THEN <<>> ELSE r.nis,
                  Failed(r))
compile_routers ==
    /\ stage = "compile_routers"
    /\ LET r == CompileRouters(noc.net, noc.g, noc.id)
       IN  Method("gen_routing_info", "rts",
                  IF Failed(r) THEN <<>> ELSE r.routers, Failed(r))

gen_routing_info ==
    /\ stage = "gen_routing_info"
    /\ \E last \in BOOLEAN :
          LET info == GenRoutingInfo(noc, last)
          IN  Method("generate", "info", info, Failed(info))

-----------------------------------------------------------------------------
(* Outputs.                                                                *)

\* The groups of the address map; without any there is one file for all.
Groups(sam) == IF DistinctGroups(sam) = {} THEN {""} ELSE DistinctGroups(sam)

\* The outputs of a command, in the order in which they are written.
Outputs ==
    CASE scenario.command = "rtl" -> << <<"pkg", "">>, <<"top", "">> >>
      [] scenario.command = "pkg" -> << <<"pkg", "">> >>
      [] scenario.command = "top" -> << <<"top", "">> >>
      [] scenario.command = "rdl" ->
           LET groups == SetToSeq(Groups(noc.info.sam))
           IN  [k \in DOMAIN groups |-> <<"rdl", groups[k]>>]
      [] scenario.command = "template" ->
           [k \in DOMAIN scenario.templates |-> <<"template", scenario.templates[k]>>]
      [] scenario.command = "query" -> << <<"query", "">> >>
      [] scenario.command = "traffic" /\ scenario.flows # <<>> ->
           [k \in DOMAIN scenario.flows |-> <<"flow", scenario.flows[k]>>]
      [] scenario.command = "traffic" ->
           LET tiles == Indices(MeshDims(noc.net).dims) IN [k \in DOMAIN tiles |-> <<"tile", tiles[k]>>]

\* Traffic needs a mesh of routers, a place in it for every interface with
\* addresses, and squares to transpose.
NoTraffic ==
    /\ scenario.command = "traffic"
    /\ \/ Failed(MeshDims(noc.net)) \/ Failed(XyAddrMap(noc))
       \/ scenario.flows = <<>> /\ scenario.pattern = "transpose"
          /\ LET dims == MeshDims(noc.net).dims IN ~Transposable(dims[1], dims[2])

Generate ==
    /\ stage = "generate"
    /\ IF NoTraffic THEN End("traceback") /\ UNCHANGED pending
       ELSE ToStage("output") /\ pending' = Outputs
    /\ UNCHANGED <<params, scenario, doc, seen, walking, noc, files>>

Current == Head(pending)
Written(more) == files' = files \o more /\ pending' = Tail(pending) /\ UNCHANGED <<stage, exit>>
Unwritten == End("traceback") /\ UNCHANGED <<files, pending>>
Writing(kinds) == stage = "output" /\ pending # <<>> /\ Current[1] \in kinds
Rest == UNCHANGED <<params, scenario, doc, seen, walking, noc>>

\* render_template for a file of SystemVerilog: the package writes the route
\* configuration, a template of the user has to exist, and the formatter, if it is
\* called, may fail.
RenderSource ==
    /\ Writing({"pkg", "top", "template"})
    /\ \E formatter_fails \in {FALSE, scenario.format} :
          IF \/ formatter_fails
             \/ Current[1] = "pkg" /\ Failed(RouteCfg(noc.net, noc.info))
             \/ Current[1] = "template" /\ Current[2] = "missing"
          THEN Unwritten ELSE Written(<< <<Current, <<>> >> >>)
    /\ Rest

\* The address map of a group.
RenderAddrMap ==
    /\ Writing({"rdl"})
    /\ LET rules == IF Current[2] = "" THEN noc.info.sam ELSE FilterByGroup(noc.info.sam, Current[2])
       IN  Written(<< <<Current, Instances(rules, scenario.as_mem)>> >>)
    /\ Rest

\* handle_query prints what an expression comes to, reports four kinds of
\* exceptions and passes on the others.
Query ==
    /\ Writing({"query"})
    /\ \E end \in {"ok", "reported", "traceback"} : End(end)
    /\ UNCHANGED <<files, pending>> /\ Rest

\* gen_traffic_builtin: the two files of a tile.  The uniform pattern draws
\* until it has another tile.
WriteTile ==
    /\ Writing({"tile"})
    /\ \E drawn \in IF scenario.pattern # "uniform" THEN {<<>>}
                    ELSE Elements(Indices(MeshDims(noc.net).dims)) \ {Current[2]} :
          Written(TileFiles(noc, scenario.pattern, XyAddrMap(noc).addrs, Current[2],
                            scenario.beats, scenario.rw, drawn))
    /\ Rest

\* gen_traffic_cfg: the two files of a flow.
WriteFlow ==
    /\ Writing({"flow"})
    /\ Written(FlowFiles(noc, XyAddrMap(noc).addrs, Current[2]))
    /\ Rest

Finish ==
    /\ stage = "output" /\ pending = <<>>
    /\ End("ok")
    /\ UNCHANGED <<params, scenario, doc, seen, walking, noc, pending, files>>

Read == \/ WithoutConfig \/ ReadConfig \/ ResolveParams \/ ParamsFail
        \/ WalkDocument \/ WalkScalar \/ WalkNode \/ WalkReturns \/ Validate
Elaborate == \/ create_routers \/ create_endpoints \/ create_connections
             \/ compile_ids \/ compile_links \/ compile_endpoints \/ compile_nis \/ compile_routers
             \/ gen_routing_info \/ Generate
Write == RenderSource \/ RenderAddrMap \/ Query \/ WriteTile \/ WriteFlow \/ Finish

Next == Read \/ Elaborate \/ Write
Spec == Init /\ [][Next]_vars

\* The program runs by itself until it ends.  Steps that elaborate and write are
\* always possible in their stages: fairness names them by the stage that they
\* lead to, and by the output that they take from the list.
Stages == {"create_routers", "create_endpoints", "create_connections", "compile_ids",
           "compile_links", "compile_endpoints", "compile_nis", "compile_routers",
           "gen_routing_info", "generate"}
Elaborating == stage \in Stages /\ stage' \in (Stages \cup {"output", "ended"}) \ {stage}
Emitting ==
    /\ stage = "output"
    /\ \/ pending # <<>> /\ pending' = Tail(pending) /\ stage' = stage
       \/ pending' = pending /\ stage' = "ended"
Emitted == <<stage, pending>>
FairSpec == Spec /\ WF_vars(Read) /\ WF_stage(Elaborating) /\ WF_Emitted(Emitting)

-----------------------------------------------------------------------------
(* Properties *)

\* The invariants about a network are about the state in which it is complete.
Complete == stage = "generate"

\* In every network of which a package can be written requests arrive at the
\* endpoint of their address, by its table or by its offsets (gen_sam, gen_router_tables, gen_routes, compile_routers, route selection),
\* and responses at the manager they answer: subordinates address it by the
\* identifier that its interface was given (compile_ids).
TrafficArrives ==
    Complete /\ ~Failed(RouteCfg(noc.net, noc.info)) =>
        RequestsArrive(noc, noc.info) /\ ResponsesArrive(noc, noc.info)

\* The links that compile_routers and compile_nis give to the ports of routers
\* and interfaces fit together.
WiresPaired == Complete => WiresAgree(noc)

Apart(a, b) == a.end <= b.start \/ b.end <= a.start

\* The elements of an array that a mask selects, seen from the first one, are
\* those at the addresses the mask gives them.
MaskFits(rule, mask) ==
    LET r == rule.range
        origin == r.start - r.idx[1] * 2^mask.offset[1] - r.idx[2] * 2^mask.offset[2]
    IN  /\ \A d \in {1, 2} : r.idx[d] < 2^mask.len[d]
        /\ rule.dest = Plus(mask.base, r.idx)
        /\ origin = r.base

\* The address map: overlaps are refused exactly where two ranges share an
\* address (check_no_overlapping_ranges looks at neighbours only), endpoints are
\* numbered without gaps in the width of an identifier, the masks of collective
\* ranges and the SystemRDL of every group stand for the same addresses as the
\* map that the hardware uses.
AddressMapRight ==
    /\ (stage = "gen_routing_info" /\ SbrSeq(noc) # <<>>) =>
          LET sam == GenSam(noc, <<>>)
          IN  Overlapping(sam) <=> \E j, k \in DOMAIN sam :
                 j # k /\ ~Apart(sam[j].range, sam[k].range)
    /\ Complete =>
          LET info == noc.info
              numbers == {noc.nis[key].uid : key \in DOMAIN noc.nis}
          IN  /\ numbers = 0 .. info.num_endpoints - 1
              /\ \A n \in numbers : n < 2^info.num_id_bits
              /\ \A k \in DOMAIN info.masks :
                    info.masks[k] # <<>> => MaskFits(info.sam[k], info.masks[k])
              /\ \A group \in Groups(info.sam) :
                    LET rules == IF group = "" THEN info.sam ELSE FilterByGroup(info.sam, group)
                    IN  Regions(Instances(rules, TRUE)) =
                           {<<rules[k].name, rules[k].range.start, rules[k].range.end>> :
                            k \in {j \in DOMAIN rules : Listed(rules[j], TRUE)}}

\* What _walk reaches from the root, along shared and cyclic anchors.
Reachable ==
    FoldLeft(LAMBDA found, k : found \cup
                {item.node : item \in {i \in UNION {Elements(scenario.doc[n]) : n \in found} :
                                       ~IsLeaf(i)}},
             {Root}, Positions(Cardinality(DOMAIN scenario.doc)))

\* When the walk is over, every scalar of the document is its expression with the
\* parameters put in, exactly once: one that holds the text of a reference after
\* that, from an override, keeps it, however many anchors lead to it.
LeavesOnce ==
    stage = "walk" /\ walking = <<>> =>
       \A n \in Reachable \ {ParamsBlock} : \A k \in DOMAIN doc[n] :
          doc[n][k] = IF IsLeaf(scenario.doc[n][k])
                      THEN Leaf(Resolve(scenario.doc[n][k].leaf, resolved).val)
                      ELSE scenario.doc[n][k]

PermutationPatterns == {"bit_complement", "bit_reverse", "bit_rotation", "neighbor", "shuffle",
                 "transpose", "tornado"}
\* Counting in bits takes a power of two.
CountsBits == {"bit_reverse", "bit_rotation", "shuffle"}

\* The jobs of a complete traffic: no file replaces another one, each job moves
\* data between its tile and another address of the mesh in the direction asked
\* for, and by a pattern that is a permutation each tile gets the traffic of one.
JobsRight ==
    (stage = "output" /\ pending = <<>> /\ scenario.command = "traffic" /\ scenario.flows = <<>>) =>
       LET addrs == XyAddrMap(noc).addrs
           dims == MeshDims(noc.net).dims
           tiles == Elements(Indices(dims))
           wide == SelectSeq(files, LAMBDA f : f[1] < 100)
           Tiled(f) == Addr(addrs, <<f[1] \div dims[2], f[1] % dims[2]>>)
           Local(j)  == IF scenario.rw = "read" THEN j.dst ELSE j.src
           Remote(j) == IF scenario.rw = "read" THEN j.src ELSE j.dst
           remotes == {Remote(wide[k][2][1]) : k \in {i \in DOMAIN wide : wide[i][2] # <<>>}}
       IN  /\ \A j, k \in DOMAIN files : files[j][1] = files[k][1] => j = k
           /\ scenario.pattern \notin {"onehop", "matmul"} =>
                 \A k \in DOMAIN wide : \A j \in DOMAIN wide[k][2] :
                    /\ Local(wide[k][2][j]) = Tiled(wide[k])
                    /\ Remote(wide[k][2][j]) \in {addrs[xy] : xy \in DOMAIN addrs}
                    /\ scenario.pattern = "uniform" => Remote(wide[k][2][j]) # Tiled(wide[k])
           /\ (scenario.pattern \in PermutationPatterns
               /\ (scenario.pattern \in CountsBits => 2^clog2(dims[1] * dims[2]) = dims[1] * dims[2])) =>
                 remotes = {addrs[xy] : xy \in tiles}

\* Every run ends: the resolution of parameters that need each other, and the
\* walk over a document that contains itself, come to an end.
EveryRunEnds == <>(stage = "ended")

=============================================================================
