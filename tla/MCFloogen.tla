------------------------------ MODULE MCFloogen ------------------------------
(* Command lines and configurations for TLC: small networks of every kind, and *)
(* what can be wrong with a configuration.  Networks have a size n and a base  *)
(* address, which the configuration takes from its parameters.                 *)
EXTENDS Floogen, ParamExpr

-----------------------------------------------------------------------------
(* Descriptions *)

Prot(name, type) ==
    [name |-> name, type |-> type, data |-> IF type = "wide" THEN 512 ELSE 64,
     user |-> 1, addr |-> 8, dir |-> ""]
Ep(name, array, range, mgr, sbr) ==
    [name |-> name, array |-> array, ranges |-> range, offset |-> <<>>,
     mgr |-> IF mgr THEN << <<"n_in", "w_in">> >> ELSE <<>>,
     sbr |-> IF sbr THEN << <<"n_out", "w_out">> >> ELSE <<>>]
Routers(name, array, tree, degree) ==
    [name |-> name, array |-> array, tree |-> tree, degree |-> degree,
     connect |-> TRUE, offset |-> <<>>]
Conn(src, dst) ==
    [src |-> src, dst |-> dst, sidx |-> <<>>, srng |-> <<>>, slvl |-> <<>>, didx |-> <<>>,
     drng |-> <<>>, dlvl |-> <<>>, sd |-> None, dd |-> None, multi |-> FALSE, bidir |-> TRUE]

Cluster(array, base, grp) ==
    Ep("cl", array, << [base |-> base, size |-> 4, rdl_name |-> "cl", rdl_addrmap_grp |-> grp] >>,
       TRUE, TRUE)
Memory == Ep("mem", <<>>, << [start |-> 32, end |-> 40], [start |-> 40, size |-> 8, rdl_as_mem |-> {FALSE}] >>,
             FALSE, TRUE)
Host == Ep("host", <<>>, << [start |-> 48, end |-> 56, size |-> 8] >>, TRUE, TRUE)
Cpu == Ep("cpu", <<>>, <<>>, TRUE, FALSE)
Hbm == Ep("hbm", <<2>>, << [base |-> 64, size |-> 16, rdl_as_mem |-> {TRUE}] >>, FALSE, TRUE)

Net(algo, routers, endpoints, connections) ==
    [network |-> "narrow-wide", algo |-> algo, table |-> TRUE, decouple |-> "Phys", vcs |-> 0,
     coll |-> FALSE, protocols |-> << Prot("n_in", "narrow"), Prot("n_out", "narrow"),
                                      Prot("w_in", "wide"), Prot("w_out", "wide") >>,
     routers |-> <<routers>>, endpoints |-> endpoints, connections |-> connections,
     alike |-> [name \in {"rt"} |-> {"rt"}]]

Star(algo, n, base, more) ==
    Net(algo, Routers("rt", <<>>, <<>>, None),
        << Cluster(<<n>>, base, {"tiles"}), Memory, Host >> \o more,
        << [Conn("cl", "rt") EXCEPT !.srng = << << <<0, n - 1>> >> >>, !.multi = TRUE],
           Conn("rt", "mem"), Conn("host", "rt") >>
        \o [k \in DOMAIN more |-> Conn(more[k].name, "rt")])

Tree(algo, n, base) ==
    Net(algo, Routers("rt", <<>>, <<1, 2>>, None),
        << Cluster(<<2, n>>, base, {"tiles"}), [Memory EXCEPT !.ranges[1] =
              [start |-> 32, end |-> 40, rdl_name |-> "mem", rdl_addrmap_grp |-> {"tiles", "all"}]] >>,
        << [Conn("cl", "rt") EXCEPT !.srng = << << <<0, 1>>, <<0, n - 1>> >> >>,
                                    !.dlvl = <<1>>, !.multi = TRUE],
           [Conn("rt", "mem") EXCEPT !.slvl = <<0>>] >>)

\* A mesh of 2 by n with an interface at each router, and memory channels on the
\* west side, or on the south side.
Mesh(algo, n, base, side) ==
    Net(algo, Routers("rt", <<2, n>>, <<>>, 5),
        << Cluster(<<2, n>>, base, {}), [Hbm EXCEPT !.array = <<IF side = West THEN n ELSE 2>>] >>,
        << [Conn("cl", "rt") EXCEPT !.srng = << << <<0, 1>>, <<0, n - 1>> >> >>,
                                    !.drng = << << <<0, 1>>, <<0, n - 1>> >> >>, !.dd = Eject],
           [Conn("hbm", "rt") EXCEPT
              !.srng = << << <<0, IF side = West THEN n - 1 ELSE 1>> >> >>,
              !.drng = << IF side = West THEN << <<0, 0>>, <<0, n - 1>> >>
                          ELSE << <<0, 1>>, <<0, 0>> >> >>, !.dd = side] >>)

\* Networks that some method refuses, or that the validation does.
Broken(algo, kind, net) ==
    CASE kind = "twice"     -> [net EXCEPT !.endpoints[2].name = "cl"]
      [] kind = "range"     -> [net EXCEPT !.endpoints[2].ranges[1] = [start |-> 40, end |-> 40]]
      [] kind = "rdl name"  -> [net EXCEPT !.endpoints[2].ranges[1] =
                                   [start |-> 32, end |-> 40, rdl_name |-> NoIdentifier]]
      [] kind = "rdl params" -> [net EXCEPT !.endpoints[2].ranges[1] =
                                   [start |-> 32, end |-> 40, rdl_params |-> {"WIDTH"}]]
      [] kind = "rdl bound" -> [net EXCEPT !.endpoints[2].ranges[1] =
                                   [start |-> 32, end |-> 40, rdl_name |-> "mem",
                                    rdl_params |-> {"WIDTH"}]]
      [] kind = "overlap"   -> [net EXCEPT !.endpoints[2].ranges[1] = [start |-> 3, end |-> 40]]
      [] kind = "one way"   -> [net EXCEPT !.connections[1].bidir = FALSE]
      [] kind = "array"     -> [net EXCEPT !.routers[1].array = <<2, 2, 2>>]
      [] kind = "same node" -> [net EXCEPT !.connections = @ \o << Conn("cl", "rt") >>]
      [] kind = "range twice" -> [net EXCEPT !.connections = @ \o << net.connections[1] >>]
      [] kind = "node name" -> [net EXCEPT !.routers[1].name = "cl"]
      [] kind = "axi vcs"   -> [net EXCEPT !.network = "axi", !.vcs = 2, !.protocols =
                                   << Prot("n_in", "narrow"), Prot("n_out", "narrow") >>]
      [] kind = "both ways" -> [net EXCEPT !.endpoints[1].sbr = << <<"n_in">> >>]
      [] kind = "no base"   -> [net EXCEPT !.endpoints[1].ranges[1] = [start |-> 0, end |-> 4]]
      [] kind = "degree"    -> [net EXCEPT !.routers[1].degree = 1]
      [] kind = "mirrored"  -> [net EXCEPT !.decouple = "None"]
      [] kind = "no table"  -> [net EXCEPT !.table = FALSE]
      [] kind = "offsets"   -> [net EXCEPT !.table = FALSE, !.endpoints = <<@[1]>>,
                                           !.connections = <<@[1]>>]
      [] kind = "coll"      -> [net EXCEPT !.coll = TRUE, !.endpoints[1].ranges[1] =
                                   [base |-> 0, size |-> 4, en_collective |-> TRUE]]
      [] kind = "coll row"  -> [net EXCEPT !.coll = TRUE, !.endpoints[2].ranges[1] =
                                   [base |-> 64, size |-> 16, en_collective |-> TRUE]]
      [] kind = "shifted"   -> [net EXCEPT !.routers[1].offset = <<2, 1>>]
      [] kind = "no index"  -> [net EXCEPT !.routers[1].array = <<>>]
      [] kind = "side"      -> [net EXCEPT !.endpoints = @ \o <<Host>>, !.connections = @ \o
                                   << [Conn("host", "rt") EXCEPT !.didx = << <<0, 1>> >>] >>]
      [] kind = "taken"     -> [net EXCEPT !.endpoints = @ \o <<Host>>, !.connections = @ \o
                                   << [Conn("host", "rt") EXCEPT !.didx = << <<0, 1>> >>,
                                                                 !.dd = Eject] >>]
      [] OTHER              -> net

Named(s, n, base) ==
    CASE s.net = "star"  -> Star(s.algo, n, base, <<>>)
      [] s.net = "cpu"   -> Star(s.algo, n, base, <<Cpu>>)
      [] s.net = "tree"  -> Tree(s.algo, n, base)
      [] s.net = "mesh"  -> Mesh(s.algo, n, base, s.side)

\* The size is the second item of the document, the base the first one of `map`.
Configured(s, document) ==
    LET n == document[Root][2].leaf
        base == document["map"][1].leaf
    IN  IF ~IsInt(n) \/ ~IsInt(base) THEN Error("ConfigError")
        ELSE Broken(s.algo, s.kind, Named(s, n.int, base.int))

-----------------------------------------------------------------------------
(* Scenarios *)

Param(name) == TextVal(<<Ref(Name(name))>>)
Expr(o, a, b) == TextVal(<<Ref(Op(o, <<a, b>>))>>)
Raw(bools, ints, text) == [bool |-> bools, int |-> ints, str |-> text]
Number(n) == Raw({}, {n}, <<Word("number")>>)

\* n needs m, which comes later; the map of the document is used twice.
Plain ==
    [command |-> "pkg", readable |-> TRUE, overrides |-> <<>>,
     declared |-> [n |-> Param("m"), m |-> IntVal(2), base |-> Expr("-", Name("m"), Name("n")),
                   wide |-> BoolVal(TRUE), text |-> TextVal(<<Word("a"), Ref(Name("m"))>>)],
     order |-> <<"n", "m", "base", "wide", "text">>,
     doc |-> [root   |-> << Sub("params"), Leaf(Param("n")), Sub("map"), Sub("list") >>,
              params |-> << Leaf(Param("m")), Leaf(IntVal(2)) >>,
              map    |-> << Leaf(Param("base")), Leaf(BoolVal(FALSE)), Leaf(Param("text")) >>,
              list   |-> << Sub("map"), Leaf(TextVal(<<Word("x")>>)) >>],
     net |-> "star", algo |-> "ID", kind |-> "", side |-> West, templates |-> <<>>,
     flows |-> <<>>, pattern |-> "", beats |-> [narrow |-> 1, wide |-> 16], rw |-> "write",
     as_mem |-> FALSE, format |-> FALSE]
With(s, name, v) == [s EXCEPT !.declared[name] = v]
Given(s, name, raw) == [s EXCEPT !.overrides = Append(@, <<name, raw>>)]

\* Parameters and the document.
Parameters ==
    {With(Plain, "m", Param("n")),                         \* a cycle
     With(Plain, "m", Param("m")),
     With(Plain, "base", Param("other")),                  \* not declared
     With(Plain, "text", TextVal(<<Word("a"), Ref(Name("other"))>>)),
     With(Plain, "base", Expr("//", Name("m"), Name("base0"))),
     With(Plain, "base", Expr("//", Name("m"), Const(IntVal(0)))),
     With(Plain, "base", TextVal(<<Word("0"), Ref(Name("m"))>>)),   \* not a number
     With(Plain, "base", Expr("**", Name("m"), Const(IntVal(65)))),   \* more than 64
     With(Plain, "base", Expr("^", Name("m"), Name("n"))),
     With(Plain, "wide", TextVal(<<Ref(Op("<=", <<Name("n"), Name("m"), Const(IntVal(5))>>))>>)),
     With(Plain, "text", TextVal(<<Ref(Unsupported)>>)),
     With(Plain, "n", Expr("+", Name("m"), Op("and", <<Name("wide"), Name("base")>>))),
     Given(Plain, "m", Number(1)), Given(Given(Plain, "m", Number(1)), "m", Number(3)),
     Given(Plain, "n", Number(3)), Given(Plain, "other", Number(1)), Given(Plain, "", Number(1)),
     Given(Plain, "m", Raw({TRUE}, {}, <<Word("yes")>>)),
     Given(Plain, "wide", Raw({FALSE}, {0}, <<Word("0")>>)),
     Given(Plain, "text", Raw({}, {}, <<Ref(Name("m"))>>)),  \* a value that looks like a reference
     Given(Plain, "text", Raw({}, {}, <<Ref(Name("gone"))>>)),
     [Plain EXCEPT !.doc["list"][2] = Leaf(Param("gone"))],
     [Plain EXCEPT !.doc["list"][2] = Leaf(Expr("%", Name("m"), Name("base")))],
     [Plain EXCEPT !.doc["list"] = @ \o << Sub("list"), Sub("root") >>],  \* a document inside itself
     [Plain EXCEPT !.readable = FALSE],
     [Plain EXCEPT !.declared = [p \in {} |-> IntVal(0)], !.order = <<>>,
                   !.doc = [root |-> << Sub("map"), Leaf(IntVal(2)) >>, map |-> << Leaf(IntVal(0)) >>]]}

Commands ==
    {[Plain EXCEPT !.command = c] : c \in {"none", "help", "schema", "rtl", "top", "query"}}
    \cup {[Plain EXCEPT !.command = "rtl", !.format = TRUE],
          [Plain EXCEPT !.command = "template", !.templates = <<"a.mako", "missing", "b.mako">>],
          [Plain EXCEPT !.command = "pkg", !.kind = "no table"],
          [Plain EXCEPT !.command = "traffic", !.pattern = "uniform"]}
    \cup {[Plain EXCEPT !.command = "rdl", !.net = net, !.as_mem = m] :
              net \in {"star", "tree", "mesh"}, m \in BOOLEAN}

Networks ==
    {[Plain EXCEPT !.net = net, !.algo = algo] :
         net \in {"star", "tree"}, algo \in {"ID", "SRC"}}
    \cup {[Plain EXCEPT !.net = "cpu", !.algo = "SRC"]}
    \cup {[Plain EXCEPT !.net = "mesh", !.algo = algo] :
              algo \in {"ID", "SRC", "YX", "YX_MIRRORED"}}
    \cup {[Plain EXCEPT !.net = "mesh", !.algo = algo, !.side = South] :
              algo \in {"ID", "SRC", "XY", "XY_MIRRORED"}}
    \cup {[Given(Plain, "m", Number(1)) EXCEPT !.net = net, !.algo = algo] :
              net \in {"mesh", "tree"}, algo \in {"ID", "SRC"}}
    \cup {[Plain EXCEPT !.kind = "rdl bound"]}
    \cup {[Plain EXCEPT !.net = "mesh", !.algo = "YX", !.kind = k] :
              k \in {"shifted", "coll"}}
    \cup {[Plain EXCEPT !.net = "mesh", !.algo = algo, !.kind = "side"] : algo \in {"ID", "SRC"}}

Refused ==
    {[Plain EXCEPT !.kind = k] :
         k \in {"twice", "range", "rdl name", "rdl params", "overlap", "one way", "range twice",
                "axi vcs", "both ways", "no base", "degree"}}
    \cup {[Plain EXCEPT !.net = "mesh", !.algo = "YX_MIRRORED", !.kind = k] :
              k \in {"array", "node name", "same node", "mirrored", "coll row", "degree", "no index"}}
    \cup {[Plain EXCEPT !.net = "mesh", !.algo = "YX", !.kind = "taken"]}
    \cup {[Plain EXCEPT !.algo = "XY"]}

\* Traffic in meshes of 2 by 2 and 2 by 4.
Flow(from, to, rw) ==
    [initiator |-> from, endpoint |-> to, rw |-> rw, wide |-> <<16, 4>>, narrow |-> <<1>>]
Jobs ==
    {[Plain EXCEPT !.command = "traffic", !.net = "mesh", !.algo = "YX", !.pattern = pattern] :
         pattern \in Patterns}
    \cup {[Given(Plain, "m", Number(4)) EXCEPT !.command = "traffic", !.net = "mesh",
              !.algo = "SRC", !.pattern = pattern, !.rw = "read"] :
              pattern \in {"bit_reverse", "bit_rotation", "shuffle", "transpose"}}
    \cup {[Given(Plain, "m", Number(3)) EXCEPT !.command = "traffic", !.net = "mesh",
              !.algo = "YX", !.pattern = "transpose"],
          [Plain EXCEPT !.command = "traffic", !.net = "mesh", !.algo = "YX",
              !.flows = << Flow(<<0, 0>>, <<-1, 1>>, "read"), Flow(<<1, 1>>, <<9, 9>>, "write"),
                           Flow(<<1, 0>>, <<0, 1>>, "write") >>]}

All == Parameters \cup Commands \cup Networks \cup Refused \cup Jobs

\* A manager that is no subordinate, with tables in the routers.
ManagerOnly == {[Plain EXCEPT !.net = "cpu"]}

\* A mesh without memories and without an address table: one range after the other,
\* all of the same size (not in a run: README, known limits).
AddressOffsets ==
    {[Plain EXCEPT !.net = "mesh", !.algo = "XY", !.kind = "offsets"],
     [Given(Plain, "m", Number(4)) EXCEPT !.net = "mesh", !.algo = "XY", !.kind = "offsets"]}

=============================================================================
