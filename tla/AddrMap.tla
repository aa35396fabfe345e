------------------------------ MODULE AddrMap ------------------------------
(***************************************************************************)
(* Address ranges, address maps and route tables of FlooGen                *)
(* (AddrRange, RouteMap and RouteTable in floogen/model/routing.py).       *)
(* A validator that raises is an operator whose result is an error.        *)
(***************************************************************************)
EXTENDS Integers, Sequences, SequencesExt

None == -1

\* clog2(1) = 0; math.log2 raises an exception for 0.
clog2(x) == CHOOSE b \in 0 .. x : 2^b >= x /\ \A c \in 0 .. b - 1 : 2^c < x

\* sorted(): stable, by a number that belongs to each element.
SortedBy(s, Key(_)) ==
    LET Before(i, j) == Key(s[i]) < Key(s[j]) \/ (Key(s[i]) = Key(s[j]) /\ i < j)
        order == SortSeq([i \in DOMAIN s |-> i], Before)
    IN  [i \in DOMAIN s |-> s[order[i]]]

-----------------------------------------------------------------------------
(* Address ranges.  The input gives some of start, end, size and base; the *)
(* range keeps start, end and base.                                        *)

RangeError == [error |-> "ValueError"]

\* The place of an element of an array: row by row.
Place(idx, dim) == IF Len(idx) = 1 THEN idx[1] ELSE idx[1] * dim[2] + idx[2]

\* validate_input: the accepted shapes, in the order in which they are tried.
Bounds(in) ==
    LET Has(f) == f \subseteq DOMAIN in
    IN  CASE Has({"size", "base", "arr_idx"}) ->
               IF Len(in.arr_idx) = 2 /\ ~Has({"arr_dim"}) THEN <<>>
               ELSE LET start == in.base + in.size *
                                   Place(in.arr_idx, IF Has({"arr_dim"}) THEN in.arr_dim ELSE <<>>)
                    IN  <<start, start + in.size>>
          [] Has({"size", "base"}) -> <<in.base, in.base + in.size>>
          [] Has({"start", "end", "size"}) ->
               IF in.end - in.start # in.size THEN <<>> ELSE <<in.start, in.end>>
          [] Has({"start", "end"})  -> <<in.start, in.end>>
          [] Has({"start", "size"}) -> <<in.start, in.start + in.size>>
          [] OTHER -> <<>>

\* str.isidentifier: of the names that are none, one stands for all.
NoIdentifier == "2x"
IsIdentifier(name) == name # NoIdentifier

\* validate_output adds that a range is not empty, and is either a component, with
\* parameters or without, or a memory in SystemRDL.
AddrRange(in) ==
    LET b == Bounds(in)
        Field(f, default) == IF f \in DOMAIN in THEN in[f] ELSE default
        rdl == Field("rdl_name", "")
        rdl_params == Field("rdl_params", {})
    IN  IF \/ b = <<>> \/ b[1] < 0 \/ b[1] >= b[2]
           \/ rdl # "" /\ TRUE \in Field("rdl_as_mem", {})
           \/ ~IsIdentifier(rdl)
           \/ "rdl_params" \in DOMAIN in /\ rdl = ""
           \/ \E param \in rdl_params : ~IsIdentifier(param)
        THEN RangeError
        ELSE [start |-> b[1], end |-> b[2], base |-> Field("base", None),
              idx |-> Field("arr_idx", <<>>), dim |-> Field("arr_dim", <<>>),
              coll |-> Field("en_collective", FALSE),
              rdl |-> rdl, mem |-> Field("rdl_as_mem", {}),
              groups |-> Field("rdl_addrmap_grp", {})]

Size(r) == r.end - r.start

\* Mutant: the elements are placed column by column.
SetArrByColumn(r, idx, dim) ==
    LET start == r.base + Size(r) * (IF Len(idx) = 1 THEN idx[1] ELSE idx[2] * dim[1] + idx[1])
    IN  [r EXCEPT !.idx = idx, !.dim = dim, !.start = start, !.end = start + Size(r)]

\* set_arr: the range of an element of an endpoint array.
SetArr(r, idx, dim) ==
    IF r.base = None THEN RangeError
    ELSE LET start == r.base + Size(r) * Place(idx, dim)
         IN  [r EXCEPT !.idx = idx, !.dim = dim, !.start = start, !.end = start + Size(r)]

-----------------------------------------------------------------------------
(* Maps from addresses to destinations.                                    *)

Rule(dest, range, name) == [dest |-> dest, range |-> range, name |-> name]

\* check_no_overlapping_ranges: neighbours in the order of their start.
Overlapping(rules) ==
    LET sorted == SortedBy(rules, LAMBDA r : r.range.start)
    IN  \E i \in 1 .. Len(rules) - 1 : sorted[i].range.end > sorted[i + 1].range.start

\* trim: the rules of each destination, in order of first use, are sorted, and
\* merged where one ends at the start of the next.
Merge(rules) ==
    FoldLeft(LAMBDA done, r :
                IF done # <<>> /\ Last(done).range.end = r.range.start
                THEN [done EXCEPT ![Len(done)].range.end = r.range.end]
                ELSE Append(done, r),
             <<>>, rules)
Trim(rules) ==
    LET dests == FoldLeft(LAMBDA ds, r : IF Contains(ds, r.dest) THEN ds ELSE Append(ds, r.dest),
                          <<>>, rules)
        Of(d) == SortedBy(SelectSeq(rules, LAMBDA r : r.dest = d), LAMBDA r : r.range.start)
    IN  FlattenSeq([k \in DOMAIN dests |-> Merge(Of(dests[k]))])

\* cc_addr_decode of common_cells, which the generated packages use: rules hold
\* their bounds in the width of the address, and an end of zero is the end of
\* the address space.  Without a match the index is zero.
Decode(rules, addr, width, zero) ==
    LET Hit(r) == LET end == r.range.end % 2^width
                  IN  addr >= r.range.start /\ (addr < end \/ end = 0)
    IN  IF \E k \in DOMAIN rules : Hit(rules[k])
        THEN rules[CHOOSE k \in DOMAIN rules : Hit(rules[k])].dest
        ELSE zero

-----------------------------------------------------------------------------
(* Tables of routes, for source routing: one route for each destination.   *)

Route(id, ports) == [id |-> id, ports |-> ports]     \* ports: <<port, bits>>

\* sort_and_pad: by destination, with empty routes for missing ones, the
\* highest destination first.
SortAndPad(routes) ==
    LET sorted == SortedBy(routes, LAMBDA r : r.id)
        Pad(done, r) == done \o [k \in 1 .. (r.id - Len(done)) |-> Route(Len(done) + k - 1, <<>>)]
                             \o <<r>>
    IN  Reverse(FoldLeft(Pad, <<>>, sorted))

RouteBits(r) == FoldLeft(LAMBDA sum, p : sum + p[2], 0, r.ports)

\* Mutant: the first port is put into the highest bits.
RenderHighFirst(r) == FoldLeft(LAMBDA num, p : num * 2^p[2] + p[1], 0, r.ports)

\* render: the number whose lowest bits are the port of the first router.
RenderRoute(r) ==
    FoldLeft(LAMBDA acc, p : [num |-> acc.num + p[1] * 2^acc.bits, bits |-> acc.bits + p[2]],
             [num |-> 0, bits |-> 0], r.ports).num

-----------------------------------------------------------------------------
(* The SystemRDL view of an address map.                                   *)

\* distinct_groups
DistinctGroups(rules) == UNION {rules[k].range.groups : k \in DOMAIN rules}

\* filter_by_group: rules without a group belong to all of them.
FilterByGroup(rules, group) ==
    SelectSeq(rules, LAMBDA r : r.range.groups = {} \/ group \in r.range.groups)

\* Mutant: only the first row of an array of elements is left out.
FirstRowOnly(rules) == SelectSeq(rules, LAMBDA r : r.range.idx = <<>> \/ r.range.idx[1] = 0)

\* render_rdl: of an array of elements only the first is written down.
FirstElements(rules) ==
    SelectSeq(rules, LAMBDA r : \A k \in DOMAIN r.range.idx : r.range.idx[k] = 0)

\* get_rdl leaves out ranges without a component, unless they are to be memories:
\* the range says so, or the command does.
Listed(r, as_mem) ==
    r.range.rdl # "" \/ (IF r.range.mem = {} THEN as_mem ELSE TRUE \in r.range.mem)

\* The instances of an addrmap.
Instances(rules, as_mem) ==
    LET listed == SelectSeq(FirstElements(rules), LAMBDA r : Listed(r, as_mem))
        Count(dim) == FoldLeft(LAMBDA n, d : n * d, 1, dim)
    IN  {[name |-> listed[k].name, start |-> listed[k].range.start,
          size |-> Size(listed[k].range), count |-> Count(listed[k].range.dim)] :
         k \in DOMAIN listed}

\* The regions an instance stands for: an array of count elements, size apart.
Regions(instances) ==
    UNION {{<<i.name, i.start + k * i.size, i.start + (k + 1) * i.size>> :
            k \in 0 .. i.count - 1} : i \in instances}

=============================================================================
