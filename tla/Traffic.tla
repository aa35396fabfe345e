------------------------------- MODULE Traffic -------------------------------
(***************************************************************************)
(* The traffic that FlooGen generates for test benches                     *)
(* (floogen/model/traffic.py): the place of interfaces in the mesh, the    *)
(* destinations of the built-in patterns, and the jobs of a file.  A       *)
(* missing address is None.  The number of bursts is left out: it repeats  *)
(* the jobs of one burst.                                                  *)
(***************************************************************************)
EXTENDS GeneratedNoc

Patterns == {"hbm", "uniform", "onehop", "bit_complement", "bit_reverse", "bit_rotation",
             "neighbor", "shuffle", "transpose", "tornado", "hotspot", "hotspot_boundary",
             "matmul"}

\* _mesh_dims looks at the first router description.
MeshDims(net) == IF Len(net.routers[1].array) # 2 THEN Error("ValueError")
                 ELSE [dims |-> net.routers[1].array]

\* _ni_mesh_coord: from the first router with two indices to which the link of the
\* interface has a direction.  Routers after it are not looked at; one without
\* an index before it is an exception.
MeshCoord(N, key) ==
    LET Towards(e) == IF e.dd # None THEN e.dd
                      ELSE IF HasEdge(N.g, e.dst, key) THEN EdgeOf(N.g, e.dst, key).sd ELSE None
        Unindexed(e) == DescOf(N.net, N.g, e.dst).array = <<>>
        Directed(e) == Len(e.dst.i) = 2 /\ Towards(e) # None
        ends == SelectSeq(EdgesFrom(N.g, key, "link"), LAMBDA e :
                    TypeOf(N.g, e.dst) = "router" /\ (Unindexed(e) \/ Directed(e)))
    IN  IF ends = <<>> \/ Unindexed(ends[1]) \/ Towards(ends[1]) \notin 0 .. Eject
        THEN Error("exception")
        ELSE [xy |-> Plus(ends[1].dst.i, ToCoords(Towards(ends[1])))]

\* _xy_addr_map: the start of the first range; a later interface at the same
\* place replaces an earlier one.
XyAddrMap(N) ==
    LET nis == SelectSeq(NiSeq(N), LAMBDA key : N.nis[key].ranges # <<>>)
        Coord(k) == MeshCoord(N, nis[k])
        places == {Coord(k).xy : k \in DOMAIN nis}
        Latest(xy) == CHOOSE k \in DOMAIN nis : /\ Coord(k).xy = xy
                                                /\ \A j \in k + 1 .. Len(nis) : Coord(j).xy # xy
    IN  IF \E k \in DOMAIN nis : Failed(Coord(k)) THEN Error("exception")
        ELSE [addrs |-> [xy \in places |-> N.nis[nis[Latest(xy)]].ranges[1].start]]
Addr(addrs, xy) == IF xy \in DOMAIN addrs THEN addrs[xy] ELSE None

\* _protocol_data_widths: of a type, the first protocol counts.
DataWidth(net, type) ==
    LET sel == SelectSeq(net.protocols, LAMBDA p : p.type = type)
    IN  IF sel = <<>> THEN None ELSE Head(sel).data

\* One job; a read moves data from the other side to the local one.
Job(length, rw, local, ext) ==
    [length |-> length, src |-> IF rw = "read" THEN ext ELSE local,
     dst |-> IF rw = "read" THEN local ELSE ext]

-----------------------------------------------------------------------------
(* Built-in patterns.                                                      *)

\* The lowest `bits` bits of a number in reverse order; at least one bit.
ReverseBits(value, bits) ==
    FoldLeft(LAMBDA rev, k : 2 * rev + ((value \div 2^(k - 1)) % 2), 0,
             Positions(IF bits = 0 THEN 1 ELSE bits))

\* Mutant: the second half of the numbers is rotated like the first one.
RotateDown(source, n) == source \div 2
RotateRight(source, n) == (source \div 2) + (IF source % 2 = 0 THEN 0 ELSE n \div 2)
RotateLeft(source, n) == IF source < n \div 2 THEN 2 * source ELSE 2 * source - n + 1

\* The transposed tile; a mesh that is not square is a row or a column of
\* square ones.
Transposed(x, y, nx, ny) ==
    IF ny >= nx THEN <<y - (y \div nx) * nx, x + (y \div nx) * nx>>
    ELSE <<y + (x \div ny) * ny, x - (x \div ny) * ny>>

\* Two assertions ask for whole squares.
Transposable(nx, ny) == nx % ny = 0 \/ ny % nx = 0

\* The tile that a number stands for counts along rows, the number of a tile
\* along columns.
Tile(number, nx) == <<number % nx, number \div nx>>

\* Where a tile sends to; `drawn` is the draw of the uniform pattern.
Destination(type, x, y, nx, ny, drawn) ==
    LET source == x * ny + y
    IN  CASE type \in {"hbm", "matmul"} -> <<-1, y>>
          [] type = "uniform"        -> drawn
          [] type = "onehop"         -> <<x, y + 1>>
          [] type = "bit_complement" -> <<nx - x - 1, ny - y - 1>>
          [] type = "bit_reverse"    -> Tile(ReverseBits(source, clog2(nx * ny)), nx)
          [] type = "bit_rotation"   -> Tile(RotateRight(source, nx * ny), nx)
          [] type = "neighbor"       -> <<(x + 1) % nx, y>>
          [] type = "shuffle"        -> Tile(RotateLeft(source, nx * ny), nx)
          [] type = "transpose"      -> Transposed(x, y, nx, ny)
          [] type = "tornado"        -> <<(x + ((nx + 1) \div 2) - 1) % nx, y>>
          [] type = "hotspot"        -> <<nx \div 2, ny \div 2>>
          [] type = "hotspot_boundary" -> <<-1, ny \div 2>>

\* The accesses of a tile: address, direction and length.  Only the first tile
\* of onehop accesses another one; matmul reads two matrices and writes one.
Accesses(type, addrs, x, y, nx, ny, rw, length, drawn) ==
    LET ext == Addr(addrs, Destination(type, x, y, nx, ny, drawn))
        Part(n) == IF length = None THEN None ELSE n
        reads == [i \in 1 .. ny |-> <<Addr(addrs, <<-1, (y + i - 1) % ny>>), "read",
                                      Part((length \div 2) \div ny)>>]
    IN  CASE type = "onehop" /\ <<x, y>> # <<0, 0>> -> << <<0, rw, 0>> >>
          [] type = "matmul" -> << <<ext, "read", Part(length \div 2)>> >> \o reads
                                \o << <<ext, "write", Part(length \div 4)>> >>
          [] OTHER -> << <<ext, rw, length>> >>

\* The two files of a tile, with their names; burst lengths are in beats.
TileFiles(N, type, addrs, tile, beats, rw, drawn) ==
    LET nx == N.net.routers[1].array[1]
        ny == N.net.routers[1].array[2]
        x == tile[1]
        y == tile[2]
        silent == type = "onehop" /\ tile # <<0, 0>>
        Length(t) == IF silent THEN 0
                     ELSE IF DataWidth(N.net, t) = None THEN None
                     ELSE (beats[t] * DataWidth(N.net, t)) \div 8
        local == IF silent THEN 0 ELSE Addr(addrs, tile)
        accesses == Accesses(type, addrs, x, y, nx, ny, rw, Length("wide"), drawn)
        Jobs(LengthOf(_)) ==
            LET made == SelectSeq(accesses, LAMBDA a : a[1] # None /\ local # None
                                                       /\ LengthOf(a) # None)
            IN  [k \in DOMAIN made |-> Job(LengthOf(made[k]), made[k][2], local, made[k][1])]
    IN  << <<x * ny + y, Jobs(LAMBDA a : a[3])>>,
           <<x * ny + y + 100, Jobs(LAMBDA a : Length("narrow"))>> >>

-----------------------------------------------------------------------------
(* Traffic configurations.                                                 *)

\* resolve_traffic_model and gen_traffic_cfg: a flow without both addresses is
\* left out.
FlowFiles(N, addrs, flow) ==
    LET ny == N.net.routers[1].array[2]
        local == Addr(addrs, flow.initiator)
        ext == Addr(addrs, flow.endpoint)
        idx == flow.initiator[1] * ny + flow.initiator[2]
        Jobs(beats, t) ==
            IF DataWidth(N.net, t) = None THEN <<>>
            ELSE [k \in DOMAIN beats |->
                     Job((beats[k] * DataWidth(N.net, t)) \div 8, flow.rw, local, ext)]
    IN  IF local = None \/ ext = None THEN <<>>
        ELSE << <<idx, Jobs(flow.wide, "wide")>>, <<idx + 100, Jobs(flow.narrow, "narrow")>> >>

=============================================================================
