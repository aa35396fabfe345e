---------------------------- MODULE MCMeshRouting ----------------------------
(* MeshRouting and Collective in a small mesh for TLC. *)
EXTENDS Collective

Groups == {g \in Collectives : g.mask # [x |-> 0, y |-> 0]}

Base(g) == [g EXCEPT !.dst = [x |-> first[g.dst.x][g.mask.x], y |-> first[g.dst.y][g.mask.y]]]
Top(g)  == [g EXCEPT !.dst = [x |-> last[g.dst.x][g.mask.x], y |-> last[g.dst.y][g.mask.y]]]

(* One request from anywhere to any group; two to the same one from a corner, *)
(* with different members as destinations.                                   *)
OneOrTwo ==
  {<<g>> : g \in Groups}
  \cup {<<Base(g), Top(g)>> : g \in {g \in Groups : g.src = [x |-> 0, y |-> 2]}}

(* Two requests to groups that overlap: their answers may wait for each other *)
(* (not in a run: README, known limits).                                      *)
Overlapping ==
  LET Half(ydim) == [src |-> [x |-> 0, y |-> 2], dst |-> [x |-> 0, y |-> 0], mask |-> ydim]
  IN  {<<Half([x |-> 2, y |-> 1]), Half([x |-> 1, y |-> 0])>>}
==============================================================================
