------------------------------ MODULE VoxelGrid -----------------------------
(***************************************************************************)
(* bonxai_core's VoxelGrid: a hash map of inner grids, each of leaf grids, *)
(* each of cells, and the accessors that remember the last inner and leaf  *)
(* grid they used.                                                         *)
(*                                                                         *)
(* OccupancyMap owns a grid and an accessor of it, which writes; a client  *)
(* of the grid may create more: "client" writes, "reader" is a             *)
(* ConstAccessor.  A pointer is the place of what it points to, or         *)
(* Dangling once that was freed.  Cells that are off hold no value: every  *)
(* operation that turns one on gives it one.                               *)
(***************************************************************************)
EXTENDS Integers, FiniteSetsExt, SequencesExt, Masks

CONSTANTS
    InnerSide, LeafSide,    (* cells along an axis: 1 << INNER_BITS, which   *)
                            (* is 4, and 1 << LEAF_BITS, which is 8          *)
    Coords,                 (* voxels in use                                 *)
    Values                  (* what a cell may hold; 0 is DataT{}            *)

Axes == 1 .. 3
Point == [Axes -> Int]

(* Powers of two fill whole words, or part of one. *)
ASSUME SidesAssumption ==
    \A side \in {InnerSide, LeafSide} :
        side \in Nat \ {0} /\ (MaskSize(side) < WordBits \/ MaskSize(side) % WordBits = 0)
ASSUME CoordsAssumption == Coords \subseteq Point /\ IsFiniteSet(Coords)
ASSUME ValuesAssumption == Values \subseteq Nat /\ 0 \in Values

VARIABLES
    root_map,       (* root key -> inner grid                                *)
    acc,            (* the accessors                                         *)
    content         (* history: the value last given to each cell, or Off    *)

vars == <<root_map, acc, content>>

Off == -1
None == <<>>                (* the coordinate of an empty cache              *)
Nil == <<>>                 (* the null pointer                              *)
Dangling == <<"freed">>
Accessors == {"map", "client", "reader"}

-----------------------------------------------------------------------------
(* Coordinates.                                                            *)

(* x & ~((1 << n) - 1), and x & ((1 << n) - 1), for a side of 1 << n. *)
Floor(x, side) == x - (x % side)

getRootKey(c) == [k \in Axes |-> Floor(c[k], InnerSide * LeafSide)]
getInnerKey(c) == [k \in Axes |-> Floor(c[k], LeafSide)]

Packed(v, side) == v[1] + v[2] * side + v[3] * (side * side)
Unpacked(n, side) == <<n % side, (n \div side) % side, (n \div (side * side)) % side>>

getInnerIndex(c) == Packed([k \in Axes |-> (c[k] \div LeafSide) % InnerSide], InnerSide)
getLeafIndex(c) == Packed([k \in Axes |-> c[k] % LeafSide], LeafSide)

-----------------------------------------------------------------------------
(* Grids.                                                                  *)

InnerSize == MaskSize(InnerSide)
LeafSize == MaskSize(LeafSide)

NewLeaf == [mask |-> NewMask(LeafSize), cell |-> [n \in 0 .. LeafSize - 1 |-> Off]]
NewInner == [mask |-> NewMask(InnerSize), cell |-> [n \in 0 .. InnerSize - 1 |-> Nil]]

Leaf(map, p) == map[p[1]].cell[p[2]]
Extended(map, r, inner) == [k \in DOMAIN map \cup {r} |-> IF k = r THEN inner ELSE map[k]]
WithLeaf(map, p, leaf) ==
    [map EXCEPT ![p[1]] = [mask |-> setOn(@.mask, p[2]), cell |-> [@.cell EXCEPT ![p[2]] = leaf]]]

(* One cell of a leaf, on with a value or off. *)
CellOn(map, p, n, v) ==
    WithLeaf(map, p, [mask |-> setOn(Leaf(map, p).mask, n),
                      cell |-> [Leaf(map, p).cell EXCEPT ![n] = v]])
CellOff(map, p, n) ==
    WithLeaf(map, p, [mask |-> setOff(Leaf(map, p).mask, n),
                      cell |-> [Leaf(map, p).cell EXCEPT ![n] = Off]])
IsOn(map, p, n) == maskIsOn(Leaf(map, p).mask, n)

(* forEachCell and activeCellsCount go through the masks; a coordinate is  *)
(* put together from the root key and the two indices.                     *)
Visited(mask, size) == {beginOn(mask, size)[k] : k \in DOMAIN beginOn(mask, size)}
CoordOf(r, i, n) ==
    [k \in Axes |-> r[k] + Unpacked(i, InnerSide)[k] * LeafSide + Unpacked(n, LeafSide)[k]]
Leaves(map) ==
    UNION {{<<r, i>> : i \in Visited(map[r].mask, InnerSize)} : r \in DOMAIN map}
forEachCell(map) ==
    UNION {{<<CoordOf(p[1], p[2], n), Leaf(map, p).cell[n]>> :
               n \in Visited(Leaf(map, p).mask, LeafSize)} : p \in Leaves(map)}
activeCellsCount(map) ==
    MapThenSumSet(LAMBDA p : Len(beginOn(Leaf(map, p).mask, LeafSize)), Leaves(map))

-----------------------------------------------------------------------------
(* The file format: each mask is followed by what it says is there.        *)

SerializeLeaf(leaf) ==
    LET q == beginOn(leaf.mask, LeafSize)
    IN  <<leaf.mask>> \o [k \in DOMAIN q |-> leaf.cell[q[k]]]
SerializeInner(r, inner) ==
    LET q == beginOn(inner.mask, InnerSize)
    IN  <<r, inner.mask>> \o FlattenSeq([k \in DOMAIN q |-> SerializeLeaf(inner.cell[q[k]])])
Serialize(map) ==
    LET q == SetToSeq(DOMAIN map)
    IN  <<Len(q)>> \o FlattenSeq([k \in DOMAIN q |-> SerializeInner(q[k], map[q[k]])])

(* Reading goes on where the last item ended: where a leaf that starts at  *)
(* an item ends, and where the leaves of an inner grid and the inner grids *)
(* of the file do, one after the other.                                    *)
Nth(q, x) == CHOOSE k \in DOMAIN q : q[k] = x

LeafEnd(in, at) == at + 1 + Len(beginOn(in[at], LeafSize))
LeafEnds(in, at) ==
    LET q == beginOn(in[at + 1], InnerSize)
        ends[k \in 0 .. Len(q)] == IF k = 0 THEN at + 2 ELSE LeafEnd(in, ends[k - 1])
    IN  ends
InnerEnd(in, at) == LeafEnds(in, at)[Len(beginOn(in[at + 1], InnerSize))]
InnerEnds(in) ==
    LET ends[k \in 0 .. in[1]] == IF k = 0 THEN 2 ELSE InnerEnd(in, ends[k - 1])
    IN  ends

ReadLeaf(in, at) ==
    LET q == beginOn(in[at], LeafSize)
    IN  [mask |-> in[at],
         cell |-> [n \in 0 .. LeafSize - 1 |->
                      IF n \in {q[k] : k \in DOMAIN q} THEN in[at + Nth(q, n)] ELSE Off]]
ReadInner(in, at) ==
    LET q == beginOn(in[at + 1], InnerSize)
        ends == LeafEnds(in, at)
    IN  [mask |-> in[at + 1],
         cell |-> [n \in 0 .. InnerSize - 1 |->
                      IF n \in {q[k] : k \in DOMAIN q} THEN ReadLeaf(in, ends[Nth(q, n) - 1]) ELSE Nil]]
Deserialize(in) ==
    LET ends == InnerEnds(in)
        roots == [k \in 1 .. in[1] |-> in[ends[k - 1]]]
    IN  [r \in {roots[k] : k \in 1 .. in[1]} |-> ReadInner(in, ends[Nth(roots, r) - 1])]

-----------------------------------------------------------------------------
(* Accessors: ConstAccessor and Accessor.                                  *)

createAccessor == [root_coord |-> None, inner_coord |-> None, inner_ptr |-> Nil, leaf_ptr |-> Nil]

(* getLeafGrid: the accessor, the grid and the leaf, or Nil. *)
getLeafGrid(a, map, c, create) ==
    LET r == getRootKey(c)
        i == getInnerIndex(c)
        cached == a.root_coord = r /\ a.inner_ptr # Nil
        m == IF cached \/ r \in DOMAIN map \/ ~create THEN map ELSE Extended(map, r, NewInner)
        b == IF cached \/ r \notin DOMAIN m THEN a
             ELSE [a EXCEPT !.root_coord = r, !.inner_ptr = r]
        on == maskIsOn(m[r].mask, i)
    IN  CASE cached /\ a.inner_ptr = Dangling -> [acc |-> a, map |-> map, leaf |-> Dangling]
          [] r \notin DOMAIN m -> [acc |-> a, map |-> map, leaf |-> Nil]
          [] r \in DOMAIN m /\ ~create ->
                [acc |-> b, map |-> m, leaf |-> IF on THEN <<r, i>> ELSE Nil]
          [] OTHER ->
                [acc |-> b, map |-> IF on THEN m ELSE WithLeaf(m, <<r, i>>, NewLeaf),
                 leaf |-> <<r, i>>]

(* The leaf of a voxel through the cache; retry: also if it holds none. *)
cached_leaf(a, map, c, create, retry) ==
    LET g == getLeafGrid(a, map, c, create)
    IN  IF getInnerKey(c) = a.inner_coord /\ ~(retry /\ a.leaf_ptr = Nil)
        THEN [acc |-> a, map |-> map, leaf |-> a.leaf_ptr]
        ELSE [g EXCEPT !.acc.inner_coord = getInnerKey(c), !.acc.leaf_ptr = g.leaf]

(* What value(c) returns to a reader: the value, Off for nullptr, anything *)
(* when it reads a freed leaf.                                             *)
Undefined == -2
value(a, map, c) ==
    LET leaf == cached_leaf(a, map, c, FALSE, FALSE).leaf
    IN  CASE leaf = Nil -> Off
          [] leaf = Dangling -> Undefined
          [] OTHER -> Leaf(map, leaf).cell[getLeafIndex(c)]

-----------------------------------------------------------------------------
Init ==
    /\ root_map = <<>>
    /\ acc = [a \in Accessors |-> createAccessor]
    /\ content = [c \in Coords |-> Off]

(* A writer turned the cell on, or off. *)
Write(a, g, c, v) ==
    /\ g.leaf \notin {Nil, Dangling}
    /\ acc' = [acc EXCEPT ![a] = g.acc]
    /\ root_map' = IF v = Off THEN CellOff(g.map, g.leaf, getLeafIndex(c))
                              ELSE CellOn(g.map, g.leaf, getLeafIndex(c), v)
    /\ content' = [content EXCEPT ![c] = v]

(* OccupancyMap writes through value(c, true). *)
addPoint(c, v) == Write("map", cached_leaf(acc["map"], root_map, c, TRUE, FALSE), c, v)

setValue(c, v) == Write("client", cached_leaf(acc["client"], root_map, c, TRUE, TRUE), c, v)

OldOr0(g, c) ==
    IF IsOn(g.map, g.leaf, getLeafIndex(c)) THEN Leaf(g.map, g.leaf).cell[getLeafIndex(c)] ELSE 0

(* value(c, true) and setCellOn turn the cell on; without a leaf the one   *)
(* returns nullptr and the other writes through it.                        *)
setCellOn(c) ==
    LET g == cached_leaf(acc["client"], root_map, c, TRUE, FALSE)
    IN  /\ g.leaf \notin {Nil, Dangling}
        /\ Write("client", g, c, OldOr0(g, c))

setCellOff(c) ==
    LET g == cached_leaf(acc["client"], root_map, c, FALSE, FALSE)
    IN  \/ Write("client", g, c, Off)
       \/ /\ g.leaf = Nil
          /\ acc' = [acc EXCEPT !["client"] = g.acc]
          /\ UNCHANGED <<root_map, content>>

(* value(c), isCellOn(c) *)
lookup(a, c) ==
    /\ acc' = [acc EXCEPT ![a] = cached_leaf(acc[a], root_map, c, FALSE, FALSE).acc]
    /\ UNCHANGED <<root_map, content>>

(* OccupancyMap::releaseUnusedMemory frees the leaves without a cell that  *)
(* is on and the inner grids left without a leaf, then drops its own       *)
(* accessors; a client has to create new ones.                             *)
Freed == {p \in Leaves(root_map) : maskIsOff(Leaf(root_map, p).mask)}
Released ==
    LET inner(r) == [mask |-> [w \in DOMAIN root_map[r].mask |->
                                {b \in root_map[r].mask[w] : <<r, w * WordBits + b>> \notin Freed}],
                     cell |-> [n \in 0 .. InnerSize - 1 |->
                                IF <<r, n>> \in Freed THEN Nil ELSE root_map[r].cell[n]]]
    IN  [r \in {k \in DOMAIN root_map : ~maskIsOff(inner(k).mask)} |-> inner(r)]

(* What is left of an accessor that is not created anew. *)
Outdated(a, map) ==
    [a EXCEPT !.inner_ptr = IF @ \in DOMAIN map \cup {Nil} THEN @ ELSE Dangling,
              !.leaf_ptr = IF @ = Nil \/ @ \in Leaves(map) THEN @ ELSE Dangling]

release_KeepsAccessor ==
    /\ root_map' = Released
    /\ acc' = [acc EXCEPT !["map"] = Outdated(@, Released), !["client"] = createAccessor,
                          !["reader"] = createAccessor]
    /\ UNCHANGED content

releaseUnusedMemory ==
    /\ root_map' = Released
    /\ acc' = [a \in Accessors |-> createAccessor]
    /\ UNCHANGED content

(* The grid is written and read back, into a new OccupancyMap. *)
reload ==
    /\ root_map' = Deserialize(Serialize(root_map))
    /\ acc' = [a \in Accessors |-> createAccessor]
    /\ UNCHANGED content

(* clear(SET_ALL_CELLS_OFF) goes through an accessor of its own. *)
clear ==
    /\ root_map' = [r \in DOMAIN root_map |-> [root_map[r] EXCEPT
                        !.cell = [n \in 0 .. InnerSize - 1 |->
                            IF <<r, n>> \in Leaves(root_map) THEN NewLeaf ELSE @[n]]]]
    /\ content' = [c \in Coords |-> Off]
    /\ UNCHANGED acc

Next ==
    \/ \E c \in Coords, v \in Values : addPoint(c, v) \/ setValue(c, v)
    \/ \E c \in Coords : setCellOn(c) \/ setCellOff(c)
    \/ \E c \in Coords, a \in {"client", "reader"} : lookup(a, c)
    \/ releaseUnusedMemory
    \/ reload
    \/ clear

Spec == Init /\ [][Next]_vars

-----------------------------------------------------------------------------
(* Properties.                                                             *)

(* The grid is a map from voxels to values: a fresh accessor finds and     *)
(* forEachCell visits what was written last, negative coordinates too, and *)
(* neither releaseUnusedMemory nor a file takes anything of it.            *)
GridIsMap ==
    LET on == {c \in Coords : content[c] # Off}
    IN  /\ \A c \in Coords : value(createAccessor, root_map, c) = content[c]
        /\ forEachCell(root_map) = {<<c, content[c]>> : c \in on}
        /\ activeCellsCount(root_map) = Cardinality(on)

(* An accessor in use points to no freed grid, and shows every voxel as it *)
(* is, whoever wrote it, except one in a leaf that it remembers missing.   *)
(* That of OccupancyMap remembers no miss: it never looks without creating.*)
Misses(a, c) == a.leaf_ptr = Nil /\ a.inner_coord = getInnerKey(c)
AccessorsSeeGrid ==
    \A a \in Accessors, c \in Coords :
        \/ a # "map" /\ Misses(acc[a], c)
        \/ ~Misses(acc[a], c) /\ value(acc[a], root_map, c) = content[c]

=============================================================================
