------------------------------ MODULE RayDispatch ------------------------------
(***************************************************************************)
(* Which chunk keeps what a point says of a voxel, and in which chunk a    *)
(* query looks for it: RollingOccupancyMap::updateOccupancy and isOccupied *)
(* (isFree, isUnknown) on the grid of ChunkCoordinateSystem.               *)
(*                                                                         *)
(* A cloud is dispatched before the transition manager sees its source.    *)
(* The points of a cloud do not influence each other here: what becomes of *)
(* a voxel inside its chunk is OccupancyMap's.                             *)
(***************************************************************************)
EXTENDS TransitionManager

CONSTANT Resolution        (* the side of a voxel, in units of the lattice   *)

(* The sizes are configured so that chunks end where voxels end; the code  *)
(* does not check it.                                                      *)
ASSUME ResolutionAssumption == Resolution \in Nat \ {0} /\ Half % Resolution = 0

Ray == INSTANCE Rays

-----------------------------------------------------------------------------
(* ChunkCoordinateSystem.                                                  *)

positionToVoxelCoordinate(p) == [a \in Axes |-> p[a] \div Resolution]

(* The lower corner of the voxel. *)
voxelToPositionCoordinate(v) == [a \in Axes |-> v[a] * Resolution]

(* A broken variant, as in TransitionManager.                              *)
worldBoundsToVoxelBounds_MaxInclusive(c) ==
    [min |-> positionToVoxelCoordinate([a \in Axes |-> chunkMinBound(c, a)]),
     max |-> [a \in Axes |-> (chunkMaxBound(c, a) \div Resolution) + 1]]

worldBoundsToVoxelBounds(c) ==
    [min |-> positionToVoxelCoordinate([a \in Axes |-> chunkMinBound(c, a)]),
     max |-> positionToVoxelCoordinate([a \in Axes |-> chunkMaxBound(c, a)])]

-----------------------------------------------------------------------------
(* updateOccupancy, of one point at e (clipped to the range) seen from p.  *)

Outside(v, bounds) == \E a \in Axes : v[a] < bounds.min[a] \/ bounds.max[a] <= v[a]

(* The chunk of each voxel of a ray: that of the voxel before as long as   *)
(* its bounds hold it, else that of the voxel's corner.                    *)
RayChunks(p, walk) ==
    LET chunk[i \in DOMAIN walk] ==
            LET c == IF i = 0 THEN positionToChunkCoordinate(p) ELSE chunk[i - 1]
            IN  IF Outside(walk[i], worldBoundsToVoxelBounds(c))
                THEN positionToChunkCoordinate(voxelToPositionCoordinate(walk[i]))
                ELSE c
    IN  chunk

(* Evidence is kept in active chunks only; a point that ends in another    *)
(* chunk is dropped with its ray.                                          *)
updateOccupancy(active, p, e) ==
    LET home == positionToChunkCoordinate(e)
        walk == Ray!RayWalk(positionToVoxelCoordinate(p), positionToVoxelCoordinate(e))
        chunk == RayChunks(p, walk)
    IN  IF home \notin active THEN {}
        ELSE {[chunk |-> home, voxel |-> positionToVoxelCoordinate(e)]}
             \cup {[chunk |-> chunk[i], voxel |-> walk[i]] :
                      i \in {j \in DOMAIN walk : chunk[j] \in active}}

(* Where isOccupied, isFree and isUnknown look, asked for a position or a  *)
(* voxel.                                                                  *)
AskedAt(p) == [chunk |-> positionToChunkCoordinate(p), voxel |-> positionToVoxelCoordinate(p)]
AskedFor(v) == [chunk |-> positionToChunkCoordinate(voxelToPositionCoordinate(v)), voxel |-> v]

-----------------------------------------------------------------------------
(* Properties.                                                             *)

Lower(v, a) == v[a] * Resolution
Upper(v, a) == Lower(v, a) + Resolution

(* Along a, the chunk spans the voxel; or ends where the voxel begins.     *)
Spans(c, v, a) == chunkMinBound(c, a) <= Lower(v, a) /\ Upper(v, a) <= chunkMaxBound(c, a)
EndsAt(c, v, a) == chunkMaxBound(c, a) = Lower(v, a)

Inside(p, v) == \A a \in Axes : Lower(v, a) < p[a] /\ p[a] < Upper(v, a)

(* The robot has not left its first chunk, whose neighbours are active.    *)
Settled == initialized /\ ref = prevRef
Nearby == {c \in [Axes -> -Reach .. Reach] : Apart(c, ref) <= 1}

(* Evidence of a voxel is kept in the chunk that spans it, whichever way   *)
(* its ray came and however its chunk was found, and both queries look for *)
(* it there.  One kind of voxel is excepted: one that begins where a chunk *)
(* ends, at negative coordinates.  Rays from beyond and the query by voxel *)
(* (which go by its corner) take it for the other chunk's, points inside   *)
(* it, rays from within and the query by position do not: its evidence may *)
(* be split between two chunks.                                            *)
Found(w) ==
    LET strays(c) == {a \in Axes : ~Spans(c, w.voxel, a)}
        split == {a \in Axes : Lower(w.voxel, a) < 0 /\ EndsAt(AskedFor(w.voxel).chunk, w.voxel, a)}
    IN  /\ strays(w.chunk) \subseteq split
        /\ \A a \in strays(w.chunk) : EndsAt(w.chunk, w.voxel, a)
        /\ strays(AskedFor(w.voxel).chunk) = split
        /\ split = {} => AskedFor(w.voxel) = w
        /\ \A q \in Position :
              Inside(q, w.voxel) => /\ AskedAt(q).voxel = w.voxel
                                    /\ strays(AskedAt(q).chunk) = {}
EvidenceIsFound ==
    Settled => \A e \in Position : \A w \in updateOccupancy(Nearby, ego, e) : Found(w)
=============================================================================
