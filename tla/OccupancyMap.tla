----------------------------- MODULE OccupancyMap -----------------------------
(***************************************************************************)
(* The occupancy grid of bonxai_map (class OccupancyMap), as its three     *)
(* kinds of owner use it:                                                  *)
(*   "cloud"     insertPointCloud: endpoints first, then a ray to each;    *)
(*   "dispatch"  a chunk of RollingOccupancyMap: each point's endpoint and *)
(*               ray are dispatched before the next point's;               *)
(*   "delta"     a remote layer: every voxel is reset, then set.           *)
(* A batch is one cloud, or one message.  Within a batch a cell is to be   *)
(* updated at most once, which update_id tells: the cell carries the cycle *)
(* number (1, 2, 3, 1, ...) of the batch that updated it.                  *)
(*                                                                         *)
(* Coords are the voxels whose evidence all comes to this map (a chunk may *)
(* share others with its neighbour: see RayDispatch).                      *)
(*                                                                         *)
(* cells, update_count and ends are the members; the rest is history.  A   *)
(* cell that was never created equals a created one, CellOcc's default.    *)
(***************************************************************************)
EXTENDS Integers, FiniteSets, Rays

CONSTANTS
    Coords,                (* the voxels of this map                         *)
    Endpoints,             (* voxels where a measurement may end             *)
    Origins,               (* voxels where the sensor may be                 *)
    HitLog, MissLog,       (* prob_hit_log, prob_miss_log                    *)
    ClampMin, ClampMax,    (* clamp_min_log, clamp_max_log                   *)
    Threshold,             (* occupancy_threshold_log                        *)
    UnknownLog,            (* UnknownProbability                             *)
    MaxBatches             (* bound: batches in the life of one map object   *)

ASSUME CoordsAssumption ==
    /\ Coords \subseteq [Axes -> Int]
    /\ Endpoints \subseteq [Axes -> Int]
    /\ Origins \subseteq [Axes -> Int]
    /\ IsFiniteSet(Axes) /\ Axes # {}
ASSUME OptionsAssumption ==
    /\ {HitLog, MissLog, ClampMin, ClampMax, Threshold, UnknownLog} \subseteq Int
    /\ MissLog < 0 /\ 0 < HitLog
    /\ ClampMin < Threshold /\ Threshold < ClampMax
    /\ UnknownLog \in ClampMin .. ClampMax
ASSUME MaxBatchesAssumption == MaxBatches \in Nat \ {0}

VARIABLES
    cells,         (* the grid: cycle id and log-odds of every voxel         *)
    update_count,  (* the cycle of the current batch                         *)
    ends,          (* hit_coords_ and miss_coords_                           *)
    user,          (* who owns the map                                       *)
    origin,        (* the sensor's voxel during this batch                   *)
    batch,         (* history: number of the batch since the map was made    *)
    seen,          (* history: batch of the last update, 0: none             *)
    start,         (* history: log-odds at the start of the batch            *)
    first,         (* history: what this batch observed first of a voxel, or *)
                   (* a message said last                                    *)
    missed         (* history: free endpoints of this batch                  *)

members == <<cells, update_count, ends>>
history == <<batch, seen, start, first, missed>>
vars == <<members, user, origin, history>>

Users == {"cloud", "dispatch", "delta"}
Evidence == {"hit", "miss"}
Cell == [id : 1 .. 4, log : ClampMin .. ClampMax]
DefaultCell == [id |-> 4, log |-> UnknownLog]

AtMost(a, b) == IF a < b THEN a ELSE b
AtLeast(a, b) == IF a > b THEN a ELSE b
AfterHit(log) == AtMost(log + HitLog, ClampMax)
AfterMiss(log) == AtLeast(log + MissLog, ClampMin)

-----------------------------------------------------------------------------
(* One observation of a voxel.                                             *)

IsNew(cs, c) == cs[c].id # update_count

Hit(cs, c) ==
    IF IsNew(cs, c)
    THEN [cs EXCEPT ![c] = [id |-> update_count, log |-> AfterHit(cs[c].log)]]
    ELSE cs

(* Misses of several voxels: none of them influences another. *)
Misses(cs, S) ==
    [c \in Coords |->
        IF c \in S /\ IsNew(cs, c)
        THEN [id |-> update_count, log |-> AfterMiss(cs[c].log)] ELSE cs[c]]

Reset_KeepsId(cs, c) == [cs EXCEPT ![c] = [@ EXCEPT !.log = Threshold]]

Reset(cs, c) == [cs EXCEPT ![c] = [id |-> 4, log |-> Threshold]]

(* A voxel last updated a multiple of three batches ago carries the number *)
(* of the current cycle, as if this batch had updated it.                  *)
Aliased(c) == seen[c] # 0 /\ seen[c] % 3 = batch % 3

Init ==
    /\ user \in Users
    /\ origin \in Origins
    /\ cells = [c \in Coords |-> DefaultCell]
    /\ update_count = 1
    /\ ends = {}
    /\ batch = 1
    /\ seen = [c \in Coords |-> 0]
    /\ start = [c \in Coords |-> UnknownLog]
    /\ first = [c \in Coords |-> "none"]
    /\ missed = {}

(* History of a step that observes the endpoint e as k, then the voxels ray *)
(* as free.                                                                 *)
Observes(e, k, ray) ==
    /\ first' = [c \in Coords |->
                    IF first[c] # "none" THEN first[c]
                    ELSE IF c = e THEN k
                    ELSE IF c \in ray THEN "miss" ELSE "none"]
    /\ missed' = IF k = "miss" THEN missed \cup ({e} \cap Coords) ELSE missed
    /\ UNCHANGED <<user, origin, batch, seen, start>>

(* Of insertPointCloud: a point within the range, ...                      *)
addHitPoint(c) ==
    /\ user = "cloud" /\ c \in Coords
    /\ cells' = Hit(cells, c)
    /\ ends' = IF IsNew(cells, c) THEN ends \cup {c} ELSE ends
    /\ Observes(c, "hit", {})
    /\ UNCHANGED update_count

(* ... or a point beyond it, clipped to the range.                         *)
addMissPoint(c) ==
    /\ user = "cloud" /\ c \in Coords
    /\ cells' = Misses(cells, {c})
    /\ ends' = ends \cup {c}
    /\ Observes(c, "miss", {})
    /\ UNCHANGED update_count

(* A point of RollingOccupancyMap::updateOccupancy, as one chunk sees it:  *)
(* the endpoint, when it lies in this chunk, then the ray's voxels.        *)
dispatch(e, k) ==
    LET ray == RayIterator(origin, e) \cap Coords
        cs == IF e \notin Coords THEN cells
              ELSE IF k = "hit" THEN Hit(cells, e) ELSE Misses(cells, {e})
        pushed == IF e \in Coords /\ (k = "miss" \/ IsNew(cells, e)) THEN {e} ELSE {}
    IN  /\ user = "dispatch"
        /\ cells' = Misses(cs, ray)
        /\ ends' = ends \cup ray \cup pushed
        /\ Observes(e, k, ray)
        /\ UNCHANGED update_count

(* A voxel of apply_voxel_delta: reset to unknown, then set to what the    *)
(* message says, or left unknown.                                          *)
setPoint(c, k) ==
    LET cs == Reset(cells, c)
    IN  /\ user = "delta" /\ c \in Coords
        /\ cells' = CASE k = "hit"  -> Hit(cs, c)
                      [] k = "miss" -> Misses(cs, {c})
                      [] k = "none" -> cs
        /\ ends' = IF k = "none" THEN ends ELSE ends \cup {c}
        /\ first' = [first EXCEPT ![c] = k]
        /\ start' = [start EXCEPT ![c] = Threshold]
        /\ seen' = [seen EXCEPT ![c] = 0]
        /\ UNCHANGED <<update_count, user, origin, batch, missed>>

-----------------------------------------------------------------------------
(* The end of a batch.                                                     *)

incrementUpdateCount_FourCycles ==
    update_count' = IF update_count = 4 THEN 1 ELSE update_count + 1

incrementUpdateCount ==
    update_count' = IF update_count + 1 = 4 THEN 1 ELSE update_count + 1

(* History: the voxels T were observed in the batch that ends. *)
BatchEnds(T) ==
    /\ batch < MaxBatches
    /\ batch' = batch + 1
    /\ seen' = [c \in Coords |-> IF c \in T /\ ~Aliased(c) THEN batch ELSE seen[c]]
    /\ start' = [c \in Coords |-> cells'[c].log]
    /\ first' = [c \in Coords |-> "none"]
    /\ missed' = {}
    /\ origin' \in Origins
    /\ UNCHANGED user

Observed == {c \in Coords : first[c] # "none"}

(* Both vectors' rays are traced from the origin, then both are cleared. *)
updateFreeCells_EndsKept ==
    LET rays == (UNION {RayIterator(origin, e) : e \in ends}) \cap Coords
    IN  /\ user = "cloud"
        /\ cells' = Misses(cells, rays)
        /\ UNCHANGED ends
        /\ incrementUpdateCount
        /\ BatchEnds(Observed \cup rays)

updateFreeCells ==
    LET rays == (UNION {RayIterator(origin, e) : e \in ends}) \cap Coords
    IN  /\ user = "cloud"
        /\ cells' = Misses(cells, rays)
        /\ ends' = {}
        /\ incrementUpdateCount
        /\ BatchEnds(Observed \cup rays)

(* A step of insertPointCloud: a point, or the rays when all are in.       *)
insertPointCloud ==
    \/ \E c \in Endpoints : addHitPoint(c) \/ addMissPoint(c)
    \/ updateFreeCells

(* The rays were traced by the caller.  Without endpoints the cycle stays. *)
updateFreeCellsPreRayTrace ==
    /\ user # "cloud"
    /\ UNCHANGED cells
    /\ ends' = {}
    /\ IF ends = {}
       THEN /\ first' = [c \in Coords |-> "none"]
            /\ missed' = {}
            /\ origin' \in Origins
            /\ UNCHANGED <<update_count, user, batch, seen, start>>
       ELSE incrementUpdateCount /\ BatchEnds(Observed)

(* The grid is written to a file with its ids and read into a new map,     *)
(* whose cycle starts at 1: an old id is taken for one of the new map's.   *)
Reload ==
    /\ user # "delta"
    /\ Observed = {}
    /\ update_count' = 1
    /\ batch' = 1
    /\ seen' = [c \in Coords |->
                  IF seen[c] = 0 THEN 0 ELSE IF seen[c] % 3 = 0 THEN 3 ELSE seen[c] % 3]
    /\ UNCHANGED <<cells, ends, user, origin, start, first, missed>>

Next ==
    \/ insertPointCloud
    \/ \E e \in Endpoints, k \in Evidence : dispatch(e, k)
    \/ \E c \in Coords, k \in Evidence \cup {"none"} : setPoint(c, k)
    \/ updateFreeCellsPreRayTrace
    \/ Reload

Spec == Init /\ [][Next]_vars

-----------------------------------------------------------------------------
(* Properties.                                                             *)

(* Every variable keeps its type; the log-odds stay within the clamps.     *)
TypeOK ==
    /\ cells \in [Coords -> Cell]
    /\ update_count \in 1 .. 3
    /\ ends \subseteq Coords
    /\ user \in Users
    /\ origin \in Origins
    /\ batch \in Nat \ {0}
    /\ seen \in [Coords -> Nat]
    /\ start \in [Coords -> ClampMin .. ClampMax]
    /\ first \in [Coords -> Evidence \cup {"none"}]
    /\ missed \subseteq Coords

(* What update_id means: after any sequence of batches, resets and reloads *)
(* a voxel of the current batch carries the current cycle, one never seen  *)
(* or reset carries 4, and any other the number, modulo three, of the      *)
(* batch that saw it: nothing older can be told apart.                     *)
Cycle(n) == ((n - 1) % 3) + 1
IdTellsBatch ==
    /\ update_count = Cycle(batch)
    /\ \A c \in Coords :
          cells[c].id = IF first[c] # "none" THEN update_count
                        ELSE IF seen[c] = 0 THEN 4 ELSE Cycle(seen[c])

(* Reference for a whole batch: a voxel that was hit first rises once, one *)
(* observed free, or passed by the ray of an endpoint, falls once, whatever *)
(* the order and number of the points; a return is never erased by the ray *)
(* of another one; only an aliased voxel is left out, with its own ray.    *)
RayEnds == missed \cup {e \in Coords : first[e] = "hit" /\ ~Aliased(e)}
ExpectedLog(c) ==
    IF Aliased(c) THEN start[c]
    ELSE IF first[c] = "hit" THEN AfterHit(start[c])
    ELSE IF \/ first[c] = "miss"
            \/ user = "cloud" /\ \E e \in RayEnds : OnRay(c, origin, e)
    THEN AfterMiss(start[c])
    ELSE start[c]
BatchResult ==
    [][batch' = batch + 1 => \A c \in Coords : cells'[c].log = ExpectedLog(c)]_vars

(* A remote layer shows exactly what a message said last of a voxel,       *)
(* however often the message names it: a reset voxel is open to an update. *)
EvidenceExact ==
    user = "delta" =>
        \A c \in Coords :
            /\ first[c] = "hit"  => cells[c].log = AfterHit(Threshold)
            /\ first[c] = "miss" => cells[c].log = AfterMiss(Threshold)

=============================================================================
