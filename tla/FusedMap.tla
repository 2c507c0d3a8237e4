-------------------------------- MODULE FusedMap --------------------------------
(***************************************************************************)
(* What the node publishes and answers: the two queries of BonxaiServer    *)
(* that fuse the remote layers (RemoteFusion) with the evidence of the     *)
(* local maps.  The local maps' own life is DynamicObstacles'; here a      *)
(* cloud or a loaded map changes their voxels as those operations may, one *)
(* voxel at a time.                                                        *)
(* The static and the dynamic map may have different resolutions, and a    *)
(* coordinate goes from one to the other through its voxel's centre.       *)
(***************************************************************************)
EXTENDS RemoteFusion

CONSTANTS
    Obstacles,             (* voxels of the dynamic map                      *)
    StaticOf, DynamicOf,   (* the voxel of the one map at the other's centre *)
    Tolerance              (* fusion_conflict_tolerance_sec                  *)

ASSUME ResolutionAssumption ==
    /\ StaticOf \in [Obstacles -> Voxels]
    /\ DynamicOf \in [Voxels -> Obstacles]
ASSUME ToleranceAssumption == Tolerance \in Nat

VARIABLES
    static,     (* occupancy_map_                                            *)
    obstacles,  (* voxels of the tracks that are not promoted                *)
    free,       (* free voxels of dynamic_obstacle_map_                      *)
    stamp       (* local_observation_times_ns_                               *)

localMaps == <<static, obstacles, free, stamp>>
fusedVars == <<vars, localMaps>>

FusedInit ==
    /\ Init
    /\ static = [v \in Voxels |-> "unknown"]
    /\ obstacles = {}
    /\ free = {}
    /\ stamp = [v \in Voxels |-> NoTime]

-----------------------------------------------------------------------------
(* update_dynamic_obstacle_layer of one dynamic voxel.  Observed, it may   *)
(* be free or not, whichever the ray says: the evidence adds up.  Free or  *)
(* not, it is part of a track or not: a point beyond the sensor's range    *)
(* makes a track, and a track takes over another component, with no ray to *)
(* the voxel.  The static cell is hit by a promotion, which need not make  *)
(* a free one occupied, reset by a withdrawal, or neither.                 *)
cloud(d, tracked, st) ==
    /\ call = idle
    /\ \/ /\ \E t \in {clock, clock + 1} \cap Times :
                clock' = t /\ stamp' = [stamp EXCEPT ![StaticOf[d]] = t]
          /\ free' \in {free \cup {d}, free \ {d}}
       \/ UNCHANGED <<clock, stamp, free>>
    /\ static' = [static EXCEPT ![StaticOf[d]] = st]
    /\ obstacles' = IF tracked THEN obstacles \cup {d} ELSE obstacles \ {d}
    /\ UNCHANGED <<robot, sent, layer, call, history>>

(* Another static map is loaded; the stamps stay. *)
load(f) ==
    /\ call = idle
    /\ static' = f
    /\ obstacles' = {}
    /\ free' = {}
    /\ UNCHANGED <<vars, stamp>>

FusedNext ==
    \/ Next /\ UNCHANGED localMaps
    \/ \E d \in Obstacles, b \in BOOLEAN :
          \E st \in {static[StaticOf[d]], "occupied", "unknown"} : cloud(d, b, st)
    \/ \E v \in Voxels, st \in {"occupied", "free"} :
          load([w \in Voxels |-> IF w = v THEN st ELSE "unknown"])

FusedSpec == FusedInit /\ [][FusedNext]_fusedVars

-----------------------------------------------------------------------------
(* The queries, over the layers of the sources R; a missing stamp is 0.    *)

At(t) == IF t = NoTime THEN 0 ELSE t
ShownTo(R) == {s \in R : Shown(layer[s])}

(* resolve_fused_voxel_state, given the stamps of either kind. *)
resolve_fused_voxel_state(occ, fr) ==
    IF occ = {} THEN IF fr = {} THEN "unknown" ELSE "free"
    ELSE IF fr = {} THEN "occupied"
    ELSE LET o == NewestOf(occ)
             f == NewestOf(fr)
         IN  IF (IF o >= f THEN o - f ELSE f - o) <= Tolerance \/ o > f
             THEN "occupied" ELSE "free"

(* The occupied voxels of a layer that a query asks for. *)
RemoteOccupied(s, v, fixed, moving) ==
    /\ layer[s].state[v] = "occupied"
    /\ IF v \in layer[s].dynamic THEN moving ELSE fixed

OccupiedStamps(R, v, fixed, moving) ==
    (IF fixed /\ static[v] = "occupied" THEN {At(stamp[v])} ELSE {})
    \cup (IF moving /\ \E d \in obstacles : StaticOf[d] = v THEN {At(stamp[v])} ELSE {})
    \cup {At(layer[s].observed[v]) : s \in {r \in ShownTo(R) : RemoteOccupied(r, v, fixed, moving)}}

RemoteFreeStamps_Undeleted(R, v) ==
    {At(layer[s].observed[v]) : s \in {r \in ShownTo(R) : layer[r].state[v] = "free"}}

(* DELETE leaves its stamp as free evidence. *)
RemoteFreeStamps(R, v) ==
    {At(layer[s].observed[v]) : s \in {r \in ShownTo(R) : layer[r].state[v] = "free"}}
    \cup {layer[s].deleted[v] : s \in {r \in ShownTo(R) : layer[r].deleted[v] # NoTime}}

(* get_fused_voxel_states: a free dynamic voxel speaks for one static one. *)
fused_state(R, v, fixed, moving) ==
    LET fr == (IF static[v] = "free" THEN {At(stamp[v])} ELSE {})
              \cup (IF moving /\ \E d \in free : StaticOf[d] = v THEN {At(stamp[v])} ELSE {})
              \cup RemoteFreeStamps(R, v)
    IN  resolve_fused_voxel_state(OccupiedStamps(R, v, fixed, moving), fr)

get_fused_free_voxels == {v \in Voxels : fused_state(Sources, v, TRUE, TRUE) = "free"}

get_fused_occupied_StaticFreeOnly(fixed, moving) ==
    {v \in Voxels :
        LET occ == OccupiedStamps(Sources, v, fixed, moving)
            here == static[v] = "free"
            fr == (IF here THEN {At(stamp[v])} ELSE {}) \cup RemoteFreeStamps(Sources, v)
        IN  occ # {} /\ resolve_fused_voxel_state(occ, fr) = "occupied"}

(* get_fused_occupied_voxels: a candidate asks for the dynamic voxel at its *)
(* own centre.                                                             *)
get_fused_occupied_voxels(fixed, moving) ==
    {v \in Voxels :
        LET occ == OccupiedStamps(Sources, v, fixed, moving)
            here == static[v] = "free" \/ (moving /\ DynamicOf[v] \in free)
            fr == (IF here THEN {At(stamp[v])} ELSE {}) \cup RemoteFreeStamps(Sources, v)
        IN  occ # {} /\ resolve_fused_voxel_state(occ, fr) = "occupied"}

get_local_occupied_StaticOnly == {v \in Voxels : static[v] = "occupied"}

get_local_occupied_voxels ==
    {v \in Voxels : static[v] = "occupied"} \cup {StaticOf[d] : d \in obstacles}

get_remote_occupied_voxels(s) ==
    {v \in Voxels : Shown(layer[s]) /\ layer[s].state[v] = "occupied"}

(* What the node answers and publishes of them, whether the dynamic layer  *)
(* is enabled or not.  Before the first update the services refuse; of the *)
(* topics, that of one remote source alone is for the source "drone".      *)
handle_get_occupied_voxels(enabled) == get_fused_occupied_voxels(TRUE, enabled)
handle_get_free_voxels == get_fused_free_voxels
stats_timer_callback(enabled) ==
    [occupied |-> get_fused_occupied_voxels(TRUE, enabled),
     local    |-> get_local_occupied_voxels,
     remote   |-> [s \in Sources |-> get_remote_occupied_voxels(s)]]
static_voxel_timer_callback == get_fused_occupied_voxels(TRUE, FALSE)
dynamic_voxel_timer_callback == get_fused_occupied_voxels(FALSE, TRUE)

-----------------------------------------------------------------------------
(* Properties.                                                             *)

(* The two queries answer alike on every voxel that is the only one of its *)
(* dynamic voxel's centre and the other way round, for every choice of     *)
(* layers; and the services never list a voxel as occupied and as free,    *)
(* with the dynamic layer or, where it stays empty, without it.  Not so    *)
(* where the dynamic map is the finer one: a free dynamic voxel off the    *)
(* centre counts for the one list only.                                    *)
OneToOne(v) == \A d \in Obstacles : StaticOf[d] = v <=> DynamicOf[v] = d
NotFiner(v) == \A d \in Obstacles : StaticOf[d] = v => DynamicOf[v] = d
QueriesAgree ==
    call = idle =>
        /\ \A fixed, moving \in BOOLEAN, v \in Voxels :
              OneToOne(v) =>
                 (v \in get_fused_occupied_voxels(fixed, moving)
                    <=> fused_state(Sources, v, fixed, moving) = "occupied")
        /\ \A enabled \in BOOLEAN :
              enabled \/ obstacles \cup free = {} =>
                 \A v \in handle_get_occupied_voxels(enabled) \cap handle_get_free_voxels :
                    ~NotFiner(v)

(* Reference of the fusion policy: a voxel is occupied as long as one of   *)
(* those that say so has not been contradicted later, by more than the     *)
(* tolerance, and everything shown by a map is occupied, free, or unknown  *)
(* to all.                                                                 *)
Stamp(l, v) == Larger(l.observed[v], l.deleted[v])
Claims(v, k) ==
    {At(stamp[v]) : x \in {y \in {1} : static[v] = k}}
    \cup {At(stamp[v]) : d \in {e \in Obstacles : /\ StaticOf[e] = v
                                                  /\ e \in IF k = "free" THEN free ELSE obstacles}}
    \cup {At(Stamp(layer[s], v)) :
             s \in {r \in ShownTo(Sources) :
                      \/ layer[r].state[v] = k
                      \/ k = "free" /\ layer[r].deleted[v] # NoTime}}
OccupiedUntilContradicted ==
    call = idle =>
    \A v \in Voxels :
        fused_state(Sources, v, TRUE, TRUE) =
            IF \E o \in Claims(v, "occupied") :
                  \A f \in Claims(v, "free") : f <= o + Tolerance
            THEN "occupied"
            ELSE IF Claims(v, "free") # {} THEN "free" ELSE "unknown"

(* A test's name: "UnknownDoesNotClearOtherSources".  A source whose last  *)
(* word on a voxel was unknown leaves it to the others, whatever the       *)
(* source said, or deleted, before.                                        *)
Withdrawn(s, v) ==
    \E e \in Said(heard[s], v) :
        e.kind = "unknown" /\ \A f \in Said(heard[s], v) : f.time <= e.time
WithdrawalLeavesOthers ==
    call = idle =>
    \A s \in Sources, v \in Voxels, fixed, moving \in BOOLEAN :
        Withdrawn(s, v) =>
            fused_state(Sources, v, fixed, moving) = fused_state(Sources \ {s}, v, fixed, moving)

(* What is occupied for everybody is so for someone: no voxel is in the    *)
(* topic of the fused map unless the local maps or one layer shown alone   *)
(* has it, and unless the topic of static or that of dynamic voxels, which *)
(* fuse less evidence, shows it too.                                       *)
FusedHasWitness ==
    call = idle =>
    \A enabled \in BOOLEAN :
        LET t == stats_timer_callback(enabled)
        IN  /\ t.occupied \subseteq t.local \cup UNION {t.remote[s] : s \in Sources}
            /\ t.occupied \subseteq static_voxel_timer_callback \cup dynamic_voxel_timer_callback
=============================================================================
