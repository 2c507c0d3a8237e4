---------------------------- MODULE DynamicObstacles ----------------------------
(***************************************************************************)
(* The local maps of bonxai_ros (class BonxaiServer) with the dynamic      *)
(* obstacle layer enabled: a cloud updates the dynamic map, clears tracks  *)
(* its rays pass through, and groups the rest into tracks; a track seen    *)
(* often enough is promoted to the static map.  The static map is saved,   *)
(* loaded and lost with the process.                                       *)
(*                                                                         *)
(* Of the dynamic map's log-odds only this is kept: free evidence leaves a *)
(* voxel occupied or not.  Its voxels lie on a line, where the cubes of    *)
(* the code's neighbourhoods are intervals.  The node spins on one thread, *)
(* so a handler runs alone: a cloud is one step up to the candidates and   *)
(* one per component; a save is one step per file it replaces, for a crash *)
(* may come between.                                                       *)
(***************************************************************************)
EXTENDS Integers, Sequences, FiniteSets

CONSTANTS
    Obstacles,             (* voxels of the dynamic map: places on a line    *)
    Voxels,                (* voxels of the static map                       *)
    StaticOf,              (* dynamic_to_static_coord                        *)
    Connectivity,          (* cluster_connectivity_voxels                    *)
    SpatialTolerance,      (* spatial_tolerance_voxels                       *)
    StabilityHits,         (* static_stability_hits                          *)
    MaxAge,                (* static_stability_time_sec, in clouds           *)
    Logs,                  (* log-odds of a cell, from clamp to clamp; 0 is  *)
                           (* the threshold and the unknown                  *)
    InitialFiles,          (* what the map file may hold at first            *)
    MaxTracks,             (* bound: tracks at a time                        *)
    MaxSaves               (* bound: saves of the map                        *)

ASSUME LineAssumption == Obstacles \subseteq Int /\ IsFiniteSet(Obstacles)
ASSUME StaticOfAssumption == StaticOf \in [Obstacles -> Voxels]
ASSUME ParametersAssumption ==
    /\ {Connectivity, SpatialTolerance, StabilityHits, MaxAge} \subseteq Nat
    /\ {MaxTracks, MaxSaves} \subseteq Nat
ASSUME LogsAssumption == {-1, 0, 1} \subseteq Logs /\ Logs \subseteq Int /\ IsFiniteSet(Logs)

VARIABLES
    static,     (* cells of occupancy_map_, whose update cycle stays at 1    *)
    tracks,     (* dynamic_obstacle_states_, in the order of their ids       *)
    cloud,      (* the cloud in progress, with its components                *)
    saving,     (* the save in progress                                      *)
    files,      (* the map, the point cloud and their temporary files        *)
    background  (* history: cells that were occupied when the map was loaded *)

vars == <<static, tracks, cloud, saving, files, background>>

Cell == [id : 1 .. 4, log : Logs]
File == [save : Nat, cells : [Voxels -> Cell]]
ASSUME FilesAssumption == InitialFiles \subseteq File

NewCell == [id |-> 4, log |-> 0]
AtMost(a, b) == IF a < b THEN a ELSE b
Lowest == CHOOSE l \in Logs : \A k \in Logs : l <= k
Highest == CHOOSE l \in Logs : \A k \in Logs : k <= l
Raise(l) == IF l + 1 \in Logs THEN l + 1 ELSE Highest
Lower(l) == IF l - 1 \in Logs THEN l - 1 ELSE Lowest

isOccupied(v) == static[v].log > 0
addHitPoint(f, v) ==
    IF f[v].id # 1 THEN [f EXCEPT ![v] = [id |-> 1, log |-> Raise(@.log)]] ELSE f

resetPoints(f, S) == [v \in Voxels |-> IF v \in S THEN NewCell ELSE f[v]]

none == [busy |-> FALSE]
NoFile == [save |-> 0, cells |-> [v \in Voxels |-> NewCell]]

Startup(m) ==
    /\ static = m.cells
    /\ background = {v \in Voxels : m.cells[v].log > 0}
    /\ tracks = <<>>

(* load_on_startup, or not. *)
Init ==
    /\ \E m \in InitialFiles :
          /\ files = [map |-> m, pcd |-> m.save, tmp |-> NoFile, tmp_pcd |-> 0, last |-> m.save]
          /\ Startup(m) \/ Startup(NoFile)
    /\ cloud = none
    /\ saving = none

-----------------------------------------------------------------------------
(* Geometry.                                                               *)

Near(d, S, radius) == \E e \in S : e - d \in -radius .. radius

(* cluster_dynamic_voxels: the connected components. *)
cluster(S, seed) ==
    LET radius == IF Connectivity < 1 THEN 1 ELSE Connectivity
        reach[n \in 0 .. Cardinality(S)] ==
            IF n = 0 THEN {seed}
            ELSE reach[n - 1] \cup {d \in S : Near(d, reach[n - 1], radius)}
    IN  reach[Cardinality(S)]
cluster_dynamic_voxels(S) == {cluster(S, d) : d \in S}

Total(S) == LET sum[T \in SUBSET S] ==
                  IF T = {} THEN 0
                  ELSE LET d == CHOOSE d \in T : TRUE IN d + sum[T \ {d}]
            IN  sum[S]

(* The distance of two centroids, times the number of voxels of both. *)
Apart(S, T) ==
    LET gap == Total(S) * Cardinality(T) - Total(T) * Cardinality(S)
    IN  IF gap < 0 THEN -gap ELSE gap
Closer(S, T, U) == Apart(S, T) * Cardinality(U) < Apart(S, U) * Cardinality(T)

clusters_spatially_match(S, T) == \E d \in S : Near(d, T, SpatialTolerance)

dynamic_voxel_overlaps_static(d) == isOccupied(StaticOf[d])

-----------------------------------------------------------------------------
(* Tracks.                                                                 *)

(* Those left without a voxel are erased. *)
Alive(q) ==
    LET left[i \in 0 .. Len(q)] ==
            IF i = 0 THEN <<>>
            ELSE IF q[i].voxels = {} THEN left[i - 1] ELSE Append(left[i - 1], q[i])
    IN  left[Len(q)]

(* clear_dynamic_obstacles_from_rays, of one track, ... *)
Cleared(t, gone) ==
    [t EXCEPT !.voxels = @ \ gone,
              !.coords = @ \ {StaticOf[d] : d \in gone \cap t.voxels}]

(* ... and the static cells it gives back: those it promoted itself. *)
Withdrawn(gone) ==
    UNION {tracks[i].coords \cap {StaticOf[d] : d \in gone \cap tracks[i].voxels} :
             i \in DOMAIN tracks}

(* The observed voxels that the static map does not know already. *)
Candidates(S, f) == {d \in S : f[StaticOf[d]].log <= 0}

(* pointcloud_callback, update_dynamic_obstacle_layer up to the tracks: the *)
(* voxels S were observed, within the sensor's range or beyond it, and gone *)
(* are those that free evidence left unoccupied in the dynamic map.         *)
insert_cloud(S, gone) ==
    /\ cloud = none /\ saving = none
    /\ static' = resetPoints(static, Withdrawn(gone))
    /\ tracks' = Alive([i \in DOMAIN tracks |->
            LET t == Cleared(tracks[i], gone)
            IN  [t EXCEPT !.age = IF t.promoted THEN @ ELSE AtMost(@ + 1, MaxAge + 1)]])
    /\ LET todo == cluster_dynamic_voxels(Candidates(S, static'))
       IN  /\ Len(tracks') + Cardinality(todo) <= MaxTracks
           /\ cloud' = [busy |-> TRUE, observed |-> S, todo |-> todo, parts |-> todo]
    /\ UNCHANGED <<saving, files, background>>

Eligible_Promoted(t, S) ==
    ~t.matched /\ t.age <= MaxAge /\ clusters_spatially_match(S, t.voxels)

Eligible(t, S) ==
    ~t.promoted /\ ~t.matched /\ t.age <= MaxAge /\ clusters_spatially_match(S, t.voxels)

(* The track nearest to a component; of equals the oldest. *)
Best(S) ==
    {i \in DOMAIN tracks :
        /\ Eligible(tracks[i], S)
        /\ \A j \in DOMAIN tracks :
              Eligible(tracks[j], S) =>
                 ~Closer(S, tracks[j].voxels, tracks[i].voxels)
                 /\ (j < i => Closer(S, tracks[i].voxels, tracks[j].voxels))}

NewTrack(S) ==
    [voxels |-> S, hits |-> 1, confident |-> TRUE, age |-> 0, promoted |-> FALSE,
     matched |-> FALSE, coords |-> {}]

Promoted_Forgets(t) ==
    [t EXCEPT !.promoted = TRUE]

Promoted(t) ==
    [t EXCEPT !.promoted = TRUE,
              !.coords = {StaticOf[d] : d \in t.voxels}]

AfterHits(f, S) ==
    [v \in Voxels |-> IF v \in {StaticOf[d] : d \in S} THEN addHitPoint(f, v)[v] ELSE f[v]]

(* A matched track counts a hit, up to StabilityHits, and takes over the   *)
(* component.  Its confidence, a mean of how little the centroid moved,    *)
(* stays high if it did not move at all.                                   *)
update_track(i, S) ==
    \E sure \in BOOLEAN :
        LET t == [tracks[i] EXCEPT
                     !.voxels = S, !.matched = TRUE, !.age = 0, !.confident = sure,
                     !.hits = AtMost(@ + 1, StabilityHits)]
            promote == t.hits >= StabilityHits /\ sure
        IN  /\ tracks[i].confident /\ Apart(S, tracks[i].voxels) = 0 => sure
            /\ tracks' = [tracks EXCEPT ![i] = IF promote THEN Promoted(t) ELSE t]
            /\ static' = IF promote THEN AfterHits(static, S) ELSE static

(* Components come in the order of their first voxels. *)
First(S) == CHOOSE d \in S : \A e \in S : d <= e
match_component ==
    /\ cloud.busy
    /\ \E S \in cloud.todo :
          /\ \A T \in cloud.todo : First(S) <= First(T)
          /\ cloud' = [cloud EXCEPT !.todo = @ \ {S}]
          /\ IF Best(S) = {}
             THEN tracks' = Append(tracks, NewTrack(S)) /\ UNCHANGED static
             ELSE \E i \in Best(S) : update_track(i, S)
    /\ UNCHANGED <<saving, files, background>>

end_cloud ==
    /\ cloud.busy /\ cloud.todo = {}
    /\ cloud' = none
    /\ tracks' = [i \in DOMAIN tracks |-> [tracks[i] EXCEPT !.matched = FALSE]]
    /\ UNCHANGED <<static, saving, files, background>>

(* Tracks without the voxels that the static map has come to know. *)
reconcile_dynamic_with_static_map ==
    Alive([i \in DOMAIN tracks |->
        IF tracks[i].promoted THEN tracks[i]
        ELSE [tracks[i] EXCEPT !.voxels = {d \in @ : ~dynamic_voxel_overlaps_static(d)}]])

(* Before the static map is published, if anyone listens. *)
static_voxel_timer_callback ==
    /\ cloud = none /\ saving = none
    /\ tracks' = reconcile_dynamic_with_static_map
    /\ UNCHANGED <<static, cloud, saving, files, background>>

get_dynamic_obstacle_voxels ==
    UNION {tracks[i].voxels : i \in {j \in DOMAIN tracks : ~tracks[j].promoted}}

-----------------------------------------------------------------------------
(* Files.  A file is a copy of the map, numbered by the save that wrote it. *)

(* save_static_map writes both temporary files, which may fail, ... *)
save_temporary ==
    /\ cloud = none /\ saving = none
    /\ files.last < MaxSaves
    /\ \E written \in BOOLEAN :
          /\ files' = [files EXCEPT
                !.last = @ + 1,
                !.tmp = IF written THEN [save |-> files.last + 1, cells |-> static] ELSE NoFile,
                !.tmp_pcd = IF written THEN files.last + 1 ELSE 0]
          /\ saving' = IF written THEN [busy |-> TRUE, next |-> "map"] ELSE none
    /\ UNCHANGED <<static, tracks, cloud, background>>

rename_map_PcdFirst ==
    /\ saving.busy /\ saving.next = "map"
    /\ files' = [files EXCEPT !.pcd = files.tmp_pcd, !.tmp_pcd = 0]
    /\ saving' = [saving EXCEPT !.next = "pcd"]
    /\ UNCHANGED <<static, tracks, cloud, background>>

(* ... then puts them in the place of the old ones, the map first. *)
rename_map ==
    /\ saving.busy /\ saving.next = "map"
    /\ files' = [files EXCEPT !.map = files.tmp, !.tmp = NoFile]
    /\ saving' = [saving EXCEPT !.next = "pcd"]
    /\ UNCHANGED <<static, tracks, cloud, background>>

rename_pcd ==
    /\ saving.busy /\ saving.next = "pcd"
    /\ files' = [files EXCEPT !.pcd = files.tmp_pcd, !.tmp_pcd = 0]
    /\ saving' = none
    /\ UNCHANGED <<static, tracks, cloud, background>>

(* A rename fails and is thrown out of the save. *)
rename_fails ==
    /\ saving.busy
    /\ saving' = none
    /\ UNCHANGED <<static, tracks, cloud, files, background>>

Loaded(m) ==
    /\ static' = m.cells
    /\ background' = {v \in Voxels : m.cells[v].log > 0}

load_KeepsTracks ==
    /\ cloud = none /\ saving = none
    /\ files.map # NoFile
    /\ Loaded(files.map)
    /\ UNCHANGED <<tracks, cloud, saving, files>>

load_static_map ==
    /\ cloud = none /\ saving = none
    /\ files.map # NoFile
    /\ Loaded(files.map)
    /\ tracks' = <<>>
    /\ UNCHANGED <<cloud, saving, files>>

(* The process dies at any point and starts again, with or without the     *)
(* map; temporary files stay behind and are never read.                    *)
crash ==
    /\ Loaded(files.map) \/ Loaded(NoFile)
    /\ tracks' = <<>>
    /\ cloud' = none
    /\ saving' = none
    /\ UNCHANGED files

Next ==
    \/ \E S \in SUBSET Obstacles \ {{}}, gone \in SUBSET Obstacles : insert_cloud(S, gone)
    \/ match_component
    \/ end_cloud
    \/ static_voxel_timer_callback
    \/ save_temporary
    \/ rename_map
    \/ rename_pcd
    \/ rename_fails
    \/ load_static_map
    \/ crash

Spec == Init /\ [][Next]_vars

-----------------------------------------------------------------------------
(* Properties.                                                             *)

Track ==
    [voxels : SUBSET Obstacles, hits : Nat, confident : BOOLEAN, age : Nat,
     promoted : BOOLEAN, matched : BOOLEAN, coords : SUBSET Voxels]
Clouds ==
    [busy : {TRUE}, observed : SUBSET Obstacles, todo : SUBSET SUBSET Obstacles,
     parts : SUBSET SUBSET Obstacles]
TypeOK ==
    /\ static \in [Voxels -> Cell]
    /\ tracks \in Seq(Track)
    /\ cloud \in Clouds \cup {none}
    /\ saving \in [busy : {TRUE}, next : {"map", "pcd"}] \cup {none}
    /\ files \in [map : File, pcd : Nat, tmp : File, tmp_pcd : Nat, last : Nat]
    /\ background \subseteq Voxels

(* What the node saw in a cloud it shows when the cloud has been handled:  *)
(* in the static map or in an unpromoted track.  The exception is a static *)
(* cell whose hit of the map's only cycle is spent and did not make it     *)
(* occupied: there a promotion hides what it promotes; and a component     *)
(* within the tracker's tolerance of a later one of the cloud, though not  *)
(* connected to it: if it made a new track, the later one takes that over. *)
Spent(v) == static[v].id = 1 /\ static[v].log <= 0
Absorbed(d) ==
    \E S, T \in cloud.parts :
        S # T /\ d \in T /\ First(T) <= First(S) /\ clusters_spatially_match(S, T)
ObservedIsShown ==
    cloud.busy /\ cloud.todo = {} =>
        \A d \in cloud.observed :
            \/ isOccupied(StaticOf[d])
            \/ d \in get_dynamic_obstacle_voxels
            \/ Spent(StaticOf[d])
            \/ Absorbed(d)

(* "This lets promoted obstacles remain reversible": a cell is occupied    *)
(* only because it was so when the map was loaded, or as long as the track *)
(* that promoted it can still withdraw it, ...                             *)
PromotionIsReversible ==
    \A v \in Voxels : isOccupied(v) =>
        \/ v \in background
        \/ \E i \in DOMAIN tracks :
              /\ tracks[i].promoted /\ v \in tracks[i].coords
              /\ \E d \in tracks[i].voxels : StaticOf[d] = v

(* ... "while known background remains excluded from the dynamic delta":   *)
(* no cloud erases what was loaded, nor shows it as an obstacle.           *)
BackgroundIsKept ==
    \A v \in background :
        isOccupied(v) /\ \A d \in get_dynamic_obstacle_voxels : StaticOf[d] # v

(* After a crash anywhere the map file is a whole map, that of the newest  *)
(* save that got as far as its rename, and the point cloud is its own or   *)
(* an older one, never a newer.                                            *)
FilesInOrder ==
    /\ files.map.save <= files.last
    /\ files.pcd <= files.map.save
=============================================================================
