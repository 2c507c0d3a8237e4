# Rolling-Bonxai in TLA+

A model of this repository: the sparse voxel grid, the occupancy map over it, the
rolling map that keeps only the chunks around the robot in memory, and the server
that fuses the maps of several robots. The modules are checked with TLC on small
instances, and the results of section 4 are proved with TLAPS for every value of the
constants. `PROJECT.json` maps each definition to the lines it models.

## 1. The system

Two programs share one library. In the first, a point cloud arrives in the callback of
`rolling_bonxai_ros` and goes through `RollingOccupancyMap::insertPointCloud`: rays
update the chunks in memory, then `updateRolling` promotes finished loads, asks
`TransitionManager` whether the reference chunk changed and, if so, requests the chunks
the policy wants and evicts the others. Loads and saves go to `AsyncChunkManager`,
whose threads use `FileStorageBackend`. In the second, `bonxai_ros` keeps a static map,
a dynamic obstacle map and one layer per remote robot, and answers queries over all.

| Component | State | Operations | Talks to |
|---|---|---|---|
| `AsyncChunkManager` | load queue (by priority), save queue (FIFO), `pending_loads_`, `inflight_saves_`, `stop_`, threads | `loadAsync`, `isLoading`, `saveAsync`, `waitForPendingSaves`, destructor, both worker loops | futures and counters to the map; files through the backend |
| `ThreadSafeQueue`, `ThreadSafePriorityQueue` | queue, `shutdown_` | `push`, `pop`, `shutdown` | the manager's threads |
| `RollingOccupancyMap` | `active_chunks_`, `pending_loads_` (futures), `chunk_metadata_` | `updateOccupancy`, point queries, `pollPendingLoads`, `performTransition`, `isStatsStable`, clean-up, destructor | manager, transition manager, policy, coordinate system |
| `ManagedChunk`, `HashMapChunkStorage` | one map and its dirty flag per coordinate | `getMutableMap`, `transferMapOwnership`, insert, erase | the map |
| `TransitionManager` | reference and previous chunk, five states | `shouldTriggerTransition` | coordinate system |
| `ChunkCoordinateSystem` | chunk and voxel size | rounding, bounds, boundary distance, neighbours, voxel conversions | everybody |
| Policies | none; read the chunk metadata | `shouldLoad`, `shouldEvict`, `getPriority` | the map |
| `FileStorageBackend` | a chunk file and a time stamp file per coordinate | `save`, `load`, time stamps | load and save threads at once |
| `bonxai_map::OccupancyMap` | grid of log-odds cells with a two-bit `update_id`, hit and miss buffers, cached accessors | `insertPointCloud`, `addHitPoint`, `addMissPoint`, `resetPoint`, `updateFreeCells`, `releaseUnusedMemory` | grid |
| `bonxai_core` | root map, inner and leaf grids with masks, the cached leaf of each accessor | accessors, `forEachCell`, `releaseUnusedMemory`, `Serialize`, `Deserialize` | occupancy map, backend |
| `bonxai_ros` server | remote layers per robot (epoch, version, times), dynamic tracks, static map file | delta callback, fused queries, clearing, promotion of dynamic obstacles, save and load of maps | other robots |
| `rolling_bonxai_ros` server | the map | point-cloud callback, clean-up service, statistics | the map, on one executor thread |

What is hard in it, with what would make it correct:

- **Interleaving.** A load worker answers its promise and only later leaves the
  pending table; a save worker truncates a file and only later fills it; the
  main thread runs in between; a load and a save rewrite the same time stamp. Each
  coordinate must have one load under way, each promise one answer, each save one
  count, and a chunk must not be lost.
- **Shutdown and crashes.** The destructor must wake and join every worker whatever
  the queues hold, while callers' pushes may throw, and members die in an order. A
  process that ends between two writes must leave files that a restart understands.
- **Order.** Saves of one chunk must land in order; a chunk evicted clean must
  equal its file; a chunk is active or pending, never both.
- **The network.** Deltas are lost, late, repeated or from before a restart. Whatever
  arrives, a layer must show the newest it was told, and not be blanked.
- **Boundaries.** Rounding and half-open bounds, hysteresis on faces, edges and
  corners, jumps of several chunks, voxels and rays that meet a chunk's boundary,
  words of a mask.
- **Time and identity.** Cells marked by a counter modulo three, over clouds,
  messages and files; the age of a chunk that was wanted before it was loaded; leaves
  cached by an accessor and freed by another.
- **Reversal.** A dynamic obstacle promoted to the static map must be withdrawn when
  it leaves, and nothing else with it; a voxel one robot withdraws must stay with the others.

## 2. Modules

    LoadService  <--refines--  AsyncChunkManager  <--INSTANCE--  RollingOccupancyMap

    TransitionManager  <--  RayDispatch        Rays  <--  OccupancyMap, RayDispatch

    RemoteFusion  <--  FusedMap                Masks  <--  VoxelGrid

    ChunkFiles      ChunkPolicies      DynamicObstacles

Each composition has an `MC` module with its instance (`RayDispatch` is checked in that of
`TransitionManager`), and `<Module>Proofs` holds what is proved of it (`FusedMap` with `RemoteFusion`, and
`ChunkPolicies` with `TransitionManager`: which chunk is the reference, and which chunks
follow from it).

**`AsyncChunkManager`** is the core. One step is one section under a mutex or
one atomic operation, so that everything another thread can see between two
sections is a state:

- A load worker goes through `check` (tests `stop_`), `pop`, `load` (reads the
  file), `fulfil` (sets the promise), `remove` (leaves `pending_loads_`).
- A save worker goes through `check`, `pop`, `open` (truncates the file),
  `write`, `settle` (uncounts the save), `notify`.
- `saveAsync` counts the save in one step and pushes it in the next (`enq` holds
  it in between). `loadAsync` is one step: all of it after the stop flag runs
  under `pending_loads_mutex_`, and the flag cannot rise inside the call because
  the thread that would raise it is the one that calls. The path on which a save's
  push finds the queue shut is kept, because the code handles it.
- `future[c]` is the caller's end of the latest promise of `c`.
- A file is absent, torn (open for writing, or left so) or whole with a content.
  Reading a torn file may give any grid, as the code checks no stream state; a
  failing read gives the factory's empty map.
- `waitForPendingSaves` tests its predicate, then parks, and can be overtaken by
  the notification in between, since the workers do not hold its mutex. Spurious
  wake-ups are left out: they only test again.
- The catch block of the load worker is left out: `FileStorageBackend::load`
  catches everything itself, so no exception reaches it.

**`LoadService`** is what a caller is promised: a coordinate has at most one
load, an accepted load is answered at most once, and only the end of the manager
breaks a promise. `ServiceSpec` is the refinement: open loads are those queued or
with a worker that has not answered; answered ones are those whose worker has not
left the table yet.

**`RollingOccupancyMap`** is the main thread over an instance of the manager. It
moves through `idle`, `poll`, `loadRef`, `loadOthers`, `evict` and, in the
destructor, `dying`; loops visit their coordinates in any order, since they run
over hash tables. A chunk's content is the set of observations made in it, so
that a lost or stale chunk shows as a missing observation; `observed` remembers
all of them, and `raced` the chunks read while their own save was still under
way. Rays are abstracted to the set of active chunks a cloud touches (`RayDispatch`
has them), the transition manager to any new reference chunk, the policy to a
table of wanted sets (`ChunkPolicies` has it). The destructor follows the order in
which C++ destroys the members.

**`ChunkPolicies`** is `performTransition` seen from `chunk_metadata_`: which chunks
are active, asked for or dropped under each of the three policies, when each was
first dated, and how a load that is answered after the robot went on (`Late`) stays
until the next transition. Coordinates are triples, for the planar policy compares
heights. `born` remembers when a chunk was first really loaded, `tainted` the chunks
that were the reference before that, whose entry the code default-constructs with
creation time zero, and `excused` the loads that failed or came late. `answered` are
the chunks of which `isLoading` is still true because their worker has set the promise
and not yet left the manager's table; a transition asks of each and requests no chunk of
which it is told so. A worker may take any time to leave (of the chunks of `Late`).

**`TransitionManager`** is the state machine on the grid of
`ChunkCoordinateSystem`. Positions are integers on a lattice where a chunk is
`2 * Half` wide, so that boundaries, centres and thresholds are exact. `crossedAt`
remembers where the last transition was confirmed. The two steps in which the
code stores `STABLE_NEXT` and then replaces it are one, since no other code runs
in between.

**`RayDispatch`** puts voxels on the same lattice and dispatches a point: the chunk of
its end, the ray between the voxels, the chunk of each voxel of the ray with the
bounds the code caches from the voxel before, and where the point queries look.
**`Rays`** is `RayIterator`, for this module and `OccupancyMap`, with its reference
`OnRay`.

**`OccupancyMap`** is the grid of `bonxai_map`. One map is owned by the server
("cloud": endpoints first, then `updateFreeCells` traces the rays; `insertPointCloud`
is the loop over the points), by the rolling map as a chunk ("dispatch": each point's
endpoint, then its ray, through `addMissPoint`), or by a remote layer ("delta":
`resetPoint`, then a hit, a miss or nothing). The three drive the same cells in
different orders, and only `update_id` keeps a voxel from being updated twice in a
batch. `cells`, `update_count` and `ends` (both coordinate buffers; their order and
duplicates do not matter, since rays only miss voxels not yet updated) are members.
The rest is history: the batch that last updated each voxel, its log-odds when the
batch began, and the first evidence of the batch. From these the reference
`ExpectedLog` says what a batch should add up to, with rays by fraction (`OnRay`) and
not by accumulated error. Log-odds are small integers in place of the scaled
logarithms. `Reload` writes the grid with its ids and starts a new map over it, as an
evicted chunk or the static map does.

**`VoxelGrid`** is the tree under it: a root map of inner grids of leaves, each with
the mask of **`Masks`** (words, `findNextOn`, iteration), the keys and indices of a
coordinate, and three accessors with the leaf each has cached: the one an
`OccupancyMap` keeps, a client's and a read-only one. Freed leaves are `Dangling`, so
that an accessor that uses one shows it. `reload` is `Serialize` followed by
`Deserialize`, cell by cell in the order of the masks: reading finds the end of a leaf or
an inner grid, where the next one begins, from what its mask says is there. Sides count
cells along an axis (`1 << INNER_BITS`, `1 << LEAF_BITS`).

**`ChunkFiles`** is the backend file by file, for one chunk: several threads save and
load, each open, write and close of the chunk file and of the time stamp file is a
step, and the process may end between any two. `alone` in an operation tells whether
another call touched the file meanwhile; `saved`, `loads` and `born` are what the
files should tell, `broken` and `raced` that a crash or an overlap put them in doubt.

**`RemoteFusion`** is the `VoxelDelta` callback. A robot observes, publishes deltas
or full refreshes, forgets, and restarts with a new epoch; the network is the set of
everything sent, any of which may be delivered at any time, never, or again. A full
refresh is applied entry by entry outside the lock, so it is several steps; deltas
run under it, but are taken in the same steps. Mode 4 ("evidence") accepts any epoch
and opens layers by a sentinel; the others ("map") follow versions. `heard` is what
the layer was told since it was reset, `gap` that a version was skipped, `contact`
the epochs in the order first heard.

**`FusedMap`** adds the local static and dynamic maps, of different resolutions, and
the fused queries behind the services and the topics: one looks up the dynamic voxel at a
static voxel's centre, the other all dynamic voxels whose centres lie in it. A cloud
changes one dynamic voxel at a time: whether it is free, whether it is in a track, and its
static cell are independent of each other, since evidence adds up and a track may hold
voxels that no ray reached. Of clouds without the dynamic layer, which write the static
map directly, the run has the states a loaded map gives; the proofs use only the types of
the local maps.
**`DynamicObstacles`** is the life of a track in the local node: a cloud clears what its
rays pass through, the rest is clustered, matched to tracks and promoted; a promoted track is withdrawn with its voxels; the
static map is saved through temporary files, loaded, and lost in a crash. Geometry is
on a line, where the code's cubes are intervals.

**Broken variants.** Operators like `Touched_NotMarked` or
`LoadPop_Unregisters` are the definition that follows them with one plausible bug
in it. No action uses them; `PROJECT.json` names the property that each of them
must violate, which shows that the property can fail.

## 3. Runs

| Run | Instance | Shows |
|---|---|---|
| `async_safety` | 2 chunks, 2 priorities, 2 load workers, 1 save worker, 3 calls, I/O on, the files of one chunk may fail | one load per coordinate, promises set once, exact save count, sound wait, ordered saves, refinement of `LoadService`; 476,000 states |
| `rolling_safety` | 3 chunks in a row, radius 1, 1 load and 1 save worker, 1 observation, 3 transitions, the files of one chunk may fail | chunks are active or pending, data is lost through one race only, clean chunks equal their files, stable means quiet; 635,000 states |
| `rolling_liveness` | the same with 2 transitions and all files failing at will | every requested chunk is promoted while clouds keep coming, the destructor returns; 69,000 states |
| `transition` | 2 axes, chunks of 4 units and 2 voxels, positions -5..5, hysteresis 25% | the reference lags by at most one chunk, no thrashing, no needless delay, where the machine throws, where evidence is kept and looked for; 30,000 states |
| `occupancy` | 3 voxels and an endpoint outside, 2 sensor positions, each kind of owner, 4 batches, reloads | what ids mean, a batch against its reference, remote evidence; 268,000 states |
| `voxel_grid` | leaves of 8 cells in 2 words, 4 voxels in 2 roots and 3 leaves, 3 accessors | the tree is a map, accessors answer like it, through release and reload; 44,000 states |
| `chunk_policies` | 3 reference chunks, one higher, whose loads may be late and whose worker slow; radius 1, two bands, ages of 2 ticks of 4 | what is wanted is served but in one window, what is not wanted came late, young chunks stay; 60,000 states |
| `chunk_files` | 2 save workers, 1 load worker, 6 ticks, 1 crash | no stamp without a chunk, loads give the last save, stamps tell the truth; 490,000 states up to symmetry |
| `remote_fusion` | 1 robot, 2 cells over 2 voxels that overlap, 3 ticks, 2 epochs, 1 refresh, both modes | the newest wins, a layer with no gap is the robot's map, epochs, no blanking; 425,000 states |
| `fused_map` | 2 robots of mode 4, a dynamic map twice as coarse, 3 ticks | queries agree with each other and with the policy's reference, services never call a voxel both occupied and free, a fused voxel has a witness in the topics; 1,261,000 states |
| `dynamic_obstacles` | 3 dynamic voxels over 2 static ones, 2 tracks, 2 saves, 3 initial maps | what is seen is shown, promotion is reversible, background is kept, files belong together; 81,000 states |
| `factories_outlive_calls` | as `rolling_safety` | refutes one sentence of the code's comments (section 6) |

*Why the bounds are enough.* A load worker only ever meets another worker through
the queue and the table, so two workers and two coordinates give every pair of
(same, other) coordinate and worker. Three calls give a load with two saves of the
same chunk, or two loads with a save, together with the destructor at any moment.
In the map, three chunks in a row with radius 1 are the smallest grid in which a
move evicts one chunk and loads another; three transitions allow the start, going
away and coming back, which is the shortest story in which a chunk is evicted and
wanted again. One observation is enough to be lost. On the lattice, nine chunks
cover faces, edges, jumps and both signs, and a quarter of a chunk of hysteresis
is one unit, so that positions before, on and past the threshold exist; a voxel is
two units, so that a position is a corner, an edge or the centre of one, and rays
cross chunk boundaries forwards, backwards and diagonally. In
the occupancy map four batches are the first in which a cycle number comes back;
the three voxels and the sensor positions give straight, diagonal and rounded rays in
both directions, that pass through another endpoint or end outside the map, and
clamps of one miss and two hits are reached within a run. `RayIteratorAgrees`
compares the ray iteration with its reference on a grid of 13 by 13 voxels (`RaysAgree` of
section 4 proves it of any). The voxels
of the grid lie on both sides of zero, two in one leaf and on both sides of a word of
its mask, two leaves in one root. A chunk's age of two ticks out of four lets it be
young, old, and loaded anew; the three reference chunks move along the plane, up
across the band and by a jump. Three calls at one file, one of them a load, and six
ticks give each pair of calls overlapping, in both orders, and a restart between any
two writes. Three ticks and two epochs give three messages of which any may overtake
any, from before and after a restart; the two cells of a robot share a voxel, so that
one cell's tombstone meets the other's claim. Two robots are the fewest of which
one can be wrong about the other. Two saves give a crash after which an older
point cloud stands beside a newer map.

The bounds are `MaxCalls`, `MaxMoves`, `MaxSaveQueue`, `Reach`, `MaxBatches`,
`MaxClock`, `MaxTime`, `MaxCrashes`, `MaxEpoch`, `MaxRefresh`, `MaxTracks` and
`MaxSaves`; no variable of the code is capped otherwise. `MaxSaveQueue` is never
reached in `rolling_safety` (three evictions need three transitions) and is a bound on
the callers elsewhere. The two save workers of `chunk_files` are symmetric, and no
liveness is checked there.

*Deadlock* is checked wherever the system can go on. An occupancy map at its last
batch can still be reset or observed. The manager ends in `Gone` and the map in
`Dead`, which are the destroyed objects. `chunk_files`, `remote_fusion`, `fused_map`
and `dynamic_obstacles` stop at their bounds of time, saves or tracks.

*Fairness.* Each worker thread is weakly fair on its loop: the operating system
schedules runnable threads, and a worker's step stays enabled until it takes it.
The rest of a `saveAsync` call and of a `waitForPendingSaves` call, and a
destructor that was entered, continue. Nobody has to call anything. In
`rolling_liveness` the main thread is also weakly fair: the sensor keeps
publishing and the executor keeps calling back. `LoadsPromoted` needs that new loads
are not accepted for ever, because a priority queue may starve a request behind them;
it gets it from `MaxMoves`. The network of `RemoteFusion` may lose anything, so
nothing is asserted of what must arrive.

## 4. Proofs

Every theorem below is checked by TLAPS and holds for all values of the constants that
satisfy the `ASSUME`s of its module, which TLC evaluates on each run.

`AsyncChunkManagerProofs`: any sets of coordinates, grids, priorities and load
workers, any finite set of save workers. Four layers:

1. `TypeBase`: all types except the sign of `inflight`. It is inductive by itself.
2. `LoadInv`: the pending table is the queued requests plus the busy workers',
   all distinct, **and the futures that wait are exactly the requests not
   answered**. The last part is the strengthening: `PromiseSetOnce` says nothing
   of a request still in the queue, and popping it needs to know that its future
   waits. `OneLoadPerCoord`, `PromiseSetOnce` and the refinement `ServiceImplemented`
   follow.
3. `SaveInv`: `InflightExact`, and that a destroyed manager has no worker left.
   The count is tied to a cardinality, so each step of a save worker adds itself
   to the busy ones, leaves them, or neither (`SaveBusyStep`). That the count
   never underflows, and with it the full `TypeOK`, follows, and so does `WaitSound`.
4. `LastInv`, with one save worker: what was saved last of a chunk is in the newest
   request for it in the queue; if none is queued, with the worker; if it has none, on
   the disk. `PushNewest` and `PopNewest` say what the two ends of the queue do to the
   newest request of each chunk. `LastSaveWins` is the third case.

`RollingOccupancyMapProofs`: any grid of chunks, table of wanted sets, workers and
set of chunks whose files fail, from `MapAssumption`. Each step of the map is a step
of its manager or leaves it alone (`StepIsManagerStep`), so the
manager's invariants carry over through an instance of its proofs. With them,
`DisjointInv` gives `ActivePendingDisjoint` (a request is made for inactive chunks
only, and promotion leaves the table in the same step), and `FuturesTracked` needs
from the manager that a worker fulfils only promises that wait.
`StableIsQuiet` is then a consequence of the exact count and the exact table.
`ManagerImplemented` closes the chain: the map's specification implements the manager's,
and through it `LoadService`.

`OnlyRacesLose` and `CleanChunksAreOnDisk` follow a chunk through its life (`HistoryInv`,
for one save worker and chunks that were never read while their own save was under way).
While it is active, no save of it is under way, it holds all that was observed, and if it
is clean it equals its file (`ActiveKept`). While it is away, what was saved last of it
holds all that was observed, and an answer on its way back is a copy of the file, read
when no save was left (`AwayKept`). The step that needs `LastInv` of the manager is the
answer: that the file a quiet chunk was read from is its last save (`QuietIsSettled`).
`EvictsActive` keeps the loop that evicts from meeting a chunk twice.

For `ChunkPolicies` (in `TransitionManagerProofs`, which extends it too): any reference
chunks, radius, bands and age, any loads that are late or fail, and any number of workers
slow to leave the table. The strengthening is `Dates`: only a chunk that was the
reference before it was loaded can have a date other than that of its first load. The
rest is geometry: `InZoneIs` shows that what the documentation calls the zone is what
`shouldLoad` computes, through the maximum over three axes (`WithinIs`).

`ChunkFilesProofs`: any number of save workers, ticks and crashes, one load worker.
`OrderInv` adds to `StampHasChunk` that a call past its first step has left a chunk file
(`FileFirst`). `ReadInv` has what is true in the middle of a save: of the writers at
most one is alone, while somebody writes the file is torn, when nobody does it is the
last save's, and a lone reader sees just that, all of them unless a crash or an overlap
left the file in doubt. `StampInv` gives `StampAccounts`: as long as no two updates of
the stamp overlapped there is one at most, and it carries the account of loads and saves
that the file holds before and after it; the time of change may lag behind the save whose
own update is still to come.

`TransitionManagerProofs`: any number of axes, size of a chunk, hysteresis ratio and
reach. `Held` says where the robot can be while the reference chunk is not its own (next
to it, less than a zone past the boundary), `Crossed` what is remembered of the last
transition. Minima and maxima over the axes exist because a finite set of integers has a
largest element (`LargestExists`, an induction by smallest counterexample over
subsets), and each operator that takes one is first characterised by a lemma.
`NoThrashing` then adds two zones on the axis whose boundary is crossed twice (`ZonesAdd`).
For `RayDispatch`, `Placed` says where evidence can be (in the chunk that spans its voxel
or, along an axis, in the one its corner is rounded to); the endpoint, every voxel of a
ray and both queries are shown to give such a place, and `EvidenceIsFound` follows
(`DispatchIsFound` has it for any set of active chunks and any point, not only around the
first chunk, which is where TLC looks). The dispatch along a ray is a recursive function:
see the rays below for how it is reasoned about.

`OccupancyMapProofs`: any grid in any number of dimensions, any sensor
model and clamps around the threshold, and any number of batches. The inductive
invariant `Inv` adds to `IdTellsBatch` what the middle of a batch looks like:
`BatchSoFar` (each voxel shows its log-odds at the start, changed by the first
evidence alone), `EndsTaken` (the buffers of a cloud are exactly the endpoints that
count), `EndsSeen` (a batch that updated a voxel has an endpoint, so
`updateFreeCellsPreRayTrace` cannot return early and leave the cycle open) and
`DeltaResets`. `NewMeans` is the hinge: a cell is open to an update exactly when the
batch has not seen its voxel and its id is no alias. `BatchResultHolds` also needs
`RaysAgree`: the iteration of a ray, which accumulates an error on each axis, visits the
voxels that the fractions of its length give, for any two voxels in any number of
dimensions. The iteration is a recursive function and the library's induction cannot be
applied, so the proof does without: the closed form (`OnAxis`) satisfies the function's
equation, hence some function does, and a function that does cannot first differ from it
at any index (`LeastIndex`: a set of indices has a least one).

`RemoteFusionProofs`: any number of robots, overlap of voxels, epochs and time stamps,
and a network that loses, delays, repeats and reorders as it likes. `IInv` puts beside
`NewestWins` that a layer never opened was told nothing (`SilentInv`) and that the copy
a message works on shows a newest entry of what it was told so far, in the middle of
the message too (`CopyInv`). `EpochInv` gives `NewestEpochShown`: the epochs a layer of
mode 4 ever heard of are those it retired and the one it shows, so that an epoch it
has not heard of is new and one it left is refused, and the copy under way retires
what its layer would (`CallEpoch`). `VersionInv` gives `UpToDate`: the deltas of an epoch up
to a version are the story of the robot so far; its memory and each full refresh summarise
that story (`SentInv`, `RobotInv`), and so does what a layer was told if it skipped no
version (`LayerInv`), in the middle of a message too (`CallInv`). Versions order the
deltas and their times alike (`TimesTell`), so that the newest entry of a cell is that of
the newest version.

For `FusedMap`, with any two resolutions, tolerance and local maps, `ResolveIs` gives
the fusion policy in closed form: occupied if some claim stands against all that was said
to the contrary. With it `OccupiedUntilContradicted`, `QueriesAgree` and
`FusedHasWitness` compare sets of claims, given that of the two times a layer keeps for a
voxel one is always unset (`LayerIs`, from `NewestWins`). `WithdrawalLeavesOthers` has a
history: `TimesInv` says that every entry anywhere was published, at a time of its own, so
that a last word that was unknown is the entry the layer shows. The proof of
`QueriesAgree` found what the run's instance cannot show, and the property now says:
where the dynamic map is the *finer* one, a voxel can be in the services' occupied and
free lists at once (`NotFiner`).

`DynamicObstaclesProofs`: any finite set of voxels on the line, any map from them to the
static voxels, any tolerances, ages, hits and clamps, any number of tracks and saves. Four
invariants that do not need each other. `FilesInv` says what both temporary files hold
between the steps of a save. `BackgroundInv` adds to `BackgroundIsKept` that no track of
any kind, and no component that waits to become one, is over a background cell, so that
none is ever withdrawn. `PromotionIsReversible` is inductive as it stands: a cell is left
without a voxel of its track only by the step that withdraws it. `CloudInv` follows each
observed voxel through the cloud: it is in the static map, in a component that waits, or
in an unpromoted track that this cloud made or matched. That a new track is not among the
matched ones is where the first attempt failed, and what it found is in the property now
(`Absorbed`, section 6). `AliveIs` and `ClusterIs` say what the two recursive functions,
which erase tracks and grow components, return.

`VoxelGridProofs`: words of any width, any sides whose cells fill whole words or part of
one (as the code's powers of two do), any finite set of voxels, any values. The inductive
invariant says that the tree `Stores` the last value of each voxel and no cell more, mask
and cells in step on both levels, and that what each accessor `Remembers` is in the tree,
where its keys say. Its steps rest on a chain of closed forms, each for all inputs:
a voxel is put together again from its root key and its two indices, so that two voxels
never share a cell (`KeysAre`, `OneVoxel`: quotients and rests are unique); the search of a
mask, word by word, gives the next bit that is on (`findNextOnIs`), so that an iterator
meets each bit once (`beginOnIs`); an accessor, from whatever it remembers, finds or makes
the leaf of its voxel and leaves every other one alone (`getLeafGridIs`, `cached_leafIs`);
releasing takes empty leaves only (`ReleasedIs`); and a grid that was written is read back
(`DeserializeIs`: by induction over the positions at which leaves and inner grids end).
`GridIsMap` adds that `forEachCell` visits, and `activeCellsCount` counts, the voxels with
a value (`VisitIs`, `CountIs`).

Recursive functions are reasoned about in the same way everywhere: a function that
satisfies the equation exists, for no length is the first for which none does
(`Iterates`), and what it computes is wrong at no first index (`LeastIndex`).

*Only model-checked:* liveness (`LoadsPromoted` and `DestructorReturns`; fairness and
`ENABLED` are out of the prover's reach) and `RayIteratorAgrees`, which `RaysAgree` has for
any rays. Every safety property of a run is stated by a theorem.

## 5. Not modelled, and the plan

Left out on purpose:

- Logging, statistics and queries that only read; message and launch files; the
  benchmark; parameters, transforms and publishing of both servers.
- The byte layout of files, and the directory and file names.
- `GridBlockAllocator`, which only grids of trivial cells use (no map here has one);
  `clear(CLEAR_MEMORY)` and moves of a grid, which have no caller; `ChunkStorage`'s
  vector and deque, which only the benchmark uses. `setCellOff` and
  `clear(SET_ALL_CELLS_OFF)` are modelled although only the grid itself calls them:
  without them `releaseUnusedMemory` finds no leaf to free, and in production it finds
  none.
- The server's gates on localization and operating mode, and clipping to a bounding box,
  which only decide whether a handler runs.

Approximations: positions, boundaries and log-odds are exact integers where the code has
floating point. `OnlyRacesLose` lets a raced chunk come back as anything, and the
chunks of `rolling_safety` whose files fail are excluded from what it promises.

Worth doing next: the chunks of `RollingOccupancyMap` filled by `OccupancyMap` itself,
whose batches a chunk sees only when a ray enters it; two robots that each fuse the other, where
`FusedMap` has one local node.

## 6. Where the code and its words differ

Each is pinned by a property that says exactly when it happens, or by a run that shows
that it does.

- *One operation per file.* "Since each operation targets a different file (keyed
  by ChunkCoord), this is safe for FileStorageBackend" (`async_chunk_manager.hpp:84`).
  A chunk evicted and wanted again is read while its save is queued or under way.
  `OnlyRacesLose` shows that this is the only way the map loses data.
- *The reference chunk is always requested.* "The current chunk is ALWAYS loaded
  with maximum priority" (`rolling_occupancy_map.cpp:381`). A worker that has
  answered (`async_chunk_manager.cpp:247`) but not left the table (line 251) makes
  `isLoading` true, and the request of a chunk promoted, evicted and wanted again is
  skipped until the next transition, that of the reference chunk too.
  `WantedIsServed` excepts the chunks of this window (`answered`), failed loads and
  chunks dated by the clock, and shows that no other goes unserved.
- *The factories outlive their calls.* "this outlives all factory calls"
  (`rolling_occupancy_map.cpp:102`). They are destroyed before the threads are joined
  (`FactoriesOutliveCalls`).
- *Outside the chunk.* "Should never happen" (`transition_manager.cpp:199`). On the
  upper boundary of a chunk at negative coordinates it does, and
  `shouldTriggerTransition` throws; `ThrowsOnUpperBoundary` shows that it throws
  nowhere else.
- *The boundary belongs to the next chunk.* (`coordinate_system.hpp:269`.) For the lower
  corner of a voxel at negative coordinates it does not, so that rays and hits of such a
  voxel go to two chunks; `EvidenceIsFound` shows that no other voxel is split.
- *Endpoints are marked.* "If within max_range: mark endpoint as HIT"
  (`occupancy_map.hpp:490`). A voxel last updated a multiple of three clouds ago, or
  just before the map was written and read again, carries the number of the current
  cycle, and its return is ignored with its ray. `BatchResult` shows that such voxels
  are the only ones left out.
- *Create if missing.* (`bonxai.hpp:301`.) An accessor that has cached a missing leaf
  does not create it when asked to: `value(coord, true)` answers `nullptr` and
  `setCellOn` dereferences it (`bonxai.hpp:478` and `541`). The occupancy map's accessor
  never looks without creating, so `AccessorsSeeGrid` holds of it without exception.
- *The age of a chunk.* "Excludes chunks created more than max_age ago"
  (`chunk_loading_policies.hpp:175`). A chunk that is the reference before it is loaded
  gets a creation time of zero (`rolling_occupancy_map.cpp:287`), and the temporal policy
  drops it once it is not; `YoungIsKept` and `WantedIsServed` name these chunks.

Also seen while modelling, and kept as the code has it: `map_epoch` is compared for
equality only, so that a late full refresh of an old epoch replaces a newer layer of
the "map" modes and with it the retired epochs; in mode 4 the sentinel of a new epoch
replaces the layer by an empty one at once; the second check of `bonxai_server.cpp:411`
can only fail with more than one executor thread; a promoted track's
`last_seen` is refreshed without effect; a promoted obstacle that is saved and loaded
again becomes background, which nothing withdraws; loading an empty static map sets
`updated_map_once_` back to false (`bonxai_server.cpp:1395`), so that the services
refuse although remote layers are shown; a component that makes a new track does not
enter it among the tracks matched in this cloud (`bonxai_server.cpp:1092`), so that with
`spatial_tolerance_voxels` above `cluster_connectivity_voxels`, which are set
independently (both 1 by default, as in the run), the next component of the same cloud can
take it over, and what the first one saw is in no topic until it is seen again.
