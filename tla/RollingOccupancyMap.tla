------------------------- MODULE RollingOccupancyMap -------------------------
(***************************************************************************)
(* RollingOccupancyMap (rolling_bonxai/src/rolling_occupancy_map.cpp): the *)
(* main thread inserts point clouds, promotes finished loads, and at each  *)
(* chunk transition requests the chunks the policy wants and evicts the    *)
(* others, while the threads of AsyncChunkManager load and save.           *)
(*                                                                         *)
(* The content of a chunk is the set of observations it has accumulated,   *)
(* so that a lost or stale chunk shows.  Where the sensor goes is left     *)
(* open: TransitionManager may confirm any chunk but the reference chunk   *)
(* (the next one, or a far one after a jump).  The policy is a table of    *)
(* the sets it may want around a reference chunk: one set for the two      *)
(* spatial policies, several where the answer depends on time.             *)
(***************************************************************************)
EXTENDS Naturals, Sequences, FiniteSets

CONSTANTS Coords,        (* chunk coordinates                                *)
          Obs,           (* observations; their number bounds the clouds     *)
          WantedSets,    (* for each reference chunk, what may be wanted     *)
          MaxMoves,      (* bound of the models: chunk transitions           *)
          LoadWorkers, SaveWorkers, EnableIO, Faulty, MaxSaveQueue

ASSUME MapAssumption ==
    /\ WantedSets \in [Coords -> SUBSET (SUBSET Coords)]
    /\ Coords # {}
    /\ MaxMoves \in Nat
    /\ EnableIO \in BOOLEAN
    /\ Faulty \subseteq Coords
    /\ IsFiniteSet(SaveWorkers)
    /\ MaxSaveQueue \in Nat

VARIABLES
    mainPc,    (* where the main thread is                                   *)
    todo,      (* the coordinates its current loop has yet to visit          *)
    ref,       (* transition_manager_->getRefChunkCoord()                    *)
    wanted,    (* desired_set of the transition under way, or the last one   *)
    pending,   (* the keys of pending_loads_, the map's own table            *)
    active,    (* active_chunks_                                             *)
    moves,     (* transitions so far                                         *)
    observed,  (* history: every observation a chunk has taken               *)
    raced      (* history: chunks read from disk with a save still to come   *)

mapVars == <<mainPc, todo, ref, wanted, pending, active, moves, observed>>

VARIABLES phase, loadQ, pendingLoads, future, loadPc, loadReq, loadGot,
          enq, saveQ, inflight, savePc, saveReq, waiter, file, lastSaved

managerVars == <<phase, loadQ, pendingLoads, future, loadPc, loadReq, loadGot, enq,
                 saveQ, inflight, savePc, saveReq, waiter, file, lastSaved>>
vars == <<mapVars, raced, managerVars>>

Grids == SUBSET Obs
RefPriority == 2      \* 2.0f, above every policy's range
PolicyPriority == 1

Manager == INSTANCE AsyncChunkManager WITH
    EmptyGrid <- {}, Priorities <- {PolicyPriority, RefPriority}

-----------------------------------------------------------------------------
(* ManagedChunk: a map and its dirty flag. *)

Chunk == [present : BOOLEAN, dirty : BOOLEAN, grid : Grids]
NoChunk == [present |-> FALSE, dirty |-> FALSE, grid |-> {}]

Promoted(g) == [present |-> TRUE, dirty |-> FALSE, grid |-> g]

(* Broken variants of an operator, named after the bug, stand right before *)
(* it; PROJECT.json says which property each one must violate.             *)
Touched_NotMarked(chunk, new) == [chunk EXCEPT !.grid = @ \cup new]

(* getMutableMap() marks the chunk dirty, whatever is then done to the map. *)
Touched(chunk, new) == [chunk EXCEPT !.dirty = TRUE, !.grid = @ \cup new]

Active == {c \in Coords : active[c].present}

Init ==
    /\ mainPc = "start"
    /\ todo = {}
    /\ ref = Manager!NoCoord
    /\ wanted = {}
    /\ pending = {}
    /\ active = [c \in Coords |-> NoChunk]
    /\ moves = 0
    /\ observed = [c \in Coords |-> {}]
    /\ raced = {}
    /\ Manager!Init

(* The main thread takes a step from one place to the next; it does not    *)
(* while saveAsync is still pushing its request.                           *)
Main(from, to) ==
    /\ mainPc = from
    /\ mainPc' = to
    /\ enq = <<>>
    /\ raced' = raced

-----------------------------------------------------------------------------
(* insertPointCloud = updateOccupancy, then updateRolling. *)

(* The rays of one cloud reach some of the active chunks; points whose     *)
(* chunk is not active are dropped.                                        *)
updateOccupancy ==
    /\ Main("idle", "poll")
    /\ todo' = pending
    /\ \/ UNCHANGED <<active, observed>>
       \/ \E T \in (SUBSET Active) \ {{}}, o \in Obs \ UNION {observed[c] : c \in Coords} :
            /\ active' = [c \in Coords |->
                            IF c \in T THEN Touched(active[c], {o}) ELSE active[c]]
            /\ observed' = [c \in Coords |->
                              IF c \in T THEN observed[c] \cup {o} ELSE observed[c]]
    /\ UNCHANGED <<ref, wanted, pending, moves, managerVars>>

pollPendingLoads_KeepsEntry(c) ==
    /\ Main("poll", "poll")
    /\ c \in todo
    /\ todo' = todo \ {c}
    /\ IF future[c].state = "ready"
       THEN /\ active' = IF c \in Active THEN active
                         ELSE [active EXCEPT ![c] = Promoted(future[c].grid)]
            /\ Manager!TakeFuture(c)
       ELSE UNCHANGED <<active, managerVars>>
    /\ UNCHANGED <<ref, wanted, pending, moves, observed>>

(* One iteration of pollPendingLoads.  A ready future leaves the table,    *)
(* and its map becomes a clean chunk unless the slot is taken.             *)
pollPendingLoads(c) ==
    /\ Main("poll", "poll")
    /\ c \in todo
    /\ todo' = todo \ {c}
    /\ IF future[c].state = "ready"
       THEN /\ pending' = pending \ {c}
            /\ active' = IF c \in Active THEN active
                         ELSE [active EXCEPT ![c] = Promoted(future[c].grid)]
            /\ Manager!TakeFuture(c)
       ELSE UNCHANGED <<pending, active, managerVars>>
    /\ UNCHANGED <<ref, wanted, moves, observed>>

(* shouldTriggerTransition says no. *)
NoTransition ==
    /\ Main("poll", "idle")
    /\ todo = {}
    /\ UNCHANGED <<todo, ref, wanted, pending, active, moves, observed, managerVars>>

(* It says yes; performTransition computes its desired set.  The very      *)
(* first evaluation always triggers.                                       *)
Transition(c) ==
    /\ \/ mainPc = "start"
       \/ mainPc = "poll" /\ todo = {} /\ c # ref
    /\ moves < MaxMoves
    /\ moves' = moves + 1
    /\ Main(mainPc, "loadRef")
    /\ ref' = c
    /\ \E W \in WantedSets[c] : wanted' = W \cup {c}
    /\ UNCHANGED <<todo, pending, active, observed, managerVars>>

request_ActiveToo(c, p) ==
    IF c \in pending \/ Manager!isLoading(c)
    THEN UNCHANGED <<pending, managerVars>>
    ELSE /\ Manager!loadAsync(c, p)
         /\ pending' = IF Manager!LoadRefused(c) THEN pending ELSE pending \cup {c}

(* The request of one chunk, skipped if it is active or being loaded.      *)
request(c, p) ==
    IF c \in Active \/ c \in pending \/ Manager!isLoading(c)
    THEN UNCHANGED <<pending, managerVars>>
    ELSE /\ Manager!loadAsync(c, p)
         /\ pending' = IF Manager!LoadRefused(c) THEN pending ELSE pending \cup {c}

LoadRef ==
    /\ Main("loadRef", "loadOthers")
    /\ request(ref, RefPriority)
    /\ todo' = wanted \ {ref}
    /\ UNCHANGED <<ref, wanted, active, moves, observed>>

LoadOther(c) ==
    /\ Main("loadOthers", "loadOthers")
    /\ c \in todo
    /\ todo' = todo \ {c}
    /\ request(c, PolicyPriority)
    /\ UNCHANGED <<ref, wanted, active, moves, observed>>

(* Every policy evicts exactly what it does not want loaded. *)
CollectEvictions ==
    /\ Main("loadOthers", "evict")
    /\ todo = {}
    /\ todo' = Active \ wanted
    /\ UNCHANGED <<ref, wanted, pending, active, moves, observed, managerVars>>

(* A dirty chunk's grid moves into the save pipeline; a clean one is       *)
(* dropped.  The metadata of the chunk stays.                              *)
Evict(c) ==
    /\ Main("evict", "evict")
    /\ c \in todo
    /\ todo' = todo \ {c}
    /\ IF active[c].dirty THEN Manager!saveAsync(c, active[c].grid)
                          ELSE UNCHANGED managerVars
    /\ active' = [active EXCEPT ![c] = NoChunk]
    /\ UNCHANGED <<ref, wanted, pending, moves, observed>>

TransitionDone ==
    /\ Main("evict", "idle")
    /\ todo = {}
    /\ UNCHANGED <<todo, ref, wanted, pending, active, moves, observed, managerVars>>

-----------------------------------------------------------------------------
(* The server's clean-up service.  releaseUnusedMemory and shrinkToFit go  *)
(* through getMutableMap, so every active chunk turns dirty.               *)

isStatsStable_LoadsIgnored == inflight = 0

isStatsStable == pending = {} /\ inflight = 0

releaseUnusedMemory ==
    active' = [c \in Coords |-> IF c \in Active THEN Touched(active[c], {}) ELSE active[c]]

cleanMemoryServiceCallback ==
    /\ Main("idle", "idle")
    /\ isStatsStable
    /\ releaseUnusedMemory
    /\ UNCHANGED <<todo, ref, wanted, pending, moves, observed, managerVars>>

(* The destructor: members die in reverse order of declaration, so the     *)
(* table of futures and the two factories go before asyncio_manager_, whose*)
(* destructor joins the threads, and active_chunks_ goes after it.         *)
DropFactories ==
    /\ Main("idle", "dying")
    /\ pending' = {}
    /\ UNCHANGED <<todo, ref, wanted, active, moves, observed, managerVars>>

DestroyManager ==
    /\ mainPc = "dying"
    /\ Manager!Stop \/ Manager!Destructor
    /\ UNCHANGED <<mapVars, raced>>

DropChunks ==
    /\ phase = "destroyed"
    /\ Main("dying", "dead")
    /\ active' = [c \in Coords |-> NoChunk]
    /\ UNCHANGED <<todo, ref, wanted, pending, moves, observed, managerVars>>

Dead == mainPc = "dead" /\ UNCHANGED vars

-----------------------------------------------------------------------------
(* A save of c is on its way to the disk. *)
SavePending(c) ==
    \/ \E i \in DOMAIN enq : enq[i].coord = c
    \/ \E i \in DOMAIN saveQ : saveQ[i].coord = c
    \/ \E w \in SaveWorkers : savePc[w] \in {"open", "write"} /\ saveReq[w].coord = c

(* The manager's threads, and the rest of a saveAsync call.                *)
ManagerStep ==
    /\ Manager!Workers \/ Manager!SavePush
    /\ raced' = raced \cup {loadReq[w] : w \in
          {v \in LoadWorkers : /\ loadPc[v] = "load" /\ loadPc'[v] # "load"
                               /\ SavePending(loadReq[v])}}
    /\ UNCHANGED mapVars

UpdateStep ==
    \/ updateOccupancy
    \/ \E c \in Coords : pollPendingLoads(c)
    \/ NoTransition
    \/ \E c \in Coords : Transition(c)
    \/ LoadRef
    \/ \E c \in Coords : LoadOther(c)
    \/ CollectEvictions
    \/ \E c \in Coords : Evict(c)
    \/ TransitionDone

MainStep ==
    UpdateStep \/ cleanMemoryServiceCallback \/ DropFactories \/ DestroyManager \/ DropChunks

Next == MainStep \/ ManagerStep \/ Dead

(* The sensor keeps publishing and the executor keeps calling back; a      *)
(* destructor that was entered goes on; the manager's threads are          *)
(* scheduled.                                                              *)
Fairness ==
    /\ WF_vars(UpdateStep)
    /\ WF_vars(DestroyManager \/ DropChunks)
    /\ WF_vars(Manager!SavePush /\ ManagerStep)
    /\ \A w \in LoadWorkers : WF_vars(Manager!LoadWorker(w) /\ ManagerStep)
    /\ \A w \in SaveWorkers : WF_vars(Manager!SaveWorker(w) /\ ManagerStep)

Spec == Init /\ [][Next]_vars
FairSpec == Spec /\ Fairness

-----------------------------------------------------------------------------
(* Properties. *)

TypeOK ==
    /\ mainPc \in {"start", "idle", "poll", "loadRef", "loadOthers", "evict", "dying", "dead"}
    /\ todo \subseteq Coords
    /\ ref \in Coords
    /\ wanted \subseteq Coords
    /\ pending \subseteq Coords
    /\ active \in [Coords -> Chunk]
    /\ moves \in 0..MaxMoves
    /\ observed \in [Coords -> Grids]
    /\ raced \subseteq Coords

(* No chunk is both active and on its way from the disk: a promoted chunk  *)
(* never finds its slot taken, and the "already active - discarding"       *)
(* branch of pollPendingLoads is dead code.                                *)
ActivePendingDisjoint == Active \cap pending = {}

(* Every load the map asked for is still known to it, and every future it  *)
(* keeps will be answered: none is dropped, none stays behind without a    *)
(* promise.                                                                *)
FuturesTracked ==
    mainPc \notin {"dying", "dead"} =>
        pending = {c \in Coords : future[c].state \in {"waiting", "ready"}}

(* The map forgets nothing, except through the one race it does not guard: *)
(* a chunk read back while its own save is still under way.  Every other   *)
(* active chunk holds all it has ever observed, evictions and reloads      *)
(* included (one save worker, I/O enabled and not failing for the chunk).  *)
OneSaver == EnableIO /\ Cardinality(SaveWorkers) = 1

OnlyRacesLose ==
    OneSaver => \A c \in Active \ (raced \cup Faulty) : observed[c] \subseteq active[c].grid

(* Dropping a clean chunk unsaved loses nothing: the disk has its content. *)
CleanChunksAreOnDisk ==
    OneSaver =>
        \A c \in Active \ (raced \cup Faulty) :
            ~active[c].dirty => Manager!ReadOf(c, file[c]) = {active[c].grid}

(* When isStatsStable() lets the server compact the map, no worker of the  *)
(* manager touches a chunk file or holds a grid.                           *)
StableIsQuiet ==
    mainPc = "idle" /\ isStatsStable =>
        /\ \A c \in Coords : ~SavePending(c)
        /\ \A w \in LoadWorkers : loadPc[w] \notin {"load", "fulfil"}

(* A requested chunk is promoted in the end, while clouds keep coming and  *)
(* transitions do not (each could put new requests before it).             *)
LoadsPromoted == \A c \in Coords : c \in pending ~> c \notin pending

(* The destructor returns: every worker leaves pop() and its loop, whatever*)
(* the queues hold, and is joined.                                         *)
DestructorReturns == mainPc = "dying" ~> mainPc = "dead"

(* What the documentation claims and the code does not keep:               *)
(* "Captures options_factory_ by reference (this outlives all factory      *)
(* calls)": no worker has a map to make once the factories are gone.       *)
FactoriesOutliveCalls ==
    mainPc = "dying" => \A w \in LoadWorkers :
        loadPc[w] = "load" => EnableIO /\ file[loadReq[w]].state = "whole"

=============================================================================
