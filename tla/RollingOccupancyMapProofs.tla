---------------------- MODULE RollingOccupancyMapProofs ----------------------
(***************************************************************************)
(* Theorems about RollingOccupancyMap, for any grid of chunks, any policy  *)
(* and any manager configuration.                                          *)
(***************************************************************************)
EXTENDS RollingOccupancyMap, SequenceTheorems, FiniteSetTheorems, TLAPS

ManagerFacts == INSTANCE AsyncChunkManagerProofs WITH
    EmptyGrid <- {}, Priorities <- {PolicyPriority, RefPriority}

LEMMA AssumptionsMet == ManagerFacts!ConstantsOK
BY MapAssumption DEF ManagerFacts!ConstantsOK, ManagerFacts!IsFiniteSet, IsFiniteSet, Grids,
                     PolicyPriority, RefPriority

(* The part of the types the argument needs.                               *)
ActiveTyped == active \in [Coords -> Chunk] /\ pending \subseteq Coords /\ ref \in Coords

DisjointInv == ActiveTyped /\ ActivePendingDisjoint

LEMMA InitDisjoint == Init => DisjointInv
BY MapAssumption DEF Init, DisjointInv, ActiveTyped, ActivePendingDisjoint, NoChunk, Chunk,
                    Grids, Active, Manager!NoCoord, Manager!AnyOf

LEMMA DisjointFrame ==
    ASSUME DisjointInv, UNCHANGED <<active, pending>>, ref' \in Coords
    PROVE  DisjointInv'
BY DEF DisjointInv, ActiveTyped, ActivePendingDisjoint, Active

(* An observation, and a clean-up, touch chunks that are already active.   *)
LEMMA TouchKeepsActive ==
    ASSUME DisjointInv, NEW T \in SUBSET Coords, NEW new \in Grids,
           active' = [c \in Coords |-> IF c \in T THEN Touched(active[c], new) ELSE active[c]],
           pending' = pending, ref' = ref
    PROVE  DisjointInv'
<1>1. ASSUME NEW c \in Coords
      PROVE  active'[c] \in Chunk /\ active'[c].present = active[c].present
  BY DEF DisjointInv, ActiveTyped, Touched, Chunk, Grids
<1>2. active' \in [Coords -> Chunk] /\ Active' = Active
  BY <1>1 DEF Active, DisjointInv, ActiveTyped
<1> QED BY <1>2 DEF DisjointInv, ActiveTyped, ActivePendingDisjoint

(* A promoted chunk leaves the table of futures in the same step.          *)
LEMMA PollKeepsDisjoint ==
    ASSUME DisjointInv, NEW c \in Coords, future[c].grid \in Grids, pollPendingLoads(c)
    PROVE  DisjointInv'
<1>1. CASE future[c].state = "ready"
  <2>1. /\ pending' = pending \ {c}
        /\ ref' = ref
        /\ active' = IF c \in Active THEN active
                     ELSE [active EXCEPT ![c] = Promoted(future[c].grid)]
    BY <1>1 DEF pollPendingLoads
  <2>2. Promoted(future[c].grid) \in Chunk
    BY DEF Promoted, Chunk
  <2>3. active' \in [Coords -> Chunk] /\ Active' \subseteq Active \cup {c}
    BY <2>1, <2>2 DEF DisjointInv, ActiveTyped, Active
  <2> QED BY <2>1, <2>3 DEF DisjointInv, ActiveTyped, ActivePendingDisjoint
<1>2. CASE future[c].state # "ready"
  BY <1>2, DisjointFrame DEF pollPendingLoads, DisjointInv, ActiveTyped
<1> QED BY <1>1, <1>2

(* Only a chunk that is not active is requested.                           *)
LEMMA RequestKeepsDisjoint ==
    ASSUME DisjointInv, NEW c \in Coords, NEW p, request(c, p), active' = active, ref' = ref
    PROVE  DisjointInv'
<1>1. \/ pending' = pending
      \/ c \notin Active /\ pending' = pending \cup {c}
  BY DEF request
<1> QED BY <1>1 DEF DisjointInv, ActiveTyped, ActivePendingDisjoint, Active

LEMMA EvictKeepsDisjoint ==
    ASSUME DisjointInv, NEW c \in Coords, Evict(c)
    PROVE  DisjointInv'
<1>1. active' = [active EXCEPT ![c] = NoChunk] /\ pending' = pending /\ ref' = ref
  BY DEF Evict
<1>2. NoChunk \in Chunk /\ ~NoChunk.present
  BY DEF NoChunk, Chunk, Grids
<1>3. active' \in [Coords -> Chunk] /\ Active' \subseteq Active
  BY <1>1, <1>2 DEF DisjointInv, ActiveTyped, Active
<1> QED BY <1>1, <1>3 DEF DisjointInv, ActiveTyped, ActivePendingDisjoint
-----------------------------------------------------------------------------
(* Every step of the map is a step of its manager, or leaves it alone, so  *)
(* that the manager's invariants hold of the map as well.                  *)

(* The instance of the proofs module has the next-state relation of the    *)
(* map's own instance: both expand to the same formula.                    *)
LEMMA SameNext == Manager!Next <=> ManagerFacts!Next
BY DEF Manager!Next, ManagerFacts!Next, Manager!Callers, ManagerFacts!Callers,
       Manager!Workers, ManagerFacts!Workers, Manager!Destructor,
       ManagerFacts!Destructor, Manager!Gone, ManagerFacts!Gone, Manager!Stop,
       ManagerFacts!Stop, Manager!ShutQueues, ManagerFacts!ShutQueues,
       Manager!JoinAndDestroy, ManagerFacts!JoinAndDestroy, Manager!loadAsync,
       ManagerFacts!loadAsync, Manager!LoadRefused, ManagerFacts!LoadRefused,
       Manager!isLoading, ManagerFacts!isLoading, Manager!Stopped, ManagerFacts!Stopped,
       Manager!QueuesAreShut, ManagerFacts!QueuesAreShut, Manager!TakeFuture,
       ManagerFacts!TakeFuture, Manager!saveAsync, ManagerFacts!saveAsync,
       Manager!SavePush, ManagerFacts!SavePush, Manager!waitForPendingSaves,
       ManagerFacts!waitForPendingSaves, Manager!WaitStep, ManagerFacts!WaitStep,
       Manager!SavesDone, ManagerFacts!SavesDone, Manager!LoadWorker,
       ManagerFacts!LoadWorker, Manager!SaveWorker, ManagerFacts!SaveWorker,
       Manager!LoadCheck, ManagerFacts!LoadCheck, Manager!LoadPop, ManagerFacts!LoadPop,
       Manager!LoadPopNothing, ManagerFacts!LoadPopNothing, Manager!LoadRead,
       ManagerFacts!LoadRead, Manager!Fulfil, ManagerFacts!Fulfil,
       Manager!removePendingLoad, ManagerFacts!removePendingLoad, Manager!LoadStep,
       ManagerFacts!LoadStep, Manager!IsTop, ManagerFacts!IsTop, Manager!ReadOf,
       ManagerFacts!ReadOf, Manager!SaveCheck, ManagerFacts!SaveCheck, Manager!SavePop,
       ManagerFacts!SavePop, Manager!SavePopNothing, ManagerFacts!SavePopNothing,
       Manager!SaveOpen, ManagerFacts!SaveOpen, Manager!SaveSkip, ManagerFacts!SaveSkip,
       Manager!SharedFile, ManagerFacts!SharedFile, Manager!SaveWrite,
       ManagerFacts!SaveWrite, Manager!SaveSettle, ManagerFacts!SaveSettle,
       Manager!SaveNotify, ManagerFacts!SaveNotify, Manager!SaveStep,
       ManagerFacts!SaveStep, Manager!NoFuture, ManagerFacts!NoFuture,
       Manager!WaitingFuture, ManagerFacts!WaitingFuture, Manager!BrokenFuture,
       ManagerFacts!BrokenFuture, Manager!ReadyFuture, ManagerFacts!ReadyFuture,
       Manager!TornFile, ManagerFacts!TornFile, Manager!WholeFile,
       ManagerFacts!WholeFile, Manager!NoCoord, ManagerFacts!NoCoord, Manager!NoSave,
       ManagerFacts!NoSave, Manager!AnyOf, ManagerFacts!AnyOf, Manager!RemoveAt,
       ManagerFacts!RemoveAt, Manager!vars, ManagerFacts!vars, Manager!loadVars,
       ManagerFacts!loadVars, Manager!saveVars, ManagerFacts!saveVars

LEMMA RequestIsManagerStep ==
    ASSUME NEW c \in Coords, NEW p \in {PolicyPriority, RefPriority}, request(c, p)
    PROVE  Manager!Next \/ UNCHANGED managerVars
<1>1. CASE c \in Active \/ c \in pending \/ Manager!isLoading(c)
  BY <1>1 DEF request
<1>2. CASE ~(c \in Active \/ c \in pending \/ Manager!isLoading(c))
  <2>1. Manager!loadAsync(c, p)
    BY <1>2 DEF request
  <2> QED BY <2>1 DEF Manager!Next, Manager!Callers
<1> QED BY <1>1, <1>2

LEMMA StepIsManagerStep ==
    ASSUME DisjointInv, [Next]_vars
    PROVE  Manager!Next \/ UNCHANGED managerVars
<1>1. CASE updateOccupancy
  BY <1>1 DEF updateOccupancy
<1>2. ASSUME NEW c \in Coords, pollPendingLoads(c)
      PROVE  Manager!Next \/ UNCHANGED managerVars
  BY <1>2 DEF pollPendingLoads, Manager!Next, Manager!Callers
<1>3. CASE NoTransition
  BY <1>3 DEF NoTransition
<1>4. ASSUME NEW c \in Coords, Transition(c)
      PROVE  UNCHANGED managerVars
  BY <1>4 DEF Transition
<1>5. ASSUME LoadRef
      PROVE  Manager!Next \/ UNCHANGED managerVars
  BY <1>5, RequestIsManagerStep DEF LoadRef, DisjointInv, ActiveTyped
<1>6. ASSUME NEW c \in Coords, LoadOther(c)
      PROVE  Manager!Next \/ UNCHANGED managerVars
  BY <1>6, RequestIsManagerStep DEF LoadOther
<1>7. CASE CollectEvictions
  BY <1>7 DEF CollectEvictions
<1>8. ASSUME NEW c \in Coords, Evict(c)
      PROVE  Manager!Next \/ UNCHANGED managerVars
  <2>1. active[c].grid \in Grids
    BY DEF DisjointInv, ActiveTyped, Chunk
  <2>2. CASE active[c].dirty
    BY <1>8, <2>1, <2>2 DEF Evict, Manager!Next, Manager!Callers
  <2>3. CASE ~active[c].dirty
    BY <1>8, <2>3 DEF Evict
  <2> QED BY <2>2, <2>3
<1>9. CASE TransitionDone \/ cleanMemoryServiceCallback \/ DropFactories \/ DropChunks
  BY <1>9 DEF TransitionDone, cleanMemoryServiceCallback, releaseUnusedMemory, DropFactories, DropChunks
<1>10. CASE DestroyManager
  BY <1>10 DEF DestroyManager, Manager!Next
<1>11. CASE ManagerStep
  BY <1>11 DEF ManagerStep, Manager!Next, Manager!Callers
<1>12. CASE Dead \/ UNCHANGED vars
  BY <1>12 DEF Dead, vars
<1> QED BY <1>1, <1>2, <1>3, <1>4, <1>5, <1>6, <1>7, <1>8, <1>9, <1>10, <1>11, <1>12
        DEF Next, MainStep, UpdateStep

LEMMA SameVars == UNCHANGED managerVars <=> UNCHANGED ManagerFacts!vars
BY DEF managerVars, ManagerFacts!vars, ManagerFacts!loadVars, ManagerFacts!saveVars

ManagerInv == ManagerFacts!TypeBase /\ ManagerFacts!LoadInv /\ ManagerFacts!SaveInv

LEMMA ManagerInvStep ==
    ASSUME DisjointInv, ManagerInv, [Next]_vars
    PROVE  ManagerInv'
<1>1. [ManagerFacts!Next]_(ManagerFacts!vars)
  BY StepIsManagerStep, SameNext, SameVars
<1> QED BY <1>1, AssumptionsMet, ManagerFacts!NextTypeBase, ManagerFacts!NextLoadInv,
        ManagerFacts!NextSaveInv DEF ManagerInv

LEMMA ManagerInvInit == Init => ManagerInv
<1>1. Manager!Init => ManagerFacts!Init
  BY DEF Manager!Init, ManagerFacts!Init, Manager!NoFuture, ManagerFacts!NoFuture,
         Manager!NoCoord, ManagerFacts!NoCoord, Manager!AnyOf, ManagerFacts!AnyOf,
         Manager!NoSave, ManagerFacts!NoSave, Manager!NoFile, ManagerFacts!NoFile
<1> QED BY <1>1, AssumptionsMet, ManagerFacts!InitTypeBase, ManagerFacts!InitLoadInv,
        ManagerFacts!InitSaveInv DEF Init, ManagerInv

LEMMA DisjointStep ==
    ASSUME DisjointInv, ManagerInv, [Next]_vars
    PROVE  DisjointInv'
<1> USE DEF DisjointInv, ActiveTyped
<1>1. CASE updateOccupancy
  <2>1. CASE UNCHANGED <<active, observed>>
    BY <1>1, <2>1, DisjointFrame DEF updateOccupancy
  <2>2. ASSUME NEW T \in SUBSET Active, NEW o \in Obs,
               active' = [c \in Coords |-> IF c \in T THEN Touched(active[c], {o}) ELSE active[c]]
        PROVE  DisjointInv'
    <3>1. T \in SUBSET Coords /\ {o} \in Grids
      BY DEF Active, Grids
    <3> QED BY <1>1, <2>2, <3>1, TouchKeepsActive DEF updateOccupancy
  <2> QED BY <1>1, <2>1, <2>2 DEF updateOccupancy
<1>2. ASSUME NEW c \in Coords, pollPendingLoads(c) PROVE DisjointInv'
  <2>1. future[c].grid \in Grids
    BY DEF ManagerInv, ManagerFacts!TypeBase, ManagerFacts!LoadTypes, ManagerFacts!Future
  <2> QED BY <1>2, <2>1, PollKeepsDisjoint
<1>3. ASSUME NEW c \in Coords, Transition(c) PROVE DisjointInv'
  BY <1>3, DisjointFrame DEF Transition
<1>4. CASE LoadRef
  BY <1>4, RequestKeepsDisjoint DEF LoadRef
<1>5. ASSUME NEW c \in Coords, LoadOther(c) PROVE DisjointInv'
  BY <1>5, RequestKeepsDisjoint DEF LoadOther
<1>6. ASSUME NEW c \in Coords, Evict(c) PROVE DisjointInv'
  BY <1>6, EvictKeepsDisjoint
<1>7. CASE cleanMemoryServiceCallback
  <2>1. Active \in SUBSET Coords /\ {} \in Grids
    BY DEF Active, Grids
  <2> QED BY <1>7, <2>1, TouchKeepsActive DEF cleanMemoryServiceCallback, releaseUnusedMemory
<1>8. CASE DropFactories
  BY <1>8 DEF DropFactories, ActivePendingDisjoint
<1>9. CASE DropChunks
  <2>1. NoChunk \in Chunk /\ ~NoChunk.present
    BY DEF NoChunk, Chunk, Grids
  <2> QED BY <1>9, <2>1 DEF DropChunks, ActivePendingDisjoint, Active
<1>10. CASE NoTransition \/ CollectEvictions \/ TransitionDone
  BY <1>10, DisjointFrame DEF NoTransition, CollectEvictions, TransitionDone
<1>11. CASE DestroyManager \/ ManagerStep \/ Dead \/ UNCHANGED vars
  BY <1>11, DisjointFrame DEF DestroyManager, ManagerStep, Dead, vars, mapVars
<1> QED BY <1>1, <1>2, <1>3, <1>4, <1>5, <1>6, <1>7, <1>8, <1>9, <1>10, <1>11
        DEF Next, MainStep, UpdateStep

(* The map's chunks and its table of futures stay disjoint: a promoted     *)
(* chunk never finds its slot taken, so that pollPendingLoads never        *)
(* discards one.                                                           *)
THEOREM ActivePendingDisjointHolds == Spec => []ActivePendingDisjoint
<1>1. Init => DisjointInv /\ ManagerInv
  BY InitDisjoint, ManagerInvInit
<1>2. DisjointInv /\ ManagerInv /\ [Next]_vars => (DisjointInv /\ ManagerInv)'
  BY DisjointStep, ManagerInvStep
<1>3. DisjointInv => ActivePendingDisjoint
  BY DEF DisjointInv
<1> QED BY <1>1, <1>2, <1>3, PTL DEF Spec

-----------------------------------------------------------------------------
(* Futures.  FuturesTracked needs the manager's own invariant: a worker    *)
(* that fulfils a promise finds it waiting, and so still in the table.     *)

Awaited == {c \in Coords : future[c].state \in {"waiting", "ready"}}

LEMMA WorkersKeepAwaited ==
    ASSUME ManagerInv, Manager!Workers \/ Manager!SavePush
    PROVE  Awaited' = Awaited
<1> USE DEF Awaited
<1>1. future \in [Coords -> ManagerFacts!Future]
  BY DEF ManagerInv, ManagerFacts!TypeBase, ManagerFacts!LoadTypes
<1>2. ASSUME NEW w \in LoadWorkers, Manager!Fulfil(w) PROVE Awaited' = Awaited
  <2>1. /\ loadPc[w] = "fulfil"
        /\ future' = [future EXCEPT ![loadReq[w]] = Manager!ReadyFuture(loadGot[w])]
    BY <1>2 DEF Manager!Fulfil, Manager!LoadStep
  <2>2. loadReq[w] \in {c \in Coords : future[c].state = "waiting"}
    BY <2>1 DEF ManagerInv, ManagerFacts!LoadInv, ManagerFacts!OpenCoords, ManagerFacts!Unanswered
  <2> QED BY <1>1, <2>1, <2>2 DEF Manager!ReadyFuture
<1>3. ASSUME NEW w \in LoadWorkers, Manager!LoadWorker(w), ~Manager!Fulfil(w)
      PROVE  future' = future
  BY <1>3 DEF Manager!LoadWorker, Manager!LoadCheck, Manager!LoadPop, Manager!LoadPopNothing,
              Manager!LoadRead, Manager!removePendingLoad
<1>4. ASSUME NEW w \in SaveWorkers, Manager!SaveWorker(w)
      PROVE  future' = future
  BY <1>4 DEF Manager!SaveWorker, Manager!SaveCheck, Manager!SavePop, Manager!SavePopNothing,
              Manager!SaveOpen, Manager!SaveSkip, Manager!SaveWrite, Manager!SaveSettle,
              Manager!SaveNotify, Manager!SaveStep, Manager!loadVars
<1>5. CASE Manager!SavePush
  BY <1>5 DEF Manager!SavePush, Manager!loadVars
<1> QED BY <1>2, <1>3, <1>4, <1>5 DEF Manager!Workers

LEMMA RequestTracks ==
    ASSUME ManagerInv, NEW c \in Coords, NEW p, request(c, p), pending = Awaited
    PROVE  pending' = Awaited'
<1>1. future \in [Coords -> ManagerFacts!Future]
  BY DEF ManagerInv, ManagerFacts!TypeBase, ManagerFacts!LoadTypes
<1>2. \/ pending' = pending /\ future' = future
      \/ /\ pending' = pending \cup {c}
         /\ future' = [future EXCEPT ![c] = Manager!WaitingFuture]
  BY DEF request, Manager!loadAsync, managerVars
<1> QED BY <1>1, <1>2 DEF Awaited, Manager!WaitingFuture

LEMMA PollTracks ==
    ASSUME ManagerInv, NEW c \in Coords, pollPendingLoads(c), pending = Awaited
    PROVE  pending' = Awaited'
<1>1. future \in [Coords -> ManagerFacts!Future]
  BY DEF ManagerInv, ManagerFacts!TypeBase, ManagerFacts!LoadTypes
<1>2. \/ pending' = pending /\ future' = future
      \/ /\ pending' = pending \ {c}
         /\ future' = [future EXCEPT ![c] = Manager!NoFuture]
  BY DEF pollPendingLoads, Manager!TakeFuture, managerVars
<1> QED BY <1>1, <1>2 DEF Awaited, Manager!NoFuture

LEMMA FuturesStep ==
    ASSUME DisjointInv, ManagerInv, FuturesTracked, [Next]_vars
    PROVE  FuturesTracked'
<1> DEFINE Alive == mainPc \notin {"dying", "dead"}
<1> SUFFICES ASSUME Alive' PROVE pending' = Awaited'
  BY DEF FuturesTracked, Awaited
<1>1. Alive => pending = Awaited
  BY DEF FuturesTracked, Awaited
<1>2. ASSUME NEW c \in Coords, pollPendingLoads(c) PROVE pending' = Awaited'
  BY <1>1, <1>2, PollTracks DEF pollPendingLoads, Main
<1>3. CASE LoadRef
  BY <1>1, <1>3, RequestTracks DEF LoadRef, Main, DisjointInv, ActiveTyped
<1>4. ASSUME NEW c \in Coords, LoadOther(c) PROVE pending' = Awaited'
  BY <1>1, <1>4, RequestTracks DEF LoadOther, Main
<1>5. ASSUME NEW c \in Coords, Evict(c) PROVE pending' = Awaited'
  BY <1>1, <1>5 DEF Evict, Main, Manager!saveAsync, Manager!loadVars, managerVars, Awaited
<1>6. ASSUME NEW c \in Coords, Transition(c) PROVE pending' = Awaited'
  BY <1>1, <1>6 DEF Transition, Main, managerVars, Awaited
<1>7. CASE updateOccupancy
  BY <1>1, <1>7 DEF updateOccupancy, Main, managerVars, Awaited
<1>8. CASE NoTransition \/ CollectEvictions \/ TransitionDone \/ cleanMemoryServiceCallback
  BY <1>1, <1>8 DEF NoTransition, CollectEvictions, TransitionDone, cleanMemoryServiceCallback, releaseUnusedMemory, Main,
                    managerVars, Awaited
<1>9. CASE DropFactories \/ DropChunks
  BY <1>9 DEF DropFactories, DropChunks, Main
<1>10. CASE DestroyManager
  BY <1>10 DEF DestroyManager, mapVars
<1>11. CASE ManagerStep
  BY <1>1, <1>11, WorkersKeepAwaited DEF ManagerStep, mapVars
<1>12. CASE Dead \/ UNCHANGED vars
  BY <1>1, <1>12 DEF Dead, vars, mapVars, managerVars, Awaited
<1> QED BY <1>2, <1>3, <1>4, <1>5, <1>6, <1>7, <1>8, <1>9, <1>10, <1>11, <1>12
        DEF Next, MainStep, UpdateStep

(* Until its destructor starts, the map's table of futures has exactly the *)
(* coordinates whose future waits or is ready: no accepted load is dropped,*)
(* and pollPendingLoads waits for nothing that will not come.              *)
THEOREM FuturesTrackedHolds == Spec => []FuturesTracked
<1>1. Init => DisjointInv /\ ManagerInv /\ FuturesTracked
  BY InitDisjoint, ManagerInvInit DEF Init, Manager!Init, Manager!NoFuture, FuturesTracked
<1>2. DisjointInv /\ ManagerInv /\ FuturesTracked /\ [Next]_vars
        => (DisjointInv /\ ManagerInv /\ FuturesTracked)'
  BY DisjointStep, ManagerInvStep, FuturesStep
<1> QED BY <1>1, <1>2, PTL DEF Spec

-----------------------------------------------------------------------------
(* The destructor of the manager is entered only from that of the map.     *)

RunningInv == mainPc \notin {"dying", "dead"} => phase = "running"

LEMMA RunningStep ==
    ASSUME RunningInv, [Next]_vars
    PROVE  RunningInv'
<1> DEFINE Alive == mainPc \notin {"dying", "dead"}
<1>1. Manager!Workers \/ Manager!SavePush => phase' = phase
  BY DEF Manager!Workers, Manager!LoadWorker, Manager!LoadCheck, Manager!LoadPop,
         Manager!LoadPopNothing, Manager!LoadRead, Manager!Fulfil, Manager!removePendingLoad,
         Manager!LoadStep, Manager!SaveWorker, Manager!SaveCheck, Manager!SavePop,
         Manager!SavePopNothing, Manager!SaveOpen, Manager!SaveSkip, Manager!SaveWrite,
         Manager!SaveSettle, Manager!SaveNotify, Manager!SaveStep, Manager!SavePush
<1>2. ASSUME NEW c, NEW p, request(c, p) PROVE phase' = phase
  BY <1>2 DEF request, Manager!loadAsync, managerVars
<1>3. CASE ManagerStep
  BY <1>1, <1>3 DEF ManagerStep, mapVars, RunningInv
<1>4. CASE DestroyManager
  BY <1>4 DEF DestroyManager, mapVars, RunningInv
<1>5. CASE DropFactories \/ DropChunks
  BY <1>5 DEF DropFactories, DropChunks, Main, RunningInv
<1>6. CASE LoadRef \/ \E c \in Coords : LoadOther(c)
  BY <1>2, <1>6 DEF LoadRef, LoadOther, Main, RunningInv
<1>7. CASE \/ updateOccupancy \/ NoTransition \/ CollectEvictions \/ TransitionDone
           \/ cleanMemoryServiceCallback \/ \E c \in Coords : Transition(c) \/ pollPendingLoads(c) \/ Evict(c)
  BY <1>7 DEF updateOccupancy, NoTransition, CollectEvictions, TransitionDone, cleanMemoryServiceCallback, releaseUnusedMemory,
              Transition, pollPendingLoads, Evict, Manager!TakeFuture, Manager!saveAsync,
              Main, managerVars, RunningInv
<1>8. CASE Dead \/ UNCHANGED vars
  BY <1>8 DEF Dead, vars, mapVars, managerVars, RunningInv
<1> QED BY <1>3, <1>4, <1>5, <1>6, <1>7, <1>8 DEF Next, MainStep, UpdateStep

LEMMA StableIsQuietMeans ==
    ASSUME ManagerInv, FuturesTracked, RunningInv
    PROVE  StableIsQuiet
<1> SUFFICES ASSUME mainPc = "idle", isStatsStable
             PROVE  /\ \A c \in Coords : ~SavePending(c)
                    /\ \A w \in LoadWorkers : loadPc[w] \notin {"load", "fulfil"}
  BY DEF StableIsQuiet
<1>1. inflight = 0 /\ phase # "destroyed" /\ Awaited = {}
  BY DEF isStatsStable, RunningInv, FuturesTracked, Awaited
<1>2. ManagerFacts!SavesSettled
  BY <1>1, AssumptionsMet, ManagerFacts!NoneInflight DEF ManagerInv
<1>3. ASSUME NEW c \in Coords PROVE ~SavePending(c)
  BY <1>2 DEF ManagerFacts!SavesSettled, ManagerFacts!SaveBusy, SavePending
<1>4. ASSUME NEW w \in LoadWorkers PROVE loadPc[w] \notin {"load", "fulfil"}
  BY <1>1 DEF ManagerInv, ManagerFacts!LoadInv, ManagerFacts!OpenCoords,
              ManagerFacts!Unanswered, Awaited
<1> QED BY <1>3, <1>4

(* isStatsStable() lets the server compact the map only when no worker is  *)
(* between taking a request and answering it, and no save is unfinished.   *)
THEOREM StableIsQuietHolds == Spec => []StableIsQuiet
<1>1. Init => DisjointInv /\ ManagerInv /\ FuturesTracked /\ RunningInv
  BY InitDisjoint, ManagerInvInit DEF Init, Manager!Init, Manager!NoFuture, FuturesTracked,
                                      RunningInv
<1>2. DisjointInv /\ ManagerInv /\ FuturesTracked /\ RunningInv /\ [Next]_vars
        => (DisjointInv /\ ManagerInv /\ FuturesTracked /\ RunningInv)'
  BY DisjointStep, ManagerInvStep, FuturesStep, RunningStep
<1> QED BY <1>1, <1>2, StableIsQuietMeans, PTL DEF Spec

-----------------------------------------------------------------------------
(* The other variables of the map. *)

RestTyped ==
    /\ mainPc \in {"start", "idle", "poll", "loadRef", "loadOthers", "evict", "dying", "dead"}
    /\ todo \subseteq Coords
    /\ wanted \subseteq Coords
    /\ moves \in 0..MaxMoves
    /\ observed \in [Coords -> Grids]
    /\ raced \subseteq Coords

LEMMA RestStep ==
    ASSUME DisjointInv, ManagerInv, RestTyped, [Next]_vars
    PROVE  RestTyped'
<1> USE DEF RestTyped
<1>1. CASE updateOccupancy
  <2>1. ASSUME NEW T, NEW o \in Obs,
               observed' = [c \in Coords |-> IF c \in T THEN observed[c] \cup {o} ELSE observed[c]]
        PROVE  observed' \in [Coords -> Grids]
    BY <2>1 DEF Grids
  <2>2. \/ observed' = observed
        \/ \E T \in (SUBSET Active) \ {{}}, o \in Obs :
              observed' = [c \in Coords |-> IF c \in T THEN observed[c] \cup {o} ELSE observed[c]]
    BY <1>1 DEF updateOccupancy
  <2>3. observed' \in [Coords -> Grids]
    BY <2>1, <2>2
  <2> QED BY <1>1, <2>3 DEF updateOccupancy, Main, DisjointInv, ActiveTyped
<1>2. ASSUME NEW c \in Coords, Transition(c) PROVE RestTyped'
  <2>1. wanted' \subseteq Coords
    BY <1>2, MapAssumption DEF Transition
  <2>2. moves < MaxMoves /\ moves' = moves + 1 /\ MaxMoves \in Nat
    BY <1>2, MapAssumption DEF Transition
  <2>3. moves' \in 0..MaxMoves
    BY <2>2
  <2> QED BY <1>2, <2>1, <2>3 DEF Transition, Main
<1>3. CASE \/ NoTransition \/ LoadRef \/ CollectEvictions \/ TransitionDone
           \/ cleanMemoryServiceCallback \/ DropFactories \/ DropChunks
  BY <1>3 DEF NoTransition, LoadRef, CollectEvictions, TransitionDone, cleanMemoryServiceCallback, releaseUnusedMemory,
              DropFactories, DropChunks, Main, Active
<1>4. ASSUME NEW c \in Coords, pollPendingLoads(c) \/ LoadOther(c) \/ Evict(c)
      PROVE  RestTyped'
  BY <1>4 DEF pollPendingLoads, LoadOther, Evict, Main
<1>5. CASE ManagerStep
  <2>1. loadReq \in [LoadWorkers -> Coords]
    BY DEF ManagerInv, ManagerFacts!TypeBase, ManagerFacts!LoadTypes
  <2> QED BY <1>5, <2>1 DEF ManagerStep, mapVars
<1>6. CASE DestroyManager \/ Dead \/ UNCHANGED vars
  BY <1>6 DEF DestroyManager, Dead, vars, mapVars
<1> QED BY <1>1, <1>2, <1>3, <1>4, <1>5, <1>6 DEF Next, MainStep, UpdateStep

(* Every variable of the map keeps its type.                               *)
THEOREM MapTypeCorrect == Spec => []TypeOK
<1>1. Init => DisjointInv /\ ManagerInv /\ RestTyped
  BY InitDisjoint, ManagerInvInit, MapAssumption DEF Init, RestTyped, Grids
<1>2. DisjointInv /\ ManagerInv /\ RestTyped /\ [Next]_vars
        => (DisjointInv /\ ManagerInv /\ RestTyped)'
  BY DisjointStep, ManagerInvStep, RestStep
<1>3. DisjointInv /\ RestTyped => TypeOK
  BY DEF DisjointInv, ActiveTyped, RestTyped, TypeOK
<1> QED BY <1>1, <1>2, <1>3, PTL DEF Spec

-----------------------------------------------------------------------------
(* What the map remembers.  Follow a chunk that was never read in the      *)
(* middle of its own save and whose files do not fail: while it is active, *)
(* no save of it is under way, and what it has observed is in its grid, to *)
(* which the file is equal as long as the chunk is clean.  While it is not *)
(* active, what it has observed is in the save last asked for (Stored);    *)
(* and as the map evicts active chunks only, none that is on its way from  *)
(* the disk, a grid once read stays the one on the disk until it is        *)
(* promoted (Fetched).                                                     *)

Unraced == Coords \ (raced \cup Faulty)

Settled(c) ==
    /\ ~SavePending(c)
    /\ file[c] = lastSaved[c]
    /\ file[c].state # "torn"

Fetched(c, g) == Settled(c) /\ g = file[c].grid /\ observed[c] \subseteq g

Stored(c) ==
    observed[c] \subseteq IF enq # <<>> /\ enq[1].coord = c THEN enq[1].grid
                                                            ELSE lastSaved[c].grid

ActiveKept(c) ==
    /\ Settled(c)
    /\ observed[c] \subseteq active[c].grid
    /\ active[c].dirty \/ active[c].grid = file[c].grid

AwayKept(c) ==
    /\ Stored(c)
    /\ future[c].state = "ready" => Fetched(c, future[c].grid)
    /\ \A w \in LoadWorkers :
          loadPc[w] = "fulfil" /\ loadReq[w] = c => Fetched(c, loadGot[w])

HistoryInv ==
    ManagerFacts!OneSaver /\ EnableIO =>
        /\ \A c \in Coords : lastSaved[c].state # "torn"
        /\ \A c \in Unraced \cap Active : ActiveKept(c)
        /\ mainPc \notin {"dying", "dead"} => \A c \in Unraced \ Active : AwayKept(c)

(* The loop that evicts visits active chunks only.                         *)
EvictsActive == mainPc = "evict" => todo \subseteq Active

LEMMA PushedAlone ==
    ASSUME ManagerInv, enq # <<>>
    PROVE  /\ enq \in Seq(ManagerFacts!SaveRequest) /\ Len(enq) = 1 /\ DOMAIN enq = {1}
           /\ enq[1].coord \in Coords
<1>1. enq \in Seq(ManagerFacts!SaveRequest) /\ Len(enq) <= 1
  BY DEF ManagerInv, ManagerFacts!TypeBase, ManagerFacts!SaveTypes
<1>2. Len(enq) \in Nat \ {0}
  BY <1>1, EmptySeq
<1>3. ASSUME NEW k \in Nat \ {0}, k <= 1 PROVE k = 1 /\ 1 .. k = {1}
  BY <1>3
<1>4. Len(enq) = 1 /\ DOMAIN enq = {1}
  BY <1>1, <1>2, <1>3, LenProperties
<1>5. enq[1] \in ManagerFacts!SaveRequest
  BY <1>1, <1>4, ElementOfSeq
<1> QED BY <1>1, <1>4, <1>5 DEF ManagerFacts!SaveRequest

(* A save worker, and the push of a save, do nothing to a chunk without a  *)
(* save under way.                                                         *)
LEMMA SaveWorkerSettled ==
    ASSUME ManagerInv, NEW w \in SaveWorkers, Manager!SaveWorker(w), NEW c \in Coords, Settled(c)
    PROVE  Settled(c)' /\ file'[c] = file[c]
<1>1. /\ savePc \in [SaveWorkers ->
                        {"check", "pop", "open", "write", "settle", "notify", "exited"}]
      /\ saveReq \in [SaveWorkers -> ManagerFacts!SaveRequest]
      /\ file \in [Coords -> ManagerFacts!File]
      /\ saveQ \in Seq(ManagerFacts!SaveRequest)
  BY DEF ManagerInv, ManagerFacts!TypeBase, ManagerFacts!SaveTypes
<1>2. UNCHANGED <<enq, lastSaved>>
  BY DEF Manager!SaveWorker, Manager!SaveCheck, Manager!SavePop, Manager!SavePopNothing,
         Manager!SaveOpen, Manager!SaveSkip, Manager!SaveWrite, Manager!SaveSettle,
         Manager!SaveNotify, Manager!SaveStep
<1>3. /\ ~ManagerFacts!Queued(saveQ, c)
      /\ \A v \in SaveWorkers : savePc[v] \in {"open", "write"} => saveReq[v].coord # c
      /\ \A i \in DOMAIN enq : enq[i].coord # c
  BY DEF Settled, SavePending, ManagerFacts!Queued
<1>4. ASSUME ~ManagerFacts!Queued(saveQ', c), file'[c] = file[c],
             savePc'[w] \in {"open", "write"} => saveReq'[w].coord # c,
             savePc' = [savePc EXCEPT ![w] = savePc'[w]],
             saveReq' = [saveReq EXCEPT ![w] = saveReq'[w]]
      PROVE  Settled(c)' /\ file'[c] = file[c]
  <2>1. \A v \in SaveWorkers : savePc'[v] \in {"open", "write"} => saveReq'[v].coord # c
    BY <1>1, <1>3, <1>4
  <2> QED BY <1>2, <1>3, <1>4, <2>1 DEF Settled, SavePending, ManagerFacts!Queued
<1>5. CASE Manager!SavePop(w)
  <2>1. /\ saveQ # <<>> /\ saveQ' = Tail(saveQ) /\ file' = file
        /\ savePc' = [savePc EXCEPT ![w] = "open"]
        /\ saveReq' = [saveReq EXCEPT ![w] = Head(saveQ)]
    BY <1>5 DEF Manager!SavePop, Manager!SaveStep
  <2>2. Head(saveQ) = saveQ[1] /\ 1 \in DOMAIN saveQ
    BY <1>1, <2>1, HeadTailProperties, LenProperties, EmptySeq
  <2>3. ~ManagerFacts!Queued(saveQ', c)
    BY <1>1, <1>3, <2>1, AssumptionsMet, ManagerFacts!PopNewest
  <2>4. saveQ[1].coord # c
    BY <1>3, <2>2 DEF ManagerFacts!Queued
  <2> QED BY <1>1, <1>4, <2>1, <2>2, <2>3, <2>4
<1>6. CASE Manager!SaveOpen(w) \/ Manager!SaveWrite(w)
  <2>1. /\ saveQ' = saveQ /\ saveReq' = saveReq /\ savePc[w] \in {"open", "write"}
        /\ \E f : file' = [file EXCEPT ![saveReq[w].coord] = f]
        /\ \E to : savePc' = [savePc EXCEPT ![w] = to]
    BY <1>6 DEF Manager!SaveOpen, Manager!SaveWrite, Manager!SaveStep
  <2>2. file'[c] = file[c]
    BY <1>1, <1>3, <2>1
  <2> QED BY <1>1, <1>3, <1>4, <2>1, <2>2
<1>7. CASE \/ Manager!SaveCheck(w) \/ Manager!SavePopNothing(w) \/ Manager!SaveSkip(w)
           \/ Manager!SaveSettle(w) \/ Manager!SaveNotify(w)
  <2>1. /\ saveQ' = saveQ /\ file' = file
        /\ \E to \in {"pop", "exited", "settle", "notify", "check"} :
              savePc' = [savePc EXCEPT ![w] = to]
        /\ saveReq' = saveReq \/ saveReq' = [saveReq EXCEPT ![w] = Manager!NoSave]
    BY <1>7 DEF Manager!SaveCheck, Manager!SavePopNothing, Manager!SaveSkip,
                Manager!SaveSettle, Manager!SaveNotify, Manager!SaveStep
  <2> QED BY <1>1, <1>3, <1>4, <2>1
<1> QED BY <1>5, <1>6, <1>7 DEF Manager!SaveWorker

LEMMA SavePushSettled ==
    ASSUME ManagerInv, Manager!SavePush, NEW c \in Coords, Settled(c)
    PROVE  Settled(c)' /\ file' = file /\ lastSaved'[c] = lastSaved[c]
<1>1. enq # <<>> /\ enq' = <<>> /\ UNCHANGED <<savePc, saveReq, file>>
  BY DEF Manager!SavePush
<1>2. /\ enq \in Seq(ManagerFacts!SaveRequest) /\ Len(enq) = 1 /\ DOMAIN enq = {1}
      /\ saveQ \in Seq(ManagerFacts!SaveRequest)
      /\ lastSaved \in [Coords -> ManagerFacts!File]
  BY <1>1, PushedAlone DEF ManagerInv, ManagerFacts!TypeBase, ManagerFacts!SaveTypes
<1>3. enq[1].coord # c /\ ~ManagerFacts!Queued(saveQ, c)
  BY <1>2 DEF Settled, SavePending, ManagerFacts!Queued
<1>4. \/ UNCHANGED <<saveQ, lastSaved>>
      \/ /\ saveQ' = saveQ \o enq
         /\ lastSaved' = [lastSaved EXCEPT ![enq[1].coord] = Manager!WholeFile(enq[1].grid)]
  BY DEF Manager!SavePush
<1>5. lastSaved'[c] = lastSaved[c]
  BY <1>2, <1>3, <1>4
<1>6. ManagerFacts!Appended(saveQ \o enq, saveQ, Len(saveQ), enq[1])
  BY <1>2, AssumptionsMet, ManagerFacts!PushNewest
<1>7. ~ManagerFacts!Queued(saveQ', c)
  BY <1>3, <1>4, <1>6 DEF ManagerFacts!Appended
<1> QED BY <1>1, <1>5, <1>7 DEF Settled, SavePending, ManagerFacts!Queued

LEMMA SettledStays ==
    ASSUME ManagerInv, Manager!Workers \/ Manager!SavePush, NEW c \in Coords, Settled(c)
    PROVE  Settled(c)' /\ file'[c] = file[c] /\ lastSaved'[c] = lastSaved[c]
<1>1. CASE \E w \in LoadWorkers : Manager!LoadWorker(w)
  <2>1. UNCHANGED <<enq, saveQ, savePc, saveReq, file, lastSaved>>
    BY <1>1 DEF Manager!LoadWorker, Manager!LoadCheck, Manager!LoadPop, Manager!LoadPopNothing,
                Manager!LoadRead, Manager!Fulfil, Manager!removePendingLoad, Manager!LoadStep,
                Manager!saveVars
  <2> QED BY <2>1 DEF Settled, SavePending
<1>2. CASE \E w \in SaveWorkers : Manager!SaveWorker(w)
  <2>1. Settled(c)' /\ file'[c] = file[c]
    BY <1>2, SaveWorkerSettled
  <2> QED BY <2>1 DEF Settled
<1>3. CASE Manager!SavePush
  BY <1>3, SavePushSettled
<1> QED BY <1>1, <1>2, <1>3 DEF Manager!Workers

(* What the manager proves of the last save: a chunk none of whose saves   *)
(* is under way has the last one on disk.                                  *)
LEMMA QuietIsSettled ==
    ASSUME ManagerFacts!LastInv, ManagerFacts!OneSaver, EnableIO, phase # "destroyed",
           NEW c \in Coords \ Faulty, lastSaved[c].state # "torn", ~SavePending(c)
    PROVE  Settled(c)
<1>1. ManagerFacts!LastOf(c)
  BY DEF ManagerFacts!LastInv
<1>2. ~ManagerFacts!Queued(saveQ, c) /\ ManagerFacts!Carried(c) = {}
  BY DEF SavePending, ManagerFacts!Queued, ManagerFacts!Carried
<1>3. \A i \in DOMAIN saveQ : ~ManagerFacts!NewestAt(saveQ, i, c)
  BY <1>2 DEF ManagerFacts!Queued, ManagerFacts!NewestAt
<1> QED BY <1>1, <1>2, <1>3 DEF ManagerFacts!LastOf, Settled

(* A load worker that reads the file finds what was saved last, unless the *)
(* read is a race; what it has read it answers with.                       *)
LEMMA LoadWorkerKeepsAway ==
    ASSUME ManagerInv, ManagerFacts!LastInv, ManagerFacts!OneSaver, EnableIO,
           phase # "destroyed", UNCHANGED <<mapVars>>,
           NEW w \in LoadWorkers, Manager!LoadWorker(w), NEW c \in Coords \ Faulty,
           lastSaved[c].state # "torn", AwayKept(c),
           loadPc[w] = "load" /\ loadPc'[w] # "load" /\ SavePending(loadReq[w]) => loadReq[w] # c
    PROVE  AwayKept(c)'
<1>1. /\ loadPc \in [LoadWorkers -> {"check", "pop", "load", "fulfil", "remove", "exited"}]
      /\ loadReq \in [LoadWorkers -> Coords]
      /\ loadGot \in [LoadWorkers -> Grids]
      /\ future \in [Coords -> ManagerFacts!Future]
  BY DEF ManagerInv, ManagerFacts!TypeBase, ManagerFacts!LoadTypes
<1>2. UNCHANGED <<enq, saveQ, savePc, saveReq, file, lastSaved, observed>>
  BY DEF Manager!LoadWorker, Manager!LoadCheck, Manager!LoadPop, Manager!LoadPopNothing,
         Manager!LoadRead, Manager!Fulfil, Manager!removePendingLoad, Manager!LoadStep,
         Manager!saveVars, mapVars
<1>3. Stored(c)' /\ \A g : Fetched(c, g)' <=> Fetched(c, g)
  BY <1>2 DEF AwayKept, Stored, Fetched, Settled, SavePending
<1>4. CASE Manager!LoadRead(w)
  <2>1. PICK g \in Manager!ReadOf(loadReq[w], file[loadReq[w]]) :
           loadGot' = [loadGot EXCEPT ![w] = g]
    BY <1>4 DEF Manager!LoadRead
  <2>2. /\ loadPc[w] = "load" /\ loadPc' = [loadPc EXCEPT ![w] = "fulfil"]
        /\ future' = future /\ loadReq' = loadReq
    BY <1>4 DEF Manager!LoadRead, Manager!LoadStep
  <2>3. ASSUME loadReq[w] = c PROVE Fetched(c, loadGot'[w])
    <3>1. ~SavePending(c)
      BY <1>1, <2>2, <2>3
    <3>2. Settled(c)
      BY <3>1, QuietIsSettled
    <3>3. g = file[c].grid /\ loadGot'[w] = g
      BY <1>1, <2>1, <2>3, <3>2 DEF Settled, Manager!ReadOf
    <3>4. enq # <<>> => enq[1].coord # c
      BY <3>1, PushedAlone DEF SavePending
    <3>5. observed[c] \subseteq file[c].grid
      BY <3>2, <3>4 DEF AwayKept, Stored, Settled
    <3> QED BY <3>2, <3>3, <3>5 DEF Fetched
  <2> QED BY <1>1, <1>3, <2>1, <2>2, <2>3 DEF AwayKept
<1>5. CASE Manager!Fulfil(w)
  <2>1. /\ loadPc[w] = "fulfil" /\ loadPc' = [loadPc EXCEPT ![w] = "remove"]
        /\ future' = [future EXCEPT ![loadReq[w]] = Manager!ReadyFuture(loadGot[w])]
        /\ UNCHANGED <<loadReq, loadGot>>
    BY <1>5 DEF Manager!Fulfil, Manager!LoadStep
  <2>2. loadReq[w] = c => Fetched(c, loadGot[w])
    BY <2>1 DEF AwayKept
  <2>3. future'[c].state = "ready" => Fetched(c, future'[c].grid)
    BY <1>1, <2>1, <2>2 DEF AwayKept, Manager!ReadyFuture
  <2> QED BY <1>1, <1>3, <2>1, <2>3 DEF AwayKept
<1>6. CASE \/ Manager!LoadCheck(w) \/ Manager!LoadPop(w) \/ Manager!LoadPopNothing(w)
           \/ Manager!removePendingLoad(w)
  <2>1. /\ future' = future
        /\ \E to \in {"pop", "exited", "load", "check"} : loadPc' = [loadPc EXCEPT ![w] = to]
        /\ \A v \in LoadWorkers \ {w} : loadReq'[v] = loadReq[v] /\ loadGot'[v] = loadGot[v]
    BY <1>1, <1>6 DEF Manager!LoadCheck, Manager!LoadPop, Manager!LoadPopNothing,
                Manager!removePendingLoad, Manager!LoadStep
  <2>2. \A v \in LoadWorkers : loadPc'[v] = "fulfil" => v # w /\ loadPc[v] = "fulfil"
    BY <1>1, <2>1
  <2> QED BY <1>3, <2>1, <2>2 DEF AwayKept
<1> QED BY <1>4, <1>5, <1>6 DEF Manager!LoadWorker

LEMMA SaversKeepAway ==
    ASSUME ManagerInv, phase = "running", UNCHANGED <<mapVars>>,
           (\E w \in SaveWorkers : Manager!SaveWorker(w)) \/ Manager!SavePush,
           NEW c \in Coords, AwayKept(c)
    PROVE  AwayKept(c)'
<1>1. UNCHANGED <<future, loadPc, loadReq, loadGot, observed>>
  BY DEF Manager!SaveWorker, Manager!SaveCheck, Manager!SavePop, Manager!SavePopNothing,
         Manager!SaveOpen, Manager!SaveSkip, Manager!SaveWrite, Manager!SaveSettle,
         Manager!SaveNotify, Manager!SaveStep, Manager!SavePush, Manager!loadVars, mapVars
<1>2. \A g : Fetched(c, g) => Fetched(c, g)'
  BY <1>1, SettledStays DEF Fetched, Manager!Workers
<1>3. Stored(c)'
  <2>1. CASE \E w \in SaveWorkers : Manager!SaveWorker(w)
    <3>1. UNCHANGED <<enq, lastSaved>>
      BY <2>1 DEF Manager!SaveWorker, Manager!SaveCheck, Manager!SavePop,
         Manager!SavePopNothing, Manager!SaveOpen, Manager!SaveSkip, Manager!SaveWrite,
         Manager!SaveSettle, Manager!SaveNotify, Manager!SaveStep
    <3> QED BY <1>1, <3>1 DEF AwayKept, Stored
  <2>2. CASE Manager!SavePush
    <3>1. /\ enq # <<>> /\ enq' = <<>>
          /\ lastSaved' = [lastSaved EXCEPT ![enq[1].coord] = Manager!WholeFile(enq[1].grid)]
      BY <2>2 DEF Manager!SavePush, Manager!QueuesAreShut
    <3>2. lastSaved \in [Coords -> ManagerFacts!File]
      BY DEF ManagerInv, ManagerFacts!TypeBase, ManagerFacts!SaveTypes
    <3>3. lastSaved'[c].grid = IF enq[1].coord = c THEN enq[1].grid ELSE lastSaved[c].grid
      BY <3>1, <3>2 DEF Manager!WholeFile
    <3> QED BY <1>1, <3>1, <3>3 DEF AwayKept, Stored
  <2> QED BY <2>1, <2>2
<1> QED BY <1>1, <1>2, <1>3 DEF AwayKept

LEMMA LastSavedWhole ==
    ASSUME ManagerInv, \A c \in Coords : lastSaved[c].state # "torn",
           Manager!Next \/ UNCHANGED managerVars
    PROVE  \A c \in Coords : lastSaved'[c].state # "torn"
<1>1. lastSaved \in [Coords -> ManagerFacts!File]
  BY DEF ManagerInv, ManagerFacts!TypeBase, ManagerFacts!SaveTypes
<1>2. CASE Manager!SavePush
  BY <1>1, <1>2 DEF Manager!SavePush, Manager!WholeFile
<1>3. ASSUME NEW w \in LoadWorkers, Manager!LoadWorker(w) PROVE lastSaved' = lastSaved
  BY <1>3 DEF Manager!LoadWorker, Manager!LoadCheck, Manager!LoadPop, Manager!LoadPopNothing,
              Manager!LoadRead, Manager!Fulfil, Manager!removePendingLoad, Manager!LoadStep,
              Manager!saveVars
<1>4. ASSUME NEW w \in SaveWorkers, Manager!SaveWorker(w) PROVE lastSaved' = lastSaved
  BY <1>4 DEF Manager!SaveWorker, Manager!SaveCheck, Manager!SavePop, Manager!SavePopNothing,
              Manager!SaveOpen, Manager!SaveSkip, Manager!SaveWrite, Manager!SaveSettle,
              Manager!SaveNotify, Manager!SaveStep
<1>5. CASE Manager!Next /\ ~Manager!SavePush /\ ~Manager!Workers
  BY <1>5 DEF Manager!Next, Manager!Callers, Manager!loadAsync, Manager!TakeFuture,
              Manager!saveAsync, Manager!waitForPendingSaves, Manager!WaitStep, Manager!Stop,
              Manager!Destructor, Manager!ShutQueues, Manager!JoinAndDestroy, Manager!Gone,
              Manager!vars, Manager!saveVars
<1>6. CASE UNCHANGED managerVars
  BY <1>6 DEF managerVars
<1> QED BY <1>2, <1>3, <1>4, <1>5, <1>6 DEF Manager!Workers

MapInv ==
    /\ DisjointInv /\ ManagerInv /\ FuturesTracked /\ RunningInv
    /\ ManagerFacts!LastInv /\ EvictsActive

LEMMA ManagerStepHistory ==
    ASSUME MapInv, HistoryInv, ManagerStep
    PROVE  HistoryInv'
<1> SUFFICES ASSUME ManagerFacts!OneSaver, EnableIO
             PROVE  /\ \A c \in Coords : lastSaved'[c].state # "torn"
                    /\ \A c \in Unraced' \cap Active' : ActiveKept(c)'
                    /\ mainPc' \notin {"dying", "dead"} =>
                          \A c \in Unraced' \ Active' : AwayKept(c)'
  BY DEF HistoryInv
<1>1. /\ UNCHANGED mapVars /\ Active' = Active /\ Unraced' \subseteq Unraced
      /\ UNCHANGED <<active, observed, mainPc>>
  BY DEF ManagerStep, mapVars, Active, Unraced
<1>2. Manager!Workers \/ Manager!SavePush
  BY DEF ManagerStep
<1>3. /\ \A c \in Coords : lastSaved[c].state # "torn"
      /\ \A c \in Unraced \cap Active : ActiveKept(c)
      /\ mainPc \notin {"dying", "dead"} => \A c \in Unraced \ Active : AwayKept(c)
  BY DEF HistoryInv
<1>4. \A c \in Coords : lastSaved'[c].state # "torn"
  BY <1>2, <1>3, LastSavedWhole DEF Manager!Next, Manager!Callers, MapInv
<1>5. ASSUME NEW c \in Unraced' \cap Active' PROVE ActiveKept(c)'
  <2>1. c \in Coords /\ ActiveKept(c)
    BY <1>1, <1>3, <1>5 DEF Unraced
  <2> QED BY <1>1, <1>2, <2>1, SettledStays DEF ActiveKept, MapInv
<1>6. ASSUME mainPc' \notin {"dying", "dead"}, NEW c \in Unraced' \ Active'
      PROVE  AwayKept(c)'
  <2>1. c \in Coords \ Faulty /\ AwayKept(c) /\ phase = "running" /\ c \notin raced'
    BY <1>1, <1>3, <1>6 DEF Unraced, MapInv, RunningInv
  <2>2. ASSUME NEW w \in LoadWorkers, Manager!LoadWorker(w) PROVE AwayKept(c)'
    <3>1. loadPc[w] = "load" /\ loadPc'[w] # "load" /\ SavePending(loadReq[w])
             => loadReq[w] # c
      BY <2>1 DEF ManagerStep
    <3> QED BY <1>1, <1>3, <2>1, <2>2, <3>1, LoadWorkerKeepsAway DEF MapInv
  <2>3. CASE (\E w \in SaveWorkers : Manager!SaveWorker(w)) \/ Manager!SavePush
    BY <1>1, <2>1, <2>3, SaversKeepAway DEF MapInv
  <2> QED BY <1>2, <2>2, <2>3 DEF Manager!Workers
<1> QED BY <1>4, <1>5, <1>6

(* Steps that change no chunk and ask nothing of the manager.              *)
LEMMA HistoryFrame ==
    ASSUME HistoryInv, UNCHANGED <<managerVars, raced, observed, active>>,
           mainPc \in {"dying", "dead"} => mainPc' \in {"dying", "dead"}
    PROVE  HistoryInv'
<1>1. Active' = Active /\ Unraced' = Unraced
  BY DEF Active, Unraced
<1>2. \A c : /\ ActiveKept(c)' <=> ActiveKept(c)
             /\ AwayKept(c)' <=> AwayKept(c)
  BY DEF managerVars, ActiveKept, AwayKept, Settled, Stored, Fetched, SavePending
<1> QED BY <1>1, <1>2 DEF HistoryInv, managerVars

(* An observation reaches its chunk and the chunk's history alike; the     *)
(* clean-up touches chunks and observes nothing.                           *)
LEMMA TouchHistory ==
    ASSUME DisjointInv, HistoryInv, UNCHANGED <<managerVars, raced>>,
           mainPc \notin {"dying", "dead"},
           NEW T \in SUBSET Active, NEW new \in Grids, observed \in [Coords -> Grids],
           active' = [c \in Coords |-> IF c \in T THEN Touched(active[c], new) ELSE active[c]],
           \/ observed' = observed
           \/ observed' = [c \in Coords |-> IF c \in T THEN observed[c] \cup new ELSE observed[c]]
    PROVE  HistoryInv'
<1>1. ASSUME NEW c \in Coords
      PROVE  /\ active'[c].present = active[c].present
             /\ c \in T => active'[c].dirty /\ active'[c].grid = active[c].grid \cup new
             /\ c \notin T => active'[c] = active[c]
             /\ observed'[c] \subseteq observed[c] \cup (IF c \in T THEN new ELSE {})
             /\ c \notin T => observed'[c] = observed[c]
  BY DEF DisjointInv, ActiveTyped, Touched, Chunk
<1>2. Active' = Active /\ Unraced' = Unraced
  BY <1>1 DEF Active, Unraced
<1>3. \A c : Settled(c)' <=> Settled(c)
  BY DEF Settled, SavePending, managerVars
<1>4. \A c \in Coords \ Active : AwayKept(c)' <=> AwayKept(c)
  BY <1>1, <1>3 DEF AwayKept, Stored, Fetched, managerVars
<1>5. ASSUME NEW c \in Coords, ActiveKept(c) PROVE ActiveKept(c)'
  BY <1>1, <1>3, <1>5 DEF ActiveKept, managerVars
<1>6. Unraced \subseteq Coords
  BY DEF Unraced
<1> QED BY <1>2, <1>4, <1>5, <1>6 DEF HistoryInv, managerVars

(* A future that is taken was kept since its file was read.                *)
LEMMA PollHistory ==
    ASSUME MapInv, HistoryInv, NEW c \in Coords, pollPendingLoads(c)
    PROVE  HistoryInv'
<1>1. mainPc = "poll" /\ mainPc' = "poll" /\ raced' = raced /\ observed' = observed
  BY DEF pollPendingLoads, Main
<1>2. CASE future[c].state # "ready"
  BY <1>1, <1>2, HistoryFrame DEF pollPendingLoads
<1>3. CASE future[c].state = "ready"
  <2>1. /\ active' = IF c \in Active THEN active
                     ELSE [active EXCEPT ![c] = Promoted(future[c].grid)]
        /\ future' = [future EXCEPT ![c] = Manager!NoFuture]
        /\ UNCHANGED <<loadPc, loadReq, loadGot, enq, saveQ, savePc, saveReq, file, lastSaved>>
    BY <1>3 DEF pollPendingLoads, Manager!TakeFuture, Manager!saveVars
  <2>2. c \notin Active
    BY <1>1, <1>3 DEF MapInv, FuturesTracked, DisjointInv, ActivePendingDisjoint
  <2>3. /\ active \in [Coords -> Chunk] /\ future \in [Coords -> ManagerFacts!Future]
    BY DEF MapInv, DisjointInv, ActiveTyped, ManagerInv, ManagerFacts!TypeBase,
           ManagerFacts!LoadTypes
  <2>4. Active' = Active \cup {c} /\ Unraced' = Unraced /\ Unraced \subseteq Coords
    BY <1>1, <2>1, <2>2, <2>3 DEF Active, Unraced, Promoted
  <2>5. \A d : /\ Settled(d)' <=> Settled(d)
               /\ Stored(d)' <=> Stored(d)
               /\ \A g : Fetched(d, g)' <=> Fetched(d, g)
    BY <1>1, <2>1 DEF Settled, SavePending, Stored, Fetched
  <2>6. ASSUME NEW d \in Coords, d # c
        PROVE  (ActiveKept(d)' <=> ActiveKept(d)) /\ (AwayKept(d) => AwayKept(d)')
    BY <1>1, <2>1, <2>3, <2>5, <2>6 DEF ActiveKept, AwayKept
  <2>7. AwayKept(c) => ActiveKept(c)'
    BY <1>1, <1>3, <2>1, <2>2, <2>3, <2>5 DEF AwayKept, ActiveKept, Fetched, Promoted
  <2> QED BY <1>1, <2>1, <2>2, <2>4, <2>6, <2>7 DEF HistoryInv
<1> QED BY <1>2, <1>3

LEMMA RequestHistory ==
    ASSUME MapInv, HistoryInv, NEW c \in Coords, NEW p, request(c, p),
           UNCHANGED <<raced, observed, active>>, mainPc \notin {"dying", "dead"}
    PROVE  HistoryInv'
<1>1. \/ UNCHANGED managerVars
      \/ /\ future' = [future EXCEPT ![c] = Manager!WaitingFuture]
         /\ UNCHANGED <<loadPc, loadReq, loadGot, enq, saveQ, savePc, saveReq, file, lastSaved>>
  BY DEF request, Manager!loadAsync, Manager!saveVars, managerVars
<1>2. CASE UNCHANGED managerVars
  BY <1>2, HistoryFrame
<1>3. CASE /\ future' = [future EXCEPT ![c] = Manager!WaitingFuture]
           /\ UNCHANGED <<loadPc, loadReq, loadGot, enq, saveQ, savePc, saveReq, file, lastSaved>>
  <2>1. future \in [Coords -> ManagerFacts!Future]
    BY DEF MapInv, ManagerInv, ManagerFacts!TypeBase, ManagerFacts!LoadTypes
  <2>2. \A d \in Coords : future'[d].state = "ready" => future'[d] = future[d]
    BY <1>3, <2>1 DEF Manager!WaitingFuture
  <2>3. Active' = Active /\ Unraced' = Unraced /\ Unraced \subseteq Coords
    BY DEF Active, Unraced
  <2>4. ASSUME NEW d \in Coords
        PROVE  (ActiveKept(d)' <=> ActiveKept(d)) /\ (AwayKept(d) => AwayKept(d)')
    BY <1>3, <2>2 DEF ActiveKept, AwayKept, Settled, SavePending, Stored, Fetched
  <2> QED BY <1>3, <2>3, <2>4 DEF HistoryInv
<1> QED BY <1>1, <1>2, <1>3

(* An evicted chunk is saved if it is dirty, and on disk if it is clean;   *)
(* nobody is loading it, because it is active.                             *)
LEMMA EvictHistory ==
    ASSUME MapInv, HistoryInv, NEW c \in Coords, Evict(c)
    PROVE  HistoryInv'
<1>1. /\ mainPc = "evict" /\ mainPc' = "evict" /\ enq = <<>> /\ c \in Active
      /\ UNCHANGED <<raced, observed>> /\ active' = [active EXCEPT ![c] = NoChunk]
  BY DEF Evict, Main, MapInv, EvictsActive
<1>2. /\ active \in [Coords -> Chunk]
      /\ UNCHANGED <<future, loadPc, loadReq, loadGot, saveQ, savePc, saveReq, file, lastSaved>>
  BY DEF Evict, Manager!saveAsync, Manager!loadVars, managerVars, MapInv, DisjointInv,
         ActiveTyped
<1>3. IF active[c].dirty THEN enq' = <<[coord |-> c, grid |-> active[c].grid]>>
                         ELSE enq' = enq
  BY DEF Evict, Manager!saveAsync, managerVars
<1>4. Active' = Active \ {c} /\ Unraced' = Unraced /\ Unraced \subseteq Coords
  BY <1>1, <1>2 DEF Active, Unraced, NoChunk
<1>5. \A i \in DOMAIN enq' : enq'[i].coord = c
  BY <1>1, <1>3
<1>6. ASSUME NEW d \in Coords, d # c
      PROVE  /\ Settled(d) => Settled(d)'
             /\ Stored(d)' <=> Stored(d)
             /\ active'[d] = active[d]
  BY <1>1, <1>2, <1>3, <1>5, <1>6 DEF Settled, SavePending, Stored
<1>7. ASSUME NEW d \in Coords, d # c
      PROVE  (ActiveKept(d) => ActiveKept(d)') /\ (AwayKept(d) => AwayKept(d)')
  BY <1>1, <1>2, <1>6, <1>7 DEF ActiveKept, AwayKept, Fetched
<1>8. ASSUME ActiveKept(c) PROVE AwayKept(c)'
  <2>1. Stored(c)'
    BY <1>1, <1>2, <1>3, <1>8 DEF ActiveKept, Settled, Stored
  <2>2. future[c].state \notin {"waiting", "ready"}
    BY <1>1 DEF MapInv, FuturesTracked, DisjointInv, ActivePendingDisjoint
  <2>3. \A w \in LoadWorkers : loadPc[w] = "fulfil" => loadReq[w] # c
    BY <2>2 DEF MapInv, ManagerInv, ManagerFacts!LoadInv, ManagerFacts!OpenCoords,
                ManagerFacts!Unanswered
  <2> QED BY <1>2, <2>1, <2>2, <2>3 DEF AwayKept
<1> QED BY <1>1, <1>2, <1>4, <1>7, <1>8 DEF HistoryInv

LEMMA EvictsActiveStep ==
    ASSUME DisjointInv, EvictsActive, [Next]_vars
    PROVE  EvictsActive'
<1>1. ASSUME NEW c \in Coords, Evict(c) PROVE EvictsActive'
  <2>1. active \in [Coords -> Chunk] /\ active' = [active EXCEPT ![c] = NoChunk]
    BY <1>1 DEF Evict, DisjointInv, ActiveTyped
  <2>2. Active \ {c} \subseteq Active'
    BY <2>1 DEF Active
  <2> QED BY <1>1, <2>2 DEF Evict, Main, EvictsActive
<1>2. CASE CollectEvictions
  BY <1>2 DEF CollectEvictions, Main, EvictsActive, Active
<1>3. CASE DestroyManager \/ ManagerStep \/ Dead \/ UNCHANGED vars
  BY <1>3 DEF DestroyManager, ManagerStep, Dead, vars, mapVars, EvictsActive, Active
<1>4. CASE \/ updateOccupancy \/ NoTransition \/ LoadRef \/ TransitionDone
           \/ cleanMemoryServiceCallback \/ DropFactories \/ DropChunks
           \/ \E c \in Coords : pollPendingLoads(c) \/ Transition(c) \/ LoadOther(c)
  BY <1>4 DEF updateOccupancy, NoTransition, LoadRef, TransitionDone,
              cleanMemoryServiceCallback, DropFactories, DropChunks, pollPendingLoads,
              Transition, LoadOther, Main, EvictsActive
<1> QED BY <1>1, <1>2, <1>3, <1>4 DEF Next, MainStep, UpdateStep

(* In a destructor only the chunks still active matter, and nothing is     *)
(* asked of the manager any more.                                          *)
LEMMA DestroyHistory ==
    ASSUME HistoryInv, DestroyManager
    PROVE  HistoryInv'
<1>1. /\ mainPc = "dying" /\ mainPc' = "dying" /\ Active' = Active /\ Unraced' = Unraced
      /\ UNCHANGED <<active, observed, enq, savePc, saveReq, file, lastSaved>>
      /\ saveQ' = saveQ \/ saveQ' = <<>>
  BY DEF DestroyManager, Manager!Stop, Manager!Destructor, Manager!ShutQueues,
         Manager!JoinAndDestroy, Manager!saveVars, mapVars, Active, Unraced
<1>2. \A c : ActiveKept(c) => ActiveKept(c)'
  BY <1>1 DEF ActiveKept, Settled, SavePending
<1> QED BY <1>1, <1>2 DEF HistoryInv

LEMMA HistoryStep ==
    ASSUME MapInv, RestTyped, HistoryInv, [Next]_vars
    PROVE  HistoryInv'
<1>1. CASE updateOccupancy
  <2>1. CASE UNCHANGED <<active, observed>>
    BY <1>1, <2>1, HistoryFrame DEF updateOccupancy, Main
  <2>2. ASSUME NEW T \in SUBSET Active, NEW o \in Obs,
               active' = [c \in Coords |-> IF c \in T THEN Touched(active[c], {o}) ELSE active[c]],
               observed' = [c \in Coords |-> IF c \in T THEN observed[c] \cup {o} ELSE observed[c]]
        PROVE  HistoryInv'
    <3>1. {o} \in Grids
      BY DEF Grids
    <3> QED BY <1>1, <2>2, <3>1, TouchHistory DEF updateOccupancy, Main, MapInv, RestTyped
  <2> QED BY <1>1, <2>1, <2>2 DEF updateOccupancy
<1>2. ASSUME NEW c \in Coords, pollPendingLoads(c) PROVE HistoryInv'
  BY <1>2, PollHistory
<1>3. CASE LoadRef
  BY <1>3, RequestHistory DEF LoadRef, Main, MapInv, DisjointInv, ActiveTyped
<1>4. ASSUME NEW c \in Coords, LoadOther(c) PROVE HistoryInv'
  BY <1>4, RequestHistory DEF LoadOther, Main
<1>5. ASSUME NEW c \in Coords, Evict(c) PROVE HistoryInv'
  BY <1>5, EvictHistory
<1>6. CASE cleanMemoryServiceCallback
  <2>1. {} \in Grids
    BY DEF Grids
  <2> QED BY <1>6, <2>1, TouchHistory DEF cleanMemoryServiceCallback, releaseUnusedMemory,
                                          Main, MapInv, RestTyped
<1>7. CASE \/ NoTransition \/ CollectEvictions \/ TransitionDone \/ DropFactories
           \/ \E c \in Coords : Transition(c)
  BY <1>7, HistoryFrame DEF NoTransition, CollectEvictions, TransitionDone, DropFactories,
                            Transition, Main
<1>8. CASE DropChunks
  <2>1. /\ \A c \in Coords : ~active'[c].present
        /\ mainPc' = "dead" /\ UNCHANGED managerVars
    BY <1>8 DEF DropChunks, Main, NoChunk
  <2> QED BY <2>1 DEF HistoryInv, managerVars, Active
<1>9. CASE DestroyManager
  BY <1>9, DestroyHistory
<1>10. CASE ManagerStep
  BY <1>10, ManagerStepHistory
<1>11. CASE Dead \/ UNCHANGED vars
  BY <1>11, HistoryFrame DEF Dead, vars, mapVars
<1> QED BY <1>1, <1>2, <1>3, <1>4, <1>5, <1>6, <1>7, <1>8, <1>9, <1>10, <1>11
        DEF Next, MainStep, UpdateStep

LEMMA LastInvStep ==
    ASSUME DisjointInv, ManagerInv, ManagerFacts!LastInv, [Next]_vars
    PROVE  ManagerFacts!LastInv'
<1>1. [ManagerFacts!Next]_(ManagerFacts!vars)
  BY StepIsManagerStep, SameNext, SameVars
<1> QED BY <1>1, AssumptionsMet, ManagerFacts!NextLastInv DEF ManagerInv

LEMMA InitHistory == Init => MapInv /\ HistoryInv
<1> SUFFICES ASSUME Init PROVE MapInv /\ HistoryInv
  OBVIOUS
<1>1. Manager!Init
  BY DEF Init
<1>2. ManagerFacts!Init
  BY <1>1 DEF Manager!Init, ManagerFacts!Init, Manager!NoFuture, ManagerFacts!NoFuture,
         Manager!NoCoord, ManagerFacts!NoCoord, Manager!AnyOf, ManagerFacts!AnyOf,
         Manager!NoSave, ManagerFacts!NoSave, Manager!NoFile, ManagerFacts!NoFile
<1>3. MapInv
  BY <1>1, <1>2, InitDisjoint, ManagerInvInit, AssumptionsMet, ManagerFacts!InitLastInv
     DEF MapInv, Init, Manager!Init, Manager!NoFuture, FuturesTracked, RunningInv, EvictsActive
<1>4. /\ \A c \in Coords : /\ lastSaved[c].state # "torn" /\ observed[c] = {}
                           /\ future[c].state # "ready" /\ ~active[c].present
      /\ \A w \in LoadWorkers : loadPc[w] # "fulfil"
      /\ enq = <<>>
  BY <1>1 DEF Init, Manager!Init, Manager!NoFile, Manager!NoFuture, NoChunk
<1> QED BY <1>3, <1>4 DEF HistoryInv, Active, Unraced, AwayKept, Stored

LEMMA HistoryHolds == Spec => [](MapInv /\ HistoryInv)
<1>1. Init => MapInv /\ RestTyped /\ HistoryInv
  BY InitHistory, MapAssumption DEF Init, RestTyped, Grids
<1>2. MapInv /\ RestTyped /\ HistoryInv /\ [Next]_vars => (MapInv /\ RestTyped /\ HistoryInv)'
  BY DisjointStep, ManagerInvStep, FuturesStep, RunningStep, LastInvStep, EvictsActiveStep,
     RestStep, HistoryStep DEF MapInv
<1> QED BY <1>1, <1>2, PTL DEF Spec

LEMMA OneSaverMeans == OneSaver => EnableIO /\ ManagerFacts!OneSaver
<1> SUFFICES ASSUME EnableIO, Cardinality(SaveWorkers) = 1 PROVE ManagerFacts!OneSaver
  BY DEF OneSaver
<1>1. PICK w : SaveWorkers = {w}
  BY MapAssumption, FS_Singleton
<1> QED BY <1>1 DEF ManagerFacts!OneSaver

(* The one race the map does not guard is the only way it loses what it    *)
(* has observed: an active chunk that was never read in the middle of its  *)
(* own save has all of it, through any number of evictions and reloads.    *)
THEOREM OnlyRacesLoseHolds == Spec => []OnlyRacesLose
<1>1. ASSUME HistoryInv PROVE OnlyRacesLose
  <2>1. ASSUME OneSaver, NEW c \in Active \ (raced \cup Faulty)
        PROVE  observed[c] \subseteq active[c].grid
    BY <1>1, <2>1, OneSaverMeans DEF HistoryInv, ActiveKept, Unraced, Active
  <2> QED BY <2>1 DEF OnlyRacesLose
<1> QED BY <1>1, HistoryHolds, PTL

(* performTransition may drop a clean chunk without saving it: loading its *)
(* file would give the same grid.                                          *)
THEOREM CleanChunksAreOnDiskHolds == Spec => []CleanChunksAreOnDisk
<1>1. ASSUME HistoryInv PROVE CleanChunksAreOnDisk
  <2>1. ASSUME OneSaver, NEW c \in Active \ (raced \cup Faulty), ~active[c].dirty
        PROVE  Manager!ReadOf(c, file[c]) = {active[c].grid}
    <3>1. c \notin Faulty /\ file[c].state # "torn" /\ active[c].grid = file[c].grid
      BY <1>1, <2>1, OneSaverMeans DEF HistoryInv, ActiveKept, Settled, Unraced, Active
    <3> QED BY <3>1 DEF Manager!ReadOf
  <2> QED BY <2>1 DEF CleanChunksAreOnDisk
<1> QED BY <1>1, HistoryHolds, PTL

(* Refinement: with the map's own variables hidden, its behaviours are     *)
(* behaviours of AsyncChunkManager.  The map calls the manager only as the *)
(* manager's callers may, and so gets from it the abstract load service.   *)
THEOREM ManagerImplemented == Spec => Manager!Spec /\ ManagerFacts!ServiceSpec
<1>1. Init => Manager!Init /\ DisjointInv /\ ManagerInv
  BY InitDisjoint, ManagerInvInit DEF Init
<1>2. DisjointInv /\ ManagerInv /\ [Next]_vars => (DisjointInv /\ ManagerInv)'
  BY DisjointStep, ManagerInvStep
<1>3. DisjointInv /\ [Next]_vars => [Manager!Next]_(Manager!vars)
  BY StepIsManagerStep DEF managerVars, Manager!vars, Manager!loadVars, Manager!saveVars
<1>4. Manager!Init => ManagerFacts!Init
  BY DEF Manager!Init, ManagerFacts!Init, Manager!NoFuture, ManagerFacts!NoFuture,
         Manager!NoCoord, ManagerFacts!NoCoord, Manager!AnyOf, ManagerFacts!AnyOf,
         Manager!NoSave, ManagerFacts!NoSave, Manager!NoFile, ManagerFacts!NoFile
<1>5. DisjointInv /\ [Next]_vars => [ManagerFacts!Next]_(ManagerFacts!vars)
  BY StepIsManagerStep, SameNext, SameVars
<1>6. Spec => Manager!Spec
  BY <1>1, <1>2, <1>3, PTL DEF Spec, Manager!Spec
<1>7. Spec => ManagerFacts!Spec
  BY <1>1, <1>2, <1>4, <1>5, PTL DEF Spec, ManagerFacts!Spec
<1>8. ManagerFacts!Spec => ManagerFacts!ServiceSpec
  BY AssumptionsMet, ManagerFacts!ServiceImplemented
<1> QED BY <1>6, <1>7, <1>8, PTL

=============================================================================
