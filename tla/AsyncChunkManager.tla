-------------------------- MODULE AsyncChunkManager --------------------------
(***************************************************************************)
(* AsyncChunkManager (rolling_bonxai/src/async_chunk_manager.cpp) over its *)
(* two shutdown-aware queues (task_queue.hpp) and the chunk files of       *)
(* FileStorageBackend: load workers pop a priority queue and answer        *)
(* promises, save workers pop a FIFO and write files, a caller may wait    *)
(* for the saves, and the destructor stops everything.                     *)
(*                                                                         *)
(* Each mutex-protected section is one step.  The threads interleave       *)
(* between the steps: a load worker sets its promise in one step and       *)
(* leaves the pending table in the next, a save worker truncates the file  *)
(* in one step and finishes it in the next.  Grids are opaque.  Logging    *)
(* and the statistics counters are left out.                               *)
(***************************************************************************)
EXTENDS Naturals, Sequences, FiniteSets, SequencesExt

CONSTANTS Coords,        (* chunk coordinates                                *)
          Grids,         (* what a VoxelGrid can hold                        *)
          EmptyGrid,     (* the grid of a map made by the map factory        *)
          Priorities,    (* load priorities                                  *)
          LoadWorkers,   (* config.num_load_threads                          *)
          SaveWorkers,   (* config.num_save_threads                          *)
          EnableIO,      (* config.enable_io                                 *)
          Faulty,        (* chunks whose files may fail to open or be written*)
          MaxSaveQueue   (* bound of the models: saves queued at once        *)

ConstantsOK ==
    /\ Coords # {}
    /\ EmptyGrid \in Grids
    /\ Priorities \subseteq Nat
    /\ EnableIO \in BOOLEAN
    /\ Faulty \subseteq Coords
    /\ IsFiniteSet(SaveWorkers)
    /\ MaxSaveQueue \in Nat

ASSUME ManagerAssumption == ConstantsOK

VARIABLES
    phase,         (* how far the destructor is; "running" before it         *)
    loadQ,         (* load_queue_, in order of enqueue_time                  *)
    pendingLoads,  (* the keys of pending_loads_                             *)
    future,        (* the caller's end of the latest load promise of a coord *)
    loadPc,        (* where each load worker is                              *)
    loadReq,       (* the coordinate a load worker popped                    *)
    loadGot,       (* the grid it is about to answer with                    *)
    enq,           (* the save counted in inflight but not yet pushed        *)
    saveQ,         (* save_queue_                                            *)
    inflight,      (* inflight_saves_                                        *)
    savePc,        (* where each save worker is                              *)
    saveReq,       (* the request a save worker popped                       *)
    waiter,        (* a thread in waitForPendingSaves                        *)
    file,          (* the .chunk file of each coordinate                     *)
    lastSaved      (* history: the file the last queued save asks for        *)

loadVars == <<loadQ, pendingLoads, future, loadPc, loadReq, loadGot>>
saveVars == <<enq, saveQ, inflight, savePc, saveReq, file, lastSaved>>
vars == <<phase, loadVars, saveVars, waiter>>

-----------------------------------------------------------------------------
(* Types and shorthands. *)

LoadRequest == [coord : Coords, priority : Priorities]
SaveRequest == [coord : Coords, grid : Grids]
Future == [state : {"none", "waiting", "ready", "broken"}, grid : Grids]
File   == [state : {"absent", "torn", "whole"}, grid : Grids]

NoFuture      == [state |-> "none",    grid |-> EmptyGrid]
WaitingFuture == [state |-> "waiting", grid |-> EmptyGrid]
BrokenFuture  == [state |-> "broken",  grid |-> EmptyGrid]
ReadyFuture(g) == [state |-> "ready", grid |-> g]

NoFile   == [state |-> "absent", grid |-> EmptyGrid]
TornFile == [state |-> "torn",   grid |-> EmptyGrid]
WholeFile(g) == [state |-> "whole", grid |-> g]

Stopped         == phase # "running"
QueuesAreShut_Never == FALSE
QueuesAreShut   == phase \in {"shut", "destroyed"}

LoadBusy == {w \in LoadWorkers : loadPc[w] \in {"load", "fulfil", "remove"}}
SaveBusy == {w \in SaveWorkers : savePc[w] \in {"open", "write", "settle"}}

AnyOf(S) == CHOOSE x \in S : TRUE

NoCoord == AnyOf(Coords)
NoSave == [coord |-> NoCoord, grid |-> EmptyGrid]

Init ==
    /\ phase = "running"
    /\ loadQ = <<>>
    /\ pendingLoads = {}
    /\ future = [c \in Coords |-> NoFuture]
    /\ loadPc = [w \in LoadWorkers |-> "check"]
    /\ loadReq = [w \in LoadWorkers |-> NoCoord]
    /\ loadGot = [w \in LoadWorkers |-> EmptyGrid]
    /\ enq = <<>>
    /\ saveQ = <<>>
    /\ inflight = 0
    /\ savePc = [w \in SaveWorkers |-> "check"]
    /\ saveReq = [w \in SaveWorkers |-> NoSave]
    /\ waiter = "out"
    /\ file = [c \in Coords |-> NoFile]
    /\ lastSaved = file

-----------------------------------------------------------------------------
(* The interface: what a caller does, between construction and the end of  *)
(* the destructor.                                                         *)

isLoading(c) == c \in pendingLoads

(* Broken variants of an operator, named after the bug, stand right before *)
(* it; PROJECT.json says which property each one must violate.             *)
LoadRefused_NoDuplicateCheck(c) == Stopped

(* loadAsync is refused once stopped, and for a coordinate that is already *)
(* in pending_loads_.  A push that throws undoes the registration, so it   *)
(* too leaves no trace.                                                    *)
LoadRefused(c) == Stopped \/ isLoading(c) \/ QueuesAreShut

loadAsync(c, p) ==
    /\ phase # "destroyed"
    /\ IF LoadRefused(c)
       THEN UNCHANGED <<loadQ, pendingLoads, future>>
       ELSE /\ pendingLoads' = pendingLoads \cup {c}
            /\ loadQ' = Append(loadQ, [coord |-> c, priority |-> p])
            /\ future' = [future EXCEPT ![c] = WaitingFuture]
    /\ UNCHANGED <<phase, loadPc, loadReq, loadGot, saveVars, waiter>>

(* future.get() on a load that was answered. *)
TakeFuture(c) ==
    /\ phase # "destroyed"
    /\ future[c].state = "ready"
    /\ future' = [future EXCEPT ![c] = NoFuture]
    /\ UNCHANGED <<phase, loadQ, pendingLoads, loadPc, loadReq, loadGot, saveVars, waiter>>

(* saveAsync counts the save before it pushes it. *)
saveAsync(c, g) ==
    /\ phase # "destroyed"
    /\ enq = <<>>
    /\ Len(saveQ) < MaxSaveQueue
    /\ ~Stopped
    /\ inflight' = inflight + 1
    /\ enq' = <<[coord |-> c, grid |-> g]>>
    /\ UNCHANGED <<phase, loadVars, saveQ, savePc, saveReq, file, lastSaved, waiter>>

SavePush_CountKeptOnThrow ==
    /\ enq # <<>>
    /\ IF QueuesAreShut
       THEN UNCHANGED <<saveQ, lastSaved>>
       ELSE /\ saveQ' = saveQ \o enq
            /\ lastSaved' = [lastSaved EXCEPT ![enq[1].coord] = WholeFile(enq[1].grid)]
    /\ enq' = <<>>
    /\ UNCHANGED <<phase, loadVars, inflight, savePc, saveReq, file, waiter>>

(* A push on a queue shut down in between throws: the count is taken back. *)
SavePush ==
    /\ enq # <<>>
    /\ IF QueuesAreShut
       THEN /\ inflight' = inflight - 1
            /\ UNCHANGED <<saveQ, lastSaved>>
       ELSE /\ saveQ' = saveQ \o enq
            /\ lastSaved' = [lastSaved EXCEPT ![enq[1].coord] = WholeFile(enq[1].grid)]
            /\ UNCHANGED inflight
    /\ enq' = <<>>
    /\ UNCHANGED <<phase, loadVars, savePc, saveReq, file, waiter>>

-----------------------------------------------------------------------------
(* waitForPendingSaves: the predicate is tested under saves_done_mutex_,   *)
(* but the workers decrement and notify without it, so a notification can  *)
(* fall between the test and the wait.                                     *)

SavesDone == saveQ = <<>> /\ inflight = 0

WaitStep(from, to) ==
    /\ waiter = from
    /\ waiter' = to
    /\ UNCHANGED <<phase, loadVars, saveVars>>

waitForPendingSaves ==
    \/ ~Stopped   /\ WaitStep("out", "test")
    \/ SavesDone  /\ WaitStep("test", "out")       \* returns true
    \/ ~SavesDone /\ WaitStep("test", "parking")
    \/ WaitStep("parking", "blocked")              \* the mutex is released
    \/ WaitStep("blocked", "out")    \* the timeout elapses: returns SavesDone

-----------------------------------------------------------------------------
(* A load worker: loadWorkerLoop.                                          *)

LoadStep(w, from, to) ==
    /\ loadPc[w] = from
    /\ loadPc' = [loadPc EXCEPT ![w] = to]
    /\ UNCHANGED <<phase, saveVars, waiter>>

LoadCheck(w) ==
    /\ LoadStep(w, "check", IF Stopped THEN "exited" ELSE "pop")
    /\ UNCHANGED <<loadQ, pendingLoads, future, loadReq, loadGot>>

(* The top of the priority queue: highest priority, earliest of those. *)
IsTop(i) ==
    \A j \in DOMAIN loadQ :
        \/ loadQ[j].priority < loadQ[i].priority
        \/ loadQ[j].priority = loadQ[i].priority /\ i <= j

LoadPop_Unregisters(w) ==
    /\ LoadStep(w, "pop", "load")
    /\ \E i \in DOMAIN loadQ :
        /\ IsTop(i)
        /\ loadReq' = [loadReq EXCEPT ![w] = loadQ[i].coord]
        /\ pendingLoads' = pendingLoads \ {loadQ[i].coord}
        /\ loadQ' = RemoveAt(loadQ, i)
    /\ UNCHANGED <<future, loadGot>>

(* pop() hands out what is left in the queue even after shutdown(). *)
LoadPop(w) ==
    /\ LoadStep(w, "pop", "load")
    /\ \E i \in DOMAIN loadQ :
        /\ IsTop(i)
        /\ loadReq' = [loadReq EXCEPT ![w] = loadQ[i].coord]
        /\ loadQ' = RemoveAt(loadQ, i)
    /\ UNCHANGED <<pendingLoads, future, loadGot>>

LoadPopNothing(w) ==
    /\ loadQ = <<>>
    /\ QueuesAreShut
    /\ LoadStep(w, "pop", "exited")
    /\ UNCHANGED <<loadQ, pendingLoads, future, loadReq, loadGot>>

(* What a load makes of a file.  No stream state is checked: of a file     *)
(* being rewritten, whatever was read is taken.  A file that is missing or *)
(* cannot be opened gives the map factory's empty map.                     *)
ReadOf(c, f) ==
    IF f.state = "torn" THEN Grids
    ELSE {f.grid} \cup (IF c \in Faulty THEN {EmptyGrid} ELSE {})

LoadRead_SetsException(w) ==
    /\ LoadStep(w, "load", "fulfil")
    /\ \E g \in ReadOf(loadReq[w], file[loadReq[w]]) : loadGot' = [loadGot EXCEPT ![w] = g]
    /\ future' = IF file[loadReq[w]].state = "torn"
                 THEN [future EXCEPT ![loadReq[w]] = BrokenFuture] ELSE future
    /\ UNCHANGED <<loadQ, pendingLoads, loadReq>>

LoadRead(w) ==
    /\ LoadStep(w, "load", "fulfil")
    /\ \E g \in IF EnableIO THEN ReadOf(loadReq[w], file[loadReq[w]]) ELSE {EmptyGrid} :
        loadGot' = [loadGot EXCEPT ![w] = g]
    /\ UNCHANGED <<loadQ, pendingLoads, future, loadReq>>

Fulfil(w) ==
    /\ LoadStep(w, "fulfil", "remove")
    /\ future' = [future EXCEPT ![loadReq[w]] = ReadyFuture(loadGot[w])]
    /\ UNCHANGED <<loadQ, pendingLoads, loadReq, loadGot>>

removePendingLoad(w) ==
    /\ LoadStep(w, "remove", "check")
    /\ pendingLoads' = pendingLoads \ {loadReq[w]}
    /\ loadReq' = [loadReq EXCEPT ![w] = NoCoord]     \* end of the loop body
    /\ loadGot' = [loadGot EXCEPT ![w] = EmptyGrid]
    /\ UNCHANGED <<loadQ, future>>

LoadWorker(w) ==
    \/ LoadCheck(w) \/ LoadPop(w) \/ LoadPopNothing(w)
    \/ LoadRead(w) \/ Fulfil(w) \/ removePendingLoad(w)

-----------------------------------------------------------------------------
(* A save worker: saveWorkerLoop.                                          *)

SaveStep(w, from, to) ==
    /\ savePc[w] = from
    /\ savePc' = [savePc EXCEPT ![w] = to]
    /\ UNCHANGED <<phase, loadVars, enq, lastSaved>>

SaveCheck(w) ==
    /\ SaveStep(w, "check", IF Stopped THEN "exited" ELSE "pop")
    /\ UNCHANGED <<saveQ, inflight, saveReq, file, waiter>>

SavePop_TakesNewest(w) ==
    /\ saveQ # <<>>
    /\ SaveStep(w, "pop", "open")
    /\ saveReq' = [saveReq EXCEPT ![w] = saveQ[Len(saveQ)]]
    /\ saveQ' = SubSeq(saveQ, 1, Len(saveQ) - 1)
    /\ UNCHANGED <<inflight, file, waiter>>

SavePop_Uncounts(w) ==
    /\ saveQ # <<>>
    /\ SaveStep(w, "pop", "open")
    /\ saveReq' = [saveReq EXCEPT ![w] = Head(saveQ)]
    /\ saveQ' = Tail(saveQ)
    /\ inflight' = inflight - 1
    /\ UNCHANGED <<file, waiter>>

SavePop(w) ==
    /\ saveQ # <<>>
    /\ SaveStep(w, "pop", "open")
    /\ saveReq' = [saveReq EXCEPT ![w] = Head(saveQ)]
    /\ saveQ' = Tail(saveQ)
    /\ UNCHANGED <<inflight, file, waiter>>

SavePopNothing(w) ==
    /\ saveQ = <<>>
    /\ QueuesAreShut
    /\ SaveStep(w, "pop", "exited")
    /\ UNCHANGED <<saveQ, inflight, saveReq, file, waiter>>

(* Opening the output stream truncates the chunk file. *)
SaveOpen(w) ==
    /\ EnableIO
    /\ SaveStep(w, "open", "write")
    /\ file' = [file EXCEPT ![saveReq[w].coord] = TornFile]
    /\ UNCHANGED <<saveQ, inflight, saveReq, waiter>>

(* Nothing is written with I/O disabled, or when the file cannot be opened. *)
SaveSkip(w) ==
    /\ EnableIO => saveReq[w].coord \in Faulty
    /\ SaveStep(w, "open", "settle")
    /\ UNCHANGED <<saveQ, inflight, saveReq, file, waiter>>

(* Another save worker has, or had, the same file open in the meantime. *)
SharedFile(w) ==
    \/ file[saveReq[w].coord].state # "torn"
    \/ \E v \in SaveWorkers \ {w} :
          savePc[v] = "write" /\ saveReq[v].coord = saveReq[w].coord

SaveWrite(w) ==
    /\ SaveStep(w, "write", "settle")
    /\ \E f \in {WholeFile(saveReq[w].grid)}
                \cup (IF saveReq[w].coord \in Faulty \/ SharedFile(w) THEN {TornFile} ELSE {}) :
        file' = [file EXCEPT ![saveReq[w].coord] = f]
    /\ UNCHANGED <<saveQ, inflight, saveReq, waiter>>

SaveSettle(w) ==
    /\ SaveStep(w, "settle", "notify")
    /\ inflight' = inflight - 1
    /\ saveReq' = [saveReq EXCEPT ![w] = NoSave]
    /\ UNCHANGED <<saveQ, file, waiter>>

SaveNotify(w) ==
    /\ SaveStep(w, "notify", "check")
    /\ waiter' = IF waiter = "blocked" THEN "test" ELSE waiter
    /\ UNCHANGED <<saveQ, inflight, saveReq, file>>

SaveWorker(w) ==
    \/ SaveCheck(w) \/ SavePop(w) \/ SavePopNothing(w) \/ SaveOpen(w)
    \/ SaveSkip(w) \/ SaveWrite(w) \/ SaveSettle(w) \/ SaveNotify(w)

-----------------------------------------------------------------------------
(* The destructor: raise stop_, shut both queues, join every worker, drop  *)
(* the members.  Promises never answered break; queued saves are dropped.  *)
(* A thread still inside another member function would be using a dead     *)
(* object, so the last step waits for those calls to have returned.        *)

Stop ==
    /\ phase = "running"
    /\ phase' = "stopped"
    /\ UNCHANGED <<loadVars, saveVars, waiter>>

(* The load queue first, then the save queue: no thread looks at both.     *)
ShutQueues ==
    /\ phase = "stopped"
    /\ phase' = "shut"
    /\ UNCHANGED <<loadVars, saveVars, waiter>>

JoinAndDestroy ==
    /\ phase = "shut"
    /\ \A w \in LoadWorkers : loadPc[w] = "exited"
    /\ \A w \in SaveWorkers : savePc[w] = "exited"
    /\ enq = <<>> /\ waiter = "out"
    /\ phase' = "destroyed"
    /\ loadQ' = <<>> /\ pendingLoads' = {} /\ saveQ' = <<>>
    /\ future' = [c \in Coords |->
                    IF future[c].state = "waiting" THEN BrokenFuture ELSE future[c]]
    /\ UNCHANGED <<loadPc, loadReq, loadGot, enq, inflight, savePc, saveReq, file,
                   lastSaved, waiter>>

Destructor == ShutQueues \/ JoinAndDestroy

-----------------------------------------------------------------------------

Workers ==
    \/ \E w \in LoadWorkers : LoadWorker(w)
    \/ \E w \in SaveWorkers : SaveWorker(w)

Callers ==
    \/ \E c \in Coords, p \in Priorities : loadAsync(c, p)
    \/ \E c \in Coords : TakeFuture(c)
    \/ \E c \in Coords, g \in Grids : saveAsync(c, g)
    \/ SavePush
    \/ waitForPendingSaves

(* What is left of the object once it is destroyed. *)
Gone == phase = "destroyed" /\ UNCHANGED vars

Next == Callers \/ Workers \/ Stop \/ Destructor \/ Gone

Spec == Init /\ [][Next]_vars

-----------------------------------------------------------------------------
(* Properties.                                                             *)

(* Every variable keeps its type; inflight_saves_ (a size_t) never         *)
(* underflows.                                                             *)
TypeOK ==
    /\ phase \in {"running", "stopped", "shut", "destroyed"}
    /\ loadQ \in Seq(LoadRequest)
    /\ pendingLoads \subseteq Coords
    /\ future \in [Coords -> Future]
    /\ loadPc \in [LoadWorkers -> {"check", "pop", "load", "fulfil", "remove", "exited"}]
    /\ loadReq \in [LoadWorkers -> Coords]
    /\ loadGot \in [LoadWorkers -> Grids]
    /\ enq \in Seq(SaveRequest) /\ Len(enq) <= 1
    /\ saveQ \in Seq(SaveRequest)
    /\ inflight \in Nat
    /\ savePc \in [SaveWorkers ->
                      {"check", "pop", "open", "write", "settle", "notify", "exited"}]
    /\ saveReq \in [SaveWorkers -> SaveRequest]
    /\ waiter \in {"out", "test", "parking", "blocked"}
    /\ file \in [Coords -> File]
    /\ lastSaved \in [Coords -> File]

(* pending_loads_ holds exactly the coordinates that are queued or with a  *)
(* load worker, and each of them once: two workers never load the same     *)
(* coordinate (the "layer 2" duplicate prevention of the header).          *)
OneLoadPerCoord ==
    /\ pendingLoads = {loadQ[i].coord : i \in DOMAIN loadQ} \cup {loadReq[w] : w \in LoadBusy}
    /\ \A i, j \in DOMAIN loadQ : loadQ[i].coord = loadQ[j].coord => i = j
    /\ \A v, w \in LoadBusy : loadReq[v] = loadReq[w] => v = w
    /\ \A i \in DOMAIN loadQ, w \in LoadBusy : loadQ[i].coord # loadReq[w]

(* A promise is set exactly once: a worker about to set one finds it not   *)
(* set yet (a second set_value throws and, outside any try, ends the       *)
(* process), and whoever waits on a future has a request that is still     *)
(* queued or with a worker.                                                *)
PromiseSetOnce ==
    /\ \A w \in LoadWorkers :
          loadPc[w] \in {"load", "fulfil"} => future[loadReq[w]].state = "waiting"
    /\ \A c \in Coords : future[c].state = "waiting" =>
          \/ \E i \in DOMAIN loadQ : loadQ[i].coord = c
          \/ \E w \in LoadWorkers : loadPc[w] \in {"load", "fulfil"} /\ loadReq[w] = c

(* pendingSaveCount() counts every accepted save once, from before it is   *)
(* pushed until its file is finished: what isStatsStable() and             *)
(* waitForPendingSaves() rely on.                                          *)
InflightExact ==
    phase # "destroyed" => inflight = Len(enq) + Len(saveQ) + Cardinality(SaveBusy)

(* When waitForPendingSaves() returns true, no accepted save is            *)
(* unfinished: none counted, queued or with a worker.                      *)
SavesSettled == enq = <<>> /\ saveQ = <<>> /\ SaveBusy = {}
WaitReturnsTrue == waiter # "out" /\ waiter' = "out" /\ SavesDone

WaitSound == [][WaitReturnsTrue => SavesSettled]_vars

(* With one save worker (the default), the file of a chunk whose own files *)
(* do not fail holds the grid saved last as soon as no save is under way,  *)
(* whatever goes wrong with the others.                                    *)
LastSaveWins ==
    (/\ EnableIO /\ Cardinality(SaveWorkers) = 1 /\ phase # "destroyed"
     /\ SavesSettled)
    => \A c \in Coords \ Faulty : file[c] = lastSaved[c]

(* The manager implements the abstract load service.                       *)
Unanswered == {w \in LoadWorkers : loadPc[w] \in {"load", "fulfil"}}
Answered == {w \in LoadWorkers : loadPc[w] = "remove"}

Service == INSTANCE LoadService WITH
    open <- {loadQ[i].coord : i \in DOMAIN loadQ} \cup {loadReq[w] : w \in Unanswered},
    answered <- {loadReq[w] : w \in Answered},
    alive <- phase # "destroyed"

ServiceSpec == Service!Spec

=============================================================================
