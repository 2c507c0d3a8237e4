------------------------- MODULE MCAsyncChunkManager -------------------------
(***************************************************************************)
(* A small manager: two chunks, one of them with files that fail, two load *)
(* workers, one save worker, and callers that start at most MaxCalls loads,*)
(* saves and waits.                                                        *)
(***************************************************************************)
EXTENDS AsyncChunkManager

CONSTANTS c1, c2, empty, g1, lw1, lw2, sw1, MaxCalls

MCCoords == {c1, c2}
MCFaulty == {c2}
MCGrids == {empty, g1}
MCPriorities == {1, 2}
MCLoadWorkers == {lw1, lw2}
MCSaveWorkers == {sw1}

VARIABLE calls    (* loads, saves and waits started so far *)

(* A step that starts a load, a save or a wait. *)
Start(A) == A /\ calls < MaxCalls /\ calls' = calls + 1
Same == UNCHANGED calls

MCNext ==
    \/ \E c \in Coords, p \in Priorities :
          loadAsync(c, p) /\ IF loadQ' # loadQ THEN Start(TRUE) ELSE Same
    \/ \E c \in Coords : TakeFuture(c) /\ Same
    \/ \E c \in Coords, g \in Grids : Start(saveAsync(c, g))
    \/ SavePush /\ Same
    \/ waiter = "out" /\ Start(waitForPendingSaves)
    \/ waiter # "out" /\ waitForPendingSaves /\ Same
    \/ \E w \in LoadWorkers : LoadCheck(w) /\ Same
    \/ \E w \in LoadWorkers : LoadPop(w) /\ Same
    \/ \E w \in LoadWorkers : LoadPopNothing(w) /\ Same
    \/ \E w \in LoadWorkers : LoadRead(w) /\ Same
    \/ \E w \in LoadWorkers : Fulfil(w) /\ Same
    \/ \E w \in LoadWorkers : removePendingLoad(w) /\ Same
    \/ \E w \in SaveWorkers : SaveCheck(w) /\ Same
    \/ \E w \in SaveWorkers : SavePop(w) /\ Same
    \/ \E w \in SaveWorkers : SavePopNothing(w) /\ Same
    \/ \E w \in SaveWorkers : SaveOpen(w) /\ Same
    \/ \E w \in SaveWorkers : SaveSkip(w) /\ Same
    \/ \E w \in SaveWorkers : SaveWrite(w) /\ Same
    \/ \E w \in SaveWorkers : SaveSettle(w) /\ Same
    \/ \E w \in SaveWorkers : SaveNotify(w) /\ Same
    \/ Stop /\ Same
    \/ ShutQueues /\ Same
    \/ JoinAndDestroy /\ Same
    \/ Gone /\ Same

MCInit == Init /\ calls = 0
MCSpec == MCInit /\ [][MCNext]_<<vars, calls>>
=============================================================================
