----------------------- MODULE AsyncChunkManagerProofs -----------------------
(***************************************************************************)
(* Theorems about AsyncChunkManager, for any number of coordinates, grids, *)
(* priorities and worker threads.                                          *)
(***************************************************************************)
EXTENDS AsyncChunkManager, SequenceTheorems, FiniteSetTheorems, TLAPS

-----------------------------------------------------------------------------
(* The load queue as a set of coordinates. *)

CoordsOf(q) == {q[i].coord : i \in DOMAIN q}
Distinct(q) == \A i, j \in DOMAIN q : q[i].coord = q[j].coord => i = j

(* RemoveAt closes the gap it makes. *)
LEMMA RemoveAtProperties ==
    ASSUME NEW S, NEW q \in Seq(S), NEW k \in DOMAIN q
    PROVE  /\ RemoveAt(q, k) \in Seq(S)
           /\ Len(RemoveAt(q, k)) = Len(q) - 1
           /\ \A j \in 1 .. Len(q) - 1 :
                 RemoveAt(q, k)[j] = IF j < k THEN q[j] ELSE q[j + 1]
<1> DEFINE a == SubSeq(q, 1, k - 1)
           b == SubSeq(q, k + 1, Len(q))
<1>1. /\ DOMAIN q = 1 .. Len(q) /\ Len(q) \in Nat /\ k \in 1 .. Len(q)
      /\ \A i \in 1 .. Len(q) : q[i] \in S
  BY LenProperties, ElementOfSeq
<1>2. /\ a \in Seq(S)
      /\ Len(a) = k - 1
      /\ \A i \in 1 .. k - 1 : a[i] = q[i]
  BY <1>1, SubSeqProperties
<1>3. /\ b \in Seq(S)
      /\ Len(b) = Len(q) - k
      /\ \A i \in 1 .. Len(q) - k : b[i] = q[k + i]
  BY <1>1, SubSeqProperties
<1>4. /\ a \o b \in Seq(S)
      /\ Len(a \o b) = Len(q) - 1
      /\ \A i \in 1 .. Len(q) - 1 : (a \o b)[i] = IF i <= k - 1 THEN a[i] ELSE b[i - (k - 1)]
  <2> HIDE DEF a, b
  <2>1. /\ a \o b \in Seq(S)
        /\ Len(a \o b) = Len(a) + Len(b)
        /\ \A i \in 1 .. Len(a) + Len(b) :
              (a \o b)[i] = IF i <= Len(a) THEN a[i] ELSE b[i - Len(a)]
    BY <1>2, <1>3, ConcatProperties
  <2> QED BY <1>1, <1>2, <1>3, <2>1
<1>5. RemoveAt(q, k) = a \o b
  BY DEF RemoveAt
<1>6. \A j \in 1 .. Len(q) - 1 : (a \o b)[j] = IF j < k THEN q[j] ELSE q[j + 1]
  <2> HIDE DEF a, b
  <2> TAKE j \in 1 .. Len(q) - 1
  <2>1. CASE j < k
    BY <2>1, <1>1, <1>2, <1>4
  <2>2. CASE ~(j < k)
    <3>1. j - (k - 1) \in 1 .. Len(q) - k /\ k + (j - (k - 1)) = j + 1
      BY <2>2, <1>1
    <3> QED BY <2>2, <3>1, <1>1, <1>3, <1>4
  <2> QED BY <2>1, <2>2
<1> QED BY <1>4, <1>5, <1>6

(* Queueing a request for a coordinate that is not queued.                 *)
LEMMA QueueAppend ==
    ASSUME NEW q \in Seq(LoadRequest), NEW r \in LoadRequest
    PROVE  /\ CoordsOf(Append(q, r)) = CoordsOf(q) \cup {r.coord}
           /\ Distinct(q) /\ r.coord \notin CoordsOf(q) => Distinct(Append(q, r))
<1>1. /\ DOMAIN q = 1 .. Len(q) /\ Len(q) \in Nat
      /\ DOMAIN Append(q, r) = 1 .. Len(q) + 1
      /\ \A i \in 1 .. Len(q) : Append(q, r)[i] = q[i]
      /\ Append(q, r)[Len(q) + 1] = r
  BY AppendProperties, LenProperties
<1> DEFINE t == Append(q, r)
<1>2. CoordsOf(t) = CoordsOf(q) \cup {r.coord}
  <2> HIDE DEF t
  <2>0. /\ DOMAIN t = 1 .. Len(q) + 1 /\ t[Len(q) + 1] = r
        /\ \A i \in 1 .. Len(q) : t[i] = q[i]
    BY <1>1 DEF t
  <2>1. ASSUME NEW i \in DOMAIN t PROVE t[i].coord \in CoordsOf(q) \cup {r.coord}
    <3>1. i \in 1 .. Len(q) \/ i = Len(q) + 1
      BY <1>1, <2>0
    <3> QED BY <3>1, <1>1, <2>0 DEF CoordsOf
  <2>2. ASSUME NEW i \in DOMAIN q PROVE q[i].coord \in CoordsOf(t)
    BY <1>1, <2>0 DEF CoordsOf
  <2>3. r.coord \in CoordsOf(t)
    BY <1>1, <2>0 DEF CoordsOf
  <2> QED BY <2>1, <2>2, <2>3 DEF CoordsOf
<1>3. ASSUME Distinct(q), r.coord \notin CoordsOf(q) PROVE Distinct(t)
  <2> SUFFICES ASSUME NEW i \in 1 .. Len(q) + 1, NEW j \in 1 .. Len(q) + 1,
                      t[i].coord = t[j].coord
               PROVE  i = j
    BY <1>1 DEF Distinct
  <2>1. \A k \in 1 .. Len(q) : q[k].coord # r.coord
    BY <1>1, <1>3 DEF CoordsOf
  <2>2. CASE i \in 1 .. Len(q) /\ j \in 1 .. Len(q)
    BY <2>2, <1>1, <1>3 DEF Distinct
  <2>3. CASE i = Len(q) + 1 \/ j = Len(q) + 1
    BY <2>1, <2>3, <1>1
  <2> QED BY <2>2, <2>3, <1>1
<1> QED BY <1>2, <1>3

(* Taking a request out of a queue without duplicates takes its coordinate *)
(* out, and only that one.                                                 *)
LEMMA QueueRemove ==
    ASSUME NEW q \in Seq(LoadRequest), NEW k \in DOMAIN q, Distinct(q)
    PROVE  /\ RemoveAt(q, k) \in Seq(LoadRequest)
           /\ Distinct(RemoveAt(q, k))
           /\ CoordsOf(RemoveAt(q, k)) = CoordsOf(q) \ {q[k].coord}
<1> DEFINE t == RemoveAt(q, k)
           at(j) == IF j < k THEN j ELSE j + 1
<1>1. /\ t \in Seq(LoadRequest)
      /\ Len(t) = Len(q) - 1
      /\ \A j \in 1 .. Len(q) - 1 : t[j] = IF j < k THEN q[j] ELSE q[j + 1]
  BY RemoveAtProperties
<1> HIDE DEF t
<1>2. /\ DOMAIN q = 1 .. Len(q) /\ Len(q) \in Nat /\ k \in 1 .. Len(q)
      /\ DOMAIN t = 1 .. Len(q) - 1
  BY <1>1, LenProperties
<1>3. ASSUME NEW j \in DOMAIN t
      PROVE  at(j) \in DOMAIN q /\ at(j) # k /\ t[j] = q[at(j)]
  BY <1>1, <1>2
<1>4. ASSUME NEW i \in DOMAIN q, i # k
      PROVE  \E j \in DOMAIN t : at(j) = i
  <2>1. CASE i < k
    <3>1. i \in DOMAIN t /\ at(i) = i
      BY <2>1, <1>2
    <3> QED BY <3>1
  <2>2. CASE ~(i < k)
    <3>1. i - 1 \in DOMAIN t /\ at(i - 1) = i
      BY <2>2, <1>2, <1>4
    <3> QED BY <3>1
  <2> QED BY <2>1, <2>2
<1>5. Distinct(t)
  <2> SUFFICES ASSUME NEW i \in DOMAIN t, NEW j \in DOMAIN t, t[i].coord = t[j].coord
               PROVE  i = j
    BY DEF Distinct
  <2>1. at(i) = at(j)
    <3> HIDE DEF at
    <3> QED BY <1>3 DEF Distinct
  <2> QED BY <2>1, <1>2
<1>6. CoordsOf(t) = CoordsOf(q) \ {q[k].coord}
  <2> HIDE DEF at
  <2>1. ASSUME NEW j \in DOMAIN t
        PROVE  t[j].coord \in CoordsOf(q) /\ t[j].coord # q[k].coord
    BY <1>2, <1>3 DEF CoordsOf, Distinct
  <2>2. ASSUME NEW i \in DOMAIN q, q[i].coord # q[k].coord
        PROVE  q[i].coord \in CoordsOf(t)
    BY <1>3, <1>4, <2>2 DEF CoordsOf
  <2> QED BY <2>1, <2>2 DEF CoordsOf
<1> QED BY <1>1, <1>5, <1>6 DEF t

-----------------------------------------------------------------------------
(* Types.  That inflight_saves_ never underflows is not a matter of types: *)
(* TypeBase leaves it an integer, and InflightExact below bounds it.       *)

LoadTypes ==
    /\ phase \in {"running", "stopped", "shut", "destroyed"}
    /\ loadQ \in Seq(LoadRequest)
    /\ pendingLoads \subseteq Coords
    /\ future \in [Coords -> Future]
    /\ loadPc \in [LoadWorkers -> {"check", "pop", "load", "fulfil", "remove", "exited"}]
    /\ loadReq \in [LoadWorkers -> Coords]
    /\ loadGot \in [LoadWorkers -> Grids]

SaveTypes ==
    /\ enq \in Seq(SaveRequest) /\ Len(enq) <= 1
    /\ saveQ \in Seq(SaveRequest)
    /\ inflight \in Int
    /\ savePc \in [SaveWorkers ->
                      {"check", "pop", "open", "write", "settle", "notify", "exited"}]
    /\ saveReq \in [SaveWorkers -> SaveRequest]
    /\ waiter \in {"out", "test", "parking", "blocked"}
    /\ file \in [Coords -> File]
    /\ lastSaved \in [Coords -> File]

TypeBase == LoadTypes /\ SaveTypes

LEMMA ConstantTypes ==
    /\ NoCoord \in Coords
    /\ NoSave \in SaveRequest
    /\ {NoFuture, WaitingFuture, BrokenFuture} \subseteq Future
    /\ \A g \in Grids : ReadyFuture(g) \in Future /\ WholeFile(g) \in File
    /\ {NoFile, TornFile} \subseteq File
    /\ \A c \in Coords, f \in File : ReadOf(c, f) \subseteq Grids
<1>1. NoCoord \in Coords /\ EmptyGrid \in Grids
  BY ManagerAssumption DEF ConstantsOK, NoCoord, AnyOf
<1> QED BY <1>1 DEF NoSave, SaveRequest, Future, File, NoFuture, WaitingFuture, BrokenFuture,
               ReadyFuture, WholeFile, NoFile, TornFile, ReadOf

LEMMA InitTypeBase == Init => TypeBase
BY ConstantTypes, ManagerAssumption, EmptySeq DEF ConstantsOK, Init, TypeBase, LoadTypes, SaveTypes

(* Calls. *)
LEMMA CallersTypeBase == TypeBase /\ Callers => TypeBase'
<1> SUFFICES ASSUME TypeBase, Callers PROVE TypeBase'
  OBVIOUS
<1> USE DEF TypeBase, LoadTypes, SaveTypes, loadVars, saveVars
<1>1. ASSUME NEW c \in Coords, NEW p \in Priorities, loadAsync(c, p) PROVE TypeBase'
  <2>1. [coord |-> c, priority |-> p] \in LoadRequest
    BY DEF LoadRequest
  <2>2. Append(loadQ, [coord |-> c, priority |-> p]) \in Seq(LoadRequest)
    BY <2>1, AppendProperties
  <2> QED BY <1>1, <2>2, ConstantTypes DEF loadAsync
<1>2. ASSUME NEW c \in Coords, TakeFuture(c) PROVE TypeBase'
  BY <1>2, ConstantTypes DEF TakeFuture
<1>3. ASSUME NEW c \in Coords, NEW g \in Grids, saveAsync(c, g) PROVE TypeBase'
  <2>1. <<[coord |-> c, grid |-> g]>> \in Seq(SaveRequest)
    BY DEF SaveRequest
  <2> QED BY <1>3, <2>1 DEF saveAsync
<1>4. ASSUME SavePush PROVE TypeBase'
  <2>1. enq[1] \in SaveRequest
    BY <1>4, EmptySeq, LenProperties DEF SavePush
  <2>2. WholeFile(enq[1].grid) \in File
    BY <2>1, ConstantTypes DEF SaveRequest
  <2>3. saveQ \o enq \in Seq(SaveRequest)
    BY ConcatProperties
  <2>4. <<>> \in Seq(SaveRequest) /\ Len(<<>>) = 0
    BY EmptySeq
  <2>5. enq' \in Seq(SaveRequest) /\ Len(enq') <= 1
    BY <1>4, <2>4 DEF SavePush
  <2>6. /\ saveQ' \in Seq(SaveRequest) /\ inflight' \in Int
        /\ lastSaved' \in [Coords -> File]
    <3>1. CASE QueuesAreShut
      BY <1>4, <3>1 DEF SavePush
    <3>2. CASE ~QueuesAreShut
      BY <1>4, <2>2, <2>3, <3>2 DEF SavePush
    <3> QED BY <3>1, <3>2
  <2>7. UNCHANGED <<phase, loadVars, savePc, saveReq, file, waiter>>
    BY <1>4 DEF SavePush
  <2> QED BY <2>5, <2>6, <2>7
<1>5. ASSUME waitForPendingSaves PROVE TypeBase'
  BY <1>5 DEF waitForPendingSaves, WaitStep
<1> QED BY <1>1, <1>2, <1>3, <1>4, <1>5 DEF Callers

(* The workers. *)
LEMMA LoadWorkerTypeBase ==
    ASSUME TypeBase, NEW w \in LoadWorkers, LoadWorker(w)
    PROVE  TypeBase'
<1> USE DEF TypeBase, LoadTypes, SaveTypes, saveVars, LoadStep
<1>1. CASE LoadCheck(w)
  BY <1>1 DEF LoadCheck
<1>2. CASE LoadPop(w)
  <2>1. PICK i \in DOMAIN loadQ : /\ loadReq' = [loadReq EXCEPT ![w] = loadQ[i].coord]
                                  /\ loadQ' = RemoveAt(loadQ, i)
    BY <1>2 DEF LoadPop
  <2>2. loadQ[i] \in LoadRequest /\ loadQ' \in Seq(LoadRequest)
    BY <2>1, LenProperties, ElementOfSeq, RemoveAtProperties
  <2> QED BY <1>2, <2>1, <2>2 DEF LoadPop, LoadRequest
<1>3. CASE LoadPopNothing(w)
  BY <1>3 DEF LoadPopNothing
<1>4. CASE LoadRead(w)
  <2>1. loadGot' \in [LoadWorkers -> Grids]
    BY <1>4, ConstantTypes, ManagerAssumption DEF ConstantsOK, LoadRead
  <2> QED BY <1>4, <2>1 DEF LoadRead
<1>5. CASE Fulfil(w)
  BY <1>5, ConstantTypes DEF Fulfil
<1>6. CASE removePendingLoad(w)
  BY <1>6, ConstantTypes, ManagerAssumption DEF ConstantsOK, removePendingLoad
<1> QED BY <1>1, <1>2, <1>3, <1>4, <1>5, <1>6 DEF LoadWorker

LEMMA SaveWorkerTypeBase ==
    ASSUME TypeBase, NEW w \in SaveWorkers, SaveWorker(w)
    PROVE  TypeBase'
<1> USE DEF TypeBase, LoadTypes, SaveTypes, loadVars, SaveStep
<1>0. saveReq[w] \in SaveRequest /\ saveReq[w].coord \in Coords /\ saveReq[w].grid \in Grids
  BY DEF SaveRequest
<1>1. CASE SaveCheck(w)
  BY <1>1 DEF SaveCheck
<1>2. CASE SavePop(w)
  BY <1>2, HeadTailProperties DEF SavePop
<1>3. CASE SavePopNothing(w)
  BY <1>3 DEF SavePopNothing
<1>4. CASE SaveOpen(w)
  BY <1>4, <1>0, ConstantTypes DEF SaveOpen
<1>5. CASE SaveSkip(w)
  BY <1>5 DEF SaveSkip
<1>6. CASE SaveWrite(w)
  <2>1. PICK f \in {WholeFile(saveReq[w].grid), TornFile} :
            file' = [file EXCEPT ![saveReq[w].coord] = f]
    BY <1>6 DEF SaveWrite
  <2>2. f \in File
    BY <1>0, ConstantTypes
  <2> QED BY <1>6, <2>1, <2>2 DEF SaveWrite
<1>7. CASE SaveSettle(w)
  BY <1>7, ConstantTypes DEF SaveSettle
<1>8. CASE SaveNotify(w)
  BY <1>8 DEF SaveNotify
<1> QED BY <1>1, <1>2, <1>3, <1>4, <1>5, <1>6, <1>7, <1>8 DEF SaveWorker

LEMMA NextTypeBase == TypeBase /\ [Next]_vars => TypeBase'
<1> SUFFICES ASSUME TypeBase, [Next]_vars PROVE TypeBase'
  OBVIOUS
<1>1. CASE Callers
  BY <1>1, CallersTypeBase
<1>2. CASE Workers
  BY <1>2, LoadWorkerTypeBase, SaveWorkerTypeBase DEF Workers
<1> USE DEF TypeBase, LoadTypes, SaveTypes, loadVars, saveVars
<1>3. CASE Stop
  BY <1>3 DEF Stop
<1>4. CASE ShutQueues
  BY <1>4 DEF ShutQueues
<1>5. CASE JoinAndDestroy
  <2>1. future' \in [Coords -> Future]
    BY <1>5, ConstantTypes DEF JoinAndDestroy
  <2> QED BY <1>5, <2>1, EmptySeq DEF JoinAndDestroy
<1>6. CASE UNCHANGED vars
  BY <1>6 DEF vars
<1> QED BY <1>1, <1>2, <1>3, <1>4, <1>5, <1>6 DEF Next, Destructor, Gone

(* Every reachable state is well typed, up to the sign of the save count.  *)
THEOREM TypesHold == Spec => []TypeBase
BY InitTypeBase, NextTypeBase, PTL DEF Spec

-----------------------------------------------------------------------------
(* Loads.  OneLoadPerCoord is inductive.  PromiseSetOnce becomes inductive *)
(* once it says of queued requests, too, that they have a future waiting:  *)
(* the futures that wait are exactly those of the requests not answered.   *)

BusyCoords == {loadReq[w] : w \in LoadBusy}
OpenCoords == CoordsOf(loadQ) \cup {loadReq[w] : w \in Unanswered}

LoadInv ==
    /\ pendingLoads = CoordsOf(loadQ) \cup BusyCoords
    /\ Distinct(loadQ)
    /\ \A v, w \in LoadBusy : loadReq[v] = loadReq[w] => v = w
    /\ CoordsOf(loadQ) \cap BusyCoords = {}
    /\ {c \in Coords : future[c].state = "waiting"} = OpenCoords

LEMMA LoadInvMeans ==
    ASSUME TypeBase, LoadInv
    PROVE  OneLoadPerCoord /\ PromiseSetOnce
<1>1. OneLoadPerCoord
  BY DEF LoadInv, OneLoadPerCoord, CoordsOf, BusyCoords, Distinct
<1>2. ASSUME NEW w \in LoadWorkers, loadPc[w] \in {"load", "fulfil"}
      PROVE  future[loadReq[w]].state = "waiting"
  BY <1>2 DEF LoadInv, OpenCoords, Unanswered
<1>3. ASSUME NEW c \in Coords, future[c].state = "waiting"
      PROVE  \/ \E i \in DOMAIN loadQ : loadQ[i].coord = c
             \/ \E w \in LoadWorkers : loadPc[w] \in {"load", "fulfil"} /\ loadReq[w] = c
  BY <1>3 DEF LoadInv, OpenCoords, Unanswered, CoordsOf
<1> QED BY <1>1, <1>2, <1>3 DEF PromiseSetOnce

LEMMA InitLoadInv == Init => LoadInv
<1> SUFFICES ASSUME Init PROVE LoadInv
  OBVIOUS
<1>1. CoordsOf(loadQ) = {} /\ Distinct(loadQ)
  BY EmptySeq DEF Init, CoordsOf, Distinct
<1>2. LoadBusy = {} /\ Unanswered = {}
  BY DEF Init, LoadBusy, Unanswered
<1>3. {c \in Coords : future[c].state = "waiting"} = {}
  BY DEF Init, NoFuture
<1> QED BY <1>1, <1>2, <1>3 DEF Init, LoadInv, BusyCoords, OpenCoords

LEMMA LoadInvFrame ==
    ASSUME LoadInv, UNCHANGED <<loadQ, pendingLoads, future, loadPc, loadReq>>
    PROVE  LoadInv'
BY DEF LoadInv, CoordsOf, BusyCoords, OpenCoords, Distinct, LoadBusy, Unanswered

(* An accepted load is a new coordinate.                                   *)
LEMMA LoadAsyncLoadInv ==
    ASSUME TypeBase, LoadInv, NEW c \in Coords, NEW p \in Priorities, loadAsync(c, p)
    PROVE  LoadInv'
<1>1. CASE LoadRefused(c)
  BY <1>1, LoadInvFrame DEF loadAsync
<1>2. CASE ~LoadRefused(c)
  <2> DEFINE r == [coord |-> c, priority |-> p]
  <2>1. /\ c \notin pendingLoads
        /\ pendingLoads' = pendingLoads \cup {c}
        /\ loadQ' = Append(loadQ, r)
        /\ future' = [future EXCEPT ![c] = WaitingFuture]
        /\ UNCHANGED <<loadPc, loadReq>>
    BY <1>2 DEF loadAsync, LoadRefused, isLoading
  <2>2. r \in LoadRequest /\ r.coord = c /\ loadQ \in Seq(LoadRequest)
    BY DEF LoadRequest, TypeBase, LoadTypes
  <2> HIDE DEF r
  <2>3. c \notin CoordsOf(loadQ) /\ c \notin BusyCoords
    BY <2>1 DEF LoadInv
  <2>4. CoordsOf(loadQ') = CoordsOf(loadQ) \cup {c} /\ Distinct(loadQ')
    BY <2>1, <2>2, <2>3, QueueAppend DEF LoadInv
  <2>5. LoadBusy' = LoadBusy /\ Unanswered' = Unanswered
    BY <2>1 DEF LoadBusy, Unanswered
  <2>6. BusyCoords' = BusyCoords /\ OpenCoords' = OpenCoords \cup {c}
    BY <2>1, <2>4, <2>5 DEF BusyCoords, OpenCoords, CoordsOf
  <2>7. {d \in Coords : future'[d].state = "waiting"}
            = {d \in Coords : future[d].state = "waiting"} \cup {c}
    BY <2>1 DEF TypeBase, LoadTypes, WaitingFuture
  <2>8. (CoordsOf(loadQ))' = CoordsOf(loadQ) \cup {c} /\ (Distinct(loadQ))'
    BY <2>4 DEF CoordsOf, Distinct
  <2> QED BY <2>1, <2>3, <2>5, <2>6, <2>7, <2>8 DEF LoadInv
<1> QED BY <1>1, <1>2

LEMMA LoadPopLoadInv ==
    ASSUME TypeBase, LoadInv, NEW w \in LoadWorkers, LoadPop(w)
    PROVE  LoadInv'
<1>1. PICK i \in DOMAIN loadQ : /\ loadReq' = [loadReq EXCEPT ![w] = loadQ[i].coord]
                                /\ loadQ' = RemoveAt(loadQ, i)
  BY DEF LoadPop
<1>2. /\ loadPc[w] = "pop" /\ loadPc' = [loadPc EXCEPT ![w] = "load"]
      /\ UNCHANGED <<pendingLoads, future>>
  BY DEF LoadPop, LoadStep
<1> DEFINE c == loadQ[i].coord
<1>3. c \in CoordsOf(loadQ)
  BY DEF CoordsOf
<1>4. (CoordsOf(loadQ))' = CoordsOf(loadQ) \ {c} /\ (Distinct(loadQ))'
  <2>1. CoordsOf(loadQ') = CoordsOf(loadQ) \ {c} /\ Distinct(loadQ')
    BY <1>1, QueueRemove DEF LoadInv, TypeBase, LoadTypes
  <2> QED BY <2>1 DEF CoordsOf, Distinct
<1> HIDE DEF c
<1>5. loadReq' = [loadReq EXCEPT ![w] = c]
  BY <1>1 DEF c
<1>6. /\ w \notin LoadBusy /\ LoadBusy' = LoadBusy \cup {w}
      /\ w \notin Unanswered /\ Unanswered' = Unanswered \cup {w}
  BY <1>2 DEF LoadBusy, Unanswered, TypeBase, LoadTypes
<1>7. loadReq'[w] = c /\ \A v \in LoadWorkers \ {w} : loadReq'[v] = loadReq[v]
  BY <1>5 DEF TypeBase, LoadTypes
<1>8. LoadBusy \subseteq LoadWorkers /\ Unanswered \subseteq LoadWorkers
  BY DEF LoadBusy, Unanswered
<1>9. BusyCoords' = BusyCoords \cup {c}
  BY <1>6, <1>7, <1>8 DEF BusyCoords
<1>10. OpenCoords' = OpenCoords
  BY <1>3, <1>4, <1>6, <1>7, <1>8 DEF OpenCoords
<1>11. \A u, v \in LoadBusy' : loadReq'[u] = loadReq'[v] => u = v
  <2>1. \A v \in LoadBusy : loadReq[v] # c
    BY <1>3 DEF LoadInv, BusyCoords
  <2> QED BY <2>1, <1>6, <1>7, <1>8 DEF LoadInv
<1> QED BY <1>2, <1>3, <1>4, <1>9, <1>10, <1>11 DEF LoadInv

(* Reading changes neither who is busy nor who is still to answer.         *)
LEMMA LoadReadLoadInv ==
    ASSUME TypeBase, LoadInv, NEW w \in LoadWorkers, LoadRead(w)
    PROVE  LoadInv'
<1>1. /\ loadPc[w] = "load" /\ loadPc' = [loadPc EXCEPT ![w] = "fulfil"]
      /\ UNCHANGED <<loadQ, pendingLoads, future, loadReq>>
  BY DEF LoadRead, LoadStep
<1>2. LoadBusy' = LoadBusy /\ Unanswered' = Unanswered
  BY <1>1 DEF LoadBusy, Unanswered, TypeBase, LoadTypes
<1> QED BY <1>1, <1>2 DEF LoadInv, CoordsOf, BusyCoords, OpenCoords, Distinct

LEMMA FulfilLoadInv ==
    ASSUME TypeBase, LoadInv, NEW w \in LoadWorkers, Fulfil(w)
    PROVE  /\ LoadInv'
           /\ loadReq[w] \in OpenCoords
           /\ OpenCoords' = OpenCoords \ {loadReq[w]}
<1> DEFINE c == loadReq[w]
<1>1. /\ loadPc[w] = "fulfil" /\ loadPc' = [loadPc EXCEPT ![w] = "remove"]
      /\ future' = [future EXCEPT ![c] = ReadyFuture(loadGot[w])]
      /\ UNCHANGED <<loadQ, pendingLoads, loadReq>>
  BY DEF Fulfil, LoadStep
<1>2. /\ w \in LoadBusy /\ LoadBusy' = LoadBusy
      /\ w \in Unanswered /\ Unanswered' = Unanswered \ {w}
      /\ Unanswered \subseteq LoadBusy
  BY <1>1 DEF LoadBusy, Unanswered, TypeBase, LoadTypes
<1>3. c \in Coords /\ c \in BusyCoords /\ c \notin CoordsOf(loadQ)
  BY <1>2 DEF LoadInv, BusyCoords, TypeBase, LoadTypes
<1>4. \A v \in Unanswered : loadReq[v] = c => v = w
  BY <1>2 DEF LoadInv
<1>5. c \in OpenCoords /\ OpenCoords' = OpenCoords \ {c}
  <2>1. c \in OpenCoords
    BY <1>2 DEF OpenCoords
  <2>2. OpenCoords' = CoordsOf(loadQ) \cup {loadReq[v] : v \in Unanswered \ {w}}
    BY <1>1, <1>2 DEF OpenCoords, CoordsOf
  <2>3. {loadReq[v] : v \in Unanswered \ {w}} = {loadReq[v] : v \in Unanswered} \ {c}
    BY <1>4
  <2> QED BY <2>1, <2>2, <2>3, <1>3 DEF OpenCoords
<1>6. {d \in Coords : future'[d].state = "waiting"}
          = {d \in Coords : future[d].state = "waiting"} \ {c}
  BY <1>1, <1>3 DEF ReadyFuture, TypeBase, LoadTypes
<1>7. /\ (CoordsOf(loadQ))' = CoordsOf(loadQ) /\ BusyCoords' = BusyCoords
      /\ (Distinct(loadQ))' = Distinct(loadQ)
  BY <1>1, <1>2 DEF CoordsOf, BusyCoords, Distinct
<1>8. LoadInv'
  BY <1>1, <1>2, <1>5, <1>6, <1>7 DEF LoadInv
<1> QED BY <1>5, <1>8

LEMMA RemoveLoadInv ==
    ASSUME TypeBase, LoadInv, NEW w \in LoadWorkers, removePendingLoad(w)
    PROVE  LoadInv'
<1> DEFINE c == loadReq[w]
<1>1. /\ loadPc[w] = "remove" /\ loadPc' = [loadPc EXCEPT ![w] = "check"]
      /\ loadReq' = [loadReq EXCEPT ![w] = NoCoord]
      /\ pendingLoads' = pendingLoads \ {c}
      /\ UNCHANGED <<loadQ, future>>
  BY DEF removePendingLoad, LoadStep
<1>2. /\ w \in LoadBusy /\ LoadBusy' = LoadBusy \ {w}
      /\ w \notin Unanswered /\ Unanswered' = Unanswered
      /\ LoadBusy \subseteq LoadWorkers /\ Unanswered \subseteq LoadWorkers
  BY <1>1 DEF LoadBusy, Unanswered, TypeBase, LoadTypes
<1>3. \A v \in LoadWorkers \ {w} : loadReq'[v] = loadReq[v]
  BY <1>1 DEF TypeBase, LoadTypes
<1>4. c \in BusyCoords /\ c \notin CoordsOf(loadQ)
  BY <1>2 DEF LoadInv, BusyCoords
<1>5. BusyCoords' = BusyCoords \ {c}
  <2>1. BusyCoords' = {loadReq[v] : v \in LoadBusy \ {w}}
    BY <1>2, <1>3 DEF BusyCoords
  <2>2. \A v \in LoadBusy : loadReq[v] = c => v = w
    BY <1>2 DEF LoadInv
  <2> QED BY <2>1, <2>2 DEF BusyCoords
<1>6. /\ (CoordsOf(loadQ))' = CoordsOf(loadQ)
      /\ (Distinct(loadQ))' = Distinct(loadQ)
      /\ OpenCoords' = OpenCoords
  BY <1>1, <1>2, <1>3 DEF CoordsOf, OpenCoords, Distinct
<1> QED BY <1>1, <1>2, <1>3, <1>4, <1>5, <1>6 DEF LoadInv

LEMMA DestroyLoadInv ==
    ASSUME TypeBase, LoadInv, JoinAndDestroy
    PROVE  LoadInv' /\ Answered = {} /\ OpenCoords' = {} /\ Answered' = {}
<1>1. /\ \A w \in LoadWorkers : loadPc[w] = "exited"
      /\ loadQ' = <<>> /\ pendingLoads' = {}
      /\ future' = [c \in Coords |->
                      IF future[c].state = "waiting" THEN BrokenFuture ELSE future[c]]
      /\ UNCHANGED <<loadPc, loadReq>>
  BY DEF JoinAndDestroy
<1>2. LoadBusy' = {} /\ Unanswered' = {} /\ Answered = {} /\ Answered' = {}
  BY <1>1 DEF LoadBusy, Unanswered, Answered
<1>3. (CoordsOf(loadQ))' = {} /\ (Distinct(loadQ))'
  BY <1>1, EmptySeq DEF CoordsOf, Distinct
<1>4. {c \in Coords : future'[c].state = "waiting"} = {}
  BY <1>1 DEF BrokenFuture
<1> QED BY <1>1, <1>2, <1>3, <1>4 DEF LoadInv, BusyCoords, OpenCoords

LEMMA TakeFutureLoadInv ==
    ASSUME TypeBase, LoadInv, NEW c \in Coords, TakeFuture(c)
    PROVE  LoadInv'
<1>1. /\ future[c].state = "ready" /\ future' = [future EXCEPT ![c] = NoFuture]
      /\ UNCHANGED <<loadQ, pendingLoads, loadPc, loadReq>>
  BY DEF TakeFuture
<1>2. {d \in Coords : future'[d].state = "waiting"} = {d \in Coords : future[d].state = "waiting"}
  BY <1>1 DEF NoFuture, TypeBase, LoadTypes
<1>3. /\ (CoordsOf(loadQ))' = CoordsOf(loadQ) /\ BusyCoords' = BusyCoords
      /\ (Distinct(loadQ))' = Distinct(loadQ) /\ LoadBusy' = LoadBusy
      /\ OpenCoords' = OpenCoords
  BY <1>1 DEF CoordsOf, BusyCoords, Distinct, LoadBusy, OpenCoords, Unanswered
<1> QED BY <1>1, <1>2, <1>3 DEF LoadInv

(* The steps that have nothing to do with loads.                           *)
LoadIdle ==
    \/ \E c \in Coords, g \in Grids : saveAsync(c, g)
    \/ SavePush
    \/ waitForPendingSaves
    \/ \E w \in LoadWorkers : LoadCheck(w) \/ LoadPopNothing(w)
    \/ \E w \in SaveWorkers : SaveWorker(w)
    \/ Stop
    \/ ShutQueues
    \/ UNCHANGED vars

LEMMA LoadIdleFrame ==
    ASSUME TypeBase, LoadIdle
    PROVE  /\ UNCHANGED <<loadQ, pendingLoads, future, loadReq>>
           /\ LoadBusy' = LoadBusy /\ Unanswered' = Unanswered /\ Answered' = Answered
           /\ (phase # "destroyed") = (phase' # "destroyed")
<1> USE DEF loadVars, saveVars
<1>1. CASE \E w \in LoadWorkers : LoadCheck(w) \/ LoadPopNothing(w)
  BY <1>1 DEF LoadCheck, LoadPopNothing, LoadStep, LoadBusy, Unanswered, Answered, TypeBase,
              LoadTypes
<1>2. ASSUME UNCHANGED <<loadVars, phase>>
      PROVE  /\ UNCHANGED <<loadQ, pendingLoads, future, loadReq>>
             /\ LoadBusy' = LoadBusy /\ Unanswered' = Unanswered /\ Answered' = Answered
             /\ (phase # "destroyed") = (phase' # "destroyed")
  BY <1>2 DEF LoadBusy, Unanswered, Answered
<1>3. CASE \/ \E c \in Coords, g \in Grids : saveAsync(c, g)
           \/ SavePush \/ waitForPendingSaves \/ UNCHANGED vars
  <2>1. UNCHANGED <<loadVars, phase>>
    BY <1>3 DEF saveAsync, SavePush, waitForPendingSaves, WaitStep, vars
  <2> QED BY <2>1, <1>2
<1>4. CASE \E w \in SaveWorkers : SaveWorker(w)
  <2>1. UNCHANGED <<loadVars, phase>>
    BY <1>4 DEF SaveWorker, SaveCheck, SavePop, SavePopNothing, SaveOpen, SaveSkip, SaveWrite,
                SaveSettle, SaveNotify, SaveStep
  <2> QED BY <2>1, <1>2
<1>5. CASE Stop \/ ShutQueues
  <2>1. UNCHANGED loadVars /\ phase # "destroyed" /\ phase' # "destroyed"
    BY <1>5 DEF Stop, ShutQueues
  <2> QED BY <2>1 DEF LoadBusy, Unanswered, Answered
<1> QED BY <1>1, <1>3, <1>4, <1>5 DEF LoadIdle

LEMMA LoadIdleLoadInv ==
    ASSUME TypeBase, LoadInv, LoadIdle
    PROVE  LoadInv' /\ OpenCoords' = OpenCoords
<1>1. /\ (CoordsOf(loadQ))' = CoordsOf(loadQ) /\ BusyCoords' = BusyCoords
      /\ (Distinct(loadQ))' = Distinct(loadQ) /\ OpenCoords' = OpenCoords
  BY LoadIdleFrame DEF CoordsOf, BusyCoords, Distinct, OpenCoords
<1> QED BY <1>1, LoadIdleFrame DEF LoadInv

(* Every step is one of the load steps, or idle for them.                  *)
LEMMA StepCases ==
    ASSUME [Next]_vars
    PROVE  \/ \E c \in Coords, p \in Priorities : loadAsync(c, p)
           \/ \E c \in Coords : TakeFuture(c)
           \/ \E w \in LoadWorkers :
                 LoadPop(w) \/ LoadRead(w) \/ Fulfil(w) \/ removePendingLoad(w)
           \/ JoinAndDestroy
           \/ LoadIdle
<1>1. CASE Callers
  BY <1>1 DEF Callers, LoadIdle
<1>2. CASE Workers
  BY <1>2 DEF Workers, LoadWorker, LoadIdle
<1>3. CASE Stop \/ Destructor \/ Gone \/ UNCHANGED vars
  BY <1>3 DEF Destructor, Gone, LoadIdle
<1> QED BY <1>1, <1>2, <1>3 DEF Next

LEMMA NextLoadInv == TypeBase /\ LoadInv /\ [Next]_vars => LoadInv'
<1> SUFFICES ASSUME TypeBase, LoadInv, [Next]_vars PROVE LoadInv'
  OBVIOUS
<1>1. ASSUME NEW c \in Coords, NEW p \in Priorities, loadAsync(c, p) PROVE LoadInv'
  BY <1>1, LoadAsyncLoadInv
<1>2. ASSUME NEW c \in Coords, TakeFuture(c) PROVE LoadInv'
  BY <1>2, TakeFutureLoadInv
<1>3. ASSUME NEW w \in LoadWorkers,
             LoadPop(w) \/ LoadRead(w) \/ Fulfil(w) \/ removePendingLoad(w)
      PROVE  LoadInv'
  BY <1>3, LoadPopLoadInv, LoadReadLoadInv, FulfilLoadInv, RemoveLoadInv
<1>4. CASE JoinAndDestroy
  BY <1>4, DestroyLoadInv
<1>5. CASE LoadIdle
  BY <1>5, LoadIdleLoadInv
<1> QED BY <1>1, <1>2, <1>3, <1>4, <1>5, StepCases

LEMMA LoadInvHolds == Spec => []LoadInv
BY InitLoadInv, NextLoadInv, TypesHold, PTL DEF Spec

(* Two workers never load the same coordinate, and pending_loads_ is       *)
(* exactly what is queued or with a worker.                                *)
THEOREM OneLoadPerCoordHolds == Spec => []OneLoadPerCoord
BY LoadInvHolds, TypesHold, LoadInvMeans, PTL

(* No promise is set twice, and none that is waited for has been lost.     *)
THEOREM PromiseSetOnceHolds == Spec => []PromiseSetOnce
BY LoadInvHolds, TypesHold, LoadInvMeans, PTL

-----------------------------------------------------------------------------
(* The manager implements the abstract load service: loadAsync requests,   *)
(* set_value answers, removePendingLoad forgets, the end of the destructor *)
(* abandons, and every other step stutters.                                *)

AnsweredCoords == {loadReq[w] : w \in Answered}
Alive == phase # "destroyed"

(* The steps of the service, in the state of the manager.                  *)
Requests(c) ==
    /\ Alive /\ c \notin OpenCoords \cup AnsweredCoords
    /\ OpenCoords' = OpenCoords \cup {c}
    /\ AnsweredCoords' = AnsweredCoords /\ (Alive' <=> Alive)

Answers(c) ==
    /\ c \in OpenCoords
    /\ OpenCoords' = OpenCoords \ {c}
    /\ AnsweredCoords' = AnsweredCoords \cup {c} /\ (Alive' <=> Alive)

Forgets(c) ==
    /\ c \in AnsweredCoords
    /\ AnsweredCoords' = AnsweredCoords \ {c}
    /\ OpenCoords' = OpenCoords /\ (Alive' <=> Alive)

Abandons ==
    /\ Alive /\ ~Alive'
    /\ AnsweredCoords = {} /\ AnsweredCoords' = {}
    /\ OpenCoords' = {}

Stutters ==
    /\ OpenCoords' = OpenCoords
    /\ AnsweredCoords' = AnsweredCoords /\ (Alive' <=> Alive)

LEMMA PendingIsOpenOrAnswered ==
    ASSUME LoadInv
    PROVE  pendingLoads = OpenCoords \cup AnsweredCoords
<1>1. LoadBusy = Unanswered \cup Answered
  BY DEF LoadBusy, Unanswered, Answered
<1> QED BY <1>1 DEF LoadInv, BusyCoords, OpenCoords, AnsweredCoords

LEMMA AbstractStep ==
    ASSUME TypeBase, LoadInv, [Next]_vars
    PROVE  \/ \E c \in Coords : Requests(c) \/ Answers(c) \/ Forgets(c)
           \/ Abandons \/ Stutters
<1>1. ASSUME NEW c \in Coords, NEW p \in Priorities, loadAsync(c, p)
      PROVE  Requests(c) \/ Stutters
  <2>1. phase # "destroyed" /\ UNCHANGED <<phase, loadPc, loadReq>>
    BY <1>1 DEF loadAsync
  <2>2. /\ Unanswered' = Unanswered /\ AnsweredCoords' = AnsweredCoords
        /\ Alive /\ Alive'
    BY <2>1 DEF Unanswered, Answered, AnsweredCoords, Alive
  <2>3. CASE LoadRefused(c)
    <3>1. UNCHANGED loadQ
      BY <1>1, <2>3 DEF loadAsync
    <3> QED BY <2>1, <2>2, <3>1 DEF Stutters, OpenCoords, CoordsOf
  <2>4. CASE ~LoadRefused(c)
    <3>1. c \notin pendingLoads /\ loadQ' = Append(loadQ, [coord |-> c, priority |-> p])
      BY <1>1, <2>4 DEF loadAsync, LoadRefused, isLoading
    <3>2. c \notin OpenCoords \cup AnsweredCoords
      BY <3>1, PendingIsOpenOrAnswered
    <3>3. CoordsOf(loadQ') = CoordsOf(loadQ) \cup {c}
      BY <3>1, QueueAppend DEF TypeBase, LoadTypes, LoadRequest
    <3>4. OpenCoords' = OpenCoords \cup {c}
      BY <2>1, <2>2, <3>3 DEF OpenCoords, CoordsOf
    <3> QED BY <2>2, <3>2, <3>4 DEF Requests
  <2> QED BY <2>3, <2>4
<1>2. ASSUME NEW c \in Coords, TakeFuture(c) PROVE Stutters
  BY <1>2 DEF TakeFuture, Stutters, OpenCoords, AnsweredCoords, CoordsOf, Unanswered, Answered,
              Alive
<1>3. ASSUME NEW w \in LoadWorkers, LoadPop(w) PROVE Stutters
  <2>1. PICK i \in DOMAIN loadQ : /\ loadReq' = [loadReq EXCEPT ![w] = loadQ[i].coord]
                                  /\ loadQ' = RemoveAt(loadQ, i)
    BY <1>3 DEF LoadPop
  <2>2. /\ loadPc[w] = "pop" /\ loadPc' = [loadPc EXCEPT ![w] = "load"]
        /\ UNCHANGED phase
    BY <1>3 DEF LoadPop, LoadStep
  <2>3. CoordsOf(loadQ') = CoordsOf(loadQ) \ {loadQ[i].coord}
    BY <2>1, QueueRemove DEF LoadInv, TypeBase, LoadTypes
  <2>4. loadQ[i].coord \in CoordsOf(loadQ)
    BY DEF CoordsOf
  <2>5. /\ w \notin Unanswered /\ Unanswered' = Unanswered \cup {w}
        /\ w \notin Answered /\ Answered' = Answered
        /\ Unanswered \subseteq LoadWorkers /\ Answered \subseteq LoadWorkers
    BY <2>2 DEF Unanswered, Answered, TypeBase, LoadTypes
  <2>6. /\ loadReq'[w] = loadQ[i].coord
        /\ \A v \in LoadWorkers \ {w} : loadReq'[v] = loadReq[v]
    BY <2>1 DEF TypeBase, LoadTypes
  <2>7. {loadReq'[v] : v \in Unanswered'}
            = {loadReq[v] : v \in Unanswered} \cup {loadQ[i].coord}
    BY <2>5, <2>6
  <2>8. OpenCoords' = CoordsOf(loadQ') \cup {loadReq'[v] : v \in Unanswered'}
    BY DEF OpenCoords, CoordsOf
  <2>9. OpenCoords' = OpenCoords
    BY <2>3, <2>4, <2>7, <2>8 DEF OpenCoords
  <2>10. AnsweredCoords' = AnsweredCoords
    BY <2>5, <2>6 DEF AnsweredCoords
  <2> QED BY <2>2, <2>9, <2>10 DEF Stutters, Alive
<1>4. ASSUME NEW w \in LoadWorkers, LoadRead(w) PROVE Stutters
  BY <1>4 DEF LoadRead, LoadStep, Stutters, OpenCoords, AnsweredCoords, CoordsOf, Unanswered,
              Answered, Alive, TypeBase, LoadTypes
<1>5. ASSUME NEW w \in LoadWorkers, Fulfil(w) PROVE Answers(loadReq[w])
  <2>1. loadReq[w] \in OpenCoords /\ OpenCoords' = OpenCoords \ {loadReq[w]}
    BY <1>5, FulfilLoadInv
  <2>2. /\ Answered' = Answered \cup {w} /\ UNCHANGED <<phase, loadReq>>
    BY <1>5 DEF Fulfil, LoadStep, Answered, TypeBase, LoadTypes
  <2>3. AnsweredCoords' = AnsweredCoords \cup {loadReq[w]}
    BY <2>2 DEF AnsweredCoords
  <2> QED BY <2>1, <2>2, <2>3 DEF Answers, Alive
<1>6. ASSUME NEW w \in LoadWorkers, removePendingLoad(w) PROVE Forgets(loadReq[w])
  <2>1. /\ loadPc[w] = "remove" /\ loadPc' = [loadPc EXCEPT ![w] = "check"]
        /\ loadReq' = [loadReq EXCEPT ![w] = NoCoord]
        /\ UNCHANGED <<phase, loadQ>>
    BY <1>6 DEF removePendingLoad, LoadStep
  <2>2. /\ w \in Answered /\ Answered' = Answered \ {w} /\ Answered \subseteq LoadBusy
        /\ w \notin Unanswered /\ Unanswered' = Unanswered
        /\ Unanswered \subseteq LoadWorkers /\ Answered \subseteq LoadWorkers
    BY <2>1 DEF Unanswered, Answered, LoadBusy, TypeBase, LoadTypes
  <2>3. \A v \in LoadWorkers \ {w} : loadReq'[v] = loadReq[v]
    BY <2>1 DEF TypeBase, LoadTypes
  <2>4. \A v \in Answered : loadReq[v] = loadReq[w] => v = w
    BY <2>2 DEF LoadInv
  <2>5. AnsweredCoords' = AnsweredCoords \ {loadReq[w]} /\ loadReq[w] \in AnsweredCoords
    <3>1. AnsweredCoords' = {loadReq[v] : v \in Answered \ {w}}
      BY <2>2, <2>3 DEF AnsweredCoords
    <3> QED BY <3>1, <2>2, <2>4 DEF AnsweredCoords
  <2>6. OpenCoords' = OpenCoords
    BY <2>1, <2>2, <2>3 DEF OpenCoords, CoordsOf
  <2> QED BY <2>1, <2>5, <2>6 DEF Forgets, Alive
<1>7. CASE JoinAndDestroy
  <2>1. phase = "shut" /\ phase' = "destroyed"
    BY <1>7 DEF JoinAndDestroy
  <2> QED BY <1>7, <2>1, DestroyLoadInv DEF Abandons, AnsweredCoords, Alive
<1>8. CASE LoadIdle
  <2>1. OpenCoords' = OpenCoords
    BY <1>8, LoadIdleLoadInv
  <2>2. AnsweredCoords' = AnsweredCoords /\ (Alive' <=> Alive)
    BY <1>8, LoadIdleFrame DEF AnsweredCoords, Alive
  <2> QED BY <2>1, <2>2 DEF Stutters
<1>9. ASSUME NEW w \in LoadWorkers, TypeBase PROVE loadReq[w] \in Coords
  BY <1>9 DEF TypeBase, LoadTypes
<1> QED BY <1>1, <1>2, <1>3, <1>4, <1>5, <1>6, <1>7, <1>8, <1>9, StepCases

LEMMA ServiceStep ==
    TypeBase /\ LoadInv /\ [Next]_vars => [Service!Next]_(Service!serviceVars)
<1> SUFFICES ASSUME TypeBase, LoadInv, [Next]_vars
             PROVE  [Service!Next]_(Service!serviceVars)
  OBVIOUS
<1> USE DEF OpenCoords, CoordsOf, AnsweredCoords, Alive
<1>1. ASSUME NEW c \in Coords, Requests(c) PROVE Service!Request(c)
  BY <1>1 DEF Requests, Service!Request
<1>2. ASSUME NEW c \in Coords, Answers(c) PROVE Service!Answer(c)
  BY <1>2 DEF Answers, Service!Answer
<1>3. ASSUME NEW c \in Coords, Forgets(c) PROVE Service!Forget(c)
  BY <1>3 DEF Forgets, Service!Forget
<1>4. CASE Abandons
  BY <1>4 DEF Abandons, Service!Abandon, Service!Next
<1>5. CASE Stutters
  BY <1>5 DEF Stutters, Service!serviceVars
<1> QED
  <2> HIDE DEF OpenCoords, CoordsOf, AnsweredCoords, Alive
  <2> QED BY <1>1, <1>2, <1>3, <1>4, <1>5, AbstractStep DEF Service!Next

LEMMA ServiceInit == Init => Service!Init
BY EmptySeq DEF Init, Service!Init, Unanswered, Answered

(* Exactly-once loading: the manager implements LoadService.               *)
THEOREM ServiceImplemented == Spec => ServiceSpec
<1>1. Init => Service!Init
  BY ServiceInit
<1>2. TypeBase /\ LoadInv /\ [Next]_vars => [Service!Next]_(Service!serviceVars)
  BY ServiceStep
<1> QED BY <1>1, <1>2, TypesHold, LoadInvHolds, PTL DEF Spec, ServiceSpec, Service!Spec

-----------------------------------------------------------------------------
(* Saves.  InflightExact needs to know of the end, too: a destroyed        *)
(* manager has nobody left who would take a save off the count.            *)

SaveInv ==
    /\ InflightExact
    /\ phase = "destroyed" =>
          /\ inflight \in Nat
          /\ enq = <<>>
          /\ waiter = "out"
          /\ \A w \in SaveWorkers : savePc[w] = "exited"

LEMMA SaveBusyFinite ==
    /\ IsFiniteSet(SaveBusy) /\ Cardinality(SaveBusy) \in Nat
    /\ Cardinality(SaveBusy) = 0 => SaveBusy = {}
    /\ SaveBusy = {} => Cardinality(SaveBusy) = 0
BY ManagerAssumption, FS_Subset, FS_CardinalityType, FS_EmptySet DEF ConstantsOK, SaveBusy

LEMMA SaveInvMeans ==
    ASSUME TypeBase, SaveInv
    PROVE  InflightExact /\ TypeOK
<1>1. inflight \in Nat
  <2>1. CASE phase = "destroyed"
    BY <2>1 DEF SaveInv
  <2>2. CASE phase # "destroyed"
    <3>1. inflight = Len(enq) + Len(saveQ) + Cardinality(SaveBusy)
      BY <2>2 DEF SaveInv, InflightExact
    <3>2. Len(enq) \in Nat /\ Len(saveQ) \in Nat
      BY LenProperties DEF TypeBase, SaveTypes
    <3> QED BY <3>1, <3>2, SaveBusyFinite
  <2> QED BY <2>1, <2>2
<1> QED BY <1>1 DEF TypeBase, LoadTypes, SaveTypes, TypeOK, SaveInv

LEMMA InitSaveInv == Init => SaveInv
<1> SUFFICES ASSUME Init PROVE SaveInv
  OBVIOUS
<1>1. SaveBusy = {} /\ Len(enq) = 0 /\ Len(saveQ) = 0
  BY EmptySeq DEF Init, SaveBusy
<1> QED BY <1>1, SaveBusyFinite DEF Init, SaveInv, InflightExact

(* A worker that changes places adds itself to the busy ones, leaves them, *)
(* or neither.                                                             *)
LEMMA SaveBusyStep ==
    ASSUME SaveTypes, NEW w \in SaveWorkers, NEW from, NEW to, SaveStep(w, from, to)
    PROVE  LET busy == {"open", "write", "settle"}
           IN  /\ (from \in busy) = (to \in busy) => SaveBusy' = SaveBusy
               /\ from \notin busy /\ to \in busy =>
                     Cardinality(SaveBusy') = Cardinality(SaveBusy) + 1
               /\ from \in busy /\ to \notin busy =>
                     Cardinality(SaveBusy') = Cardinality(SaveBusy) - 1
<1> DEFINE busy == {"open", "write", "settle"}
<1>1. /\ savePc[w] = from /\ savePc' = [savePc EXCEPT ![w] = to]
      /\ \A v \in SaveWorkers : savePc'[v] = IF v = w THEN to ELSE savePc[v]
  BY DEF SaveStep, SaveTypes
<1>2. ASSUME (from \in busy) = (to \in busy) PROVE SaveBusy' = SaveBusy
  BY <1>1, <1>2 DEF SaveBusy
<1>3. ASSUME from \notin busy, to \in busy
      PROVE  Cardinality(SaveBusy') = Cardinality(SaveBusy) + 1
  <2>1. w \notin SaveBusy /\ SaveBusy' = SaveBusy \cup {w}
    BY <1>1, <1>3 DEF SaveBusy
  <2> QED BY <2>1, SaveBusyFinite, FS_AddElement
<1>4. ASSUME from \in busy, to \notin busy
      PROVE  Cardinality(SaveBusy') = Cardinality(SaveBusy) - 1
  <2>1. w \in SaveBusy /\ SaveBusy' = SaveBusy \ {w}
    BY <1>1, <1>4 DEF SaveBusy
  <2> QED BY <2>1, SaveBusyFinite, FS_RemoveElement
<1> QED BY <1>2, <1>3, <1>4

LEMMA SaveCallsSaveInv ==
    ASSUME TypeBase, SaveInv,
           \/ \E c \in Coords, g \in Grids : saveAsync(c, g)
           \/ SavePush
           \/ waitForPendingSaves
    PROVE  SaveInv'
<1> USE DEF SaveInv, InflightExact
<1>1. ASSUME NEW c \in Coords, NEW g \in Grids, saveAsync(c, g) PROVE SaveInv'
  <2>1. /\ phase # "destroyed" /\ phase' = phase /\ enq = <<>>
        /\ inflight' = inflight + 1 /\ enq' = <<[coord |-> c, grid |-> g]>>
        /\ saveQ' = saveQ /\ savePc' = savePc
    BY <1>1 DEF saveAsync
  <2>2. Len(enq) = 0 /\ Len(enq') = 1 /\ Len(saveQ) \in Nat
    BY <2>1, EmptySeq, LenProperties DEF TypeBase, SaveTypes
  <2>3. SaveBusy' = SaveBusy
    BY <2>1 DEF SaveBusy
  <2> QED BY <2>1, <2>2, <2>3, SaveBusyFinite DEF TypeBase, SaveTypes
<1>2. ASSUME SavePush PROVE SaveInv'
  <2>1. /\ enq # <<>> /\ enq' = <<>> /\ phase' = phase /\ savePc' = savePc
        /\ waiter' = waiter
    BY <1>2 DEF SavePush
  <2>2. phase # "destroyed"
    BY <2>1
  <2>3. Len(enq) = 1 /\ Len(enq') = 0 /\ Len(saveQ) \in Nat
    <3>1. enq \in Seq(SaveRequest) /\ saveQ \in Seq(SaveRequest) /\ Len(enq) <= 1
      BY DEF TypeBase, SaveTypes
    <3>2. Len(enq) \in Nat \ {0} /\ Len(saveQ) \in Nat
      BY <2>1, <3>1, EmptySeq, LenProperties
    <3>3. Len(enq') = 0
      BY <2>1, EmptySeq
    <3>4. ASSUME NEW n \in Nat \ {0}, n <= 1 PROVE n = 1
      BY <3>4
    <3> QED BY <3>1, <3>2, <3>3, <3>4
  <2>4. SaveBusy' = SaveBusy
    BY <2>1 DEF SaveBusy
  <2>5. CASE QueuesAreShut
    <3>1. inflight' = inflight - 1 /\ saveQ' = saveQ
      BY <1>2, <2>5 DEF SavePush
    <3> QED BY <2>1, <2>2, <2>3, <2>4, <3>1, SaveBusyFinite DEF TypeBase, SaveTypes
  <2>6. CASE ~QueuesAreShut
    <3>1. inflight' = inflight /\ saveQ' = saveQ \o enq
      BY <1>2, <2>6 DEF SavePush
    <3>2. Len(saveQ') = Len(saveQ) + 1
      <4>1. saveQ \in Seq(SaveRequest) /\ enq \in Seq(SaveRequest)
        BY DEF TypeBase, SaveTypes
      <4>2. Len(saveQ \o enq) = Len(saveQ) + Len(enq)
        BY <4>1, ConcatProperties
      <4> QED BY <2>3, <3>1, <4>2
    <3> QED BY <2>1, <2>2, <2>3, <2>4, <3>1, <3>2, SaveBusyFinite
  <2> QED BY <2>5, <2>6
<1>3. ASSUME waitForPendingSaves PROVE SaveInv'
  <2>1. /\ UNCHANGED <<phase, saveVars>>
        /\ waiter = "out" => ~Stopped
    BY <1>3 DEF waitForPendingSaves, WaitStep
  <2>2. phase = "destroyed" => waiter # "out"
    BY <2>1 DEF Stopped
  <2>3. SaveBusy' = SaveBusy
    BY <2>1 DEF SaveBusy, saveVars
  <2> QED BY <2>1, <2>2, <2>3 DEF saveVars
<1> QED BY <1>1, <1>2, <1>3

LEMMA SaveWorkerSaveInv ==
    ASSUME TypeBase, SaveInv, NEW w \in SaveWorkers, SaveWorker(w)
    PROVE  SaveInv'
<1> USE DEF SaveInv, InflightExact
<1>1. PICK from \in {"check", "pop", "open", "write", "settle", "notify"},
           to \in {"check", "pop", "open", "write", "settle", "notify", "exited"} :
         SaveStep(w, from, to)
  BY DEF SaveWorker, SaveCheck, SavePop, SavePopNothing, SaveOpen, SaveSkip, SaveWrite,
         SaveSettle, SaveNotify
<1>2. phase # "destroyed" /\ phase' = phase /\ enq' = enq
  BY <1>1 DEF SaveStep
<1>3. SUFFICES inflight' = Len(enq) + Len(saveQ') + Cardinality(SaveBusy')
  BY <1>2
<1>4. /\ inflight = Len(enq) + Len(saveQ) + Cardinality(SaveBusy)
      /\ Len(enq) \in Nat /\ Len(saveQ) \in Nat /\ Cardinality(SaveBusy) \in Nat
  BY <1>2, LenProperties, SaveBusyFinite DEF TypeBase, SaveTypes
<1>5. CASE SavePop(w)
  <2>1. /\ SaveStep(w, "pop", "open") /\ saveQ # <<>>
        /\ saveQ' = Tail(saveQ) /\ inflight' = inflight
    BY <1>5 DEF SavePop
  <2>2. Cardinality(SaveBusy') = Cardinality(SaveBusy) + 1
    BY <2>1, SaveBusyStep DEF TypeBase
  <2>3. Len(saveQ') = Len(saveQ) - 1
    BY <2>1, HeadTailProperties DEF TypeBase, SaveTypes
  <2> QED BY <1>4, <2>1, <2>2, <2>3
<1>6. CASE SaveSettle(w)
  <2>1. SaveStep(w, "settle", "notify") /\ saveQ' = saveQ /\ inflight' = inflight - 1
    BY <1>6 DEF SaveSettle
  <2>2. Cardinality(SaveBusy') = Cardinality(SaveBusy) - 1
    BY <2>1, SaveBusyStep DEF TypeBase
  <2> QED BY <1>4, <2>1, <2>2
<1>7. CASE SaveCheck(w) \/ SavePopNothing(w) \/ SaveOpen(w) \/ SaveSkip(w) \/ SaveWrite(w)
           \/ SaveNotify(w)
  <2>1. saveQ' = saveQ /\ inflight' = inflight
    BY <1>7 DEF SaveCheck, SavePopNothing, SaveOpen, SaveSkip, SaveWrite, SaveNotify
  <2>2. \/ SaveStep(w, "check", "pop") \/ SaveStep(w, "check", "exited")
        \/ SaveStep(w, "pop", "exited") \/ SaveStep(w, "open", "write")
        \/ SaveStep(w, "open", "settle") \/ SaveStep(w, "write", "settle")
        \/ SaveStep(w, "notify", "check")
    BY <1>7 DEF SaveCheck, SavePopNothing, SaveOpen, SaveSkip, SaveWrite, SaveNotify
  <2>3. SaveBusy' = SaveBusy
    <3>1. SaveTypes
      BY DEF TypeBase
    <3> QED BY <2>2, <3>1, SaveBusyStep
  <2> QED BY <1>4, <2>1, <2>3
<1> QED BY <1>5, <1>6, <1>7 DEF SaveWorker

LEMMA NextSaveInv == TypeBase /\ SaveInv /\ [Next]_vars => SaveInv'
<1> SUFFICES ASSUME TypeBase, SaveInv, [Next]_vars PROVE SaveInv'
  OBVIOUS
<1>1. CASE \/ \E c \in Coords, g \in Grids : saveAsync(c, g)
           \/ SavePush \/ waitForPendingSaves
  BY <1>1, SaveCallsSaveInv
<1>2. CASE \E w \in SaveWorkers : SaveWorker(w)
  BY <1>2, SaveWorkerSaveInv
<1>3. ASSUME UNCHANGED <<saveVars, waiter>>, (phase = "destroyed") = (phase' = "destroyed")
      PROVE  SaveInv'
  BY <1>3 DEF SaveInv, InflightExact, SaveBusy, saveVars
<1>4. CASE \/ \E c \in Coords, p \in Priorities : loadAsync(c, p)
           \/ \E c \in Coords : TakeFuture(c)
           \/ \E w \in LoadWorkers : LoadWorker(w)
           \/ Gone \/ UNCHANGED vars
  <2>1. UNCHANGED <<saveVars, waiter, phase>>
    BY <1>4 DEF loadAsync, TakeFuture, LoadWorker, LoadCheck, LoadPop, LoadPopNothing, LoadRead,
                Fulfil, removePendingLoad, LoadStep, Gone, vars
  <2> QED BY <2>1, <1>3
<1>5. CASE Stop \/ ShutQueues
  <2>1. UNCHANGED <<saveVars, waiter>> /\ phase # "destroyed" /\ phase' # "destroyed"
    BY <1>5 DEF Stop, ShutQueues
  <2> QED BY <2>1, <1>3
<1>6. CASE JoinAndDestroy
  <2>1. /\ phase = "shut" /\ phase' = "destroyed"
        /\ enq = <<>> /\ waiter = "out" /\ \A w \in SaveWorkers : savePc[w] = "exited"
        /\ UNCHANGED <<enq, inflight, savePc, waiter>>
    BY <1>6 DEF JoinAndDestroy
  <2>2. inflight \in Nat
    BY SaveInvMeans DEF TypeOK
  <2> QED BY <2>1, <2>2 DEF SaveInv, InflightExact
<1> QED BY <1>1, <1>2, <1>4, <1>5, <1>6 DEF Next, Callers, Workers, Destructor

LEMMA SaveInvHolds == Spec => []SaveInv
BY InitSaveInv, NextSaveInv, TypesHold, PTL DEF Spec

(* Every variable keeps its type, and the count of saves never underflows. *)
THEOREM TypeCorrect == Spec => []TypeOK
BY SaveInvHolds, TypesHold, SaveInvMeans, PTL

(* pendingSaveCount() counts every save under way exactly once.            *)
THEOREM InflightExactHolds == Spec => []InflightExact
BY SaveInvHolds, TypesHold, SaveInvMeans, PTL

(* A count of zero means that no accepted save is unfinished.              *)
LEMMA NoneInflight ==
    ASSUME TypeBase, SaveInv, inflight = 0, phase # "destroyed"
    PROVE  SavesSettled
<1>1. 0 = Len(enq) + Len(saveQ) + Cardinality(SaveBusy)
  BY DEF SaveInv, InflightExact
<1>2. /\ Len(enq) \in Nat /\ Len(saveQ) \in Nat
      /\ enq \in Seq(SaveRequest) /\ saveQ \in Seq(SaveRequest)
  BY LenProperties DEF TypeBase, SaveTypes
<1>3. Len(enq) = 0 /\ Len(saveQ) = 0 /\ Cardinality(SaveBusy) = 0
  BY <1>1, <1>2, SaveBusyFinite
<1> QED BY <1>2, <1>3, EmptySeq, SaveBusyFinite DEF SavesSettled

LEMMA WaitSoundStep ==
    ASSUME TypeBase, SaveInv, waiter # "out", SavesDone
    PROVE  SavesSettled
BY NoneInflight DEF SavesDone, SaveInv

(* waitForPendingSaves() never returns true over an unfinished save.       *)
THEOREM WaitSoundHolds == Spec => WaitSound
<1>1. TypeBase /\ SaveInv /\ [Next]_vars
         => [WaitReturnsTrue => SavesSettled]_vars
  BY WaitSoundStep DEF WaitReturnsTrue
<1> QED BY <1>1, TypesHold, SaveInvHolds, PTL DEF Spec, WaitSound

-----------------------------------------------------------------------------
(* The last save.  With one save worker, what was saved last of a chunk is *)
(* found in one of three places: in the newest request for it in the queue;*)
(* if none is queued, with the worker; if it has none either, on the disk. *)

OneSaver == \A v, w \in SaveWorkers : v = w

Queued(q, c) == \E i \in DOMAIN q : q[i].coord = c
NewestAt(q, i, c) ==
    i \in DOMAIN q /\ q[i].coord = c /\ \A j \in DOMAIN q : j > i => q[j].coord # c
Carried(c) == {w \in SaveWorkers : savePc[w] \in {"open", "write"} /\ saveReq[w].coord = c}

LastOf(c) ==
    \/ \E i \in DOMAIN saveQ :
          NewestAt(saveQ, i, c) /\ lastSaved[c] = WholeFile(saveQ[i].grid)
    \/ /\ ~Queued(saveQ, c)
       /\ \E w \in Carried(c) : lastSaved[c] = WholeFile(saveReq[w].grid)
    \/ /\ ~Queued(saveQ, c) /\ Carried(c) = {}
       /\ file[c] = lastSaved[c]

LastInv ==
    EnableIO /\ OneSaver /\ phase # "destroyed" =>
        /\ \A w \in SaveWorkers : savePc[w] = "write" => file[saveReq[w].coord].state = "torn"
        /\ \A c \in Coords \ Faulty : LastOf(c)

(* A request at the end of the queue is the newest for its coordinate, and *)
(* changes nothing for the others.                                         *)
Appended(t, q, n, r) ==
    /\ n + 1 \in DOMAIN t /\ t[n + 1] = r
    /\ NewestAt(t, n + 1, r.coord)
    /\ \A c : c # r.coord =>
          /\ Queued(t, c) <=> Queued(q, c)
          /\ \A i \in DOMAIN q : NewestAt(q, i, c) =>
                i \in DOMAIN t /\ NewestAt(t, i, c) /\ t[i] = q[i]

LEMMA PushNewest ==
    ASSUME NEW q \in Seq(SaveRequest), NEW e \in Seq(SaveRequest), Len(e) = 1
    PROVE  e[1] \in SaveRequest /\ Appended(q \o e, q, Len(q), e[1])
<1> DEFINE t == q \o e
           n == Len(q)
<1>1. /\ n \in Nat /\ DOMAIN q = 1 .. n /\ e[1] \in SaveRequest
  BY LenProperties, ElementOfSeq
<1>2. /\ t \in Seq(SaveRequest) /\ Len(t) = n + Len(e)
      /\ \A i \in 1 .. n + Len(e) : t[i] = IF i <= n THEN q[i] ELSE e[i - n]
  BY ConcatProperties
<1>7. Len(t) = n + 1 /\ \A i \in 1 .. n + 1 : t[i] = IF i <= n THEN q[i] ELSE e[i - n]
  BY <1>2
<1>3. /\ \A i \in 1 .. n : t[i] = q[i]
      /\ t[n + 1] = e[1]
  <2> HIDE DEF t, n
  <2>1. n + 1 - n = 1 /\ ~(n + 1 <= n) /\ n + 1 \in 1 .. n + 1
    BY <1>1
  <2> QED BY <1>1, <1>7, <2>1
<1>4. DOMAIN t = 1 .. n + 1
  BY <1>2, <1>7, LenProperties
<1> HIDE DEF t, n
<1>5. NewestAt(t, n + 1, e[1].coord) /\ n + 1 \in DOMAIN t
  BY <1>1, <1>3, <1>4 DEF NewestAt
<1>6. ASSUME NEW c, c # e[1].coord
      PROVE  /\ Queued(t, c) <=> Queued(q, c)
             /\ \A i \in DOMAIN q : NewestAt(q, i, c) =>
                   i \in DOMAIN t /\ NewestAt(t, i, c) /\ t[i] = q[i]
  <2>1. \A i \in DOMAIN t : i \in 1 .. n \/ i = n + 1
    BY <1>1, <1>4
  <2>2. \A i \in DOMAIN q : i \in DOMAIN t /\ t[i] = q[i]
    BY <1>1, <1>3, <1>4
  <2> QED BY <1>1, <1>3, <1>6, <2>1, <2>2 DEF Queued, NewestAt
<1> QED BY <1>1, <1>3, <1>5, <1>6 DEF t, n, Appended

(* Without its head, a queue has the same newest requests, unless the head *)
(* was the newest, and then it was the only one, for its coordinate.       *)
LEMMA PopNewest ==
    ASSUME NEW q \in Seq(SaveRequest), q # <<>>
    PROVE  /\ \A c : Queued(Tail(q), c) => Queued(q, c)
           /\ \A c : \A i \in DOMAIN q : NewestAt(q, i, c) =>
                 \/ /\ i - 1 \in DOMAIN Tail(q) /\ NewestAt(Tail(q), i - 1, c)
                    /\ Tail(q)[i - 1] = q[i]
                 \/ Head(q) = q[i] /\ ~Queued(Tail(q), c)
<1> DEFINE t == Tail(q)
           n == Len(q)
<1>1. /\ n \in Nat \ {0} /\ DOMAIN q = 1 .. n
      /\ t \in Seq(SaveRequest) /\ Len(t) = n - 1 /\ Head(q) = q[1]
      /\ \A i \in 1 .. n - 1 : t[i] = q[i + 1]
  BY LenProperties, EmptySeq, HeadTailProperties
<1>2. DOMAIN t = 1 .. n - 1
  BY <1>1, LenProperties
<1> HIDE DEF t, n
<1>3. \A j \in DOMAIN t : j + 1 \in DOMAIN q /\ t[j] = q[j + 1]
  BY <1>1, <1>2
<1>4. \A c : Queued(t, c) => Queued(q, c)
  BY <1>3 DEF Queued
<1>5. ASSUME NEW c, NEW i \in DOMAIN q, NewestAt(q, i, c)
      PROVE  \/ i - 1 \in DOMAIN t /\ NewestAt(t, i - 1, c) /\ t[i - 1] = q[i]
             \/ Head(q) = q[i] /\ ~Queued(t, c)
  <2>1. CASE i = 1
    <3>1. \A j \in DOMAIN t : j + 1 > i
      BY <1>2, <2>1
    <3> QED BY <1>1, <1>3, <1>5, <2>1, <3>1 DEF NewestAt, Queued
  <2>2. CASE i # 1
    <3>1. i - 1 \in DOMAIN t /\ i - 1 + 1 = i
      BY <1>1, <1>2, <2>2
    <3>2. \A j \in DOMAIN t : j > i - 1 => j + 1 > i
      BY <1>1, <1>2
    <3> QED BY <1>3, <1>5, <3>1, <3>2 DEF NewestAt
  <2> QED BY <2>1, <2>2
<1> QED BY <1>4, <1>5 DEF t

LEMMA SavePushLastInv ==
    ASSUME TypeBase, LastInv, SavePush
    PROVE  LastInv'
<1> SUFFICES ASSUME EnableIO, OneSaver, phase' # "destroyed"
             PROVE  /\ \A w \in SaveWorkers :
                          savePc'[w] = "write" => file'[saveReq'[w].coord].state = "torn"
                    /\ \A c \in Coords \ Faulty : LastOf(c)'
  BY DEF LastInv
<1>1. UNCHANGED <<phase, savePc, saveReq, file>>
  BY DEF SavePush
<1>2. \A c \in Coords \ Faulty : LastOf(c) /\ Carried(c)' = Carried(c)
  BY <1>1 DEF LastInv, Carried
<1>3. CASE QueuesAreShut
  <2>1. UNCHANGED <<saveQ, lastSaved>>
    BY <1>3 DEF SavePush
  <2> QED BY <1>1, <1>2, <2>1 DEF LastInv, LastOf
<1>4. CASE ~QueuesAreShut
  <2> PICK r, n : r = enq[1] /\ n = Len(saveQ)
    OBVIOUS
  <2>1. /\ saveQ \in Seq(SaveRequest) /\ enq \in Seq(SaveRequest) /\ Len(enq) = 1
        /\ lastSaved \in [Coords -> File]
    <3>1. enq # <<>> /\ enq \in Seq(SaveRequest) /\ Len(enq) <= 1
      BY DEF SavePush, TypeBase, SaveTypes
    <3>2. Len(enq) \in Nat \ {0}
      BY <3>1, EmptySeq
    <3>3. ASSUME NEW k \in Nat \ {0}, k <= 1 PROVE k = 1
      BY <3>3
    <3> QED BY <3>1, <3>2, <3>3 DEF TypeBase, SaveTypes
  <2>2. saveQ' = saveQ \o enq /\ lastSaved' = [lastSaved EXCEPT ![r.coord] = WholeFile(r.grid)]
    BY <1>4 DEF SavePush
  <2>3. r \in SaveRequest /\ r.coord \in Coords
    BY <2>1, PushNewest DEF SaveRequest
  <2>4. Appended(saveQ', saveQ, n, r)
    BY <2>1, <2>2, PushNewest
  <2>5. lastSaved'[r.coord] = WholeFile(r.grid)
    BY <2>1, <2>2, <2>3
  <2>6. LastOf(r.coord)'
    BY <2>4, <2>5 DEF LastOf, Appended
  <2>7. ASSUME NEW c \in Coords \ Faulty, c # r.coord
        PROVE  LastOf(c)'
    <3>1. lastSaved'[c] = lastSaved[c]
      BY <2>1, <2>2, <2>7
    <3> QED BY <1>1, <1>2, <2>4, <2>7, <3>1 DEF LastOf, Appended
  <2> QED BY <1>1, <2>6, <2>7 DEF LastInv
<1> QED BY <1>3, <1>4

LEMMA SaveWorkerLastInv ==
    ASSUME TypeBase, LastInv, NEW w \in SaveWorkers, SaveWorker(w)
    PROVE  LastInv'
<1> SUFFICES ASSUME EnableIO, OneSaver, phase' # "destroyed"
             PROVE  /\ \A v \in SaveWorkers :
                          savePc'[v] = "write" => file'[saveReq'[v].coord].state = "torn"
                    /\ \A c \in Coords \ Faulty : LastOf(c)'
  BY DEF LastInv
<1>1. phase' = phase /\ lastSaved' = lastSaved
  BY DEF SaveWorker, SaveCheck, SavePop, SavePopNothing, SaveOpen, SaveSkip, SaveWrite,
         SaveSettle, SaveNotify, SaveStep
<1>2. /\ \A c \in Coords \ Faulty : LastOf(c)
      /\ savePc[w] = "write" => file[saveReq[w].coord].state = "torn"
      /\ \A v \in SaveWorkers : v = w
  BY <1>1 DEF LastInv, OneSaver
<1>3. /\ savePc \in [SaveWorkers ->
                        {"check", "pop", "open", "write", "settle", "notify", "exited"}]
      /\ saveReq \in [SaveWorkers -> SaveRequest] /\ file \in [Coords -> File]
      /\ saveQ \in Seq(SaveRequest)
  BY DEF TypeBase, SaveTypes
<1>4. saveReq[w].coord \in Coords
  BY <1>3 DEF SaveRequest
<1> DEFINE r == saveReq[w]
<1>5. CASE SaveCheck(w) \/ SavePopNothing(w) \/ SaveSettle(w) \/ SaveNotify(w)
  <2>1. /\ savePc[w] \notin {"open", "write"} /\ savePc'[w] \notin {"open", "write"}
        /\ UNCHANGED <<saveQ, file>>
    BY <1>3, <1>5 DEF SaveCheck, SavePopNothing, SaveSettle, SaveNotify, SaveStep
  <2>2. \A c : Carried(c) = {} /\ Carried(c)' = {}
    BY <1>2, <2>1 DEF Carried
  <2> QED BY <1>1, <1>2, <2>1, <2>2 DEF LastOf
<1>6. CASE SavePop(w)
  <2>1. /\ savePc[w] = "pop" /\ savePc'[w] = "open" /\ file' = file /\ saveQ # <<>>
        /\ saveReq'[w] = Head(saveQ) /\ saveQ' = Tail(saveQ)
    BY <1>3, <1>6 DEF SavePop, SaveStep
  <2>2. \A c : Carried(c) = {} /\ Carried(c)' = IF Head(saveQ).coord = c THEN {w} ELSE {}
    BY <1>2, <2>1 DEF Carried
  <2>3. /\ \A c : Queued(saveQ', c) => Queued(saveQ, c)
        /\ \A c : \A i \in DOMAIN saveQ : NewestAt(saveQ, i, c) =>
              \/ /\ i - 1 \in DOMAIN saveQ' /\ NewestAt(saveQ', i - 1, c)
                 /\ saveQ'[i - 1] = saveQ[i]
              \/ Head(saveQ) = saveQ[i] /\ ~Queued(saveQ', c)
    BY <1>3, <2>1, PopNewest
  <2>4. ASSUME NEW c \in Coords \ Faulty
        PROVE  LastOf(c)'
    <3>1. CASE Queued(saveQ, c)
      <4>1. PICK i \in DOMAIN saveQ :
               NewestAt(saveQ, i, c) /\ lastSaved[c] = WholeFile(saveQ[i].grid)
        BY <1>2, <3>1 DEF LastOf
      <4>2. CASE /\ i - 1 \in DOMAIN saveQ' /\ NewestAt(saveQ', i - 1, c)
                 /\ saveQ'[i - 1] = saveQ[i]
        BY <1>1, <4>1, <4>2 DEF LastOf
      <4>3. CASE Head(saveQ) = saveQ[i] /\ ~Queued(saveQ', c)
        <5>1. saveQ[i].coord = c
          BY <4>1 DEF NewestAt
        <5>2. w \in Carried(c)' /\ saveReq'[w] = saveQ[i]
          BY <2>1, <2>2, <4>3, <5>1
        <5>3. lastSaved'[c] = WholeFile(saveReq'[w].grid)
          BY <1>1, <4>1, <5>2
        <5> QED BY <4>3, <5>2, <5>3 DEF LastOf
      <4> QED BY <2>3, <4>1, <4>2, <4>3
    <3>2. CASE ~Queued(saveQ, c)
      <4>1. file[c] = lastSaved[c]
        BY <1>2, <2>2, <3>2 DEF LastOf, NewestAt, Queued
      <4>2. Head(saveQ) = saveQ[1] /\ 1 \in DOMAIN saveQ
        BY <1>3, <2>1, HeadTailProperties, LenProperties, EmptySeq
      <4>3. Head(saveQ).coord # c
        BY <3>2, <4>2 DEF Queued
      <4> QED BY <1>1, <2>1, <2>2, <2>3, <3>2, <4>1, <4>3 DEF LastOf
    <3> QED BY <3>1, <3>2
  <2> QED BY <1>2, <2>1, <2>4
<1>7. CASE SaveOpen(w)
  <2>1. /\ savePc[w] = "open" /\ savePc'[w] = "write" /\ UNCHANGED <<saveQ, saveReq>>
        /\ file' = [file EXCEPT ![r.coord] = TornFile]
    BY <1>3, <1>7 DEF SaveOpen, SaveStep
  <2>2. \A c : Carried(c)' = Carried(c) /\ (c = r.coord => w \in Carried(c))
    BY <1>2, <2>1 DEF Carried
  <2>3. file'[r.coord].state = "torn"
    BY <1>3, <1>4, <2>1 DEF TornFile
  <2>4. ASSUME NEW c \in Coords \ Faulty
        PROVE  LastOf(c)'
    <3>1. c # r.coord => file'[c] = file[c]
      BY <1>3, <2>1
    <3> QED BY <1>1, <1>2, <2>1, <2>2, <3>1 DEF LastOf
  <2> QED BY <1>2, <2>1, <2>3, <2>4
<1>8. CASE SaveSkip(w)
  <2>1. /\ savePc[w] = "open" /\ savePc'[w] = "settle" /\ UNCHANGED <<saveQ, saveReq, file>>
        /\ r.coord \in Faulty
    BY <1>3, <1>8 DEF SaveSkip, SaveStep
  <2>2. \A c \in Coords \ Faulty : Carried(c)' = {} /\ Carried(c) = {}
    BY <1>2, <2>1 DEF Carried
  <2> QED BY <1>1, <1>2, <2>1, <2>2 DEF LastOf
<1>9. CASE SaveWrite(w)
  <2>1. /\ savePc[w] = "write" /\ savePc'[w] = "settle" /\ UNCHANGED <<saveQ, saveReq>>
    BY <1>3, <1>9 DEF SaveWrite, SaveStep
  <2>2. ~SharedFile(w)
    BY <1>2, <2>1 DEF SharedFile
  <2>3. PICK f \in {WholeFile(r.grid)} \cup (IF r.coord \in Faulty THEN {TornFile} ELSE {}) :
           file' = [file EXCEPT ![r.coord] = f]
    BY <1>9, <2>2 DEF SaveWrite
  <2>4. \A c : Carried(c)' = {} /\ Carried(c) = IF c = r.coord THEN {w} ELSE {}
    BY <1>2, <2>1 DEF Carried
  <2>5. ASSUME NEW c \in Coords \ Faulty
        PROVE  LastOf(c)'
    <3>1. c # r.coord => file'[c] = file[c]
      BY <1>3, <2>3
    <3>2. c = r.coord => file'[c] = WholeFile(r.grid)
      BY <1>3, <2>3
    <3> QED BY <1>1, <1>2, <2>1, <2>4, <3>1, <3>2 DEF LastOf
  <2> QED BY <1>2, <2>1, <2>5
<1> QED BY <1>5, <1>6, <1>7, <1>8, <1>9 DEF SaveWorker

LEMMA NextLastInv == TypeBase /\ LastInv /\ [Next]_vars => LastInv'
<1> SUFFICES ASSUME TypeBase, LastInv, [Next]_vars PROVE LastInv'
  OBVIOUS
<1>1. CASE SavePush
  BY <1>1, SavePushLastInv
<1>2. CASE \E w \in SaveWorkers : SaveWorker(w)
  BY <1>2, SaveWorkerLastInv
<1>3. ASSUME UNCHANGED <<saveQ, savePc, saveReq, file, lastSaved>>,
             phase = "destroyed" => phase' = "destroyed"
      PROVE  LastInv'
  BY <1>3 DEF LastInv, LastOf, Carried
<1>4. CASE \/ \E c \in Coords, p \in Priorities : loadAsync(c, p)
           \/ \E c \in Coords : TakeFuture(c)
           \/ \E c \in Coords, g \in Grids : saveAsync(c, g)
           \/ waitForPendingSaves
           \/ \E w \in LoadWorkers : LoadWorker(w)
           \/ Gone \/ UNCHANGED vars
  <2>1. UNCHANGED <<phase, saveQ, savePc, saveReq, file, lastSaved>>
    BY <1>4 DEF loadAsync, TakeFuture, saveAsync, waitForPendingSaves, WaitStep, LoadWorker,
                LoadCheck, LoadPop, LoadPopNothing, LoadRead, Fulfil, removePendingLoad,
                LoadStep, Gone, vars, saveVars
  <2> QED BY <2>1, <1>3
<1>5. CASE Stop \/ ShutQueues
  BY <1>3, <1>5 DEF Stop, ShutQueues, saveVars
<1>6. CASE JoinAndDestroy
  BY <1>6 DEF JoinAndDestroy, LastInv
<1> QED BY <1>1, <1>2, <1>4, <1>5, <1>6 DEF Next, Callers, Workers, Destructor

LEMMA InitLastInv == Init => LastInv
<1> SUFFICES ASSUME Init PROVE LastInv
  OBVIOUS
<1>1. \A c : ~Queued(saveQ, c) /\ Carried(c) = {}
  BY DEF Init, Queued, Carried
<1> QED BY <1>1 DEF Init, LastInv, LastOf

LEMMA LastInvHolds == Spec => []LastInv
BY InitLastInv, NextLastInv, TypesHold, PTL DEF Spec

(* With one save worker, the file of a chunk whose own files do not fail   *)
(* holds what was saved last as soon as no save is under way.              *)
THEOREM LastSaveWinsHolds == Spec => []LastSaveWins
<1>1. ASSUME TypeBase, LastInv PROVE LastSaveWins
  <2> SUFFICES ASSUME EnableIO, Cardinality(SaveWorkers) = 1, phase # "destroyed", SavesSettled,
                      NEW c \in Coords \ Faulty
               PROVE  file[c] = lastSaved[c]
    BY DEF LastSaveWins
  <2>1. OneSaver
    <3>1. IsFiniteSet(SaveWorkers)
      BY ManagerAssumption DEF ConstantsOK
    <3>2. PICK x : SaveWorkers = {x}
      BY <3>1, FS_Singleton
    <3> QED BY <3>2 DEF OneSaver
  <2>2. LastOf(c)
    BY <1>1, <2>1 DEF LastInv
  <2>3. Carried(c) = {}
    BY DEF SavesSettled, SaveBusy, Carried
  <2>4. DOMAIN saveQ = {}
    BY DEF SavesSettled
  <2> QED BY <2>2, <2>3, <2>4 DEF LastOf
<1> QED BY <1>1, LastInvHolds, TypesHold, PTL

=============================================================================
