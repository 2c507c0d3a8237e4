----------------------------- MODULE ChunkFiles -----------------------------
(***************************************************************************)
(* FileStorageBackend: the two files it keeps of one chunk, the serialized *)
(* grid and its time stamp, on a disk that survives the process.           *)
(*                                                                         *)
(* Its callers are the load and save workers of AsyncChunkManager, which   *)
(* take no lock around it: a load may run beside a save of the same chunk, *)
(* and so may two saves if there are two save workers (never two loads:    *)
(* AsyncChunkManager!OneLoadPerCoord).  A file is truncated when it is     *)
(* opened for writing and holds its new content once it is closed.         *)
(* Different chunks have different directories, so one chunk is enough.    *)
(***************************************************************************)
EXTENDS Integers, FiniteSets

CONSTANTS
    Savers, Loaders,        (* workers that may be at this chunk             *)
    MaxTime,                (* bound: readings of the clock                  *)
    MaxCrashes              (* bound: ends of the process                    *)

ASSUME WorkersAssumption == Savers \cap Loaders = {} /\ Cardinality(Loaders) = 1
ASSUME BoundsAssumption == {MaxTime, MaxCrashes} \subseteq Nat

VARIABLES
    chunk,      (* the .chunk file                                           *)
    stamp,      (* the .timestamp file                                       *)
    clock,      (* getCurrentTimeNs                                          *)
    op,         (* the call each worker is in                                *)
    crashes,    (* external: ends of the process                             *)
    saved,      (* history: the save that closed the chunk file last         *)
    broken,     (* history: a crash or a second writer hit the chunk file    *)
    loads,      (* history: accesses since the stamp was created             *)
    born,       (* history: when the stamp was created                       *)
    raced       (* history: an update of the stamp overlapped another, or    *)
                (*          was given up, since the stamp was created        *)

disk == <<chunk, stamp>>
history == <<saved, broken, loads, born, raced>>
vars == <<disk, clock, op, crashes, history>>

Workers == Savers \cup Loaders
Times == 0 .. MaxTime
Grids == 1 .. MaxTime     (* a grid is named by the time its save began      *)

Absent == [state |-> "absent"]
Torn == [state |-> "torn"]
Whole(g) == [state |-> "whole", grid |-> g]

(* last_accessed_ns is left out: it is written like count and never read. *)
createTimestamp(now, n) ==
    [state |-> "whole", creation |-> now, modified |-> now, count |-> n]

Idle == [at |-> "idle"]

Init ==
    /\ chunk = Absent /\ stamp = Absent
    /\ clock = 0
    /\ op = [w \in Workers |-> Idle]
    /\ crashes = 0
    /\ saved = 0 /\ broken = FALSE
    /\ loads = 0 /\ born = 0 /\ raced = FALSE

Tick == clock < MaxTime /\ clock' = clock + 1

(* A worker that reads or writes the chunk file while w opens or closes it. *)
Disturb(w) ==
    [v \in Workers |-> IF v # w /\ op[v].at \in {"writing", "reading"}
                       THEN [op[v] EXCEPT !.alone = FALSE] ELSE op[v]]
Step(w, r) == op' = [op EXCEPT ![w] = r]

-----------------------------------------------------------------------------
(* The chunk file: save and load, up to the time stamp.                    *)

save(w) ==
    /\ op[w] = Idle
    /\ Tick
    /\ op' = [Disturb(w) EXCEPT ![w] =
                [at |-> "writing", grid |-> clock',
                 alone |-> \A v \in Workers \ {w} : op[v].at # "writing"]]
    /\ chunk' = Torn
    /\ UNCHANGED <<stamp, crashes, history>>

close_chunk_Unflushed(w) ==
    /\ op[w].at = "writing"
    /\ op' = [Disturb(w) EXCEPT ![w] = [at |-> "stamp", kind |-> "save"]]
    /\ saved' = op[w].grid
    /\ broken' = ~op[w].alone
    /\ UNCHANGED <<disk, clock, crashes, loads, born, raced>>

(* Two writers of one file leave the content of the last, or a mixture. *)
close_chunk(w) ==
    /\ op[w].at = "writing"
    /\ op' = [Disturb(w) EXCEPT ![w] = [at |-> "stamp", kind |-> "save"]]
    /\ chunk' \in {Whole(op[w].grid)} \cup (IF op[w].alone THEN {} ELSE {Torn})
    /\ saved' = op[w].grid
    /\ broken' = ~op[w].alone
    /\ UNCHANGED <<stamp, clock, crashes, loads, born, raced>>

load_StampsFirst(w) ==
    /\ op[w] = Idle
    /\ Step(w, [at |-> "stamp", kind |-> "load"])
    /\ UNCHANGED <<disk, clock, crashes, history>>

load(w) ==
    /\ op[w] = Idle
    /\ chunk.state # "absent"
    /\ Step(w, [at |-> "reading", file |-> chunk, alone |-> chunk.state = "whole"])
    /\ UNCHANGED <<disk, clock, crashes, history>>

(* GetHeaderInfo and Deserialize never test the stream: a file cut short   *)
(* or rewritten meanwhile is refused (0), or taken for some grid.          *)
ReadOf(r) == IF r.alone THEN {r.file.grid} ELSE Grids \cup {0}

deserialize(w) ==
    /\ op[w].at = "reading"
    /\ \E g \in ReadOf(op[w]) :
          Step(w, IF g = 0 THEN Idle ELSE [at |-> "stamp", kind |-> "load"])
    /\ UNCHANGED <<disk, clock, crashes, history>>

-----------------------------------------------------------------------------
(* The time stamp: updateModifiedTime as save does it, updateAccessTime.   *)

(* An empty or torn stamp does not parse. *)
loadTimestamp == IF stamp.state = "whole" THEN {stamp} ELSE {}

Updated_SaveRenews(kind, seen, now) ==
    IF seen = {} \/ kind = "save"
    THEN createTimestamp(now, IF kind = "save" THEN 0 ELSE 1)
    ELSE [stamp EXCEPT !.count = @ + 1]

Updated(kind, seen, now) ==
    CASE seen = {}     -> createTimestamp(now, IF kind = "save" THEN 0 ELSE 1)
      [] seen # {} /\ kind = "save" -> [stamp EXCEPT !.modified = now]
      [] seen # {} /\ kind = "load" -> [stamp EXCEPT !.count = @ + 1]

Updating(w) == op[w].at \in {"update", "stamping"}

read_stamp(w) ==
    /\ op[w].at = "stamp"
    /\ Tick
    /\ Step(w, [at |-> "update", new |-> Updated(op[w].kind, loadTimestamp, clock')])
    /\ LET fresh == loadTimestamp = {}
           overlap == \E v \in Workers \ {w} : Updating(v)
       IN  /\ raced' = (overlap \/ (raced /\ ~fresh))
           /\ loads' = (IF fresh THEN 0 ELSE loads) + (IF op[w].kind = "load" THEN 1 ELSE 0)
           /\ born' = IF fresh THEN clock' ELSE born
    /\ UNCHANGED <<disk, crashes, saved, broken>>

open_stamp(w) ==
    /\ op[w].at = "update"
    /\ LET others == {v \in Workers \ {w} : op[v].at = "stamping"}
       IN  op' = [v \in Workers |->
                    CASE v = w        -> [at |-> "stamping", new |-> op[w].new,
                                          alone |-> others = {}]
                      [] v \in others -> [op[v] EXCEPT !.alone = FALSE]
                      [] OTHER        -> op[v]]
    /\ stamp' = Torn
    /\ UNCHANGED <<chunk, clock, crashes, history>>

(* The stamp file does not open: save returns false, load does not mind. *)
stamp_refused(w) ==
    /\ op[w].at = "update"
    /\ Step(w, Idle)
    /\ raced' = TRUE
    /\ UNCHANGED <<disk, clock, crashes, saved, broken, loads, born>>

(* Two writers leave the last stamp, a mixture that does not parse, or the *)
(* last one with a digit of the other's longer count behind its own (0     *)
(* stands for the digit).                                                  *)
close_stamp(w) ==
    /\ op[w].at = "stamping"
    /\ Step(w, Idle)
    /\ stamp' \in {op[w].new} \cup
                  (IF op[w].alone THEN {}
                   ELSE {Torn, [op[w].new EXCEPT !.count = 10 * @]})
    /\ UNCHANGED <<chunk, clock, crashes, history>>

-----------------------------------------------------------------------------
(* The process ends, and another starts on the same directory. *)
crash ==
    /\ crashes < MaxCrashes
    /\ crashes' = crashes + 1
    /\ op' = [w \in Workers |-> Idle]
    /\ broken' = (broken \/ \E w \in Workers : op[w].at = "writing")
    /\ raced' = (raced \/ \E w \in Workers : op[w].at \in {"stamp", "update", "stamping"})
    /\ UNCHANGED <<disk, clock, saved, loads, born>>

Next ==
    \/ \E w \in Savers : save(w) \/ close_chunk(w)
    \/ \E w \in Loaders : load(w) \/ deserialize(w)
    \/ \E w \in Workers : \/ read_stamp(w) \/ open_stamp(w)
                          \/ stamp_refused(w) \/ close_stamp(w)
    \/ crash

Spec == Init /\ [][Next]_vars

-----------------------------------------------------------------------------
(* Properties.                                                             *)

(* Every variable keeps its type. *)
Stamps == [state : {"whole"}, creation : Times, modified : Times,
           count : Nat]
Ops == {Idle}
       \cup [at : {"writing"}, grid : Grids, alone : BOOLEAN]
       \cup [at : {"reading"}, file : {Torn} \cup [state : {"whole"}, grid : Grids],
             alone : BOOLEAN]
       \cup [at : {"stamp"}, kind : {"save", "load"}]
       \cup [at : {"update"}, new : Stamps]
       \cup [at : {"stamping"}, new : Stamps, alone : BOOLEAN]
TypeOK ==
    /\ chunk \in {Absent, Torn} \cup [state : {"whole"}, grid : Grids]
    /\ stamp \in {Absent, Torn} \cup Stamps
    /\ {clock, saved, born} \subseteq Times /\ loads \in Nat /\ crashes \in 0 .. MaxCrashes
    /\ op \in [Workers -> Ops]
    /\ {broken, raced} \subseteq BOOLEAN

(* save writes the grid before the time stamp and load looks for the grid  *)
(* first: wherever the process ends, a stamp is the stamp of a chunk.      *)
StampHasChunk == stamp # Absent => chunk # Absent

(* Only a crash or a second save in the middle of a save leaves a chunk    *)
(* file in doubt, and only until the next save.  Else a load that no save  *)
(* disturbs returns what was saved last, over any number of restarts, and  *)
(* nothing only if nothing was saved.                                      *)
LoadsGiveLastSave ==
    ~broken =>
        /\ \/ \E w \in Savers : op[w].at = "writing"
           \/ chunk = IF saved = 0 THEN Absent ELSE Whole(saved)
        /\ \A w \in Loaders :
              op[w].at = "reading" /\ op[w].alone => ReadOf(op[w]) = {saved}

(* At rest the stamp tells when it was created, how often the chunk was    *)
(* loaded since, and a time of change no earlier than the last save,       *)
(* unless two updates of it overlapped or one was cut off: an update that  *)
(* only overlaps another call's reading or writing of the grid is safe.    *)
StampAccounts ==
    (/\ ~raced /\ stamp.state = "whole"
     /\ \A w \in Workers : ~Updating(w) /\ op[w] # [at |-> "stamp", kind |-> "save"])
    => /\ stamp.creation = born
       /\ stamp.count = loads
       /\ stamp.modified >= saved
=============================================================================
