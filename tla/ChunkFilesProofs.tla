---------------------------- MODULE ChunkFilesProofs ----------------------------
(***************************************************************************)
(* What ChunkFiles promises of a chunk's two files, for any number of save *)
(* workers, any number of crashes and any length of time.                  *)
(***************************************************************************)
EXTENDS ChunkFiles, TLAPS

-----------------------------------------------------------------------------
(* Types.                                                                  *)

Chunks == {Absent, Torn} \cup [state : {"whole"}, grid : Grids]

LEMMA StampTypes ==
    ASSUME TypeOK, NEW now \in Times
    PROVE  /\ \A n \in Nat : createTimestamp(now, n) \in Stamps
           /\ \A k \in {"save", "load"} : Updated(k, loadTimestamp, now) \in Stamps
PROOF
<1>1. \A n \in Nat : createTimestamp(now, n) \in Stamps
  BY DEF createTimestamp, Stamps
<1>2. stamp.state = "whole" => stamp \in Stamps
  BY DEF TypeOK, Absent, Torn
<1>3. CASE stamp.state = "whole"
  <2>1. loadTimestamp # {} /\ stamp \in Stamps
    BY <1>2, <1>3 DEF loadTimestamp
  <2>2. /\ [stamp EXCEPT !.modified = now] \in Stamps
        /\ [stamp EXCEPT !.count = @ + 1] \in Stamps
    BY <2>1 DEF Stamps
  <2>3. \A k \in {"save", "load"} : Updated(k, loadTimestamp, now) \in Stamps
    BY <2>1, <2>2 DEF Updated
  <2> QED BY <1>1, <2>3
<1>4. CASE stamp.state # "whole"
  <2>1. \A k \in {"save", "load"} : Updated(k, loadTimestamp, now) \in Stamps
    BY <1>1, <1>4 DEF Updated, loadTimestamp
  <2> QED BY <1>1, <2>1
<1> QED BY <1>3, <1>4

LEMMA DisturbType ==
    ASSUME op \in [Workers -> Ops], NEW w \in Workers
    PROVE  /\ Disturb(w) \in [Workers -> Ops]
           /\ \A v \in Workers : /\ Disturb(w)[v].at = op[v].at
                                 /\ v # w => (Disturb(w)[v].at \in {"writing", "reading"}
                                                => Disturb(w)[v].alone = FALSE)
                                 /\ op[v].at \notin {"writing", "reading"}
                                      => Disturb(w)[v] = op[v]
PROOF
<1> SUFFICES ASSUME NEW v \in Workers
             PROVE  /\ Disturb(w)[v] \in Ops /\ Disturb(w)[v].at = op[v].at
                    /\ v # w => (Disturb(w)[v].at \in {"writing", "reading"}
                                   => Disturb(w)[v].alone = FALSE)
                    /\ op[v].at \notin {"writing", "reading"} => Disturb(w)[v] = op[v]
  BY DEF Disturb
<1>1. op[v] \in Ops
  OBVIOUS
<1>2. CASE v = w \/ op[v].at \notin {"writing", "reading"}
  BY <1>1, <1>2 DEF Disturb
<1>3. CASE v # w /\ op[v].at = "writing"
  <2>1. op[v] \in [at : {"writing"}, grid : Grids, alone : BOOLEAN]
    BY <1>1, <1>3 DEF Ops, Idle
  <2> QED BY <1>3, <2>1 DEF Disturb, Ops
<1>4. CASE v # w /\ op[v].at = "reading"
  <2>1. op[v] \in [at : {"reading"}, file : {Torn} \cup [state : {"whole"}, grid : Grids],
                   alone : BOOLEAN]
    BY <1>1, <1>4 DEF Ops, Idle
  <2> QED BY <1>4, <2>1 DEF Disturb, Ops
<1> QED BY <1>2, <1>3, <1>4

(* What an operation is made of, by where it is.                           *)
LEMMA OpIs ==
    ASSUME TypeOK, NEW w \in Workers
    PROVE  /\ op[w].at = "writing" => op[w].grid \in Grids /\ op[w].alone \in BOOLEAN
           /\ op[w].at = "reading" =>
                /\ op[w].file \in {Torn} \cup [state : {"whole"}, grid : Grids]
                /\ op[w].alone \in BOOLEAN
           /\ op[w].at = "stamp" => op[w].kind \in {"save", "load"}
           /\ op[w].at \in {"update", "stamping"} => op[w].new \in Stamps
           /\ op[w].at = "stamping" =>
                op[w] \in [at : {"stamping"}, new : Stamps, alone : BOOLEAN]
PROOF
<1>1. op[w] \in Ops
  BY DEF TypeOK
<1> QED BY <1>1 DEF Ops, Idle

LEMMA TypeStep == TypeOK /\ [Next]_vars => TypeOK'
PROOF
<1> SUFFICES ASSUME TypeOK, [Next]_vars
             PROVE  TypeOK'
  OBVIOUS
<1>0. /\ op \in [Workers -> Ops] /\ Savers \subseteq Workers /\ Loaders \subseteq Workers
      /\ chunk \in Chunks
  BY DEF TypeOK, Workers, Chunks
<1>t. Tick => clock' \in Times /\ clock' \in Grids
  BY BoundsAssumption DEF Tick, TypeOK, Times, Grids
<1>1. ASSUME NEW w \in Savers, save(w)
      PROVE  TypeOK'
  <2> DEFINE r == [at |-> "writing", grid |-> clock',
                   alone |-> \A v \in Workers \ {w} : op[v].at # "writing"]
  <2>1. r \in Ops
    BY <1>1, <1>t DEF save, Ops
  <2>2. op' = [Disturb(w) EXCEPT ![w] = r]
    BY <1>1 DEF save
  <2> HIDE DEF r
  <2>3. op' \in [Workers -> Ops]
    BY <1>0, <2>1, <2>2, DisturbType
  <2> QED BY <1>1, <1>t, <2>3 DEF save, TypeOK, history
<1>2. ASSUME NEW w \in Savers, close_chunk(w)
      PROVE  TypeOK'
  <2>1. op[w].grid \in Grids /\ op[w].alone \in BOOLEAN
    BY <1>0, <1>2, OpIs DEF close_chunk
  <2>2. Whole(op[w].grid) \in [state : {"whole"}, grid : Grids] /\ op[w].grid \in Times
    BY <2>1, BoundsAssumption DEF Whole, Grids, Times
  <2>3. [at |-> "stamp", kind |-> "save"] \in Ops
    BY DEF Ops
  <2>4. op' \in [Workers -> Ops]
    BY <1>0, <1>2, <2>3, DisturbType DEF close_chunk
  <2> QED BY <1>2, <2>1, <2>2, <2>4 DEF close_chunk, TypeOK
<1>3. ASSUME NEW w \in Loaders, load(w)
      PROVE  TypeOK'
  <2>1. chunk \in {Torn} \cup [state : {"whole"}, grid : Grids]
    BY <1>0, <1>3 DEF load, Absent, Chunks
  <2>2. [at |-> "reading", file |-> chunk, alone |-> chunk.state = "whole"] \in Ops
    BY <2>1 DEF Ops
  <2> QED BY <1>0, <1>3, <2>2 DEF load, TypeOK, disk, history, Step
<1>4. ASSUME NEW w \in Loaders, deserialize(w)
      PROVE  TypeOK'
  <2>1. Idle \in Ops /\ [at |-> "stamp", kind |-> "load"] \in Ops
    BY DEF Ops
  <2> QED BY <1>0, <1>4, <2>1 DEF deserialize, TypeOK, disk, history, Step
<1>5. ASSUME NEW w \in Workers, read_stamp(w)
      PROVE  TypeOK'
  <2>1. clock' \in Times /\ op[w].kind \in {"save", "load"}
    BY <1>5, <1>t, OpIs DEF read_stamp
  <2>2. Updated(op[w].kind, loadTimestamp, clock') \in Stamps
    BY <2>1, StampTypes
  <2>3. [at |-> "update", new |-> Updated(op[w].kind, loadTimestamp, clock')] \in Ops
    BY <2>2 DEF Ops
  <2>4. raced' \in BOOLEAN /\ loads' \in Nat /\ born' \in Times
    BY <1>5, <2>1 DEF read_stamp, TypeOK
  <2>5. op' \in [Workers -> Ops]
    BY <1>0, <1>5, <2>3 DEF read_stamp, Step
  <2> QED BY <1>5, <2>1, <2>4, <2>5 DEF read_stamp, TypeOK, disk
<1>6. ASSUME NEW w \in Workers, open_stamp(w)
      PROVE  TypeOK'
  <2>1. op[w].new \in Stamps
    BY <1>6, OpIs DEF open_stamp
  <2>2. \A b \in BOOLEAN : [at |-> "stamping", new |-> op[w].new, alone |-> b] \in Ops
    BY <2>1 DEF Ops
  <2>3. \A v \in Workers : op[v].at = "stamping" => [op[v] EXCEPT !.alone = FALSE] \in Ops
    BY OpIs DEF Ops
  <2>4. op' \in [Workers -> Ops]
    <3> SUFFICES ASSUME NEW v \in Workers
                 PROVE  op'[v] \in Ops
      BY <1>6 DEF open_stamp
    <3>1. op[v] \in Ops
      BY <1>0
    <3>2. CASE v = w
      BY <1>6, <2>2, <3>2 DEF open_stamp
    <3>3. CASE v # w
      BY <1>6, <2>3, <3>1, <3>3 DEF open_stamp
    <3> QED BY <3>2, <3>3
  <2> QED BY <1>6, <2>4 DEF open_stamp, TypeOK, history
<1>7. ASSUME NEW w \in Workers, stamp_refused(w)
      PROVE  TypeOK'
  <2>1. Idle \in Ops
    BY DEF Ops
  <2> QED BY <1>0, <1>7, <2>1 DEF stamp_refused, TypeOK, disk, Step
<1>8. ASSUME NEW w \in Workers, close_stamp(w)
      PROVE  TypeOK'
  <2>1. Idle \in Ops /\ op[w].new \in Stamps
    BY <1>8, OpIs DEF close_stamp, Ops
  <2>2. [op[w].new EXCEPT !.count = 10 * @] \in Stamps
    BY <2>1 DEF Stamps
  <2>3. stamp' \in {Absent, Torn} \cup Stamps
    BY <1>8, <2>1, <2>2 DEF close_stamp
  <2> QED BY <1>0, <1>8, <2>1, <2>3 DEF close_stamp, TypeOK, history, Step
<1>9. CASE crash
  <2>1. Idle \in Ops
    BY DEF Ops
  <2> QED BY <1>9, <2>1, BoundsAssumption DEF crash, TypeOK, disk
<1>10. CASE UNCHANGED vars
  BY <1>10 DEF vars, disk, history, TypeOK
<1> QED BY <1>1, <1>2, <1>3, <1>4, <1>5, <1>6, <1>7, <1>8, <1>9, <1>10 DEF Next

LEMMA TypeInit == Init => TypeOK
PROOF
<1> SUFFICES ASSUME Init
             PROVE  TypeOK
  OBVIOUS
<1>1. op \in [Workers -> Ops]
  BY DEF Init, Ops
<1>2. 0 \in Times /\ 0 \in 0 .. MaxCrashes
  BY BoundsAssumption DEF Times
<1> QED BY <1>1, <1>2 DEF Init, TypeOK

(* Every variable keeps its type: a clock within its bound, a file that is *)
(* absent, torn or whole, and a call with all that its step needs.         *)
THEOREM TypeCorrect == Spec => []TypeOK
PROOF
<1> QED BY TypeInit, TypeStep, PTL DEF Spec

-----------------------------------------------------------------------------
(* A stamp is the stamp of a chunk.  Whoever is about to write a stamp has *)
(* the chunk's file before it, and the file is never removed.              *)

FileFirst == \A w \in Workers : op[w].at # "idle" => chunk # Absent
OrderInv == TypeOK /\ StampHasChunk /\ FileFirst

LEMMA OrderStep == OrderInv /\ [Next]_vars => OrderInv'
PROOF
<1> SUFFICES ASSUME OrderInv, [Next]_vars
             PROVE  OrderInv'
  OBVIOUS
<1>1. TypeOK /\ TypeOK'
  BY TypeStep DEF OrderInv
<1>2. \A g : Whole(g) # Absent
  BY DEF Whole, Absent
<1>3. Torn # Absent /\ Savers \subseteq Workers /\ Loaders \subseteq Workers
  BY DEF Torn, Absent, Workers
<1>4. ASSUME chunk' # Absent
      PROVE  OrderInv'
  BY <1>1, <1>4 DEF OrderInv, StampHasChunk, FileFirst
<1>5. ASSUME NEW w \in Workers, op[w].at # "idle", chunk' = chunk
      PROVE  OrderInv'
  BY <1>4, <1>5 DEF OrderInv, FileFirst
<1>6. ASSUME NEW w \in Savers, save(w) \/ close_chunk(w)
      PROVE  OrderInv'
  BY <1>2, <1>3, <1>4, <1>6 DEF save, close_chunk
<1>7. ASSUME NEW w \in Loaders, load(w)
      PROVE  OrderInv'
  BY <1>4, <1>7 DEF load, Absent, disk
<1>8. ASSUME NEW w \in Workers,
             \/ deserialize(w) \/ read_stamp(w) \/ open_stamp(w)
             \/ stamp_refused(w) \/ close_stamp(w)
      PROVE  OrderInv'
  BY <1>5, <1>8 DEF deserialize, read_stamp, open_stamp, stamp_refused, close_stamp, disk
<1>9. CASE crash
  BY <1>1, <1>9 DEF crash, OrderInv, StampHasChunk, FileFirst, disk, Idle
<1>10. CASE UNCHANGED vars
  BY <1>1, <1>10 DEF vars, disk, OrderInv, StampHasChunk, FileFirst
<1> QED BY <1>3, <1>6, <1>7, <1>8, <1>9, <1>10 DEF Next

(* save writes the grid before the stamp and load looks for the grid       *)
(* first, so that a crash anywhere leaves no stamp without a chunk.        *)
THEOREM StampHasChunkHolds == Spec => []StampHasChunk
PROOF
<1>1. Init => OrderInv
  BY TypeInit DEF Init, OrderInv, StampHasChunk, FileFirst, Idle
<1>2. OrderInv => StampHasChunk
  BY DEF OrderInv
<1> QED BY <1>1, <1>2, OrderStep, PTL DEF Spec

-----------------------------------------------------------------------------
(* What a load finds.  A writer that is alone is the only one, and while   *)
(* nothing is in doubt a file with a writer is torn; a reader that nothing *)
(* disturbed has read a whole file, and the last one if none is in doubt.  *)

Writing(w) == op[w].at = "writing"
OneAlone == \A v, w \in Workers : Writing(v) /\ Writing(w) /\ op[v].alone => v = w
OnlySaversWrite == \A w \in Workers : Writing(w) => w \in Savers
TornWhile == ~broken /\ (\E w \in Workers : Writing(w)) => chunk = Torn
LastOnDisk ==
    ~broken => \/ \E w \in Workers : Writing(w)
               \/ chunk = IF saved = 0 THEN Absent ELSE Whole(saved)
ReadersSee ==
    \A w \in Workers :
        op[w].at = "reading" /\ op[w].alone =>
            op[w].file.state = "whole" /\ (~broken => op[w].file.grid = saved)
ReadInv ==
    TypeOK /\ OneAlone /\ OnlySaversWrite /\ TornWhile /\ LastOnDisk /\ ReadersSee

LEMMA SaveReads ==
    ASSUME ReadInv, TypeOK', NEW w \in Savers, save(w)
    PROVE  ReadInv'
PROOF
<1> DEFINE r == [at |-> "writing", grid |-> clock',
                 alone |-> \A v \in Workers \ {w} : op[v].at # "writing"]
<1>1. w \in Workers /\ op \in [Workers -> Ops]
  BY DEF Workers, ReadInv, TypeOK
<1>2. op' = [Disturb(w) EXCEPT ![w] = r] /\ chunk' = Torn /\ UNCHANGED <<saved, broken>>
  BY DEF save, history
<1>3. op'[w] = r /\ \A v \in Workers \ {w} : op'[v] = Disturb(w)[v]
  BY <1>1, <1>2, DisturbType
<1>4. \A v \in Workers \ {w} :
         /\ op'[v].at = op[v].at
         /\ op[v].at \in {"writing", "reading"} => op'[v].alone = FALSE
  <2>1. \A v \in Workers \ {w} :
           /\ Disturb(w)[v].at = op[v].at
           /\ Disturb(w)[v].at \in {"writing", "reading"} => Disturb(w)[v].alone = FALSE
    BY <1>1, DisturbType
  <2> QED BY <1>3, <2>1
<1>5. op'[w].at = "writing" /\ (op'[w].alone => \A v \in Workers \ {w} : op[v].at # "writing")
  BY <1>3
<1>6. OneAlone' /\ OnlySaversWrite'
  BY <1>4, <1>5 DEF OneAlone, OnlySaversWrite, Writing, ReadInv
<1>7. TornWhile' /\ LastOnDisk'
  BY <1>1, <1>2, <1>5 DEF TornWhile, LastOnDisk, Writing
<1>8. ReadersSee'
  BY <1>4, <1>5 DEF ReadersSee
<1> QED BY <1>6, <1>7, <1>8 DEF ReadInv

LEMMA CloseReads ==
    ASSUME ReadInv, TypeOK', NEW w \in Savers, close_chunk(w)
    PROVE  ReadInv'
PROOF
<1> DEFINE r == [at |-> "stamp", kind |-> "save"]
<1>1. w \in Workers /\ op \in [Workers -> Ops] /\ Writing(w)
  BY DEF Workers, ReadInv, TypeOK, close_chunk, Writing
<1>2. op' = [Disturb(w) EXCEPT ![w] = r] /\ saved' = op[w].grid /\ broken' = ~op[w].alone
  BY DEF close_chunk
<1>3. op'[w] = r /\ \A v \in Workers \ {w} : op'[v] = Disturb(w)[v]
  BY <1>1, <1>2, DisturbType
<1>4. \A v \in Workers \ {w} :
         /\ op'[v].at = op[v].at
         /\ op[v].at \in {"writing", "reading"} => op'[v].alone = FALSE
  <2>1. \A v \in Workers \ {w} :
           /\ Disturb(w)[v].at = op[v].at
           /\ Disturb(w)[v].at \in {"writing", "reading"} => Disturb(w)[v].alone = FALSE
    BY <1>1, DisturbType
  <2> QED BY <1>3, <2>1
<1>5. op'[w].at = "stamp"
  BY <1>3
<1>6. OneAlone' /\ OnlySaversWrite'
  BY <1>4, <1>5 DEF OneAlone, OnlySaversWrite, Writing, ReadInv
<1>7. ReadersSee'
  BY <1>4, <1>5 DEF ReadersSee
<1>8. op[w].alone \in BOOLEAN /\ op[w].grid \in Grids
  BY <1>1, OpIs DEF ReadInv, Writing
<1>9. CASE op[w].alone
  <2>1. \A v \in Workers : op'[v].at # "writing"
    BY <1>1, <1>4, <1>5, <1>9 DEF ReadInv, OneAlone, Writing
  <2>2. chunk' = Whole(saved') /\ saved' # 0
    BY <1>2, <1>8, <1>9 DEF close_chunk, Grids
  <2>3. TornWhile' /\ LastOnDisk'
    BY <2>1, <2>2 DEF TornWhile, LastOnDisk, Writing
  <2> QED BY <1>6, <1>7, <2>3 DEF ReadInv
<1>10. CASE ~op[w].alone
  <2>1. broken'
    BY <1>2, <1>10
  <2>2. TornWhile' /\ LastOnDisk'
    BY <2>1 DEF TornWhile, LastOnDisk
  <2> QED BY <1>6, <1>7, <2>2 DEF ReadInv
<1> QED BY <1>8, <1>9, <1>10

LEMMA LoadReads ==
    ASSUME ReadInv, TypeOK', NEW w \in Loaders, load(w)
    PROVE  ReadInv'
PROOF
<1> DEFINE r == [at |-> "reading", file |-> chunk, alone |-> chunk.state = "whole"]
<1>1. w \in Workers /\ op \in [Workers -> Ops]
  BY DEF Workers, ReadInv, TypeOK
<1>2. op[w].at = "idle" /\ op' = [op EXCEPT ![w] = r] /\ UNCHANGED <<chunk, saved, broken>>
  BY DEF load, Idle, Step, disk, history
<1>3. op'[w] = r /\ \A v \in Workers \ {w} : op'[v] = op[v]
  BY <1>1, <1>2
<1>4. \A v \in Workers : Writing(v)' <=> Writing(v)
  BY <1>2, <1>3 DEF Writing
<1>5. OneAlone' /\ OnlySaversWrite' /\ TornWhile' /\ LastOnDisk'
  BY <1>2, <1>3, <1>4
     DEF ReadInv, OneAlone, OnlySaversWrite, TornWhile, LastOnDisk, Writing
<1>6. ASSUME chunk.state = "whole", ~broken
      PROVE  chunk.grid = saved
  <2>1. chunk # Torn /\ chunk # Absent
    BY <1>6 DEF Torn, Absent
  <2>2. chunk = Whole(saved)
    BY <1>6, <2>1 DEF ReadInv, TornWhile, LastOnDisk
  <2> QED BY <2>2 DEF Whole
<1>7. ReadersSee'
  <2>1. op'[w].file = chunk /\ (op'[w].alone => chunk.state = "whole")
    <3>1. r.file = chunk /\ r.alone = (chunk.state = "whole")
      BY Zenon
    <3> HIDE DEF r
    <3>2. op'[w].file = r.file /\ op'[w].alone = r.alone
      BY <1>3
    <3>3. op'[w].alone = (chunk.state = "whole")
      BY <3>1, <3>2, Zenon
    <3> QED BY <3>1, <3>2, <3>3
  <2> HIDE DEF r
  <2> QED BY <1>2, <1>3, <1>6, <2>1 DEF ReadInv, ReadersSee
<1> QED BY <1>5, <1>7 DEF ReadInv

(* The steps on the stamp, and the end of a load.                          *)
LEMMA OtherReads ==
    ASSUME ReadInv, TypeOK', UNCHANGED <<chunk, saved, broken>>,
           \A v \in Workers :
              \/ op'[v] = op[v]
              \/ op[v].at \notin {"writing"} /\ op'[v].at \notin {"writing", "reading"}
    PROVE  ReadInv'
PROOF
<1>1. \A v \in Workers : Writing(v)' <=> Writing(v)
  BY DEF Writing
<1>2. \A v \in Workers : Writing(v)' => op'[v] = op[v]
  BY DEF Writing
<1>3. OneAlone' /\ OnlySaversWrite' /\ TornWhile' /\ LastOnDisk'
  BY <1>1, <1>2 DEF ReadInv, OneAlone, OnlySaversWrite, TornWhile, LastOnDisk
<1>4. ReadersSee'
  BY DEF ReadInv, ReadersSee
<1> QED BY <1>3, <1>4 DEF ReadInv

LEMMA ReadStep == ReadInv /\ [Next]_vars => ReadInv'
PROOF
<1> SUFFICES ASSUME ReadInv, [Next]_vars
             PROVE  ReadInv'
  OBVIOUS
<1>1. TypeOK' /\ op \in [Workers -> Ops] /\ Loaders \subseteq Workers
  BY TypeStep DEF ReadInv, TypeOK, Workers
<1>2. ASSUME NEW w \in Loaders, deserialize(w)
      PROVE  ReadInv'
  BY <1>1, <1>2, OtherReads DEF deserialize, Step, disk, history, Idle
<1>3. ASSUME NEW w \in Workers, read_stamp(w)
      PROVE  ReadInv'
  BY <1>1, <1>3, OtherReads DEF read_stamp, Step, disk
<1>4. ASSUME NEW w \in Workers, open_stamp(w)
      PROVE  ReadInv'
  <2>1. \A v \in Workers :
           op'[v] = op[v] \/ (op[v].at # "writing" /\ op'[v].at = "stamping")
    <3> SUFFICES ASSUME NEW v \in Workers
                 PROVE  op'[v] = op[v] \/ (op[v].at # "writing" /\ op'[v].at = "stamping")
      OBVIOUS
    <3>1. CASE v = w
      BY <1>4, <3>1 DEF open_stamp
    <3>2. CASE v # w /\ op[v].at = "stamping"
      <4>1. op[v] \in [at : {"stamping"}, new : Stamps, alone : BOOLEAN]
        BY <3>2, OpIs DEF ReadInv
      <4>2. op'[v] = [op[v] EXCEPT !.alone = FALSE]
        BY <1>4, <3>2 DEF open_stamp
      <4> QED BY <4>1, <4>2
    <3>3. CASE v # w /\ op[v].at # "stamping"
      BY <1>4, <3>3 DEF open_stamp
    <3> QED BY <3>1, <3>2, <3>3
  <2> QED BY <1>1, <1>4, <2>1, OtherReads DEF open_stamp, history
<1>5. ASSUME NEW w \in Workers, stamp_refused(w)
      PROVE  ReadInv'
  BY <1>1, <1>5, OtherReads DEF stamp_refused, Step, disk, Idle
<1>6. ASSUME NEW w \in Workers, close_stamp(w)
      PROVE  ReadInv'
  BY <1>1, <1>6, OtherReads DEF close_stamp, Step, history, Idle
<1>7. CASE crash
  <2>1. \A w \in Workers : op'[w].at = "idle"
    BY <1>7 DEF crash, Idle
  <2>2. OneAlone' /\ OnlySaversWrite' /\ TornWhile' /\ ReadersSee'
    BY <2>1 DEF OneAlone, OnlySaversWrite, TornWhile, ReadersSee, Writing
  <2>3. LastOnDisk'
    BY <1>7 DEF crash, ReadInv, LastOnDisk, Writing, disk
  <2> QED BY <1>1, <2>2, <2>3 DEF ReadInv
<1>8. CASE UNCHANGED vars
  BY <1>1, <1>8, OtherReads DEF vars, disk, history
<1> QED BY <1>1, <1>2, <1>3, <1>4, <1>5, <1>6, <1>7, <1>8, SaveReads, CloseReads, LoadReads
        DEF Next

(* A load that no save disturbs returns what was saved last, over any      *)
(* number of restarts, unless a crash or a second save broke into a save.  *)
THEOREM LoadsGiveLastSaveHolds == Spec => []LoadsGiveLastSave
PROOF
<1>1. Init => ReadInv
  BY TypeInit DEF Init, ReadInv, OneAlone, OnlySaversWrite, TornWhile, LastOnDisk,
                  ReadersSee, Writing, Idle
<1>2. ReadInv => LoadsGiveLastSave
  BY DEF ReadInv, LoadsGiveLastSave, LastOnDisk, ReadersSee, OnlySaversWrite, Writing,
         ReadOf, Workers
<1> QED BY <1>1, <1>2, ReadStep, PTL DEF Spec

-----------------------------------------------------------------------------
(* What the stamp tells.  As long as no update overlapped another since    *)
(* the stamp was created, there is one at most, and it holds the account   *)
(* that the stamp file holds before and after it.  The time of change may  *)
(* lag behind a save that has yet to update the stamp.                     *)

ClockInv == saved <= clock /\ \A w \in Workers : Writing(w) => op[w].grid <= clock
SaveWaits == \E w \in Workers : op[w] = [at |-> "stamp", kind |-> "save"]
Accounts(r) == /\ r.creation = born /\ r.count = loads
               /\ r.modified >= saved \/ SaveWaits
StampInv ==
    ~raced =>
        /\ \A v, w \in Workers : Updating(v) /\ Updating(w) => v = w
        /\ \A w \in Workers :
              Updating(w) => Accounts(op[w].new) /\ (op[w].at = "stamping" => op[w].alone)
        /\ stamp.state = "whole" /\ (\A w \in Workers : ~Updating(w)) => Accounts(stamp)
AccountInv == TypeOK /\ ClockInv /\ StampInv

LEMMA ClockStays ==
    ASSUME TypeOK, TypeOK', ClockInv, clock <= clock',
           saved' = saved \/ \E w \in Workers : Writing(w) /\ saved' = op[w].grid,
           \A v \in Workers : Writing(v)' =>
              \/ Writing(v) /\ op'[v].grid = op[v].grid
              \/ op'[v].grid = clock'
    PROVE  ClockInv'
PROOF
<1>1. clock \in Int /\ clock' \in Int /\ saved \in Int
  BY DEF TypeOK, Times
<1>2. \A w \in Workers : Writing(w) => op[w].grid \in Int
  BY OpIs DEF Writing, Grids
<1>3. saved' <= clock'
  BY <1>1, <1>2 DEF ClockInv
<1>4. \A w \in Workers : Writing(w)' => op'[w].grid <= clock'
  BY <1>1, <1>2 DEF ClockInv
<1> QED BY <1>3, <1>4 DEF ClockInv

(* The chunk file is opened or closed: the other calls stay where they are, *)
(* with what they write.                                                   *)
LEMMA DisturbKeeps ==
    ASSUME TypeOK, NEW w \in Workers, NEW v \in Workers \ {w}, op'[v] = Disturb(w)[v]
    PROVE  /\ op'[v].at = op[v].at
           /\ op[v].at \notin {"writing", "reading"} => op'[v] = op[v]
           /\ Writing(v)' => Writing(v) /\ op'[v].grid = op[v].grid
PROOF
<1>1. op \in [Workers -> Ops]
  BY DEF TypeOK
<1>2. /\ op'[v].at = op[v].at
      /\ op[v].at \notin {"writing", "reading"} => op'[v] = op[v]
  BY <1>1, DisturbType
<1>3. ASSUME Writing(v) PROVE op'[v].grid = op[v].grid
  <2>1. op[v] \in [at : {"writing"}, grid : Grids, alone : BOOLEAN]
    BY <1>1, <1>3 DEF Writing, Ops, Idle
  <2>2. op'[v] = [op[v] EXCEPT !.alone = FALSE]
    BY <1>3 DEF Disturb, Writing
  <2> QED BY <2>1, <2>2
<1> QED BY <1>2, <1>3 DEF Writing

(* A step that leaves the stamp and its updates alone leaves the account;  *)
(* what it saves, it has yet to account for.                               *)
LEMMA AccountStays ==
    ASSUME StampInv, UNCHANGED <<stamp, loads, born, raced>>,
           \A v \in Workers : Updating(v) \/ Updating(v)' => op'[v] = op[v],
           SaveWaits' \/ (saved' = saved /\ ~SaveWaits)
    PROVE  StampInv'
PROOF
<1>1. \A v \in Workers : Updating(v)' <=> Updating(v)
  BY DEF Updating
<1>2. \A r : Accounts(r) => Accounts(r)'
  BY DEF Accounts
<1> QED BY <1>1, <1>2 DEF StampInv, Updating

LEMMA StartAccounts ==
    ASSUME AccountInv, NEW w \in Workers, read_stamp(w), TypeOK'
    PROVE  StampInv'
PROOF
<1> DEFINE now == clock'
           fresh == loadTimestamp = {}
           k == op[w].kind
<1> SUFFICES ASSUME ~raced'
             PROVE  StampInv'
  BY DEF StampInv
<1>0. PICK new : new = Updated(k, loadTimestamp, now)
  OBVIOUS
<1> DEFINE r == [at |-> "update", new |-> new]
<1>1. /\ op[w].at = "stamp" /\ op[w].kind \in {"save", "load"} /\ op \in [Workers -> Ops]
      /\ clock \in Int /\ saved \in Int /\ loads \in Nat /\ saved <= clock
  BY OpIs DEF read_stamp, AccountInv, TypeOK, ClockInv, Times
<1>2. now = clock + 1 /\ op' = [op EXCEPT ![w] = r] /\ UNCHANGED <<stamp, saved>>
  BY <1>0 DEF read_stamp, Tick, Step, disk
<1>3. /\ loads' = (IF fresh THEN 0 ELSE loads) + (IF k = "load" THEN 1 ELSE 0)
      /\ born' = IF fresh THEN now ELSE born
      /\ \A v \in Workers \ {w} : ~Updating(v)
      /\ fresh \/ ~raced
  BY DEF read_stamp
<1>4. op'[w] = r /\ \A v \in Workers \ {w} : op'[v] = op[v]
  BY <1>1, <1>2
<1>5. op'[w].at = "update" /\ op'[w].new = new
  BY <1>4
<1>6. \A v \in Workers : Updating(v)' <=> v = w
  BY <1>3, <1>4, <1>5 DEF Updating
<1>7. Accounts(new)'
  <2>1. now >= saved
    BY <1>1, <1>2
  <2>2. CASE fresh
    <3>1. new = createTimestamp(now, IF k = "save" THEN 0 ELSE 1)
      BY <1>0, <2>2 DEF Updated
    <3>2. new.creation = now /\ new.modified = now /\ new.count = IF k = "save" THEN 0 ELSE 1
      BY <3>1 DEF createTimestamp
    <3>3. loads' = new.count
      BY <1>1, <1>3, <2>2, <3>2
    <3> QED BY <1>2, <1>3, <2>1, <2>2, <3>2, <3>3 DEF Accounts
  <2>3. CASE ~fresh
    <3>1. stamp.state = "whole" /\ stamp \in Stamps
      BY <2>3 DEF loadTimestamp, AccountInv, TypeOK, Absent, Torn
    <3>2. \A v \in Workers : ~Updating(v)
      BY <1>1, <1>3 DEF Updating
    <3>3. Accounts(stamp)
      BY <1>3, <2>3, <3>1, <3>2 DEF AccountInv, StampInv
    <3>4. CASE k = "save"
      <4>1. new = [stamp EXCEPT !.modified = now]
        BY <1>0, <2>3, <3>4 DEF Updated
      <4>2. new.creation = stamp.creation /\ new.count = stamp.count /\ new.modified = now
        BY <3>1, <4>1 DEF Stamps
      <4> QED BY <1>1, <1>2, <1>3, <2>1, <2>3, <3>3, <3>4, <4>2 DEF Accounts
    <3>5. CASE k = "load"
      <4>1. new = [stamp EXCEPT !.count = @ + 1]
        BY <1>0, <2>3, <3>5 DEF Updated
      <4>2. /\ new.creation = stamp.creation /\ new.count = stamp.count + 1
            /\ new.modified = stamp.modified
        BY <3>1, <4>1 DEF Stamps
      <4>3. ASSUME SaveWaits PROVE SaveWaits'
        <5>1. PICK v \in Workers : op[v] = [at |-> "stamp", kind |-> "save"]
          BY <4>3 DEF SaveWaits
        <5>2. v # w
          BY <3>5, <5>1
        <5> QED BY <1>4, <5>1, <5>2 DEF SaveWaits
      <4> QED BY <1>2, <1>3, <2>3, <3>3, <3>5, <4>2, <4>3 DEF Accounts
    <3> QED BY <1>1, <3>4, <3>5
  <2> QED BY <2>2, <2>3
<1> QED BY <1>5, <1>6, <1>7 DEF StampInv

LEMMA OpenAccounts ==
    ASSUME AccountInv, NEW w \in Workers, open_stamp(w)
    PROVE  StampInv'
PROOF
<1> SUFFICES ASSUME ~raced'
             PROVE  StampInv'
  BY DEF StampInv
<1>1. op[w].at = "update" /\ op \in [Workers -> Ops] /\ ~raced
  BY DEF open_stamp, AccountInv, TypeOK, history
<1>2. \A v \in Workers \ {w} : ~Updating(v)
  BY <1>1 DEF AccountInv, StampInv, Updating
<1>3. {v \in Workers \ {w} : op[v].at = "stamping"} = {}
  BY <1>2 DEF Updating
<1>4. /\ op'[w] = [at |-> "stamping", new |-> op[w].new, alone |-> TRUE]
      /\ \A v \in Workers \ {w} : op'[v] = op[v]
  BY <1>3 DEF open_stamp
<1>5. op'[w].at = "stamping" /\ op'[w].new = op[w].new /\ op'[w].alone
  BY <1>4
<1>6. UNCHANGED <<saved, loads, born>>
  BY DEF open_stamp, history
<1>7. SaveWaits => SaveWaits'
  <2>1. op[w] # [at |-> "stamp", kind |-> "save"]
    BY <1>1
  <2> QED BY <1>4, <2>1 DEF SaveWaits
<1>8. Accounts(op[w].new)
  BY <1>1 DEF AccountInv, StampInv, Updating
<1>9. Accounts(op[w].new)'
  <2> DEFINE r == op[w].new
  <2>1. /\ r.creation = born /\ r.count = loads
        /\ r.modified >= saved \/ SaveWaits
    BY <1>8 DEF Accounts
  <2> QED BY <1>5, <1>6, <1>7, <2>1 DEF Accounts
<1> QED BY <1>2, <1>4, <1>5, <1>9 DEF StampInv, Updating

LEMMA CloseAccounts ==
    ASSUME AccountInv, NEW w \in Workers, close_stamp(w)
    PROVE  StampInv'
PROOF
<1> SUFFICES ASSUME ~raced'
             PROVE  StampInv'
  BY DEF StampInv
<1>1. op[w].at = "stamping" /\ op \in [Workers -> Ops] /\ ~raced
  BY DEF close_stamp, AccountInv, TypeOK, history
<1>2. op'[w] = Idle /\ \A v \in Workers \ {w} : op'[v] = op[v]
  BY <1>1 DEF close_stamp, Step
<1>3. \A v \in Workers : ~Updating(v)'
  <2>1. \A v \in Workers \ {w} : ~Updating(v)
    BY <1>1 DEF AccountInv, StampInv, Updating
  <2> QED BY <1>2, <2>1 DEF Updating, Idle
<1>4. Accounts(op[w].new) /\ op[w].alone
  BY <1>1 DEF AccountInv, StampInv, Updating
<1>5. stamp' = op[w].new /\ UNCHANGED <<saved, loads, born>>
  BY <1>4 DEF close_stamp, history
<1>6. SaveWaits => SaveWaits'
  <2>1. op[w] # [at |-> "stamp", kind |-> "save"]
    BY <1>1
  <2> QED BY <1>2, <2>1 DEF SaveWaits
<1>7. Accounts(stamp)'
  BY <1>4, <1>5, <1>6 DEF Accounts
<1> QED BY <1>3, <1>7 DEF StampInv

LEMMA AccountStep == AccountInv /\ [Next]_vars => AccountInv'
PROOF
<1> SUFFICES ASSUME AccountInv, [Next]_vars
             PROVE  AccountInv'
  OBVIOUS
<1>1. /\ TypeOK /\ TypeOK' /\ ClockInv /\ StampInv /\ op \in [Workers -> Ops]
      /\ Savers \subseteq Workers /\ Loaders \subseteq Workers /\ clock \in Int
  BY TypeStep DEF AccountInv, TypeOK, Workers, Times
<1>2. ASSUME NEW w \in Savers, save(w)
      PROVE  AccountInv'
  <2> DEFINE r == [at |-> "writing", grid |-> clock',
                   alone |-> \A v \in Workers \ {w} : op[v].at # "writing"]
  <2>1. op' = [Disturb(w) EXCEPT ![w] = r] /\ clock' = clock + 1 /\ op[w] = Idle
    BY <1>2 DEF save, Tick
  <2>2. op'[w] = r /\ \A v \in Workers \ {w} : op'[v] = Disturb(w)[v]
    BY <1>1, <2>1, DisturbType
  <2>3. op'[w].at = "writing" /\ op'[w].grid = clock'
    BY <2>2
  <2>4. ASSUME NEW v \in Workers \ {w}
        PROVE  /\ Writing(v)' => Writing(v) /\ op'[v].grid = op[v].grid
               /\ op[v].at \notin {"writing", "reading"} => op'[v] = op[v]
               /\ op'[v].at = op[v].at
    BY <1>1, <2>2, DisturbKeeps
  <2> HIDE DEF r
  <2>5. UNCHANGED <<stamp, saved, loads, born, raced>>
    BY <1>2 DEF save, history
  <2>6. ClockInv'
    BY <1>1, <2>1, <2>3, <2>4, <2>5, ClockStays
  <2>7. \A v \in Workers : Updating(v) \/ Updating(v)' => op'[v] = op[v]
    BY <2>1, <2>3, <2>4 DEF Updating, Idle
  <2>8. SaveWaits' \/ (saved' = saved /\ ~SaveWaits)
    BY <2>1, <2>4, <2>5 DEF SaveWaits, Idle
  <2> QED BY <1>1, <2>5, <2>6, <2>7, <2>8, AccountStays DEF AccountInv
<1>3. ASSUME NEW w \in Savers, close_chunk(w)
      PROVE  AccountInv'
  <2> DEFINE r == [at |-> "stamp", kind |-> "save"]
  <2>1. op' = [Disturb(w) EXCEPT ![w] = r] /\ Writing(w) /\ saved' = op[w].grid
    BY <1>3 DEF close_chunk, Writing
  <2>2. op'[w] = r /\ \A v \in Workers \ {w} : op'[v] = Disturb(w)[v]
    BY <1>1, <2>1, DisturbType
  <2>3. ASSUME NEW v \in Workers \ {w}
        PROVE  /\ Writing(v)' => Writing(v) /\ op'[v].grid = op[v].grid
               /\ op[v].at \notin {"writing", "reading"} => op'[v] = op[v]
               /\ op'[v].at = op[v].at
    BY <1>1, <2>2, DisturbKeeps
  <2>4. UNCHANGED <<stamp, clock, loads, born, raced>>
    BY <1>3 DEF close_chunk
  <2>5. op'[w].at = "stamp" /\ SaveWaits'
    BY <1>1, <2>2 DEF SaveWaits
  <2>6. ClockInv'
    BY <1>1, <2>1, <2>3, <2>4, <2>5, ClockStays DEF Writing
  <2>7. \A v \in Workers : Updating(v) \/ Updating(v)' => op'[v] = op[v]
    BY <2>1, <2>3, <2>5 DEF Updating, Writing
  <2> QED BY <1>1, <2>4, <2>5, <2>6, <2>7, AccountStays DEF AccountInv
<1>4. ASSUME NEW w \in Loaders, load(w) \/ deserialize(w)
      PROVE  AccountInv'
  <2>1. /\ op[w].at \in {"idle", "reading"} /\ op'[w].at \in {"idle", "reading", "stamp"}
        /\ \A v \in Workers \ {w} : op'[v] = op[v]
    BY <1>1, <1>4 DEF load, deserialize, Step, Idle
  <2>2. UNCHANGED <<stamp, clock, saved, loads, born, raced>>
    BY <1>4 DEF load, deserialize, disk, history
  <2>3. ClockInv'
    BY <1>1, <2>1, <2>2, ClockStays DEF Writing
  <2>4. \A v \in Workers : Updating(v) \/ Updating(v)' => op'[v] = op[v]
    BY <2>1 DEF Updating
  <2>5. SaveWaits' \/ (saved' = saved /\ ~SaveWaits)
    BY <2>1, <2>2 DEF SaveWaits
  <2> QED BY <1>1, <2>2, <2>3, <2>4, <2>5, AccountStays DEF AccountInv
<1>5. ASSUME NEW w \in Workers,
             read_stamp(w) \/ open_stamp(w) \/ stamp_refused(w) \/ close_stamp(w)
      PROVE  ClockInv'
  <2>1. ASSUME NEW v \in Workers, Writing(v)' PROVE Writing(v) /\ op'[v] = op[v]
    <3>1. CASE read_stamp(w) \/ stamp_refused(w) \/ close_stamp(w)
      <4>1. op'[w].at # "writing" /\ \A u \in Workers \ {w} : op'[u] = op[u]
        BY <1>1, <3>1 DEF read_stamp, stamp_refused, close_stamp, Step, Idle
      <4> QED BY <2>1, <4>1 DEF Writing
    <3>2. CASE open_stamp(w)
      <4>1. op'[w].at = "stamping"
        BY <3>2 DEF open_stamp
      <4>2. ASSUME v # w, op[v].at = "stamping" PROVE op'[v].at = "stamping"
        <5>1. op[v] \in [at : {"stamping"}, new : Stamps, alone : BOOLEAN]
          BY <1>1, <4>2, OpIs
        <5>2. op'[v] = [op[v] EXCEPT !.alone = FALSE]
          BY <3>2, <4>2 DEF open_stamp
        <5> QED BY <5>1, <5>2
      <4>3. v # w /\ op[v].at # "stamping"
        BY <2>1, <4>1, <4>2 DEF Writing
      <4>4. op'[v] = op[v]
        BY <3>2, <4>3 DEF open_stamp
      <4> QED BY <2>1, <4>4 DEF Writing
    <3> QED BY <1>5, <3>1, <3>2
  <2>2. saved' = saved /\ clock <= clock'
    BY <1>1, <1>5 DEF read_stamp, open_stamp, stamp_refused, close_stamp, Tick, history
  <2> QED BY <1>1, <2>1, <2>2, ClockStays
<1>6. ASSUME NEW w \in Workers, stamp_refused(w)
      PROVE  StampInv'
  BY <1>6 DEF stamp_refused, StampInv
<1>7. CASE crash
  <2>1. /\ \A w \in Workers : op'[w].at = "idle"
        /\ UNCHANGED <<stamp, clock, saved, loads, born>>
        /\ raced' = (raced \/ \E w \in Workers : op[w].at \in {"stamp", "update", "stamping"})
    BY <1>7 DEF crash, Idle, disk
  <2>2. ClockInv'
    BY <1>1, <2>1, ClockStays DEF Writing
  <2>3. ASSUME ~raced' PROVE StampInv'
    <3>1. ~raced /\ \A w \in Workers : op[w].at \notin {"stamp", "update", "stamping"}
      BY <2>1, <2>3
    <3>2. ~SaveWaits /\ \A w \in Workers : ~Updating(w) /\ ~Updating(w)'
      BY <2>1, <3>1 DEF SaveWaits, Updating
    <3>3. stamp.state = "whole" => Accounts(stamp)
      BY <1>1, <3>1, <3>2 DEF StampInv
    <3> QED BY <2>1, <3>2, <3>3 DEF StampInv, Accounts
  <2> QED BY <1>1, <2>2, <2>3 DEF AccountInv, StampInv
<1>8. CASE UNCHANGED vars
  <2>1. UNCHANGED <<stamp, clock, op, saved, loads, born, raced>>
    BY <1>8 DEF vars, disk, history
  <2>2. ClockInv' /\ (SaveWaits' \/ (saved' = saved /\ ~SaveWaits))
    BY <1>1, <2>1, ClockStays DEF SaveWaits, Writing
  <2> QED BY <1>1, <2>1, <2>2, AccountStays DEF AccountInv
<1> QED BY <1>1, <1>2, <1>3, <1>4, <1>5, <1>6, <1>7, <1>8, StartAccounts, OpenAccounts,
           CloseAccounts DEF Next, AccountInv

(* At rest the stamp tells when it was created, how often the chunk was    *)
(* loaded since, and a time of change no earlier than the last save,       *)
(* unless two updates of it overlapped or one was cut off.                 *)
THEOREM StampAccountsHolds == Spec => []StampAccounts
PROOF
<1>1. Init => AccountInv
  <2> SUFFICES ASSUME Init
               PROVE  AccountInv
    OBVIOUS
  <2>1. \A w \in Workers : ~Writing(w) /\ ~Updating(w)
    BY DEF Init, Idle, Writing, Updating
  <2>2. stamp.state # "whole" /\ saved <= clock
    BY DEF Init, Absent
  <2> QED BY <2>1, <2>2, TypeInit DEF AccountInv, ClockInv, StampInv
<1>2. AccountInv => StampAccounts
  BY DEF AccountInv, StampInv, StampAccounts, Accounts, SaveWaits
<1> QED BY <1>1, <1>2, AccountStep, PTL DEF Spec

=============================================================================
