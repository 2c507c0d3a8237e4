-------------------------- MODULE RemoteFusionProofs --------------------------
(***************************************************************************)
(* What RemoteFusion promises of the layers of remote robots, for any      *)
(* number of robots, any overlap of their voxels with the local ones, any  *)
(* number of epochs, versions and time stamps, and a network that loses,   *)
(* delays, repeats and reorders as it likes; and what FusedMap promises of *)
(* the node's answers, for any two resolutions and any tolerance.          *)
(*                                                                         *)
(* The fused queries are functions of the state, so most of the argument   *)
(* is about them: the policy has a closed form (ResolveIs), and a layer's  *)
(* two time stamps exclude each other (LayerIs, from NewestWins).  The one *)
(* property with a history, that a withdrawal leaves the others alone,     *)
(* needs that two entries of one time are one entry (TimesInv).            *)
(***************************************************************************)
EXTENDS FusedMap, FiniteSetTheorems, SequenceTheorems, WellFoundedInduction, TLAPS

-----------------------------------------------------------------------------
(* Types.                                                                  *)

LEMMA ConstantTypes ==
    /\ EmptyLayer \in Layer
    /\ NewMap \in [Cells -> Entry \cup {NoEntry}]
    /\ \A k \in Kinds : OccupancyOf(k) \in States
PROOF
<1>1. EmptyLayer \in Layer
  BY BoundsAssumption DEF EmptyLayer, Layer, States
<1>2. NewMap \in [Cells -> Entry \cup {NoEntry}]
  BY DEF NewMap
<1>3. \A k \in Kinds : OccupancyOf(k) \in States
  BY DEF Kinds, OccupancyOf, States
<1> QED BY <1>1, <1>2, <1>3

LEMMA ResetType ==
    ASSUME NEW l \in Layer, NEW e \in Epochs
    PROVE  reset_remote_source(l, e) \in Layer
PROOF
<1> DEFINE R == IF l.occupancy /\ l.map_epoch # e
                THEN l.retired \cup {l.map_epoch} ELSE l.retired
<1>1. R \in SUBSET (0 .. MaxEpoch) /\ e \in 0 .. MaxEpoch
  BY BoundsAssumption DEF Layer, Epochs
<1> HIDE DEF R
<1>2. [EmptyLayer EXCEPT !.occupancy = TRUE, !.map_epoch = e, !.retired = R] \in Layer
  BY <1>1, ConstantTypes DEF Layer
<1> QED BY <1>2 DEF reset_remote_source, R

(* A voxel of the copy after one more entry.                               *)
LEMMA ApplyIs ==
    ASSUME NEW l \in Layer, NEW e \in Entry
    PROVE  LET r == apply_voxel(l, e)
               S == {v \in Covers[e.cell] : IsNewer(l, v, e.time)}
           IN  /\ r \in Layer
               /\ r.occupancy = l.occupancy
               /\ \A v \in Voxels \ S :
                     /\ r.state[v] = l.state[v] /\ (v \in r.dynamic <=> v \in l.dynamic)
                     /\ r.observed[v] = l.observed[v] /\ r.deleted[v] = l.deleted[v]
               /\ \A v \in Voxels \cap S : ShowsEntry(r, v, e)
PROOF
<1> DEFINE S == {v \in Covers[e.cell] : IsNewer(l, v, e.time)}
<1>1. S \subseteq Voxels /\ e.time \in Times /\ e.kind \in Kinds
  BY CoversAssumption DEF Entry
<1>2. OccupancyOf(e.kind) \in States
  BY <1>1, ConstantTypes
<1> HIDE DEF S
<1> DEFINE st == [v \in Voxels |-> IF v \in S THEN OccupancyOf(e.kind) ELSE l.state[v]]
           dy == IF e.kind = "dynamic" THEN l.dynamic \cup S ELSE l.dynamic \ S
           ob == [v \in Voxels |-> IF v \notin S THEN l.observed[v]
                                   ELSE IF e.kind = "deleted" THEN NoTime ELSE e.time]
           de == [v \in Voxels |-> IF v \notin S THEN l.deleted[v]
                                   ELSE IF e.kind = "deleted" THEN e.time ELSE NoTime]
           r == [l EXCEPT !.state = st, !.dynamic = dy, !.observed = ob, !.deleted = de]
<1>3. apply_voxel(l, e) = r
  BY DEF apply_voxel, S
<1>4. /\ st \in [Voxels -> States] /\ dy \in SUBSET Voxels
      /\ ob \in [Voxels -> Times \cup {NoTime}] /\ de \in [Voxels -> Times \cup {NoTime}]
  BY <1>1, <1>2 DEF Layer
<1>5. /\ r.state = st /\ r.dynamic = dy /\ r.observed = ob /\ r.deleted = de
      /\ r.occupancy = l.occupancy
  BY DEF Layer
<1>6. r \in Layer
  <2> HIDE DEF st, dy, ob, de
  <2> QED BY <1>4 DEF Layer
<1>7. \A v \in Voxels \cap S : ShowsEntry(r, v, e)
  <2> TAKE v \in Voxels \cap S
  <2>1. /\ st[v] = OccupancyOf(e.kind) /\ (v \in dy <=> e.kind = "dynamic")
        /\ ob[v] = (IF e.kind = "deleted" THEN NoTime ELSE e.time)
        /\ de[v] = (IF e.kind = "deleted" THEN e.time ELSE NoTime)
    OBVIOUS
  <2> HIDE DEF st, dy, ob, de, r
  <2> QED BY <1>5, <2>1 DEF ShowsEntry
<1>8. \A v \in Voxels \ S :
         /\ st[v] = l.state[v] /\ (v \in dy <=> v \in l.dynamic)
         /\ ob[v] = l.observed[v] /\ de[v] = l.deleted[v]
  OBVIOUS
<1> HIDE DEF st, dy, ob, de, r
<1> QED BY <1>3, <1>5, <1>6, <1>7, <1>8 DEF S

-----------------------------------------------------------------------------
(* Newest entries.                                                         *)

LEMMA NothingHeard ==
    ASSUME NEW l \in Layer, NEW e \in Epochs
    PROVE  ShowsNewest(reset_remote_source(l, e), {})
  BY DEF reset_remote_source, EmptyLayer, ShowsNewest, ShowsNothing, Said

(* One more entry, of whatever time, and the newest still shows: the time  *)
(* of the voxel, observed or deleted, is that of the newest entry.         *)
LEMMA ApplyShowsNewest ==
    ASSUME NEW l \in Layer, NEW H \in SUBSET Entry, NEW e \in Entry, ShowsNewest(l, H)
    PROVE  ShowsNewest(apply_voxel(l, e), H \cup {e})
PROOF
<1> DEFINE r == apply_voxel(l, e)
           S == {v \in Covers[e.cell] : IsNewer(l, v, e.time)}
           G == H \cup {e}
<1> SUFFICES ASSUME NEW v \in Voxels
             PROVE  \/ Said(G, v) = {} /\ ShowsNothing(r, v)
                    \/ \E f \in Said(G, v) :
                          ShowsEntry(r, v, f) /\ \A g \in Said(G, v) : g.time <= f.time
  BY DEF ShowsNewest
<1>1. /\ \/ Said(H, v) = {} /\ ShowsNothing(l, v)
         \/ \E f \in Said(H, v) :
               ShowsEntry(l, v, f) /\ \A g \in Said(H, v) : g.time <= f.time
  BY DEF ShowsNewest
<1>2. /\ v \notin S => /\ r.state[v] = l.state[v] /\ (v \in r.dynamic <=> v \in l.dynamic)
                       /\ r.observed[v] = l.observed[v] /\ r.deleted[v] = l.deleted[v]
      /\ v \in S => ShowsEntry(r, v, e)
  BY ApplyIs
<1>3. \A f \in G : f.time \in Nat
  BY BoundsAssumption DEF Entry, Times
<1>4. Said(G, v) \subseteq G /\ Said(H, v) \subseteq Said(G, v)
  BY DEF Said
<1> HIDE DEF r
<1>5. CASE v \notin Covers[e.cell]
  <2>1. Said(G, v) = Said(H, v) /\ v \notin S
    BY <1>5 DEF Said
  <2> QED BY <1>1, <1>2, <2>1 DEF ShowsNothing, ShowsEntry
<1>6. CASE v \in Covers[e.cell] /\ ~ IsNewer(l, v, e.time)
  <2>1. v \notin S
    BY <1>6
  <2>2. ~ ShowsNothing(l, v)
    <3>1. e.time \in Nat
      BY <1>3
    <3> QED BY <1>6, <3>1 DEF ShowsNothing, IsNewer, NoTime
  <2>3. PICK f \in Said(H, v) : ShowsEntry(l, v, f) /\ \A g \in Said(H, v) : g.time <= f.time
    BY <1>1, <2>2
  <2>4. e.time <= f.time
    <3>1. e.time \in Nat /\ f.time \in Nat
      BY <1>3, <1>4
    <3>2. l.observed[v] \in {NoTime, f.time} /\ l.deleted[v] \in {NoTime, f.time}
      BY <2>3 DEF ShowsEntry
    <3>3. ~ (l.observed[v] < e.time /\ l.deleted[v] < e.time)
      BY <1>6 DEF IsNewer
    <3> QED BY <3>1, <3>2, <3>3 DEF NoTime
  <2>5. ShowsEntry(r, v, f)
    BY <1>2, <2>1, <2>3 DEF ShowsEntry
  <2>6. \A g \in Said(G, v) : g.time <= f.time
    BY <2>3, <2>4 DEF Said
  <2> QED BY <1>4, <2>3, <2>5, <2>6
<1>7. CASE v \in Covers[e.cell] /\ IsNewer(l, v, e.time)
  <2>1. ShowsEntry(r, v, e) /\ e \in Said(G, v)
    BY <1>2, <1>7 DEF Said
  <2>2. \A g \in Said(H, v) : g.time <= e.time
    BY <1>1, <1>3, <1>4, <1>7 DEF ShowsEntry, IsNewer
  <2>3. \A g \in Said(G, v) : g.time <= e.time
    BY <1>3, <2>2 DEF Said
  <2> QED BY <2>1, <2>3
<1> QED BY <1>5, <1>6, <1>7

-----------------------------------------------------------------------------
(* Type correctness.                                                       *)

Busy == [busy : {TRUE}, msg : Messages, at : Nat \ {0}, layer : Layer, heard : SUBSET Entry]

LEMMA CallIs ==
    ASSUME call \in Call, call.busy
    PROVE  call \in Busy
PROOF
<1>1. idle.busy = FALSE
  BY DEF idle
<1>2. call # idle
  BY <1>1
<1> QED BY <1>2 DEF Call, Busy

LEMMA PublishType ==
    ASSUME TypeOK, NEW s \in Sources, NEW r \in Robot, NEW full \in BOOLEAN,
           NEW cells \in Seq(Entry), clock' \in Times, publish(s, r, full, cells)
    PROVE  TypeOK'
PROOF
<1>1. Message(s, r, full, cells) \in Messages
  BY DEF Message, Messages, Robot
<1> QED BY <1>1 DEF publish, TypeOK, history, idle, Call

LEMMA BeginType ==
    ASSUME TypeOK, NEW m \in Messages, NEW l \in Layer, NEW kept \in BOOLEAN,
           begin(m, l, kept)
    PROVE  TypeOK'
PROOF
<1>1. (IF kept THEN heard[m.source] ELSE {}) \in SUBSET Entry
  BY DEF TypeOK, Messages
<1>2. call' \in Call
  BY <1>1 DEF begin, Call
<1> QED BY <1>2 DEF begin, TypeOK, network, history

LEMMA SetUpType ==
    ASSUME TypeOK, NEW m \in Messages, set_up(m)
    PROVE  TypeOK'
PROOF
<1>1. reset_remote_source(layer[m.source], m.map_epoch) \in Layer
  BY ResetType DEF TypeOK, Messages
<1> QED BY <1>1 DEF set_up, TypeOK, network, history

LEMMA RefreshCells ==
    ASSUME NEW r \in Robot, NEW q \in [1 .. Cardinality(Known(r)) -> Known(r)]
    PROVE  [i \in DOMAIN q |-> r.map[q[i]]] \in Seq(Entry)
PROOF
<1>1. IsFiniteSet(Known(r))
  BY FS_Subset, CoversAssumption DEF Known
<1>2. Cardinality(Known(r)) \in Nat
  BY <1>1, FS_CardinalityType
<1>3. \A c \in Known(r) : r.map[c] \in Entry
  BY DEF Known, Robot, NoEntry
<1> QED BY <1>2, <1>3, IsASeq

LEMMA TypeStep == TypeOK /\ [Next]_vars => TypeOK'
PROOF
<1> SUFFICES ASSUME TypeOK, [Next]_vars
             PROVE  TypeOK'
  OBVIOUS
<1>1. ASSUME NEW s \in Sources, NEW r \in Reports[s], robot_observes(s, r[1], r[2])
      PROVE  TypeOK'
  <2> DEFINE e == [cell |-> r[1], kind |-> r[2], time |-> clock']
             n == [robot[s] EXCEPT !.version = @ + 1, !.map[r[1]] = e]
  <2>1. r[1] \in Cells /\ r[2] \in Kinds
    BY ReportsAssumption DEF Kinds
  <2>2. clock' \in Times
    BY <1>1, BoundsAssumption DEF robot_observes, TypeOK, Times
  <2>3. e \in Entry
    BY <2>1, <2>2 DEF Entry
  <2>4. n \in Robot
    <3> DEFINE q == robot[s]
               g == [q.map EXCEPT ![r[1]] = e]
    <3>1. q \in Robot
      BY DEF TypeOK
    <3>2. g \in [Cells -> Entry \cup {NoEntry}] /\ q.version + 1 \in Nat
      BY <2>1, <2>3, <3>1 DEF Robot
    <3>3. n = [q EXCEPT !.version = @ + 1, !.map = g]
      OBVIOUS
    <3> HIDE DEF n, q, g
    <3> QED BY <3>1, <3>2, <3>3 DEF Robot
  <2>5. publish(s, n, FALSE, <<e>>)
    BY <1>1 DEF robot_observes
  <2> HIDE DEF n, e
  <2>6. <<e>> \in Seq(Entry)
    BY <2>3
  <2> QED BY <2>2, <2>4, <2>5, <2>6, PublishType
<1>2. ASSUME NEW s \in Sources, robot_refreshes(s)
      PROVE  TypeOK'
  <2> DEFINE n == [robot[s] EXCEPT !.refreshes = @ + 1]
  <2>1. PICK q \in [1 .. Cardinality(Known(robot[s])) -> Known(robot[s])] :
           publish(s, n, TRUE, [i \in DOMAIN q |-> robot[s].map[q[i]]])
    BY <1>2 DEF robot_refreshes
  <2>2. n \in Robot
    <3>1. robot[s] \in Robot
      BY DEF TypeOK
    <3> QED BY <3>1 DEF Robot
  <2>3. clock' \in Times
    BY <1>2 DEF robot_refreshes, TypeOK
  <2>4. [i \in DOMAIN q |-> robot[s].map[q[i]]] \in Seq(Entry)
    BY RefreshCells DEF TypeOK
  <2> HIDE DEF n
  <2> QED BY <2>1, <2>2, <2>3, <2>4, PublishType
<1>3. ASSUME NEW s \in Sources, robot_restarts(s)
      PROVE  TypeOK'
  <2> DEFINE n == [robot[s] EXCEPT !.epoch = @ + 1, !.version = 0, !.map = NewMap]
  <2>1. robot[s] \in Robot /\ robot[s].epoch + 1 \in Epochs
    BY <1>3, BoundsAssumption DEF robot_restarts, TypeOK, Robot, Epochs
  <2>2. n \in Robot
    BY <2>1, ConstantTypes DEF Robot
  <2>3. clock' \in Times /\ publish(s, n, TRUE, <<>>)
    BY <1>3 DEF robot_restarts, TypeOK
  <2> HIDE DEF n
  <2>4. <<>> \in Seq(Entry)
    OBVIOUS
  <2> QED BY <2>2, <2>3, <2>4, PublishType
<1>4. ASSUME NEW m \in sent, voxel_delta_callback(m)
      PROVE  TypeOK'
  <2>1. m \in Messages /\ layer[m.source] \in Layer /\ m.map_epoch \in Epochs
    BY DEF TypeOK, Messages
  <2>2. CASE on_evidence(m)
    BY <2>1, <2>2, BeginType, ResetType DEF on_evidence
  <2>3. CASE sentinel(m)
    BY <2>1, <2>3, SetUpType DEF sentinel
  <2>4. CASE full_refresh(m)
    BY <2>1, <2>4, BeginType, ResetType, ConstantTypes DEF full_refresh
  <2>5. CASE delta_before_layer(m)
    BY <2>1, <2>5, SetUpType DEF delta_before_layer
  <2>6. CASE delta(m)
    BY <2>1, <2>6, BeginType DEF delta
  <2> QED BY <1>4, <2>2, <2>3, <2>4, <2>5, <2>6 DEF voxel_delta_callback
<1>5. CASE apply_next
  <2> DEFINE e == call.msg.cells[call.at]
  <2>1. call \in Busy /\ call.at <= Len(call.msg.cells)
    BY <1>5, CallIs DEF apply_next, TypeOK
  <2>2. e \in Entry
    BY <2>1 DEF Messages, Busy
  <2>3. apply_voxel(call.layer, e) \in Layer
    BY <2>1, <2>2, ApplyIs DEF Busy
  <2>4. call' \in Busy
    <3> HIDE DEF e
    <3>1. call' = [call EXCEPT !.at = @ + 1, !.layer = apply_voxel(@, e), !.heard = @ \cup {e}]
      BY <1>5 DEF apply_next, e
    <3>2. /\ call.at + 1 \in Nat \ {0} /\ apply_voxel(call.layer, e) \in Layer
          /\ call.heard \cup {e} \in SUBSET Entry
      BY <2>1, <2>2, <2>3 DEF Busy, e
    <3> QED BY <2>1, <3>1, <3>2 DEF Busy
  <2> QED BY <1>5, <2>4 DEF apply_next, TypeOK, network, history, Call, Busy
<1>6. CASE apply_done
  <2> DEFINE m == call.msg
             new == [call.layer EXCEPT !.map_epoch = m.map_epoch,
                                       !.last_version = Larger(@, m.version),
                                       !.awaiting = FALSE]
  <2>1. /\ m \in Messages /\ call.layer \in Layer /\ call.heard \in SUBSET Entry
        /\ m.source \in Sources /\ m.map_epoch \in Epochs /\ m.version \in Nat
    BY <1>6, CallIs DEF apply_done, TypeOK, Busy, Messages
  <2>2. Larger(call.layer.last_version, m.version) \in Nat
    BY <2>1 DEF Larger, Layer
  <2>3. new \in Layer
    <3> DEFINE n == Larger(call.layer.last_version, m.version)
    <3>1. m.map_epoch \in 0 .. MaxEpoch /\ n \in Nat
      BY <2>1, <2>2, BoundsAssumption DEF Epochs
    <3>2. new = [call.layer EXCEPT !.map_epoch = m.map_epoch, !.last_version = n,
                                   !.awaiting = FALSE]
      OBVIOUS
    <3> HIDE DEF n, m, new
    <3> QED BY <2>1, <3>1, <3>2 DEF Layer
  <2>4. layer' \in [Sources -> Layer]
    BY <1>6, <2>3 DEF apply_done, TypeOK, history
  <2>5. heard' \in [Sources -> SUBSET Entry]
    BY <1>6, <2>1 DEF apply_done, TypeOK, history
  <2>6. gap' \in [Sources -> BOOLEAN]
    BY <1>6 DEF apply_done, TypeOK, history
  <2>7. contact' \in [Sources -> Seq(Epochs)]
    <3>1. Append(contact[m.source], m.map_epoch) \in Seq(Epochs)
      BY <2>1 DEF TypeOK
    <3>2. contact \in [Sources -> Seq(Epochs)]
      BY DEF TypeOK
    <3>3. \/ contact' = contact
          \/ contact' = [contact EXCEPT ![m.source] = Append(@, m.map_epoch)]
      BY <1>6, <3>2 DEF apply_done, history
    <3> QED BY <3>1, <3>2, <3>3
  <2> QED BY <1>6, <2>4, <2>5, <2>6, <2>7 DEF apply_done, TypeOK, network, Call
<1>7. CASE UNCHANGED vars
  BY <1>7 DEF vars, network, history, TypeOK
<1> QED BY <1>1, <1>2, <1>3, <1>4, <1>5, <1>6, <1>7 DEF Next

LEMMA TypeInit == Init => TypeOK
PROOF
<1> SUFFICES ASSUME Init
             PROVE  TypeOK
  OBVIOUS
<1>1. robot \in [Sources -> Robot]
  <2>1. 1 \in Epochs
    BY BoundsAssumption DEF Epochs
  <2> QED BY <2>1, ConstantTypes, ModesAssumption DEF Init, Robot
<1>2. clock \in Times
  BY BoundsAssumption DEF Init, Times
<1>3. layer \in [Sources -> Layer]
  BY ConstantTypes DEF Init
<1> QED BY <1>1, <1>2, <1>3 DEF Init, TypeOK, Call, idle

(* Every variable keeps its type, for any number of robots, epochs and     *)
(* time stamps: a copy of a layer is a layer after every voxel.            *)
THEOREM TypeCorrect == Spec => []TypeOK
PROOF
<1> QED BY TypeInit, TypeStep, PTL DEF Spec

-----------------------------------------------------------------------------
(* The invariant.  A layer that was never set up was told nothing; the     *)
(* copy that a message is applied to shows the newest as the layer does;   *)
(* and a copy that will replace a layer of another epoch holds what the    *)
(* message has said so far and nothing else.                               *)

TellsAll(m, n) == {m.cells[i] : i \in 1 .. n}

CopyInv ==
    call.busy =>
        /\ ShowsNewest(call.layer, call.heard)
        /\ call.layer.occupancy
        /\ call.at <= Len(call.msg.cells) + 1
        /\ layer[call.msg.source].map_epoch # call.msg.map_epoch
              => call.heard = TellsAll(call.msg, call.at - 1)
SilentInv == \A s \in Sources : ~layer[s].occupancy => heard[s] = {}

IInv == TypeOK /\ NewestWins /\ SilentInv /\ CopyInv

LEMMA ResetIs ==
    ASSUME NEW l, NEW e
    PROVE  reset_remote_source(l, e).occupancy = TRUE
  BY DEF reset_remote_source, EmptyLayer

LEMMA BeginInv ==
    ASSUME IInv, NEW m \in Messages, NEW l \in Layer, NEW kept \in BOOLEAN,
           begin(m, l, kept), l.occupancy,
           IF kept THEN l = layer[m.source] /\ l.map_epoch = m.map_epoch
                   ELSE ShowsNewest(l, {})
    PROVE  NewestWins' /\ SilentInv' /\ CopyInv'
PROOF
<1> DEFINE H == IF kept THEN heard[m.source] ELSE {}
<1>1. m.source \in Sources /\ Len(m.cells) \in Nat
  BY DEF Messages
<1>2. ShowsNewest(l, H)
  BY <1>1 DEF IInv, NewestWins
<1>3. /\ call' = [busy |-> TRUE, msg |-> m, at |-> 1, layer |-> l, heard |-> H]
      /\ layer' = layer /\ heard' = heard
  BY DEF begin, history
<1>4. NewestWins' /\ SilentInv'
  BY <1>3 DEF IInv, NewestWins, SilentInv
<1>5. ~kept => H = TellsAll(m, 0)
  BY DEF TellsAll
<1> HIDE DEF H
<1>6. CopyInv'
  BY <1>1, <1>2, <1>3, <1>5 DEF CopyInv
<1> QED BY <1>4, <1>6

LEMMA SetUpInv ==
    ASSUME IInv, NEW m \in Messages, set_up(m), ~layer[m.source].occupancy, call = idle
    PROVE  NewestWins' /\ SilentInv' /\ CopyInv'
PROOF
<1>1. m.source \in Sources /\ m.map_epoch \in Epochs
  BY DEF Messages
<1>2. heard[m.source] = {} /\ heard' = heard /\ call' = call /\ ~call.busy
  BY <1>1 DEF IInv, SilentInv, set_up, history, idle
<1>3. layer' = [layer EXCEPT ![m.source] = reset_remote_source(@, m.map_epoch)]
  BY DEF set_up
<1>4. ShowsNewest(reset_remote_source(layer[m.source], m.map_epoch), {})
  BY <1>1, NothingHeard DEF IInv, TypeOK
<1>5. layer \in [Sources -> Layer]
  BY DEF IInv, TypeOK
<1>6. NewestWins' /\ SilentInv'
  BY <1>1, <1>2, <1>3, <1>4, <1>5, ResetIs DEF IInv, NewestWins, SilentInv
<1> QED BY <1>2, <1>6 DEF CopyInv

LEMMA InvStep == IInv /\ [Next]_vars => IInv'
PROOF
<1> SUFFICES ASSUME IInv, [Next]_vars
             PROVE  IInv'
  OBVIOUS
<1>1. TypeOK /\ TypeOK'
  BY TypeStep DEF IInv
<1> SUFFICES NewestWins' /\ SilentInv' /\ CopyInv'
  BY <1>1 DEF IInv
<1>2. CASE UNCHANGED <<layer, call, history>>
  BY <1>2 DEF IInv, NewestWins, SilentInv, CopyInv, history
<1>3. ASSUME NEW s \in Sources,
             \/ \E r \in Reports[s] : robot_observes(s, r[1], r[2])
             \/ robot_refreshes(s)
             \/ robot_restarts(s)
      PROVE  NewestWins' /\ SilentInv' /\ CopyInv'
  BY <1>2, <1>3 DEF robot_observes, robot_refreshes, robot_restarts, publish
<1>4. ASSUME NEW m \in sent, voxel_delta_callback(m)
      PROVE  NewestWins' /\ SilentInv' /\ CopyInv'
  <2>1. m \in Messages /\ layer[m.source] \in Layer /\ m.map_epoch \in Epochs
    BY <1>1 DEF TypeOK, Messages
  <2>2. CASE on_evidence(m)
    <3> DEFINE l == layer[m.source]
               fresh == ~l.occupancy \/ l.map_epoch # m.map_epoch
               k == IF fresh THEN reset_remote_source(l, m.map_epoch) ELSE l
    <3>1. k \in Layer /\ k.occupancy /\ begin(m, k, ~fresh)
      BY <2>1, <2>2, ResetType, ResetIs DEF on_evidence, Layer
    <3>2. fresh => ShowsNewest(k, {})
      BY <2>1, NothingHeard
    <3>3. ~fresh => k = layer[m.source] /\ k.map_epoch = m.map_epoch
      OBVIOUS
    <3> HIDE DEF k
    <3> QED BY <2>1, <3>1, <3>2, <3>3, BeginInv
  <2>3. CASE full_refresh(m)
    <3> DEFINE k == reset_remote_source(EmptyLayer, m.map_epoch)
    <3>1. k \in Layer /\ k.occupancy /\ ShowsNewest(k, {}) /\ begin(m, k, FALSE)
      BY <2>1, <2>3, ResetType, ResetIs, NothingHeard, ConstantTypes DEF full_refresh
    <3> HIDE DEF k
    <3> QED BY <2>1, <3>1, BeginInv
  <2>4. CASE delta(m)
    BY <2>1, <2>4, BeginInv DEF delta, Follows
  <2>5. CASE sentinel(m) \/ delta_before_layer(m)
    BY <1>4, <2>1, <2>5, SetUpInv DEF sentinel, delta_before_layer, voxel_delta_callback
  <2> QED BY <1>4, <2>2, <2>3, <2>4, <2>5 DEF voxel_delta_callback
<1>5. CASE apply_next
  <2> DEFINE e == call.msg.cells[call.at]
             n == call.at
  <2>1. call.busy /\ call \in Busy /\ n <= Len(call.msg.cells)
    BY <1>1, <1>5, CallIs DEF apply_next, TypeOK
  <2>2. e \in Entry /\ n \in Nat \ {0} /\ Len(call.msg.cells) \in Nat
    BY <2>1 DEF Messages, Busy
  <2>3. /\ call' = [call EXCEPT !.at = @ + 1, !.layer = apply_voxel(@, e),
                                !.heard = @ \cup {e}]
        /\ layer' = layer /\ heard' = heard
    BY <1>5 DEF apply_next, history
  <2>4. NewestWins' /\ SilentInv'
    BY <2>3 DEF IInv, NewestWins, SilentInv
  <2>5. TellsAll(call.msg, n) = TellsAll(call.msg, n - 1) \cup {e}
    BY <2>2 DEF TellsAll
  <2>6. ShowsNewest(apply_voxel(call.layer, e), call.heard \cup {e})
    BY <2>1, <2>2, ApplyShowsNewest DEF IInv, CopyInv, Busy
  <2>7. apply_voxel(call.layer, e).occupancy = call.layer.occupancy
    BY <2>1, <2>2, ApplyIs DEF Busy
  <2> HIDE DEF e
  <2>8. /\ call'.at = n + 1 /\ call'.msg = call.msg /\ call'.heard = call.heard \cup {e}
        /\ call'.layer = apply_voxel(call.layer, e)
    BY <2>1, <2>3 DEF Busy
  <2>9. CopyInv'
    BY <2>1, <2>2, <2>3, <2>5, <2>6, <2>7, <2>8 DEF IInv, CopyInv
  <2> QED BY <2>4, <2>9
<1>6. CASE apply_done
  <2> DEFINE m == call.msg
             s == m.source
             new == [call.layer EXCEPT !.map_epoch = m.map_epoch,
                                       !.last_version = Larger(@, m.version),
                                       !.awaiting = FALSE]
  <2>1. call.busy /\ call \in Busy /\ s \in Sources
    BY <1>1, <1>6, CallIs DEF apply_done, TypeOK, Busy, Messages
  <2>2. call.layer \in Layer
    BY <2>1 DEF Busy
  <2>3. ShowsNewest(new, call.heard) /\ new.occupancy
    BY <2>1, <2>2 DEF IInv, CopyInv, ShowsNewest, ShowsNothing, ShowsEntry, Layer
  <2>4. ~call'.busy
    BY <1>6 DEF apply_done, idle
  <2> HIDE DEF new
  <2>5. CASE layer' = layer /\ heard' = heard
    BY <2>4, <2>5 DEF IInv, NewestWins, SilentInv, CopyInv
  <2>6. CASE /\ layer' = [layer EXCEPT ![s] = new]
             /\ heard' = [heard EXCEPT ![s] = call.heard]
    BY <1>1, <2>1, <2>3, <2>4, <2>6 DEF IInv, NewestWins, SilentInv, CopyInv, TypeOK
  <2> QED BY <1>6, <2>5, <2>6 DEF apply_done, history, new
<1>7. CASE UNCHANGED vars
  BY <1>2, <1>7 DEF vars, history
<1> QED BY <1>3, <1>4, <1>5, <1>6, <1>7 DEF Next

LEMMA InvInit == Init => IInv
PROOF
<1> SUFFICES ASSUME Init
             PROVE  IInv
  OBVIOUS
<1>1. NewestWins
  BY DEF Init, NewestWins, ShowsNewest, ShowsNothing, Said, EmptyLayer
<1>2. ~call.busy /\ SilentInv
  BY DEF Init, idle, SilentInv
<1> QED BY <1>1, <1>2, TypeInit DEF IInv, CopyInv

LEMMA Invariance == Spec => []IInv
PROOF
<1> QED BY InvInit, InvStep, PTL DEF Spec

(* Of all that was said of a voxel since its layer was reset, a newest     *)
(* entry shows, in whatever order and however often the messages came.     *)
THEOREM NewestWinsHolds == Spec => []NewestWins
PROOF
<1>1. IInv => NewestWins
  BY DEF IInv
<1> QED BY <1>1, Invariance, PTL

(* A layer once shown stays shown, and leaves its epoch only with the      *)
(* content of a message of the next: the sentinel never blanks it.         *)
THEOREM DisplayedIsPreservedHolds == Spec => DisplayedIsPreserved
PROOF
<1> DEFINE Kept(s) ==
             Shown(layer[s]) =>
                /\ Shown(layer'[s])
                /\ layer[s].map_epoch # layer'[s].map_epoch
                      => heard'[s] = {call.msg.cells[i] : i \in DOMAIN call.msg.cells}
<1>1. IInv /\ [Next]_vars => [\A s \in Sources : Kept(s)]_vars
  <2> SUFFICES ASSUME IInv, Next, NEW s \in Sources, Shown(layer[s])
               PROVE  /\ Shown(layer'[s])
                      /\ layer[s].map_epoch # layer'[s].map_epoch
                            => heard'[s] = {call.msg.cells[i] : i \in DOMAIN call.msg.cells}
    OBVIOUS
  <2>1. CASE layer' = layer
    BY <2>1
  <2>2. ASSUME NEW m \in sent, set_up(m), ~layer[m.source].occupancy
        PROVE  Shown(layer'[s]) /\ layer[s].map_epoch = layer'[s].map_epoch
    BY <2>2 DEF set_up, Shown, IInv, TypeOK
  <2>3. CASE apply_done /\ layer' # layer
    <3> DEFINE m == call.msg
               new == [call.layer EXCEPT !.map_epoch = m.map_epoch,
                                         !.last_version = Larger(@, m.version),
                                         !.awaiting = FALSE]
    <3>1. /\ layer' = [layer EXCEPT ![m.source] = new]
          /\ heard' = [heard EXCEPT ![m.source] = call.heard]
          /\ call.busy /\ call.at > Len(m.cells)
      BY <2>3 DEF apply_done, history
    <3>2. call \in Busy /\ call.layer \in Layer /\ m \in Messages
      BY <3>1, CallIs DEF IInv, TypeOK, Busy
    <3>3. Shown(new) /\ new.map_epoch = m.map_epoch
      BY <3>1, <3>2 DEF IInv, CopyInv, Shown, Layer
    <3>4. call.at - 1 = Len(m.cells) /\ DOMAIN m.cells = 1 .. Len(m.cells)
      BY <3>1, <3>2 DEF IInv, CopyInv, Busy, Messages
    <3> HIDE DEF new
    <3>5. CASE s # m.source
      BY <3>1, <3>5 DEF IInv, TypeOK
    <3>6. CASE s = m.source
      <4>1. layer'[s] = new /\ heard'[s] = call.heard
        BY <3>1, <3>6 DEF IInv, TypeOK
      <4>2. layer[s].map_epoch # m.map_epoch => call.heard = TellsAll(m, call.at - 1)
        BY <3>1, <3>6 DEF IInv, CopyInv
      <4> QED BY <3>3, <3>4, <4>1, <4>2 DEF TellsAll
    <3> QED BY <3>5, <3>6
  <2> QED BY <2>1, <2>2, <2>3
          DEF Next, robot_observes, robot_refreshes, robot_restarts, publish,
              voxel_delta_callback, on_evidence, full_refresh, delta, begin, sentinel,
              delta_before_layer, apply_next
<1> QED BY <1>1, Invariance, PTL DEF Spec, DisplayedIsPreserved

-----------------------------------------------------------------------------
(* Epochs of mode 4.  What a layer has heard of is what it has retired and *)
(* what it shows, and the last is what it shows.                           *)

Evidence(s) == robot[s].mode = "evidence"
Heard(s) == {contact[s][i] : i \in DOMAIN contact[s]}
RetiredBy(l, e) ==
    IF l.occupancy /\ l.map_epoch # e THEN l.retired \cup {l.map_epoch} ELSE l.retired

EpochsOf(s) ==
    IF layer[s].occupancy
    THEN /\ contact[s] # <<>> /\ layer[s].map_epoch = contact[s][Len(contact[s])]
         /\ Heard(s) = layer[s].retired \cup {layer[s].map_epoch}
    ELSE contact[s] = <<>> /\ layer[s].retired = {}
CallEpoch ==
    LET m == call.msg
    IN  call.busy /\ Evidence(m.source) =>
           /\ call.layer.occupancy /\ call.layer.map_epoch = m.map_epoch
           /\ m.map_epoch \notin layer[m.source].retired
           /\ call.layer.retired = RetiredBy(layer[m.source], m.map_epoch)
ModeInv ==
    /\ \A m \in sent : m.mode = robot[m.source].mode
    /\ call.busy => call.msg.mode = robot[call.msg.source].mode
EpochInv ==
    /\ TypeOK /\ ModeInv /\ CallEpoch
    /\ \A s \in Sources : Evidence(s) => EpochsOf(s)

LEMMA AppendIs ==
    ASSUME NEW q \in Seq(Epochs), NEW e \in Epochs
    PROVE  /\ Append(q, e) # <<>>
           /\ Append(q, e)[Len(Append(q, e))] = e
           /\ {Append(q, e)[i] : i \in DOMAIN Append(q, e)} = {q[i] : i \in DOMAIN q} \cup {e}
PROOF
<1> DEFINE r == Append(q, e)
<1>1. /\ Len(q) \in Nat /\ Len(r) = Len(q) + 1 /\ DOMAIN r = 1 .. Len(q) + 1
      /\ DOMAIN q = 1 .. Len(q) /\ r[Len(q) + 1] = e
      /\ \A i \in 1 .. Len(q) : r[i] = q[i]
  OBVIOUS
<1>2. r # <<>>
  BY <1>1
<1> HIDE DEF r
<1>3. {r[i] : i \in DOMAIN r} = {q[i] : i \in DOMAIN q} \cup {e}
  BY <1>1
<1> QED BY <1>1, <1>2, <1>3 DEF r

(* What a step leaves of the layers, the call and the modes, it leaves of  *)
(* the epochs.                                                             *)
LEMMA SameEpochs ==
    ASSUME EpochInv, TypeOK', UNCHANGED <<layer, contact>>, ModeInv',
           \A s \in Sources : robot'[s].mode = robot[s].mode,
           \/ call' = call
           \/ call'.busy = FALSE
           \/ call'.busy /\ call.busy /\ call'.msg = call.msg
              /\ call'.layer.occupancy = call.layer.occupancy
              /\ call'.layer.map_epoch = call.layer.map_epoch
              /\ call'.layer.retired = call.layer.retired
    PROVE  EpochInv'
PROOF
<1>1. ASSUME NEW s \in Sources, Evidence(s)'
      PROVE  EpochsOf(s)'
  BY <1>1 DEF EpochInv, Evidence, EpochsOf, Heard
<1>2. call.busy => call.msg.source \in Sources
  BY CallIs DEF EpochInv, TypeOK, Busy, Messages
<1>3. CallEpoch'
  BY <1>2 DEF EpochInv, CallEpoch, Evidence, RetiredBy
<1> QED BY <1>1, <1>3 DEF EpochInv

LEMMA PublishEpochs ==
    ASSUME EpochInv, TypeOK', NEW s \in Sources, NEW r, NEW full, NEW cells,
           publish(s, r, full, cells), r.mode = robot[s].mode
    PROVE  EpochInv'
PROOF
<1>1. \A t \in Sources : robot'[t].mode = robot[t].mode
  BY DEF publish, EpochInv, TypeOK
<1>2. \A m \in sent : m.source \in Sources
  BY DEF EpochInv, TypeOK, Messages
<1>3. Message(s, r, full, cells).source = s /\ Message(s, r, full, cells).mode = r.mode
  BY DEF Message
<1>4. \A m \in sent' : m.mode = robot'[m.source].mode
  BY <1>1, <1>2, <1>3 DEF publish, EpochInv, ModeInv
<1>5. call' = call /\ ~call.busy /\ UNCHANGED <<layer, contact>>
  BY DEF publish, idle, history
<1> QED BY <1>1, <1>4, <1>5, SameEpochs DEF ModeInv

LEMMA ApplyEpochs ==
    ASSUME EpochInv, TypeOK', apply_next
    PROVE  EpochInv'
PROOF
<1> DEFINE e == call.msg.cells[call.at]
<1>1. call.busy /\ call \in Busy /\ call.at <= Len(call.msg.cells)
  BY CallIs DEF apply_next, EpochInv, TypeOK
<1>2. call' = [call EXCEPT !.at = @ + 1, !.layer = apply_voxel(@, e), !.heard = @ \cup {e}]
  BY DEF apply_next
<1>3. /\ apply_voxel(call.layer, e).occupancy = call.layer.occupancy
      /\ apply_voxel(call.layer, e).map_epoch = call.layer.map_epoch
      /\ apply_voxel(call.layer, e).retired = call.layer.retired
  BY <1>1 DEF apply_voxel, Busy, Layer
<1> HIDE DEF e
<1>4. call'.busy /\ call'.msg = call.msg /\ call'.layer = apply_voxel(call.layer, e)
  BY <1>1, <1>2 DEF Busy
<1>5. UNCHANGED <<layer, contact, robot, sent>>
  BY DEF apply_next, history, network
<1>6. ModeInv'
  BY <1>1, <1>4, <1>5 DEF EpochInv, ModeInv
<1> QED BY <1>1, <1>3, <1>4, <1>5, <1>6, SameEpochs

LEMMA DoneEpochs ==
    ASSUME EpochInv, TypeOK', apply_done
    PROVE  EpochInv'
PROOF
<1> DEFINE m == call.msg
           s == m.source
           new == [call.layer EXCEPT !.map_epoch = m.map_epoch,
                                     !.last_version = Larger(@, m.version),
                                     !.awaiting = FALSE]
<1>1. /\ call.busy /\ call \in Busy /\ m \in Messages /\ s \in Sources
      /\ m.map_epoch \in Epochs /\ call.layer \in Layer
  BY CallIs DEF apply_done, EpochInv, TypeOK, Busy, Messages
<1>2. ~call'.busy /\ UNCHANGED <<robot, sent>>
  BY DEF apply_done, idle, network
<1>3. ModeInv' /\ CallEpoch'
  BY <1>2 DEF EpochInv, ModeInv, CallEpoch
<1>4. /\ new.occupancy = call.layer.occupancy /\ new.map_epoch = m.map_epoch
      /\ new.retired = call.layer.retired
  BY <1>1 DEF Layer
<1> HIDE DEF new
<1>5. ASSUME NEW t \in Sources, Evidence(t)
      PROVE  EpochsOf(t)'
  <2>1. EpochsOf(t)
    BY <1>5 DEF EpochInv
  <2>2. CASE layer'[t] = layer[t] /\ contact'[t] = contact[t]
    BY <2>1, <2>2 DEF EpochsOf, Heard
  <2>3. CASE /\ t = s /\ layer'[s] = new
             /\ contact'[s] = IF m.map_epoch \in Heard(s) THEN contact[s]
                              ELSE Append(contact[s], m.map_epoch)
    <3>1. /\ call.layer.occupancy /\ m.map_epoch \notin layer[t].retired
          /\ call.layer.retired = RetiredBy(layer[t], m.map_epoch)
      BY <1>1, <1>5, <2>3 DEF EpochInv, CallEpoch
    <3>2. contact[t] \in Seq(Epochs)
      BY <1>1 DEF EpochInv, TypeOK
    <3>5. /\ layer'[t] = new
          /\ contact'[t] = IF m.map_epoch \in Heard(t) THEN contact[t]
                           ELSE Append(contact[t], m.map_epoch)
      BY <2>3
    <3>6. new.map_epoch = m.map_epoch /\ new.occupancy /\ new.retired = call.layer.retired
      BY <1>4, <3>1
    <3> HIDE DEF s
    <3>3. CASE m.map_epoch \in Heard(t)
      <4>1. layer[t].occupancy
        BY <2>1, <3>3 DEF EpochsOf, Heard
      <4>2. layer[t].map_epoch = m.map_epoch
        BY <2>1, <3>1, <3>3, <4>1 DEF EpochsOf
      <4>3. /\ layer'[t].occupancy /\ layer'[t].map_epoch = m.map_epoch
            /\ layer'[t].retired = layer[t].retired /\ contact'[t] = contact[t]
        BY <3>1, <3>3, <3>5, <3>6, <4>2 DEF RetiredBy
      <4> QED BY <2>1, <4>1, <4>2, <4>3 DEF EpochsOf, Heard
    <3>4. CASE m.map_epoch \notin Heard(t)
      <4>1. contact'[t] = Append(contact[t], m.map_epoch)
        BY <3>4, <3>5
      <4>2. /\ contact'[t] # <<>> /\ contact'[t][Len(contact'[t])] = m.map_epoch
            /\ Heard(t)' = Heard(t) \cup {m.map_epoch}
        BY <1>1, <3>2, <4>1, AppendIs DEF Heard
      <4>3. Heard(t) = call.layer.retired
        <5>1. CASE layer[t].occupancy
          <6>1. Heard(t) = layer[t].retired \cup {layer[t].map_epoch}
            BY <2>1, <5>1 DEF EpochsOf
          <6> QED BY <3>1, <3>4, <5>1, <6>1 DEF RetiredBy
        <5>2. CASE ~layer[t].occupancy
          <6>1. contact[t] = <<>> /\ layer[t].retired = {}
            BY <2>1, <5>2 DEF EpochsOf
          <6>2. Heard(t) = {}
            BY <6>1 DEF Heard
          <6> QED BY <3>1, <5>2, <6>1, <6>2 DEF RetiredBy
        <5> QED BY <5>1, <5>2
      <4>4. /\ layer'[t].occupancy /\ layer'[t].map_epoch = m.map_epoch
            /\ layer'[t].retired = call.layer.retired
        BY <3>5, <3>6
      <4> QED BY <4>2, <4>3, <4>4 DEF EpochsOf
    <3> QED BY <3>3, <3>4
  <2>4. \/ layer' = layer /\ contact' = contact
        \/ /\ layer' = [layer EXCEPT ![s] = new]
           /\ contact' = [contact EXCEPT ![s] =
                 IF m.map_epoch \in Heard(s) THEN @ ELSE Append(@, m.map_epoch)]
    BY DEF apply_done, history, Heard, new
  <2>5. layer \in [Sources -> Layer] /\ contact \in [Sources -> Seq(Epochs)]
    BY DEF EpochInv, TypeOK
  <2> QED BY <1>1, <2>2, <2>3, <2>4, <2>5
<1> QED BY <1>2, <1>3, <1>5 DEF EpochInv, Evidence

LEMMA CallbackEpochs ==
    ASSUME EpochInv, TypeOK', NEW m \in sent, voxel_delta_callback(m)
    PROVE  EpochInv'
PROOF
<1>1. /\ m \in Messages /\ m.source \in Sources /\ m.mode = robot[m.source].mode
      /\ layer[m.source] \in Layer
  BY DEF EpochInv, TypeOK, Messages, ModeInv
<1>2. UNCHANGED <<robot, sent, contact>> /\ ~call.busy
  BY DEF voxel_delta_callback, on_evidence, sentinel, full_refresh, delta_before_layer,
         delta, begin, set_up, network, history, idle
<1>3. ASSUME NEW l, NEW kept, begin(m, l, kept),
             Evidence(m.source) =>
                /\ l.occupancy /\ l.map_epoch = m.map_epoch
                /\ m.map_epoch \notin layer[m.source].retired
                /\ l.retired = RetiredBy(layer[m.source], m.map_epoch)
      PROVE  EpochInv'
  <2>1. call'.busy /\ call'.msg = m /\ call'.layer = l /\ layer' = layer
    BY <1>3 DEF begin
  <2>2. ModeInv'
    BY <1>1, <1>2, <2>1 DEF EpochInv, ModeInv
  <2>3. CallEpoch'
    BY <1>2, <1>3, <2>1 DEF CallEpoch, Evidence
  <2>4. \A s \in Sources : Evidence(s)' => EpochsOf(s)'
    BY <1>2, <2>1 DEF EpochInv, Evidence, EpochsOf, Heard
  <2> QED BY <2>2, <2>3, <2>4 DEF EpochInv
<1>4. CASE on_evidence(m)
  <2> DEFINE l == layer[m.source]
             fresh == ~l.occupancy \/ l.map_epoch # m.map_epoch
             k == IF fresh THEN reset_remote_source(l, m.map_epoch) ELSE l
  <2>1. begin(m, k, ~fresh) /\ m.map_epoch \notin l.retired
    BY <1>4 DEF on_evidence
  <2>2. /\ k.occupancy /\ k.map_epoch = m.map_epoch
        /\ k.retired = RetiredBy(l, m.map_epoch)
    BY <1>1 DEF reset_remote_source, RetiredBy, EmptyLayer, Layer
  <2> HIDE DEF k, fresh
  <2> QED BY <1>3, <2>1, <2>2
<1>5. ASSUME m.mode = "map"
      PROVE  ~Evidence(m.source)
  BY <1>1, <1>5 DEF Evidence
<1>6. CASE sentinel(m) \/ delta_before_layer(m)
  <2>1. m.mode = "map" /\ set_up(m)
    BY <1>6 DEF sentinel, delta_before_layer
  <2>2. /\ call' = call
        /\ \A s \in Sources \ {m.source} : layer'[s] = layer[s]
    BY <2>1 DEF set_up, EpochInv, TypeOK
  <2>3. ModeInv' /\ CallEpoch'
    BY <1>2, <2>2 DEF EpochInv, ModeInv, CallEpoch
  <2>4. \A s \in Sources : Evidence(s)' => EpochsOf(s)'
    BY <1>2, <1>5, <2>1, <2>2 DEF EpochInv, Evidence, EpochsOf, Heard
  <2> QED BY <2>3, <2>4 DEF EpochInv
<1>7. CASE full_refresh(m) \/ delta(m)
  <2>1. m.mode = "map"
    BY <1>7 DEF full_refresh, delta
  <2> QED BY <1>3, <1>5, <1>7, <2>1 DEF full_refresh, delta
<1> QED BY <1>4, <1>6, <1>7 DEF voxel_delta_callback

LEMMA EpochStep == EpochInv /\ [Next]_vars => EpochInv'
PROOF
<1> SUFFICES ASSUME EpochInv, [Next]_vars
             PROVE  EpochInv'
  OBVIOUS
<1>1. TypeOK'
  BY TypeStep DEF EpochInv
<1>2. \A s \in Sources : robot[s] \in Robot
  BY DEF EpochInv, TypeOK
<1>3. ASSUME NEW s \in Sources, NEW r \in Reports[s], robot_observes(s, r[1], r[2])
      PROVE  EpochInv'
  <2> DEFINE e == [cell |-> r[1], kind |-> r[2], time |-> clock']
             n == [robot[s] EXCEPT !.version = @ + 1, !.map[r[1]] = e]
  <2>1. publish(s, n, FALSE, <<e>>)
    BY <1>3 DEF robot_observes
  <2>2. n.mode = robot[s].mode
    BY <1>2 DEF Robot
  <2> HIDE DEF n
  <2> QED BY <1>1, <2>1, <2>2, PublishEpochs
<1>4. ASSUME NEW s \in Sources, robot_refreshes(s)
      PROVE  EpochInv'
  <2> DEFINE n == [robot[s] EXCEPT !.refreshes = @ + 1]
  <2>1. PICK cells : publish(s, n, TRUE, cells)
    BY <1>4 DEF robot_refreshes
  <2>2. n.mode = robot[s].mode
    BY <1>2 DEF Robot
  <2> HIDE DEF n
  <2> QED BY <1>1, <2>1, <2>2, PublishEpochs
<1>5. ASSUME NEW s \in Sources, robot_restarts(s)
      PROVE  EpochInv'
  <2> DEFINE n == [robot[s] EXCEPT !.epoch = @ + 1, !.version = 0, !.map = NewMap]
  <2>1. publish(s, n, TRUE, <<>>)
    BY <1>5 DEF robot_restarts
  <2>2. n.mode = robot[s].mode
    BY <1>2 DEF Robot
  <2> HIDE DEF n
  <2> QED BY <1>1, <2>1, <2>2, PublishEpochs
<1>6. CASE UNCHANGED vars
  <2>1. ModeInv'
    BY <1>6 DEF vars, network, EpochInv, ModeInv
  <2> QED BY <1>1, <1>6, <2>1, SameEpochs DEF vars, network, history
<1> QED BY <1>1, <1>3, <1>4, <1>5, <1>6, ApplyEpochs, DoneEpochs, CallbackEpochs DEF Next

LEMMA EpochInit == Init => EpochInv
PROOF
<1> SUFFICES ASSUME Init
             PROVE  EpochInv
  OBVIOUS
<1>1. ~call.busy /\ sent = {}
  BY DEF Init, idle
<1>2. \A s \in Sources : EpochsOf(s)
  BY DEF Init, EpochsOf, EmptyLayer
<1> QED BY <1>1, <1>2, TypeInit DEF EpochInv, ModeInv, CallEpoch

(* A layer of mode 4 shows the epoch that it was the last to hear of:      *)
(* every epoch it left is retired, and a message of a retired one, however *)
(* late, is refused.                                                       *)
THEOREM NewestEpochShownHolds == Spec => []NewestEpochShown
PROOF
<1>1. EpochInv => NewestEpochShown
  BY DEF EpochInv, NewestEpochShown, Evidence, EpochsOf
<1> QED BY <1>1, EpochInit, EpochStep, PTL DEF Spec

-----------------------------------------------------------------------------
(* The map of a robot, version by version.  The deltas of an epoch up to a *)
(* version are the whole story of the robot's map at that version; each of *)
(* three things summarises it: what the robot itself remembers, the cells  *)
(* of a full refresh, and what a layer was told that skipped no version.   *)

CellsOf(m) == {m.cells[i] : i \in DOMAIN m.cells}
IsDelta(m, s, epoch) == m.source = s /\ ~m.full_refresh /\ m.map_epoch = epoch
Deltas(S, s, epoch, version) ==
    UNION {CellsOf(m) : m \in {n \in S : IsDelta(n, s, epoch) /\ n.version <= version}}

About(E, c) == {e \in E : e.cell = c}
Newest(E, e) == e \in E /\ \A f \in E : f.time <= e.time

(* A cell that was deleted last need not be told of.                       *)
Summarises(H, D) ==
    /\ H \subseteq D
    /\ \A c \in Cells :
          \/ About(D, c) = {}
          \/ \E e \in D : /\ Newest(About(D, c), e)
                         /\ \/ e \in H
                            \/ e.kind = "deleted" /\ About(H, c) = {}

Remembers(map, D) ==
    \A c \in Cells : IF About(D, c) = {} THEN map[c] = NoEntry
                                         ELSE Newest(About(D, c), map[c])

(* No later than what the robot has published.                             *)
Bounded(r, epoch, version) ==
    /\ epoch <= r.epoch
    /\ epoch = r.epoch => version <= r.version

(* Versions tell deltas apart, and time goes on with them.                 *)
SentInv ==
    /\ \A m \in sent :
          /\ Bounded(robot[m.source], m.map_epoch, m.version)
          /\ m.full_refresh =>
                Summarises(CellsOf(m), Deltas(sent, m.source, m.map_epoch, m.version))
          /\ ~m.full_refresh => \E e \in Entry : m.cells = <<e>> /\ e.time <= clock
    /\ \A m, n \in sent :
          ~m.full_refresh /\ IsDelta(n, m.source, m.map_epoch) =>
             /\ m.version = n.version => m.cells = n.cells
             /\ m.version < n.version => m.cells[1].time < n.cells[1].time

RobotInv ==
    \A s \in Sources : Remembers(robot[s].map, Deltas(sent, s, robot[s].epoch, robot[s].version))

(* The layers of the "map" modes, and the message on its way into one.     *)
LayerInv ==
    \A s \in Sources :
        LET l == layer[s]
        IN  robot[s].mode = "map" /\ Shown(l) =>
               /\ Bounded(robot[s], l.map_epoch, l.last_version)
               /\ ~gap[s] => Summarises(heard[s], Deltas(sent, s, l.map_epoch, l.last_version))

CallInv ==
    LET m == call.msg
        l == layer[m.source]
        told == TellsAll(m, call.at - 1)
    IN  call.busy =>
           /\ m \in sent
           /\ m.mode = "map" =>
                 IF m.full_refresh
                 THEN call.layer.last_version = 0 /\ call.heard = told
                 ELSE /\ call.layer.last_version = l.last_version
                      /\ call.heard = heard[m.source] \cup told
                      /\ Shown(l) /\ Follows(l, m)

VersionInv == SentInv /\ RobotInv /\ LayerInv /\ CallInv

(* Lemmas about summaries.  An entry newer than the story so far is the    *)
(* newest of its cell, and changes nothing for the other cells.            *)
LEMMA AboutMore ==
    ASSUME NEW D \in SUBSET Entry, NEW e \in Entry, \A f \in D : f.time < e.time
    PROVE  /\ Newest(About(D \cup {e}, e.cell), e)
           /\ \A c : c # e.cell => About(D \cup {e}, c) = About(D, c)
PROOF
<1>1. \A f \in D \cup {e} : f.time \in Int
  BY DEF Entry, Times
<1> QED BY <1>1 DEF About, Newest

LEMMA SummarisesMore ==
    ASSUME NEW D \in SUBSET Entry, NEW e \in Entry, \A f \in D : f.time < e.time,
           NEW H, Summarises(H, D)
    PROVE  Summarises(H \cup {e}, D \cup {e})
PROOF
<1>1. H \cup {e} \subseteq D \cup {e}
  BY DEF Summarises
<1>2. ASSUME NEW c \in Cells
      PROVE  \/ About(D \cup {e}, c) = {}
             \/ \E f \in D \cup {e} :
                   /\ Newest(About(D \cup {e}, c), f)
                   /\ \/ f \in H \cup {e}
                      \/ f.kind = "deleted" /\ About(H \cup {e}, c) = {}
  <2>1. CASE c = e.cell
    BY <2>1, AboutMore
  <2>2. CASE c # e.cell
    <3>1. About(D \cup {e}, c) = About(D, c) /\ About(H \cup {e}, c) = About(H, c)
      BY <2>2 DEF About
    <3> QED BY <3>1 DEF Summarises
  <2> QED BY <2>1, <2>2
<1> QED BY <1>1, <1>2 DEF Summarises

LEMMA RemembersMore ==
    ASSUME NEW D \in SUBSET Entry, NEW e \in Entry, \A f \in D : f.time < e.time,
           NEW map \in [Cells -> Entry \cup {NoEntry}], Remembers(map, D)
    PROVE  Remembers([map EXCEPT ![e.cell] = e], D \cup {e})
PROOF
<1> DEFINE n == [map EXCEPT ![e.cell] = e]
<1> SUFFICES ASSUME NEW c \in Cells
             PROVE  IF About(D \cup {e}, c) = {} THEN n[c] = NoEntry
                                                 ELSE Newest(About(D \cup {e}, c), n[c])
  BY DEF Remembers
<1>1. CASE c = e.cell
  <2>1. Newest(About(D \cup {e}, c), e) /\ n[c] = e
    BY <1>1, AboutMore
  <2> QED BY <2>1 DEF Newest
<1>2. CASE c # e.cell
  <2>1. About(D \cup {e}, c) = About(D, c) /\ n[c] = map[c]
    BY <1>2, AboutMore
  <2> QED BY <2>1 DEF Remembers
<1> QED BY <1>1, <1>2

(* All that a robot remembers, but for deleted cells, is a summary.        *)
LEMMA MemoryIsSummary ==
    ASSUME NEW D \in SUBSET Entry, NEW map \in [Cells -> Entry \cup {NoEntry}],
           Remembers(map, D)
    PROVE  Summarises({map[c] : c \in {d \in Cells : map[d].kind \notin {"none", "deleted"}}}, D)
PROOF
<1> DEFINE K == {d \in Cells : map[d].kind \notin {"none", "deleted"}}
           H == {map[c] : c \in K}
<1>1. ASSUME NEW c \in Cells, map[c].kind # "none"
      PROVE  Newest(About(D, c), map[c]) /\ map[c] \in D /\ map[c].cell = c
  <2>1. map[c] # NoEntry
    BY <1>1 DEF NoEntry
  <2> QED BY <2>1 DEF Remembers, Newest, About
<1>2. H \subseteq D
  BY <1>1
<1>3. ASSUME NEW c \in Cells, About(D, c) # {}
      PROVE  \E e \in D : /\ Newest(About(D, c), e)
                          /\ \/ e \in H
                             \/ e.kind = "deleted" /\ About(H, c) = {}
  <2>1. Newest(About(D, c), map[c]) /\ map[c] \in D
    BY <1>3 DEF Remembers, Newest, About
  <2>2. map[c].kind # "none"
    BY <2>1 DEF Entry, Kinds
  <2>3. CASE map[c].kind # "deleted"
    BY <2>1, <2>2, <2>3
  <2>4. CASE map[c].kind = "deleted"
    <3>1. ASSUME NEW h \in H PROVE h.cell # c
      <4>1. PICK d \in K : h = map[d]
        BY <3>1
      <4>2. h.cell = d
        BY <1>1, <4>1
      <4> QED BY <2>4, <4>1, <4>2
    <3>2. About(H, c) = {}
      BY <3>1 DEF About
    <3> QED BY <2>1, <2>4, <3>2
  <2> QED BY <2>3, <2>4
<1> QED BY <1>2, <1>3 DEF Summarises

-----------------------------------------------------------------------------
(* What a newly published message does to the story.                       *)

LEMMA DeltasAreEntries ==
    ASSUME TypeOK, NEW s, NEW epoch, NEW version
    PROVE  Deltas(sent, s, epoch, version) \in SUBSET Entry
PROOF
<1>1. ASSUME NEW m \in sent, NEW i \in DOMAIN m.cells PROVE m.cells[i] \in Entry
  <2>1. m.cells \in Seq(Entry)
    BY DEF TypeOK, Messages
  <2> QED BY <2>1
<1> QED BY <1>1 DEF Deltas, CellsOf

(* A robot goes on: it either restarts, or publishes the next version, or  *)
(* repeats the present one in full.                                        *)
GoesOn(s, r, full) ==
    \/ full /\ r.epoch > robot[s].epoch
    \/ full /\ r.epoch = robot[s].epoch /\ r.version = robot[s].version
    \/ ~full /\ r.epoch = robot[s].epoch /\ r.version = robot[s].version + 1

LEMMA BoundedStays ==
    ASSUME TypeOK, NEW s \in Sources, NEW r \in Robot, NEW full, GoesOn(s, r, full),
           robot' = [robot EXCEPT ![s] = r],
           NEW t \in Sources, NEW epoch \in Int, NEW version \in Int, Bounded(robot[t], epoch, version)
    PROVE  Bounded(robot'[t], epoch, version)
PROOF
<1>1. robot \in [Sources -> Robot]
  BY DEF TypeOK
<1>2. \A q \in Robot : q.epoch \in Int /\ q.version \in Int
  BY DEF Robot, Epochs
<1>3. robot'[t] = IF t = s THEN r ELSE robot[t]
  BY <1>1
<1> QED BY <1>1, <1>2, <1>3 DEF Bounded, GoesOn

LEMMA StoryStays ==
    ASSUME TypeOK, NEW s \in Sources, NEW r \in Robot, NEW full, NEW cells, GoesOn(s, r, full),
           sent' = sent \cup {Message(s, r, full, cells)},
           NEW t \in Sources, NEW epoch \in Int, NEW version \in Int, Bounded(robot[t], epoch, version)
    PROVE  Deltas(sent', t, epoch, version) = Deltas(sent, t, epoch, version)
PROOF
<1> DEFINE n == Message(s, r, full, cells)
<1>1. robot[s].version \in Int
  BY DEF TypeOK, Robot
<1>2. n.source = s /\ n.full_refresh = full /\ n.map_epoch = r.epoch /\ n.version = r.version
  BY DEF Message
<1>3. ~(IsDelta(n, t, epoch) /\ n.version <= version)
  BY <1>1, <1>2 DEF IsDelta, Bounded, GoesOn
<1> HIDE DEF n
<1>4. {k \in sent' : IsDelta(k, t, epoch) /\ k.version <= version}
         = {k \in sent : IsDelta(k, t, epoch) /\ k.version <= version}
  BY <1>3 DEF n
<1> QED BY <1>4 DEF Deltas

LEMMA PublishVersion ==
    ASSUME TypeOK, VersionInv, NEW s \in Sources, NEW r \in Robot, NEW full \in BOOLEAN,
           NEW cells \in Seq(Entry), publish(s, r, full, cells), GoesOn(s, r, full),
           r.mode = robot[s].mode, clock' \in Int, clock <= clock',
           full => Summarises(CellsOf(Message(s, r, full, cells)),
                              Deltas(sent', s, r.epoch, r.version)),
           ~full => \E e \in Entry : cells = <<e>> /\ e.time = clock' /\ e.time = clock + 1,
           Remembers(r.map, Deltas(sent', s, r.epoch, r.version))
    PROVE  VersionInv'
PROOF
<1> DEFINE n == Message(s, r, full, cells)
<1>1. /\ robot' = [robot EXCEPT ![s] = r] /\ sent' = sent \cup {n}
      /\ ~call.busy /\ call' = call /\ UNCHANGED <<layer, heard, gap>>
  BY DEF publish, idle, history
<1>2. /\ n.source = s /\ n.full_refresh = full /\ n.map_epoch = r.epoch
      /\ n.version = r.version /\ n.cells = cells
  BY DEF Message
<1>3. \A m \in sent : /\ m.source \in Sources /\ m.map_epoch \in Int /\ m.version \in Int
                      /\ m.cells \in Seq(Entry)
  BY DEF TypeOK, Messages, Epochs
<1>4. /\ robot \in [Sources -> Robot] /\ clock \in Int
      /\ robot[s].epoch \in Int /\ robot[s].version \in Int
      /\ r.epoch \in Int /\ r.version \in Int
  BY DEF TypeOK, Times, Robot, Epochs
<1> HIDE DEF n
<1>5. ASSUME NEW t \in Sources, NEW epoch \in Int, NEW version \in Int,
             Bounded(robot[t], epoch, version)
      PROVE  /\ Bounded(robot'[t], epoch, version)
             /\ Deltas(sent', t, epoch, version) = Deltas(sent, t, epoch, version)
  BY <1>1, <1>5, BoundedStays, StoryStays DEF n
<1>6. Bounded(robot'[s], r.epoch, r.version)
  BY <1>1, <1>4 DEF Bounded
<1>7. ASSUME NEW m \in sent'
      PROVE  /\ Bounded(robot'[m.source], m.map_epoch, m.version)
             /\ m.full_refresh =>
                   Summarises(CellsOf(m), Deltas(sent', m.source, m.map_epoch, m.version))
             /\ ~m.full_refresh => \E e \in Entry : m.cells = <<e>> /\ e.time <= clock'
  <2>1. CASE m = n
    <3>1. ~full => \E e \in Entry : m.cells = <<e>> /\ e.time <= clock'
      BY <1>2, <2>1
    <3>2. full => Summarises(CellsOf(n), Deltas(sent', n.source, n.map_epoch, n.version))
      BY <1>2 DEF n
    <3> QED BY <1>2, <1>6, <2>1, <3>1, <3>2
  <2>2. CASE m \in sent
    <3>1. /\ m.source \in Sources /\ m.map_epoch \in Int /\ m.version \in Int
          /\ Bounded(robot[m.source], m.map_epoch, m.version)
      BY <1>3, <2>2 DEF VersionInv, SentInv
    <3>2. ASSUME ~m.full_refresh PROVE \E e \in Entry : m.cells = <<e>> /\ e.time <= clock'
      <4>1. PICK e \in Entry : m.cells = <<e>> /\ e.time <= clock
        BY <2>2, <3>2 DEF VersionInv, SentInv
      <4>2. e.time \in Int
        BY DEF Entry, Times
      <4> QED BY <1>4, <4>1, <4>2
    <3>3. m.full_refresh => Summarises(CellsOf(m), Deltas(sent, m.source, m.map_epoch, m.version))
      BY <2>2 DEF VersionInv, SentInv
    <3> QED BY <1>5, <3>1, <3>2, <3>3
  <2> QED BY <1>1, <2>1, <2>2
<1>8. ASSUME NEW m \in sent', NEW k \in sent',
             ~m.full_refresh, IsDelta(k, m.source, m.map_epoch)
      PROVE  /\ m.version = k.version => m.cells = k.cells
             /\ m.version < k.version => m.cells[1].time < k.cells[1].time
  <2>1. CASE m \in sent /\ k \in sent
    BY <1>8, <2>1 DEF VersionInv, SentInv
  <2>2. CASE m = n /\ k = n
    BY <1>2, <1>4, <2>2
  <2>3. ASSUME NEW o \in sent, ~o.full_refresh, ~full, o.source = s, o.map_epoch = r.epoch
        PROVE  o.version < r.version /\ o.cells[1].time < n.cells[1].time
    <3>1. Bounded(robot[s], r.epoch, o.version) /\ r.epoch = robot[s].epoch
          /\ r.version = robot[s].version + 1
      BY <2>3 DEF VersionInv, SentInv, GoesOn
    <3>2. o.version < r.version
      BY <1>3, <1>4, <3>1 DEF Bounded
    <3>3. PICK e \in Entry : o.cells = <<e>> /\ e.time <= clock
      BY <2>3 DEF VersionInv, SentInv
    <3>4. PICK f \in Entry : n.cells = <<f>> /\ f.time = clock + 1
      BY <1>2, <2>3
    <3>5. e.time \in Int /\ f.time \in Int
      BY DEF Entry, Times
    <3> QED BY <1>4, <3>2, <3>3, <3>4, <3>5
  <2>4. CASE m \in sent /\ k = n
    <3>1. m.source = s /\ m.map_epoch = r.epoch /\ ~full
      BY <1>2, <1>8, <2>4 DEF IsDelta
    <3>2. m.version < r.version /\ m.cells[1].time < n.cells[1].time
      BY <1>8, <2>3, <2>4, <3>1
    <3> QED BY <1>2, <1>3, <1>4, <2>4, <3>2
  <2>5. CASE m = n /\ k \in sent
    <3>1. k.source = s /\ k.map_epoch = r.epoch /\ ~full /\ ~k.full_refresh
      BY <1>2, <1>8, <2>5 DEF IsDelta
    <3>2. k.version < r.version
      BY <2>3, <2>5, <3>1
    <3> QED BY <1>2, <1>3, <1>4, <2>5, <3>2
  <2> QED BY <1>1, <2>1, <2>2, <2>4, <2>5
<1>9. SentInv'
  BY <1>7, <1>8 DEF SentInv, IsDelta
<1>10. RobotInv'
  <2> SUFFICES ASSUME NEW t \in Sources
               PROVE  Remembers(robot'[t].map,
                                Deltas(sent', t, robot'[t].epoch, robot'[t].version))
    BY DEF RobotInv
  <2>1. CASE t = s
    BY <1>1, <1>4, <2>1
  <2>2. CASE t # s
    <3>1. robot'[t] = robot[t] /\ robot[t].epoch \in Int /\ robot[t].version \in Int
      BY <1>1, <1>4, <2>2 DEF Robot, Epochs
    <3>2. Bounded(robot[t], robot[t].epoch, robot[t].version)
      BY <3>1 DEF Bounded
    <3>3. Remembers(robot[t].map, Deltas(sent, t, robot[t].epoch, robot[t].version))
      BY DEF VersionInv, RobotInv
    <3> QED BY <1>5, <3>1, <3>2, <3>3
  <2> QED BY <2>1, <2>2
<1>11. LayerInv' /\ CallInv'
  <2>1. ASSUME NEW t \in Sources, robot'[t].mode = "map", Shown(layer[t])
        PROVE  LET l == layer[t]
               IN  /\ Bounded(robot'[t], l.map_epoch, l.last_version)
                   /\ ~gap[t] => Summarises(heard[t], Deltas(sent', t, l.map_epoch, l.last_version))
    <3>1. robot[t].mode = "map"
      BY <1>1, <1>4, <2>1
    <3>2. layer[t].map_epoch \in Int /\ layer[t].last_version \in Int
      BY DEF TypeOK, Layer
    <3> QED BY <1>5, <2>1, <3>1, <3>2 DEF VersionInv, LayerInv
  <2> QED BY <1>1, <2>1 DEF LayerInv, CallInv
<1> QED BY <1>9, <1>10, <1>11 DEF VersionInv

(* The entries of a story, and what a new delta adds to the robot's own.   *)
LEMMA DeltaIs ==
    ASSUME SentInv, NEW s, NEW epoch, NEW version, NEW e \in Deltas(sent, s, epoch, version)
    PROVE  \E m \in sent : /\ IsDelta(m, s, epoch) /\ m.version <= version
                           /\ m.cells = <<e>> /\ e.time <= clock
PROOF
<1>1. PICK m \in sent : /\ IsDelta(m, s, epoch) /\ m.version <= version
                        /\ e \in CellsOf(m)
  BY DEF Deltas
<1>2. PICK f \in Entry : m.cells = <<f>> /\ f.time <= clock
  BY <1>1 DEF SentInv, IsDelta
<1>3. e = f
  BY <1>1, <1>2 DEF CellsOf
<1> QED BY <1>1, <1>2, <1>3

LEMMA NextDelta ==
    ASSUME TypeOK, VersionInv, NEW s \in Sources, NEW r \in Robot, NEW e \in Entry,
           r.epoch = robot[s].epoch, r.version = robot[s].version + 1,
           sent' = sent \cup {Message(s, r, FALSE, <<e>>)}
    PROVE  Deltas(sent', s, r.epoch, r.version)
              = Deltas(sent, s, robot[s].epoch, robot[s].version) \cup {e}
PROOF
<1> DEFINE n == Message(s, r, FALSE, <<e>>)
<1>1. /\ IsDelta(n, s, r.epoch) /\ n.version = r.version /\ n.cells = <<e>>
      /\ n \in sent'
  BY DEF Message, IsDelta
<1>2. robot[s].version \in Int /\ robot[s].epoch \in Int
  BY DEF TypeOK, Robot, Epochs
<1>3. sent' = sent \cup {n}
  OBVIOUS
<1> HIDE DEF n
<1>4. CellsOf(n) = {e}
  BY <1>1 DEF CellsOf
<1>5. ASSUME NEW m \in sent, IsDelta(m, s, r.epoch)
      PROVE  m.version <= robot[s].version /\ m.version <= r.version
  <2>1. Bounded(robot[s], r.epoch, m.version) /\ m.version \in Int
    BY <1>5 DEF VersionInv, SentInv, IsDelta, TypeOK, Messages
  <2> QED BY <1>2, <2>1 DEF Bounded
<1>6. {m \in sent' : IsDelta(m, s, r.epoch) /\ m.version <= r.version}
         = {m \in sent : IsDelta(m, s, robot[s].epoch) /\ m.version <= robot[s].version} \cup {n}
  <2>1. r.version <= r.version
    BY <1>2
  <2> QED BY <1>1, <1>3, <1>5, <2>1
<1> QED BY <1>4, <1>6 DEF Deltas

LEMMA ObserveVersion ==
    ASSUME TypeOK, VersionInv, NEW s \in Sources, NEW c \in Cells, NEW k \in Kinds,
           robot_observes(s, c, k)
    PROVE  VersionInv'
PROOF
<1> DEFINE e == [cell |-> c, kind |-> k, time |-> clock']
           r == [robot[s] EXCEPT !.version = @ + 1, !.map[c] = e]
           map == [robot[s].map EXCEPT ![c] = e]
           D == Deltas(sent, s, robot[s].epoch, robot[s].version)
<1>1. robot[s] \in Robot /\ clock \in Int /\ clock' = clock + 1 /\ clock' \in Times
  BY BoundsAssumption DEF TypeOK, Times, robot_observes
<1>2. e \in Entry /\ e.time = clock' /\ e.cell = c
  BY <1>1 DEF Entry
<1>3. publish(s, r, FALSE, <<e>>)
  BY DEF robot_observes
<1>4. /\ r.mode = robot[s].mode /\ r.epoch = robot[s].epoch
      /\ r.version = robot[s].version + 1 /\ r.map = map
  BY <1>1 DEF Robot
<1>5. map \in [Cells -> Entry \cup {NoEntry}]
  BY <1>1, <1>2 DEF Robot
<1>6. r \in Robot
  <2> DEFINE q == robot[s]
  <2>1. r = [q EXCEPT !.version = @ + 1, !.map = map] /\ q \in Robot /\ q.version + 1 \in Nat
    BY <1>1 DEF Robot
  <2> HIDE DEF r, map, q
  <2> QED BY <1>5, <2>1 DEF Robot
<1> HIDE DEF e, r
<1>7. GoesOn(s, r, FALSE)
  BY <1>4 DEF GoesOn
<1>8. sent' = sent \cup {Message(s, r, FALSE, <<e>>)}
  BY <1>3 DEF publish
<1>9. Deltas(sent', s, r.epoch, r.version) = D \cup {e}
  BY <1>2, <1>4, <1>6, <1>8, NextDelta
<1>10. Remembers(r.map, Deltas(sent', s, r.epoch, r.version))
  <2>1. D \in SUBSET Entry
    BY DeltasAreEntries
  <2>2. \A f \in D : f.time < e.time
    <3>1. \A f \in D : f.time <= clock /\ f.time \in Int
      BY <2>1, DeltaIs DEF VersionInv, Entry, Times
    <3> QED BY <1>1, <1>2, <3>1
  <2>3. Remembers(robot[s].map, D) /\ robot[s].map \in [Cells -> Entry \cup {NoEntry}]
    BY <1>1 DEF VersionInv, RobotInv, Robot
  <2> HIDE DEF D
  <2>4. Remembers([robot[s].map EXCEPT ![e.cell] = e], D \cup {e})
    BY <1>2, <2>1, <2>2, <2>3, RemembersMore
  <2> QED BY <1>2, <1>4, <1>9, <2>4
<1>11. \E f \in Entry : <<e>> = <<f>> /\ f.time = clock' /\ f.time = clock + 1
  BY <1>1, <1>2
<1>12. <<e>> \in Seq(Entry) /\ clock' \in Int /\ clock <= clock'
  BY <1>1, <1>2
<1> QED BY <1>3, <1>4, <1>6, <1>7, <1>10, <1>11, <1>12, PublishVersion

LEMMA RefreshVersion ==
    ASSUME TypeOK, VersionInv, NEW s \in Sources, robot_refreshes(s)
    PROVE  VersionInv'
PROOF
<1> DEFINE r == [robot[s] EXCEPT !.refreshes = @ + 1]
           K == Known(robot[s])
           D == Deltas(sent, s, robot[s].epoch, robot[s].version)
<1>1. PICK q \in [1 .. Cardinality(K) -> K] :
         /\ \A c \in K : \E i \in DOMAIN q : q[i] = c
         /\ publish(s, r, TRUE, [i \in DOMAIN q |-> robot[s].map[q[i]]])
  BY DEF robot_refreshes
<1> DEFINE cells == [i \in DOMAIN q |-> robot[s].map[q[i]]]
           n == Message(s, r, TRUE, cells)
<1>2. robot[s] \in Robot /\ clock \in Int /\ clock' = clock
  BY DEF TypeOK, Times, robot_refreshes
<1>3. /\ r \in Robot /\ r.mode = robot[s].mode /\ r.epoch = robot[s].epoch
      /\ r.version = robot[s].version /\ r.map = robot[s].map
  BY <1>2 DEF Robot
<1>4. cells \in Seq(Entry)
  BY <1>2, RefreshCells
<1>5. CellsOf(n) = {robot[s].map[c] : c \in K}
  <2>1. n.cells = cells
    BY DEF Message
  <2> HIDE DEF n
  <2> QED BY <1>1, <2>1 DEF CellsOf
<1>6. sent' = sent \cup {n} /\ publish(s, r, TRUE, cells)
  BY <1>1 DEF publish
<1>7. GoesOn(s, r, TRUE) /\ Bounded(robot[s], r.epoch, r.version)
  BY <1>2, <1>3 DEF GoesOn, Bounded, Robot, Epochs
<1> HIDE DEF r, cells
<1>8. Deltas(sent', s, r.epoch, r.version) = D
  <2>1. r.epoch \in Int /\ r.version \in Int
    BY <1>3 DEF Robot, Epochs
  <2>2. Deltas(sent', s, r.epoch, r.version) = Deltas(sent, s, r.epoch, r.version)
    BY <1>3, <1>6, <1>7, <2>1, StoryStays
  <2> QED BY <1>3, <2>2
<1>9. Remembers(robot[s].map, D)
  BY DEF VersionInv, RobotInv
<1>10. Summarises(CellsOf(n), D)
  <2>1. D \in SUBSET Entry /\ robot[s].map \in [Cells -> Entry \cup {NoEntry}]
    BY <1>2, DeltasAreEntries DEF Robot
  <2>2. K = {d \in Cells : robot[s].map[d].kind \notin {"none", "deleted"}}
    BY DEF Known
  <2> HIDE DEF D, n, K
  <2> QED BY <1>5, <1>9, <2>1, <2>2, MemoryIsSummary
<1>11. clock' \in Int /\ clock <= clock'
  BY <1>2
<1> QED BY <1>3, <1>4, <1>6, <1>7, <1>8, <1>9, <1>10, <1>11, PublishVersion

LEMMA RestartVersion ==
    ASSUME TypeOK, VersionInv, NEW s \in Sources, robot_restarts(s)
    PROVE  VersionInv'
PROOF
<1> DEFINE r == [robot[s] EXCEPT !.epoch = @ + 1, !.version = 0, !.map = NewMap]
           n == Message(s, r, TRUE, <<>>)
<1>1. robot[s] \in Robot /\ clock \in Int /\ clock' = clock /\ robot[s].epoch + 1 \in Epochs
  BY BoundsAssumption DEF TypeOK, Times, robot_restarts, Robot, Epochs
<1>2. /\ r \in Robot /\ r.mode = robot[s].mode /\ r.epoch = robot[s].epoch + 1
      /\ r.version = 0 /\ r.map = NewMap
  BY <1>1, ConstantTypes DEF Robot
<1>3. publish(s, r, TRUE, <<>>) /\ sent' = sent \cup {n}
  BY DEF robot_restarts, publish
<1> HIDE DEF r
<1>4. robot[s].epoch \in Int /\ robot[s].version \in Int
  BY <1>1 DEF Robot, Epochs
<1>5. GoesOn(s, r, TRUE)
  BY <1>2, <1>4 DEF GoesOn
<1>6. n.full_refresh /\ n.cells = <<>>
  BY DEF Message
<1> HIDE DEF n
<1>7. \A m \in sent' : ~IsDelta(m, s, r.epoch)
  <2>1. ASSUME NEW m \in sent, m.source = s PROVE m.map_epoch # r.epoch
    <3>1. Bounded(robot[s], m.map_epoch, m.version) /\ m.map_epoch \in Int
      BY <2>1 DEF VersionInv, SentInv, TypeOK, Messages, Epochs
    <3> QED BY <1>2, <1>4, <3>1 DEF Bounded
  <2> QED BY <1>3, <1>6, <2>1 DEF IsDelta
<1>8. Deltas(sent', s, r.epoch, r.version) = {} /\ CellsOf(n) = {}
  BY <1>6, <1>7 DEF Deltas, CellsOf
<1>9. Remembers(r.map, {}) /\ Summarises({}, {})
  BY <1>2 DEF Remembers, Summarises, About, NewMap
<1>10. <<>> \in Seq(Entry) /\ clock' \in Int /\ clock <= clock'
  BY <1>1
<1> QED BY <1>2, <1>3, <1>5, <1>8, <1>9, <1>10, PublishVersion DEF n

-----------------------------------------------------------------------------
(* What a message does to the story of the layer it is applied to.         *)

LEMMA SameNetwork ==
    ASSUME VersionInv, UNCHANGED network
    PROVE  SentInv' /\ RobotInv' /\ (UNCHANGED <<layer, heard, gap>> => LayerInv')
PROOF
<1>1. robot' = robot /\ sent' = sent /\ clock' = clock
  BY DEF network
<1>2. SentInv'
  BY <1>1 DEF VersionInv, SentInv
<1>3. RobotInv'
  BY <1>1 DEF VersionInv, RobotInv
<1>4. UNCHANGED <<layer, heard, gap>> => LayerInv'
  BY <1>1 DEF VersionInv, LayerInv
<1> QED BY <1>2, <1>3, <1>4

LEMMA BeginVersion ==
    ASSUME VersionInv, NEW m \in sent, NEW l, NEW kept, begin(m, l, kept),
           m.mode = "map" =>
              IF m.full_refresh
              THEN ~kept /\ l.last_version = 0
              ELSE kept /\ l = layer[m.source] /\ Shown(l) /\ Follows(l, m)
    PROVE  VersionInv'
PROOF
<1>1. SentInv' /\ RobotInv' /\ LayerInv'
  BY SameNetwork DEF begin, history
<1>2. TellsAll(m, 0) = {}
  BY DEF TellsAll
<1>3. /\ call'.busy /\ call'.msg = m /\ call'.at - 1 = 0 /\ call'.layer = l
      /\ call'.heard = (IF kept THEN heard[m.source] ELSE {})
      /\ layer' = layer /\ heard' = heard /\ sent' = sent
  BY DEF begin, network, history
<1>4. TellsAll(m, call'.at - 1) = {}
  BY <1>2, <1>3
<1>5. CallInv'
  BY <1>3, <1>4 DEF CallInv
<1> QED BY <1>1, <1>5 DEF VersionInv

LEMMA CallbackVersion ==
    ASSUME TypeOK, VersionInv, NEW m \in sent, voxel_delta_callback(m)
    PROVE  VersionInv'
PROOF
<1>1. m.source \in Sources /\ layer \in [Sources -> Layer]
  BY DEF TypeOK, Messages
<1>2. CASE on_evidence(m)
  <2>1. m.mode # "map" /\ \E l, kept : begin(m, l, kept)
    BY <1>2 DEF on_evidence
  <2> QED BY <2>1, BeginVersion
<1>3. CASE full_refresh(m)
  <2> DEFINE k == reset_remote_source(EmptyLayer, m.map_epoch)
  <2>1. m.full_refresh /\ begin(m, k, FALSE) /\ k.last_version = 0
    BY <1>3 DEF full_refresh, reset_remote_source, EmptyLayer
  <2> HIDE DEF k
  <2> QED BY <2>1, BeginVersion
<1>4. CASE delta(m)
  <2>1. /\ ~m.full_refresh /\ begin(m, layer[m.source], TRUE)
        /\ Shown(layer[m.source]) /\ Follows(layer[m.source], m)
    BY <1>4 DEF delta, Follows, Shown
  <2> QED BY <2>1, BeginVersion
<1>5. CASE sentinel(m) \/ delta_before_layer(m)
  <2>1. /\ layer' = [layer EXCEPT ![m.source] = reset_remote_source(@, m.map_epoch)]
        /\ UNCHANGED <<network, call, heard, gap>>
    BY <1>5 DEF sentinel, delta_before_layer, set_up, history
  <2>2. SentInv' /\ RobotInv'
    BY <2>1, SameNetwork
  <2>3. ~Shown(layer'[m.source]) /\ \A t \in Sources \ {m.source} : layer'[t] = layer[t]
    BY <1>1, <2>1 DEF reset_remote_source, EmptyLayer, Shown
  <2>4. LayerInv'
    <3>1. robot' = robot /\ sent' = sent /\ heard' = heard /\ gap' = gap
      BY <2>1 DEF network
    <3> QED BY <2>3, <3>1 DEF VersionInv, LayerInv
  <2>5. ~call'.busy
    BY <2>1 DEF voxel_delta_callback, idle
  <2> QED BY <2>2, <2>4, <2>5 DEF VersionInv, CallInv
<1> QED BY <1>2, <1>3, <1>4, <1>5 DEF voxel_delta_callback

LEMMA ApplyVersion ==
    ASSUME TypeOK, VersionInv, apply_next
    PROVE  VersionInv'
PROOF
<1> DEFINE m == call.msg
           n == call.at
           e == m.cells[n]
<1>1. call.busy /\ call \in Busy /\ n \in Nat \ {0} /\ n <= Len(m.cells)
  BY CallIs DEF apply_next, TypeOK, Busy
<1>2. /\ call' = [call EXCEPT !.at = @ + 1, !.layer = apply_voxel(@, e),
                              !.heard = @ \cup {e}]
      /\ UNCHANGED <<network, layer, heard, gap>>
  BY DEF apply_next, history
<1>3. apply_voxel(call.layer, e).last_version = call.layer.last_version
  BY <1>1 DEF apply_voxel, Busy, Layer
<1>4. TellsAll(m, n) = TellsAll(m, n - 1) \cup {e}
  BY <1>1 DEF TellsAll
<1> HIDE DEF e
<1>5. /\ call'.busy /\ call'.msg = m /\ call'.at = n + 1 /\ call'.heard = call.heard \cup {e}
      /\ call'.layer.last_version = call.layer.last_version
  BY <1>1, <1>2, <1>3 DEF Busy
<1>6. sent' = sent /\ layer' = layer /\ heard' = heard
  BY <1>2 DEF network
<1>7. TellsAll(m, call'.at - 1) = TellsAll(m, n - 1) \cup {e}
  BY <1>1, <1>4, <1>5
<1>8. CallInv'
  BY <1>1, <1>5, <1>6, <1>7 DEF VersionInv, CallInv
<1> QED BY <1>2, <1>8, SameNetwork DEF VersionInv

(* A delta that skips no version adds its own entry to the story.          *)
LEMMA FollowingDelta ==
    ASSUME TypeOK, SentInv, NEW m \in sent, ~m.full_refresh, NEW v \in Nat, m.version = v + 1,
           NEW H, Summarises(H, Deltas(sent, m.source, m.map_epoch, v))
    PROVE  Summarises(H \cup CellsOf(m), Deltas(sent, m.source, m.map_epoch, m.version))
PROOF
<1> DEFINE s == m.source
           ep == m.map_epoch
           D == Deltas(sent, s, ep, v)
<1>1. \A k \in sent : k.version \in Nat
  BY DEF TypeOK, Messages
<1>2. PICK e \in Entry : m.cells = <<e>> /\ e.time <= clock
  BY DEF SentInv
<1>3. CellsOf(m) = {e} /\ m.cells[1] = e
  BY <1>2 DEF CellsOf
<1>4. D \in SUBSET Entry
  BY DeltasAreEntries
<1>5. ASSUME NEW f \in D PROVE f.time < e.time
  <2>1. PICK k \in sent : IsDelta(k, s, ep) /\ k.version <= v /\ k.cells = <<f>>
    BY <1>5, DeltaIs
  <2>2. k.version < m.version /\ k.cells[1] = f
    BY <1>1, <2>1
  <2>3. IsDelta(m, k.source, k.map_epoch) /\ ~k.full_refresh
    BY <2>1 DEF IsDelta
  <2> QED BY <1>3, <2>2, <2>3 DEF SentInv
<1>6. Deltas(sent, s, ep, m.version) = D \cup {e}
  <2>1. IsDelta(m, s, ep) /\ m.version <= m.version
    BY <1>1 DEF IsDelta
  <2>2. e \in Deltas(sent, s, ep, m.version)
    BY <1>3, <2>1 DEF Deltas
  <2>3. D \subseteq Deltas(sent, s, ep, m.version)
    BY <1>1 DEF Deltas
  <2>4. ASSUME NEW f \in Deltas(sent, s, ep, m.version) PROVE f \in D \cup {e}
    <3>1. PICK k \in sent : IsDelta(k, s, ep) /\ k.version <= m.version /\ f \in CellsOf(k)
      BY <2>4 DEF Deltas
    <3>2. CASE k.version = m.version
      <4>1. k.cells = m.cells
        BY <3>1, <3>2 DEF SentInv
      <4> QED BY <1>3, <3>1, <4>1 DEF CellsOf
    <3>3. CASE k.version # m.version
      <4>1. k.version <= v
        BY <1>1, <3>1, <3>3
      <4> QED BY <3>1, <4>1 DEF Deltas
    <3> QED BY <3>2, <3>3
  <2> QED BY <2>2, <2>3, <2>4
<1> HIDE DEF D
<1> QED BY <1>3, <1>4, <1>5, <1>6, SummarisesMore DEF D

LEMMA DoneVersion ==
    ASSUME IInv, EpochInv, VersionInv, apply_done
    PROVE  VersionInv'
PROOF
<1> DEFINE m == call.msg
           s == m.source
           l == layer[s]
           new == [call.layer EXCEPT !.map_epoch = m.map_epoch,
                                     !.last_version = Larger(@, m.version),
                                     !.awaiting = FALSE]
           refresh == m.mode = "map" /\ m.full_refresh
<1>1. /\ call.busy /\ call \in Busy /\ m \in Messages /\ s \in Sources
      /\ m.version \in Nat /\ call.layer \in Layer /\ l \in Layer /\ l.last_version \in Nat
  BY CallIs DEF apply_done, IInv, TypeOK, Busy, Messages, Layer
<1>2. call.at - 1 = Len(m.cells) /\ m.cells \in Seq(Entry)
  BY <1>1 DEF apply_done, IInv, CopyInv, Busy, Messages
<1>3. TellsAll(m, call.at - 1) = CellsOf(m)
  BY <1>2 DEF TellsAll, CellsOf
<1>4. m.mode = robot[s].mode
  BY <1>1 DEF EpochInv, ModeInv
<1>5. ~call'.busy /\ UNCHANGED network
  BY DEF apply_done, idle
<1>6. SentInv' /\ RobotInv' /\ (UNCHANGED <<layer, heard, gap>> => LayerInv')
  BY <1>5, SameNetwork
<1>7. new.map_epoch = m.map_epoch /\ new.last_version = Larger(call.layer.last_version, m.version)
  BY <1>1 DEF Layer
<1> HIDE DEF new
<1>8. ASSUME m.mode = "map"
      PROVE  /\ Bounded(robot[s], new.map_epoch, new.last_version)
             /\ ~(IF refresh THEN FALSE ELSE gap[s] \/ m.version > l.last_version + 1)
                  => Summarises(call.heard,
                                Deltas(sent, s, new.map_epoch, new.last_version))
  <2>1. m \in sent /\ Bounded(robot[s], m.map_epoch, m.version)
    BY <1>1 DEF VersionInv, CallInv, SentInv
  <2>2. CASE m.full_refresh
    <3>1. call.layer.last_version = 0 /\ call.heard = CellsOf(m)
      BY <1>1, <1>3, <1>8, <2>2 DEF VersionInv, CallInv
    <3>2. new.last_version = m.version
      BY <1>1, <1>7, <3>1 DEF Larger
    <3>3. Summarises(CellsOf(m), Deltas(sent, s, m.map_epoch, m.version))
      BY <2>1, <2>2 DEF VersionInv, SentInv
    <3> QED BY <1>7, <2>1, <3>1, <3>2, <3>3
  <2>3. CASE ~m.full_refresh
    <3>1. /\ call.layer.last_version = l.last_version
          /\ call.heard = heard[s] \cup CellsOf(m)
          /\ Shown(l) /\ l.map_epoch = m.map_epoch /\ m.version > l.last_version
      BY <1>1, <1>3, <1>8, <2>3 DEF VersionInv, CallInv, Follows
    <3>2. new.last_version = m.version
      BY <1>1, <1>7, <3>1 DEF Larger
    <3>3. ASSUME ~gap[s], ~(m.version > l.last_version + 1)
          PROVE  Summarises(heard[s] \cup CellsOf(m), Deltas(sent, s, m.map_epoch, m.version))
      <4>1. m.version = l.last_version + 1
        BY <1>1, <3>1, <3>3
      <4>2. Summarises(heard[s], Deltas(sent, s, m.map_epoch, l.last_version))
        BY <1>1, <1>4, <1>8, <3>1, <3>3 DEF VersionInv, LayerInv
      <4> QED BY <1>1, <2>1, <2>3, <4>1, <4>2, FollowingDelta DEF IInv, VersionInv
    <3> QED BY <1>7, <2>1, <2>3, <3>1, <3>2, <3>3
  <2> QED BY <2>2, <2>3
<1>9. LayerInv'
  <2>1. CASE UNCHANGED <<layer, heard, gap>>
    BY <1>6, <2>1
  <2>2. CASE /\ layer' = [layer EXCEPT ![s] = new]
             /\ heard' = [heard EXCEPT ![s] = call.heard]
             /\ gap' = [gap EXCEPT ![s] =
                   IF refresh THEN FALSE ELSE @ \/ m.version > l.last_version + 1]
    <3>1. robot' = robot /\ sent' = sent
      BY <1>5 DEF network
    <3>2. /\ layer \in [Sources -> Layer] /\ heard \in [Sources -> SUBSET Entry]
          /\ gap \in [Sources -> BOOLEAN]
      BY DEF IInv, TypeOK
    <3>3. ASSUME NEW t \in Sources, t # s
          PROVE  layer'[t] = layer[t] /\ heard'[t] = heard[t] /\ gap'[t] = gap[t]
      BY <2>2, <3>2, <3>3
    <3>4. /\ layer'[s] = new /\ heard'[s] = call.heard
          /\ gap'[s] = IF refresh THEN FALSE ELSE gap[s] \/ m.version > l.last_version + 1
      BY <1>1, <2>2, <3>2
    <3>5. ASSUME NEW t \in Sources, robot[t].mode = "map", Shown(layer'[t])
          PROVE  /\ Bounded(robot[t], layer'[t].map_epoch, layer'[t].last_version)
                 /\ ~gap'[t] => Summarises(heard'[t],
                       Deltas(sent, t, layer'[t].map_epoch, layer'[t].last_version))
      <4>1. CASE t = s
        BY <1>4, <1>8, <3>4, <3>5, <4>1
      <4>2. CASE t # s
        BY <3>3, <3>5, <4>2 DEF VersionInv, LayerInv
      <4> QED BY <4>1, <4>2
    <3> QED BY <3>1, <3>5 DEF LayerInv
  <2> QED BY <2>1, <2>2 DEF apply_done, history, new
<1> QED BY <1>5, <1>6, <1>9 DEF VersionInv, CallInv

-----------------------------------------------------------------------------
(* The layer shows the robot's map.                                        *)

VersionStory == IInv /\ EpochInv /\ VersionInv

LEMMA VersionStep == VersionStory /\ [Next]_vars => VersionStory'
PROOF
<1> SUFFICES ASSUME VersionStory, [Next]_vars
             PROVE  VersionInv'
  BY InvStep, EpochStep DEF VersionStory
<1>1. TypeOK /\ VersionInv
  BY DEF VersionStory, IInv
<1>2. ASSUME NEW s \in Sources, NEW r \in Reports[s], robot_observes(s, r[1], r[2])
      PROVE  VersionInv'
  <2>1. r[1] \in Cells /\ r[2] \in Kinds
    BY ReportsAssumption DEF Kinds
  <2> QED BY <1>1, <1>2, <2>1, ObserveVersion
<1>3. CASE UNCHANGED vars
  <2>1. UNCHANGED <<network, layer, heard, gap>> /\ call' = call
    BY <1>3 DEF vars, history
  <2>2. CallInv'
    BY <1>1, <2>1 DEF network, VersionInv, CallInv
  <2> QED BY <1>1, <2>1, <2>2, SameNetwork DEF VersionInv
<1> QED BY <1>1, <1>2, <1>3, RefreshVersion, RestartVersion, CallbackVersion, ApplyVersion,
           DoneVersion DEF Next, VersionStory

LEMMA VersionInit == Init => VersionStory
PROOF
<1> SUFFICES ASSUME Init
             PROVE  VersionInv
  BY InvInit, EpochInit DEF VersionStory
<1>1. sent = {} /\ ~call.busy /\ \A s \in Sources : ~Shown(layer[s])
  BY DEF Init, idle, EmptyLayer, Shown
<1>2. \A s \in Sources : robot[s].map = NewMap
  BY DEF Init
<1>3. \A s, epoch, version : Deltas(sent, s, epoch, version) = {}
  BY <1>1 DEF Deltas
<1>4. RobotInv
  BY <1>2, <1>3 DEF RobotInv, Remembers, About, NewMap
<1> QED BY <1>1, <1>4 DEF VersionInv, SentInv, LayerInv, CallInv

(* Two entries of a robot's epoch of one time are one entry.               *)
LEMMA TimesTell ==
    ASSUME TypeOK, SentInv, NEW s, NEW epoch, NEW version,
           NEW e \in Deltas(sent, s, epoch, version), NEW f \in Deltas(sent, s, epoch, version),
           e.time = f.time
    PROVE  e = f
PROOF
<1>1. PICK m \in sent : IsDelta(m, s, epoch) /\ m.cells = <<e>>
  BY DeltaIs
<1>2. PICK n \in sent : IsDelta(n, s, epoch) /\ n.cells = <<f>>
  BY DeltaIs
<1>3. m.version \in Nat /\ n.version \in Nat
  BY DEF TypeOK, Messages
<1>4. m.cells[1] = e /\ n.cells[1] = f
  BY <1>1, <1>2
<1>5. e.time \in Int
  BY DeltasAreEntries DEF Entry, Times
<1>6. /\ ~m.full_refresh /\ IsDelta(n, m.source, m.map_epoch)
      /\ ~n.full_refresh /\ IsDelta(m, n.source, n.map_epoch)
  BY <1>1, <1>2 DEF IsDelta
<1>7. ~(m.version < n.version) /\ ~(n.version < m.version)
  BY <1>4, <1>5, <1>6 DEF SentInv
<1>8. m.cells = n.cells
  BY <1>3, <1>6, <1>7 DEF SentInv
<1> QED BY <1>4, <1>8

(* As long as no version was skipped since the last full refresh, the      *)
(* layer of a map source shows the robot's map as of the layer's version:  *)
(* what it was told summarises the deltas up to that version, and of what  *)
(* it was told the newest shows.                                           *)
THEOREM UpToDateHolds == Spec => []UpToDate
PROOF
<1>1. VersionStory => UpToDate
  <2> SUFFICES ASSUME VersionStory, NEW s \in Sources, NEW c \in Cells, NEW v \in Voxels,
                      robot[s].mode = "map", Shown(layer[s]), ~gap[s],
                      {d \in Cells : v \in Covers[d]} = {c}
               PROVE  LET E == {e \in Published(s, layer[s].last_version) : e.cell = c}
                      IN  IF E = {} THEN layer[s].state[v] = "unknown"
                          ELSE SameView(layer[s], v, CHOOSE e \in E : \A f \in E : f.time <= e.time)
    BY DEF UpToDate
  <2> DEFINE l == layer[s]
             D == Deltas(sent, s, l.map_epoch, l.last_version)
             E == About(D, c)
             H == heard[s]
             x == CHOOSE e \in E : \A f \in E : f.time <= e.time
  <2>1. {e \in Published(s, l.last_version) : e.cell = c} = E
    <3>1. {n \in sent : n.source = s /\ ~n.full_refresh /\ n.map_epoch = l.map_epoch
                        /\ n.version <= l.last_version}
            = {n \in sent : IsDelta(n, s, l.map_epoch) /\ n.version <= l.last_version}
      BY DEF IsDelta
    <3>2. Published(s, l.last_version) = D
      BY <3>1 DEF Published, Deltas, CellsOf
    <3> QED BY <3>2 DEF About
  <2>2. TypeOK /\ SentInv /\ Summarises(H, D)
    BY DEF VersionStory, IInv, VersionInv, LayerInv
  <2>3. D \in SUBSET Entry
    BY <2>2, DeltasAreEntries
  <2>4. \A f \in D : f.time \in Int /\ f.cell \in Cells
    BY <2>3 DEF Entry, Times
  <2>5. \A e, f \in D : e.time = f.time => e = f
    BY <2>2, TimesTell
  <2>6. /\ \/ Said(H, v) = {} /\ ShowsNothing(l, v)
           \/ \E e \in Said(H, v) :
                 ShowsEntry(l, v, e) /\ \A f \in Said(H, v) : f.time <= e.time
    BY DEF VersionStory, IInv, NewestWins, ShowsNewest
  <2> HIDE DEF D, l, H
  <2>7. Said(H, v) = About(H, c)
    BY <2>2, <2>4 DEF Said, About, Summarises
  <2>8. CASE E = {}
    <3>1. About(H, c) = {}
      BY <2>2, <2>8 DEF Summarises, About
    <3> QED BY <2>1, <2>6, <2>7, <2>8, <3>1 DEF ShowsNothing, l
  <2>9. CASE E # {}
    <3>1. PICK e \in D : /\ Newest(E, e)
                         /\ \/ e \in H
                            \/ e.kind = "deleted" /\ About(H, c) = {}
      BY <2>2, <2>9 DEF Summarises
    <3>2. E \subseteq D
      BY DEF About
    <3>3. x \in E /\ \A f \in E : f.time <= x.time
      BY <3>1 DEF Newest
    <3>4. x = e
      BY <2>4, <2>5, <3>1, <3>2, <3>3 DEF Newest
    <3>5. SameView(l, v, e)
      <4>1. CASE e \in H
        <5>1. e \in About(H, c) /\ About(H, c) \subseteq E
          BY <2>2, <3>1, <4>1 DEF About, Newest, Summarises
        <5>2. PICK f \in About(H, c) : ShowsEntry(l, v, f) /\ e.time <= f.time
          BY <2>6, <2>7, <5>1
        <5>3. f = e
          BY <2>4, <2>5, <3>1, <3>2, <5>1, <5>2 DEF Newest
        <5> QED BY <5>2, <5>3 DEF ShowsEntry, SameView
      <4>2. CASE e.kind = "deleted" /\ About(H, c) = {}
        <5>1. ShowsNothing(l, v)
          BY <2>6, <2>7, <4>2
        <5> QED BY <4>2, <5>1 DEF ShowsNothing, SameView, OccupancyOf
      <4> QED BY <3>1, <4>1, <4>2
    <3> QED BY <2>1, <2>9, <3>4, <3>5 DEF l
  <2> QED BY <2>8, <2>9
<1> QED BY <1>1, VersionInit, VersionStep, PTL DEF Spec

-----------------------------------------------------------------------------
(* The fusion policy in closed form.                                       *)

(* A finite set of times has a newest: a smallest subset without one would *)
(* have one, that of the subset without any one element or that element.   *)
LEMMA NewestExists ==
    ASSUME NEW S \in SUBSET Times, S # {}
    PROVE  NewestOf(S) \in S /\ \A u \in S : u <= NewestOf(S)
PROOF
<1> DEFINE Bad == {T \in SUBSET S : T # {} /\ \A x \in T : \E y \in T : ~ (y <= x)}
<1>1. IsFiniteSet(S) /\ S \subseteq Int
  <2>1. IsFiniteSet(Times)
    BY FS_Interval, BoundsAssumption DEF Times
  <2>2. S \subseteq Times /\ Times \subseteq Int
    BY DEF Times
  <2>3. IsFiniteSet(S)
    BY <2>1, <2>2, FS_Subset
  <2> QED BY <2>2, <2>3
<1>2. Bad = {}
  <2>1. SUFFICES ASSUME Bad # {} PROVE FALSE
    OBVIOUS
  <2>2. PICK T \in Bad : \A U \in Bad : ~ (<<U, T>> \in StrictSubsetOrdering(S))
    <3>1. Bad \subseteq FiniteSubsetsOf(S)
      BY <1>1, FS_Subset DEF FiniteSubsetsOf
    <3> QED BY <1>1, <3>1, <2>1, WFMin, FS_StrictSubsetOrderingWellFounded
  <2>3. PICK x \in T : TRUE
    BY <2>2
  <2> DEFINE U == T \ {x}
  <2>4. U # {}
    BY <1>1, <2>2, <2>3
  <2>5. <<U, T>> \in StrictSubsetOrdering(S)
    BY <2>2, <2>3 DEF StrictSubsetOrdering
  <2>6. PICK m \in U : \A y \in U : y <= m
    BY <2>2, <2>4, <2>5
  <2>7. PICK z \in T : ~ (z <= m)
    BY <2>2, <2>6
  <2>8. z = x
    BY <2>6, <2>7
  <2>9. \A y \in T : y <= x
    BY <1>1, <2>2, <2>6, <2>7, <2>8
  <2> QED BY <2>2, <2>3, <2>9
<1>3. \E x \in S : \A u \in S : u <= x
  BY <1>2
<1> QED BY <1>3 DEF NewestOf

(* Some claim stands against all that was said to the contrary.            *)
Stands(occ, fr) == \E o \in occ : \A f \in fr : f <= o + Tolerance

LEMMA ResolveIs ==
    ASSUME NEW occ \in SUBSET Times, NEW fr \in SUBSET Times
    PROVE  resolve_fused_voxel_state(occ, fr) =
              IF Stands(occ, fr) THEN "occupied" ELSE IF fr # {} THEN "free" ELSE "unknown"
PROOF
<1>1. CASE occ = {} \/ fr = {}
  BY <1>1 DEF resolve_fused_voxel_state, Stands
<1>2. CASE occ # {} /\ fr # {}
  <2> DEFINE o == NewestOf(occ)
             f == NewestOf(fr)
  <2>1. o \in occ /\ f \in fr /\ (\A u \in occ : u <= o) /\ (\A u \in fr : u <= f)
    BY <1>2, NewestExists
  <2>2. occ \subseteq Int /\ fr \subseteq Int /\ Tolerance \in Int /\ Tolerance >= 0
    BY ToleranceAssumption DEF Times
  <2> HIDE DEF o, f
  <2>3. Stands(occ, fr) <=> f <= o + Tolerance
    <3>1. ASSUME NEW u \in occ, \A g \in fr : g <= u + Tolerance
          PROVE  f <= o + Tolerance
      <4>1. f <= u + Tolerance /\ u <= o
        BY <2>1, <3>1
      <4> QED BY <2>1, <2>2, <4>1
    <3>2. ASSUME f <= o + Tolerance, NEW g \in fr
          PROVE  g <= o + Tolerance
      BY <2>1, <2>2, <3>2
    <3> QED BY <2>1, <3>1, <3>2 DEF Stands
  <2>4. ((IF o >= f THEN o - f ELSE f - o) <= Tolerance \/ o > f) <=> f <= o + Tolerance
    BY <2>1, <2>2
  <2> QED BY <1>2, <2>3, <2>4 DEF resolve_fused_voxel_state, o, f
<1> QED BY <1>1, <1>2

-----------------------------------------------------------------------------
(* The invariant: that of the layers, the types of the local maps, and the *)
(* history of time stamps.  Every entry that a robot remembers, that is on *)
(* its way or that was applied has been published, no later than the clock *)
(* and at a time of its own.                                               *)

LocalTypes ==
    /\ static \in [Voxels -> States]
    /\ obstacles \subseteq Obstacles /\ free \subseteq Obstacles
    /\ stamp \in [Voxels -> Times \cup {NoTime}]
Told == UNION {CellsOf(m) : m \in sent}
TimesInv ==
    /\ \A e \in Told : e.time <= clock
    /\ \A e, f \in Told : e.time = f.time => e = f
    /\ \A s \in Sources, c \in Cells : robot[s].map[c] \in Told \cup {NoEntry}
    /\ \A s \in Sources : heard[s] \subseteq Told
    /\ call.busy => CellsOf(call.msg) \subseteq Told /\ call.heard \subseteq Told
FusedInv == IInv /\ LocalTypes /\ TimesInv

LEMMA ToldAreEntries ==
    ASSUME TypeOK
    PROVE  Told \subseteq Entry
PROOF
<1>1. ASSUME NEW m \in sent, NEW i \in DOMAIN m.cells PROVE m.cells[i] \in Entry
  <2>1. m.cells \in Seq(Entry)
    BY DEF TypeOK, Messages
  <2> QED BY <2>1
<1> QED BY <1>1 DEF Told, CellsOf

(* A robot publishes what it already told, or one entry of the next time.  *)
Publishes(r, cells, N) ==
    /\ {cells[i] : i \in DOMAIN cells} \subseteq Told \cup N
    /\ N \subseteq {cells[i] : i \in DOMAIN cells}
    /\ \A e \in N : e.time = clock' /\ e.time > clock
    /\ \A e, f \in N : e = f
    /\ \A c \in Cells : r.map[c] \in Told \cup N \cup {NoEntry}

LEMMA PublishTimes ==
    ASSUME TypeOK, TimesInv, NEW s \in Sources, NEW r, NEW full, NEW cells,
           publish(s, r, full, cells), clock' \in Int, clock <= clock',
           NEW N, Publishes(r, cells, N)
    PROVE  TimesInv'
PROOF
<1> DEFINE n == Message(s, r, full, cells)
<1>1. n.cells = cells
  BY DEF Message
<1>2. /\ robot' = [robot EXCEPT ![s] = r] /\ sent' = sent \cup {n}
      /\ ~call.busy /\ call' = call /\ heard' = heard
  BY DEF publish, idle, history
<1>3. robot \in [Sources -> Robot] /\ clock \in Int /\ \A e \in Told : e.time \in Int
  BY ToldAreEntries DEF TypeOK, Entry, Times
<1>4. CellsOf(n) = {cells[i] : i \in DOMAIN cells}
  BY <1>1 DEF CellsOf
<1> HIDE DEF n
<1>5. Told' = Told \cup CellsOf(n)
  BY <1>2 DEF Told
<1>6. Told' = Told \cup N
  BY <1>4, <1>5 DEF Publishes
<1>7. \A e \in Told' : e.time <= clock'
  BY <1>3, <1>6 DEF TimesInv, Publishes
<1>8. \A e, f \in Told' : e.time = f.time => e = f
  <2>1. \A e \in Told, f \in N : e.time # f.time
    BY <1>3 DEF TimesInv, Publishes
  <2> QED BY <1>6, <2>1 DEF TimesInv, Publishes
<1>9. \A t \in Sources, c \in Cells : robot'[t].map[c] \in Told' \cup {NoEntry}
  BY <1>2, <1>3, <1>6 DEF TimesInv, Publishes
<1>10. \A t \in Sources : heard'[t] \subseteq Told'
  BY <1>2, <1>6 DEF TimesInv
<1> QED BY <1>2, <1>7, <1>8, <1>9, <1>10 DEF TimesInv

(* A step of the handler alone.                                            *)
LEMMA HandlerTimes ==
    ASSUME TypeOK, TimesInv, UNCHANGED <<robot, sent>>, clock' \in Int, clock <= clock',
           \A s \in Sources : heard'[s] \subseteq Told,
           call'.busy => CellsOf(call'.msg) \subseteq Told /\ call'.heard \subseteq Told
    PROVE  TimesInv'
PROOF
<1>1. Told' = Told
  BY DEF Told
<1>2. clock \in Int /\ \A e \in Told : e.time \in Int
  BY ToldAreEntries DEF TypeOK, Entry, Times
<1>3. \A e \in Told : e.time <= clock'
  BY <1>2 DEF TimesInv
<1> QED BY <1>1, <1>3 DEF TimesInv

LEMMA TimesStep == TypeOK /\ TimesInv /\ Next => TimesInv'
PROOF
<1> SUFFICES ASSUME TypeOK, TimesInv, Next
             PROVE  TimesInv'
  OBVIOUS
<1>1. clock \in Int /\ clock <= clock /\ heard \in [Sources -> SUBSET Entry]
  BY DEF TypeOK, Times
<1>2. \A s \in Sources : robot[s] \in Robot
  BY DEF TypeOK
<1>3. ASSUME NEW s \in Sources, NEW c \in Cells, NEW k \in Kinds, robot_observes(s, c, k)
      PROVE  TimesInv'
  <2> DEFINE e == [cell |-> c, kind |-> k, time |-> clock']
             r == [robot[s] EXCEPT !.version = @ + 1, !.map[c] = e]
  <2>1. publish(s, r, FALSE, <<e>>) /\ clock' = clock + 1
    BY <1>3 DEF robot_observes
  <2>2. r.map = [robot[s].map EXCEPT ![c] = e]
    BY <1>2 DEF Robot
  <2>3. e.time = clock'
    OBVIOUS
  <2> HIDE DEF e, r
  <2>4. {<<e>>[i] : i \in DOMAIN <<e>>} = {e}
    OBVIOUS
  <2>5. \A d \in Cells : r.map[d] \in Told \cup {e} \cup {NoEntry}
    BY <1>2, <2>2 DEF TimesInv, Robot
  <2>6. Publishes(r, <<e>>, {e})
    BY <1>1, <2>1, <2>3, <2>4, <2>5 DEF Publishes
  <2>7. clock' \in Int /\ clock <= clock'
    BY <1>1, <2>1
  <2> QED BY <2>1, <2>6, <2>7, PublishTimes
<1>4. ASSUME NEW s \in Sources, robot_refreshes(s)
      PROVE  TimesInv'
  <2> DEFINE r == [robot[s] EXCEPT !.refreshes = @ + 1]
             K == Known(robot[s])
  <2>1. PICK q \in [1 .. Cardinality(K) -> K] :
           publish(s, r, TRUE, [i \in DOMAIN q |-> robot[s].map[q[i]]])
    BY <1>4 DEF robot_refreshes
  <2> DEFINE cells == [i \in DOMAIN q |-> robot[s].map[q[i]]]
  <2>2. clock' = clock /\ r.map = robot[s].map
    BY <1>2, <1>4 DEF robot_refreshes, Robot
  <2>3. \A c \in K : robot[s].map[c] \in Told
    BY DEF Known, TimesInv, NoEntry
  <2>4. {cells[i] : i \in DOMAIN cells} \subseteq Told
    BY <2>3
  <2> HIDE DEF r, cells
  <2>5. \A c \in Cells : r.map[c] \in Told \cup {NoEntry}
    BY <2>2 DEF TimesInv
  <2>6. publish(s, r, TRUE, cells)
    BY <2>1 DEF cells
  <2>7. Publishes(r, cells, {})
    BY <2>4, <2>5 DEF Publishes
  <2> QED BY <1>1, <2>2, <2>6, <2>7, PublishTimes
<1>5. ASSUME NEW s \in Sources, robot_restarts(s)
      PROVE  TimesInv'
  <2> DEFINE r == [robot[s] EXCEPT !.epoch = @ + 1, !.version = 0, !.map = NewMap]
  <2>1. publish(s, r, TRUE, <<>>) /\ clock' = clock
    BY <1>5 DEF robot_restarts
  <2>2. r.map = NewMap
    BY <1>2 DEF Robot
  <2> HIDE DEF r
  <2>3. Publishes(r, <<>>, {})
    BY <2>2 DEF NewMap, Publishes
  <2> QED BY <1>1, <2>1, <2>3, PublishTimes
<1>6. ASSUME NEW m \in sent, voxel_delta_callback(m)
      PROVE  TimesInv'
  <2>1. CellsOf(m) \subseteq Told /\ m.source \in Sources
    BY DEF Told, TypeOK, Messages
  <2>2. UNCHANGED <<robot, sent, clock, heard>> /\ ~call.busy
    BY <1>6 DEF voxel_delta_callback, on_evidence, sentinel, full_refresh, delta_before_layer,
                delta, begin, set_up, network, history, idle
  <2>3. \/ call' = call
        \/ call'.msg = m /\ call'.heard \in {heard[m.source], {}}
    BY <1>6 DEF voxel_delta_callback, on_evidence, sentinel, full_refresh, delta_before_layer,
                delta, begin, set_up
  <2> QED BY <1>1, <2>1, <2>2, <2>3, HandlerTimes DEF TimesInv
<1>7. CASE apply_next
  <2> DEFINE e == call.msg.cells[call.at]
  <2>1. call.busy /\ call \in Busy /\ call.at <= Len(call.msg.cells)
    BY <1>7, CallIs DEF apply_next, TypeOK
  <2>2. e \in CellsOf(call.msg)
    BY <2>1 DEF Busy, Messages, CellsOf
  <2>3. call' = [call EXCEPT !.at = @ + 1, !.layer = apply_voxel(@, e), !.heard = @ \cup {e}]
    BY <1>7 DEF apply_next
  <2> HIDE DEF e
  <2>4. call'.msg = call.msg /\ call'.heard = call.heard \cup {e}
    BY <2>1, <2>3 DEF Busy
  <2>5. UNCHANGED <<robot, sent, clock, heard>>
    BY <1>7 DEF apply_next, network, history
  <2> QED BY <1>1, <2>1, <2>2, <2>4, <2>5, HandlerTimes DEF TimesInv
<1>8. CASE apply_done
  <2>1. call.busy /\ ~call'.busy /\ UNCHANGED <<robot, sent, clock>>
    BY <1>8 DEF apply_done, idle, network
  <2>2. \/ heard' = heard
        \/ heard' = [heard EXCEPT ![call.msg.source] = call.heard]
    BY <1>8 DEF apply_done, history
  <2>3. \A s \in Sources : heard'[s] \subseteq Told
    BY <1>1, <2>1, <2>2 DEF TimesInv
  <2> QED BY <1>1, <2>1, <2>3, HandlerTimes
<1>9. \A s \in Sources : \A p \in Reports[s] : p[1] \in Cells /\ p[2] \in Kinds
  BY ReportsAssumption DEF Kinds
<1> QED BY <1>3, <1>4, <1>5, <1>6, <1>7, <1>8, <1>9 DEF Next

LEMMA FusedStep == FusedInv /\ [FusedNext]_fusedVars => FusedInv'
PROOF
<1> SUFFICES ASSUME FusedInv, [FusedNext]_fusedVars
             PROVE  FusedInv'
  OBVIOUS
<1>1. IInv /\ TypeOK /\ LocalTypes /\ TimesInv
  BY DEF FusedInv, IInv
<1>2. CASE Next /\ UNCHANGED localMaps
  BY <1>1, <1>2, InvStep, TimesStep DEF FusedInv, LocalTypes, localMaps
<1>3. ASSUME NEW d \in Obstacles, NEW b \in BOOLEAN,
             NEW st \in {static[StaticOf[d]], "occupied", "unknown"}, cloud(d, b, st)
      PROVE  FusedInv'
  <2>1. UNCHANGED <<robot, sent, layer, call, heard, gap, contact>>
    BY <1>3 DEF cloud, history
  <2>2. \/ \E t \in {clock, clock + 1} \cap Times :
              clock' = t /\ stamp' = [stamp EXCEPT ![StaticOf[d]] = t]
        \/ UNCHANGED <<clock, stamp>>
    BY <1>3 DEF cloud
  <2>3. clock' \in Times /\ clock' \in Int /\ clock <= clock'
    BY <1>1, <2>2 DEF TypeOK, Times
  <2>4. IInv'
    BY <1>1, <2>1, <2>3 DEF IInv, TypeOK, NewestWins, SilentInv, CopyInv
  <2>5. TimesInv'
    BY <1>1, <2>1, <2>3, HandlerTimes DEF TimesInv
  <2>6. LocalTypes'
    <3>1. StaticOf[d] \in Voxels /\ st \in States
      BY <1>1, ResolutionAssumption DEF LocalTypes, States
    <3>2. static' \in [Voxels -> States] /\ stamp' \in [Voxels -> Times \cup {NoTime}]
      BY <1>1, <1>3, <2>2, <3>1 DEF cloud, LocalTypes
    <3>3. obstacles' \subseteq Obstacles /\ free' \subseteq Obstacles
      BY <1>1, <1>3 DEF cloud, LocalTypes
    <3> QED BY <3>2, <3>3 DEF LocalTypes
  <2> QED BY <2>4, <2>5, <2>6 DEF FusedInv
<1>4. ASSUME NEW v \in Voxels, NEW st \in {"occupied", "free"},
             load([w \in Voxels |-> IF w = v THEN st ELSE "unknown"])
      PROVE  FusedInv'
  <2>1. UNCHANGED vars
    BY <1>4 DEF load
  <2>2. IInv'
    BY <1>1, <2>1, InvStep
  <2>3. TimesInv'
    BY <1>1, <2>1 DEF vars, network, history, TimesInv, Told
  <2>4. LocalTypes'
    BY <1>1, <1>4 DEF load, LocalTypes, States
  <2> QED BY <2>2, <2>3, <2>4 DEF FusedInv
<1>5. CASE UNCHANGED fusedVars
  <2>1. IInv'
    BY <1>1, <1>5, InvStep DEF fusedVars
  <2>2. TimesInv' /\ LocalTypes'
    BY <1>1, <1>5 DEF fusedVars, localMaps, vars, network, history, TimesInv, Told, LocalTypes
  <2> QED BY <2>1, <2>2 DEF FusedInv
<1> QED BY <1>2, <1>3, <1>4, <1>5 DEF FusedNext

LEMMA FusedInvariance == FusedSpec => []FusedInv
PROOF
<1>1. ASSUME FusedInit PROVE FusedInv
  <2>1. IInv
    BY <1>1, InvInit DEF FusedInit
  <2>2. Told = {} /\ ~call.busy /\ \A s \in Sources : heard[s] = {} /\ robot[s].map = NewMap
    BY <1>1 DEF FusedInit, Init, Told, idle
  <2>3. TimesInv
    BY <2>2 DEF TimesInv, NewMap
  <2>4. LocalTypes
    BY <1>1 DEF FusedInit, LocalTypes, States
  <2> QED BY <2>1, <2>3, <2>4 DEF FusedInv
<1> QED BY <1>1, FusedStep, PTL DEF FusedSpec

-----------------------------------------------------------------------------
(* The evidence that the queries gather.                                   *)

DynamicFree(v) == \E d \in free : StaticOf[d] = v
FreeStamps(R, v, moving) ==
    (IF static[v] = "free" THEN {At(stamp[v])} ELSE {})
    \cup (IF moving /\ DynamicFree(v) THEN {At(stamp[v])} ELSE {})
    \cup RemoteFreeStamps(R, v)

(* The free evidence that get_fused_occupied_voxels weighs.                *)
CentreStamps(v, moving) ==
    (IF static[v] = "free" \/ (moving /\ DynamicOf[v] \in free) THEN {At(stamp[v])} ELSE {})
    \cup RemoteFreeStamps(Sources, v)

LEMMA EvidenceTypes ==
    ASSUME FusedInv, NEW R \in SUBSET Sources, NEW v \in Voxels,
           NEW fixed \in BOOLEAN, NEW moving \in BOOLEAN
    PROVE  /\ OccupiedStamps(R, v, fixed, moving) \in SUBSET Times
           /\ FreeStamps(R, v, moving) \in SUBSET Times
           /\ CentreStamps(v, moving) \in SUBSET Times
PROOF
<1>1. \A t \in Times \cup {NoTime} : At(t) \in Times
  BY BoundsAssumption DEF At, Times
<1>2. stamp[v] \in Times \cup {NoTime}
  BY DEF FusedInv, LocalTypes
<1>3. \A s \in Sources : /\ layer[s].observed[v] \in Times \cup {NoTime}
                         /\ layer[s].deleted[v] \in Times \cup {NoTime}
  BY DEF FusedInv, IInv, TypeOK, Layer
<1>4. OccupiedStamps(R, v, fixed, moving) \subseteq Times
  BY <1>1, <1>2, <1>3 DEF OccupiedStamps, ShownTo
<1>5. \A Q \in SUBSET Sources : RemoteFreeStamps(Q, v) \subseteq Times
  BY <1>1, <1>3 DEF RemoteFreeStamps, ShownTo
<1> QED BY <1>1, <1>2, <1>4, <1>5 DEF FreeStamps, CentreStamps

LEMMA StateIs ==
    ASSUME FusedInv, NEW R \in SUBSET Sources, NEW v \in Voxels,
           NEW fixed \in BOOLEAN, NEW moving \in BOOLEAN
    PROVE  fused_state(R, v, fixed, moving) =
              IF Stands(OccupiedStamps(R, v, fixed, moving), FreeStamps(R, v, moving))
              THEN "occupied"
              ELSE IF FreeStamps(R, v, moving) # {} THEN "free" ELSE "unknown"
PROOF
<1>1. fused_state(R, v, fixed, moving)
         = resolve_fused_voxel_state(OccupiedStamps(R, v, fixed, moving), FreeStamps(R, v, moving))
  BY DEF fused_state, FreeStamps, DynamicFree
<1> QED BY <1>1, EvidenceTypes, ResolveIs

LEMMA OccupiedIs ==
    ASSUME FusedInv, NEW v \in Voxels, NEW fixed \in BOOLEAN, NEW moving \in BOOLEAN
    PROVE  v \in get_fused_occupied_voxels(fixed, moving)
              <=> Stands(OccupiedStamps(Sources, v, fixed, moving), CentreStamps(v, moving))
PROOF
<1> DEFINE occ == OccupiedStamps(Sources, v, fixed, moving)
           fr == CentreStamps(v, moving)
<1>1. v \in get_fused_occupied_voxels(fixed, moving)
         <=> occ # {} /\ resolve_fused_voxel_state(occ, fr) = "occupied"
  BY DEF get_fused_occupied_voxels, CentreStamps
<1>2. occ \in SUBSET Times /\ fr \in SUBSET Times
  BY EvidenceTypes
<1> HIDE DEF occ, fr
<1>3. resolve_fused_voxel_state(occ, fr) =
         IF Stands(occ, fr) THEN "occupied" ELSE IF fr # {} THEN "free" ELSE "unknown"
  BY <1>2, ResolveIs
<1>4. Stands(occ, fr) => occ # {}
  BY DEF Stands
<1> QED BY <1>1, <1>3, <1>4 DEF occ, fr

(* The two time stamps that a layer keeps of a voxel.                      *)
LEMMA LayerIs ==
    ASSUME FusedInv, NEW s \in Sources, NEW v \in Voxels
    PROVE  LET l == layer[s]
           IN  /\ l.observed[v] \in Times \cup {NoTime} /\ l.deleted[v] \in Times \cup {NoTime}
               /\ l.observed[v] = NoTime \/ l.deleted[v] = NoTime
               /\ l.state[v] \in {"occupied", "free"} => l.deleted[v] = NoTime
PROOF
<1> DEFINE l == layer[s]
<1>1. l.observed[v] \in Times \cup {NoTime} /\ l.deleted[v] \in Times \cup {NoTime}
  BY DEF FusedInv, IInv, TypeOK, Layer
<1>2. ShowsNothing(l, v) \/ \E e \in Entry : ShowsEntry(l, v, e)
  <2>1. heard[s] \subseteq Entry
    BY DEF FusedInv, IInv, TypeOK
  <2> QED BY <2>1 DEF FusedInv, IInv, NewestWins, ShowsNewest, Said
<1>3. CASE ShowsNothing(l, v)
  BY <1>1, <1>3 DEF ShowsNothing
<1>4. ASSUME NEW e \in Entry, ShowsEntry(l, v, e)
      PROVE  /\ l.observed[v] = NoTime \/ l.deleted[v] = NoTime
             /\ l.state[v] \in {"occupied", "free"} => l.deleted[v] = NoTime
  BY <1>4 DEF ShowsEntry, OccupancyOf
<1> QED BY <1>1, <1>2, <1>3, <1>4

-----------------------------------------------------------------------------
(* The theorems.                                                           *)

(* The two queries agree wherever they look at the same dynamic voxel; and *)
(* where the dynamic map is not the finer one, the lists of occupied and   *)
(* of free voxels have nothing in common.                                  *)
THEOREM QueriesAgreeHolds == FusedSpec => []QueriesAgree
PROOF
<1>1. ASSUME FusedInv PROVE QueriesAgree
  <2>1. free \subseteq Obstacles /\ obstacles \subseteq Obstacles
    BY <1>1 DEF FusedInv, LocalTypes
  <2>2. \A v \in Voxels : DynamicOf[v] \in Obstacles
    BY ResolutionAssumption
  <2>3. ASSUME NEW fixed \in BOOLEAN, NEW moving \in BOOLEAN, NEW v \in Voxels, OneToOne(v)
        PROVE  v \in get_fused_occupied_voxels(fixed, moving)
                  <=> fused_state(Sources, v, fixed, moving) = "occupied"
    <3>1. DynamicFree(v) <=> DynamicOf[v] \in free
      BY <2>1, <2>2, <2>3 DEF OneToOne, DynamicFree
    <3>2. FreeStamps(Sources, v, moving) = CentreStamps(v, moving)
      BY <3>1 DEF FreeStamps, CentreStamps
    <3> QED BY <1>1, <3>2, OccupiedIs, StateIs
  <2>4. ASSUME NEW enabled \in BOOLEAN, enabled \/ obstacles \cup free = {},
               NEW v \in handle_get_occupied_voxels(enabled) \cap handle_get_free_voxels,
               NotFiner(v)
        PROVE  FALSE
    <3>1. /\ v \in Voxels /\ v \in get_fused_occupied_voxels(TRUE, enabled)
          /\ fused_state(Sources, v, TRUE, TRUE) = "free"
      BY <2>4 DEF handle_get_free_voxels, get_fused_free_voxels, handle_get_occupied_voxels
    <3>2. Stands(OccupiedStamps(Sources, v, TRUE, enabled), CentreStamps(v, enabled))
      BY <1>1, <3>1, OccupiedIs
    <3>3. OccupiedStamps(Sources, v, TRUE, enabled) \subseteq OccupiedStamps(Sources, v, TRUE, TRUE)
      BY DEF OccupiedStamps, RemoteOccupied
    <3>4. FreeStamps(Sources, v, TRUE) \subseteq CentreStamps(v, enabled)
      <4>1. DynamicFree(v) => enabled /\ DynamicOf[v] \in free
        BY <2>1, <2>4 DEF DynamicFree, NotFiner
      <4> QED BY <4>1 DEF FreeStamps, CentreStamps
    <3>5. Stands(OccupiedStamps(Sources, v, TRUE, TRUE), FreeStamps(Sources, v, TRUE))
      BY <3>2, <3>3, <3>4 DEF Stands
    <3>6. fused_state(Sources, v, TRUE, TRUE) = "occupied"
      BY <1>1, <3>1, <3>5, StateIs
    <3> QED BY <3>1, <3>6
  <2> QED BY <2>3, <2>4 DEF QueriesAgree
<1> QED BY <1>1, FusedInvariance, PTL

(* A voxel is occupied as long as one of those that say so has not been    *)
(* contradicted later, by more than the tolerance: the stamp that speaks   *)
(* for a layer's claim is that of the newest that the layer was told.      *)
THEOREM OccupiedUntilContradictedHolds == FusedSpec => []OccupiedUntilContradicted
PROOF
<1>1. ASSUME FusedInv PROVE OccupiedUntilContradicted
  <2> SUFFICES ASSUME NEW v \in Voxels
               PROVE  fused_state(Sources, v, TRUE, TRUE) =
                         IF Stands(Claims(v, "occupied"), Claims(v, "free"))
                         THEN "occupied"
                         ELSE IF Claims(v, "free") # {} THEN "free" ELSE "unknown"
    BY DEF OccupiedUntilContradicted, Stands
  <2>1. free \subseteq Obstacles /\ obstacles \subseteq Obstacles
    BY <1>1 DEF FusedInv, LocalTypes
  <2>2. ASSUME NEW s \in Sources
        PROVE  LET l == layer[s]
               IN  /\ l.state[v] \in {"occupied", "free"} =>
                        l.deleted[v] = NoTime /\ At(Stamp(l, v)) = At(l.observed[v])
                   /\ l.deleted[v] # NoTime =>
                        l.state[v] # "free" /\ At(Stamp(l, v)) = l.deleted[v]
    <3> DEFINE l == layer[s]
    <3>1. /\ l.observed[v] \in Times \cup {NoTime} /\ l.deleted[v] \in Times \cup {NoTime}
          /\ l.observed[v] = NoTime \/ l.deleted[v] = NoTime
          /\ l.state[v] \in {"occupied", "free"} => l.deleted[v] = NoTime
      BY <1>1, LayerIs
    <3>2. NoTime = -1 /\ \A t \in Times : t \in Int /\ t >= 0
      BY DEF NoTime, Times
    <3> HIDE DEF l
    <3> QED BY <3>1, <3>2 DEF Stamp, Larger, At, l
  <2>3. OccupiedStamps(Sources, v, TRUE, TRUE) = Claims(v, "occupied")
    <3>1. {At(layer[s].observed[v]) : s \in {r \in ShownTo(Sources) : RemoteOccupied(r, v, TRUE, TRUE)}}
             = {At(Stamp(layer[s], v)) : s \in {r \in ShownTo(Sources) : layer[r].state[v] = "occupied"}}
      BY <2>2 DEF RemoteOccupied, ShownTo
    <3>2. (IF \E d \in obstacles : StaticOf[d] = v THEN {At(stamp[v])} ELSE {})
             = {At(stamp[v]) : d \in {e \in Obstacles : StaticOf[e] = v /\ e \in obstacles}}
      BY <2>1
    <3>3. (IF static[v] = "occupied" THEN {At(stamp[v])} ELSE {})
             = {At(stamp[v]) : x \in {y \in {1} : static[v] = "occupied"}}
      OBVIOUS
    <3> QED BY <3>1, <3>2, <3>3 DEF OccupiedStamps, Claims
  <2>4. FreeStamps(Sources, v, TRUE) = Claims(v, "free")
    <3>1. RemoteFreeStamps(Sources, v)
             = {At(Stamp(layer[s], v)) :
                  s \in {r \in ShownTo(Sources) :
                           layer[r].state[v] = "free" \/ layer[r].deleted[v] # NoTime}}
      BY <2>2 DEF RemoteFreeStamps, ShownTo
    <3>2. (IF DynamicFree(v) THEN {At(stamp[v])} ELSE {})
             = {At(stamp[v]) : d \in {e \in Obstacles : StaticOf[e] = v /\ e \in free}}
      BY <2>1 DEF DynamicFree
    <3>3. (IF static[v] = "free" THEN {At(stamp[v])} ELSE {})
             = {At(stamp[v]) : x \in {y \in {1} : static[v] = "free"}}
      OBVIOUS
    <3> QED BY <3>1, <3>2, <3>3 DEF FreeStamps, Claims
  <2> QED BY <1>1, <2>3, <2>4, StateIs
<1> QED BY <1>1, FusedInvariance, PTL

(* A source whose last word on a voxel was unknown leaves the voxel to the *)
(* others: its last word is the one that its layer shows, since no two     *)
(* words are of one time.                                                  *)
THEOREM WithdrawalLeavesOthersHolds == FusedSpec => []WithdrawalLeavesOthers
PROOF
<1>1. ASSUME FusedInv PROVE WithdrawalLeavesOthers
  <2> SUFFICES ASSUME NEW s \in Sources, NEW v \in Voxels, Withdrawn(s, v),
                      NEW fixed \in BOOLEAN, NEW moving \in BOOLEAN
               PROVE  fused_state(Sources, v, fixed, moving)
                         = fused_state(Sources \ {s}, v, fixed, moving)
    BY DEF WithdrawalLeavesOthers
  <2> DEFINE l == layer[s]
  <2>1. PICK e \in Said(heard[s], v) :
           e.kind = "unknown" /\ \A f \in Said(heard[s], v) : f.time <= e.time
    BY DEF Withdrawn
  <2>2. PICK f \in Said(heard[s], v) :
           ShowsEntry(l, v, f) /\ \A g \in Said(heard[s], v) : g.time <= f.time
    BY <1>1, <2>1 DEF FusedInv, IInv, NewestWins, ShowsNewest
  <2>3. e = f
    <3>1. e \in Told /\ f \in Told /\ e.time \in Int /\ f.time \in Int
      BY <1>1, ToldAreEntries DEF FusedInv, IInv, TimesInv, Said, Entry, Times
    <3>2. e.time = f.time
      BY <2>1, <2>2, <3>1
    <3> QED BY <1>1, <3>1, <3>2 DEF FusedInv, TimesInv
  <2>4. l.state[v] = "unknown" /\ l.deleted[v] = NoTime
    BY <2>1, <2>2, <2>3 DEF ShowsEntry, OccupancyOf
  <2>5. OccupiedStamps(Sources, v, fixed, moving) = OccupiedStamps(Sources \ {s}, v, fixed, moving)
    BY <2>4 DEF OccupiedStamps, ShownTo, RemoteOccupied
  <2>6. RemoteFreeStamps(Sources, v) = RemoteFreeStamps(Sources \ {s}, v)
    BY <2>4 DEF RemoteFreeStamps, ShownTo
  <2> QED BY <2>5, <2>6 DEF fused_state
<1> QED BY <1>1, FusedInvariance, PTL

(* What is published as occupied of all maps fused is so in one map shown  *)
(* alone, and in the topic of the static or of the dynamic voxels: these   *)
(* weigh less evidence to the contrary.                                    *)
THEOREM FusedHasWitnessHolds == FusedSpec => []FusedHasWitness
PROOF
<1>1. ASSUME FusedInv PROVE FusedHasWitness
  <2> SUFFICES ASSUME NEW enabled \in BOOLEAN, NEW v \in get_fused_occupied_voxels(TRUE, enabled)
               PROVE  /\ \/ v \in get_local_occupied_voxels
                         \/ \E s \in Sources : v \in get_remote_occupied_voxels(s)
                      /\ \/ v \in get_fused_occupied_voxels(TRUE, FALSE)
                         \/ v \in get_fused_occupied_voxels(FALSE, TRUE)
    <3>1. \A b \in BOOLEAN :
             /\ stats_timer_callback(b).occupied = get_fused_occupied_voxels(TRUE, b)
             /\ stats_timer_callback(b).local = get_local_occupied_voxels
             /\ \A s \in Sources : stats_timer_callback(b).remote[s] = get_remote_occupied_voxels(s)
      BY DEF stats_timer_callback
    <3> QED BY <3>1 DEF FusedHasWitness, static_voxel_timer_callback, dynamic_voxel_timer_callback
  <2> DEFINE occ == OccupiedStamps(Sources, v, TRUE, enabled)
  <2>1. v \in Voxels
    BY DEF get_fused_occupied_voxels
  <2>2. PICK o \in occ : \A f \in CentreStamps(v, enabled) : f <= o + Tolerance
    BY <1>1, <2>1, OccupiedIs DEF Stands
  <2>3. \/ v \in get_local_occupied_voxels
        \/ \E s \in Sources : v \in get_remote_occupied_voxels(s)
    BY <2>1, <2>2 DEF OccupiedStamps, RemoteOccupied, ShownTo, get_local_occupied_voxels,
                      get_remote_occupied_voxels
  <2>4. CASE o \in OccupiedStamps(Sources, v, TRUE, FALSE)
    <3>1. CentreStamps(v, FALSE) \subseteq CentreStamps(v, enabled)
      BY DEF CentreStamps
    <3>2. Stands(OccupiedStamps(Sources, v, TRUE, FALSE), CentreStamps(v, FALSE))
      BY <2>2, <2>4, <3>1 DEF Stands
    <3> QED BY <1>1, <2>1, <2>3, <3>2, OccupiedIs
  <2>5. CASE o \in OccupiedStamps(Sources, v, FALSE, TRUE) /\ enabled
    <3>1. Stands(OccupiedStamps(Sources, v, FALSE, TRUE), CentreStamps(v, TRUE))
      BY <2>2, <2>5 DEF Stands
    <3> QED BY <1>1, <2>1, <2>3, <3>1, OccupiedIs
  <2>6. occ \subseteq OccupiedStamps(Sources, v, TRUE, FALSE)
                      \cup (IF enabled THEN OccupiedStamps(Sources, v, FALSE, TRUE) ELSE {})
    BY DEF OccupiedStamps, RemoteOccupied
  <2> QED BY <2>2, <2>4, <2>5, <2>6
<1> QED BY <1>1, FusedInvariance, PTL
=============================================================================
