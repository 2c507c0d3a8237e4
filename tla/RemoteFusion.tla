------------------------------ MODULE RemoteFusion ------------------------------
(***************************************************************************)
(* Remote-map fusion of bonxai_ros (class BonxaiServer): one layer per     *)
(* remote robot, fed by its VoxelDelta messages.                           *)
(*                                                                         *)
(* A message names source voxels (Cells); a source of another resolution   *)
(* covers several local voxels with one of its own, or one with several.   *)
(* The node spins on one thread, so a handler runs alone: its loop over    *)
(* the message's voxels is one step per voxel, on a copy installed by the  *)
(* last.  robot and sent are the environment: a robot that observes,       *)
(* restarts under a new epoch and publishes, and a network that loses,     *)
(* delays, reorders and repeats.  A message the server refuses (gate on    *)
(* localization, wrong frame, malformed) is a lost one.                    *)
(***************************************************************************)
EXTENDS Integers, Sequences, FiniteSets

CONSTANTS
    Sources,               (* source_id of the remote robots                 *)
    Cells,                 (* voxels of the remote robots                    *)
    Voxels,                (* voxels of the static map                       *)
    Covers,                (* the voxels a cell expands to; none: refused    *)
    Modes,                 (* operating modes: "evidence" is 4, "map" another *)
    Reports,               (* bound: what each robot observes of its cells   *)
    MaxClock,              (* bound: number of time stamps                   *)
    MaxEpoch,              (* bound: starts of a robot                       *)
    MaxRefresh             (* bound: full refreshes a robot publishes        *)

ASSUME CoversAssumption == IsFiniteSet(Cells) /\ Covers \in [Cells -> SUBSET Voxels]
ASSUME ModesAssumption == Modes \subseteq {"evidence", "map"}
ASSUME ReportsAssumption ==
    Reports \in [Sources -> SUBSET (Cells \X {"static", "dynamic", "free", "deleted", "unknown"})]
ASSUME BoundsAssumption == {MaxClock, MaxRefresh} \subseteq Nat /\ MaxEpoch \in Nat \ {0}

VARIABLES
    robot,      (* external: what each robot knows and publishes             *)
    sent,       (* external: every message published so far                  *)
    clock,      (* external: the newest time stamp                           *)
    layer,      (* remote_sources_                                           *)
    call,       (* the message being applied, and the copy it is applied to  *)
    heard,      (* history: what was applied to a layer since its last reset *)
    gap,        (* history: a version was skipped since the last refresh     *)
    contact     (* history: epochs of a source in order of first application *)

network == <<robot, sent, clock>>
history == <<heard, gap, contact>>
vars == <<network, layer, call, history>>

NoTime == -1
Times == 0 .. MaxClock
Epochs == 1 .. MaxEpoch
Kinds == {"static", "dynamic", "free", "deleted", "unknown"}
Entry == [cell : Cells, kind : Kinds, time : Times]
States == {"occupied", "free", "unknown"}

OccupancyOf(k) == CASE k \in {"static", "dynamic"} -> "occupied"
                    [] k = "free"                  -> "free"
                    [] k \in {"deleted", "unknown"} -> "unknown"

(* RemoteSourceLayer; map_epoch 0 is that of a layer never set up. *)
EmptyLayer ==
    [occupancy |-> FALSE, map_epoch |-> 0, last_version |-> 0, retired |-> {},
     awaiting |-> TRUE, state |-> [v \in Voxels |-> "unknown"], dynamic |-> {},
     observed |-> [v \in Voxels |-> NoTime], deleted |-> [v \in Voxels |-> NoTime]]

idle == [busy |-> FALSE]

NewestOf(S) == CHOOSE t \in S : \A u \in S : u <= t
Larger(a, b) == IF a < b THEN b ELSE a
Shown(l) == l.occupancy /\ ~l.awaiting

-----------------------------------------------------------------------------
(* reset_remote_source and one voxel of apply_voxel_delta.                 *)

reset_ForgetsEpoch(l, e) ==
    [EmptyLayer EXCEPT !.occupancy = TRUE, !.map_epoch = e, !.retired = l.retired]

reset_remote_source(l, e) ==
    [EmptyLayer EXCEPT
        !.occupancy = TRUE, !.map_epoch = e,
        !.retired = IF l.occupancy /\ l.map_epoch # e
                    THEN l.retired \cup {l.map_epoch} ELSE l.retired]

IsNewer(l, v, t) == l.observed[v] < t /\ l.deleted[v] < t

apply_KeepsDynamic(l, e) ==
    LET S == {v \in Covers[e.cell] : IsNewer(l, v, e.time)}
    IN  [l EXCEPT
            !.state = [v \in Voxels |-> IF v \in S THEN OccupancyOf(e.kind) ELSE @[v]],
            !.dynamic = IF e.kind = "dynamic" THEN @ \cup S ELSE @,
            !.observed = [v \in Voxels |-> IF v \notin S THEN @[v]
                            ELSE IF e.kind = "deleted" THEN NoTime ELSE e.time],
            !.deleted = [v \in Voxels |-> IF v \notin S THEN @[v]
                            ELSE IF e.kind = "deleted" THEN e.time ELSE NoTime]]

apply_KeepsTombstone(l, e) ==
    LET S == {v \in Covers[e.cell] : IsNewer(l, v, e.time)}
    IN  [l EXCEPT
            !.state = [v \in Voxels |-> IF v \in S THEN OccupancyOf(e.kind) ELSE @[v]],
            !.dynamic = IF e.kind = "dynamic" THEN @ \cup S ELSE @ \ S,
            !.observed = [v \in Voxels |-> IF v \notin S THEN @[v]
                            ELSE IF e.kind = "deleted" THEN NoTime ELSE e.time],
            !.deleted = [v \in Voxels |-> IF v \notin S \/ e.kind = "unknown" THEN @[v]
                            ELSE IF e.kind = "deleted" THEN e.time ELSE NoTime]]

apply_voxel(l, e) ==
    LET S == {v \in Covers[e.cell] : IsNewer(l, v, e.time)}
    IN  [l EXCEPT
            !.state = [v \in Voxels |-> IF v \in S THEN OccupancyOf(e.kind) ELSE @[v]],
            !.dynamic = IF e.kind = "dynamic" THEN @ \cup S ELSE @ \ S,
            !.observed = [v \in Voxels |-> IF v \notin S THEN @[v]
                            ELSE IF e.kind = "deleted" THEN NoTime ELSE e.time],
            !.deleted = [v \in Voxels |-> IF v \notin S THEN @[v]
                            ELSE IF e.kind = "deleted" THEN e.time ELSE NoTime]]

-----------------------------------------------------------------------------
(* The environment.                                                        *)

NoEntry == [kind |-> "none"]
NewMap == [c \in Cells |-> NoEntry]

Init ==
    /\ robot \in [Sources -> {[mode |-> m, epoch |-> 1, version |-> 0, map |-> NewMap,
                               refreshes |-> 0] : m \in Modes}]
    /\ sent = {}
    /\ clock = 0
    /\ layer = [s \in Sources |-> EmptyLayer]
    /\ call = idle
    /\ heard = [s \in Sources |-> {}]
    /\ gap = [s \in Sources |-> FALSE]
    /\ contact = [s \in Sources |-> <<>>]

Message(s, r, full, cells) ==
    [source |-> s, mode |-> r.mode, map_epoch |-> r.epoch, version |-> r.version,
     full_refresh |-> full, cells |-> cells]

publish(s, r, full, cells) ==
    /\ call = idle
    /\ robot' = [robot EXCEPT ![s] = r]
    /\ sent' = sent \cup {Message(s, r, full, cells)}
    /\ UNCHANGED <<layer, call, history>>

(* A robot observes a cell and publishes the change as the next version. *)
robot_observes(s, c, k) ==
    /\ clock < MaxClock
    /\ clock' = clock + 1
    /\ LET e == [cell |-> c, kind |-> k, time |-> clock']
       IN  publish(s, [robot[s] EXCEPT !.version = @ + 1, !.map[c] = e], FALSE, <<e>>)

(* All the cells a robot has something to say of, as a full refresh. *)
Known(r) == {c \in Cells : r.map[c].kind \notin {"none", "deleted"}}
robot_refreshes(s) ==
    /\ robot[s].version > 0 /\ robot[s].refreshes < MaxRefresh
    /\ \E q \in [1 .. Cardinality(Known(robot[s])) -> Known(robot[s])] :
          /\ \A c \in Known(robot[s]) : \E i \in DOMAIN q : q[i] = c
          /\ publish(s, [robot[s] EXCEPT !.refreshes = @ + 1],
                     TRUE, [i \in DOMAIN q |-> robot[s].map[q[i]]])
    /\ UNCHANGED clock

(* A new epoch, announced by an empty full refresh of version zero. *)
robot_restarts(s) ==
    /\ robot[s].epoch < MaxEpoch
    /\ publish(s, [robot[s] EXCEPT !.epoch = @ + 1, !.version = 0, !.map = NewMap],
               TRUE, <<>>)
    /\ UNCHANGED clock

-----------------------------------------------------------------------------
(* voxel_delta_callback.                                                   *)

begin(m, l, kept) ==
    /\ call' = [busy |-> TRUE, msg |-> m, at |-> 1, layer |-> l,
                heard |-> IF kept THEN heard[m.source] ELSE {}]
    /\ UNCHANGED <<network, layer, history>>

(* operating_mode 4: neither versions nor refreshes, only epochs and times. *)
on_evidence(m) ==
    LET l == layer[m.source]
        fresh == ~l.occupancy \/ l.map_epoch # m.map_epoch
    IN  /\ m.mode = "evidence"
        /\ m.map_epoch \notin l.retired
        /\ begin(m, IF fresh THEN reset_remote_source(l, m.map_epoch) ELSE l, ~fresh)

(* A layer is set up, to be filled by the first full refresh. *)
set_up(m) ==
    /\ layer' = [layer EXCEPT ![m.source] = reset_remote_source(@, m.map_epoch)]
    /\ UNCHANGED <<network, call, history>>

sentinel_AlwaysResets(m) ==
    /\ m.mode = "map" /\ m.full_refresh
    /\ m.cells = <<>> /\ m.version = 0
    /\ set_up(m)

sentinel(m) ==
    /\ m.mode = "map" /\ m.full_refresh
    /\ m.cells = <<>> /\ m.version = 0
    /\ ~layer[m.source].occupancy
    /\ set_up(m)

Stale(l, m) ==
    l.occupancy /\ l.map_epoch = m.map_epoch /\ ~l.awaiting /\ m.version < l.last_version

full_refresh(m) ==
    /\ m.mode = "map" /\ m.full_refresh
    /\ ~(m.cells = <<>> /\ m.version = 0)
    /\ ~Stale(layer[m.source], m)
    /\ begin(m, reset_remote_source(EmptyLayer, m.map_epoch), FALSE)

delta_before_layer(m) ==
    /\ m.mode = "map" /\ ~m.full_refresh
    /\ ~layer[m.source].occupancy
    /\ set_up(m)

Follows_AnyVersion(l, m) == l.map_epoch = m.map_epoch /\ ~l.awaiting

Follows(l, m) ==
    l.map_epoch = m.map_epoch /\ ~l.awaiting /\ m.version > l.last_version

delta(m) ==
    /\ m.mode = "map" /\ ~m.full_refresh
    /\ layer[m.source].occupancy
    /\ Follows(layer[m.source], m)
    /\ begin(m, layer[m.source], TRUE)

voxel_delta_callback(m) ==
    /\ call = idle
    /\ \/ on_evidence(m)
       \/ sentinel(m)
       \/ full_refresh(m)
       \/ delta_before_layer(m)
       \/ delta(m)

(* apply_voxel_delta: one voxel of the message, ... *)
apply_next ==
    /\ call.busy /\ call.at <= Len(call.msg.cells)
    /\ LET e == call.msg.cells[call.at]
       IN  call' = [call EXCEPT !.at = @ + 1,
                                !.layer = apply_voxel(@, e),
                                !.heard = @ \cup {e}]
    /\ UNCHANGED <<network, layer, history>>

(* ... and its end; a refresh is dropped if the layer went past it. *)
apply_done ==
    LET m == call.msg
        s == m.source
        cur == layer[s]
        new == [call.layer EXCEPT !.map_epoch = m.map_epoch,
                                  !.last_version = Larger(@, m.version),
                                  !.awaiting = FALSE]
        refresh == m.mode = "map" /\ m.full_refresh
        overtaken == refresh /\ cur.occupancy /\ cur.map_epoch = m.map_epoch
                             /\ cur.last_version > m.version
    IN  /\ call.busy /\ call.at > Len(call.msg.cells)
        /\ call' = idle
        /\ IF overtaken
           THEN UNCHANGED <<layer, history>>
           ELSE /\ layer' = [layer EXCEPT ![s] = new]
                /\ heard' = [heard EXCEPT ![s] = call.heard]
                /\ gap' = [gap EXCEPT ![s] = IF refresh THEN FALSE
                              ELSE @ \/ m.version > cur.last_version + 1]
                /\ contact' = [contact EXCEPT ![s] =
                      IF \E i \in DOMAIN @ : @[i] = m.map_epoch THEN @
                      ELSE Append(@, m.map_epoch)]
        /\ UNCHANGED network

-----------------------------------------------------------------------------
Next ==
    \/ \E s \in Sources : \E r \in Reports[s] : robot_observes(s, r[1], r[2])
    \/ \E s \in Sources : robot_refreshes(s) \/ robot_restarts(s)
    \/ \E m \in sent : voxel_delta_callback(m)
    \/ apply_next
    \/ apply_done

Spec == Init /\ [][Next]_vars

-----------------------------------------------------------------------------
(* Properties.                                                             *)

(* Every variable keeps its type. *)
Layer ==
    [occupancy : BOOLEAN, map_epoch : 0 .. MaxEpoch, last_version : Nat,
     retired : SUBSET (0 .. MaxEpoch), awaiting : BOOLEAN, state : [Voxels -> States],
     dynamic : SUBSET Voxels, observed : [Voxels -> Times \cup {NoTime}],
     deleted : [Voxels -> Times \cup {NoTime}]]
Messages ==
    [source : Sources, mode : {"evidence", "map"}, map_epoch : Epochs, version : Nat,
     full_refresh : BOOLEAN, cells : Seq(Entry)]
Robot ==
    [mode : {"evidence", "map"}, epoch : Epochs, version : Nat,
     map : [Cells -> Entry \cup {NoEntry}], refreshes : Nat]
Call ==
    {idle} \cup [busy : {TRUE}, msg : Messages, at : Nat \ {0}, layer : Layer,
                 heard : SUBSET Entry]
TypeOK ==
    /\ robot \in [Sources -> Robot]
    /\ sent \subseteq Messages
    /\ clock \in Times
    /\ layer \in [Sources -> Layer]
    /\ call \in Call
    /\ heard \in [Sources -> SUBSET Entry]
    /\ gap \in [Sources -> BOOLEAN]
    /\ contact \in [Sources -> Seq(Epochs)]

(* Reference: of all that was said of a voxel since the layer was reset, a *)
(* newest entry shows, in whatever order and however often messages came.  *)
Said(H, v) == {e \in H : v \in Covers[e.cell]}
ShowsNothing(l, v) ==
    /\ l.state[v] = "unknown" /\ v \notin l.dynamic
    /\ l.observed[v] = NoTime /\ l.deleted[v] = NoTime
ShowsEntry(l, v, e) ==
    /\ l.state[v] = OccupancyOf(e.kind)
    /\ v \in l.dynamic <=> e.kind = "dynamic"
    /\ l.observed[v] = IF e.kind = "deleted" THEN NoTime ELSE e.time
    /\ l.deleted[v] = IF e.kind = "deleted" THEN e.time ELSE NoTime
ShowsNewest(l, H) ==
    \A v \in Voxels :
        \/ Said(H, v) = {} /\ ShowsNothing(l, v)
        \/ \E e \in Said(H, v) :
              ShowsEntry(l, v, e) /\ \A f \in Said(H, v) : f.time <= e.time
NewestWins == \A s \in Sources : ShowsNewest(layer[s], heard[s])

(* As long as no version was skipped since the last full refresh, the      *)
(* layer of a map source is the robot's map as of the layer's version,     *)
(* whatever arrived late, twice or from before a restart.  (A voxel that   *)
(* two cells cover may show one that the robot has since forgotten.)       *)
Published(s, v) ==
    UNION {{m.cells[i] : i \in DOMAIN m.cells} :
             m \in {n \in sent : /\ n.source = s /\ ~n.full_refresh
                                 /\ n.map_epoch = layer[s].map_epoch
                                 /\ n.version <= v}}
SameView(l, v, e) ==
    l.state[v] = OccupancyOf(e.kind) /\ (v \in l.dynamic <=> e.kind = "dynamic")
UpToDate ==
    \A s \in Sources, c \in Cells, v \in Voxels :
        LET l == layer[s]
            E == {e \in Published(s, l.last_version) : e.cell = c}
        IN  (/\ robot[s].mode = "map" /\ Shown(l) /\ ~gap[s]
             /\ {d \in Cells : v \in Covers[d]} = {c})
            => IF E = {} THEN l.state[v] = "unknown"
               ELSE SameView(l, v, CHOOSE e \in E : \A f \in E : f.time <= e.time)

(* "Preserve any currently displayed layer until the actual refresh        *)
(* arrives": a layer once shown is shown from then on, and leaves its      *)
(* epoch only with the content of a message of the next.                   *)
DisplayedIsPreserved ==
    [][\A s \in Sources :
          Shown(layer[s]) =>
             /\ Shown(layer'[s])
             /\ layer[s].map_epoch # layer'[s].map_epoch
                   => heard'[s] = {call.msg.cells[i] : i \in DOMAIN call.msg.cells}]_vars

(* A layer of mode 4 shows the epoch that it was the last to hear of: no   *)
(* message of an epoch it has left, however late, takes it back.           *)
NewestEpochShown ==
    \A s \in Sources :
        robot[s].mode = "evidence" /\ contact[s] # <<>>
            => layer[s].map_epoch = contact[s][Len(contact[s])]
=============================================================================
