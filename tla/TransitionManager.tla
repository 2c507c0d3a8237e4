--------------------------- MODULE TransitionManager ---------------------------
(***************************************************************************)
(* TransitionManager (rolling_bonxai/src/transition_manager.cpp) on the    *)
(* grid of ChunkCoordinateSystem (coordinate_system.cpp): which chunk is   *)
(* the reference chunk, as the robot moves around.                         *)
(*                                                                         *)
(* Positions lie on a lattice in which a chunk is 2 * Half units wide, so  *)
(* that centres, boundaries and thresholds are exact; the hysteresis ratio *)
(* is in hundredths.  The robot may be anywhere at every update.  Axes are *)
(* a parameter: the code treats x, y and z alike.  Floating-point rounding *)
(* and the velocity, which nothing reads, are left out.                    *)
(***************************************************************************)
EXTENDS Integers, FiniteSets, FiniteSetsExt

CONSTANTS Axes,        (* x, y, z                                            *)
          Half,        (* half a chunk                                       *)
          HystRatio,   (* hyst_ratio as configured, in hundredths            *)
          Reach        (* bound of the models: |position| on every axis      *)

ASSUME TransitionAssumption ==
    /\ IsFiniteSet(Axes) /\ Axes # {}
    /\ Half \in Nat \ {0}
    /\ HystRatio \in Int
    /\ Reach \in Nat

Position == [Axes -> -Reach..Reach]
ChunkCoord == [Axes -> Int]
Size == 2 * Half

abs(i) == IF i < 0 THEN -i ELSE i

-----------------------------------------------------------------------------
(* ChunkCoordinateSystem. *)

(* Broken variants of an operator, named after the bug, stand right before *)
(* it; PROJECT.json says which property each one must violate.             *)
roundToInt_Truncates(v) == IF v >= 0 THEN v \div Size ELSE -((-v) \div Size)

(* static_cast<int32_t>(v / size + (v >= 0 ? 0.5 : -0.5)): rounds a half   *)
(* away from zero.                                                         *)
roundToInt(v) ==
    IF v >= 0 THEN (v + Half) \div Size ELSE -((Half - v) \div Size)

positionToChunkCoordinate(p) == [a \in Axes |-> roundToInt(p[a])]

chunkMinBound(c, a) == c[a] * Size - Half
chunkMaxBound(c, a) == c[a] * Size + Half

isPositionInChunk(p, c) ==
    \A a \in Axes : chunkMinBound(c, a) <= p[a] /\ p[a] < chunkMaxBound(c, a)

distanceToBoundary(p, c) ==
    IF isPositionInChunk(p, c)
    THEN Min({abs(p[a] - chunkMinBound(c, a)) : a \in Axes}
             \cup {abs(p[a] - chunkMaxBound(c, a)) : a \in Axes})
    ELSE -1

-----------------------------------------------------------------------------

States == {"UNINITIALIZED", "STABLE_SOURCE", "HYSTERESIS_SOURCE",
           "HYSTERESIS_NEXT", "STABLE_NEXT"}

VARIABLES initialized,   (* initialized_                                     *)
          ego,           (* ego_position_                                    *)
          ref, prevRef,  (* reference_chunk_coord_, previous_chunk_coord_    *)
          state,         (* reference_t_state_                               *)
          prevState,     (* previous_t_state_                                *)
          answer,        (* how the last update ended: "io", "no", "throw"   *)
          crossedAt      (* history: where the last transition was confirmed *)

vars == <<initialized, ego, ref, prevRef, state, prevState, answer, crossedAt>>

Origin == [a \in Axes |-> 0]
Nowhere == [a \in Axes |-> Reach + 1]

Init ==
    /\ initialized = FALSE
    /\ ego = Origin
    /\ ref = Origin /\ prevRef = Origin
    /\ state = "UNINITIALIZED" /\ prevState = "UNINITIALIZED"
    /\ answer = "no"
    /\ crossedAt = Nowhere

-----------------------------------------------------------------------------

(* A distance reaches the hysteresis zone, chunk_size * hyst_ratio_.       *)
ClampedRatio == IF HystRatio < 1 THEN 1 ELSE IF HystRatio > 100 THEN 100 ELSE HystRatio
ReachesZone(d) == 100 * d >= Size * ClampedRatio

computeStateIfSameChunk(p, c) ==
    LET d == distanceToBoundary(p, c)
    IN  IF ReachesZone(d) THEN "STABLE_SOURCE"
        ELSE IF d >= 0 THEN "HYSTERESIS_SOURCE" ELSE "UNINITIALIZED"

Changed(from, to) == {a \in Axes : to[a] # from[a]}

calculateBoundaryPenetration_Deepest(p, from, to) ==
    Max({abs(p[a] - (from[a] * Size + (to[a] - from[a]) * Half)) : a \in Changed(from, to)})

calculateBoundaryPenetration_AllAxes(p, from, to) ==
    Min({abs(p[a] - (from[a] * Size + (to[a] - from[a]) * Half)) : a \in Axes})

(* The smallest depth past a shared boundary, over the axes that changed.  *)
calculateBoundaryPenetration(p, from, to) ==
    Min({abs(p[a] - (from[a] * Size + (to[a] - from[a]) * Half)) : a \in Changed(from, to)})

computeStateIfNextChunk(p, c) ==
    IF ReachesZone(calculateBoundaryPenetration(p, ref, c))
    THEN "STABLE_NEXT" ELSE "HYSTERESIS_NEXT"

(* Chebyshev distance. *)
Apart(c, d) == Max({abs(c[a] - d[a]) : a \in Axes})

detectChunkJump_Twice(c) == Apart(c, ref) > 2
detectChunkJump(c) == Apart(c, ref) > 1

-----------------------------------------------------------------------------
(* shouldTriggerTransition at position p, in chunk c.  updateEgoState comes*)
(* first in every case, and stays done when the sanity check throws.       *)

FirstUpdate(p, c) ==
    /\ ~initialized
    /\ initialized' = TRUE
    /\ ref' = c /\ prevRef' = c
    /\ state' = computeStateIfSameChunk(p, c)
    /\ prevState' = "UNINITIALIZED"
    /\ answer' = "io"
    /\ UNCHANGED crossedAt

ChunkJump(p, c) ==
    /\ initialized
    /\ detectChunkJump(c)
    /\ prevRef' = ref /\ ref' = c
    /\ prevState' = state /\ state' = "STABLE_SOURCE"
    /\ answer' = "io"
    /\ crossedAt' = Nowhere
    /\ UNCHANGED initialized

SameChunk(p, c) ==
    /\ initialized
    /\ c = ref
    /\ LET s == computeStateIfSameChunk(p, c)
       IN  IF s = "UNINITIALIZED"
           THEN answer' = "throw" /\ UNCHANGED <<state, prevState>>
           ELSE answer' = "no" /\ prevState' = state /\ state' = s
    /\ UNCHANGED <<initialized, ref, prevRef, crossedAt>>

NextChunk(p, c) ==
    /\ initialized
    /\ c # ref /\ ~detectChunkJump(c)
    /\ IF computeStateIfNextChunk(p, c) = "STABLE_NEXT"
       THEN /\ prevRef' = ref /\ ref' = c
            /\ prevState' = "STABLE_NEXT" /\ state' = "STABLE_SOURCE"
            /\ answer' = "io"
            /\ crossedAt' = p
       ELSE /\ prevState' = state /\ state' = "HYSTERESIS_NEXT"
            /\ answer' = "no"
            /\ UNCHANGED <<ref, prevRef, crossedAt>>
    /\ UNCHANGED initialized

shouldTriggerTransition(p) ==
    LET c == positionToChunkCoordinate(p)
    IN  /\ ego' = p
        /\ FirstUpdate(p, c) \/ ChunkJump(p, c) \/ SameChunk(p, c) \/ NextChunk(p, c)

Next == \E p \in Position : shouldTriggerTransition(p)

Spec == Init /\ [][Next]_vars

-----------------------------------------------------------------------------
(* Properties. *)

(* A confirmed transition is over at once: the machine rests in STABLE_NEXT*)
(* never, only remembers it as the previous state.                         *)
TypeOK ==
    /\ initialized \in BOOLEAN
    /\ ego \in Position
    /\ ref \in ChunkCoord /\ prevRef \in ChunkCoord
    /\ state \in States \ {"STABLE_NEXT"} /\ prevState \in States
    /\ answer \in {"io", "no", "throw"}
    /\ crossedAt \in Position \cup {Nowhere}

(* The reference chunk may lag behind the robot, but never by more than    *)
(* one chunk on any axis.                                                  *)
RefTracksRobot == initialized => Apart(positionToChunkCoordinate(ego), ref) <= 1

(* A robot that is a hysteresis zone away from every boundary of its chunk *)
(* has that chunk as reference: hysteresis never holds a transition back   *)
(* longer than it has to.                                                  *)
DeepIsSettled ==
    LET c == positionToChunkCoordinate(ego)
    IN  initialized /\ answer # "throw" /\ ReachesZone(distanceToBoundary(ego, c)) => ref = c

(* No thrashing: after a confirmed transition, going back to the chunk just*)
(* left takes a move of at least two hysteresis zones on some axis.        *)
NoThrashing ==
    [][ ref' # ref /\ ref' = prevRef /\ crossedAt # Nowhere /\ crossedAt' # Nowhere
        => \E a \in Axes : 100 * abs(ego'[a] - crossedAt[a]) >= 2 * Size * ClampedRatio ]_vars

(* The sanity check throws in one place only: on the upper boundary of a   *)
(* chunk at negative coordinates, which rounding counts as inside the      *)
(* chunk and its half-open bounds as outside.                              *)
ThrowsOnUpperBoundary ==
    answer = "throw" =>
        \E a \in Axes : ego[a] < 0 /\ ego[a] = chunkMaxBound(ref, a)

=============================================================================
