------------------------ MODULE TransitionManagerProofs ------------------------
(***************************************************************************)
(* What TransitionManager and RayDispatch promise, for any number of axes, *)
(* size of a chunk and a voxel, hysteresis ratio and reach; and what       *)
(* ChunkPolicies promises of the chunks in memory, for any reference       *)
(* chunks, radius, bands and age, and any loads that are late or fail.     *)
(*                                                                         *)
(* The inductive invariant says where the robot is while the reference     *)
(* chunk is not its own (Held), what is remembered of the last transition  *)
(* (Crossed), and where the machine throws.  The rest is arithmetic of the *)
(* grid: every operator that takes a Min or a Max over the axes is first   *)
(* characterised by a lemma, and so is rounding.                           *)
(*                                                                         *)
(* Rays need only the types of what they iterate over (WalkType) and which *)
(* chunk the dispatch remembers (RayChunksIs).  That evidence is found is  *)
(* again arithmetic: where a voxel lies in the chunk it is Placed in.      *)
(***************************************************************************)
EXTENDS RayDispatch, ChunkPolicies, FiniteSetTheorems, WellFoundedInduction, TLAPS

-----------------------------------------------------------------------------
(* Largest and smallest elements.                                          *)

(* A finite set of integers has a largest element: a smallest subset       *)
(* without one would have one, that of the subset without any one element  *)
(* or that element.                                                        *)
LEMMA LargestExists ==
    ASSUME NEW S, IsFiniteSet(S), S \subseteq Int, S # {}
    PROVE  \E x \in S : \A y \in S : x >= y
PROOF
<1> DEFINE Bad == {T \in SUBSET S : T # {} /\ \A x \in T : \E y \in T : ~ (x >= y)}
<1>1. SUFFICES ASSUME Bad # {} PROVE FALSE
  BY <1>1
<1>2. PICK T \in Bad : \A U \in Bad : ~ (<<U, T>> \in StrictSubsetOrdering(S))
  <2>1. Bad \subseteq FiniteSubsetsOf(S)
    BY FS_Subset DEF FiniteSubsetsOf
  <2> QED BY <2>1, <1>1, WFMin, FS_StrictSubsetOrderingWellFounded
<1>3. PICK x \in T : TRUE
  BY <1>2
<1> DEFINE U == T \ {x}
<1>4. U # {}
  BY <1>2, <1>3
<1>5. <<U, T>> \in StrictSubsetOrdering(S)
  BY <1>2, <1>3 DEF StrictSubsetOrdering
<1>6. U \notin Bad
  BY <1>2, <1>5
<1>7. PICK m \in U : \A y \in U : m >= y
  BY <1>2, <1>4, <1>6
<1>8. PICK z \in T : ~ (m >= z)
  BY <1>2, <1>7
<1>9. z = x
  BY <1>7, <1>8
<1>10. \A y \in T : x >= y
  BY <1>2, <1>7, <1>8, <1>9
<1> QED BY <1>2, <1>3, <1>10

LEMMA MaxIs ==
    ASSUME NEW S, IsFiniteSet(S), S \subseteq Int, S # {}
    PROVE  Max(S) \in S /\ \A y \in S : y <= Max(S)
PROOF
<1>1. PICK x \in S : \A y \in S : x >= y
  BY LargestExists
<1>2. Max(S) \in S /\ \A y \in S : Max(S) >= y
  BY <1>1 DEF Max
<1> QED BY <1>2

LEMMA MinIs ==
    ASSUME NEW S, IsFiniteSet(S), S \subseteq Int, S # {}
    PROVE  Min(S) \in S /\ \A y \in S : Min(S) <= y
PROOF
<1> DEFINE N == {-x : x \in S}
<1>1. IsFiniteSet(N)
  <2> DEFINE f == [x \in S |-> -x]
  <2>1. f \in Surjection(S, N)
    BY DEF Surjection
  <2> QED BY <2>1, FS_Surjection
<1>2. N \subseteq Int /\ N # {}
  OBVIOUS
<1>3. PICK m \in N : \A y \in N : m >= y
  BY <1>1, <1>2, LargestExists
<1>4. PICK x \in S : m = -x
  BY <1>3
<1>5. \A y \in S : x <= y
  BY <1>3, <1>4
<1>6. \E z \in S : \A y \in S : z <= y
  BY <1>5
<1> QED BY <1>6 DEF Min

(* What is computed for every axis is finite.                              *)
LEMMA PerAxis ==
    ASSUME NEW f, NEW T \in SUBSET Axes
    PROVE  IsFiniteSet({f[a] : a \in T})
PROOF
<1>1. IsFiniteSet(T)
  BY TransitionAssumption, FS_Subset DEF TransitionAssumption
<1> DEFINE g == [a \in T |-> f[a]]
           S == {f[a] : a \in T}
<1>2. g \in Surjection(T, S)
  BY DEF Surjection
<1> QED BY <1>1, <1>2, FS_Surjection

-----------------------------------------------------------------------------
(* The grid.                                                               *)

LEMMA SizeIs == Half \in Nat /\ Half > 0 /\ Size \in Nat /\ Size = Half + Half /\ Size > 0
  BY TransitionAssumption DEF TransitionAssumption, Size

LEMMA Division ==
    ASSUME NEW x \in Int
    PROVE  /\ x \div Size \in Int
           /\ Size * (x \div Size) <= x /\ x < Size * (x \div Size) + Size
  BY SizeIs

LEMMA Multiples ==
    ASSUME NEW k \in Int
    PROVE  /\ k * Size \in Int /\ (k + 1) * Size = k * Size + Size
           /\ (k - 1) * Size = k * Size - Size /\ (-k) * Size = -(k * Size)
           /\ Size * k = k * Size
  BY SizeIs

(* A number rounds to a chunk that has it, or to the one it is the upper   *)
(* bound of, if it is negative.                                            *)
LEMMA RoundIs ==
    ASSUME NEW v \in Int
    PROVE  LET r == roundToInt(v)
           IN  /\ r \in Int
               /\ r * Size - Half <= v /\ v <= r * Size + Half
               /\ v >= 0 => v < r * Size + Half
PROOF
<1>1. CASE v >= 0
  <2> DEFINE q == (v + Half) \div Size
  <2>1. q \in Int /\ Size * q <= v + Half /\ v + Half < Size * q + Size
    BY SizeIs, Division
  <2>2. roundToInt(v) = q
    BY <1>1 DEF roundToInt
  <2>3. Size * q = q * Size /\ q * Size \in Int
    BY <2>1, Multiples
  <2> HIDE DEF q
  <2> QED BY <2>1, <2>2, <2>3, SizeIs
<1>2. CASE v < 0
  <2> DEFINE q == (Half - v) \div Size
  <2>1. q \in Int /\ Size * q <= Half - v /\ Half - v < Size * q + Size
    BY SizeIs, Division
  <2>2. roundToInt(v) = -q
    BY <1>2 DEF roundToInt
  <2>3. Size * q = q * Size /\ q * Size \in Int /\ (-q) * Size = -(q * Size)
    BY <2>1, Multiples
  <2> HIDE DEF q
  <2> QED BY <1>2, <2>1, <2>2, <2>3, SizeIs
<1> QED BY <1>1, <1>2

LEMMA ChunkOf ==
    ASSUME NEW p \in [Axes -> Int]
    PROVE  /\ positionToChunkCoordinate(p) \in ChunkCoord
           /\ \A a \in Axes :
                 LET c == positionToChunkCoordinate(p)
                 IN  /\ chunkMinBound(c, a) <= p[a] /\ p[a] <= chunkMaxBound(c, a)
                     /\ p[a] >= 0 => p[a] < chunkMaxBound(c, a)
  BY RoundIs DEF positionToChunkCoordinate, ChunkCoord, chunkMinBound, chunkMaxBound

LEMMA BoundsType ==
    ASSUME NEW c \in ChunkCoord, NEW a \in Axes
    PROVE  chunkMinBound(c, a) \in Int /\ chunkMaxBound(c, a) \in Int
  BY SizeIs, Multiples DEF ChunkCoord, chunkMinBound, chunkMaxBound

LEMMA AbsIs ==
    ASSUME NEW i \in Int
    PROVE  abs(i) \in Nat /\ (abs(i) = i \/ abs(i) = -i) /\ (abs(i) = 0 => i = 0)
  BY DEF abs

LEMMA ApartIs ==
    ASSUME NEW c \in ChunkCoord, NEW d \in ChunkCoord
    PROVE  /\ Apart(c, d) \in Int
           /\ \A a \in Axes : abs(c[a] - d[a]) <= Apart(c, d)
           /\ c = d => Apart(c, d) = 0
PROOF
<1> DEFINE f == [a \in Axes |-> abs(c[a] - d[a])]
           S == {abs(c[a] - d[a]) : a \in Axes}
<1>1. \A a \in Axes : c[a] - d[a] \in Int /\ abs(c[a] - d[a]) \in Nat
  BY AbsIs DEF ChunkCoord
<1>2. S = {f[a] : a \in Axes}
  OBVIOUS
<1>3. IsFiniteSet(S)
  BY <1>2, PerAxis
<1>4. S \subseteq Int /\ S # {}
  BY <1>1, TransitionAssumption DEF TransitionAssumption
<1>5. Max(S) \in S /\ \A y \in S : y <= Max(S)
  BY <1>3, <1>4, MaxIs
<1>6. Apart(c, d) = Max(S)
  BY DEF Apart
<1>7. \A a \in Axes : abs(c[a] - d[a]) <= Apart(c, d)
  BY <1>5, <1>6
<1>8. ASSUME c = d PROVE Apart(c, d) = 0
  <2>1. \A a \in Axes : abs(c[a] - d[a]) = 0
    BY <1>8 DEF abs, ChunkCoord
  <2> QED BY <1>5, <1>6, <2>1
<1> QED BY <1>4, <1>5, <1>6, <1>7, <1>8

LEMMA DistanceIs ==
    ASSUME NEW p \in [Axes -> Int], NEW c \in ChunkCoord
    PROVE  LET d == distanceToBoundary(p, c)
           IN  /\ d \in Int
               /\ ~ isPositionInChunk(p, c) => d = -1
               /\ isPositionInChunk(p, c) =>
                     /\ d >= 0
                     /\ \A a \in Axes : /\ d <= abs(p[a] - chunkMinBound(c, a))
                                        /\ d <= abs(p[a] - chunkMaxBound(c, a))
PROOF
<1> DEFINE f == [a \in Axes |-> abs(p[a] - chunkMinBound(c, a))]
           g == [a \in Axes |-> abs(p[a] - chunkMaxBound(c, a))]
           F == {abs(p[a] - chunkMinBound(c, a)) : a \in Axes}
           G == {abs(p[a] - chunkMaxBound(c, a)) : a \in Axes}
           S == F \cup G
<1>1. \A a \in Axes : /\ abs(p[a] - chunkMinBound(c, a)) \in Nat
                      /\ abs(p[a] - chunkMaxBound(c, a)) \in Nat
  BY AbsIs, BoundsType
<1>2. F = {f[a] : a \in Axes} /\ G = {g[a] : a \in Axes}
  OBVIOUS
<1>3. IsFiniteSet(F) /\ IsFiniteSet(G)
  BY <1>2, PerAxis
<1>4. IsFiniteSet(S)
  BY <1>3, FS_Union
<1>5. S \subseteq Nat /\ S # {}
  BY <1>1, TransitionAssumption DEF TransitionAssumption
<1>6. Min(S) \in S /\ \A y \in S : Min(S) <= y
  <2>1. S \subseteq Int
    BY <1>5
  <2> HIDE DEF S
  <2> QED BY <1>4, <1>5, <2>1, MinIs
<1>7. distanceToBoundary(p, c) = IF isPositionInChunk(p, c) THEN Min(S) ELSE -1
  BY DEF distanceToBoundary
<1>8. \A a \in Axes : /\ abs(p[a] - chunkMinBound(c, a)) \in S
                      /\ abs(p[a] - chunkMaxBound(c, a)) \in S
  OBVIOUS
<1> DEFINE m == Min(S)
<1>9. m \in Nat /\ \A y \in S : m <= y
  <2> HIDE DEF S
  <2> QED BY <1>5, <1>6
<1>10. \A a \in Axes : /\ m <= abs(p[a] - chunkMinBound(c, a))
                       /\ m <= abs(p[a] - chunkMaxBound(c, a))
  <2> HIDE DEF S, m
  <2> QED BY <1>8, <1>9
<1> HIDE DEF S
<1> QED BY <1>7, <1>9, <1>10

(* The boundary between two chunks on an axis on which they are neighbours.*)
Between(from, to, a) == IF to[a] > from[a] THEN chunkMinBound(to, a) ELSE chunkMaxBound(to, a)

LEMMA PenetrationIs ==
    ASSUME NEW p \in [Axes -> Int], NEW from \in ChunkCoord, NEW to \in ChunkCoord,
           from # to, Apart(to, from) <= 1
    PROVE  LET d == calculateBoundaryPenetration(p, from, to)
           IN  /\ d \in Int
               /\ \A a \in Changed(from, to) : d <= abs(p[a] - Between(from, to, a))
               /\ \E a \in Changed(from, to) : d = abs(p[a] - Between(from, to, a))
PROOF
<1> DEFINE C == Changed(from, to)
           f == [a \in C |-> abs(p[a] - (from[a] * Size + (to[a] - from[a]) * Half))]
           S == {abs(p[a] - (from[a] * Size + (to[a] - from[a]) * Half)) : a \in C}
<1>1. C \in SUBSET Axes /\ C # {}
  BY DEF Changed, ChunkCoord
<1>2. \A a \in C : to[a] = from[a] + 1 \/ to[a] = from[a] - 1
  <2> TAKE a \in C
  <2>1. /\ from[a] \in Int /\ to[a] \in Int /\ to[a] # from[a]
        /\ abs(to[a] - from[a]) <= Apart(to, from) /\ Apart(to, from) \in Int
    BY ApartIs DEF Changed, ChunkCoord
  <2> QED BY <2>1 DEF abs
<1>3. \A a \in C : /\ from[a] * Size + (to[a] - from[a]) * Half = Between(from, to, a)
                   /\ Between(from, to, a) \in Int
  <2> TAKE a \in C
  <2>1. from[a] \in Int /\ to[a] \in Int /\ from[a] * Size \in Int
    BY <1>1, Multiples DEF ChunkCoord
  <2>2. CASE to[a] = from[a] + 1
    <3>1. to[a] * Size = from[a] * Size + Size
      BY <2>1, <2>2, Multiples
    <3>2. (to[a] - from[a]) * Half = Half
      BY <2>1, <2>2, SizeIs
    <3>3. Between(from, to, a) = to[a] * Size - Half
      BY <2>1, <2>2 DEF Between, chunkMinBound
    <3> QED BY <2>1, <3>1, <3>2, <3>3, SizeIs
  <2>3. CASE to[a] = from[a] - 1
    <3>1. to[a] * Size = from[a] * Size - Size
      BY <2>1, <2>3, Multiples
    <3>2. (to[a] - from[a]) * Half = -Half
      BY <2>1, <2>3, SizeIs
    <3>3. Between(from, to, a) = to[a] * Size + Half
      BY <2>1, <2>3 DEF Between, chunkMaxBound
    <3> DEFINE k == from[a] * Size
               B == Between(from, to, a)
    <3>4. k \in Int /\ B = k - Size + Half
      BY <2>1, <3>1, <3>3
    <3>5. k + (to[a] - from[a]) * Half = k - Half
      BY <3>2
    <3> HIDE DEF k, B
    <3>6. B = k - Half /\ B \in Int
      BY <3>4, SizeIs
    <3> QED BY <3>5, <3>6 DEF k, B
  <2> QED BY <1>2, <2>2, <2>3
<1>4. \A a \in C : abs(p[a] - Between(from, to, a)) \in Nat
  BY <1>1, <1>3, AbsIs
<1>5. S = {abs(p[a] - Between(from, to, a)) : a \in C}
  BY <1>3
<1>6. S = {f[a] : a \in C}
  OBVIOUS
<1>7. IsFiniteSet(S)
  BY <1>1, <1>6, PerAxis
<1>8. S \subseteq Int /\ S # {}
  BY <1>1, <1>4, <1>5
<1>9. Min(S) \in S /\ \A y \in S : Min(S) <= y
  BY <1>7, <1>8, MinIs
<1>10. calculateBoundaryPenetration(p, from, to) = Min(S)
  BY DEF calculateBoundaryPenetration
<1> HIDE DEF S
<1> QED BY <1>5, <1>8, <1>9, <1>10

-----------------------------------------------------------------------------
(* Types.                                                                  *)

LEMMA PositionIs == Position \subseteq [Axes -> Int]
  BY DEF Position

(* The machine keeps its types, and rests in STABLE_NEXT never.            *)
THEOREM TypeCorrect == Spec => []TypeOK
PROOF
<1>1. Init => TypeOK
  <2> SUFFICES ASSUME Init PROVE TypeOK
    OBVIOUS
  <2>1. Origin \in Position /\ Origin \in ChunkCoord
    BY TransitionAssumption DEF Origin, Position, ChunkCoord, TransitionAssumption
  <2> QED BY <2>1 DEF Init, TypeOK, States
<1>2. TypeOK /\ [Next]_vars => TypeOK'
  <2> SUFFICES ASSUME TypeOK, [Next]_vars PROVE TypeOK'
    OBVIOUS
  <2>1. CASE UNCHANGED vars
    BY <2>1 DEF TypeOK, vars
  <2>2. CASE Next
    <3>1. PICK p \in Position : shouldTriggerTransition(p)
      BY <2>2 DEF Next
    <3> DEFINE c == positionToChunkCoordinate(p)
    <3>2. c \in ChunkCoord
      BY ChunkOf, PositionIs
    <3>3. computeStateIfSameChunk(p, c) \in {"STABLE_SOURCE", "HYSTERESIS_SOURCE", "UNINITIALIZED"}
      BY DEF computeStateIfSameChunk
    <3>4. ego' = p
      BY <3>1 DEF shouldTriggerTransition
    <3> HIDE DEF c
    <3>5. CASE FirstUpdate(p, c)
      BY <3>2, <3>3, <3>4, <3>5 DEF TypeOK, FirstUpdate, States
    <3>6. CASE ChunkJump(p, c)
      BY <3>2, <3>4, <3>6 DEF TypeOK, ChunkJump, States
    <3>7. CASE SameChunk(p, c)
      BY <3>2, <3>3, <3>4, <3>7 DEF TypeOK, SameChunk, States
    <3>8. CASE NextChunk(p, c)
      BY <3>2, <3>4, <3>8 DEF TypeOK, NextChunk, States
    <3> QED BY <3>1, <3>5, <3>6, <3>7, <3>8 DEF shouldTriggerTransition, c
  <2> QED BY <2>1, <2>2
<1> QED BY <1>1, <1>2, PTL DEF Spec

-----------------------------------------------------------------------------
(* The inductive invariant.                                                *)

(* As long as the robot's chunk is not the reference chunk, it is the next *)
(* one, and the robot has not come a hysteresis zone deep into it.         *)
Held ==
    initialized =>
        LET c == positionToChunkCoordinate(ego)
        IN  c # ref => /\ Apart(c, ref) <= 1
                       /\ ~ ReachesZone(calculateBoundaryPenetration(ego, ref, c))

(* Where the last transition was confirmed the robot was in the reference  *)
(* chunk, a zone deep, and had come from the chunk next to it.             *)
Crossed ==
    crossedAt # Nowhere =>
        /\ initialized
        /\ positionToChunkCoordinate(crossedAt) = ref
        /\ prevRef # ref /\ Apart(ref, prevRef) <= 1
        /\ ReachesZone(calculateBoundaryPenetration(crossedAt, prevRef, ref))

IInv == TypeOK /\ Held /\ Crossed /\ ThrowsOnUpperBoundary

(* The machine throws only if the robot is in no chunk, that is, on the    *)
(* upper boundary of the one it rounds to.                                 *)
LEMMA OutsideIsUpperBoundary ==
    ASSUME NEW p \in Position,
           computeStateIfSameChunk(p, positionToChunkCoordinate(p)) = "UNINITIALIZED"
    PROVE  \E a \in Axes : p[a] < 0 /\ p[a] = chunkMaxBound(positionToChunkCoordinate(p), a)
PROOF
<1> DEFINE c == positionToChunkCoordinate(p)
<1>1. p \in [Axes -> Int] /\ c \in ChunkCoord
  BY PositionIs, ChunkOf
<1>2. \A a \in Axes : /\ chunkMinBound(c, a) <= p[a] /\ p[a] <= chunkMaxBound(c, a)
                      /\ p[a] >= 0 => p[a] < chunkMaxBound(c, a)
  BY <1>1, ChunkOf
<1>3. ~ (distanceToBoundary(p, c) >= 0)
  BY DEF computeStateIfSameChunk
<1>4. ~ isPositionInChunk(p, c)
  BY <1>1, <1>3, DistanceIs
<1>5. PICK a \in Axes : ~ (chunkMinBound(c, a) <= p[a] /\ p[a] < chunkMaxBound(c, a))
  BY <1>4 DEF isPositionInChunk
<1>6. p[a] \in Int /\ chunkMaxBound(c, a) \in Int
  BY <1>1, BoundsType
<1> HIDE DEF c
<1>7. p[a] < 0 /\ p[a] = chunkMaxBound(c, a)
  BY <1>2, <1>5, <1>6
<1> QED BY <1>7 DEF c

THEOREM Invariance == Spec => []IInv
PROOF
<1>1. Init => IInv
  <2> SUFFICES ASSUME Init PROVE IInv
    OBVIOUS
  <2>1. TypeOK
    <3>1. Origin \in Position /\ Origin \in ChunkCoord
      BY TransitionAssumption DEF Origin, Position, ChunkCoord, TransitionAssumption
    <3> QED BY <3>1 DEF Init, TypeOK, States
  <2> QED BY <2>1 DEF Init, IInv, Held, Crossed, ThrowsOnUpperBoundary
<1>2. IInv /\ TypeOK' /\ [Next]_vars => IInv'
  <2> SUFFICES ASSUME IInv, TypeOK', [Next]_vars PROVE IInv'
    OBVIOUS
  <2>1. CASE UNCHANGED vars
    BY <2>1 DEF IInv, TypeOK, Held, Crossed, ThrowsOnUpperBoundary, vars
  <2>2. CASE Next
    <3>1. PICK p \in Position : shouldTriggerTransition(p)
      BY <2>2 DEF Next
    <3> DEFINE c == positionToChunkCoordinate(p)
    <3>2. c \in ChunkCoord /\ ref \in ChunkCoord
      BY ChunkOf, PositionIs DEF IInv, TypeOK
    <3>3. ego' = p
      BY <3>1 DEF shouldTriggerTransition
    <3>4. c = ref \/ detectChunkJump(c) \/ Apart(c, ref) <= 1
      BY <3>2, ApartIs DEF detectChunkJump
    <3>5. detectChunkJump(c) => c # ref
      BY <3>2, ApartIs DEF detectChunkJump
    <3>6. CASE FirstUpdate(p, c)
      <4>1. crossedAt = Nowhere
        BY <3>6 DEF IInv, Crossed, FirstUpdate
      <4>2. Held' /\ Crossed' /\ ThrowsOnUpperBoundary'
        BY <3>3, <3>6, <4>1 DEF FirstUpdate, Held, Crossed, ThrowsOnUpperBoundary
      <4> QED BY <4>2 DEF IInv
    <3>7. CASE ChunkJump(p, c)
      <4>1. Held' /\ Crossed' /\ ThrowsOnUpperBoundary'
        BY <3>3, <3>7 DEF ChunkJump, Held, Crossed, ThrowsOnUpperBoundary
      <4> QED BY <4>1 DEF IInv
    <3>8. CASE SameChunk(p, c)
      <4>1. Held'
        BY <3>3, <3>8 DEF SameChunk, Held
      <4>2. Crossed'
        BY <3>8 DEF SameChunk, Crossed, IInv
      <4>3. ThrowsOnUpperBoundary'
        BY <3>3, <3>8, OutsideIsUpperBoundary DEF SameChunk, ThrowsOnUpperBoundary
      <4> QED BY <4>1, <4>2, <4>3 DEF IInv
    <3>9. CASE NextChunk(p, c)
      <4>1. CASE computeStateIfNextChunk(p, c) = "STABLE_NEXT"
        <5>1. ReachesZone(calculateBoundaryPenetration(p, ref, c))
          BY <4>1 DEF computeStateIfNextChunk
        <5>2. Held' /\ ThrowsOnUpperBoundary'
          BY <3>3, <3>9, <4>1 DEF NextChunk, Held, ThrowsOnUpperBoundary
        <5>3. Crossed'
          BY <3>4, <3>9, <4>1, <5>1 DEF NextChunk, Crossed
        <5> QED BY <5>2, <5>3 DEF IInv
      <4>2. CASE computeStateIfNextChunk(p, c) # "STABLE_NEXT"
        <5>1. ~ ReachesZone(calculateBoundaryPenetration(p, ref, c))
          BY <4>2 DEF computeStateIfNextChunk
        <5>2. Held' /\ ThrowsOnUpperBoundary'
          BY <3>3, <3>4, <3>9, <4>2, <5>1 DEF NextChunk, Held, ThrowsOnUpperBoundary
        <5>3. Crossed'
          BY <3>9, <4>2 DEF NextChunk, Crossed, IInv
        <5> QED BY <5>2, <5>3 DEF IInv
      <4> QED BY <4>1, <4>2
    <3> QED BY <3>1, <3>6, <3>7, <3>8, <3>9 DEF shouldTriggerTransition
  <2> QED BY <2>1, <2>2
<1> QED BY <1>1, <1>2, TypeCorrect, PTL DEF Spec

-----------------------------------------------------------------------------
(* What follows from it.                                                   *)

(* The reference chunk lags behind the robot by at most one chunk.         *)
THEOREM RefTracksRobotHolds == Spec => []RefTracksRobot
PROOF
<1>1. IInv => RefTracksRobot
  <2> SUFFICES ASSUME IInv, initialized
               PROVE  Apart(positionToChunkCoordinate(ego), ref) <= 1
    BY DEF RefTracksRobot
  <2>1. positionToChunkCoordinate(ego) \in ChunkCoord /\ ref \in ChunkCoord
    BY ChunkOf, PositionIs DEF IInv, TypeOK
  <2> QED BY <2>1, ApartIs DEF IInv, Held
<1> QED BY <1>1, Invariance, PTL

(* The robot throws on one kind of boundary only.                          *)
THEOREM ThrowsOnUpperBoundaryHolds == Spec => []ThrowsOnUpperBoundary
PROOF
<1>1. IInv => ThrowsOnUpperBoundary
  BY DEF IInv
<1> QED BY <1>1, Invariance, PTL

LEMMA ZoneIs ==
    /\ ClampedRatio \in Nat /\ Size * ClampedRatio \in Int /\ Size * ClampedRatio > 0
    /\ 2 * Size * ClampedRatio = 2 * (Size * ClampedRatio)
PROOF
<1>1. ClampedRatio \in Nat /\ ClampedRatio > 0
  BY TransitionAssumption DEF TransitionAssumption, ClampedRatio
<1> QED BY <1>1, SizeIs

(* A robot a hysteresis zone inside its chunk has it as reference: the     *)
(* boundary it crossed is one of those it is a zone away from.             *)
THEOREM DeepIsSettledHolds == Spec => []DeepIsSettled
PROOF
<1>1. IInv => DeepIsSettled
  <2> DEFINE c == positionToChunkCoordinate(ego)
             d == distanceToBoundary(ego, c)
             e == calculateBoundaryPenetration(ego, ref, c)
  <2> SUFFICES ASSUME IInv, initialized, ReachesZone(d), c # ref
               PROVE  FALSE
    BY DEF DeepIsSettled
  <2>1. ego \in [Axes -> Int] /\ c \in ChunkCoord /\ ref \in ChunkCoord
    BY ChunkOf, PositionIs DEF IInv, TypeOK
  <2>2. Apart(c, ref) <= 1 /\ ~ ReachesZone(e)
    BY DEF IInv, Held
  <2>3. d \in Int /\ (~ isPositionInChunk(ego, c) => d = -1)
    BY <2>1, DistanceIs
  <2>4. isPositionInChunk(ego, c)
    <3> HIDE DEF d
    <3> QED BY <2>3, ZoneIs DEF ReachesZone
  <2>5. PICK a \in Changed(ref, c) : e = abs(ego[a] - Between(ref, c, a))
    BY <2>1, <2>2, PenetrationIs
  <2>6. e \in Int
    BY <2>1, <2>2, PenetrationIs
  <2>7. /\ d <= abs(ego[a] - chunkMinBound(c, a))
        /\ d <= abs(ego[a] - chunkMaxBound(c, a))
    BY <2>1, <2>4, DistanceIs DEF Changed
  <2>8. d <= e
    BY <2>5, <2>7 DEF Between
  <2> HIDE DEF d, e
  <2> QED BY <2>2, <2>3, <2>6, <2>8, ZoneIs DEF ReachesZone
<1> QED BY <1>1, Invariance, PTL

(* On an axis that changed, two positions on either side of the boundary,  *)
(* a zone deep each, are two zones apart.                                  *)
LEMMA ZonesAdd ==
    ASSUME NEW p \in [Axes -> Int], NEW q \in [Axes -> Int], NEW c, NEW d,
           c = positionToChunkCoordinate(p), d = positionToChunkCoordinate(q),
           c # d, Apart(c, d) <= 1, Apart(d, c) <= 1,
           ReachesZone(calculateBoundaryPenetration(p, d, c)),
           ReachesZone(calculateBoundaryPenetration(q, c, d))
    PROVE  \E a \in Axes : 100 * abs(q[a] - p[a]) >= 2 * Size * ClampedRatio
PROOF
<1>1. c \in ChunkCoord /\ d \in ChunkCoord
  BY ChunkOf
<1>2. PICK a \in Axes : c[a] # d[a]
  BY <1>1 DEF ChunkCoord
<1>3. a \in Changed(c, d) /\ a \in Changed(d, c)
  BY <1>2 DEF Changed
<1> DEFINE e == calculateBoundaryPenetration(p, d, c)
           f == calculateBoundaryPenetration(q, c, d)
           x == p[a]
           y == q[a]
<1>4. e \in Int /\ f \in Int /\ e <= abs(x - Between(d, c, a)) /\ f <= abs(y - Between(c, d, a))
  BY <1>1, <1>3, PenetrationIs
<1>5. x \in Int /\ y \in Int /\ c[a] \in Int /\ d[a] \in Int
  BY <1>1 DEF ChunkCoord
<1>6. /\ chunkMinBound(c, a) <= x /\ x <= chunkMaxBound(c, a)
      /\ chunkMinBound(d, a) <= y /\ y <= chunkMaxBound(d, a)
  BY ChunkOf
<1>7. /\ chunkMinBound(c, a) \in Int /\ chunkMaxBound(c, a) \in Int
      /\ chunkMinBound(d, a) \in Int /\ chunkMaxBound(d, a) \in Int
  BY <1>1, BoundsType
<1>8. 100 * e >= Size * ClampedRatio /\ 100 * f >= Size * ClampedRatio
  BY DEF ReachesZone
<1>9. c[a] = d[a] + 1 \/ d[a] = c[a] + 1
  <2>1. abs(c[a] - d[a]) <= 1
    BY <1>1, ApartIs, <1>5, AbsIs
  <2> QED BY <1>2, <1>5, <2>1 DEF abs
<1>10. CASE c[a] = d[a] + 1
  <2>1. chunkMinBound(c, a) = chunkMaxBound(d, a)
    BY <1>5, <1>10, Multiples, SizeIs DEF chunkMinBound, chunkMaxBound
  <2>2. Between(d, c, a) = chunkMinBound(c, a) /\ Between(c, d, a) = chunkMaxBound(d, a)
    BY <1>5, <1>10 DEF Between
  <2>3. e <= x - chunkMinBound(c, a) /\ f <= chunkMaxBound(d, a) - y
    BY <1>4, <1>5, <1>6, <1>7, <2>2 DEF abs
  <2>4. e + f <= abs(y - x)
    BY <1>4, <1>5, <1>7, <2>1, <2>3 DEF abs
  <2>5. abs(y - x) \in Nat
    BY <1>5, AbsIs
  <2> HIDE DEF e, f, x, y
  <2>6. 100 * abs(y - x) >= 2 * Size * ClampedRatio
    BY <1>4, <1>8, <2>4, <2>5, ZoneIs
  <2> QED BY <2>6 DEF x, y
<1>11. CASE d[a] = c[a] + 1
  <2>1. chunkMinBound(d, a) = chunkMaxBound(c, a)
    BY <1>5, <1>11, Multiples, SizeIs DEF chunkMinBound, chunkMaxBound
  <2>2. Between(d, c, a) = chunkMaxBound(c, a) /\ Between(c, d, a) = chunkMinBound(d, a)
    BY <1>5, <1>11 DEF Between
  <2>3. e <= chunkMaxBound(c, a) - x /\ f <= y - chunkMinBound(d, a)
    BY <1>4, <1>5, <1>6, <1>7, <2>2 DEF abs
  <2>4. e + f <= abs(y - x)
    BY <1>4, <1>5, <1>7, <2>1, <2>3 DEF abs
  <2>5. abs(y - x) \in Nat
    BY <1>5, AbsIs
  <2> HIDE DEF e, f, x, y
  <2>6. 100 * abs(y - x) >= 2 * Size * ClampedRatio
    BY <1>4, <1>8, <2>4, <2>5, ZoneIs
  <2> QED BY <2>6 DEF x, y
<1> QED BY <1>9, <1>10, <1>11

(* No thrashing, whatever the size of chunks and zones.                    *)
THEOREM NoThrashingHolds == Spec => NoThrashing
PROOF
<1> DEFINE Far == \E a \in Axes : 100 * abs(ego'[a] - crossedAt[a]) >= 2 * Size * ClampedRatio
<1>1. IInv /\ [Next]_vars =>
        [ref' # ref /\ ref' = prevRef /\ crossedAt # Nowhere /\ crossedAt' # Nowhere => Far]_vars
  <2> SUFFICES ASSUME IInv, Next, ref' # ref, ref' = prevRef,
                      crossedAt # Nowhere, crossedAt' # Nowhere
               PROVE  Far
    OBVIOUS
  <2>1. PICK p \in Position : shouldTriggerTransition(p)
    BY DEF Next
  <2> DEFINE c == positionToChunkCoordinate(p)
  <2>2. /\ initialized /\ positionToChunkCoordinate(crossedAt) = ref
        /\ Apart(ref, prevRef) <= 1
        /\ ReachesZone(calculateBoundaryPenetration(crossedAt, prevRef, ref))
    BY DEF IInv, Crossed
  <2>3. crossedAt \in [Axes -> Int] /\ p \in [Axes -> Int]
    BY PositionIs DEF IInv, TypeOK
  <2>4. NextChunk(p, c)
    BY <2>1, <2>2 DEF shouldTriggerTransition, FirstUpdate, ChunkJump, SameChunk
  <2>5. c = prevRef /\ c # ref /\ ~ detectChunkJump(c)
        /\ computeStateIfNextChunk(p, c) = "STABLE_NEXT"
    BY <2>4 DEF NextChunk
  <2>6. ReachesZone(calculateBoundaryPenetration(p, ref, c)) /\ ego' = p
    BY <2>1, <2>5 DEF computeStateIfNextChunk, shouldTriggerTransition
  <2>7. Apart(c, ref) <= 1
    <3>1. c \in ChunkCoord /\ ref \in ChunkCoord
      BY <2>3, ChunkOf DEF IInv, TypeOK
    <3> QED BY <2>5, <3>1, ApartIs DEF detectChunkJump
  <2> HIDE DEF c
  <2>8. \E a \in Axes : 100 * abs(p[a] - crossedAt[a]) >= 2 * Size * ClampedRatio
    BY <2>2, <2>3, <2>5, <2>6, <2>7, ZonesAdd DEF c
  <2> QED BY <2>6, <2>8
<1> QED BY <1>1, Invariance, PTL DEF Spec, NoThrashing

-----------------------------------------------------------------------------
(* Rays and what they visit.                                               *)

(* A wrong index has a first.                                              *)
LEMMA LeastIndex ==
    ASSUME NEW n \in Int, NEW B \in SUBSET (0 .. n), B # {}
    PROVE  \E i \in B : i - 1 \notin B /\ \A j \in B : i <= j
PROOF
<1>1. IsFiniteSet(B)
  <2>1. IsFiniteSet(0 .. n)
    BY FS_Interval
  <2> QED BY <2>1, FS_Subset
<1>2. B \subseteq Int
  OBVIOUS
<1>3. Min(B) \in B /\ \A j \in B : Min(B) <= j
  BY <1>1, <1>2, MinIs
<1> DEFINE m == Min(B)
<1> HIDE DEF m
<1>4. m \in B /\ \A j \in B : m <= j
  BY <1>3 DEF m
<1>5. m \in Int /\ ~(m <= m - 1)
  BY <1>2, <1>4
<1> QED BY <1>4, <1>5

(* A recursive function exists if each step stays in its range: no length  *)
(* is the first for which it does not.                                     *)
Iteration(g, n, c, F) == \A i \in 0 .. n : g[i] = IF i = 0 THEN c ELSE F[i][g[i - 1]]

LEMMA Iterates ==
    ASSUME NEW n \in Int, NEW S, NEW c \in S, NEW F \in [0 .. n -> [S -> S]]
    PROVE  \E g \in [0 .. n -> S] : Iteration(g, n, c, F)
PROOF
<1> DEFINE Step(g, i) == IF i = 0 THEN c ELSE F[i][g[i - 1]]
           Good(m) == \E g \in [0 .. m -> S] : \A i \in 0 .. m : g[i] = Step(g, i)
           B == {m \in 0 .. n : ~Good(m)}
<1>1. CASE n < 0
  <2>1. 0 .. n = {}
    BY <1>1
  <2>2. [i \in 0 .. n |-> c] \in [0 .. n -> S]
    OBVIOUS
  <2> QED BY <2>1, <2>2 DEF Iteration
<1>2. CASE n >= 0
  <2>1. SUFFICES ASSUME B # {} PROVE FALSE
    <3>1. n \in 0 .. n
      BY <1>2
    <3>2. B = {} => Good(n)
      BY <3>1
    <3> QED BY <3>2 DEF Iteration
  <2>2. PICK m \in 0 .. n : ~Good(m) /\ (m # 0 => Good(m - 1))
    <3>1. B \subseteq 0 .. n
      OBVIOUS
    <3>2. PICK m \in B : m - 1 \notin B
      <4> HIDE DEF B
      <4> QED BY <2>1, <3>1, LeastIndex
    <3>3. m # 0 => m - 1 \in 0 .. n
      BY <3>1, <3>2
    <3> QED BY <3>2, <3>3
  <2>3. CASE m = 0
    <3> DEFINE g == [i \in 0 .. 0 |-> c]
    <3>1. g \in [0 .. 0 -> S] /\ \A i \in 0 .. 0 : g[i] = Step(g, i)
      OBVIOUS
    <3> QED BY <2>2, <2>3, <3>1
  <2>4. CASE m # 0
    <3>1. PICK g \in [0 .. m - 1 -> S] : \A i \in 0 .. m - 1 : g[i] = Step(g, i)
      BY <2>2, <2>4
    <3> DEFINE h == [i \in 0 .. m |-> IF i = m THEN F[m][g[m - 1]] ELSE g[i]]
    <3>2. m - 1 \in 0 .. m - 1 /\ \A i \in 0 .. m : i # m => i \in 0 .. m - 1
      BY <2>4
    <3>3. h \in [0 .. m -> S]
      BY <3>2
    <3>4. ASSUME NEW i \in 0 .. m PROVE h[i] = Step(h, i)
      <4>1. CASE i = m
        <5>1. h[m - 1] = g[m - 1]
          BY <3>2
        <5> QED BY <2>4, <4>1, <5>1
      <4>2. CASE i # m
        <5>1. h[i] = g[i] /\ i \in 0 .. m - 1
          BY <3>2, <4>2
        <5>2. i # 0 => i - 1 \in 0 .. m - 1 /\ h[i - 1] = g[i - 1]
          BY <5>1
        <5> QED BY <3>1, <5>1, <5>2
      <4> QED BY <4>1, <4>2
    <3>5. Good(m)
      BY <3>3, <3>4
    <3> QED BY <2>2, <3>5
  <2> QED BY <2>3, <2>4
<1> QED BY <1>1, <1>2

(* A ray visits voxels.                                                    *)
LEMMA WalkType ==
    ASSUME NEW o \in [Axes -> Int], NEW e \in [Axes -> Int]
    PROVE  \E n \in Int : Ray!RayWalk(o, e) \in [0 .. n -> [Axes -> Int]]
PROOF
<1> DEFINE d == [a \in Axes |-> Ray!Distance(o[a], e[a])]
           S == {d[a] : a \in Axes}
           max == Ray!Longest(o, e)
<1>1. S \subseteq Int /\ S # {} /\ IsFiniteSet(S)
  <2>1. S \subseteq Int /\ S # {}
    BY TransitionAssumption DEF Ray!Distance, TransitionAssumption
  <2> QED BY <2>1, PerAxis
<1>2. max \in Int
  <2>1. S = {Ray!Distance(o[a], e[a]) : a \in Axes}
    OBVIOUS
  <2>2. \E x \in S : \A y \in S : x >= y
    BY <1>1, LargestExists
  <2>3. \E x \in {Ray!Distance(o[a], e[a]) : a \in Axes} : \A a \in Axes : Ray!Distance(o[a], e[a]) <= x
    BY <1>1, <2>2
  <2> QED BY <1>1, <2>1, <2>3 DEF Ray!Longest
<1>3. ASSUME NEW from \in Int, NEW to \in Int
      PROVE  Ray!AxisWalk(from, to, max) \in [0 .. max - 1 -> Int]
  <2> HIDE DEF max
  <2> DEFINE D == 0 .. max - 1
             R == [coord : Int, error : Int]
             Advance(w) == LET error == w.error + Ray!Distance(from, to)
                           IN  IF 2 * error >= max
                               THEN [coord |-> IF to < from THEN w.coord - 1 ELSE w.coord + 1,
                                     error |-> error - max]
                               ELSE [coord |-> w.coord, error |-> error]
             Walks(g) == g = [i \in D |-> IF i = 0 THEN [coord |-> from, error |-> 0]
                                          ELSE Advance(g[i - 1])]
             W == CHOOSE g : Walks(g)
             F == [i \in D |-> [s \in R |-> Advance(s)]]
  <2>1. Ray!AxisWalk(from, to, max) = [i \in D |-> W[i].coord]
    BY DEF Ray!AxisWalk
  <2>2. \A w \in R : Advance(w) \in R
    BY <1>2 DEF Ray!Distance
  <2>3. max - 1 \in Int /\ [coord |-> from, error |-> 0] \in R
    BY <1>2
  <2> HIDE DEF R, Advance
  <2>4. \A s \in R, i \in 0 .. max - 1 : F[i][s] = Advance(s)
    OBVIOUS
  <2>5. PICK g \in [D -> R] :
           \A i \in D : g[i] = IF i = 0 THEN [coord |-> from, error |-> 0] ELSE F[i][g[i - 1]]
    <3> DEFINE n == max - 1
               c == [coord |-> from, error |-> 0]
    <3>1. n \in Int /\ c \in R /\ F \in [0 .. n -> [R -> R]]
      BY <2>2, <2>3
    <3> HIDE DEF F, n, c
    <3>2. \E g \in [0 .. n -> R] : Iteration(g, n, c, F)
      BY <3>1, Iterates
    <3> QED BY <3>2 DEF n, c, Iteration
  <2>6. \A i \in D : i # 0 => i - 1 \in D
    BY <1>2
  <2>7. Walks(g)
    <3>1. \A i \in D : i # 0 => g[i] = Advance(g[i - 1])
      BY <2>4, <2>5, <2>6
    <3>2. g = [i \in D |-> g[i]]
      BY <2>5
    <3> HIDE DEF F, D
    <3> QED BY <2>5, <3>1, <3>2
  <2>8. Walks(W)
    BY <2>7
  <2> HIDE DEF W
  <2>9. ASSUME NEW i \in D, W[i] \notin R PROVE FALSE
    <3> DEFINE B == {j \in D : W[j] \notin R}
    <3>1. B \subseteq 0 .. max - 1 /\ B # {}
      BY <2>9
    <3>2. PICK j \in B : j - 1 \notin B
      <4> HIDE DEF B
      <4> QED BY <2>3, <3>1, LeastIndex
    <3>3. j # 0 => W[j - 1] \in R
      BY <2>6, <3>2
    <3> QED BY <2>2, <2>3, <2>8, <3>2, <3>3
  <2>10. \A i \in D : W[i].coord \in Int
    BY <2>9 DEF R
  <2> QED BY <2>1, <2>10
<1>4. Ray!RayWalk(o, e) \in [0 .. max - 1 -> [Axes -> Int]]
  <2>1. \A a \in Axes : Ray!AxisWalk(o[a], e[a], max) \in [0 .. max - 1 -> Int]
    BY <1>3
  <2>2. Ray!RayWalk(o, e) = [i \in 0 .. max - 1 |-> [a \in Axes |-> Ray!AxisWalk(o[a], e[a], max)[i]]]
    BY DEF Ray!RayWalk
  <2> DEFINE D == 0 .. max - 1
  <2>3. ASSUME NEW i \in D PROVE [a \in Axes |-> Ray!AxisWalk(o[a], e[a], max)[i]] \in [Axes -> Int]
    <3>1. \A a \in Axes : Ray!AxisWalk(o[a], e[a], max)[i] \in Int
      <4> HIDE DEF max
      <4> QED BY <2>1
    <3> QED BY <3>1
  <2> HIDE DEF max, D
  <2> QED BY <2>2, <2>3 DEF D
<1>5. max - 1 \in Int
  BY <1>2
<1> QED BY <1>4, <1>5

(* The chunk of a voxel of a ray is that of its corner, unless it is one   *)
(* whose bounds hold the voxel.                                            *)
Dispatched(c, v) ==
    c \in ChunkCoord /\ (c = AskedFor(v).chunk \/ ~Outside(v, worldBoundsToVoxelBounds(c)))

LEMMA CornerType ==
    ASSUME NEW v \in [Axes -> Int]
    PROVE  voxelToPositionCoordinate(v) \in [Axes -> Int] /\ AskedFor(v).chunk \in ChunkCoord
PROOF
<1>1. voxelToPositionCoordinate(v) \in [Axes -> Int]
  BY ResolutionAssumption DEF ResolutionAssumption, voxelToPositionCoordinate
<1> QED BY <1>1, ChunkOf DEF AskedFor

LEMMA RayChunksIs ==
    ASSUME NEW p \in [Axes -> Int], NEW n \in Int, NEW walk \in [0 .. n -> [Axes -> Int]],
           NEW i \in 0 .. n
    PROVE  Dispatched(RayChunks(p, walk)[i], walk[i])
PROOF
<1> DEFINE D == 0 .. n
           home == positionToChunkCoordinate(p)
           Then(c, j) == IF Outside(walk[j], worldBoundsToVoxelBounds(c))
                         THEN positionToChunkCoordinate(voxelToPositionCoordinate(walk[j])) ELSE c
           Walks(g) == g = [j \in D |-> Then(IF j = 0 THEN home ELSE g[j - 1], j)]
           W == CHOOSE g : Walks(g)
           F == [j \in D |-> [c \in ChunkCoord |-> Then(c, j)]]
<1>1. RayChunks(p, walk) = W
  <2>1. DOMAIN walk = D
    OBVIOUS
  <2> QED BY <2>1 DEF RayChunks
<1>2. home \in ChunkCoord
  BY ChunkOf
<1>3. ASSUME NEW j \in D, NEW c \in ChunkCoord
      PROVE  Then(c, j) \in ChunkCoord /\ Dispatched(Then(c, j), walk[j])
  <2>1. walk[j] \in [Axes -> Int]
    OBVIOUS
  <2>2. /\ positionToChunkCoordinate(voxelToPositionCoordinate(walk[j])) = AskedFor(walk[j]).chunk
        /\ AskedFor(walk[j]).chunk \in ChunkCoord
    BY <2>1, CornerType DEF AskedFor
  <2> QED BY <2>2 DEF Dispatched
<1> HIDE DEF Then
<1>4. F \in [D -> [ChunkCoord -> ChunkCoord]]
  BY <1>3
<1>5. 0 \in D /\ n \in Int /\ \A j \in D : j # 0 => j - 1 \in D
  OBVIOUS
<1>6. \E g : Walks(g)
  <2> DEFINE c == F[0][home]
  <2>1. c \in ChunkCoord /\ c = Then(home, 0)
    BY <1>2, <1>4, <1>5
  <2>2. PICK g \in [D -> ChunkCoord] : Iteration(g, n, c, F)
    <3> HIDE DEF F, c
    <3> QED BY <1>4, <2>1, Iterates
  <2>3. \A j \in D : j # 0 => g[j] = Then(g[j - 1], j)
    BY <1>5, <2>2 DEF Iteration
  <2>4. g[0] = Then(home, 0)
    BY <1>5, <2>1, <2>2 DEF Iteration
  <2>5. g = [j \in D |-> g[j]]
    BY <2>2
  <2>6. Walks(g)
    <3> HIDE DEF F, D, home
    <3> QED BY <2>3, <2>4, <2>5
  <2> QED BY <2>6
<1>7. Walks(W)
  BY <1>6
<1> HIDE DEF W, F, home
<1>8. \A j \in D : W[j] = Then(IF j = 0 THEN home ELSE W[j - 1], j)
  BY <1>7
<1>9. ASSUME NEW j \in D, W[j] \notin ChunkCoord PROVE FALSE
  <2> DEFINE B == {k \in D : W[k] \notin ChunkCoord}
  <2>1. B \subseteq 0 .. n /\ B # {}
    BY <1>9
  <2>2. PICK k \in B : k - 1 \notin B
    <3> HIDE DEF B
    <3> QED BY <2>1, LeastIndex
  <2>3. k # 0 => W[k - 1] \in ChunkCoord
    BY <1>5, <2>2
  <2> QED BY <1>2, <1>3, <1>8, <2>2, <2>3
<1>10. (IF i = 0 THEN home ELSE W[i - 1]) \in ChunkCoord
  BY <1>2, <1>5, <1>9
<1> QED BY <1>1, <1>3, <1>8, <1>10

-----------------------------------------------------------------------------
(* Voxels.                                                                 *)

LEMMA Corners ==
    ASSUME NEW q \in Int, NEW r \in Int
    PROVE  /\ q * Resolution \in Int /\ (q < r => q * Resolution + Resolution <= r * Resolution)
           /\ (q + r) * Resolution = q * Resolution + r * Resolution
           /\ (q - r) * Resolution = q * Resolution - r * Resolution
           /\ (q * Resolution) \div Resolution = q
  BY ResolutionAssumption DEF ResolutionAssumption

LEMMA VoxelOf ==
    ASSUME NEW x \in Int
    PROVE  /\ x \div Resolution \in Int
           /\ (x \div Resolution) * Resolution <= x
           /\ x < (x \div Resolution) * Resolution + Resolution
  BY ResolutionAssumption DEF ResolutionAssumption

(* Chunks begin and end where voxels do.                                   *)
LEMMA BoundsAreCorners ==
    ASSUME NEW c \in ChunkCoord, NEW a \in Axes
    PROVE  /\ \E lo \in Int : /\ chunkMinBound(c, a) = lo * Resolution
                              /\ chunkMinBound(c, a) \div Resolution = lo
           /\ \E hi \in Int : /\ chunkMaxBound(c, a) = hi * Resolution
                              /\ chunkMaxBound(c, a) \div Resolution = hi
PROOF
<1> DEFINE k == Half \div Resolution
           s == c[a] * (k + k)
<1>1. k \in Int /\ Half = k * Resolution
  BY SizeIs, ResolutionAssumption DEF ResolutionAssumption
<1>2. c[a] \in Int /\ s \in Int
  BY <1>1 DEF ChunkCoord
<1>3. Size = (k + k) * Resolution
  BY <1>1, SizeIs, Corners
<1>4. c[a] * Size = s * Resolution
  BY <1>1, <1>2, <1>3, ResolutionAssumption DEF ResolutionAssumption
<1> HIDE DEF k, s
<1>5. chunkMinBound(c, a) = (s - k) * Resolution /\ chunkMaxBound(c, a) = (s + k) * Resolution
  BY <1>1, <1>2, <1>4, Corners DEF chunkMinBound, chunkMaxBound
<1>6. s - k \in Int /\ s + k \in Int
  BY <1>1, <1>2
<1> QED BY <1>5, <1>6, Corners

VoxelCoord == [Axes -> Int]

(* No boundary of a chunk lies inside a voxel.                             *)
LEMMA EdgesType ==
    ASSUME NEW v \in VoxelCoord, NEW c \in ChunkCoord, NEW a \in Axes
    PROVE  /\ Lower(v, a) \in Int /\ Upper(v, a) \in Int /\ Lower(v, a) < Upper(v, a)
           /\ chunkMinBound(c, a) \in Int /\ chunkMaxBound(c, a) \in Int
           /\ EndsAt(c, v, a) => ~Spans(c, v, a)
           /\ Lower(v, a) < chunkMaxBound(c, a) => Upper(v, a) <= chunkMaxBound(c, a)
           /\ chunkMinBound(c, a) < Upper(v, a) => chunkMinBound(c, a) <= Lower(v, a)
PROOF
<1>1. v[a] \in Int
  BY DEF VoxelCoord
<1>2. Lower(v, a) \in Int /\ Upper(v, a) \in Int /\ Lower(v, a) < Upper(v, a)
  BY <1>1, Corners, ResolutionAssumption DEF Lower, Upper, ResolutionAssumption
<1>3. chunkMinBound(c, a) \in Int /\ chunkMaxBound(c, a) \in Int
  BY BoundsType
<1>4. PICK lo \in Int, hi \in Int : /\ chunkMinBound(c, a) = lo * Resolution
                                    /\ chunkMaxBound(c, a) = hi * Resolution
  BY BoundsAreCorners
<1>5. /\ v[a] < hi => v[a] * Resolution + Resolution <= hi * Resolution
      /\ hi < v[a] => hi * Resolution + Resolution <= v[a] * Resolution
      /\ v[a] < lo => v[a] * Resolution + Resolution <= lo * Resolution
      /\ lo < v[a] => lo * Resolution + Resolution <= v[a] * Resolution
  BY <1>1, <1>4, Corners
<1>6. Resolution \in Int /\ Resolution > 0
  BY ResolutionAssumption DEF ResolutionAssumption
<1>7. Lower(v, a) < chunkMaxBound(c, a) => Upper(v, a) <= chunkMaxBound(c, a)
  <2>1. Lower(v, a) < chunkMaxBound(c, a) => v[a] < hi
    BY <1>1, <1>2, <1>3, <1>4, <1>5, <1>6 DEF Lower
  <2> QED BY <1>1, <1>4, <1>5, <2>1 DEF Lower, Upper
<1>8. chunkMinBound(c, a) < Upper(v, a) => chunkMinBound(c, a) <= Lower(v, a)
  <2>1. chunkMinBound(c, a) < Upper(v, a) => ~(v[a] < lo)
    BY <1>1, <1>2, <1>3, <1>4, <1>5, <1>6 DEF Lower, Upper
  <2>2. lo = v[a] => lo * Resolution = Lower(v, a)
    BY DEF Lower
  <2> QED BY <1>1, <1>2, <1>3, <1>4, <1>5, <1>6, <2>1, <2>2 DEF Lower
<1> QED BY <1>2, <1>3, <1>7, <1>8 DEF EndsAt, Spans

(* A chunk whose bounds hold a voxel spans it.                             *)
LEMMA WithinSpans ==
    ASSUME NEW v \in VoxelCoord, NEW c \in ChunkCoord, ~Outside(v, worldBoundsToVoxelBounds(c)),
           NEW a \in Axes
    PROVE  Spans(c, v, a)
PROOF
<1> DEFINE b == worldBoundsToVoxelBounds(c)
<1>1. /\ b.min[a] = chunkMinBound(c, a) \div Resolution
      /\ b.max[a] = chunkMaxBound(c, a) \div Resolution
  BY DEF worldBoundsToVoxelBounds, positionToVoxelCoordinate
<1>2. PICK lo \in Int, hi \in Int : /\ chunkMinBound(c, a) = lo * Resolution /\ b.min[a] = lo
                                    /\ chunkMaxBound(c, a) = hi * Resolution /\ b.max[a] = hi
  BY <1>1, BoundsAreCorners
<1>3. ~(v[a] < lo) /\ ~(hi <= v[a]) /\ v[a] \in Int
  BY <1>2 DEF Outside, VoxelCoord
<1>4. /\ v[a] * Resolution + Resolution <= hi * Resolution
      /\ lo = v[a] \/ lo * Resolution + Resolution <= v[a] * Resolution
  <2> DEFINE u == v[a]
  <2>1. u \in Int /\ u < hi /\ (u = lo \/ lo < u)
    BY <1>3
  <2> HIDE DEF u
  <2>2. u * Resolution + Resolution <= hi * Resolution
    BY <2>1, Corners
  <2>3. lo < u => lo * Resolution + Resolution <= u * Resolution
    BY <2>1, Corners
  <2> QED BY <2>1, <2>2, <2>3 DEF u
<1>5. /\ Lower(v, a) = v[a] * Resolution /\ Upper(v, a) = v[a] * Resolution + Resolution
      /\ v[a] * Resolution \in Int /\ lo * Resolution \in Int
      /\ lo = v[a] => lo * Resolution = v[a] * Resolution
      /\ Resolution \in Int /\ Resolution > 0
  BY <1>2, <1>3, Corners, ResolutionAssumption DEF Lower, Upper, ResolutionAssumption
<1> QED BY <1>2, <1>4, <1>5 DEF Spans

(* Of the chunks on an axis one spans a voxel.                             *)
LEMMA SpansOnce ==
    ASSUME NEW v \in VoxelCoord, NEW c \in ChunkCoord, NEW d \in ChunkCoord, NEW a \in Axes,
           Spans(c, v, a), Spans(d, v, a)
    PROVE  c[a] = d[a]
PROOF
<1>1. c[a] \in Int /\ d[a] \in Int
  BY DEF ChunkCoord
<1>2. ASSUME NEW i \in Int, NEW j \in Int, i < j PROVE i * Size + Size <= j * Size
  BY <1>2, SizeIs
<1>3. /\ c[a] * Size \in Int /\ d[a] * Size \in Int
      /\ Lower(v, a) \in Int /\ Upper(v, a) \in Int /\ Lower(v, a) < Upper(v, a)
  BY <1>1, Multiples, EdgesType
<1>4. /\ c[a] < d[a] => c[a] * Size + Size <= d[a] * Size
      /\ d[a] < c[a] => d[a] * Size + Size <= c[a] * Size
  BY <1>1, <1>2
<1>5. /\ c[a] * Size - Half <= Lower(v, a) /\ Upper(v, a) <= c[a] * Size + Half
      /\ d[a] * Size - Half <= Lower(v, a) /\ Upper(v, a) <= d[a] * Size + Half
  BY DEF Spans, chunkMinBound, chunkMaxBound
<1> DEFINE i == c[a]
           j == d[a]
           is == i * Size
           js == j * Size
<1>6. /\ i \in Int /\ j \in Int /\ is \in Int /\ js \in Int
      /\ i < j => is + Size <= js
      /\ j < i => js + Size <= is
      /\ is - Half <= Lower(v, a) /\ Upper(v, a) <= is + Half
      /\ js - Half <= Lower(v, a) /\ Upper(v, a) <= js + Half
  BY <1>1, <1>3, <1>4, <1>5
<1> HIDE DEF i, j, is, js
<1>7. i = j
  BY <1>3, <1>6, SizeIs
<1> QED BY <1>7 DEF i, j

(* Where evidence may be: in the chunk that spans its voxel or, along an   *)
(* axis, in the one that the voxel's corner is rounded to.                 *)
Placed(c, v, a) ==
    \/ Spans(c, v, a)
    \/ Lower(v, a) < 0 /\ EndsAt(c, v, a) /\ c[a] = AskedFor(v).chunk[a]

(* The voxel's corner is rounded to such a chunk, ...                      *)
LEMMA AskedForIs ==
    ASSUME NEW v \in VoxelCoord, NEW a \in Axes
    PROVE  Placed(AskedFor(v).chunk, v, a)
PROOF
<1> DEFINE p == voxelToPositionCoordinate(v)
           c == AskedFor(v).chunk
<1>1. p \in [Axes -> Int] /\ c = positionToChunkCoordinate(p) /\ c \in ChunkCoord
  BY CornerType DEF AskedFor, VoxelCoord
<1>2. p[a] = Lower(v, a)
  BY DEF voxelToPositionCoordinate, Lower
<1>3. /\ chunkMinBound(c, a) <= p[a] /\ p[a] <= chunkMaxBound(c, a)
      /\ p[a] >= 0 => p[a] < chunkMaxBound(c, a)
  BY <1>1, ChunkOf
<1> HIDE DEF c, p
<1>4. /\ Lower(v, a) \in Int /\ chunkMaxBound(c, a) \in Int
      /\ Lower(v, a) < chunkMaxBound(c, a) => Upper(v, a) <= chunkMaxBound(c, a)
  BY <1>1, EdgesType
<1>5. CASE Lower(v, a) < chunkMaxBound(c, a)
  BY <1>2, <1>3, <1>4, <1>5 DEF Placed, Spans, c
<1>6. CASE ~(Lower(v, a) < chunkMaxBound(c, a))
  BY <1>2, <1>3, <1>4, <1>6 DEF Placed, EndsAt, c
<1> QED BY <1>5, <1>6

(* ... and so is every point of the voxel.                                 *)
LEMMA AskedAtIs ==
    ASSUME NEW q \in [Axes -> Int], NEW a \in Axes
    PROVE  LET v == AskedAt(q).voxel
               c == AskedAt(q).chunk
           IN  /\ v \in VoxelCoord /\ c \in ChunkCoord
               /\ Placed(c, v, a)
               /\ Lower(v, a) <= q[a] /\ q[a] < Upper(v, a)
               /\ Lower(v, a) < q[a] => Spans(c, v, a)
PROOF
<1> DEFINE v == AskedAt(q).voxel
           c == AskedAt(q).chunk
<1>1. v \in VoxelCoord /\ v[a] = q[a] \div Resolution
  BY VoxelOf DEF AskedAt, positionToVoxelCoordinate, VoxelCoord
<1>2. c = positionToChunkCoordinate(q) /\ c \in ChunkCoord
  BY ChunkOf DEF AskedAt
<1>3. Lower(v, a) <= q[a] /\ q[a] < Upper(v, a)
  <2>1. q[a] \in Int
    OBVIOUS
  <2> QED BY <1>1, <2>1, VoxelOf DEF Lower, Upper
<1>4. /\ chunkMinBound(c, a) <= q[a] /\ q[a] <= chunkMaxBound(c, a)
      /\ q[a] >= 0 => q[a] < chunkMaxBound(c, a)
  BY <1>2, ChunkOf
<1> DEFINE corner == voxelToPositionCoordinate(v)
           x == AskedFor(v).chunk
<1>5. corner[a] = Lower(v, a) /\ x[a] = roundToInt(corner[a]) /\ c[a] = roundToInt(q[a])
  BY <1>2 DEF voxelToPositionCoordinate, Lower, AskedFor, positionToChunkCoordinate
<1> HIDE DEF c, v, corner, x
<1>6. /\ Lower(v, a) \in Int /\ Upper(v, a) \in Int /\ q[a] \in Int
      /\ chunkMinBound(c, a) \in Int /\ chunkMaxBound(c, a) \in Int
      /\ Lower(v, a) < chunkMaxBound(c, a) => Upper(v, a) <= chunkMaxBound(c, a)
      /\ chunkMinBound(c, a) < Upper(v, a) => chunkMinBound(c, a) <= Lower(v, a)
  BY <1>1, <1>2, EdgesType
<1>7. ASSUME Lower(v, a) < chunkMaxBound(c, a) PROVE Spans(c, v, a)
  <2>1. chunkMinBound(c, a) < Upper(v, a)
    BY <1>3, <1>4, <1>6
  <2> QED BY <1>6, <1>7, <2>1 DEF Spans
<1>8. ASSUME ~(Lower(v, a) < chunkMaxBound(c, a))
      PROVE  Lower(v, a) = q[a] /\ Placed(c, v, a)
  <2>1. Lower(v, a) = q[a] /\ q[a] = chunkMaxBound(c, a) /\ q[a] < 0
    BY <1>3, <1>4, <1>6, <1>8
  <2>2. c[a] = x[a]
    BY <1>5, <2>1
  <2> QED BY <2>1, <2>2 DEF Placed, EndsAt, x
<1>9. Placed(c, v, a) /\ (Lower(v, a) < q[a] => Spans(c, v, a))
  BY <1>6, <1>7, <1>8 DEF Placed
<1> QED BY <1>1, <1>2, <1>3, <1>9 DEF c, v

(* Evidence so placed is found, by position and by voxel.                  *)
LEMMA FoundIs ==
    ASSUME NEW c \in ChunkCoord, NEW v \in VoxelCoord, \A a \in Axes : Placed(c, v, a)
    PROVE  Found([chunk |-> c, voxel |-> v])
PROOF
<1> DEFINE w == [chunk |-> c, voxel |-> v]
           x == AskedFor(v).chunk
           strays(d) == {a \in Axes : ~Spans(d, v, a)}
           split == {a \in Axes : Lower(v, a) < 0 /\ EndsAt(x, v, a)}
<1>1. x \in ChunkCoord /\ \A a \in Axes : Placed(x, v, a)
  BY CornerType, AskedForIs DEF VoxelCoord
<1>2. \A a \in Axes, d \in ChunkCoord : EndsAt(d, v, a) => ~Spans(d, v, a)
  BY EdgesType
<1> HIDE DEF x
<1>3. strays(x) = split
  BY <1>1, <1>2 DEF Placed
<1>4. ASSUME NEW a \in strays(c) PROVE a \in split /\ EndsAt(c, v, a)
  <2>1. Lower(v, a) < 0 /\ EndsAt(c, v, a) /\ c[a] = x[a]
    BY <1>4 DEF Placed, x
  <2>2. EndsAt(x, v, a)
    BY <2>1 DEF EndsAt, chunkMaxBound
  <2> QED BY <2>1, <2>2
<1>5. ASSUME split = {} PROVE AskedFor(v) = w
  <2>1. \A a \in Axes : Spans(x, v, a) /\ Spans(c, v, a)
    BY <1>3, <1>4, <1>5
  <2>2. \A a \in Axes : x[a] = c[a]
    BY <1>1, <2>1, SpansOnce
  <2>3. x = c
    BY <1>1, <2>2 DEF ChunkCoord
  <2> QED BY <2>3 DEF AskedFor, x
<1>6. ASSUME NEW q \in Position, Inside(q, v)
      PROVE  AskedAt(q).voxel = v /\ strays(AskedAt(q).chunk) = {}
  <2> DEFINE u == AskedAt(q).voxel
  <2>1. q \in [Axes -> Int]
    BY PositionIs
  <2>2. ASSUME NEW a \in Axes PROVE u[a] = v[a]
    <3>1. v[a] \in Int /\ q[a] \in Int /\ u[a] = q[a] \div Resolution
      BY <2>1 DEF VoxelCoord, AskedAt, positionToVoxelCoordinate
    <3>2. v[a] * Resolution < q[a] /\ q[a] < v[a] * Resolution + Resolution
      BY <1>6 DEF Inside, Lower, Upper
    <3> QED BY <3>1, <3>2, ResolutionAssumption DEF ResolutionAssumption
  <2>3. u = v
    <3>1. u \in VoxelCoord
      BY <2>1, AskedAtIs, TransitionAssumption DEF TransitionAssumption
    <3> QED BY <2>2, <3>1 DEF VoxelCoord
  <2>4. \A a \in Axes : Spans(AskedAt(q).chunk, v, a)
    BY <1>6, <2>1, <2>3, AskedAtIs DEF Inside
  <2> QED BY <2>3, <2>4
<1> QED BY <1>3, <1>4, <1>5, <1>6 DEF Found, x

(* Whatever evidence is kept is found, for any chunks that are active.     *)
LEMMA DispatchIsFound ==
    ASSUME NEW p \in [Axes -> Int], NEW e \in [Axes -> Int], NEW kept,
           NEW w \in updateOccupancy(kept, p, e)
    PROVE  Found(w)
PROOF
<1> DEFINE o == positionToVoxelCoordinate(p)
           t == positionToVoxelCoordinate(e)
           walk == Ray!RayWalk(o, t)
           chunk == RayChunks(p, walk)
<1>1. o \in VoxelCoord /\ t \in VoxelCoord
  BY VoxelOf DEF positionToVoxelCoordinate, VoxelCoord
<1>2. PICK n \in Int : walk \in [0 .. n -> VoxelCoord]
  BY <1>1, WalkType DEF VoxelCoord
<1> HIDE DEF walk
<1>3. \/ w = AskedAt(e)
      \/ \E i \in DOMAIN walk : w = [chunk |-> chunk[i], voxel |-> walk[i]]
  BY DEF updateOccupancy, AskedAt, walk
<1>4. CASE w = AskedAt(e)
  <2> DEFINE c == AskedAt(e).chunk
             v == AskedAt(e).voxel
  <2>1. c \in ChunkCoord /\ v \in VoxelCoord /\ \A a \in Axes : Placed(c, v, a)
    BY AskedAtIs, TransitionAssumption DEF TransitionAssumption
  <2>2. w = [chunk |-> c, voxel |-> v]
    BY <1>4 DEF AskedAt
  <2> HIDE DEF c, v
  <2> QED BY <2>1, <2>2, FoundIs
<1>5. ASSUME NEW i \in DOMAIN walk, w = [chunk |-> chunk[i], voxel |-> walk[i]]
      PROVE  Found(w)
  <2>1. i \in 0 .. n /\ walk[i] \in VoxelCoord
    BY <1>2
  <2>2. Dispatched(chunk[i], walk[i])
    BY <1>2, <2>1, RayChunksIs DEF VoxelCoord
  <2> HIDE DEF chunk
  <2>3. chunk[i] \in ChunkCoord /\ \A a \in Axes : Placed(chunk[i], walk[i], a)
    BY <2>1, <2>2, AskedForIs, WithinSpans DEF Dispatched, Placed
  <2> QED BY <1>5, <2>1, <2>3, FoundIs
<1> QED BY <1>3, <1>4, <1>5

(* Evidence of the first chunk's neighbourhood is where the queries look.  *)
THEOREM EvidenceIsFoundHolds == Spec => []EvidenceIsFound
PROOF
<1>1. TypeOK => EvidenceIsFound
  BY DispatchIsFound, PositionIs DEF TypeOK, EvidenceIsFound
<1> QED BY <1>1, TypeCorrect, PTL

-----------------------------------------------------------------------------
(* ChunkPolicies: geometry.                                                *)

(* The distance is the largest of the differences, so that it is within    *)
(* the radius exactly if they all are.                                     *)
LEMMA WithinIs ==
    ASSUME NEW c \in CoordT, NEW d \in CoordT
    PROVE  distance(c, d) <= Radius <=> \A i \in 1 .. 3 : magnitude(c[i] - d[i]) <= Radius
PROOF
<1> DEFINE D == {magnitude(c[i] - d[i]) : i \in 1 .. 3}
           IsMax(n) == \A i \in 1 .. 3 : magnitude(c[i] - d[i]) <= n
<1>1. \A i \in 1 .. 3 : magnitude(c[i] - d[i]) \in Int
  BY DEF CoordT, magnitude
<1>2. \E n \in D : IsMax(n)
  <2>1. magnitude(c[1] - d[1]) \in D /\ magnitude(c[2] - d[2]) \in D /\ magnitude(c[3] - d[3]) \in D
    OBVIOUS
  <2>2. \A n : IsMax(n) <=> /\ magnitude(c[1] - d[1]) <= n /\ magnitude(c[2] - d[2]) <= n
                           /\ magnitude(c[3] - d[3]) <= n
    OBVIOUS
  <2>3. /\ magnitude(c[1] - d[1]) \in Int /\ magnitude(c[2] - d[2]) \in Int
        /\ magnitude(c[3] - d[3]) \in Int
    BY <1>1
  <2> HIDE DEF D, IsMax
  <2> DEFINE x == magnitude(c[1] - d[1])  y == magnitude(c[2] - d[2])  z == magnitude(c[3] - d[3])
  <2>4. x \in Int /\ y \in Int /\ z \in Int /\ x \in D /\ y \in D /\ z \in D
        /\ \A n : IsMax(n) <=> x <= n /\ y <= n /\ z <= n
    BY <2>1, <2>2, <2>3
  <2> HIDE DEF x, y, z
  <2>5. \E n \in {x, y, z} : x <= n /\ y <= n /\ z <= n
    BY <2>4
  <2> QED BY <2>4, <2>5
<1>3. distance(c, d) \in D /\ IsMax(distance(c, d))
  BY <1>2 DEF distance
<1> HIDE DEF IsMax
<1>4. \E i \in 1 .. 3 : distance(c, d) = magnitude(c[i] - d[i])
  BY <1>3
<1> QED BY <1>1, <1>3, <1>4, RadiusAssumption DEF IsMax

LEMMA AroundIs ==
    ASSUME NEW c \in CoordT, NEW here \in CoordT
    PROVE  c \in Around(here) <=> distance(c, here) <= Radius
PROOF
<1>1. /\ c[1] \in Int /\ c[2] \in Int /\ c[3] \in Int /\ c = <<c[1], c[2], c[3]>>
      /\ here[1] \in Int /\ here[2] \in Int /\ here[3] \in Int
  BY DEF CoordT
<1>2. distance(c, here) <= Radius <=>
         /\ c[1] - here[1] \in -Radius .. Radius
         /\ c[2] - here[2] \in -Radius .. Radius
         /\ c[3] - here[3] \in -Radius .. Radius
  <2>1. \A i \in 1 .. 3 : magnitude(c[i] - here[i]) <= Radius <=> c[i] - here[i] \in -Radius .. Radius
    BY <1>1, RadiusAssumption DEF magnitude
  <2> QED BY <2>1, WithinIs
<1>3. ASSUME c \in Around(here)
      PROVE  distance(c, here) <= Radius
  <2>1. PICK dx \in -Radius .. Radius, dy \in -Radius .. Radius, dz \in -Radius .. Radius :
           c = <<here[1] + dx, here[2] + dy, here[3] + dz>>
    BY <1>3 DEF Around
  <2>2. c[1] = here[1] + dx /\ c[2] = here[2] + dy /\ c[3] = here[3] + dz
    BY <2>1
  <2> QED BY <1>1, <1>2, <2>2, RadiusAssumption
<1>4. ASSUME distance(c, here) <= Radius
      PROVE  c \in Around(here)
  <2> DEFINE dx == c[1] - here[1]  dy == c[2] - here[2]  dz == c[3] - here[3]
  <2>1. dx \in -Radius .. Radius /\ dy \in -Radius .. Radius /\ dz \in -Radius .. Radius
    BY <1>2, <1>4
  <2>2. c = <<here[1] + dx, here[2] + dy, here[3] + dz>>
    BY <1>1
  <2> HIDE DEF dx, dy, dz
  <2> QED BY <2>1, <2>2 DEF Around
<1> QED BY <1>3, <1>4

(* The zone of the documentation is what a policy loads whatever its age.  *)
LEMMA InZoneIs ==
    ASSUME NEW c \in CoordT, NEW here \in CoordT, policy \in Policies
    PROVE  c \in InZone(here) <=>
              /\ distance(c, here) <= Radius
              /\ policy.name = "planar" => InBand(policy.band, c, here)
PROOF
<1>1. c[3] \in Int /\ here[3] \in Int
  BY DEF CoordT
<1>2. ASSUME policy.name = "planar"
      PROVE  InBand(policy.band, c, here) <=>
                LET b == policy.band
                    low == IF b.use_relative THEN here[3] - b.z_min ELSE b.z_min
                    high == IF b.use_relative THEN here[3] + b.z_max ELSE b.z_max
                IN  low <= c[3] /\ c[3] <= high
  <2>1. policy.band \in Bands
    BY <1>2 DEF Policies, Temporal
  <2>2. CASE policy.band.use_relative
    <3>1. policy.band.z_min \in Nat /\ policy.band.z_max \in Nat
      BY <2>1, <2>2, BandsAssumption
    <3> QED BY <1>1, <2>2, <3>1 DEF InBand
  <2>3. CASE ~policy.band.use_relative
    <3>1. policy.band.z_min \in Int /\ policy.band.z_max \in Int
      BY <2>1, <2>3, BandsAssumption
    <3> QED BY <1>1, <2>3, <3>1 DEF InBand
  <2> QED BY <2>2, <2>3
<1> QED BY <1>2, AroundIs DEF InZone

-----------------------------------------------------------------------------
(* ChunkPolicies: dates.  A chunk was first loaded when its metadata say,  *)
(* or later if it was the reference chunk before.                          *)

Dates ==
    /\ \A c \in DOMAIN born : creation[c] <= born[c]
    /\ DOMAIN creation \ tainted \subseteq DOMAIN born
    /\ \A c \in DOMAIN born \ tainted : creation[c] = born[c]

(* A chunk of the zone that a policy evicts is old, or was the reference   *)
(* chunk before it was loaded.                                             *)
LEMMA RefusedIsOld ==
    ASSUME PolicyTypeOK, Dates, NEW P \in SUBSET CoordT, NEW here \in CoordT,
           NEW c \in CoordT, c \in InZone(here), c \in DOMAIN born,
           shouldEvict(c, here, Dated(P))
    PROVE  Old(c, now) \/ c \in tainted
PROOF
<1>1. policy \in Policies /\ DOMAIN born \subseteq DOMAIN creation
  BY DEF PolicyTypeOK
<1>2. policy.name = "temporal" /\ ~(now - Dated(P)[c] < MaxAge)
  BY <1>1, InZoneIs DEF shouldEvict, shouldLoad
<1>3. policy = Temporal
  BY <1>1, <1>2 DEF Policies, Temporal
<1>4. Dated(P)[c] = creation[c]
  BY <1>1 DEF Dated
<1>5. CASE c \notin tainted
  <2>1. creation[c] = born[c] /\ born[c] \in Int /\ now \in Int
    BY <1>5 DEF Dates, PolicyTypeOK
  <2> QED BY <1>2, <1>3, <1>4, <2>1, ClockAssumption DEF Old
<1> QED BY <1>5

-----------------------------------------------------------------------------
PolicyInv == PolicyTypeOK /\ Dates /\ UnwantedIsLate /\ WantedIsServed

(* The parts of an update: what was promoted, and the new metadata.        *)
NewDates(P, here) ==
    /\ creation' = Accessed(Dated(P), here)
    /\ born' = [c \in DOMAIN born \cup P |-> IF c \in DOMAIN born THEN born[c] ELSE now]
    /\ tainted' = tainted \cup ({here} \ DOMAIN born')

LEMMA DatesStep ==
    ASSUME PolicyInv, NEW P \in SUBSET CoordT, NEW here \in CoordT, NewDates(P, here),
           now' = now
    PROVE  /\ Dates'
           /\ DOMAIN creation' \subseteq CoordT /\ DOMAIN born' \subseteq DOMAIN creation'
           /\ \A c \in DOMAIN creation' : creation'[c] \in 0 .. now
           /\ \A c \in DOMAIN born' : born'[c] \in 0 .. now
PROOF
<1>1. /\ DOMAIN creation' = DOMAIN creation \cup P \cup {here}
      /\ DOMAIN born' = DOMAIN born \cup P
      /\ \A c \in DOMAIN creation : creation'[c] = creation[c]
      /\ \A c \in P \ DOMAIN creation : creation'[c] = now
      /\ \A c \in {here} \ (DOMAIN creation \cup P) : creation'[c] = 0
      /\ \A c \in DOMAIN born : born'[c] = born[c]
      /\ \A c \in P \ DOMAIN born : born'[c] = now
  BY DEF NewDates, Accessed, Dated
<1>2. /\ now \in Nat /\ DOMAIN born \subseteq DOMAIN creation
      /\ DOMAIN creation \subseteq CoordT
      /\ \A c \in DOMAIN creation : creation[c] \in 0 .. now
      /\ \A c \in DOMAIN born : born[c] \in 0 .. now
  BY ClockAssumption DEF PolicyInv, PolicyTypeOK
<1>3. \A c \in DOMAIN creation' : creation'[c] \in 0 .. now
  BY <1>1, <1>2
<1>4. \A c \in DOMAIN born' : born'[c] \in 0 .. now
  BY <1>1, <1>2
<1>5. \A c \in DOMAIN born' : creation'[c] <= born'[c]
  <2> TAKE c \in DOMAIN born'
  <2>1. CASE c \in DOMAIN born
    BY <1>1, <1>2, <2>1 DEF PolicyInv, Dates
  <2>2. CASE c \notin DOMAIN born
    BY <1>1, <1>2, <1>3, <2>2
  <2> QED BY <2>1, <2>2
<1>6. tainted' = tainted \cup ({here} \ DOMAIN born')
  BY DEF NewDates
<1>7. DOMAIN creation' \ tainted' \subseteq DOMAIN born'
  BY <1>1, <1>6 DEF PolicyInv, Dates
<1>8. \A c \in DOMAIN born' \ tainted' : creation'[c] = born'[c]
  BY <1>1, <1>2, <1>6 DEF PolicyInv, Dates
<1> QED BY <1>1, <1>2, <1>3, <1>4, <1>5, <1>7, <1>8 DEF Dates

(* What updateRolling does, with the promoted chunks named.                *)
LEMMA UpdateIs ==
    ASSUME PolicyInv, NEW here \in Refs, updateRolling(here)
    PROVE  \E P \in SUBSET pending, waiting \in SUBSET pending, lost \in SUBSET pending,
              busy \in SUBSET (answered \cup pending) :
              /\ P \cup waiting \cup lost = pending
              /\ NewDates(P, here) /\ refs' = {here} /\ UNCHANGED <<policy, now>>
              /\ \/ /\ refs = {here}
                    /\ active' = active \cup P /\ pending' = waiting
                    /\ answered' = answered \cup busy
                    /\ excused' = excused \cup P \cup lost /\ judged' = judged
                 \/ /\ refs # {here}
                    /\ performTransition(here, active \cup P, waiting, busy, Dated(P))
                    /\ answered' = busy
                    /\ excused' = {} /\ judged' = now
PROOF
<1>1. PICK lost \in SUBSET (pending \cap Late) :
      \E waiting \in SUBSET ((pending \cap Late) \ lost) :
         LET P == pending \ (lost \cup waiting)
             M == Dated(P)
             taken == answered \cup ((P \cup lost) \cap Late)
         IN  /\ IF refs = {here}
                THEN active' = active \cup P /\ pending' = waiting /\ answered' = taken
                ELSE \E busy \in SUBSET taken :
                        /\ performTransition(here, active \cup P, waiting, busy, M)
                        /\ answered' = busy
             /\ refs' = {here}
             /\ creation' = Accessed(M, here)
             /\ born' = [c \in DOMAIN born \cup P |-> IF c \in DOMAIN born THEN born[c] ELSE now]
             /\ tainted' = tainted \cup ({here} \ DOMAIN born')
             /\ excused' = IF refs = {here} THEN excused \cup P \cup lost ELSE {}
             /\ judged' = IF refs = {here} THEN judged ELSE now
             /\ UNCHANGED <<policy, now>>
  BY DEF updateRolling
<1>2. PICK waiting \in SUBSET ((pending \cap Late) \ lost) :
         LET P == pending \ (lost \cup waiting)
             M == Dated(P)
             taken == answered \cup ((P \cup lost) \cap Late)
         IN  /\ IF refs = {here}
                THEN active' = active \cup P /\ pending' = waiting /\ answered' = taken
                ELSE \E busy \in SUBSET taken :
                        /\ performTransition(here, active \cup P, waiting, busy, M)
                        /\ answered' = busy
             /\ refs' = {here}
             /\ creation' = Accessed(M, here)
             /\ born' = [c \in DOMAIN born \cup P |-> IF c \in DOMAIN born THEN born[c] ELSE now]
             /\ tainted' = tainted \cup ({here} \ DOMAIN born')
             /\ excused' = IF refs = {here} THEN excused \cup P \cup lost ELSE {}
             /\ judged' = IF refs = {here} THEN judged ELSE now
             /\ UNCHANGED <<policy, now>>
  BY <1>1
<1> DEFINE P == pending \ (lost \cup waiting)
<1>3. P \in SUBSET pending /\ waiting \in SUBSET pending /\ lost \in SUBSET pending
  OBVIOUS
<1>4. NewDates(P, here) /\ refs' = {here} /\ UNCHANGED <<policy, now>>
  BY <1>2 DEF NewDates
<1>5. P \cup waiting \cup lost = pending
  OBVIOUS
<1>6. CASE refs = {here}
  <2> DEFINE new == (P \cup lost) \cap Late
  <2>1. new \in SUBSET (answered \cup pending)
    OBVIOUS
  <2>2. /\ active' = active \cup P /\ pending' = waiting
        /\ answered' = answered \cup new
        /\ excused' = excused \cup P \cup lost /\ judged' = judged
    BY <1>2, <1>6
  <2> HIDE DEF new, P
  <2> QED BY <1>3, <1>4, <1>5, <1>6, <2>1, <2>2
<1>7. CASE refs # {here}
  <2>1. PICK busy \in SUBSET (answered \cup ((P \cup lost) \cap Late)) :
           /\ performTransition(here, active \cup P, waiting, busy, Dated(P))
           /\ answered' = busy
    BY <1>2, <1>7
  <2>2. busy \in SUBSET (answered \cup pending) /\ excused' = {} /\ judged' = now
    BY <1>2, <1>7
  <2> HIDE DEF P
  <2> QED BY <1>3, <1>4, <1>5, <1>7, <2>1, <2>2
<1> QED BY <1>6, <1>7

LEMMA DesiredType ==
    ASSUME NEW here \in CoordT, NEW M
    PROVE  desired_set(here, M) \subseteq CoordT
PROOF
<1>1. forEachNeighbour(here, Radius) \subseteq CoordT
  BY RadiusAssumption DEF forEachNeighbour, CoordT
<1> QED BY <1>1 DEF desired_set

LEMMA UpdateStep ==
    ASSUME PolicyInv, NEW here \in Refs, updateRolling(here)
    PROVE  PolicyInv'
PROOF
<1>1. here \in CoordT
  BY RefsAssumption
<1>2. PICK P \in SUBSET pending, waiting \in SUBSET pending, lost \in SUBSET pending,
           busy \in SUBSET (answered \cup pending) :
         /\ P \cup waiting \cup lost = pending
         /\ NewDates(P, here) /\ refs' = {here} /\ UNCHANGED <<policy, now>>
         /\ \/ /\ refs = {here}
               /\ active' = active \cup P /\ pending' = waiting
               /\ answered' = answered \cup busy
               /\ excused' = excused \cup P \cup lost /\ judged' = judged
            \/ /\ refs # {here}
               /\ performTransition(here, active \cup P, waiting, busy, Dated(P))
               /\ answered' = busy
               /\ excused' = {} /\ judged' = now
  BY UpdateIs
<1>3. P \in SUBSET CoordT /\ now \in Nat /\ policy \in Policies
  BY <1>2, ClockAssumption DEF PolicyInv, PolicyTypeOK
<1>4. /\ Dates'
      /\ DOMAIN creation' \subseteq CoordT /\ DOMAIN born' \subseteq DOMAIN creation'
      /\ \A c \in DOMAIN creation' : creation'[c] \in 0 .. now
      /\ \A c \in DOMAIN born' : born'[c] \in 0 .. now
  BY <1>1, <1>2, <1>3, DatesStep
<1>5. tainted' \subseteq CoordT
  BY <1>1, <1>2 DEF NewDates, PolicyInv, PolicyTypeOK
<1>6. active' \cup pending' \cup answered' \cup excused' \subseteq CoordT
  BY <1>1, <1>2, <1>3, DesiredType DEF performTransition, PolicyInv, PolicyTypeOK
<1>7. judged' \in 0 .. now'
  BY <1>2, <1>3 DEF PolicyInv, PolicyTypeOK
<1>8. refs' \in {{}} \cup {{c} : c \in Refs}
  BY <1>2
<1>9. PolicyTypeOK'
  BY <1>2, <1>4, <1>5, <1>6, <1>7, <1>8 DEF PolicyInv, PolicyTypeOK
<1>10. \A c \in active' \ (excused' \cup {here}) : c \in InZone(here)' /\ ~Old(c, judged)'
  <2> TAKE c \in active' \ (excused' \cup {here})
  <2>1. c \in CoordT /\ (InZone(here)' = InZone(here))
    BY <1>2, <1>6 DEF InZone
  <2>2. CASE refs = {here}
    <3>1. c \in active \ (excused \cup {here}) /\ c \notin P /\ judged' = judged
      BY <1>2, <2>2
    <3>2. c \in InZone(here) /\ ~Old(c, judged)
      BY <2>2, <3>1 DEF PolicyInv, UnwantedIsLate
    <3>3. (c \in DOMAIN born' => c \in DOMAIN born) /\ (c \in DOMAIN born' => born'[c] = born[c])
      BY <1>2, <3>1 DEF NewDates
    <3> QED BY <1>2, <2>1, <3>1, <3>2, <3>3 DEF Old
  <2>3. CASE refs # {here}
    <3>1. shouldLoad(c, here, Dated(P)) /\ judged' = now
      BY <1>2, <2>3 DEF performTransition, shouldEvict
    <3>2. c \in InZone(here)
      BY <1>1, <1>3, <2>1, <3>1, InZoneIs DEF shouldLoad
    <3>3. ASSUME policy = Temporal, c \in DOMAIN born'
          PROVE  ~(now - born'[c] >= MaxAge)
      <4>1. c \in DOMAIN Dated(P)
        BY <1>2, <3>3 DEF NewDates, Dated, PolicyInv, PolicyTypeOK
      <4>2. now - Dated(P)[c] < MaxAge
        BY <3>1, <3>3, <4>1 DEF shouldLoad, Temporal
      <4>3. creation'[c] = Dated(P)[c]
        BY <1>2, <4>1 DEF NewDates, Accessed
      <4>4. creation'[c] <= born'[c] /\ creation'[c] \in Int /\ born'[c] \in Int
        BY <1>4, <3>3 DEF Dates
      <4> QED BY <1>3, <4>2, <4>3, <4>4, ClockAssumption
    <3> QED BY <1>2, <2>1, <3>1, <3>2, <3>3 DEF Old
  <2> QED BY <2>2, <2>3
<1>11. UnwantedIsLate'
  BY <1>2, <1>10 DEF UnwantedIsLate
<1>12. ASSUME NEW c \in {here} \cup {d \in InZone(here)' : ~Old(d, judged)'}
       PROVE  c \in active' \cup pending' \cup excused' \cup answered' \cup (tainted' \ {here})
  <2>1. c \in CoordT /\ (InZone(here)' = InZone(here)) /\ (c # here => c \in InZone(here))
    <3>1. InZone(here)' = InZone(here)
      BY <1>2 DEF InZone
    <3>2. Around(here) \subseteq CoordT
      BY <1>1, RadiusAssumption DEF Around, CoordT
    <3> QED BY <1>1, <3>1, <3>2 DEF InZone
  <2>2. CASE refs = {here}
    <3>1. /\ active' = active \cup P /\ excused' = excused \cup P \cup lost
          /\ P \cup waiting \cup lost = pending /\ pending' = waiting /\ judged' = judged
          /\ answered \subseteq answered'
      BY <1>2, <2>2
    <3>2. CASE c \in P
      BY <3>1, <3>2
    <3>3. CASE c \notin P
      <4>1. c \in DOMAIN born => c \in DOMAIN born' /\ born'[c] = born[c]
        BY <1>2 DEF NewDates
      <4>2. c = here \/ ~Old(c, judged)
        BY <1>2, <3>1, <4>1 DEF Old
      <4>3. c \in active \cup pending \cup excused \cup answered \cup (tainted \ {here})
        BY <2>1, <2>2, <4>2 DEF PolicyInv, WantedIsServed
      <4> QED BY <1>2, <3>1, <4>3 DEF NewDates
    <3> QED BY <3>2, <3>3
  <2>3. CASE refs # {here}
    <3>1. /\ performTransition(here, active \cup P, waiting, busy, Dated(P)) /\ judged' = now
          /\ answered' = busy
      BY <1>2, <2>3
    <3>2. c \in desired_set(here, Dated(P)) /\ (c = here \/ shouldLoad(c, here, Dated(P)))
             => c \in active' \cup pending' \cup answered'
      BY <3>1 DEF performTransition, shouldEvict
    <3>3. ASSUME c # here, c \notin tainted'
          PROVE  shouldLoad(c, here, Dated(P)) /\ c \in forEachNeighbour(here, Radius)
      <4>1. c \in InZone(here) /\ ~Old(c, judged)'
        BY <2>1, <3>3
      <4>2. /\ distance(c, here) <= Radius
            /\ policy.name = "planar" => InBand(policy.band, c, here)
        BY <1>1, <1>3, <2>1, <4>1, InZoneIs
      <4>3. ASSUME policy.name = "temporal", c \in DOMAIN Dated(P)
            PROVE  now - Dated(P)[c] < MaxAge
        <5>1. policy = Temporal
          BY <1>3, <4>3 DEF Policies, Temporal
        <5>2. c \in DOMAIN creation' /\ creation'[c] = Dated(P)[c]
          BY <1>2, <4>3 DEF NewDates, Accessed
        <5>3. c \in DOMAIN born' /\ creation'[c] = born'[c] /\ born'[c] \in Int
          BY <1>4, <3>3, <5>2 DEF Dates
        <5>4. ~(now - born'[c] >= MaxAge)
          BY <1>2, <3>1, <4>1, <5>1, <5>3 DEF Old
        <5> QED BY <1>3, <5>2, <5>3, <5>4, ClockAssumption
      <4>4. c \in forEachNeighbour(here, Radius)
        BY <3>3, <4>1 DEF InZone, Around, forEachNeighbour
      <4> QED BY <4>2, <4>3, <4>4 DEF shouldLoad
    <3>4. CASE c = here
      BY <3>2, <3>4 DEF desired_set
    <3>5. CASE c # here /\ c \notin tainted'
      BY <3>2, <3>3, <3>5 DEF desired_set
    <3>6. CASE c # here /\ c \in tainted'
      BY <3>6
    <3> QED BY <3>4, <3>5, <3>6
  <2> QED BY <2>2, <2>3
<1>13. WantedIsServed'
  BY <1>2, <1>12 DEF WantedIsServed
<1> QED BY <1>4, <1>9, <1>11, <1>13 DEF PolicyInv

LEMMA InvStep == PolicyInv /\ [PolicyNext]_policyVars => PolicyInv'
PROOF
<1> SUFFICES ASSUME PolicyInv, [PolicyNext]_policyVars
             PROVE  PolicyInv'
  OBVIOUS
<1>1. CASE elapse
  <2>1. now \in Int /\ now' \in 0 .. MaxClock /\ now' = now + 1
    BY <1>1, ClockAssumption DEF elapse, PolicyInv, PolicyTypeOK
  <2>2. PolicyTypeOK'
    BY <1>1, <2>1 DEF elapse, PolicyInv, PolicyTypeOK
  <2> QED BY <1>1, <2>2 DEF elapse, PolicyInv, Dates, UnwantedIsLate, WantedIsServed, InZone, Old
<1>2. CASE UNCHANGED policyVars
  BY <1>2 DEF policyVars, PolicyInv, PolicyTypeOK, Dates, UnwantedIsLate, WantedIsServed, InZone, Old
<1> QED BY <1>1, <1>2, UpdateStep DEF PolicyNext

LEMMA PolicyInvariance == PolicySpec => []PolicyInv
PROOF
<1>1. PolicyInit => PolicyInv
  BY ClockAssumption DEF PolicyInit, PolicyInv, PolicyTypeOK, Dates, UnwantedIsLate, WantedIsServed
<1> QED BY <1>1, InvStep, PTL DEF PolicySpec

(* Every variable keeps its type: chunks are chunks, and no date lies in   *)
(* the future.                                                             *)
THEOREM PolicyTypeCorrect == PolicySpec => []PolicyTypeOK
PROOF
<1>1. PolicyInv => PolicyTypeOK
  BY DEF PolicyInv
<1> QED BY <1>1, PolicyInvariance, PTL

(* The reference chunk and every chunk of the zone that is not old is in   *)
(* memory or on its way, unless its load failed since the last transition, *)
(* it was the reference chunk before it was loaded, or the last transition *)
(* found it among those the manager's workers had answered and not left.   *)
THEOREM WantedIsServedHolds == PolicySpec => []WantedIsServed
PROOF
<1>1. PolicyInv => WantedIsServed
  BY DEF PolicyInv
<1> QED BY <1>1, PolicyInvariance, PTL

(* What is in memory is the reference chunk, was in the zone and young at  *)
(* the last transition, or was answered after it.                          *)
THEOREM UnwantedIsLateHolds == PolicySpec => []UnwantedIsLate
PROOF
<1>1. PolicyInv => UnwantedIsLate
  BY DEF PolicyInv
<1> QED BY <1>1, PolicyInvariance, PTL

(* A chunk of the zone that was first loaded less than MaxAge ago is not   *)
(* evicted, unless it was the reference chunk before it was loaded.        *)
THEOREM YoungIsKeptHolds == PolicySpec => YoungIsKept
PROOF
<1>1. PolicyInv /\ [PolicyNext]_policyVars =>
         [\A here \in refs', c \in active \ active' :
             c \in InZone(here) /\ c \in DOMAIN born => Old(c, now) \/ c \in tainted]_policyVars
  <2> SUFFICES ASSUME PolicyInv, PolicyNext, NEW here \in refs', NEW c \in active \ active',
                      c \in InZone(here), c \in DOMAIN born
               PROVE  Old(c, now) \/ c \in tainted
    OBVIOUS
  <2>1. ~elapse
    BY DEF elapse
  <2>2. PICK h \in Refs : updateRolling(h)
    BY <2>1 DEF PolicyNext
  <2>3. PICK P \in SUBSET pending, waiting \in SUBSET pending, lost \in SUBSET pending,
             busy \in SUBSET (answered \cup pending) :
           /\ NewDates(P, h) /\ refs' = {h} /\ UNCHANGED <<policy, now>>
           /\ \/ /\ refs = {h}
                 /\ active' = active \cup P /\ pending' = waiting
                 /\ answered' = answered \cup busy
                 /\ excused' = excused \cup P \cup lost /\ judged' = judged
              \/ /\ refs # {h}
                 /\ performTransition(h, active \cup P, waiting, busy, Dated(P))
                 /\ answered' = busy
                 /\ excused' = {} /\ judged' = now
    BY <2>2, UpdateIs
  <2>4. here = h /\ h \in CoordT /\ c \in CoordT /\ P \in SUBSET CoordT
    BY <2>3, RefsAssumption DEF PolicyInv, PolicyTypeOK
  <2>5. shouldEvict(c, h, Dated(P))
    BY <2>3 DEF performTransition
  <2> QED BY <2>4, <2>5, RefusedIsOld DEF PolicyInv
<1> QED BY <1>1, PolicyInvariance, PTL DEF PolicySpec, YoungIsKept
=============================================================================
