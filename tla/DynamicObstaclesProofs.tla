------------------------ MODULE DynamicObstaclesProofs ------------------------
(***************************************************************************)
(* What DynamicObstacles promises of the local maps and their files, for   *)
(* any voxels, tolerances, ages and hits, any number of tracks and saves.  *)
(*                                                                         *)
(* Four invariants that do not need each other: what is in the files       *)
(* (FilesInv), what is background (BackgroundInv), which track holds a     *)
(* promoted cell (PromotionIsReversible, inductive as it is), and where the *)
(* voxels of the cloud in progress are (CloudInv).  Tracks are erased and  *)
(* components are found by recursive functions, to which no induction      *)
(* theorem can be applied: that a function satisfies its equation is shown *)
(* by the first index up to which none does (Iterates), and what it        *)
(* computes by the first index at which it does not (LeastIndex).          *)
(***************************************************************************)
EXTENDS DynamicObstacles, FiniteSetTheorems, SequenceTheorems, WellFoundedInduction, TLAPS

-----------------------------------------------------------------------------
(* Largest and smallest elements, and recursive functions.                 *)

(* A finite set of integers has a largest element: a smallest subset       *)
(* without one would have one, that of the subset without any one element  *)
(* or that element.                                                        *)
LEMMA LargestExists ==
    ASSUME NEW S, IsFiniteSet(S), S \subseteq Int, S # {}
    PROVE  \E x \in S : \A y \in S : x >= y
PROOF
<1> DEFINE Bad == {T \in SUBSET S : T # {} /\ \A x \in T : \E y \in T : ~ (x >= y)}
<1>1. SUFFICES ASSUME Bad # {} PROVE FALSE
  BY <1>1
<1>2. PICK T \in Bad : \A U \in Bad : ~ (<<U, T>> \in StrictSubsetOrdering(S))
  <2>1. Bad \subseteq FiniteSubsetsOf(S)
    BY FS_Subset DEF FiniteSubsetsOf
  <2> QED BY <2>1, <1>1, WFMin, FS_StrictSubsetOrderingWellFounded
<1>3. PICK x \in T : TRUE
  BY <1>2
<1> DEFINE U == T \ {x}
<1>4. U # {}
  BY <1>2, <1>3
<1>5. <<U, T>> \in StrictSubsetOrdering(S)
  BY <1>2, <1>3 DEF StrictSubsetOrdering
<1>6. U \notin Bad
  BY <1>2, <1>5
<1>7. PICK m \in U : \A y \in U : m >= y
  BY <1>2, <1>4, <1>6
<1>8. PICK z \in T : ~ (m >= z)
  BY <1>2, <1>7
<1>9. z = x
  BY <1>7, <1>8
<1>10. \A y \in T : x >= y
  BY <1>2, <1>7, <1>8, <1>9
<1> QED BY <1>2, <1>3, <1>10

LEMMA SmallestExists ==
    ASSUME NEW S, IsFiniteSet(S), S \subseteq Int, S # {}
    PROVE  \E x \in S : \A y \in S : x <= y
PROOF
<1> DEFINE N == {-x : x \in S}
<1>1. IsFiniteSet(N)
  <2> DEFINE f == [x \in S |-> -x]
  <2>1. f \in Surjection(S, N)
    BY DEF Surjection
  <2> QED BY <2>1, FS_Surjection
<1>2. N \subseteq Int /\ N # {}
  OBVIOUS
<1>3. PICK m \in N : \A y \in N : m >= y
  BY <1>1, <1>2, LargestExists
<1>4. PICK x \in S : m = -x
  BY <1>3
<1>5. \A y \in S : x <= y
  BY <1>3, <1>4
<1> QED BY <1>5

(* A wrong index has a first.                                              *)
LEMMA LeastIndex ==
    ASSUME NEW n \in Int, NEW B \in SUBSET (0 .. n), B # {}
    PROVE  \E i \in B : i - 1 \notin B
PROOF
<1>1. IsFiniteSet(B)
  <2>1. IsFiniteSet(0 .. n)
    BY FS_Interval
  <2> QED BY <2>1, FS_Subset
<1>2. PICK i \in B : \A j \in B : i <= j
  <2>1. B \subseteq Int
    OBVIOUS
  <2> QED BY <1>1, <2>1, SmallestExists
<1>3. i \in Int /\ ~(i <= i - 1)
  OBVIOUS
<1> QED BY <1>2, <1>3

(* A recursive function exists if each step stays in its range: no length  *)
(* is the first for which it does not.                                     *)
Iteration(g, n, c, F) == \A i \in 0 .. n : g[i] = IF i = 0 THEN c ELSE F[i][g[i - 1]]

LEMMA Iterates ==
    ASSUME NEW n \in Int, NEW S, NEW c \in S, NEW F \in [0 .. n -> [S -> S]]
    PROVE  \E g \in [0 .. n -> S] : Iteration(g, n, c, F)
PROOF
<1> DEFINE Step(g, i) == IF i = 0 THEN c ELSE F[i][g[i - 1]]
           Good(m) == \E g \in [0 .. m -> S] : \A i \in 0 .. m : g[i] = Step(g, i)
           B == {m \in 0 .. n : ~Good(m)}
<1>1. CASE n < 0
  <2>1. 0 .. n = {}
    BY <1>1
  <2>2. [i \in 0 .. n |-> c] \in [0 .. n -> S]
    OBVIOUS
  <2> QED BY <2>1, <2>2 DEF Iteration
<1>2. CASE n >= 0
  <2>1. SUFFICES ASSUME B # {} PROVE FALSE
    <3>1. n \in 0 .. n
      BY <1>2
    <3>2. B = {} => Good(n)
      BY <3>1
    <3> QED BY <3>2 DEF Iteration
  <2>2. PICK m \in 0 .. n : ~Good(m) /\ (m # 0 => Good(m - 1))
    <3>1. B \subseteq 0 .. n
      OBVIOUS
    <3>2. PICK m \in B : m - 1 \notin B
      <4> HIDE DEF B
      <4> QED BY <2>1, <3>1, LeastIndex
    <3>3. m # 0 => m - 1 \in 0 .. n
      BY <3>1, <3>2
    <3> QED BY <3>2, <3>3
  <2>3. CASE m = 0
    <3> DEFINE g == [i \in 0 .. 0 |-> c]
    <3>1. g \in [0 .. 0 -> S] /\ \A i \in 0 .. 0 : g[i] = Step(g, i)
      OBVIOUS
    <3> QED BY <2>2, <2>3, <3>1
  <2>4. CASE m # 0
    <3>1. PICK g \in [0 .. m - 1 -> S] : \A i \in 0 .. m - 1 : g[i] = Step(g, i)
      BY <2>2, <2>4
    <3> DEFINE h == [i \in 0 .. m |-> IF i = m THEN F[m][g[m - 1]] ELSE g[i]]
    <3>2. m - 1 \in 0 .. m - 1 /\ \A i \in 0 .. m : i # m => i \in 0 .. m - 1
      BY <2>4
    <3>3. h \in [0 .. m -> S]
      BY <3>2
    <3>4. ASSUME NEW i \in 0 .. m PROVE h[i] = Step(h, i)
      <4>1. CASE i = m
        <5>1. h[m - 1] = g[m - 1]
          BY <3>2
        <5> QED BY <2>4, <4>1, <5>1
      <4>2. CASE i # m
        <5>1. h[i] = g[i] /\ i \in 0 .. m - 1
          BY <3>2, <4>2
        <5>2. i # 0 => i - 1 \in 0 .. m - 1 /\ h[i - 1] = g[i - 1]
          BY <5>1
        <5> QED BY <3>1, <5>1, <5>2
      <4> QED BY <4>1, <4>2
    <3>5. Good(m)
      BY <3>3, <3>4
    <3> QED BY <2>2, <3>5
  <2> QED BY <2>3, <2>4
<1> QED BY <1>1, <1>2

(* What is in a sequence, in any order.                                    *)
Elems(q) == {q[i] : i \in DOMAIN q}

LEMMA ElemsAppend ==
    ASSUME NEW T, NEW q \in Seq(T), NEW t \in T
    PROVE  Append(q, t) \in Seq(T) /\ Elems(Append(q, t)) = Elems(q) \cup {t}
PROOF
<1>1. /\ Append(q, t) \in Seq(T) /\ DOMAIN q = 1 .. Len(q) /\ Len(q) \in Nat
      /\ DOMAIN Append(q, t) = 1 .. Len(q) + 1
      /\ \A i \in 1 .. Len(q) : Append(q, t)[i] = q[i]
      /\ Append(q, t)[Len(q) + 1] = t
  OBVIOUS
<1>2. \A i \in 1 .. Len(q) + 1 : i \in 1 .. Len(q) \/ i = Len(q) + 1
  BY <1>1
<1>3. 1 .. Len(q) \subseteq 1 .. Len(q) + 1 /\ Len(q) + 1 \in 1 .. Len(q) + 1
  BY <1>1
<1> QED BY <1>1, <1>2, <1>3, Zenon DEF Elems

(* The tracks that are left are those with a voxel.                        *)
LEMMA AliveIs ==
    ASSUME NEW T, NEW q \in Seq(T)
    PROVE  Alive(q) \in Seq(T) /\ Elems(Alive(q)) = {t \in Elems(q) : t.voxels # {}}
PROOF
<1> DEFINE n == Len(q)
           D == 0 .. n
           Then(s, i) == IF q[i].voxels = {} THEN s ELSE Append(s, q[i])
           Walks(g) == g = [i \in D |-> IF i = 0 THEN <<>> ELSE Then(g[i - 1], i)]
           W == CHOOSE g : Walks(g)
           F == [i \in D |-> [s \in Seq(T) |-> IF i = 0 THEN s ELSE Then(s, i)]]
           Kept(i) == {t \in {q[j] : j \in 1 .. i} : t.voxels # {}}
           Right(i) == W[i] \in Seq(T) /\ Elems(W[i]) = Kept(i)
<1>1. Alive(q) = W[n]
  BY DEF Alive
<1>2. n \in Nat /\ n \in Int /\ 0 \in D /\ DOMAIN q = 1 .. n /\ \A i \in 1 .. n : q[i] \in T
  OBVIOUS
<1>3. \A s \in Seq(T), i \in 1 .. n : Then(s, i) \in Seq(T)
  BY <1>2
<1> HIDE DEF n
<1>4. \A i \in D : i # 0 => i \in 1 .. n /\ i - 1 \in D
  BY <1>2
<1>5. \E g : Walks(g)
  <2> HIDE DEF Then
  <2>1. F \in [D -> [Seq(T) -> Seq(T)]] /\ <<>> \in Seq(T)
    BY <1>3, <1>4
  <2> DEFINE c == <<>>
  <2>2. PICK g \in [D -> Seq(T)] : Iteration(g, n, c, F)
    <3>1. c \in Seq(T)
      BY <2>1
    <3> HIDE DEF F, c
    <3> QED BY <1>2, <2>1, <3>1, Iterates
  <2>3. \A i \in D : i # 0 => g[i] = Then(g[i - 1], i)
    BY <1>4, <2>2 DEF Iteration
  <2>4. 0 \in D /\ g[0] = <<>>
    <3> HIDE DEF F
    <3> QED BY <1>2, <2>2 DEF Iteration
  <2>5. g = [i \in D |-> g[i]]
    BY <2>2
  <2>6. Walks(g)
    <3> HIDE DEF F, D
    <3> QED BY <2>3, <2>4, <2>5
  <2> QED BY <2>6
<1>6. Walks(W)
  BY <1>5
<1> HIDE DEF W, F
<1>7. W[0] = <<>> /\ \A i \in D : i # 0 => W[i] = Then(W[i - 1], i)
  <2> HIDE DEF Then, D
  <2> QED BY <1>2, <1>6
<1>8. Right(0)
  <2>1. Elems(<<>>) = {} /\ Kept(0) = {} /\ <<>> \in Seq(T)
    BY DEF Elems
  <2> QED BY <1>7, <2>1
<1>9. ASSUME NEW i \in D, i # 0, Right(i - 1) PROVE Right(i)
  <2>1. i \in 1 .. n /\ q[i] \in T /\ W[i] = Then(W[i - 1], i)
    BY <1>2, <1>4, <1>7, <1>9
  <2>2. 1 .. i = (1 .. i - 1) \cup {i}
    BY <2>1
  <2>3. Kept(i) = Kept(i - 1) \cup (IF q[i].voxels = {} THEN {} ELSE {q[i]})
    BY <2>2
  <2>4. Append(W[i - 1], q[i]) \in Seq(T) /\ Elems(Append(W[i - 1], q[i])) = Elems(W[i - 1]) \cup {q[i]}
    BY <1>9, <2>1, ElemsAppend
  <2> HIDE DEF Kept
  <2> QED BY <1>9, <2>1, <2>3, <2>4
<1> HIDE DEF Right
<1>10. ASSUME NEW i \in D, ~Right(i) PROVE FALSE
  <2> DEFINE B == {j \in D : ~Right(j)}
  <2>1. B \subseteq 0 .. n /\ B # {}
    BY <1>10
  <2>2. PICK j \in B : j - 1 \notin B
    <3> HIDE DEF B
    <3> QED BY <1>2, <2>1, LeastIndex
  <2> QED BY <1>4, <1>8, <1>9, <2>2
<1>11. Right(n)
  BY <1>2, <1>10
<1>12. Kept(n) = {t \in Elems(q) : t.voxels # {}}
  BY <1>2 DEF Elems
<1> QED BY <1>1, <1>11, <1>12 DEF Right

(* A component is a set of the voxels that has the one it was grown from.  *)
LEMMA ClusterIs ==
    ASSUME NEW S \in SUBSET Obstacles, NEW d \in S
    PROVE  cluster(S, d) \subseteq S /\ d \in cluster(S, d)
PROOF
<1> DEFINE n == Cardinality(S)
           D == 0 .. n
           radius == IF Connectivity < 1 THEN 1 ELSE Connectivity
           Grown(R) == R \cup {e \in S : Near(e, R, radius)}
           Walks(g) == g = [i \in D |-> IF i = 0 THEN {d} ELSE Grown(g[i - 1])]
           W == CHOOSE g : Walks(g)
           F == [i \in D |-> [R \in SUBSET S |-> Grown(R)]]
           Right(i) == W[i] \subseteq S /\ d \in W[i]
<1>1. cluster(S, d) = W[n]
  BY DEF cluster
<1>2. n \in Nat /\ n \in Int /\ 0 \in D
  <2>1. IsFiniteSet(S)
    BY LineAssumption, FS_Subset
  <2>2. Cardinality(S) \in Nat
    BY <2>1, FS_CardinalityType
  <2> QED BY <2>2
<1>3. \A R \in SUBSET S : Grown(R) \in SUBSET S
  OBVIOUS
<1> HIDE DEF n, Grown
<1>4. \A i \in D : i # 0 => i - 1 \in D
  BY <1>2
<1>5. \E g : Walks(g)
  <2>1. F \in [D -> [SUBSET S -> SUBSET S]] /\ {d} \in SUBSET S
    BY <1>3
  <2> DEFINE c == {d}
  <2>2. PICK g \in [D -> SUBSET S] : Iteration(g, n, c, F)
    <3>1. c \in SUBSET S
      BY <2>1
    <3> HIDE DEF F, c
    <3> QED BY <1>2, <2>1, <3>1, Iterates
  <2>3. \A i \in D : i # 0 => g[i] = Grown(g[i - 1])
    BY <1>4, <2>2 DEF Iteration
  <2>4. 0 \in D /\ g[0] = {d}
    <3> HIDE DEF F
    <3> QED BY <1>2, <2>2 DEF Iteration
  <2>5. g = [i \in D |-> g[i]]
    BY <2>2
  <2>6. Walks(g)
    <3> HIDE DEF F, D
    <3> QED BY <2>3, <2>4, <2>5
  <2> QED BY <2>6
<1>6. Walks(W)
  BY <1>5
<1> HIDE DEF W, F
<1>7. W[0] = {d} /\ \A i \in D : i # 0 => W[i] = Grown(W[i - 1])
  <2> HIDE DEF D
  <2> QED BY <1>2, <1>6
<1>8. ASSUME NEW i \in D, ~Right(i) PROVE FALSE
  <2> DEFINE B == {j \in D : ~Right(j)}
  <2>1. B \subseteq 0 .. n /\ B # {}
    BY <1>8
  <2>2. PICK j \in B : j - 1 \notin B
    <3> HIDE DEF B
    <3> QED BY <1>2, <2>1, LeastIndex
  <2> QED BY <1>4, <1>7, <2>2 DEF Grown
<1> QED BY <1>1, <1>2, <1>8

-----------------------------------------------------------------------------
(* Types.                                                                  *)

(* A hit leaves a log-odds between the clamps.                             *)
LEMMA Clamps ==
    /\ Highest \in Logs /\ \A k \in Logs : k <= Highest
    /\ \A l \in Logs : Raise(l) \in Logs /\ Lower(l) \in Logs
PROOF
<1>1. Logs # {}
  BY LogsAssumption
<1>2. \E l \in Logs : \A k \in Logs : k <= l
  <2>1. PICK l \in Logs : \A k \in Logs : l >= k
    BY <1>1, LogsAssumption, LargestExists
  <2> QED BY <2>1, LogsAssumption
<1>3. \E l \in Logs : \A k \in Logs : l <= k
  BY <1>1, LogsAssumption, SmallestExists
<1>4. Highest \in Logs /\ \A k \in Logs : k <= Highest
  BY <1>2 DEF Highest
<1>5. Lowest \in Logs
  BY <1>3 DEF Lowest
<1> QED BY <1>4, <1>5 DEF Raise, Lower

LEMMA CellTypes ==
    ASSUME NEW f \in [Voxels -> Cell]
    PROVE  /\ NewCell \in Cell
           /\ \A S \in SUBSET Voxels : resetPoints(f, S) \in [Voxels -> Cell]
           /\ \A S \in SUBSET Obstacles : AfterHits(f, S) \in [Voxels -> Cell]
PROOF
<1>1. NewCell \in Cell
  BY LogsAssumption DEF NewCell, Cell
<1>2. ASSUME NEW v \in Voxels PROVE addHitPoint(f, v)[v] \in Cell
  BY Clamps DEF addHitPoint, Cell
<1> QED BY <1>1, <1>2 DEF resetPoints, AfterHits

LEMMA OccupiedOrNot ==
    \A c \in Cell : c.log > 0 \/ c.log <= 0
PROOF
<1>1. \A l \in Int : l > 0 \/ l <= 0
  OBVIOUS
<1>2. \A c \in Cell : c.log \in Int
  BY LogsAssumption DEF Cell
<1> QED BY <1>1, <1>2

LEMMA NoFileIs == NoFile \in File
  BY LogsAssumption DEF NoFile, File, NewCell, Cell

LEMMA StaticOfIs == \A d \in Obstacles : StaticOf[d] \in Voxels
  BY StaticOfAssumption

(* The components of a set of observed voxels.                             *)
LEMMA ClustersAre ==
    ASSUME NEW S \in SUBSET Obstacles
    PROVE  /\ cluster_dynamic_voxels(S) \subseteq SUBSET S
           /\ \A d \in S : \E R \in cluster_dynamic_voxels(S) : d \in R
           /\ {} \notin cluster_dynamic_voxels(S)
PROOF
  BY ClusterIs DEF cluster_dynamic_voxels

(* A change of every track, one by one.                                    *)
LEMMA TracksMapped ==
    ASSUME NEW q \in Seq(Track), NEW r, r = [i \in DOMAIN q |-> r[i]],
           \A i \in DOMAIN q : r[i] \in Track
    PROVE  r \in Seq(Track) /\ DOMAIN r = DOMAIN q
PROOF
<1>1. DOMAIN q = 1 .. Len(q) /\ Len(q) \in Nat
  OBVIOUS
<1>2. r \in [1 .. Len(q) -> Track]
  BY <1>1
<1> QED BY <1>1, <1>2, SeqDef

(* The tracks as a cloud's free evidence leaves them, ...                  *)
Faded(q, gone) ==
    [i \in DOMAIN q |->
        LET t == Cleared(q[i], gone)
        IN  [t EXCEPT !.age = IF t.promoted THEN @ ELSE AtMost(@ + 1, MaxAge + 1)]]

LEMMA FadedIs ==
    ASSUME NEW q \in Seq(Track), NEW gone \in SUBSET Obstacles
    PROVE  /\ Faded(q, gone) \in Seq(Track) /\ DOMAIN Faded(q, gone) = DOMAIN q
           /\ \A i \in DOMAIN q :
                /\ Faded(q, gone)[i].voxels = q[i].voxels \ gone
                /\ Faded(q, gone)[i].coords =
                      q[i].coords \ {StaticOf[d] : d \in gone \cap q[i].voxels}
                /\ Faded(q, gone)[i].promoted = q[i].promoted
PROOF
<1> DEFINE f == Faded(q, gone)
<1>1. ASSUME NEW i \in DOMAIN q
      PROVE  /\ f[i] \in Track
             /\ f[i].voxels = q[i].voxels \ gone
             /\ f[i].coords = q[i].coords \ {StaticOf[d] : d \in gone \cap q[i].voxels}
             /\ f[i].promoted = q[i].promoted
  <2>1. q[i] \in Track
    OBVIOUS
  <2> DEFINE t == Cleared(q[i], gone)
  <2>2. /\ t \in Track /\ t.voxels = q[i].voxels \ gone /\ t.promoted = q[i].promoted
        /\ t.coords = q[i].coords \ {StaticOf[d] : d \in gone \cap q[i].voxels}
    BY <2>1 DEF Cleared, Track
  <2>3. f[i] = [t EXCEPT !.age = IF t.promoted THEN @ ELSE AtMost(@ + 1, MaxAge + 1)]
    BY DEF Faded
  <2> HIDE DEF t
  <2>4. AtMost(t.age + 1, MaxAge + 1) \in Nat /\ t.age \in Nat
    <3>1. t.age \in Nat
      BY <2>2 DEF Track
    <3>2. MaxAge \in Nat
      BY ParametersAssumption
    <3> QED BY <3>1, <3>2 DEF AtMost
  <2> QED BY <2>2, <2>3, <2>4 DEF Track
<1>2. f = [i \in DOMAIN q |-> f[i]]
  BY DEF Faded
<1> HIDE DEF f
<1> QED BY <1>1, <1>2, TracksMapped DEF f

(* ... those that have come to know the static map, ...                    *)
Reconciled ==
    [i \in DOMAIN tracks |->
        IF tracks[i].promoted THEN tracks[i]
        ELSE [tracks[i] EXCEPT !.voxels = {d \in @ : ~dynamic_voxel_overlaps_static(d)}]]

LEMMA ReconciledIs ==
    ASSUME TypeOK
    PROVE  /\ Reconciled \in Seq(Track) /\ DOMAIN Reconciled = DOMAIN tracks
           /\ \A i \in DOMAIN tracks :
                /\ Reconciled[i].voxels \subseteq tracks[i].voxels
                /\ Reconciled[i].coords = tracks[i].coords
                /\ Reconciled[i].promoted = tracks[i].promoted
                /\ tracks[i].promoted => Reconciled[i] = tracks[i]
PROOF
<1>1. ASSUME NEW i \in DOMAIN tracks
      PROVE  /\ Reconciled[i] \in Track
             /\ Reconciled[i].voxels \subseteq tracks[i].voxels
             /\ Reconciled[i].coords = tracks[i].coords
             /\ Reconciled[i].promoted = tracks[i].promoted
             /\ tracks[i].promoted => Reconciled[i] = tracks[i]
  <2> DEFINE S == {d \in tracks[i].voxels : ~dynamic_voxel_overlaps_static(d)}
  <2>1. tracks[i] \in Track /\ S \subseteq tracks[i].voxels
    BY DEF TypeOK
  <2>2. Reconciled[i] =
          IF tracks[i].promoted THEN tracks[i] ELSE [tracks[i] EXCEPT !.voxels = S]
    BY DEF Reconciled
  <2> HIDE DEF S
  <2> QED BY <2>1, <2>2 DEF Track
<1>2. Reconciled = [i \in DOMAIN tracks |-> Reconciled[i]]
  BY DEF Reconciled
<1>3. tracks \in Seq(Track)
  BY DEF TypeOK
<1> QED BY <1>1, <1>2, <1>3, TracksMapped

(* ... and those at the end of a cloud.                                    *)
Unmatched == [i \in DOMAIN tracks |-> [tracks[i] EXCEPT !.matched = FALSE]]

LEMMA UnmatchedIs ==
    ASSUME TypeOK
    PROVE  /\ Unmatched \in Seq(Track) /\ DOMAIN Unmatched = DOMAIN tracks
           /\ \A i \in DOMAIN tracks :
                /\ Unmatched[i].voxels = tracks[i].voxels
                /\ Unmatched[i].coords = tracks[i].coords
                /\ Unmatched[i].promoted = tracks[i].promoted
PROOF
<1>1. ASSUME NEW i \in DOMAIN tracks
      PROVE  /\ Unmatched[i] \in Track
             /\ Unmatched[i].voxels = tracks[i].voxels
             /\ Unmatched[i].coords = tracks[i].coords
             /\ Unmatched[i].promoted = tracks[i].promoted
  <2>1. tracks[i] \in Track
    BY DEF TypeOK
  <2>2. Unmatched[i] = [tracks[i] EXCEPT !.matched = FALSE]
    BY DEF Unmatched
  <2> QED BY <2>1, <2>2 DEF Track
<1>2. Unmatched = [i \in DOMAIN tracks |-> Unmatched[i]]
  BY DEF Unmatched
<1>3. tracks \in Seq(Track)
  BY DEF TypeOK
<1> QED BY <1>1, <1>2, <1>3, TracksMapped

(* Tracks that are left were there, and have a voxel.                      *)
LEMMA AliveTracks ==
    ASSUME NEW q \in Seq(Track)
    PROVE  /\ Alive(q) \in Seq(Track)
           /\ \A i \in DOMAIN Alive(q) : \E j \in DOMAIN q : Alive(q)[i] = q[j]
           /\ \A j \in DOMAIN q :
                q[j].voxels # {} => \E i \in DOMAIN Alive(q) : Alive(q)[i] = q[j]
PROOF
<1>1. Alive(q) \in Seq(Track) /\ Elems(Alive(q)) = {t \in Elems(q) : t.voxels # {}}
  BY AliveIs
<1>2. \A i \in DOMAIN Alive(q) : Alive(q)[i] \in Elems(Alive(q))
  BY DEF Elems
<1>3. \A j \in DOMAIN q : q[j] \in Elems(q)
  BY DEF Elems
<1>4. \A t \in Elems(q) : \E j \in DOMAIN q : t = q[j]
  BY DEF Elems
<1>5. \A t \in Elems(Alive(q)) : \E i \in DOMAIN Alive(q) : Alive(q)[i] = t
  BY DEF Elems
<1> QED BY <1>1, <1>2, <1>3, <1>4, <1>5, Zenon

-----------------------------------------------------------------------------
(* What each action does to the tracks and to the static map.              *)

(* The cells a cloud takes back are of promoted tracks, and are cells.     *)
LEMMA WithdrawnIs ==
    ASSUME TypeOK, NEW gone \in SUBSET Obstacles
    PROVE  /\ Withdrawn(gone) \subseteq Voxels
           /\ \A v \in Voxels : v \in Withdrawn(gone) <=>
                \E i \in DOMAIN tracks : v \in tracks[i].coords
                     /\ \E d \in gone \cap tracks[i].voxels : StaticOf[d] = v
PROOF
<1>1. \A i \in DOMAIN tracks : tracks[i] \in Track
  BY DEF TypeOK
<1>2. \A i \in DOMAIN tracks : tracks[i].coords \subseteq Voxels
  BY <1>1 DEF Track
<1> DEFINE G(i) == {StaticOf[d] : d \in gone \cap tracks[i].voxels}
<1>3. \A i \in DOMAIN tracks : \A v :
        v \in G(i) <=> \E d \in gone \cap tracks[i].voxels : StaticOf[d] = v
  OBVIOUS
<1>4. Withdrawn(gone) = UNION {tracks[i].coords \cap G(i) : i \in DOMAIN tracks}
  BY DEF Withdrawn
<1> HIDE DEF G
<1>5. \A v : v \in Withdrawn(gone) <=>
        \E i \in DOMAIN tracks : v \in tracks[i].coords /\ v \in G(i)
  BY <1>4
<1> QED BY <1>2, <1>3, <1>5

(* A hit makes a cell occupied or spent, and none less than it was.        *)
LEMMA HitsAre ==
    ASSUME NEW f \in [Voxels -> Cell], NEW S \in SUBSET Obstacles, NEW v \in Voxels
    PROVE  /\ f[v].log > 0 => AfterHits(f, S)[v].log > 0
           /\ f[v].id = 1 => AfterHits(f, S)[v] = f[v]
           /\ (\E d \in S : StaticOf[d] = v) => AfterHits(f, S)[v].id = 1
           /\ ~(\E d \in S : StaticOf[d] = v) => AfterHits(f, S)[v] = f[v]
PROOF
<1>1. f[v] \in Cell
  OBVIOUS
<1>2. \A l \in Logs : l > 0 => Raise(l) > 0
  <2>1. \A l \in Logs : l \in Int /\ l <= Highest /\ Highest \in Int
    BY Clamps, LogsAssumption
  <2> HIDE DEF Highest
  <2> QED BY <2>1 DEF Raise
<1>3. addHitPoint(f, v)[v] =
        IF f[v].id # 1 THEN [id |-> 1, log |-> Raise(f[v].log)] ELSE f[v]
  BY DEF addHitPoint
<1>4. AfterHits(f, S)[v] =
        IF \E d \in S : StaticOf[d] = v THEN addHitPoint(f, v)[v] ELSE f[v]
  BY DEF AfterHits
<1> QED BY <1>1, <1>2, <1>3, <1>4 DEF Cell

(* The components are of voxels that the static map does not know.         *)
LEMMA InsertIs ==
    ASSUME TypeOK, NEW S \in SUBSET Obstacles, NEW gone \in SUBSET Obstacles,
           insert_cloud(S, gone)
    PROVE  /\ static' = resetPoints(static, Withdrawn(gone))
           /\ static' \in [Voxels -> Cell]
           /\ tracks' = Alive(Faded(tracks, gone))
           /\ cloud' \in Clouds /\ cloud'.busy
           /\ cloud'.observed = S /\ cloud'.parts = cloud'.todo
           /\ cloud'.todo = cluster_dynamic_voxels(Candidates(S, static'))
           /\ Candidates(S, static') \in SUBSET Obstacles
           /\ UNCHANGED <<saving, files, background>>
           /\ cloud = none
PROOF
<1>1. /\ static' = resetPoints(static, Withdrawn(gone))
      /\ tracks' = Alive(Faded(tracks, gone))
      /\ UNCHANGED <<saving, files, background>>
      /\ cloud = none
  BY Zenon DEF insert_cloud, Faded
<1> DEFINE todo == cluster_dynamic_voxels(Candidates(S, static'))
<1>2. cloud' = [busy |-> TRUE, observed |-> S, todo |-> todo, parts |-> todo]
  BY Zenon DEF insert_cloud
<1>3. Candidates(S, static') \in SUBSET Obstacles
  BY DEF Candidates
<1>4. todo \subseteq SUBSET Obstacles
  BY <1>3, ClustersAre
<1>5. static' \in [Voxels -> Cell]
  BY <1>1, WithdrawnIs, CellTypes DEF TypeOK
<1> HIDE DEF todo
<1>6. cloud' \in Clouds /\ cloud'.busy
  BY <1>2, <1>4 DEF Clouds
<1>7. cloud'.observed = S /\ cloud'.todo = todo /\ cloud'.parts = todo
  BY <1>2
<1> QED BY <1>1, <1>3, <1>5, <1>6, <1>7 DEF todo

(* A component makes a track, or is taken over by an eligible one, which   *)
(* it may promote; what the others have stays.                             *)
MatchesNew(S) ==
    static' = static /\ tracks' = Append(tracks, NewTrack(S))
MatchesOld(S, i) ==
    /\ Eligible(tracks[i], S)
    /\ tracks' \in Seq(Track) /\ DOMAIN tracks' = DOMAIN tracks
    /\ \A j \in DOMAIN tracks : j # i => tracks'[j] = tracks[j]
    /\ tracks'[i].voxels = S
    /\ \/ /\ static' = static
          /\ ~tracks'[i].promoted /\ tracks'[i].matched
          /\ tracks'[i].coords = tracks[i].coords
       \/ /\ static' = AfterHits(static, S)
          /\ tracks'[i].promoted
          /\ tracks'[i].coords = {StaticOf[d] : d \in S}

LEMMA UpdateIs ==
    ASSUME TypeOK, NEW S \in SUBSET Obstacles, NEW i \in DOMAIN tracks,
           Eligible(tracks[i], S), update_track(i, S)
    PROVE  MatchesOld(S, i)
PROOF
<1>1. PICK sure \in BOOLEAN :
        LET t == [tracks[i] EXCEPT
                     !.voxels = S, !.matched = TRUE, !.age = 0, !.confident = sure,
                     !.hits = AtMost(@ + 1, StabilityHits)]
            promote == t.hits >= StabilityHits /\ sure
        IN  /\ tracks' = [tracks EXCEPT ![i] = IF promote THEN Promoted(t) ELSE t]
            /\ static' = IF promote THEN AfterHits(static, S) ELSE static
  BY Zenon DEF update_track
<1> DEFINE t == [tracks[i] EXCEPT
                    !.voxels = S, !.matched = TRUE, !.age = 0, !.confident = sure,
                    !.hits = AtMost(@ + 1, StabilityHits)]
           promote == t.hits >= StabilityHits /\ sure
           u == IF promote THEN Promoted(t) ELSE t
<1>2. tracks[i] \in Track /\ tracks \in Seq(Track)
  BY DEF TypeOK
<1>3. AtMost(tracks[i].hits + 1, StabilityHits) \in Nat
  <2>1. tracks[i].hits \in Nat
    BY <1>2 DEF Track
  <2>2. StabilityHits \in Nat
    BY ParametersAssumption
  <2> QED BY <2>1, <2>2 DEF AtMost
<1>4. /\ t \in Track /\ t.voxels = S /\ t.matched /\ t.promoted = tracks[i].promoted
      /\ t.coords = tracks[i].coords
  BY <1>2, <1>3 DEF Track
<1>5. tracks' = [tracks EXCEPT ![i] = u] /\ static' = IF promote THEN AfterHits(static, S) ELSE static
  BY <1>1
<1> HIDE DEF t, promote
<1>6. {StaticOf[d] : d \in S} \subseteq Voxels
  BY StaticOfIs
<1>7. /\ Promoted(t) \in Track /\ Promoted(t).voxels = S /\ Promoted(t).promoted
      /\ Promoted(t).coords = {StaticOf[d] : d \in S}
  <2> DEFINE C == {StaticOf[d] : d \in S}
  <2>1. Promoted(t) = [t EXCEPT !.promoted = TRUE, !.coords = C]
    BY <1>4 DEF Promoted
  <2> HIDE DEF C
  <2>2. Promoted(t) \in Track /\ Promoted(t).voxels = S /\ Promoted(t).promoted
        /\ Promoted(t).coords = C
    BY <1>4, <1>6, <2>1 DEF C, Track
  <2> QED BY <2>2 DEF C
<1>8. u \in Track /\ u.voxels = S
  BY <1>4, <1>7
<1>9. /\ tracks' \in Seq(Track) /\ DOMAIN tracks' = DOMAIN tracks
      /\ tracks'[i] = u /\ \A j \in DOMAIN tracks : j # i => tracks'[j] = tracks[j]
  <2> HIDE DEF u
  <2>1. DOMAIN tracks = 1 .. Len(tracks) /\ tracks \in [1 .. Len(tracks) -> Track]
        /\ Len(tracks) \in Nat
    BY <1>2
  <2>2. tracks' \in [1 .. Len(tracks) -> Track]
    BY <1>5, <1>8, <2>1
  <2>3. tracks' \in Seq(Track)
    BY <2>1, <2>2, SeqDef
  <2> QED BY <1>5, <2>1, <2>3
<1>10. CASE promote
  <2>1. u = Promoted(t) /\ static' = AfterHits(static, S)
    BY <1>5, <1>10
  <2> HIDE DEF u
  <2> QED BY <1>7, <1>8, <1>9, <2>1 DEF MatchesOld
<1>11. CASE ~promote
  <2>1. u = t /\ static' = static
    BY <1>5, <1>11
  <2>2. ~tracks[i].promoted
    BY DEF Eligible
  <2> HIDE DEF u
  <2> QED BY <1>4, <1>8, <1>9, <2>1, <2>2 DEF MatchesOld
<1> QED BY <1>10, <1>11

LEMMA MatchIs ==
    ASSUME TypeOK, match_component
    PROVE  /\ cloud \in Clouds /\ cloud.busy
           /\ \E S \in cloud.todo :
                /\ \A T \in cloud.todo : First(S) <= First(T)
                /\ cloud' = [cloud EXCEPT !.todo = @ \ {S}]
                /\ MatchesNew(S) \/ \E i \in DOMAIN tracks : MatchesOld(S, i)
           /\ UNCHANGED <<saving, files, background>>
PROOF
<1>1. cloud \in Clouds /\ cloud.busy
  BY DEF TypeOK, match_component, none
<1>2. PICK S \in cloud.todo :
        /\ \A T \in cloud.todo : First(S) <= First(T)
        /\ cloud' = [cloud EXCEPT !.todo = @ \ {S}]
        /\ IF Best(S) = {} THEN tracks' = Append(tracks, NewTrack(S)) /\ UNCHANGED static
           ELSE \E i \in Best(S) : update_track(i, S)
  BY Zenon DEF match_component
<1>3. S \in SUBSET Obstacles
  BY <1>1 DEF Clouds
<1>4. CASE Best(S) = {}
  BY <1>1, <1>2, <1>4 DEF MatchesNew, match_component
<1>5. CASE Best(S) # {}
  <2>1. PICK i \in Best(S) : update_track(i, S)
    BY <1>2, <1>5
  <2>2. i \in DOMAIN tracks /\ Eligible(tracks[i], S)
    BY Zenon DEF Best
  <2> QED BY <1>1, <1>2, <1>3, <2>1, <2>2, UpdateIs, Zenon DEF match_component
<1> QED BY <1>4, <1>5

-----------------------------------------------------------------------------
(* Types are kept.                                                         *)

LEMMA InitTypes == ASSUME Init PROVE TypeOK
PROOF
<1>1. PICK m \in InitialFiles :
        /\ files = [map |-> m, pcd |-> m.save, tmp |-> NoFile, tmp_pcd |-> 0, last |-> m.save]
        /\ Startup(m) \/ Startup(NoFile)
  BY Zenon DEF Init
<1>2. m \in File /\ NoFile \in File
  BY FilesAssumption, NoFileIs
<1>3. static \in [Voxels -> Cell] /\ background \subseteq Voxels /\ tracks = <<>>
  BY <1>1, <1>2 DEF Startup, File
<1>4. files \in [map : File, pcd : Nat, tmp : File, tmp_pcd : Nat, last : Nat]
  BY <1>1, <1>2 DEF File
<1>5. cloud = none /\ saving = none
  BY DEF Init
<1> QED BY <1>3, <1>4, <1>5 DEF TypeOK

LEMMA SavingIs ==
    ASSUME TypeOK, saving.busy
    PROVE  saving \in [busy : {TRUE}, next : {"map", "pcd"}]
PROOF
<1>1. saving \in [busy : {TRUE}, next : {"map", "pcd"}] \cup {none}
  BY DEF TypeOK
<1>2. ~none.busy
  BY DEF none
<1> QED BY <1>1, <1>2

LEMMA NewTrackIs ==
    ASSUME NEW S \in SUBSET Obstacles
    PROVE  NewTrack(S) \in Track
  BY DEF NewTrack, Track

LEMMA StepTypes == ASSUME TypeOK, [Next]_vars PROVE TypeOK'
PROOF
<1> USE DEF TypeOK
<1>1. ASSUME NEW S \in SUBSET Obstacles \ {{}}, NEW gone \in SUBSET Obstacles,
             insert_cloud(S, gone)
      PROVE  TypeOK'
  <2>1. S \in SUBSET Obstacles
    OBVIOUS
  <2>2. Faded(tracks, gone) \in Seq(Track)
    BY FadedIs
  <2>3. tracks' \in Seq(Track)
    BY <1>1, <2>1, <2>2, InsertIs, AliveTracks
  <2>4. static' \in [Voxels -> Cell] /\ cloud' \in Clouds /\ UNCHANGED <<saving, files, background>>
    BY <1>1, <2>1, InsertIs
  <2> QED BY <2>3, <2>4
<1>2. CASE match_component
  <2>1. /\ cloud \in Clouds /\ UNCHANGED <<saving, files, background>>
        /\ static \in [Voxels -> Cell] /\ tracks \in Seq(Track)
    BY <1>2, MatchIs
  <2>2. PICK S \in cloud.todo :
        /\ cloud' = [cloud EXCEPT !.todo = @ \ {S}]
        /\ MatchesNew(S) \/ \E i \in DOMAIN tracks : MatchesOld(S, i)
    BY <1>2, MatchIs
  <2>3. S \in SUBSET Obstacles /\ cloud' \in Clouds
    BY <2>1, <2>2 DEF Clouds
  <2>4. CASE MatchesNew(S)
    <3>1. NewTrack(S) \in Track
      BY <2>3, NewTrackIs
    <3>2. tracks' \in Seq(Track) /\ static' \in [Voxels -> Cell]
      BY <2>1, <2>4, <3>1 DEF MatchesNew
    <3> QED BY <2>1, <2>3, <3>2
  <2>5. CASE \E i \in DOMAIN tracks : MatchesOld(S, i)
    <3>1. AfterHits(static, S) \in [Voxels -> Cell]
      BY <2>1, <2>3, CellTypes
    <3>2. tracks' \in Seq(Track) /\ static' \in [Voxels -> Cell]
      BY <2>1, <2>5, <3>1 DEF MatchesOld
    <3> QED BY <2>1, <2>3, <3>2
  <2> QED BY <2>2, <2>4, <2>5
<1>3. CASE end_cloud
  <2>1. tracks' = Unmatched /\ Unmatched \in Seq(Track)
    BY <1>3, UnmatchedIs DEF end_cloud, Unmatched
  <2> QED BY <1>3, <2>1 DEF end_cloud
<1>4. CASE static_voxel_timer_callback
  <2>1. tracks' = Alive(Reconciled)
    BY <1>4, Zenon DEF static_voxel_timer_callback, reconcile_dynamic_with_static_map, Reconciled
  <2>2. tracks' \in Seq(Track)
    BY <2>1, ReconciledIs, AliveTracks
  <2> QED BY <1>4, <2>2 DEF static_voxel_timer_callback
<1>5. CASE save_temporary
  <2>1. PICK written \in BOOLEAN :
          /\ files' = [files EXCEPT
                !.last = @ + 1,
                !.tmp = IF written THEN [save |-> files.last + 1, cells |-> static] ELSE NoFile,
                !.tmp_pcd = IF written THEN files.last + 1 ELSE 0]
          /\ saving' = IF written THEN [busy |-> TRUE, next |-> "map"] ELSE none
    BY <1>5, Zenon DEF save_temporary
  <2>2. [save |-> files.last + 1, cells |-> static] \in File /\ NoFile \in File
    BY NoFileIs DEF File
  <2> DEFINE r == IF written THEN [save |-> files.last + 1, cells |-> static] ELSE NoFile
             n == IF written THEN files.last + 1 ELSE 0
  <2>3. files' \in [map : File, pcd : Nat, tmp : File, tmp_pcd : Nat, last : Nat]
    <3>1. r \in File /\ n \in Nat /\ files.last + 1 \in Nat
      BY <2>2
    <3>2. files' = [files EXCEPT !.last = @ + 1, !.tmp = r, !.tmp_pcd = n]
      BY <2>1
    <3> HIDE DEF r, n
    <3> QED BY <3>1, <3>2
  <2>4. saving' \in [busy : {TRUE}, next : {"map", "pcd"}] \cup {none}
    BY <2>1
  <2> QED BY <1>5, <2>3, <2>4 DEF save_temporary
<1>6. CASE rename_map
  <2>1. saving \in [busy : {TRUE}, next : {"map", "pcd"}] /\ NoFile \in File
    BY <1>6, SavingIs, NoFileIs DEF rename_map
  <2> QED BY <1>6, <2>1 DEF rename_map
<1>7. CASE rename_pcd
  BY <1>7 DEF rename_pcd
<1>8. CASE rename_fails
  BY <1>8 DEF rename_fails
<1>9. ASSUME NEW m \in File, Loaded(m)
      PROVE  static' \in [Voxels -> Cell] /\ background' \subseteq Voxels
  BY <1>9 DEF Loaded, File
<1>10. CASE load_static_map
  BY <1>9, <1>10 DEF load_static_map
<1>11. CASE crash
  <2>1. static' \in [Voxels -> Cell] /\ background' \subseteq Voxels
    BY <1>9, <1>11, NoFileIs DEF crash
  <2> QED BY <1>11, <2>1 DEF crash
<1>12. CASE UNCHANGED vars
  BY <1>12 DEF vars
<1> QED BY <1>1, <1>2, <1>3, <1>4, <1>5, <1>6, <1>7, <1>8, <1>10, <1>11, <1>12, Zenon DEF Next

(* Every variable keeps its type: the tracks' log-odds, hits and ages in   *)
(* their bounds, what the files hold a map.                                *)
THEOREM TypeCorrect == Spec => []TypeOK
  BY InitTypes, StepTypes, PTL DEF Spec

-----------------------------------------------------------------------------
(* Files.                                                                  *)

(* What is in the files: a save in progress has written both temporary     *)
(* files, and after its first rename the map is that save's.               *)
FilesInv ==
    /\ files.map.save <= files.last
    /\ files.pcd <= files.map.save
    /\ saving.busy /\ saving.next = "map" =>
          files.tmp.save = files.last /\ files.tmp_pcd = files.last
    /\ saving.busy /\ saving.next = "pcd" =>
          files.map.save = files.last /\ files.tmp_pcd = files.last

LEMMA FilesStep == ASSUME TypeOK, FilesInv, [Next]_vars PROVE FilesInv'
PROOF
<1> USE DEF FilesInv
<1>1. /\ files \in [map : File, pcd : Nat, tmp : File, tmp_pcd : Nat, last : Nat]
      /\ files.map.save \in Nat
  <2>1. files \in [map : File, pcd : Nat, tmp : File, tmp_pcd : Nat, last : Nat]
    BY DEF TypeOK
  <2> QED BY <2>1 DEF File
<1>2. ~none.busy
  BY DEF none
<1>3. CASE UNCHANGED <<files, saving>>
  BY <1>3
<1>4. CASE UNCHANGED files /\ saving' = none
  BY <1>2, <1>4
<1>5. CASE save_temporary
  <2>1. PICK written \in BOOLEAN :
          /\ files' = [files EXCEPT
                !.last = @ + 1,
                !.tmp = IF written THEN [save |-> files.last + 1, cells |-> static] ELSE NoFile,
                !.tmp_pcd = IF written THEN files.last + 1 ELSE 0]
          /\ saving' = IF written THEN [busy |-> TRUE, next |-> "map"] ELSE none
    BY <1>5, Zenon DEF save_temporary
  <2>2. /\ files'.last = files.last + 1 /\ files'.map = files.map /\ files'.pcd = files.pcd
        /\ written => files'.tmp.save = files.last + 1 /\ files'.tmp_pcd = files.last + 1
    BY <1>1, <2>1
  <2>3. saving'.busy => written /\ saving'.next = "map"
    BY <1>2, <2>1
  <2> QED BY <1>1, <2>2, <2>3
<1>6. CASE rename_map
  <2>1. saving'.next = "pcd"
    BY <1>6, SavingIs DEF rename_map
  <2>2. /\ files'.map = files.tmp /\ files'.last = files.last /\ files'.pcd = files.pcd
        /\ files'.tmp_pcd = files.tmp_pcd
    BY <1>1, <1>6 DEF rename_map
  <2>3. files.tmp.save = files.last /\ files.tmp_pcd = files.last
    BY <1>6 DEF rename_map
  <2> QED BY <1>1, <2>1, <2>2, <2>3
<1>7. CASE rename_pcd
  <2>1. files.map.save = files.last /\ files.tmp_pcd = files.last
    BY <1>7 DEF rename_pcd
  <2>2. files'.map = files.map /\ files'.last = files.last /\ files'.pcd = files.tmp_pcd
    BY <1>1, <1>7 DEF rename_pcd
  <2> QED BY <1>1, <1>2, <1>7, <2>1, <2>2 DEF rename_pcd
<1>8. \A S, gone : insert_cloud(S, gone) => UNCHANGED <<files, saving>>
  BY Zenon DEF insert_cloud
<1>9. match_component \/ end_cloud \/ static_voxel_timer_callback \/ load_static_map =>
        UNCHANGED <<files, saving>>
  BY Zenon DEF match_component, end_cloud, static_voxel_timer_callback, load_static_map
<1>10. rename_fails \/ crash => UNCHANGED files /\ saving' = none
  BY Zenon DEF rename_fails, crash
<1>11. UNCHANGED vars => UNCHANGED <<files, saving>>
  BY DEF vars
<1> HIDE DEF FilesInv
<1> QED BY <1>3, <1>4, <1>5, <1>6, <1>7, <1>8, <1>9, <1>10, <1>11, Zenon DEF Next

(* FilesInOrder: a crash in a save, or between saves, leaves a whole map   *)
(* file, and a point cloud of the same save or of an older one.            *)
THEOREM FilesInOrderHolds == Spec => []FilesInOrder
PROOF
<1>1. Init => FilesInv
  <2>1. ASSUME NEW m \in InitialFiles,
               files = [map |-> m, pcd |-> m.save, tmp |-> NoFile, tmp_pcd |-> 0, last |-> m.save]
        PROVE  files.map.save <= files.last /\ files.pcd <= files.map.save
    BY <2>1, FilesAssumption DEF File
  <2>2. ~none.busy
    BY DEF none
  <2> QED BY <2>1, <2>2 DEF Init, FilesInv
<1>2. TypeOK /\ FilesInv /\ [Next]_vars => FilesInv'
  BY FilesStep
<1>3. FilesInv => FilesInOrder
  BY DEF FilesInv, FilesInOrder
<1> QED BY <1>1, <1>2, <1>3, TypeCorrect, PTL DEF Spec

-----------------------------------------------------------------------------
(* The background.                                                         *)

(* Background is occupied, and neither a track nor a component that waits  *)
(* to become one is over it: a cell that no track covers is never taken    *)
(* back.                                                                   *)
Over(S, v) == \E d \in S : StaticOf[d] = v
BackgroundInv ==
    \A v \in background :
        /\ isOccupied(v)
        /\ \A i \in DOMAIN tracks : v \notin tracks[i].coords /\ ~Over(tracks[i].voxels, v)
        /\ cloud.busy => \A S \in cloud.todo : ~Over(S, v)

LEMMA BackgroundStep == ASSUME TypeOK, BackgroundInv, [Next]_vars PROVE BackgroundInv'
PROOF
<1>1. background \subseteq Voxels /\ \A i \in DOMAIN tracks : tracks[i] \in Track
  BY DEF TypeOK
<1>2. ~none.busy
  BY DEF none
<1>3. ASSUME NEW S \in SUBSET Obstacles \ {{}}, NEW gone \in SUBSET Obstacles,
             insert_cloud(S, gone)
      PROVE  BackgroundInv'
  <2>1. S \in SUBSET Obstacles
    OBVIOUS
  <2>2. /\ static' = resetPoints(static, Withdrawn(gone)) /\ background' = background
        /\ tracks' = Alive(Faded(tracks, gone))
        /\ cloud'.todo = cluster_dynamic_voxels(Candidates(S, static'))
        /\ Candidates(S, static') \in SUBSET Obstacles
    BY <1>3, <2>1, InsertIs
  <2>3. ASSUME NEW v \in background PROVE isOccupied(v)'
    <3>1. v \notin Withdrawn(gone) /\ static[v].log > 0
      BY <1>1, WithdrawnIs DEF BackgroundInv, isOccupied
    <3> QED BY <1>1, <2>2, <3>1 DEF resetPoints, isOccupied
  <2>4. ASSUME NEW v \in background, NEW i \in DOMAIN tracks'
        PROVE  v \notin tracks'[i].coords /\ ~Over(tracks'[i].voxels, v)
    <3>1. Faded(tracks, gone) \in Seq(Track)
      BY FadedIs DEF TypeOK
    <3>2. PICK j \in DOMAIN Faded(tracks, gone) : tracks'[i] = Faded(tracks, gone)[j]
      BY <2>2, <3>1, AliveTracks
    <3>3. j \in DOMAIN tracks /\ tracks'[i].voxels \subseteq tracks[j].voxels
          /\ tracks'[i].coords \subseteq tracks[j].coords
      BY <3>2, FadedIs DEF TypeOK
    <3> QED BY <3>3 DEF BackgroundInv, Over
  <2>5. ASSUME NEW v \in background, NEW T \in cloud'.todo PROVE ~Over(T, v)
    <3>1. T \subseteq Candidates(S, static')
      BY <2>2, ClustersAre
    <3>2. \A d \in T : static'[StaticOf[d]].log <= 0
      BY <3>1 DEF Candidates
    <3>3. static'[v].log > 0 /\ static'[v].log \in Int
      <4>1. static'[v] \in Cell
        BY <1>1, <1>3, <2>1, InsertIs
      <4> QED BY <2>3, <4>1, LogsAssumption DEF isOccupied, Cell
    <3> QED BY <3>2, <3>3 DEF Over
  <2> QED BY <2>2, <2>3, <2>4, <2>5 DEF BackgroundInv
<1>4. CASE match_component
  <2>1. cloud \in Clouds /\ cloud.busy /\ background' = background
    BY <1>4, MatchIs
  <2>2. PICK S \in cloud.todo :
        /\ cloud' = [cloud EXCEPT !.todo = @ \ {S}]
        /\ MatchesNew(S) \/ \E i \in DOMAIN tracks : MatchesOld(S, i)
    BY <1>4, MatchIs
  <2>3. S \in SUBSET Obstacles /\ cloud'.todo \subseteq cloud.todo
    BY <2>1, <2>2 DEF Clouds
  <2>4. \A v \in background : ~Over(S, v)
    BY <2>1 DEF BackgroundInv
  <2>5. ASSUME NEW v \in background PROVE isOccupied(v)'
    <3>1. static \in [Voxels -> Cell] /\ static[v].log > 0
      BY DEF TypeOK, BackgroundInv, isOccupied
    <3>2. AfterHits(static, S)[v].log > 0
      BY <1>1, <2>3, <3>1, HitsAre
    <3> QED BY <2>2, <3>1, <3>2 DEF MatchesNew, MatchesOld, isOccupied
  <2>6. ASSUME NEW v \in background, NEW i \in DOMAIN tracks'
        PROVE  v \notin tracks'[i].coords /\ ~Over(tracks'[i].voxels, v)
    <3>1. v \notin {StaticOf[d] : d \in S}
      BY <2>4 DEF Over
    <3>2. CASE MatchesNew(S)
      <4>1. /\ tracks' = Append(tracks, NewTrack(S)) /\ tracks \in Seq(Track)
            /\ NewTrack(S).voxels = S /\ NewTrack(S).coords = {}
        BY <3>2 DEF MatchesNew, TypeOK, NewTrack
      <4>2. CASE i \in DOMAIN tracks
        <5>1. tracks'[i] = tracks[i]
          BY <4>1, <4>2
        <5> QED BY <4>2, <5>1 DEF BackgroundInv
      <4>3. CASE i \notin DOMAIN tracks
        <5>1. tracks'[i] = NewTrack(S)
          BY <4>1, <4>3
        <5> QED BY <2>4, <4>1, <5>1
      <4> QED BY <4>2, <4>3
    <3>3. CASE \E j \in DOMAIN tracks : MatchesOld(S, j)
      <4>1. PICK j \in DOMAIN tracks : MatchesOld(S, j)
        BY <3>3
      <4>2. CASE i = j
        BY <2>4, <3>1, <4>1, <4>2 DEF MatchesOld, BackgroundInv
      <4>3. CASE i # j
        BY <4>1, <4>3 DEF MatchesOld, BackgroundInv
      <4> QED BY <4>2, <4>3
    <3> QED BY <2>2, <3>2, <3>3
  <2> QED BY <2>1, <2>3, <2>5, <2>6 DEF BackgroundInv
<1>5. CASE end_cloud
  <2>1. tracks' = Unmatched /\ UNCHANGED <<static, background>> /\ cloud' = none
    BY <1>5, Zenon DEF end_cloud, Unmatched
  <2>2. \A i \in DOMAIN tracks' : i \in DOMAIN tracks
          /\ tracks'[i].voxels = tracks[i].voxels /\ tracks'[i].coords = tracks[i].coords
    BY <2>1, UnmatchedIs
  <2> QED BY <1>2, <2>1, <2>2 DEF BackgroundInv, isOccupied
<1>6. CASE static_voxel_timer_callback
  <2>1. tracks' = Alive(Reconciled) /\ UNCHANGED <<static, cloud, background>>
    BY <1>6, Zenon DEF static_voxel_timer_callback, reconcile_dynamic_with_static_map, Reconciled
  <2>2. \A i \in DOMAIN tracks' : \E j \in DOMAIN tracks :
          tracks'[i].voxels \subseteq tracks[j].voxels /\ tracks'[i].coords = tracks[j].coords
    <3>1. Reconciled \in Seq(Track) /\ DOMAIN Reconciled = DOMAIN tracks
      BY ReconciledIs
    <3>2. \A i \in DOMAIN tracks' : \E j \in DOMAIN tracks : tracks'[i] = Reconciled[j]
      BY <2>1, <3>1, AliveTracks
    <3> QED BY <3>2, ReconciledIs
  <2> QED BY <2>1, <2>2 DEF BackgroundInv, isOccupied, Over
<1>7. ASSUME NEW m, Loaded(m), tracks' = <<>>, cloud' = none PROVE BackgroundInv'
  <2>1. DOMAIN tracks' = {}
    BY <1>7
  <2>2. \A v \in background' : v \in Voxels /\ m.cells[v].log > 0 /\ static' = m.cells
    BY <1>7 DEF Loaded
  <2> QED BY <1>2, <1>7, <2>1, <2>2 DEF BackgroundInv, isOccupied
<1>8. CASE load_static_map
  BY <1>7, <1>8, Zenon DEF load_static_map, none
<1>9. CASE crash
  BY <1>7, <1>9, Zenon DEF crash
<1>10. CASE UNCHANGED <<static, tracks, cloud, background>>
  BY <1>10 DEF BackgroundInv, isOccupied
<1>11. save_temporary \/ rename_map \/ rename_pcd \/ rename_fails \/ UNCHANGED vars =>
          UNCHANGED <<static, tracks, cloud, background>>
  BY Zenon DEF save_temporary, rename_map, rename_pcd, rename_fails, vars
<1> QED BY <1>3, <1>4, <1>5, <1>6, <1>8, <1>9, <1>10, <1>11, Zenon DEF Next

(* BackgroundIsKept: no cloud takes back a cell that was loaded occupied,  *)
(* and no voxel over one is ever shown as an obstacle.                     *)
THEOREM BackgroundIsKeptHolds == Spec => []BackgroundIsKept
PROOF
<1>1. Init => BackgroundInv
  <2>1. ASSUME Init PROVE cloud = none /\ \E m : Startup(m)
    BY <2>1 DEF Init
  <2>2. ASSUME NEW m, Startup(m), cloud = none PROVE BackgroundInv
    <3>1. DOMAIN tracks = {} /\ ~cloud.busy
      BY <2>2 DEF Startup, none
    <3>2. \A v \in background : static[v].log > 0
      BY <2>2 DEF Startup
    <3> QED BY <3>1, <3>2 DEF BackgroundInv, isOccupied
  <2> QED BY <2>1, <2>2
<1>2. TypeOK /\ BackgroundInv /\ [Next]_vars => BackgroundInv'
  BY BackgroundStep
<1>3. BackgroundInv => BackgroundIsKept
  <2>1. \A d \in get_dynamic_obstacle_voxels : \E i \in DOMAIN tracks : d \in tracks[i].voxels
    BY DEF get_dynamic_obstacle_voxels
  <2> QED BY <2>1 DEF BackgroundInv, BackgroundIsKept, Over
<1> QED BY <1>1, <1>2, <1>3, TypeCorrect, PTL DEF Spec

-----------------------------------------------------------------------------
(* Promotion.                                                              *)

(* A track holds a cell if it promoted it and can still withdraw it.       *)
Holds(t, v) == t.promoted /\ v \in t.coords /\ \E d \in t.voxels : StaticOf[d] = v

LEMMA PromotionStep ==
    ASSUME TypeOK, PromotionIsReversible, [Next]_vars PROVE PromotionIsReversible'
PROOF
<1>1. /\ tracks \in Seq(Track) /\ \A i \in DOMAIN tracks : tracks[i] \in Track
      /\ static \in [Voxels -> Cell]
  BY DEF TypeOK
<1>2. \A v \in Voxels : isOccupied(v) =>
        v \in background \/ \E i \in DOMAIN tracks : Holds(tracks[i], v)
  BY DEF PromotionIsReversible, Holds
<1>3. SUFFICES ASSUME NEW v \in Voxels, isOccupied(v)', v \notin background'
               PROVE  \E i \in DOMAIN tracks' : Holds(tracks'[i], v)
  BY DEF PromotionIsReversible, Holds
<1>4. ASSUME NEW S \in SUBSET Obstacles \ {{}}, NEW gone \in SUBSET Obstacles,
             insert_cloud(S, gone)
      PROVE  \E i \in DOMAIN tracks' : Holds(tracks'[i], v)
  <2>1. S \in SUBSET Obstacles
    OBVIOUS
  <2>2. /\ static' = resetPoints(static, Withdrawn(gone)) /\ background' = background
        /\ tracks' = Alive(Faded(tracks, gone))
    BY <1>4, <2>1, InsertIs
  <2>3. v \notin Withdrawn(gone) /\ isOccupied(v)
    BY <1>3, <2>2 DEF resetPoints, isOccupied, NewCell
  <2>4. PICK i \in DOMAIN tracks : Holds(tracks[i], v)
    BY <1>2, <1>3, <2>2, <2>3
  <2>5. \A d \in gone \cap tracks[i].voxels : StaticOf[d] # v
    BY <2>3, <2>4, WithdrawnIs DEF Holds
  <2> DEFINE t == Faded(tracks, gone)[i]
  <2>6. /\ t.voxels = tracks[i].voxels \ gone /\ t.promoted = tracks[i].promoted
        /\ t.coords = tracks[i].coords \ {StaticOf[d] : d \in gone \cap tracks[i].voxels}
        /\ Faded(tracks, gone) \in Seq(Track) /\ i \in DOMAIN Faded(tracks, gone)
    BY <1>1, FadedIs
  <2>7. Holds(t, v) /\ t.voxels # {}
    <3> HIDE DEF t
    <3> QED BY <2>4, <2>5, <2>6 DEF Holds
  <2>8. \E j \in DOMAIN tracks' : tracks'[j] = t
    BY <2>2, <2>6, <2>7, AliveTracks
  <2> QED BY <2>7, <2>8
<1>5. CASE match_component
  <2>1. cloud \in Clouds /\ background' = background
    BY <1>5, MatchIs
  <2>2. PICK S \in cloud.todo : MatchesNew(S) \/ \E i \in DOMAIN tracks : MatchesOld(S, i)
    BY <1>5, MatchIs
  <2>3. S \in SUBSET Obstacles
    BY <2>1 DEF Clouds
  <2>4. CASE MatchesNew(S)
    <3>1. tracks' = Append(tracks, NewTrack(S)) /\ static' = static
      BY <2>4 DEF MatchesNew
    <3>2. PICK i \in DOMAIN tracks : Holds(tracks[i], v)
      BY <1>2, <1>3, <2>1, <3>1 DEF isOccupied
    <3>3. i \in DOMAIN tracks' /\ tracks'[i] = tracks[i]
      BY <1>1, <3>1
    <3> QED BY <3>2, <3>3
  <2>5. ASSUME NEW i \in DOMAIN tracks, MatchesOld(S, i)
        PROVE  \E j \in DOMAIN tracks' : Holds(tracks'[j], v)
    <3>1. CASE isOccupied(v)
      <4>1. PICK j \in DOMAIN tracks : Holds(tracks[j], v)
        BY <1>2, <1>3, <2>1, <3>1
      <4>2. j # i
        BY <2>5, <4>1 DEF MatchesOld, Eligible, Holds
      <4> QED BY <2>5, <4>1, <4>2 DEF MatchesOld
    <3>2. CASE ~isOccupied(v)
      <4>1. static' # static
        BY <1>3, <3>2 DEF isOccupied
      <4>2. /\ static' = AfterHits(static, S) /\ tracks'[i].promoted
            /\ tracks'[i].coords = {StaticOf[d] : d \in S} /\ tracks'[i].voxels = S
            /\ i \in DOMAIN tracks'
        BY <2>5, <4>1 DEF MatchesOld
      <4>3. \E d \in S : StaticOf[d] = v
        BY <1>1, <1>3, <2>3, <3>2, <4>2, HitsAre DEF isOccupied
      <4>4. Holds(tracks'[i], v)
        BY <4>2, <4>3 DEF Holds
      <4> QED BY <4>2, <4>4
    <3> QED BY <3>1, <3>2
  <2> QED BY <2>2, <2>4, <2>5
<1>6. CASE end_cloud
  <2>1. tracks' = Unmatched /\ UNCHANGED <<static, background>>
    BY <1>6, Zenon DEF end_cloud, Unmatched
  <2>2. PICK i \in DOMAIN tracks : Holds(tracks[i], v)
    BY <1>2, <1>3, <2>1 DEF isOccupied
  <2>3. i \in DOMAIN tracks' /\ Holds(tracks'[i], v)
    BY <2>1, <2>2, UnmatchedIs DEF Holds
  <2> QED BY <2>3
<1>7. CASE static_voxel_timer_callback
  <2>1. tracks' = Alive(Reconciled) /\ UNCHANGED <<static, background>>
    BY <1>7, Zenon DEF static_voxel_timer_callback, reconcile_dynamic_with_static_map, Reconciled
  <2>2. PICK i \in DOMAIN tracks : Holds(tracks[i], v)
    BY <1>2, <1>3, <2>1 DEF isOccupied
  <2>3. /\ Reconciled \in Seq(Track) /\ i \in DOMAIN Reconciled
        /\ Reconciled[i] = tracks[i] /\ Reconciled[i].voxels # {}
    BY <2>2, ReconciledIs DEF Holds
  <2>4. \E j \in DOMAIN tracks' : tracks'[j] = Reconciled[i]
    BY <2>1, <2>3, AliveTracks
  <2> QED BY <2>2, <2>3, <2>4
<1>8. ASSUME NEW m, Loaded(m) PROVE FALSE
  BY <1>3, <1>8 DEF Loaded, isOccupied
<1>9. CASE load_static_map
  BY <1>8, <1>9, Zenon DEF load_static_map
<1>10. CASE crash
  BY <1>8, <1>10, Zenon DEF crash
<1>11. CASE UNCHANGED <<static, tracks, background>>
  BY <1>2, <1>3, <1>11 DEF isOccupied
<1>12. save_temporary \/ rename_map \/ rename_pcd \/ rename_fails \/ UNCHANGED vars =>
          UNCHANGED <<static, tracks, background>>
  BY Zenon DEF save_temporary, rename_map, rename_pcd, rename_fails, vars
<1> QED BY <1>4, <1>5, <1>6, <1>7, <1>9, <1>10, <1>11, <1>12, Zenon DEF Next

(* PromotionIsReversible: of what promotion added to the static map, every *)
(* occupied cell is of a track that free evidence can still clear.         *)
THEOREM PromotionIsReversibleHolds == Spec => []PromotionIsReversible
PROOF
<1>1. Init => PromotionIsReversible
  <2>1. Init => \E m : Startup(m)
    BY DEF Init
  <2>2. ASSUME NEW m, Startup(m) PROVE PromotionIsReversible
    BY <2>2 DEF Startup, PromotionIsReversible, isOccupied
  <2> QED BY <2>1, <2>2
<1>2. TypeOK /\ PromotionIsReversible /\ [Next]_vars => PromotionIsReversible'
  BY PromotionStep
<1> QED BY <1>1, <1>2, TypeCorrect, PTL DEF Spec

-----------------------------------------------------------------------------
(* The cloud in progress.                                                  *)

(* Where an observed voxel is: in the static map, lost to it or to another *)
(* component, waiting, or in a track this cloud has matched or made.       *)
Tracked(d) ==
    \E i \in DOMAIN tracks :
        /\ ~tracks[i].promoted /\ d \in tracks[i].voxels
        /\ tracks[i].matched \/ tracks[i].voxels \in cloud.parts \ cloud.todo
CloudInv ==
    cloud.busy =>
        /\ cloud.todo \subseteq cloud.parts
        /\ \A T \in cloud.parts \ cloud.todo, S \in cloud.todo : First(T) <= First(S)
        /\ \A d \in cloud.observed :
              \/ isOccupied(StaticOf[d])
              \/ Spent(StaticOf[d])
              \/ Absorbed(d)
              \/ \E S \in cloud.todo : d \in S
              \/ Tracked(d)

LEMMA CloudStep == ASSUME TypeOK, CloudInv, [Next]_vars PROVE CloudInv'
PROOF
<1>1. /\ tracks \in Seq(Track) /\ static \in [Voxels -> Cell]
      /\ \A i \in DOMAIN tracks : tracks[i] \in Track
  BY DEF TypeOK
<1>2. ~none.busy
  BY DEF none
<1>3. ASSUME NEW S \in SUBSET Obstacles \ {{}}, NEW gone \in SUBSET Obstacles,
             insert_cloud(S, gone)
      PROVE  CloudInv'
  <2>1. S \in SUBSET Obstacles
    OBVIOUS
  <2> DEFINE C == Candidates(S, static')
  <2>2. /\ cloud'.observed = S /\ cloud'.parts = cloud'.todo
        /\ cloud'.todo = cluster_dynamic_voxels(C) /\ C \in SUBSET Obstacles
        /\ static' \in [Voxels -> Cell]
    BY <1>3, <2>1, InsertIs
  <2>3. ASSUME NEW d \in S PROVE isOccupied(StaticOf[d])' \/ \E T \in cloud'.todo : d \in T
    <3>1. CASE d \in C
      <4> HIDE DEF C
      <4> QED BY <2>2, <3>1, ClustersAre
    <3>2. CASE d \notin C
      <4>1. static'[StaticOf[d]] \in Cell
        BY <2>1, <2>2, StaticOfIs
      <4>2. ~(static'[StaticOf[d]].log <= 0)
        BY <3>2 DEF Candidates
      <4>3. static'[StaticOf[d]].log > 0
        BY <4>1, <4>2, OccupiedOrNot
      <4> QED BY <4>3 DEF isOccupied
    <3> QED BY <3>1, <3>2
  <2> HIDE DEF C
  <2> QED BY <2>2, <2>3 DEF CloudInv
<1>4. CASE match_component
  <2>1. cloud \in Clouds /\ cloud.busy
    BY <1>4, MatchIs
  <2>2. PICK S \in cloud.todo :
        /\ \A T \in cloud.todo : First(S) <= First(T)
        /\ cloud' = [cloud EXCEPT !.todo = @ \ {S}]
        /\ MatchesNew(S) \/ \E i \in DOMAIN tracks : MatchesOld(S, i)
    BY <1>4, MatchIs
  <2>3. /\ cloud'.todo = cloud.todo \ {S} /\ cloud'.parts = cloud.parts
        /\ cloud'.observed = cloud.observed
    BY <2>1, <2>2 DEF Clouds
  <2>4. /\ S \in SUBSET Obstacles /\ cloud.observed \subseteq Obstacles
        /\ cloud.todo \subseteq cloud.parts /\ S \in cloud.parts
    BY <2>1 DEF Clouds, CloudInv
  <2>5. ASSUME NEW d \in cloud.observed
        PROVE  \/ isOccupied(StaticOf[d])' \/ Spent(StaticOf[d])' \/ Absorbed(d)'
               \/ \E T \in cloud'.todo : d \in T
               \/ Tracked(d)'
    <3>1. StaticOf[d] \in Voxels
      BY <2>4, StaticOfIs
    <3>2. /\ isOccupied(StaticOf[d]) => isOccupied(StaticOf[d])'
          /\ Spent(StaticOf[d]) => Spent(StaticOf[d])'
      <4>1. static' = static \/ static' = AfterHits(static, S)
        BY <2>2 DEF MatchesNew, MatchesOld
      <4> QED BY <1>1, <2>4, <3>1, <4>1, HitsAre DEF isOccupied, Spent
    <3>3. Absorbed(d) => Absorbed(d)'
      BY <2>3 DEF Absorbed
    <3>4. CASE \E T \in cloud.todo : d \in T /\ T # S
      BY <2>3, <3>4
    <3>5. CASE d \in S
      <4>1. CASE MatchesNew(S)
        <5> DEFINE i == Len(tracks) + 1
        <5>1. tracks' = Append(tracks, NewTrack(S))
          BY <4>1 DEF MatchesNew
        <5>2. i \in DOMAIN tracks' /\ tracks'[i] = NewTrack(S)
          BY <1>1, <5>1
        <5>3. ~NewTrack(S).promoted /\ NewTrack(S).voxels = S
          BY DEF NewTrack
        <5>4. S \in cloud'.parts \ cloud'.todo
          BY <2>3, <2>4
        <5> HIDE DEF i
        <5> QED BY <3>5, <5>2, <5>3, <5>4 DEF Tracked
      <4>2. ASSUME NEW i \in DOMAIN tracks, MatchesOld(S, i)
            PROVE  isOccupied(StaticOf[d])' \/ Spent(StaticOf[d])' \/ Tracked(d)'
        <5>1. CASE ~tracks'[i].promoted
          BY <3>5, <4>2, <5>1 DEF MatchesOld, Tracked
        <5>2. CASE tracks'[i].promoted
          <6>1. static' = AfterHits(static, S)
            BY <4>2, <5>2 DEF MatchesOld
          <6>2. static'[StaticOf[d]].id = 1 /\ static'[StaticOf[d]] \in Cell
            BY <1>1, <2>4, <3>1, <3>5, <6>1, HitsAre, CellTypes
          <6>3. static'[StaticOf[d]].log > 0 \/ static'[StaticOf[d]].log <= 0
            BY <6>2, OccupiedOrNot
          <6> QED BY <6>2, <6>3 DEF isOccupied, Spent
        <5> QED BY <5>1, <5>2
      <4> QED BY <2>2, <4>1, <4>2
    <3>6. CASE Tracked(d) /\ d \notin S
      <4>1. PICK i \in DOMAIN tracks :
              /\ ~tracks[i].promoted /\ d \in tracks[i].voxels
              /\ tracks[i].matched \/ tracks[i].voxels \in cloud.parts \ cloud.todo
        BY <3>6 DEF Tracked
      <4>2. CASE i \in DOMAIN tracks' /\ tracks'[i] = tracks[i]
        BY <2>3, <4>1, <4>2 DEF Tracked
      <4>3. CASE ~(i \in DOMAIN tracks' /\ tracks'[i] = tracks[i])
        <5>1. ~MatchesNew(S)
          BY <1>1, <4>3 DEF MatchesNew
        <5>2. MatchesOld(S, i)
          BY <2>2, <4>3, <5>1 DEF MatchesOld
        <5>3. ~tracks[i].matched /\ clusters_spatially_match(S, tracks[i].voxels)
          BY <5>2 DEF MatchesOld, Eligible
        <5>4. tracks[i].voxels \in cloud.parts \ cloud.todo
          BY <4>1, <5>3
        <5>5. S # tracks[i].voxels /\ First(tracks[i].voxels) <= First(S)
          BY <2>1, <5>4 DEF CloudInv
        <5> QED BY <2>3, <2>4, <4>1, <5>3, <5>4, <5>5 DEF Absorbed
      <4> QED BY <4>2, <4>3
    <3> QED BY <2>1, <3>2, <3>3, <3>4, <3>5, <3>6 DEF CloudInv
  <2>6. \A T \in cloud'.parts \ cloud'.todo, U \in cloud'.todo : First(T) <= First(U)
    BY <2>1, <2>2, <2>3 DEF CloudInv
  <2> QED BY <2>3, <2>4, <2>5, <2>6 DEF CloudInv
<1>5. CASE cloud' = none
  BY <1>2, <1>5 DEF CloudInv
<1>6. CASE UNCHANGED <<static, tracks, cloud>>
  BY <1>6 DEF CloudInv, Tracked, Absorbed, Spent, isOccupied
<1>7. end_cloud \/ static_voxel_timer_callback \/ load_static_map \/ crash => cloud' = none
  BY Zenon DEF end_cloud, static_voxel_timer_callback, load_static_map, crash
<1>8. save_temporary \/ rename_map \/ rename_pcd \/ rename_fails \/ UNCHANGED vars =>
        UNCHANGED <<static, tracks, cloud>>
  BY Zenon DEF save_temporary, rename_map, rename_pcd, rename_fails, vars
<1> QED BY <1>3, <1>4, <1>5, <1>6, <1>7, <1>8, Zenon DEF Next

(* ObservedIsShown: when a cloud has been handled, an observed voxel is in *)
(* the static map or in an unpromoted track, unless its static cell's hit  *)
(* is spent or another component took over its track.                      *)
THEOREM ObservedIsShownHolds == Spec => []ObservedIsShown
PROOF
<1>1. Init => CloudInv
  BY DEF Init, CloudInv, none
<1>2. TypeOK /\ CloudInv /\ [Next]_vars => CloudInv'
  BY CloudStep
<1>3. CloudInv => ObservedIsShown
  <2>1. \A d : Tracked(d) => d \in get_dynamic_obstacle_voxels
    BY DEF Tracked, get_dynamic_obstacle_voxels
  <2> QED BY <2>1 DEF CloudInv, ObservedIsShown
<1> QED BY <1>1, <1>2, <1>3, TypeCorrect, PTL DEF Spec

=============================================================================
