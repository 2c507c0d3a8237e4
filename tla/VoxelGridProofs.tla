---------------------------- MODULE VoxelGridProofs ----------------------------
(***************************************************************************)
(* What VoxelGrid promises of the tree, its accessors and its files, for   *)
(* any words, any sides whose cells fill them, any finite set of voxels    *)
(* and any values.                                                         *)
(*                                                                         *)
(* The inductive invariant is that the grid Stores the last value of each  *)
(* voxel and nothing else, and that what an accessor Remembers is there.   *)
(* Under it lie four closed forms: a voxel and its keys determine each     *)
(* other (KeysAre, OneVoxel), an iterator over a mask enumerates its bits  *)
(* (beginOnIs), an accessor finds or makes the leaf of its voxel           *)
(* (cached_leafIs), and a grid that was written is read (DeserializeIs).   *)
(* Recursive functions are shown to exist (Iterates, Walks, SumExists)     *)
(* before anything is said of their values.                                *)
(***************************************************************************)
EXTENDS VoxelGrid, FiniteSetTheorems, SequenceTheorems, WellFoundedInduction, TLAPS

-----------------------------------------------------------------------------
(* Largest and smallest elements, and recursive functions.                 *)

(* A finite set of integers has a largest element: a smallest subset       *)
(* without one would have one, that of the subset without any one element  *)
(* or that element.                                                        *)
LEMMA LargestExists ==
    ASSUME NEW S, IsFiniteSet(S), S \subseteq Int, S # {}
    PROVE  \E x \in S : \A y \in S : x >= y
PROOF
<1> DEFINE Bad == {T \in SUBSET S : T # {} /\ \A x \in T : \E y \in T : ~ (x >= y)}
<1>1. SUFFICES ASSUME Bad # {} PROVE FALSE
  BY <1>1
<1>2. PICK T \in Bad : \A U \in Bad : ~ (<<U, T>> \in StrictSubsetOrdering(S))
  <2>1. Bad \subseteq FiniteSubsetsOf(S)
    BY FS_Subset DEF FiniteSubsetsOf
  <2> QED BY <2>1, <1>1, WFMin, FS_StrictSubsetOrderingWellFounded
<1>3. PICK x \in T : TRUE
  BY <1>2
<1> DEFINE U == T \ {x}
<1>4. U # {}
  BY <1>2, <1>3
<1>5. <<U, T>> \in StrictSubsetOrdering(S)
  BY <1>2, <1>3 DEF StrictSubsetOrdering
<1>6. U \notin Bad
  BY <1>2, <1>5
<1>7. PICK m \in U : \A y \in U : m >= y
  BY <1>2, <1>4, <1>6
<1>8. PICK z \in T : ~ (m >= z)
  BY <1>2, <1>7
<1>9. z = x
  BY <1>7, <1>8
<1>10. \A y \in T : x >= y
  BY <1>2, <1>7, <1>8, <1>9
<1> QED BY <1>2, <1>3, <1>10

LEMMA SmallestExists ==
    ASSUME NEW S, IsFiniteSet(S), S \subseteq Int, S # {}
    PROVE  \E x \in S : \A y \in S : x <= y
PROOF
<1> DEFINE N == {-x : x \in S}
<1>1. IsFiniteSet(N)
  <2> DEFINE f == [x \in S |-> -x]
  <2>1. f \in Surjection(S, N)
    BY DEF Surjection
  <2> QED BY <2>1, FS_Surjection
<1>2. N \subseteq Int /\ N # {}
  OBVIOUS
<1>3. PICK m \in N : \A y \in N : m >= y
  BY <1>1, <1>2, LargestExists
<1>4. PICK x \in S : m = -x
  BY <1>3
<1>5. \A y \in S : x <= y
  BY <1>3, <1>4
<1> QED BY <1>5

(* A wrong index has a first.                                              *)
LEMMA LeastIndex ==
    ASSUME NEW n \in Int, NEW B \in SUBSET (0 .. n), B # {}
    PROVE  \E i \in B : i - 1 \notin B
PROOF
<1>1. IsFiniteSet(B)
  <2>1. IsFiniteSet(0 .. n)
    BY FS_Interval
  <2> QED BY <2>1, FS_Subset
<1>2. PICK i \in B : \A j \in B : i <= j
  <2>1. B \subseteq Int
    OBVIOUS
  <2> QED BY <1>1, <2>1, SmallestExists
<1>3. i \in Int /\ ~(i <= i - 1)
  OBVIOUS
<1> QED BY <1>2, <1>3

(* A recursive function exists if each step stays in its range: no length  *)
(* is the first for which it does not.                                     *)
Iteration(g, n, c, F) == \A i \in 0 .. n : g[i] = IF i = 0 THEN c ELSE F[i][g[i - 1]]

LEMMA Iterates ==
    ASSUME NEW n \in Int, NEW S, NEW c \in S, NEW F \in [0 .. n -> [S -> S]]
    PROVE  \E g \in [0 .. n -> S] : Iteration(g, n, c, F)
PROOF
<1> DEFINE Step(g, i) == IF i = 0 THEN c ELSE F[i][g[i - 1]]
           Good(m) == \E g \in [0 .. m -> S] : \A i \in 0 .. m : g[i] = Step(g, i)
           B == {m \in 0 .. n : ~Good(m)}
<1>1. CASE n < 0
  <2>1. 0 .. n = {}
    BY <1>1
  <2>2. [i \in 0 .. n |-> c] \in [0 .. n -> S]
    OBVIOUS
  <2> QED BY <2>1, <2>2 DEF Iteration
<1>2. CASE n >= 0
  <2>1. SUFFICES ASSUME B # {} PROVE FALSE
    <3>1. n \in 0 .. n
      BY <1>2
    <3>2. B = {} => Good(n)
      BY <3>1
    <3> QED BY <3>2 DEF Iteration
  <2>2. PICK m \in 0 .. n : ~Good(m) /\ (m # 0 => Good(m - 1))
    <3>1. B \subseteq 0 .. n
      OBVIOUS
    <3>2. PICK m \in B : m - 1 \notin B
      <4> HIDE DEF B
      <4> QED BY <2>1, <3>1, LeastIndex
    <3>3. m # 0 => m - 1 \in 0 .. n
      BY <3>1, <3>2
    <3> QED BY <3>2, <3>3
  <2>3. CASE m = 0
    <3> DEFINE g == [i \in 0 .. 0 |-> c]
    <3>1. g \in [0 .. 0 -> S] /\ \A i \in 0 .. 0 : g[i] = Step(g, i)
      OBVIOUS
    <3> QED BY <2>2, <2>3, <3>1
  <2>4. CASE m # 0
    <3>1. PICK g \in [0 .. m - 1 -> S] : \A i \in 0 .. m - 1 : g[i] = Step(g, i)
      BY <2>2, <2>4
    <3> DEFINE h == [i \in 0 .. m |-> IF i = m THEN F[m][g[m - 1]] ELSE g[i]]
    <3>2. m - 1 \in 0 .. m - 1 /\ \A i \in 0 .. m : i # m => i \in 0 .. m - 1
      BY <2>4
    <3>3. h \in [0 .. m -> S]
      BY <3>2
    <3>4. ASSUME NEW i \in 0 .. m PROVE h[i] = Step(h, i)
      <4>1. CASE i = m
        <5>1. h[m - 1] = g[m - 1]
          BY <3>2
        <5> QED BY <2>4, <4>1, <5>1
      <4>2. CASE i # m
        <5>1. h[i] = g[i] /\ i \in 0 .. m - 1
          BY <3>2, <4>2
        <5>2. i # 0 => i - 1 \in 0 .. m - 1 /\ h[i - 1] = g[i - 1]
          BY <5>1
        <5> QED BY <3>1, <5>1, <5>2
      <4> QED BY <4>1, <4>2
    <3>5. Good(m)
      BY <3>3, <3>4
    <3> QED BY <2>2, <3>5
  <2> QED BY <2>3, <2>4
<1> QED BY <1>1, <1>2

-----------------------------------------------------------------------------
(* Coordinates.                                                            *)

(* A quotient and a rest belong to one number.                             *)
LEMMA Unique ==
    ASSUME NEW m \in Nat \ {0}, NEW a \in Int, NEW b \in Int,
           NEW t \in 0 .. m - 1, NEW u \in 0 .. m - 1, a * m + t = b * m + u
    PROVE  a = b /\ t = u
PROOF
<1>1. CASE a > b
  <2>1. (a - b) * m >= m
    BY <1>1
  <2> QED BY <2>1
<1>2. CASE a < b
  <2>1. (b - a) * m >= m
    BY <1>2
  <2> QED BY <2>1
<1> QED BY <1>1, <1>2

LEMMA DivMod ==
    ASSUME NEW m \in Nat \ {0}, NEW x \in Int
    PROVE  x \div m \in Int /\ x % m \in 0 .. m - 1 /\ x = (x \div m) * m + (x % m)
  OBVIOUS

LEMMA DivModIs ==
    ASSUME NEW m \in Nat \ {0}, NEW q \in Int, NEW r \in 0 .. m - 1, NEW x, x = q * m + r
    PROVE  x \div m = q /\ x % m = r
PROOF
<1>1. x \in Int
  OBVIOUS
<1>2. x \div m \in Int /\ x % m \in 0 .. m - 1 /\ x = (x \div m) * m + (x % m)
  BY <1>1, DivMod
<1> DEFINE p == x \div m
           s == x % m
<1> HIDE DEF p, s
<1>3. p \in Int /\ s \in 0 .. m - 1 /\ p * m + s = q * m + r
  BY <1>2 DEF p, s
<1>4. p = q /\ s = r
  BY <1>3, Unique
<1> QED BY <1>4 DEF p, s

(* The rest by a product of two sides, digit by digit.                     *)
LEMMA Digits ==
    ASSUME NEW m \in Nat \ {0}, NEW n \in Nat \ {0}, NEW x \in Int
    PROVE  x % (n * m) = ((x \div m) % n) * m + (x % m)
PROOF
<1> DEFINE q == x \div m
           r == x % m
           p == q \div n
           s == q % n
           k == n * m
<1>1. q \in Int /\ r \in 0 .. m - 1 /\ x = q * m + r
  BY DivMod
<1>2. p \in Int /\ s \in 0 .. n - 1 /\ q = p * n + s
  BY <1>1, DivMod
<1>3. k \in Nat \ {0}
  OBVIOUS
<1> HIDE DEF q, r, p, s
<1>4. s * m + r \in 0 .. k - 1
  <2>1. s * m <= (n - 1) * m /\ s * m >= 0
    BY <1>2
  <2> QED BY <2>1, <1>1, <1>2
<1>5. x = p * k + (s * m + r)
  <2>1. q * m = (p * n) * m + s * m
    BY <1>2
  <2>2. (p * n) * m = p * k
    BY <1>2
  <2> QED BY <2>1, <2>2, <1>1, <1>2
<1> DEFINE d == s * m + r
<1>6. x % k = d
  <2>1. d \in 0 .. k - 1 /\ x = p * k + d /\ p \in Int
    BY <1>2, <1>4, <1>5
  <2> HIDE DEF k, d
  <2> QED BY <1>3, <2>1, DivModIs
<1> QED BY <1>6 DEF q, r, p, s

LEMMA Sides ==
    /\ InnerSide \in Nat \ {0} /\ LeafSide \in Nat \ {0}
    /\ InnerSize \in Nat \ {0} /\ LeafSize \in Nat \ {0}
PROOF
<1>1. InnerSide \in Nat \ {0} /\ LeafSide \in Nat \ {0}
  BY SidesAssumption
<1>2. \A s \in Nat \ {0} : s * s * s \in Nat \ {0}
  <2>1. ASSUME NEW s \in Nat \ {0} PROVE s * s * s \in Nat \ {0}
    <3>1. s * s \in Nat \ {0}
      OBVIOUS
    <3> DEFINE q == s * s
    <3> HIDE DEF q
    <3>2. q * s \in Nat \ {0}
      BY <3>1 DEF q
    <3> QED BY <3>2 DEF q
  <2> QED BY <2>1
<1> QED BY <1>1, <1>2 DEF InnerSize, LeafSize, MaskSize

(* A coordinate is its root's, its leaf's in the root, its own in the leaf. *)
LEMMA FloorIs ==
    ASSUME NEW x \in Int
    PROVE  /\ (x \div LeafSide) % InnerSide \in 0 .. InnerSide - 1
           /\ x % LeafSide \in 0 .. LeafSide - 1
           /\ Floor(x, InnerSide * LeafSide) \in Int
           /\ Floor(x, InnerSide * LeafSide) =
                Floor(x, LeafSide) - ((x \div LeafSide) % InnerSide) * LeafSide
           /\ Floor(x, LeafSide) = (x \div LeafSide) * LeafSide
PROOF
<1>1. InnerSide \in Nat \ {0} /\ LeafSide \in Nat \ {0}
  BY Sides
<1> DEFINE q == x \div LeafSide
           r == x % LeafSide
           s == q % InnerSide
           t == x % (InnerSide * LeafSide)
<1>2. q \in Int /\ r \in 0 .. LeafSide - 1 /\ x = q * LeafSide + r
  BY <1>1, DivMod
<1>3. s \in 0 .. InnerSide - 1
  BY <1>1, <1>2, DivMod
<1>4. t = s * LeafSide + r
  BY <1>1, Digits
<1> HIDE DEF q, r, s, t
<1> DEFINE sl == s * LeafSide
           ql == q * LeafSide
<1>5. sl \in Int /\ ql \in Int /\ t = sl + r /\ x = ql + r
  BY <1>1, <1>2, <1>3, <1>4
<1> HIDE DEF sl, ql
<1>6. x - t \in Int /\ x - t = (x - r) - sl /\ x - r = ql
  BY <1>2, <1>5
<1> QED BY <1>2, <1>3, <1>6 DEF q, r, s, t, sl, ql, Floor

(* Three digits packed into an index are in its range and found again.     *)
LEMMA PackedIs ==
    ASSUME NEW s \in Nat \ {0}, NEW v \in [Axes -> 0 .. s - 1]
    PROVE  /\ Packed(v, s) \in 0 .. MaskSize(s) - 1
           /\ \A k \in Axes : Unpacked(Packed(v, s), s)[k] = v[k]
PROOF
<1> DEFINE a == v[1]
           b == v[2]
           c == v[3]
           n == a + b * s + c * (s * s)
           w == s * s
<1>1. a \in 0 .. s - 1 /\ b \in 0 .. s - 1 /\ c \in 0 .. s - 1
  BY DEF Axes
<1>2. Packed(v, s) = n
  BY DEF Packed
<1> HIDE DEF a, b, c
<1>3. w \in Nat \ {0}
  OBVIOUS
<1>4. b * s \in Nat /\ b * s <= (s - 1) * s /\ c * s \in Nat /\ c * s <= (s - 1) * s
  BY <1>1
<1>5. (s - 1) * s = w - s
  OBVIOUS
<1>6. c * w \in Nat /\ c * w <= (s - 1) * w
  BY <1>1, <1>3
<1>7. (s - 1) * w = w * s - w
  BY <1>3
<1>8. MaskSize(s) = w * s
  BY DEF MaskSize
<1>9. n \in 0 .. MaskSize(s) - 1
  <2> DEFINE bs == b * s
             cw == c * w
             ws == w * s
  <2>1. n = a + bs + cw /\ bs \in Nat /\ bs <= w - s /\ cw \in Nat /\ cw <= ws - w /\ ws \in Int
    BY <1>1, <1>3, <1>4, <1>5, <1>6, <1>7
  <2> HIDE DEF bs, cw, ws, n, w
  <2>2. n \in Nat /\ n < ws
    BY <2>1, <1>1, <1>3
  <2> QED BY <1>8, <2>1, <2>2 DEF ws
<1>10. n % s = a
  <2> DEFINE q == b + c * s
  <2>1. q \in Int /\ n = q * s + a
    <3>1. q * s = b * s + (c * s) * s
      BY <1>1, <1>4
    <3>2. (c * s) * s = c * (s * s)
      BY <1>1
    <3> QED BY <1>1, <1>4, <3>1, <3>2
  <2> HIDE DEF q, n
  <2> QED BY <1>1, <2>1, DivModIs
<1>11. n \div s = b + c * s
  <2> DEFINE q == b + c * s
  <2>1. q \in Int /\ n = q * s + a
    <3>1. q * s = b * s + (c * s) * s
      BY <1>1, <1>4
    <3>2. (c * s) * s = c * (s * s)
      BY <1>1
    <3> QED BY <1>1, <1>4, <3>1, <3>2
  <2>2. n \div s = q
    <3> HIDE DEF q, n
    <3> QED BY <1>1, <2>1, DivModIs
  <2> QED BY <2>2
<1>12. (b + c * s) % s = b
  <2> DEFINE y == b + c * s
  <2>1. y = c * s + b
    BY <1>1, <1>4
  <2>2. c \in Int
    BY <1>1
  <2> HIDE DEF y
  <2>3. y % s = b
    BY <1>1, <2>1, <2>2, DivModIs
  <2> QED BY <2>3 DEF y
<1>13. n \div w = c
  <2> DEFINE r == a + b * s
  <2>1. r \in 0 .. w - 1
    <3> DEFINE bs == b * s
    <3>1. bs \in Nat /\ bs <= w - s
      BY <1>4, <1>5
    <3> HIDE DEF bs, w
    <3>2. a + bs \in 0 .. w - 1
      BY <1>1, <1>3, <3>1
    <3> QED BY <3>2 DEF bs
  <2>2. n = c * w + r /\ c \in Int
    <3> DEFINE bs == b * s
               cw == c * w
    <3>1. bs \in Nat /\ cw \in Nat /\ a \in Int /\ c \in Int
      BY <1>1, <1>4, <1>6
    <3>2. n = a + bs + cw
      OBVIOUS
    <3> HIDE DEF bs, cw, n
    <3>3. n = cw + (a + bs)
      BY <3>1, <3>2
    <3> QED BY <3>1, <3>3 DEF bs, cw
  <2> HIDE DEF r, n, w
  <2> QED BY <1>3, <2>1, <2>2, DivModIs
<1>14. c % s = c
  <2>1. c = 0 * s + c /\ 0 \in Int
    BY <1>1
  <2> QED BY <1>1, <2>1, DivModIs
<1>15. Unpacked(n, s) = <<a, b, c>>
  <2>1. Unpacked(n, s) = <<n % s, (n \div s) % s, (n \div w) % s>>
    BY DEF Unpacked
  <2> HIDE DEF n, w
  <2> QED BY <2>1, <1>10, <1>11, <1>12, <1>13, <1>14
<1> HIDE DEF n
<1> QED BY <1>2, <1>9, <1>15 DEF a, b, c, Axes

(* Where a voxel is kept, and that it is only there.                       *)
Place(c) == <<getRootKey(c), getInnerIndex(c)>>

LEMMA KeysAre ==
    ASSUME NEW c \in Point
    PROVE  /\ getRootKey(c) \in Point /\ getInnerKey(c) \in Point
           /\ getInnerIndex(c) \in 0 .. InnerSize - 1
           /\ getLeafIndex(c) \in 0 .. LeafSize - 1
           /\ CoordOf(getRootKey(c), getInnerIndex(c), getLeafIndex(c)) = c
PROOF
<1> DEFINE i == [k \in Axes |-> (c[k] \div LeafSide) % InnerSide]
           n == [k \in Axes |-> c[k] % LeafSide]
<1>1. \A k \in Axes : c[k] \in Int
  BY DEF Point
<1>2. i \in [Axes -> 0 .. InnerSide - 1] /\ n \in [Axes -> 0 .. LeafSide - 1]
  BY <1>1, FloorIs
<1>3. /\ Packed(i, InnerSide) \in 0 .. InnerSize - 1 /\ Packed(n, LeafSide) \in 0 .. LeafSize - 1
      /\ \A k \in Axes : Unpacked(Packed(i, InnerSide), InnerSide)[k] = i[k]
      /\ \A k \in Axes : Unpacked(Packed(n, LeafSide), LeafSide)[k] = n[k]
  <2> HIDE DEF i, n
  <2> QED BY <1>2, Sides, PackedIs DEF InnerSize, LeafSize
<1>4. getInnerIndex(c) = Packed(i, InnerSide) /\ getLeafIndex(c) = Packed(n, LeafSide)
  BY DEF getInnerIndex, getLeafIndex
<1>5. ASSUME NEW k \in Axes
      PROVE  /\ getRootKey(c)[k] \in Int /\ getInnerKey(c)[k] \in Int
             /\ getRootKey(c)[k] + i[k] * LeafSide + n[k] = c[k]
  <2> DEFINE x == c[k]
             q == (x \div LeafSide) * LeafSide
             r == x % LeafSide
             s == ((x \div LeafSide) % InnerSide) * LeafSide
  <2>1. x \in Int /\ x = q + r /\ q \in Int /\ r \in Int
    BY <1>1, Sides, DivMod
  <2>2. Floor(x, InnerSide * LeafSide) = q - s /\ Floor(x, LeafSide) = q
    BY <2>1, FloorIs
  <2>3. s \in Int
    <3>1. (x \div LeafSide) % InnerSide \in Int /\ LeafSide \in Int
      BY <2>1, FloorIs, Sides
    <3> QED BY <3>1
  <2>4. getRootKey(c)[k] = Floor(x, InnerSide * LeafSide) /\ getInnerKey(c)[k] = Floor(x, LeafSide)
    BY DEF getRootKey, getInnerKey
  <2>5. i[k] * LeafSide = s /\ n[k] = r
    OBVIOUS
  <2> HIDE DEF x, q, r, s, i, n
  <2>6. getRootKey(c)[k] + i[k] * LeafSide + n[k] = x
    BY <2>1, <2>2, <2>3, <2>4, <2>5
  <2> QED BY <2>1, <2>2, <2>3, <2>4, <2>6 DEF x
<1>6. getRootKey(c) \in Point /\ getInnerKey(c) \in Point
  BY <1>5 DEF getRootKey, getInnerKey, Point
<1> HIDE DEF i, n
<1>7. CoordOf(getRootKey(c), getInnerIndex(c), getLeafIndex(c)) =
        [k \in Axes |-> getRootKey(c)[k] + i[k] * LeafSide + n[k]]
  BY <1>3, <1>4 DEF CoordOf
<1>8. c = [k \in Axes |-> c[k]]
  BY DEF Point
<1> QED BY <1>3, <1>4, <1>5, <1>6, <1>7, <1>8

(* Voxels with one inner key are in one leaf.                              *)
LEMMA OneLeaf ==
    ASSUME NEW c \in Point, NEW d \in Point, getInnerKey(c) = getInnerKey(d)
    PROVE  Place(c) = Place(d)
PROOF
<1>1. ASSUME NEW k \in Axes
      PROVE  /\ getRootKey(c)[k] = getRootKey(d)[k]
             /\ (c[k] \div LeafSide) % InnerSide = (d[k] \div LeafSide) % InnerSide
  <2> DEFINE x == c[k]
             y == d[k]
             p == x \div LeafSide
             q == y \div LeafSide
  <2>1. x \in Int /\ y \in Int
    BY DEF Point
  <2>2. getInnerKey(c)[k] = Floor(x, LeafSide) /\ getInnerKey(d)[k] = Floor(y, LeafSide)
    BY DEF getInnerKey
  <2>3. Floor(x, LeafSide) = Floor(y, LeafSide)
    BY <2>2
  <2>4. p * LeafSide + 0 = q * LeafSide + 0 /\ p \in Int /\ q \in Int /\ 0 \in 0 .. LeafSide - 1
    <3>1. p \in Int /\ q \in Int
      BY <2>1, Sides, DivMod
    <3>2. p * LeafSide = q * LeafSide
      BY <2>1, <2>3, FloorIs
    <3>3. p * LeafSide \in Int /\ 0 \in 0 .. LeafSide - 1
      BY <3>1, Sides
    <3> DEFINE a == p * LeafSide
               b == q * LeafSide
    <3>4. a + 0 = b + 0
      BY <3>2
    <3> QED BY <3>1, <3>3, <3>4
  <2>5. p = q
    <3> HIDE DEF p, q
    <3> QED BY <2>4, Sides, Unique
  <2>6. Floor(x, InnerSide * LeafSide) = Floor(y, InnerSide * LeafSide)
    BY <2>1, <2>3, <2>5, FloorIs
  <2> QED BY <2>5, <2>6 DEF getRootKey
<1>2. getRootKey(c) = getRootKey(d)
  BY <1>1 DEF getRootKey
<1>3. [k \in Axes |-> (c[k] \div LeafSide) % InnerSide] = [k \in Axes |-> (d[k] \div LeafSide) % InnerSide]
  BY <1>1
<1>4. getInnerIndex(c) = getInnerIndex(d)
  BY <1>3 DEF getInnerIndex
<1> QED BY <1>2, <1>4 DEF Place

-----------------------------------------------------------------------------
(* Masks.                                                                  *)

(* The masks of a grid of so many cells: no bit beyond the last is on.     *)
Fits(size) == size \in Nat \ {0} /\ (size < WordBits \/ size % WordBits = 0)
Mask(size) ==
    {m \in [0 .. WordCount(size) - 1 -> SUBSET (0 .. WordBits - 1)] :
        \A w \in DOMAIN m : \A b \in m[w] : w * WordBits + b < size}

LEMMA SizesFit == Fits(InnerSize) /\ Fits(LeafSize)
  BY Sides, SidesAssumption DEF Fits, InnerSize, LeafSize

LEMMA WordsAre ==
    ASSUME NEW size, Fits(size)
    PROVE  /\ WordCount(size) \in Nat \ {0} /\ WordBits \in Nat \ {0}
           /\ \A n \in 0 .. size - 1 :
                /\ n \div WordBits \in 0 .. WordCount(size) - 1
                /\ n % WordBits \in 0 .. WordBits - 1
                /\ n = (n \div WordBits) * WordBits + (n % WordBits)
           /\ size \div WordBits < WordCount(size) => size < WordBits
PROOF
<1> DEFINE W == WordBits
           c == size \div W
<1>1. W \in Nat \ {0} /\ size \in Nat \ {0}
  BY WordAssumption DEF Fits
<1>2. c \in Int /\ size % W \in 0 .. W - 1 /\ size = c * W + (size % W)
  BY <1>1, DivMod
<1>3. ASSUME NEW n \in 0 .. size - 1
      PROVE  n \div W \in Int /\ n % W \in 0 .. W - 1 /\ n = (n \div W) * W + (n % W) /\ n \div W >= 0
  <2>1. n \div W \in Int /\ n % W \in 0 .. W - 1 /\ n = (n \div W) * W + (n % W)
    BY <1>1, DivMod
  <2> DEFINE q == n \div W
             r == n % W
  <2> HIDE DEF q, r
  <2>2. q \in Int /\ r \in 0 .. W - 1 /\ n = q * W + r
    BY <2>1 DEF q, r
  <2>3. ASSUME q < 0 PROVE FALSE
    <3>1. (-q) * W >= W
      BY <1>1, <2>2, <2>3
    <3> QED BY <1>1, <2>2, <3>1
  <2> QED BY <2>1, <2>2, <2>3 DEF q
<1>4. CASE size < W
  <2>1. WordCount(size) = 1
    BY <1>1, <1>4 DEF WordCount
  <2>2. ASSUME NEW n \in 0 .. size - 1 PROVE n \div W = 0
    <3>1. n = 0 * W + n /\ n \in 0 .. W - 1
      BY <1>1, <1>4
    <3> QED BY <1>1, <3>1, DivModIs
  <2> QED BY <1>1, <1>3, <1>4, <2>1, <2>2
<1>5. CASE ~(size < W)
  <2>1. size % W = 0 /\ WordCount(size) = c
    BY <1>1, <1>5 DEF Fits, WordCount
  <2>2. size = c * W
    <3> DEFINE p == c * W
               r == size % W
    <3>1. p \in Int /\ r = 0 /\ size = p + r
      BY <1>1, <1>2, <2>1
    <3> HIDE DEF p, r
    <3>2. size = p
      BY <3>1
    <3> QED BY <3>2 DEF p
  <2>3. c \in Nat \ {0}
    <3> HIDE DEF c
    <3>1. ASSUME c < 0 PROVE FALSE
      <4>1. (-c) * W >= W
        BY <1>1, <1>2, <3>1
      <4> QED BY <1>1, <1>2, <2>2, <4>1
    <3> QED BY <1>1, <1>2, <2>2, <3>1
  <2>4. ASSUME NEW n \in 0 .. size - 1 PROVE n \div W < c
    <3> DEFINE q == n \div W
               r == n % W
    <3>1. q \in Int /\ r \in 0 .. W - 1 /\ n = q * W + r
      BY <1>3
    <3> HIDE DEF q, r, c
    <3>2. ASSUME q >= c PROVE FALSE
      <4>1. (q - c) * W >= 0
        BY <1>1, <2>3, <3>1, <3>2
      <4> QED BY <1>1, <2>2, <2>3, <3>1, <4>1
    <3> QED BY <2>3, <3>1, <3>2 DEF q
  <2> QED BY <1>1, <1>3, <2>1, <2>3, <2>4
<1> QED BY <1>4, <1>5

LEMMA LeastIs ==
    ASSUME NEW n \in Int, NEW S \in SUBSET (0 .. n), S # {}
    PROVE  Least(S) \in S /\ \A k \in S : Least(S) <= k
PROOF
<1>1. IsFiniteSet(S)
  <2>1. IsFiniteSet(0 .. n)
    BY FS_Interval
  <2> QED BY <2>1, FS_Subset
<1>2. S \subseteq Int
  OBVIOUS
<1>3. \E m \in S : \A k \in S : m <= k
  BY <1>1, <1>2, SmallestExists
<1> QED BY <1>3 DEF Least

(* A bit by its word and its place there.                                  *)
LEMMA BitIs ==
    ASSUME NEW w \in Int, NEW b \in 0 .. WordBits - 1
    PROVE  (w * WordBits + b) \div WordBits = w /\ (w * WordBits + b) % WordBits = b
  BY WordAssumption, DivModIs

LEMMA MaskOps ==
    ASSUME NEW size, Fits(size), NEW m \in Mask(size), NEW n \in 0 .. size - 1
    PROVE  /\ setOn(m, n) \in Mask(size) /\ setOff(m, n) \in Mask(size)
           /\ \A k \in 0 .. size - 1 :
                /\ maskIsOn(setOn(m, n), k) <=> k = n \/ maskIsOn(m, k)
                /\ maskIsOn(setOff(m, n), k) <=> k # n /\ maskIsOn(m, k)
PROOF
<1> DEFINE w == n \div WordBits
           b == n % WordBits
<1>1. /\ w \in 0 .. WordCount(size) - 1 /\ b \in 0 .. WordBits - 1 /\ n = w * WordBits + b
      /\ size \in Nat
  BY WordsAre DEF Fits
<1>2. /\ m \in [0 .. WordCount(size) - 1 -> SUBSET (0 .. WordBits - 1)]
      /\ \A v \in DOMAIN m : \A a \in m[v] : v * WordBits + a < size
  BY DEF Mask
<1>3. setOn(m, n) = [m EXCEPT ![w] = @ \cup {b}] /\ setOff(m, n) = [m EXCEPT ![w] = @ \ {b}]
  BY DEF setOn, setOff
<1> DEFINE V == 0 .. WordCount(size) - 1
           Bit == 0 .. WordBits - 1
<1>7. m \in [V -> SUBSET Bit] /\ w \in V /\ b \in Bit
  BY <1>1, <1>2
<1> HIDE DEF w, b, V, Bit
<1>8. /\ setOn(m, n) \in [V -> SUBSET Bit] /\ setOff(m, n) \in [V -> SUBSET Bit]
      /\ \A v \in V : /\ setOn(m, n)[v] = IF v = w THEN m[v] \cup {b} ELSE m[v]
                     /\ setOff(m, n)[v] = IF v = w THEN m[v] \ {b} ELSE m[v]
  BY <1>3, <1>7
<1> USE DEF V, Bit
<1>4. setOn(m, n) \in Mask(size)
  <2>1. setOn(m, n) \in [0 .. WordCount(size) - 1 -> SUBSET (0 .. WordBits - 1)]
    BY <1>8
  <2>2. ASSUME NEW v \in 0 .. WordCount(size) - 1, NEW a \in setOn(m, n)[v]
        PROVE  v * WordBits + a < size
    <3>1. a \in m[v] \/ (v = w /\ a = b)
      BY <1>8
    <3>2. w * WordBits + b < size
      BY <1>1
    <3> QED BY <1>2, <3>1, <3>2
  <2> QED BY <2>1, <2>2 DEF Mask
<1>5. setOff(m, n) \in Mask(size)
  <2>1. setOff(m, n) \in [0 .. WordCount(size) - 1 -> SUBSET (0 .. WordBits - 1)]
    BY <1>8
  <2>2. \A v \in 0 .. WordCount(size) - 1 : setOff(m, n)[v] \subseteq m[v]
    BY <1>8
  <2> QED BY <1>2, <2>1, <2>2 DEF Mask
<1>6. ASSUME NEW k \in 0 .. size - 1
      PROVE  /\ maskIsOn(setOn(m, n), k) <=> k = n \/ maskIsOn(m, k)
             /\ maskIsOn(setOff(m, n), k) <=> k # n /\ maskIsOn(m, k)
  <2> DEFINE v == k \div WordBits
             a == k % WordBits
  <2>1. v \in 0 .. WordCount(size) - 1 /\ a \in 0 .. WordBits - 1 /\ k = v * WordBits + a
    BY WordsAre
  <2>2. (v = w /\ a = b) <=> k = n
    BY <1>1, <2>1 DEF w, b
  <2>3. \A x : maskIsOn(x, k) <=> a \in x[v]
    BY DEF maskIsOn
  <2> HIDE DEF v, a
  <2>4. /\ a \in setOn(m, n)[v] <=> a \in m[v] \/ (v = w /\ a = b)
        /\ a \in setOff(m, n)[v] <=> a \in m[v] /\ ~(v = w /\ a = b)
    BY <1>8, <2>1
  <2> QED BY <2>2, <2>3, <2>4
<1> QED BY <1>4, <1>5, <1>6

LEMMA MaskEmpty ==
    ASSUME NEW size, Fits(size)
    PROVE  /\ NewMask(size) \in Mask(size)
           /\ \A k \in 0 .. size - 1 : ~maskIsOn(NewMask(size), k)
           /\ \A m \in Mask(size) : maskIsOff(m) <=> \A k \in 0 .. size - 1 : ~maskIsOn(m, k)
PROOF
<1>1. NewMask(size) \in Mask(size)
  BY DEF NewMask, Mask
<1>2. ASSUME NEW m \in Mask(size), NEW k \in 0 .. size - 1, maskIsOff(m) PROVE ~maskIsOn(m, k)
  <2>1. k \div WordBits \in DOMAIN m
    BY WordsAre DEF Mask
  <2> QED BY <1>2, <2>1 DEF maskIsOff, maskIsOn
<1>3. maskIsOff(NewMask(size))
  BY DEF maskIsOff, NewMask
<1>4. ASSUME NEW m \in Mask(size), \A k \in 0 .. size - 1 : ~maskIsOn(m, k), NEW w \in DOMAIN m, NEW b \in m[w]
      PROVE  FALSE
  <2>1. w \in 0 .. WordCount(size) - 1 /\ b \in 0 .. WordBits - 1 /\ w * WordBits + b < size
        /\ size \in Nat
    BY DEF Mask, Fits
  <2>2. w * WordBits + b \in 0 .. size - 1
    <3> DEFINE p == w * WordBits
    <3>1. p \in Nat
      <4>1. WordBits \in Nat /\ WordCount(size) \in Nat
        BY WordsAre
      <4> QED BY <2>1, <4>1
    <3> HIDE DEF p
    <3>2. p + b < size
      BY <2>1 DEF p
    <3>3. p + b \in 0 .. size - 1
      BY <2>1, <3>1, <3>2, WordsAre
    <3> QED BY <3>3 DEF p
  <2>3. maskIsOn(m, w * WordBits + b)
    BY <2>1, WordsAre, BitIs DEF maskIsOn
  <2> QED BY <1>4, <2>2, <2>3
<1> QED BY <1>1, <1>2, <1>3, <1>4 DEF maskIsOff

(* The bits that are on, and the first of them from a position.            *)
On(m, size) == {k \in 0 .. size - 1 : maskIsOn(m, k)}
IsNext(m, size, start, r) ==
    /\ r \in On(m, size) \cup {size}
    /\ r \in On(m, size) => r >= start
    /\ \A k \in On(m, size) : k >= start => r <= k

LEMMA MaskIs ==
    ASSUME NEW size, Fits(size), NEW m \in Mask(size)
    PROVE  /\ DOMAIN m = 0 .. WordCount(size) - 1 /\ WordCount(size) \in Nat \ {0}
           /\ \A i \in DOMAIN m : m[i] \in SUBSET (0 .. WordBits - 1)
           /\ WordBits \in Nat \ {0} /\ size \in Nat \ {0} /\ size \notin On(m, size)
           /\ \A k \in On(m, size) : k \in 0 .. size - 1
PROOF
<1>1. WordCount(size) \in Nat \ {0} /\ WordBits \in Nat \ {0} /\ size \in Nat \ {0}
  <2>1. size \in Nat \ {0}
    BY DEF Fits
  <2> QED BY <2>1, WordsAre
<1>2. DOMAIN m = 0 .. WordCount(size) - 1 /\ \A i \in DOMAIN m : m[i] \in SUBSET (0 .. WordBits - 1)
  BY DEF Mask
<1> QED BY <1>1, <1>2 DEF On

LEMMA WordOrder ==
    ASSUME NEW v \in Int, NEW w \in Int, NEW a \in 0 .. WordBits - 1, NEW b \in 0 .. WordBits - 1,
           v < w \/ (v = w /\ a <= b)
    PROVE  v * WordBits + a <= w * WordBits + b
PROOF
<1>1. WordBits \in Nat \ {0}
  BY WordAssumption
<1>2. CASE v < w
  <2>1. (w - v) * WordBits >= WordBits
    BY <1>1, <1>2
  <2>2. (w - v) * WordBits = w * WordBits - v * WordBits
    BY <1>1
  <2> DEFINE p == v * WordBits
             q == w * WordBits
  <2>3. p \in Int /\ q \in Int /\ q - p >= WordBits
    BY <1>1, <2>1, <2>2
  <2> HIDE DEF p, q
  <2>4. p + a <= q + b
    BY <1>1, <2>3
  <2> QED BY <2>4 DEF p, q
<1>3. CASE v = w /\ a <= b
  <2> DEFINE p == v * WordBits
  <2>1. p \in Int
    BY <1>1
  <2> HIDE DEF p
  <2>2. p + a <= p + b
    BY <1>1, <1>3, <2>1
  <2> QED BY <1>3, <2>2 DEF p
<1> QED BY <1>2, <1>3

LEMMA OnIs ==
    ASSUME NEW size, Fits(size), NEW m \in Mask(size)
    PROVE  /\ \A k \in On(m, size) :
                /\ k \div WordBits \in DOMAIN m /\ k % WordBits \in m[k \div WordBits]
                /\ k % WordBits \in 0 .. WordBits - 1
                /\ k = (k \div WordBits) * WordBits + (k % WordBits)
           /\ \A w \in DOMAIN m : \A b \in m[w] :
                /\ w \in Int /\ b \in 0 .. WordBits - 1 /\ w * WordBits + b \in On(m, size)
                /\ (w * WordBits + b) \div WordBits = w /\ (w * WordBits + b) % WordBits = b
PROOF
<1>1. ASSUME NEW k \in On(m, size)
      PROVE  /\ k \div WordBits \in DOMAIN m /\ k % WordBits \in m[k \div WordBits]
             /\ k % WordBits \in 0 .. WordBits - 1
             /\ k = (k \div WordBits) * WordBits + (k % WordBits)
  BY WordsAre DEF On, Mask, maskIsOn
<1>2. ASSUME NEW w \in DOMAIN m, NEW b \in m[w]
      PROVE  /\ w \in Int /\ b \in 0 .. WordBits - 1 /\ w * WordBits + b \in On(m, size)
             /\ (w * WordBits + b) \div WordBits = w /\ (w * WordBits + b) % WordBits = b
  <2>1. w \in 0 .. WordCount(size) - 1 /\ b \in 0 .. WordBits - 1 /\ w * WordBits + b < size
        /\ size \in Nat
    BY DEF Mask, Fits
  <2>2. (w * WordBits + b) \div WordBits = w /\ (w * WordBits + b) % WordBits = b
    BY <2>1, BitIs
  <2> DEFINE p == w * WordBits
  <2>3. p \in Nat
    <3>1. WordBits \in Nat /\ WordCount(size) \in Nat
      BY WordsAre
    <3> QED BY <2>1, <3>1
  <2>4. p + b \in 0 .. size - 1
    <3>1. p + b < size
      BY <2>1
    <3> HIDE DEF p
    <3> QED BY <2>1, <2>3, <3>1, WordsAre
  <2>5. maskIsOn(m, p + b)
    BY <2>2 DEF maskIsOn
  <2> QED BY <2>1, <2>2, <2>4, <2>5 DEF On
<1> QED BY <1>1, <1>2

LEMMA FirstIs ==
    ASSUME NEW size, Fits(size), NEW m \in Mask(size), NEW n \in Int,
           NEW words, words = {i \in DOMAIN m : i > n /\ m[i] # {}}
    PROVE  /\ FirstIn(m, words, size) \in On(m, size) \cup {size}
           /\ FirstIn(m, words, size) \in On(m, size) => FirstIn(m, words, size) \div WordBits > n
           /\ \A k \in On(m, size) : k \div WordBits > n => FirstIn(m, words, size) <= k
PROOF
<1>1. /\ DOMAIN m = 0 .. WordCount(size) - 1 /\ WordCount(size) \in Nat \ {0}
      /\ \A i \in DOMAIN m : m[i] \in SUBSET (0 .. WordBits - 1)
      /\ WordBits \in Nat \ {0} /\ size \notin On(m, size)
  BY MaskIs
<1>2. CASE words = {}
  <2>1. FirstIn(m, words, size) = size
    BY <1>2 DEF FirstIn
  <2>2. \A k \in On(m, size) : ~(k \div WordBits > n)
    BY <1>2, OnIs
  <2> QED BY <1>1, <2>1, <2>2
<1>3. CASE words # {}
  <2> DEFINE w == Least(words)
             b == Least(m[w])
             r == w * WordBits + b
  <2>1. w \in words /\ \A i \in words : w <= i
    <3>1. words \in SUBSET (0 .. WordCount(size) - 1) /\ WordCount(size) - 1 \in Int
      BY <1>1
    <3> QED BY <1>3, <3>1, LeastIs
  <2>2. b \in m[w] /\ \A a \in m[w] : b <= a
    <3> HIDE DEF w
    <3>1. m[w] \in SUBSET (0 .. WordBits - 1) /\ m[w] # {} /\ WordBits - 1 \in Int
      BY <1>1, <2>1
    <3> QED BY <3>1, LeastIs
  <2>3. FirstIn(m, words, size) = r
    BY <1>3 DEF FirstIn
  <2> HIDE DEF w, b
  <2>4. r \in On(m, size) /\ r \div WordBits = w /\ w \in Int /\ b \in 0 .. WordBits - 1
    BY <2>1, <2>2, OnIs
  <2>5. ASSUME NEW k \in On(m, size), k \div WordBits > n PROVE r <= k
    <3> DEFINE v == k \div WordBits
               a == k % WordBits
    <3>1. v \in DOMAIN m /\ a \in m[v] /\ a \in 0 .. WordBits - 1 /\ k = v * WordBits + a
      BY OnIs
    <3>2. v \in words
      BY <2>5, <3>1
    <3> HIDE DEF v, a, r
    <3>3. w <= v /\ (w = v => b <= a)
      BY <2>1, <2>2, <3>1, <3>2
    <3>4. v \in Int
      BY <1>1, <3>1
    <3>5. w < v \/ (w = v /\ b <= a)
      BY <2>4, <3>3, <3>4
    <3> QED BY <2>4, <3>1, <3>4, <3>5, WordOrder DEF r
  <2> QED BY <2>1, <2>3, <2>4, <2>5
<1> QED BY <1>2, <1>3

LEMMA findFirstOnIs ==
    ASSUME NEW size, Fits(size), NEW m \in Mask(size)
    PROVE  IsNext(m, size, 0, findFirstOn(m, size))
PROOF
<1> DEFINE words == {i \in DOMAIN m : m[i] # {}}
<1>1. words = {i \in DOMAIN m : i > -1 /\ m[i] # {}}
  BY MaskIs
<1>2. ASSUME NEW k \in On(m, size) PROVE k >= 0 /\ k \div WordBits > -1
  <2>1. k \div WordBits \in DOMAIN m /\ k \in 0 .. size - 1 /\ size \in Nat
        /\ DOMAIN m = 0 .. WordCount(size) - 1 /\ WordCount(size) \in Nat
    BY OnIs, MaskIs
  <2> QED BY <2>1
<1>3. findFirstOn(m, size) = FirstIn(m, words, size)
  BY DEF findFirstOn
<1> HIDE DEF words
<1> QED BY <1>1, <1>2, <1>3, FirstIs DEF IsNext

LEMMA findNextOnIs ==
    ASSUME NEW size, Fits(size), NEW m \in Mask(size), NEW start \in 0 .. size
    PROVE  IsNext(m, size, start, findNextOn(m, start, size))
PROOF
<1> DEFINE n == start \div WordBits
           s == start % WordBits
           rest == {b \in m[n] : b >= s}
           words == {i \in DOMAIN m : i > n /\ m[i] # {}}
<1>1. /\ DOMAIN m = 0 .. WordCount(size) - 1 /\ WordCount(size) \in Nat \ {0}
      /\ \A i \in DOMAIN m : m[i] \in SUBSET (0 .. WordBits - 1)
      /\ WordBits \in Nat \ {0} /\ size \notin On(m, size) /\ size \in Nat /\ start \in Nat
      /\ \A k \in On(m, size) : k \in Nat
  BY MaskIs
<1>2. n \in Int /\ s \in 0 .. WordBits - 1 /\ start = n * WordBits + s
  BY <1>1, DivMod
<1>3. /\ n < WordCount(size) /\ rest # {} => findNextOn(m, start, size) = n * WordBits + Least(rest)
      /\ n < WordCount(size) /\ rest = {} => findNextOn(m, start, size) = FirstIn(m, words, size)
  <2> DEFINE far == n >= WordCount(size)
             near == n < WordCount(size)
             some == rest # {}
             first == n * WordBits + Least(rest)
             later == FirstIn(m, words, size)
             next == findNextOn(m, start, size)
  <2>1. near => ~far
    <3> HIDE DEF n
    <3> QED BY <1>1, <1>2
  <2>2. next = CASE far -> size [] near /\ some -> first [] OTHER -> later
    BY DEF findNextOn
  <2> HIDE DEF far, near, some, first, later, next
  <2>3. (near /\ some => next = first) /\ (near /\ ~some => next = later)
    BY <2>1, <2>2
  <2> QED BY <2>3 DEF near, some, first, later, next
<1>4. n >= 0
  <2> HIDE DEF n, s
  <2>1. ASSUME n < 0 PROVE FALSE
    <3>1. n + 1 <= 0 /\ (n + 1) * WordBits <= 0
      <4> DEFINE a == n + 1
      <4>1. a \in Int /\ a <= 0
        BY <1>2, <2>1
      <4> HIDE DEF a
      <4>2. -a \in Nat /\ WordBits \in Nat
        BY <1>1, <4>1
      <4>3. (-a) * WordBits \in Nat
        BY <4>2
      <4>4. a * WordBits = -((-a) * WordBits) /\ (-a) * WordBits \in Int
        BY <4>1, <4>2, <4>3
      <4>5. a * WordBits <= 0
        BY <4>3, <4>4
      <4> QED BY <4>1, <4>5 DEF a
    <3>2. (n + 1) * WordBits = n * WordBits + WordBits
      BY <1>1, <1>2
    <3> DEFINE p == n * WordBits
    <3>3. p \in Int /\ p + WordBits <= 0 /\ start = p + s
      BY <1>1, <1>2, <3>1, <3>2
    <3> HIDE DEF p
    <3> QED BY <1>1, <1>2, <3>3
  <2> QED BY <1>2, <2>1
<1> HIDE DEF n, s
(* Bits from the start on are in its word and not before it, or in a later one. *)
<1>5. ASSUME NEW k \in On(m, size)
      PROVE  k >= start <=> k \div WordBits > n \/ (k \div WordBits = n /\ k % WordBits >= s)
  <2> DEFINE v == k \div WordBits
             a == k % WordBits
  <2>1. v \in DOMAIN m /\ a \in m[v] /\ a \in 0 .. WordBits - 1 /\ k = v * WordBits + a
    BY OnIs
  <2> HIDE DEF v, a
  <2>2. v \in Int
    BY <1>1, <2>1
  <2>3. ASSUME v > n \/ (v = n /\ a >= s) PROVE k >= start
    <3>1. n < v \/ (n = v /\ s <= a)
      BY <1>2, <2>1, <2>2, <2>3
    <3>2. n * WordBits + s <= v * WordBits + a
      BY <1>2, <2>1, <2>2, <3>1, WordOrder
    <3> QED BY <1>1, <1>2, <2>1, <3>2
  <2>4. ASSUME ~(v > n \/ (v = n /\ a >= s)), k >= start PROVE FALSE
    <3>1. v < n \/ (v = n /\ a <= s)
      BY <1>2, <2>1, <2>2, <2>4
    <3>2. v * WordBits + a <= n * WordBits + s
      BY <1>2, <2>1, <2>2, <3>1, WordOrder
    <3>3. k = start
      BY <1>1, <1>2, <2>1, <2>4, <3>2
    <3>4. v = n /\ a = s
      <4>1. v * WordBits + a = n * WordBits + s
        BY <1>2, <2>1, <3>3
      <4> QED BY <1>1, <1>2, <2>1, <2>2, <4>1, Unique
    <3> QED BY <1>2, <2>4, <3>4
  <2> QED BY <2>3, <2>4 DEF v, a
<1>6. CASE n >= WordCount(size)
  <2>1. findNextOn(m, start, size) = size
    BY <1>1, <1>2, <1>6 DEF findNextOn, n
  <2>2. ASSUME NEW k \in On(m, size), k >= start PROVE FALSE
    <3>1. k \div WordBits \in DOMAIN m
      BY OnIs
    <3> QED BY <1>1, <1>2, <1>5, <1>6, <2>2, <3>1
  <2> QED BY <1>1, <2>1, <2>2 DEF IsNext
<1>7. CASE n < WordCount(size) /\ rest # {}
  <2> DEFINE b == Least(rest)
             r == n * WordBits + b
  <2>1. n \in DOMAIN m
    BY <1>1, <1>2, <1>4, <1>7
  <2>2. b \in rest /\ \A a \in rest : b <= a
    <3>1. rest \in SUBSET (0 .. WordBits - 1) /\ WordBits - 1 \in Int
      BY <1>1, <2>1
    <3> HIDE DEF rest
    <3> QED BY <1>7, <3>1, LeastIs
  <2>3. findNextOn(m, start, size) = r
    BY <1>3, <1>7
  <2> HIDE DEF b
  <2>4. b \in m[n] /\ b \in 0 .. WordBits - 1 /\ b >= s
    BY <1>1, <2>1, <2>2
  <2>5. r \in On(m, size) /\ r \div WordBits = n /\ r % WordBits = b
    BY <2>1, <2>4, OnIs
  <2> HIDE DEF r
  <2>6. r >= start
    BY <1>5, <2>4, <2>5
  <2>7. ASSUME NEW k \in On(m, size), k >= start PROVE r <= k
    <3> DEFINE v == k \div WordBits
               a == k % WordBits
    <3>1. v \in DOMAIN m /\ a \in m[v] /\ a \in 0 .. WordBits - 1 /\ k = v * WordBits + a
      BY OnIs
    <3>2. v > n \/ (v = n /\ a >= s)
      BY <1>5, <2>7
    <3> HIDE DEF v, a
    <3>3. n < v \/ (n = v /\ b <= a)
      <4>1. CASE v = n
        <5>1. a \in rest
          BY <1>2, <3>1, <3>2, <4>1
        <5> QED BY <2>2, <4>1, <5>1
      <4>2. CASE v # n
        BY <1>1, <1>2, <3>1, <3>2, <4>2
      <4> QED BY <4>1, <4>2
    <3>4. v \in Int
      BY <1>1, <3>1
    <3> QED BY <1>2, <2>4, <3>1, <3>3, <3>4, WordOrder DEF r
  <2> QED BY <1>1, <2>3, <2>5, <2>6, <2>7 DEF IsNext
<1>8. CASE n < WordCount(size) /\ rest = {}
  <2>1. findNextOn(m, start, size) = FirstIn(m, words, size)
    BY <1>3, <1>8
  <2>2. ASSUME NEW k \in On(m, size) PROVE k >= start <=> k \div WordBits > n
    <3> DEFINE v == k \div WordBits
               a == k % WordBits
    <3>1. v \in DOMAIN m /\ a \in m[v] /\ a \in 0 .. WordBits - 1
      BY OnIs
    <3>2. k >= start <=> v > n \/ (v = n /\ a >= s)
      BY <1>5
    <3> HIDE DEF v, a
    <3>3. ~(v = n /\ a >= s)
      BY <1>8, <3>1
    <3>4. k >= start <=> v > n
      BY <3>2, <3>3
    <3> QED BY <3>4 DEF v
  <2> DEFINE r == FirstIn(m, words, size)
  <2>3. /\ r \in On(m, size) \cup {size}
        /\ r \in On(m, size) => r \div WordBits > n
        /\ \A k \in On(m, size) : k \div WordBits > n => r <= k
    <3> HIDE DEF r
    <3>1. words = {i \in DOMAIN m : i > n /\ m[i] # {}}
      OBVIOUS
    <3> HIDE DEF words
    <3> QED BY <1>2, <3>1, FirstIs DEF r
  <2> HIDE DEF r
  <2> QED BY <2>1, <2>2, <2>3 DEF IsNext, r
<1> QED BY <1>1, <1>2, <1>6, <1>7, <1>8

(* A sequence that has each element of a set, once.                        *)
Enumerates(q, S) ==
    /\ q \in Seq(S)
    /\ \A i \in DOMAIN q : \A j \in DOMAIN q : q[i] = q[j] => i = j
    /\ \A x \in S : \E i \in DOMAIN q : q[i] = x

(* Going on to a later position ends.                                      *)
Walk(g, size, next, p) == g[p] = IF p = size THEN <<>> ELSE <<p>> \o g[next[p]]

LEMMA Walks ==
    ASSUME NEW size \in Nat, NEW next \in [0 .. size - 1 -> 0 .. size],
           \A p \in 0 .. size - 1 : next[p] > p
    PROVE  \E g \in [0 .. size -> Seq(0 .. size - 1)] : \A p \in 0 .. size : Walk(g, size, next, p)
PROOF
<1> DEFINE S == Seq(0 .. size - 1)
           D == 0 .. size
           Good(m) == \E g \in [D -> S] : \A p \in D : p >= size - m => Walk(g, size, next, p)
           B == {m \in 0 .. size : ~Good(m)}
<1>1. SUFFICES ASSUME B # {} PROVE FALSE
  <2>1. size \in 0 .. size /\ \A p \in D : p >= size - size
    OBVIOUS
  <2>2. Good(size) => \E g \in [D -> S] : \A p \in D : Walk(g, size, next, p)
    BY <2>1
  <2> HIDE DEF Good
  <2>3. B = {} => Good(size)
    BY <2>1
  <2> QED BY <2>2, <2>3
<1>2. PICK m \in B : m - 1 \notin B
  <2>1. B \subseteq 0 .. size /\ size \in Int
    OBVIOUS
  <2> HIDE DEF B
  <2> QED BY <1>1, <2>1, LeastIndex
<1>3. m \in 0 .. size /\ ~Good(m)
  BY <1>2
<1>4. CASE m = 0
  <2> DEFINE g == [p \in D |-> <<>>]
  <2>1. g \in [D -> S] /\ \A p \in D : p >= size - 0 => p = size
    OBVIOUS
  <2>2. \A p \in D : p >= size - 0 => Walk(g, size, next, p)
    BY <2>1 DEF Walk
  <2> HIDE DEF g
  <2> QED BY <1>3, <1>4, <2>1, <2>2
<1>5. CASE m # 0
  <2>1. Good(m - 1)
    <3> HIDE DEF Good
    <3>1. m - 1 \in 0 .. size
      BY <1>3, <1>5
    <3> QED BY <1>2, <3>1
  <2>2. PICK g \in [D -> S] : \A p \in D : p >= size - (m - 1) => Walk(g, size, next, p)
    BY <2>1
  <2> DEFINE k == size - m
             s == <<k>> \o g[next[k]]
             h == [p \in D |-> IF p = k THEN s ELSE g[p]]
  <2>3. k \in D /\ k # size /\ k \in 0 .. size - 1
    BY <1>3, <1>5
  <2>4. s \in S
    <3>1. next[k] \in D /\ g[next[k]] \in S /\ <<k>> \in S
      BY <2>2, <2>3
    <3> HIDE DEF k
    <3> QED BY <3>1
  <2>5. h \in [D -> S]
    <3> HIDE DEF s
    <3> QED BY <2>4
  <2>6. ASSUME NEW p \in D, p >= k PROVE Walk(h, size, next, p)
    <3>1. p # size => next[p] \in D /\ next[p] > p /\ h[next[p]] = g[next[p]]
      <4>1. p # size => p \in 0 .. size - 1
        OBVIOUS
      <4>2. p # size => next[p] \in D /\ next[p] > p
        BY <4>1
      <4> DEFINE n == next[p]
      <4>3. p # size => n # k /\ n \in D
        BY <2>3, <2>6, <4>2
      <4> HIDE DEF s, k, n
      <4>4. p # size => h[n] = g[n]
        BY <4>3
      <4> QED BY <4>2, <4>4 DEF n
    <3>2. CASE p = k
      <4>1. h[p] = s
        BY <2>3, <3>2
      <4>2. p # size
        BY <2>3, <3>2
      <4> HIDE DEF h, k
      <4> QED BY <3>1, <3>2, <4>1, <4>2 DEF Walk
    <3>3. CASE p # k
      <4>1. p >= size - (m - 1)
        BY <1>3, <2>6, <3>3
      <4>2. h[p] = g[p] /\ Walk(g, size, next, p)
        <5> HIDE DEF s
        <5> QED BY <2>2, <3>3, <4>1
      <4> HIDE DEF h, k
      <4> QED BY <3>1, <4>2 DEF Walk
    <3> QED BY <3>2, <3>3
  <2> HIDE DEF h
  <2> QED BY <1>3, <2>5, <2>6
<1> QED BY <1>4, <1>5

(* An iterator over a mask, which searches it word by word for the next    *)
(* bit that is on, visits each of them once and no other.                  *)
THEOREM beginOnIs ==
    ASSUME NEW size, Fits(size), NEW m \in Mask(size)
    PROVE  Enumerates(beginOn(m, size), On(m, size))
PROOF
<1> DEFINE D == 0 .. size
           O == On(m, size)
           Visits(v) == v = [pos \in D |-> IF pos = size THEN <<>>
                                           ELSE <<pos>> \o v[findNextOn(m, pos + 1, size)]]
           V == CHOOSE v : Visits(v)
           next == [pos \in 0 .. size - 1 |-> findNextOn(m, pos + 1, size)]
           first == findFirstOn(m, size)
           From(p) == {k \in O : k >= p}
           Right(p) == Enumerates(V[p], From(p))
<1>1. beginOn(m, size) = V[first]
  BY DEF beginOn
<1>2. size \in Nat /\ size # 0 /\ size \notin O /\ O \subseteq 0 .. size - 1 /\ size \in D
  BY MaskIs
<1>3. ASSUME NEW p \in 0 .. size - 1
      PROVE  /\ next[p] \in O \cup {size} /\ next[p] > p
             /\ \A k \in O : k > p => next[p] <= k
  <2> DEFINE r == findNextOn(m, p + 1, size)
  <2>1. p + 1 \in 0 .. size
    BY <1>2
  <2>2. IsNext(m, size, p + 1, r)
    BY <2>1, findNextOnIs
  <2>3. next[p] = r
    OBVIOUS
  <2> HIDE DEF r, next
  <2>4. /\ r \in O \cup {size} /\ (r \in O => r >= p + 1)
        /\ \A k \in O : k >= p + 1 => r <= k
    BY <2>2 DEF IsNext
  <2>5. \A k \in O : k \in Int
    BY <1>2
  <2> HIDE DEF O
  <2> QED BY <1>2, <2>3, <2>4, <2>5
<1>4. next \in [0 .. size - 1 -> D]
  <2>1. ASSUME NEW p \in 0 .. size - 1 PROVE next[p] \in D
    <3>1. next[p] \in O \cup {size}
      BY <1>3
    <3>2. 0 .. size - 1 \subseteq D /\ size \in D
      BY <1>2
    <3> HIDE DEF next, O, D
    <3> QED BY <1>2, <3>1, <3>2
  <2>2. next = [p \in 0 .. size - 1 |-> next[p]]
    OBVIOUS
  <2> HIDE DEF next, D
  <2> QED BY <2>1, <2>2
<1>5. Visits(V)
  <2>1. PICK g \in [D -> Seq(0 .. size - 1)] : \A p \in D : Walk(g, size, next, p)
    <3> HIDE DEF next
    <3> QED BY <1>2, <1>3, <1>4, Walks
  <2>2. \A p \in D : p # size => p \in 0 .. size - 1 /\ next[p] = findNextOn(m, p + 1, size)
    BY <1>2
  <2> HIDE DEF next
  <2>3. \A p \in D : g[p] = IF p = size THEN <<>> ELSE <<p>> \o g[findNextOn(m, p + 1, size)]
    BY <2>1, <2>2 DEF Walk
  <2>4. g = [p \in D |-> g[p]]
    BY <2>1
  <2> HIDE DEF D
  <2>5. Visits(g)
    BY <2>3, <2>4
  <2> QED BY <2>5
<1> HIDE DEF V
<1>6. V[size] = <<>> /\ \A p \in 0 .. size - 1 : V[p] = <<p>> \o V[next[p]]
  <2>1. \A p \in D : V[p] = IF p = size THEN <<>> ELSE <<p>> \o V[findNextOn(m, p + 1, size)]
    <3> HIDE DEF D
    <3> QED BY <1>5
  <2>2. \A p \in 0 .. size - 1 : p \in D /\ p # size /\ next[p] = findNextOn(m, p + 1, size)
    BY <1>2
  <2> HIDE DEF next, D
  <2> QED BY <1>2, <2>1, <2>2
<1> HIDE DEF next
<1>7. Right(size)
  <2>1. From(size) = {}
    BY <1>2
  <2> QED BY <1>6, <2>1 DEF Enumerates
<1>8. ASSUME NEW p \in O, Right(next[p]) PROVE Right(p)
  <2> DEFINE n == next[p]
             q == V[n]
             r == V[p]
  <2>1. p \in 0 .. size - 1 /\ n \in D /\ n > p /\ \A k \in O : k > p => n <= k
    BY <1>2, <1>3, <1>4
  <2>2. r = <<p>> \o q
    BY <1>6, <2>1
  <2>3. \A k : k \in From(p) <=> k = p \/ k \in From(n)
    <3>1. \A k \in O : k \in Int
      BY <1>2
    <3>2. n \in Int /\ p \in Int
      BY <1>2, <2>1
    <3> HIDE DEF n, O
    <3>3. ASSUME NEW k \in O PROVE k >= p <=> k = p \/ k >= n
      BY <3>1, <3>2, <2>1
    <3> QED BY <3>1, <3>2, <3>3
  <2>4. p \notin From(n)
    BY <2>1
  <2>5. /\ q \in Seq(From(n)) /\ \A i \in DOMAIN q : \A j \in DOMAIN q : q[i] = q[j] => i = j
        /\ \A x \in From(n) : \E i \in DOMAIN q : q[i] = x
    BY <1>8 DEF Enumerates
  <2> HIDE DEF From, n, q, r
  <2>6. q \in Seq(From(p))
    <3>1. From(n) \subseteq From(p)
      BY <2>3
    <3> QED BY <2>5, <3>1
  <2>7. /\ r \in Seq(From(p)) /\ Len(r) = Len(q) + 1 /\ r[1] = p /\ Len(q) \in Nat
        /\ \A i \in 1 .. Len(q) : r[i + 1] = q[i]
    BY <2>2, <2>3, <2>6
  <2>8. /\ DOMAIN r = 1 .. Len(q) + 1 /\ DOMAIN q = 1 .. Len(q)
        /\ \A i \in DOMAIN r : i = 1 \/ (i - 1 \in DOMAIN q /\ r[i] = q[i - 1])
    <3>1. DOMAIN r = 1 .. Len(q) + 1 /\ DOMAIN q = 1 .. Len(q)
      BY <2>6, <2>7
    <3>2. ASSUME NEW i \in DOMAIN r, i # 1 PROVE i - 1 \in DOMAIN q /\ r[i] = q[i - 1]
      <4>1. i - 1 \in 1 .. Len(q) /\ (i - 1) + 1 = i
        BY <2>7, <3>1, <3>2
      <4> QED BY <2>7, <3>1, <4>1
    <3> QED BY <3>1, <3>2
  <2>9. ASSUME NEW i \in DOMAIN r, NEW j \in DOMAIN r, r[i] = r[j] PROVE i = j
    <3>1. \A a \in DOMAIN r : a # 1 => r[a] # p
      <4>1. \A a \in DOMAIN q : q[a] \in From(n)
        BY <2>5
      <4> QED BY <2>4, <2>8, <4>1
    <3>2. (i = 1) <=> (j = 1)
      BY <2>7, <2>9, <3>1
    <3>3. CASE i = 1
      BY <3>2, <3>3
    <3>4. CASE i # 1
      <4>1. i - 1 = j - 1
        BY <2>5, <2>8, <2>9, <3>2, <3>4
      <4> QED BY <2>7, <2>8, <4>1
    <3> QED BY <3>3, <3>4
  <2>10. ASSUME NEW x \in From(p) PROVE \E i \in DOMAIN r : r[i] = x
    <3>1. CASE x = p
      BY <2>7, <2>8, <3>1
    <3>2. CASE x \in From(n)
      <4>1. PICK i \in DOMAIN q : q[i] = x
        BY <2>5, <3>2
      <4>2. i + 1 \in DOMAIN r /\ r[i + 1] = x
        BY <2>7, <2>8, <4>1
      <4> QED BY <4>2
    <3> QED BY <2>3, <3>1, <3>2
  <2> QED BY <2>7, <2>9, <2>10 DEF Enumerates, r
<1> HIDE DEF Right
<1>9. ASSUME NEW p \in O \cup {size} PROVE Right(p)
  <2> DEFINE B == {i \in 0 .. size : size - i \in O \cup {size} /\ ~Right(size - i)}
  <2>1. SUFFICES ASSUME ~Right(p) PROVE FALSE
    OBVIOUS
  <2>2. B \subseteq 0 .. size /\ B # {}
    <3>1. size - p \in 0 .. size /\ size - (size - p) = p
      BY <1>2
    <3> QED BY <2>1, <3>1
  <2>3. IsFiniteSet(B) /\ B \subseteq Int
    <3>1. IsFiniteSet(0 .. size)
      BY <1>2, FS_Interval
    <3>2. 0 .. size \subseteq Int
      OBVIOUS
    <3> HIDE DEF B
    <3>3. IsFiniteSet(B)
      BY <2>2, <3>1, FS_Subset
    <3> QED BY <2>2, <3>2, <3>3
  <2>4. PICK i \in B : \A j \in B : i <= j
    <3> HIDE DEF B
    <3> QED BY <2>2, <2>3, SmallestExists
  <2> DEFINE k == size - i
  <2>5. k \in O \cup {size} /\ ~Right(k) /\ i \in 0 .. size
    BY <2>4
  <2>6. k \in O
    BY <1>7, <2>5
  <2>7. next[k] \in O \cup {size} /\ next[k] > k /\ ~Right(next[k])
    <3> HIDE DEF k, O
    <3> QED BY <1>2, <1>3, <1>8, <2>5, <2>6
  <2> DEFINE j == size - next[k]
  <2>8. next[k] \in 0 .. size /\ j \in 0 .. size /\ size - j = next[k] /\ j < i
    <3> DEFINE n == next[k]
    <3>1. n \in 0 .. size /\ n > k
      BY <1>2, <2>7
    <3> HIDE DEF n
    <3> QED BY <1>2, <2>5, <3>1 DEF n
  <2>9. j \in B
    <3> HIDE DEF j
    <3> QED BY <2>7, <2>8
  <2>10. ~(i <= j)
    <3> HIDE DEF j
    <3> QED BY <2>5, <2>8
  <2> QED BY <2>4, <2>9, <2>10
<1>10. first \in O \cup {size} /\ From(first) = O
  <2>1. IsNext(m, size, 0, first)
    BY findFirstOnIs
  <2> HIDE DEF first
  <2>2. first \in O \cup {size} /\ \A k \in O : k >= 0 => first <= k
    BY <2>1 DEF IsNext
  <2>3. \A k \in O : k >= first
    <3>1. \A k \in O : k >= 0 /\ k \in Int
      BY <1>2
    <3>2. first \in Int
      BY <1>2, <2>2
    <3> HIDE DEF O
    <3> QED BY <2>2, <3>1, <3>2
  <2> QED BY <2>2, <2>3
<1> QED BY <1>1, <1>9, <1>10 DEF Right

-----------------------------------------------------------------------------
(* Grids.                                                                  *)

InnerIndex == 0 .. InnerSize - 1
LeafIndex == 0 .. LeafSize - 1
Cell == Values \cup {Off}

(* A bit is on for a cell that holds something.                            *)
LeafGrid ==
    {l \in [mask : Mask(LeafSize), cell : [LeafIndex -> Cell]] :
        \A n \in LeafIndex : n \in On(l.mask, LeafSize) <=> l.cell[n] # Off}
InnerGrid ==
    {g \in [mask : Mask(InnerSize), cell : [InnerIndex -> LeafGrid \cup {Nil}]] :
        \A n \in InnerIndex : n \in On(g.mask, InnerSize) <=> g.cell[n] # Nil}
Grid(map) ==
    /\ DOMAIN map \subseteq Point /\ IsFiniteSet(DOMAIN map)
    /\ map \in [DOMAIN map -> InnerGrid]

LEMMA LeafIs ==
    ASSUME NEW mask, NEW cell
    PROVE  [mask |-> mask, cell |-> cell] \in LeafGrid <=>
             /\ mask \in Mask(LeafSize) /\ cell \in [LeafIndex -> Cell]
             /\ \A n \in LeafIndex : n \in On(mask, LeafSize) <=> cell[n] # Off
  BY DEF LeafGrid

LEMMA InnerIs ==
    ASSUME NEW mask, NEW cell
    PROVE  [mask |-> mask, cell |-> cell] \in InnerGrid <=>
             /\ mask \in Mask(InnerSize) /\ cell \in [InnerIndex -> LeafGrid \cup {Nil}]
             /\ \A n \in InnerIndex : n \in On(mask, InnerSize) <=> cell[n] # Nil
  BY DEF InnerGrid

LEMMA LeafHas ==
    ASSUME NEW l \in LeafGrid
    PROVE  /\ l = [mask |-> l.mask, cell |-> l.cell] /\ l # Nil
           /\ l.mask \in Mask(LeafSize) /\ l.cell \in [LeafIndex -> Cell]
           /\ \A n \in LeafIndex : n \in On(l.mask, LeafSize) <=> l.cell[n] # Off
PROOF
<1>1. l = [mask |-> l.mask, cell |-> l.cell]
  BY DEF LeafGrid
<1>2. DOMAIN l = {"mask", "cell"} /\ DOMAIN Nil = {}
  BY <1>1 DEF Nil
<1> QED BY <1>1, <1>2 DEF LeafGrid

LEMMA InnerHas ==
    ASSUME NEW g \in InnerGrid
    PROVE  /\ g = [mask |-> g.mask, cell |-> g.cell]
           /\ g.mask \in Mask(InnerSize) /\ g.cell \in [InnerIndex -> LeafGrid \cup {Nil}]
           /\ \A n \in InnerIndex : n \in On(g.mask, InnerSize) <=> g.cell[n] # Nil
  BY DEF InnerGrid

LEMMA ValuesAre == Values \subseteq Cell /\ Off \in Cell /\ 0 \in Values /\ Off \notin Values
                   /\ Undefined \notin Cell
  BY ValuesAssumption DEF Cell, Off, Undefined

(* What setOn and setOff do to the bits that are on.                       *)
LEMMA OnOps ==
    ASSUME NEW size, Fits(size), NEW m \in Mask(size), NEW n \in 0 .. size - 1
    PROVE  /\ setOn(m, n) \in Mask(size) /\ setOff(m, n) \in Mask(size)
           /\ On(setOn(m, n), size) = On(m, size) \cup {n}
           /\ On(setOff(m, n), size) = On(m, size) \ {n}
  BY MaskOps DEF On

LEMMA OnNew ==
    ASSUME NEW size, Fits(size)
    PROVE  /\ NewMask(size) \in Mask(size) /\ On(NewMask(size), size) = {}
           /\ \A m \in Mask(size) : maskIsOff(m) <=> On(m, size) = {}
  BY MaskEmpty DEF On

LEMMA NewGrids ==
    /\ NewLeaf \in LeafGrid /\ \A n \in LeafIndex : NewLeaf.cell[n] = Off
    /\ NewInner \in InnerGrid /\ \A n \in InnerIndex : NewInner.cell[n] = Nil
PROOF
<1>1. NewLeaf \in LeafGrid
  BY SizesFit, OnNew, LeafIs, ValuesAre DEF NewLeaf, LeafIndex
<1>2. NewInner \in InnerGrid
  BY SizesFit, OnNew, InnerIs DEF NewInner, InnerIndex
<1> QED BY <1>1, <1>2 DEF NewLeaf, NewInner, LeafIndex, InnerIndex

(* The leaves of a grid.                                                   *)
LEMMA VisitedIs ==
    ASSUME NEW size, Fits(size), NEW m \in Mask(size)
    PROVE  Visited(m, size) = On(m, size)
PROOF
<1> DEFINE q == beginOn(m, size)
<1>1. /\ q \in Seq(On(m, size)) /\ \A x \in On(m, size) : \E i \in DOMAIN q : q[i] = x
  BY beginOnIs DEF Enumerates
<1>2. Visited(m, size) = {q[k] : k \in DOMAIN q}
  BY DEF Visited
<1> HIDE DEF q
<1>3. \A k \in DOMAIN q : q[k] \in On(m, size)
  BY <1>1
<1> QED BY <1>1, <1>2, <1>3

LEMMA LeavesAre ==
    ASSUME NEW map, Grid(map)
    PROVE  /\ \A r, i : <<r, i>> \in Leaves(map) <=>
                           r \in DOMAIN map /\ i \in InnerIndex /\ map[r].cell[i] # Nil
           /\ \A p \in Leaves(map) : /\ p = <<p[1], p[2]>> /\ p[1] \in DOMAIN map /\ p[2] \in InnerIndex
                                     /\ Leaf(map, p) \in LeafGrid
PROOF
<1>1. \A r \in DOMAIN map : map[r] \in InnerGrid
  BY DEF Grid
<1>2. ASSUME NEW r \in DOMAIN map
      PROVE  Visited(map[r].mask, InnerSize) = {i \in InnerIndex : map[r].cell[i] # Nil}
  <2>1. map[r].mask \in Mask(InnerSize)
        /\ \A n \in InnerIndex : n \in On(map[r].mask, InnerSize) <=> map[r].cell[n] # Nil
    BY <1>1, InnerHas
  <2>2. Visited(map[r].mask, InnerSize) = On(map[r].mask, InnerSize)
    BY <2>1, SizesFit, VisitedIs
  <2>3. On(map[r].mask, InnerSize) \subseteq InnerIndex
    BY DEF On, InnerIndex
  <2> QED BY <2>1, <2>2, <2>3
<1>3. Leaves(map) = UNION {{<<r, i>> : i \in {n \in InnerIndex : map[r].cell[n] # Nil}} : r \in DOMAIN map}
  BY <1>2 DEF Leaves
<1>4. ASSUME NEW r, NEW i
      PROVE  <<r, i>> \in Leaves(map) <=> r \in DOMAIN map /\ i \in InnerIndex /\ map[r].cell[i] # Nil
  BY <1>3
<1>5. ASSUME NEW p \in Leaves(map)
      PROVE  /\ p = <<p[1], p[2]>> /\ p[1] \in DOMAIN map /\ p[2] \in InnerIndex
             /\ Leaf(map, p) \in LeafGrid
  <2>1. PICK r \in DOMAIN map : \E i \in {n \in InnerIndex : map[r].cell[n] # Nil} : p = <<r, i>>
    BY <1>3
  <2>2. PICK i \in InnerIndex : map[r].cell[i] # Nil /\ p = <<r, i>>
    BY <2>1
  <2>3. map[r].cell[i] \in LeafGrid
    <3>1. map[r].cell \in [InnerIndex -> LeafGrid \cup {Nil}]
      BY <1>1, InnerHas
    <3> QED BY <2>2, <3>1
  <2>4. p[1] = r /\ p[2] = i
    BY <2>2
  <2> QED BY <2>2, <2>3, <2>4 DEF Leaf
<1> QED BY <1>4, <1>5

(* A grid that has what another had, but for what is in one leaf.          *)
Grown(map, new, p) ==
    /\ Grid(new) /\ DOMAIN map \subseteq DOMAIN new
    /\ Leaves(map) \subseteq Leaves(new) /\ Leaves(new) \subseteq Leaves(map) \cup {p}
    /\ \A x \in Leaves(map) : x # p => Leaf(new, x) = Leaf(map, x)

LEMMA ExtendedIs ==
    ASSUME NEW map, Grid(map), NEW r \in Point, r \notin DOMAIN map
    PROVE  /\ Grid(Extended(map, r, NewInner)) /\ DOMAIN Extended(map, r, NewInner) = DOMAIN map \cup {r}
           /\ Leaves(Extended(map, r, NewInner)) = Leaves(map)
           /\ \A x \in Leaves(map) : Leaf(Extended(map, r, NewInner), x) = Leaf(map, x)
PROOF
<1> DEFINE new == Extended(map, r, NewInner)
<1>1. new = [k \in DOMAIN map \cup {r} |-> IF k = r THEN NewInner ELSE map[k]]
  BY DEF Extended
<1>2. DOMAIN map \subseteq Point /\ IsFiniteSet(DOMAIN map) /\ map \in [DOMAIN map -> InnerGrid]
  BY DEF Grid
<1> HIDE DEF new
<1>3. DOMAIN new = DOMAIN map \cup {r} /\ new[r] = NewInner /\ \A k \in DOMAIN map : new[k] = map[k]
  BY <1>1
<1>4. Grid(new)
  <2>1. IsFiniteSet(DOMAIN map \cup {r})
    BY <1>2, FS_AddElement
  <2>2. new \in [DOMAIN map \cup {r} -> InnerGrid]
    BY <1>1, <1>2, NewGrids
  <2> QED BY <1>2, <1>3, <2>1, <2>2 DEF Grid
<1>5. ASSUME NEW k, NEW i PROVE <<k, i>> \in Leaves(new) <=> <<k, i>> \in Leaves(map)
  BY <1>3, <1>4, LeavesAre, NewGrids
<1>6. Leaves(new) = Leaves(map)
  <2>1. \A p \in Leaves(new) \cup Leaves(map) : p = <<p[1], p[2]>>
    BY <1>4, LeavesAre
  <2>2. ASSUME NEW p \in Leaves(new) \cup Leaves(map) PROVE p \in Leaves(new) /\ p \in Leaves(map)
    BY <1>5, <2>1
  <2> QED BY <2>2
<1>7. ASSUME NEW x \in Leaves(map) PROVE Leaf(new, x) = Leaf(map, x)
  BY <1>3, LeavesAre DEF Leaf
<1> QED BY <1>3, <1>4, <1>6, <1>7 DEF new

LEMMA WithLeafIs ==
    ASSUME NEW map, Grid(map), NEW r \in DOMAIN map, NEW i \in InnerIndex, NEW leaf \in LeafGrid
    PROVE  /\ Grown(map, WithLeaf(map, <<r, i>>, leaf), <<r, i>>)
           /\ <<r, i>> \in Leaves(WithLeaf(map, <<r, i>>, leaf))
           /\ Leaf(WithLeaf(map, <<r, i>>, leaf), <<r, i>>) = leaf
           /\ DOMAIN WithLeaf(map, <<r, i>>, leaf) = DOMAIN map
PROOF
<1> DEFINE p == <<r, i>>
           new == WithLeaf(map, p, leaf)
           g == map[r]
           inner == [mask |-> setOn(g.mask, i), cell |-> [g.cell EXCEPT ![i] = leaf]]
<1>1. DOMAIN map \subseteq Point /\ IsFiniteSet(DOMAIN map) /\ map \in [DOMAIN map -> InnerGrid]
  BY DEF Grid
<1>2. new = [map EXCEPT ![r] = inner]
  <2>1. p[1] = r /\ p[2] = i
    OBVIOUS
  <2> QED BY <2>1 DEF WithLeaf
<1>3. g \in InnerGrid
  BY <1>1
<1>4. inner \in InnerGrid
  <2>1. /\ g.mask \in Mask(InnerSize) /\ g.cell \in [InnerIndex -> LeafGrid \cup {Nil}]
        /\ \A n \in InnerIndex : n \in On(g.mask, InnerSize) <=> g.cell[n] # Nil
    BY <1>3, InnerHas
  <2> DEFINE mask == setOn(g.mask, i)
             cell == [g.cell EXCEPT ![i] = leaf]
  <2>2. mask \in Mask(InnerSize) /\ On(mask, InnerSize) = On(g.mask, InnerSize) \cup {i}
    <3> HIDE DEF g
    <3> QED BY <2>1, SizesFit, OnOps DEF InnerIndex
  <2>3. cell \in [InnerIndex -> LeafGrid \cup {Nil}]
    <3> HIDE DEF g
    <3> QED BY <2>1
  <2>4. \A n \in InnerIndex : cell[n] = IF n = i THEN leaf ELSE g.cell[n]
    <3> HIDE DEF g
    <3> QED BY <2>1
  <2>5. leaf # Nil
    BY LeafHas
  <2> HIDE DEF mask, cell, g
  <2>6. \A n \in InnerIndex : n \in On(mask, InnerSize) <=> cell[n] # Nil
    BY <2>1, <2>2, <2>4, <2>5
  <2> QED BY <2>2, <2>3, <2>6, InnerIs DEF mask, cell
<1> HIDE DEF new, g
<1>5. /\ DOMAIN new = DOMAIN map /\ new[r].cell[i] = leaf
      /\ \A n \in InnerIndex : n # i => new[r].cell[n] = map[r].cell[n]
      /\ \A k \in DOMAIN map : k # r => new[k] = map[k]
  <2>1. g.cell \in [InnerIndex -> LeafGrid \cup {Nil}]
    BY <1>3, InnerHas
  <2>2. inner.cell = [g.cell EXCEPT ![i] = leaf]
    OBVIOUS
  <2>3. inner.cell[i] = leaf /\ \A n \in InnerIndex : n # i => inner.cell[n] = g.cell[n]
    <3> HIDE DEF inner
    <3> QED BY <2>1, <2>2
  <2> HIDE DEF inner
  <2>4. new[r] = inner /\ DOMAIN new = DOMAIN map /\ \A k \in DOMAIN map : k # r => new[k] = map[k]
    BY <1>1, <1>2
  <2> QED BY <2>3, <2>4 DEF g
<1>6. Grid(new)
  <2> HIDE DEF inner
  <2>1. new \in [DOMAIN map -> InnerGrid]
    BY <1>1, <1>2, <1>4
  <2> QED BY <1>1, <1>5, <2>1 DEF Grid
<1>7. ASSUME NEW k, NEW n PROVE <<k, n>> \in Leaves(new) <=> <<k, n>> \in Leaves(map) \/ <<k, n>> = p
  <2>1. leaf # Nil
    BY LeafHas
  <2>2. <<k, n>> = p <=> k = r /\ n = i
    OBVIOUS
  <2> QED BY <1>5, <1>6, <2>1, <2>2, LeavesAre
<1>8. Leaves(new) = Leaves(map) \cup {p}
  <2>1. \A x \in Leaves(new) \cup Leaves(map) \cup {p} : x = <<x[1], x[2]>>
    BY <1>6, LeavesAre
  <2> HIDE DEF p
  <2>2. \A x \in Leaves(new) \cup Leaves(map) \cup {p} : x \in Leaves(new) <=> x \in Leaves(map) \/ x = p
    BY <1>7, <2>1
  <2> QED BY <1>7, <2>1, <2>2
<1>9. Leaf(new, p) = leaf
  BY <1>5 DEF Leaf
<1>10. ASSUME NEW x \in Leaves(map), x # p PROVE Leaf(new, x) = Leaf(map, x)
  <2>1. x = <<x[1], x[2]>> /\ x[1] \in DOMAIN map /\ x[2] \in InnerIndex
    BY LeavesAre
  <2>2. ~(x[1] = r /\ x[2] = i)
    BY <1>10, <2>1
  <2> QED BY <1>5, <2>1, <2>2 DEF Leaf
<1> QED BY <1>5, <1>6, <1>8, <1>9, <1>10 DEF Grown, new

-----------------------------------------------------------------------------
(* Accessors.                                                              *)

Accessor ==
    [root_coord : Point \cup {None}, inner_coord : Point \cup {None},
     inner_ptr : Point \cup {Nil}, leaf_ptr : (Point \X InnerIndex) \cup {Nil}]

(* What an accessor remembers is there, and where its keys say.            *)
Remembers(a, map) ==
    /\ a \in Accessor
    /\ a.inner_ptr # Nil => a.inner_ptr = a.root_coord /\ a.inner_ptr \in DOMAIN map
    /\ a.leaf_ptr # Nil =>
         /\ a.leaf_ptr \in Leaves(map)
         /\ \E c \in Point : a.inner_coord = getInnerKey(c) /\ a.leaf_ptr = Place(c)

LEMMA NotNil ==
    /\ \A r \in Point : r # Nil /\ r # None /\ r # Dangling
    /\ \A r, i : <<r, i>> # Nil /\ <<r, i>> # Dangling
    /\ Nil # Dangling
PROOF
<1>1. DOMAIN Nil = {} /\ Nil = None /\ Len(Dangling) = 1 /\ DOMAIN Dangling = 1 .. 1
  BY DEF Nil, None, Dangling
<1>2. ASSUME NEW r \in Point PROVE r # Nil /\ r # None /\ r # Dangling
  <2>1. DOMAIN r = 1 .. 3
    BY DEF Point, Axes
  <2>2. 1 .. 3 # {} /\ 1 .. 3 # 1 .. 1
    <3>1. 3 \in 1 .. 3 /\ 3 \notin 1 .. 1
      OBVIOUS
    <3> QED BY <3>1
  <2> QED BY <1>1, <2>1, <2>2
<1>3. ASSUME NEW r, NEW i PROVE <<r, i>> # Nil /\ <<r, i>> # Dangling
  BY DEF Nil, Dangling
<1>4. Nil # Dangling
  BY DEF Nil, Dangling
<1> QED BY <1>2, <1>3, <1>4

LEMMA Created ==
    ASSUME NEW map
    PROVE  Remembers(createAccessor, map) /\ createAccessor.inner_coord = None
  BY DEF Remembers, createAccessor, Accessor

LEMMA GrownIs ==
    ASSUME NEW map, NEW new, NEW p, Grown(map, new, p), NEW a, Remembers(a, map)
    PROVE  Remembers(a, new)
  BY DEF Grown, Remembers

(* What a voxel's leaf has, and that it is all that was there.             *)
Kept(map, new, c) ==
    /\ Grown(map, new, Place(c))
    /\ Place(c) \in Leaves(map) => Leaf(new, Place(c)) = Leaf(map, Place(c))
    /\ Place(c) \in Leaves(new) /\ Place(c) \notin Leaves(map) => Leaf(new, Place(c)) = NewLeaf

LEMMA getLeafGridIs ==
    ASSUME NEW map, Grid(map), NEW a, Remembers(a, map), NEW c \in Point, NEW create \in BOOLEAN,
           NEW g, g = getLeafGrid(a, map, c, create)
    PROVE  /\ g = [acc |-> g.acc, map |-> g.map, leaf |-> g.leaf]
           /\ Kept(map, g.map, c)
           /\ ~create => g.map = map
           /\ g.acc \in Accessor
           /\ g.acc.inner_ptr # Nil => /\ g.acc.inner_ptr = g.acc.root_coord
                                       /\ g.acc.inner_ptr \in DOMAIN g.map
           /\ g.leaf = IF Place(c) \in Leaves(g.map) THEN Place(c) ELSE Nil
           /\ create => Place(c) \in Leaves(g.map)
PROOF
<1> DEFINE r == getRootKey(c)
           i == getInnerIndex(c)
           p == <<r, i>>
           cached == a.root_coord = r /\ a.inner_ptr # Nil
           m == IF cached \/ r \in DOMAIN map \/ ~create THEN map ELSE Extended(map, r, NewInner)
           b == IF cached \/ r \notin DOMAIN m THEN a
                ELSE [a EXCEPT !.root_coord = r, !.inner_ptr = r]
           on == maskIsOn(m[r].mask, i)
           new == IF on THEN m ELSE WithLeaf(m, p, NewLeaf)
<1>1. r \in Point /\ i \in InnerIndex /\ p = Place(c)
  BY KeysAre DEF Place, InnerIndex
<1>2. /\ a \in Accessor
      /\ a.inner_ptr # Nil => a.inner_ptr = a.root_coord /\ a.inner_ptr \in DOMAIN map
  BY DEF Remembers
<1>3. g = CASE cached /\ a.inner_ptr = Dangling -> [acc |-> a, map |-> map, leaf |-> Dangling]
            [] r \notin DOMAIN m -> [acc |-> a, map |-> map, leaf |-> Nil]
            [] r \in DOMAIN m /\ ~create ->
                  [acc |-> b, map |-> m, leaf |-> IF on THEN p ELSE Nil]
            [] OTHER -> [acc |-> b, map |-> new, leaf |-> p]
  BY DEF getLeafGrid
<1>4. cached => r \in DOMAIN map /\ a.inner_ptr # Dangling
  BY <1>1, <1>2, NotNil
<1>5. /\ Grid(m) /\ Leaves(m) = Leaves(map) /\ DOMAIN map \subseteq DOMAIN m
      /\ \A x \in Leaves(map) : Leaf(m, x) = Leaf(map, x)
      /\ (create => r \in DOMAIN m) /\ (~create => m = map)
      /\ r \notin DOMAIN m => m = map
  <2>1. CASE cached \/ r \in DOMAIN map \/ ~create
    <3>1. m = map
      BY <2>1
    <3> QED BY <1>4, <2>1, <3>1
  <2>2. CASE ~(cached \/ r \in DOMAIN map \/ ~create)
    <3>1. m = Extended(map, r, NewInner)
      BY <2>2
    <3> HIDE DEF m, r
    <3> QED BY <1>1, <2>2, <3>1, ExtendedIs
  <2> QED BY <2>1, <2>2
<1>6. /\ b \in Accessor /\ (r \in DOMAIN m => b.inner_ptr = b.root_coord /\ b.inner_ptr \in DOMAIN m)
  <2>1. CASE cached \/ r \notin DOMAIN m
    <3>1. b = a
      BY <2>1
    <3> QED BY <1>2, <1>5, <2>1, <3>1
  <2>2. CASE ~(cached \/ r \notin DOMAIN m)
    <3>1. b = [a EXCEPT !.root_coord = r, !.inner_ptr = r]
      BY <2>2
    <3> HIDE DEF b, m, r
    <3> QED BY <1>1, <1>2, <2>2, <3>1 DEF Accessor
  <2> QED BY <2>1, <2>2
<1>7. r \in DOMAIN m => (on <=> p \in Leaves(m))
  <2>1. ASSUME r \in DOMAIN m PROVE on <=> p \in Leaves(m)
    <3>1. m[r] \in InnerGrid
      BY <1>5, <2>1 DEF Grid
    <3>2. i \in On(m[r].mask, InnerSize) <=> m[r].cell[i] # Nil
      <4> HIDE DEF m
      <4> QED BY <1>1, <3>1, InnerHas
    <3>3. p \in Leaves(m) <=> m[r].cell[i] # Nil
      <4> HIDE DEF m, r, i
      <4> QED BY <1>1, <1>5, <2>1, LeavesAre
    <3>4. on <=> i \in On(m[r].mask, InnerSize)
      <4> HIDE DEF m, r, i
      <4> QED BY <1>1 DEF On, InnerIndex
    <3> QED BY <3>2, <3>3, <3>4
  <2> QED BY <2>1
<1> HIDE DEF cached, m, b, on, r, i
<1>8. CASE r \notin DOMAIN m
  <2>1. g = [acc |-> a, map |-> map, leaf |-> Nil]
    BY <1>3, <1>4, <1>5, <1>8
  <2>2. p \notin Leaves(map)
    BY <1>5, <1>8, LeavesAre
  <2>3. ~create
    BY <1>5, <1>8
  <2>4. Kept(map, map, c)
    BY <1>1, <2>2 DEF Kept, Grown
  <2> QED BY <1>1, <1>2, <2>1, <2>2, <2>3, <2>4
<1>9. CASE r \in DOMAIN m /\ ~create
  <2>1. g = [acc |-> b, map |-> m, leaf |-> IF on THEN p ELSE Nil]
    BY <1>3, <1>4, <1>9
  <2>2. m = map
    BY <1>5, <1>9
  <2>3. Kept(map, map, c)
    BY <1>1 DEF Kept, Grown
  <2> QED BY <1>1, <1>6, <1>7, <1>9, <2>1, <2>2, <2>3
<1>10. CASE r \in DOMAIN m /\ create
  <2>1. g = [acc |-> b, map |-> new, leaf |-> p]
    BY <1>3, <1>4, <1>10
  <2>2. /\ Kept(map, new, c) /\ p \in Leaves(new) /\ DOMAIN new = DOMAIN m
    <3>1. CASE on
      <4>1. new = m
        BY <3>1
      <4>2. p \in Leaves(map)
        BY <1>5, <1>7, <1>10, <3>1
      <4>3. Grown(map, m, p)
        BY <1>5 DEF Grown
      <4> QED BY <1>1, <1>5, <4>1, <4>2, <4>3 DEF Kept
    <3>2. CASE ~on
      <4>1. new = WithLeaf(m, p, NewLeaf)
        BY <3>2
      <4>2. /\ Grown(m, new, p) /\ p \in Leaves(new) /\ Leaf(new, p) = NewLeaf
            /\ DOMAIN new = DOMAIN m
        BY <1>1, <1>5, <1>10, <4>1, WithLeafIs, NewGrids
      <4>3. p \notin Leaves(map)
        BY <1>5, <1>7, <1>10, <3>2
      <4> HIDE DEF new
      <4>4. Grown(map, new, p)
        BY <1>5, <4>2 DEF Grown
      <4> QED BY <1>1, <4>2, <4>3, <4>4 DEF Kept
    <3> QED BY <3>1, <3>2
  <2> HIDE DEF new, p
  <2>3. g = [acc |-> g.acc, map |-> g.map, leaf |-> g.leaf] /\ g.acc = b /\ g.map = new /\ g.leaf = p
    BY <2>1
  <2> QED BY <1>1, <1>6, <1>10, <2>2, <2>3
<1> QED BY <1>8, <1>9, <1>10

LEMMA cached_leafIs ==
    ASSUME NEW map, Grid(map), NEW a, Remembers(a, map), NEW c \in Point,
           NEW create \in BOOLEAN, NEW retry \in BOOLEAN,
           NEW g, g = cached_leaf(a, map, c, create, retry)
    PROVE  /\ Kept(map, g.map, c)
           /\ ~create => g.map = map
           /\ Remembers(g.acc, g.map)
           /\ g.acc.inner_coord = getInnerKey(c) /\ g.acc.leaf_ptr = g.leaf
           /\ g.leaf = Nil \/ (g.leaf = Place(c) /\ Place(c) \in Leaves(g.map))
           /\ g.leaf = Nil => Misses(a, c) \/ Place(c) \notin Leaves(g.map)
PROOF
<1> DEFINE h == getLeafGrid(a, map, c, create)
           new == [h.acc EXCEPT !.inner_coord = getInnerKey(c), !.leaf_ptr = h.leaf]
           p == Place(c)
<1>1. CASE getInnerKey(c) = a.inner_coord /\ ~(retry /\ a.leaf_ptr = Nil)
  <2>1. g = [acc |-> a, map |-> map, leaf |-> a.leaf_ptr]
    BY <1>1 DEF cached_leaf
  <2>2. Kept(map, map, c)
    BY DEF Kept, Grown
  <2>3. a.leaf_ptr = Nil \/ (a.leaf_ptr = Place(c) /\ Place(c) \in Leaves(map))
    <3>1. ASSUME a.leaf_ptr # Nil PROVE a.leaf_ptr = Place(c) /\ Place(c) \in Leaves(map)
      <4>1. PICK d \in Point : a.inner_coord = getInnerKey(d) /\ a.leaf_ptr = Place(d)
        BY <3>1 DEF Remembers
      <4>2. Place(d) = Place(c)
        BY <1>1, <4>1, OneLeaf
      <4> QED BY <3>1, <4>1, <4>2 DEF Remembers
    <3> QED BY <3>1
  <2>4. a.leaf_ptr = Nil => Misses(a, c)
    BY <1>1 DEF Misses
  <2> QED BY <1>1, <2>1, <2>2, <2>3, <2>4
<1>2. CASE ~(getInnerKey(c) = a.inner_coord /\ ~(retry /\ a.leaf_ptr = Nil))
  <2>1. g = [h EXCEPT !.acc.inner_coord = getInnerKey(c), !.acc.leaf_ptr = h.leaf]
    BY <1>2 DEF cached_leaf
  <2>2. /\ h = [acc |-> h.acc, map |-> h.map, leaf |-> h.leaf]
        /\ Kept(map, h.map, c)
        /\ ~create => h.map = map
        /\ h.acc \in Accessor
        /\ h.acc.inner_ptr # Nil => h.acc.inner_ptr = h.acc.root_coord /\ h.acc.inner_ptr \in DOMAIN h.map
        /\ h.leaf = IF p \in Leaves(h.map) THEN p ELSE Nil
    <3> HIDE DEF h
    <3> QED BY getLeafGridIs DEF h
  <2> HIDE DEF h
  <2>3. g = [acc |-> new, map |-> h.map, leaf |-> h.leaf]
    BY <2>1, <2>2
  <2>4. getInnerKey(c) \in Point /\ p \in Point \X InnerIndex
    BY KeysAre DEF Place, InnerIndex
  <2>5. /\ new \in Accessor /\ new.inner_coord = getInnerKey(c) /\ new.leaf_ptr = h.leaf
        /\ new.inner_ptr = h.acc.inner_ptr /\ new.root_coord = h.acc.root_coord
    <3> HIDE DEF p
    <3> QED BY <2>2, <2>4 DEF Accessor
  <2> HIDE DEF new
  <2>6. Remembers(new, h.map)
    BY <2>2, <2>5 DEF Remembers
  <2>7. p # Nil
    BY NotNil DEF Place
  <2>8. g.acc = new /\ g.map = h.map /\ g.leaf = h.leaf
    BY <2>3
  <2> QED BY <2>2, <2>5, <2>6, <2>7, <2>8
<1> QED BY <1>1, <1>2

(* What is kept of a voxel.                                                *)
At(map, c) ==
    IF Place(c) \in Leaves(map) THEN Leaf(map, Place(c)).cell[getLeafIndex(c)] ELSE Off

LEMMA valueIs ==
    ASSUME NEW map, Grid(map), NEW a, Remembers(a, map), NEW c \in Point, ~Misses(a, c)
    PROVE  value(a, map, c) = At(map, c)
PROOF
<1> DEFINE g == cached_leaf(a, map, c, FALSE, FALSE)
<1>1. /\ g.map = map
      /\ g.leaf = Nil \/ (g.leaf = Place(c) /\ Place(c) \in Leaves(g.map))
      /\ g.leaf = Nil => Place(c) \notin Leaves(g.map)
  <2> DEFINE no == FALSE
  <2>1. g = cached_leaf(a, map, c, no, no) /\ no \in BOOLEAN /\ ~no
    OBVIOUS
  <2> HIDE DEF g, no
  <2> QED BY <2>1, cached_leafIs
<1>2. value(a, map, c) = CASE g.leaf = Nil -> Off
                           [] g.leaf = Dangling -> Undefined
                           [] OTHER -> Leaf(map, g.leaf).cell[getLeafIndex(c)]
  BY DEF value
<1> HIDE DEF g
<1>3. Place(c) # Nil /\ Place(c) # Dangling /\ Nil # Dangling
  BY NotNil DEF Place
<1>4. CASE g.leaf = Nil
  <2>1. value(a, map, c) = Off
    BY <1>2, <1>3, <1>4
  <2> QED BY <1>1, <1>4, <2>1 DEF At
<1>5. CASE g.leaf # Nil
  <2>1. g.leaf = Place(c) /\ Place(c) \in Leaves(map)
    BY <1>1, <1>5
  <2>2. value(a, map, c) = Leaf(map, g.leaf).cell[getLeafIndex(c)]
    BY <1>2, <1>3, <1>5, <2>1
  <2> QED BY <2>1, <2>2 DEF At
<1> QED BY <1>4, <1>5

-----------------------------------------------------------------------------
(* The invariant.                                                          *)

(* The grid keeps what was written, and only that.                         *)
Stores(map, values) ==
    /\ Grid(map)
    /\ values \in [Coords -> Cell] /\ \A c \in Coords : values[c] = At(map, c)
    /\ \A p \in Leaves(map), n \in LeafIndex : Leaf(map, p).cell[n] # Off =>
          \E c \in Coords : Place(c) = p /\ getLeafIndex(c) = n

Inv ==
    /\ Stores(root_map, content)
    /\ acc \in [Accessors -> Accessor] /\ \A a \in Accessors : Remembers(acc[a], root_map)
    /\ acc["map"].inner_coord = None \/ acc["map"].leaf_ptr # Nil

(* A voxel is found by its place and its index there.                      *)
LEMMA OneVoxel ==
    /\ Coords \subseteq Point /\ IsFiniteSet(Coords)
    /\ \A c \in Coords : getLeafIndex(c) \in LeafIndex
    /\ \A c \in Coords, d \in Coords :
          Place(c) = Place(d) /\ getLeafIndex(c) = getLeafIndex(d) => c = d
PROOF
<1>1. Coords \subseteq Point /\ IsFiniteSet(Coords)
  BY CoordsAssumption
<1>2. ASSUME NEW c \in Coords, NEW d \in Coords,
             Place(c) = Place(d), getLeafIndex(c) = getLeafIndex(d)
      PROVE  c = d
  <2>1. getRootKey(c) = getRootKey(d) /\ getInnerIndex(c) = getInnerIndex(d)
    BY <1>2 DEF Place
  <2>2. CoordOf(getRootKey(c), getInnerIndex(c), getLeafIndex(c)) = c
    BY <1>1, KeysAre
  <2>3. CoordOf(getRootKey(d), getInnerIndex(d), getLeafIndex(d)) = d
    BY <1>1, KeysAre
  <2> QED BY <1>2, <2>1, <2>2, <2>3
<1>3. \A c \in Coords : getLeafIndex(c) \in LeafIndex
  BY <1>1, KeysAre DEF LeafIndex
<1> QED BY <1>1, <1>2, <1>3

(* One cell of a leaf is written.                                          *)
LEMMA CellIs ==
    ASSUME NEW map, Grid(map), NEW p \in Leaves(map), NEW n \in LeafIndex, NEW v \in Cell,
           NEW new, new = IF v = Off THEN CellOff(map, p, n) ELSE CellOn(map, p, n, v)
    PROVE  /\ Grown(map, new, p) /\ Leaves(new) = Leaves(map)
           /\ \A k \in LeafIndex : Leaf(new, p).cell[k] = IF k = n THEN v ELSE Leaf(map, p).cell[k]
PROOF
<1> DEFINE l == Leaf(map, p)
           mask == IF v = Off THEN setOff(l.mask, n) ELSE setOn(l.mask, n)
           cell == [l.cell EXCEPT ![n] = v]
           leaf == [mask |-> mask, cell |-> cell]
<1>1. p = <<p[1], p[2]>> /\ p[1] \in DOMAIN map /\ p[2] \in InnerIndex /\ l \in LeafGrid
  BY LeavesAre
<1>2. new = WithLeaf(map, p, leaf)
  BY DEF CellOn, CellOff
<1> HIDE DEF l
<1>3. /\ l.mask \in Mask(LeafSize) /\ l.cell \in [LeafIndex -> Cell]
      /\ \A k \in LeafIndex : k \in On(l.mask, LeafSize) <=> l.cell[k] # Off
  BY <1>1, LeafHas
<1>4. /\ mask \in Mask(LeafSize)
      /\ On(mask, LeafSize) = IF v = Off THEN On(l.mask, LeafSize) \ {n} ELSE On(l.mask, LeafSize) \cup {n}
  BY <1>3, SizesFit, OnOps DEF LeafIndex
<1>5. cell \in [LeafIndex -> Cell] /\ \A k \in LeafIndex : cell[k] = IF k = n THEN v ELSE l.cell[k]
  BY <1>3
<1> HIDE DEF mask, cell
<1>6. leaf \in LeafGrid
  <2>1. \A k \in LeafIndex : k \in On(mask, LeafSize) <=> cell[k] # Off
    BY <1>3, <1>4, <1>5
  <2> QED BY <1>4, <1>5, <2>1, LeafIs
<1>7. leaf.cell = cell
  OBVIOUS
<1> HIDE DEF leaf
<1>8. Grown(map, new, p) /\ Leaf(new, p) = leaf
  BY <1>1, <1>2, <1>6, WithLeafIs
<1>9. Leaves(new) = Leaves(map)
  BY <1>8 DEF Grown
<1> QED BY <1>5, <1>7, <1>8, <1>9 DEF l

(* What was written is kept, and the rest stays.                           *)
LEMMA Stored ==
    ASSUME NEW map, NEW values, Stores(map, values), NEW c \in Coords, NEW mid, Kept(map, mid, c),
           Place(c) \in Leaves(mid), NEW v \in Cell,
           NEW new, new = IF v = Off THEN CellOff(mid, Place(c), getLeafIndex(c))
                                     ELSE CellOn(mid, Place(c), getLeafIndex(c), v)
    PROVE  Stores(new, [values EXCEPT ![c] = v]) /\ Grown(map, new, Place(c))
PROOF
<1> DEFINE p == Place(c)
           n == getLeafIndex(c)
<1>1. /\ Grid(map) /\ Grid(mid) /\ Grown(map, mid, p) /\ Leaves(mid) = Leaves(map) \cup {p}
      /\ p \in Leaves(map) => Leaf(mid, p) = Leaf(map, p)
      /\ p \notin Leaves(map) => Leaf(mid, p) = NewLeaf
  BY DEF Stores, Kept, Grown
<1>2. n \in LeafIndex
  BY OneVoxel
<1>3. /\ Grown(mid, new, p) /\ Leaves(new) = Leaves(mid)
      /\ \A k \in LeafIndex : Leaf(new, p).cell[k] = IF k = n THEN v ELSE Leaf(mid, p).cell[k]
  BY <1>1, <1>2, CellIs
<1> HIDE DEF p, n
<1>4. Grown(map, new, p)
  BY <1>1, <1>3 DEF Grown
<1>5. \A k \in LeafIndex : Leaf(mid, p).cell[k] =
            IF p \in Leaves(map) THEN Leaf(map, p).cell[k] ELSE Off
  BY <1>1, NewGrids
<1>6. \A x \in Leaves(new) : x # p => x \in Leaves(map) /\ Leaf(new, x) = Leaf(map, x)
  BY <1>1, <1>3, <1>4 DEF Grown
<1>7. ASSUME NEW d \in Coords PROVE At(new, d) = IF d = c THEN v ELSE values[d]
  <2>1. getLeafIndex(d) \in LeafIndex /\ values[d] = At(map, d)
    BY OneVoxel DEF Stores
  <2>2. CASE Place(d) = p
    <3>1. getLeafIndex(d) = n <=> d = c
      BY <2>2, OneVoxel DEF p, n
    <3>2. p \in Leaves(new)
      BY <1>1, <1>3
    <3> QED BY <1>3, <1>5, <2>1, <2>2, <3>1, <3>2 DEF At
  <2>3. CASE Place(d) # p
    <3>1. d # c
      BY <2>3 DEF p
    <3>2. Place(d) \in Leaves(new) <=> Place(d) \in Leaves(map)
      BY <1>1, <1>3, <2>3
    <3> QED BY <1>6, <2>1, <2>3, <3>1, <3>2 DEF At
  <2> QED BY <2>2, <2>3
<1>8. ASSUME NEW x \in Leaves(new), NEW k \in LeafIndex, Leaf(new, x).cell[k] # Off
      PROVE  \E d \in Coords : Place(d) = x /\ getLeafIndex(d) = k
  <2>1. CASE x = p /\ k = n
    BY <2>1 DEF p, n
  <2>2. CASE ~(x = p /\ k = n)
    <3>1. x \in Leaves(map) /\ Leaf(map, x).cell[k] # Off
      BY <1>3, <1>5, <1>6, <1>8, <2>2
    <3> QED BY <3>1 DEF Stores
  <2> QED BY <2>1, <2>2
<1>9. /\ [values EXCEPT ![c] = v] \in [Coords -> Cell]
      /\ \A d \in Coords : [values EXCEPT ![c] = v][d] = At(new, d)
  BY <1>7 DEF Stores
<1> QED BY <1>4, <1>8, <1>9 DEF Stores, Grown, p

LEMMA WriteStep ==
    ASSUME Inv, NEW a \in Accessors, NEW c \in Coords, NEW v \in Cell,
           NEW create \in BOOLEAN, NEW retry \in BOOLEAN,
           Write(a, cached_leaf(acc[a], root_map, c, create, retry), c, v)
    PROVE  Inv'
PROOF
<1> DEFINE g == cached_leaf(acc[a], root_map, c, create, retry)
           p == Place(c)
<1>1. c \in Point /\ Stores(root_map, content) /\ Grid(root_map) /\ Remembers(acc[a], root_map)
  BY OneVoxel DEF Inv, Stores
<1>2. /\ Kept(root_map, g.map, c)
      /\ Remembers(g.acc, g.map)
      /\ g.acc.leaf_ptr = g.leaf
      /\ g.leaf = Nil \/ (g.leaf = p /\ p \in Leaves(g.map))
  <2> HIDE DEF g
  <2> QED BY <1>1, cached_leafIs DEF g
<1>3. /\ g.leaf \notin {Nil, Dangling}
      /\ acc' = [acc EXCEPT ![a] = g.acc]
      /\ root_map' = IF v = Off THEN CellOff(g.map, g.leaf, getLeafIndex(c))
                                ELSE CellOn(g.map, g.leaf, getLeafIndex(c), v)
      /\ content' = [content EXCEPT ![c] = v]
  BY DEF Write
<1> HIDE DEF g
<1>4. g.leaf = p /\ p \in Leaves(g.map)
  BY <1>2, <1>3
<1>5. Stores(root_map', content') /\ Grown(root_map, root_map', p)
  <2> DEFINE new == root_map'
             values == [content EXCEPT ![c] = v]
  <2>1. new = IF v = Off THEN CellOff(g.map, Place(c), getLeafIndex(c))
                         ELSE CellOn(g.map, Place(c), getLeafIndex(c), v)
    BY <1>3, <1>4
  <2> HIDE DEF new
  <2>2. Stores(new, values) /\ Grown(root_map, new, p)
    BY <1>1, <1>2, <1>4, <2>1, Stored
  <2> QED BY <1>3, <2>2 DEF new
<1>6. Remembers(g.acc, root_map')
  <2>1. Grid(g.map) /\ getLeafIndex(c) \in LeafIndex
    BY <1>2, OneVoxel DEF Kept, Grown
  <2> DEFINE new == root_map'
  <2>2. new = IF v = Off THEN CellOff(g.map, p, getLeafIndex(c))
                         ELSE CellOn(g.map, p, getLeafIndex(c), v)
    BY <1>3, <1>4
  <2> HIDE DEF new, p
  <2>3. Grown(g.map, new, p)
    BY <1>4, <2>1, <2>2, CellIs
  <2> QED BY <1>2, <2>3, GrownIs DEF new
<1>7. \A b \in Accessors : Remembers(acc[b], root_map')
  BY <1>5, GrownIs DEF Inv
<1>8. /\ acc \in [Accessors -> Accessor] /\ g.acc \in Accessor
      /\ acc["map"].inner_coord = None \/ acc["map"].leaf_ptr # Nil
  BY <1>2 DEF Inv, Remembers
<1>9. /\ acc' \in [Accessors -> Accessor]
      /\ \A b \in Accessors : acc'[b] = IF b = a THEN g.acc ELSE acc[b]
  BY <1>3, <1>8
<1>10. acc'["map"].inner_coord = None \/ acc'["map"].leaf_ptr # Nil
  BY <1>2, <1>3, <1>8, <1>9 DEF Accessors
<1> QED BY <1>5, <1>6, <1>7, <1>9, <1>10 DEF Inv

(* A look through an accessor that is not OccupancyMap's.                  *)
LEMMA LookStep ==
    ASSUME Inv, NEW a \in Accessors \ {"map"}, NEW c \in Coords,
           acc' = [acc EXCEPT ![a] = cached_leaf(acc[a], root_map, c, FALSE, FALSE).acc],
           UNCHANGED <<root_map, content>>
    PROVE  Inv'
PROOF
<1> DEFINE no == FALSE
           g == cached_leaf(acc[a], root_map, c, no, no)
<1>1. c \in Point /\ Grid(root_map) /\ Remembers(acc[a], root_map) /\ no \in BOOLEAN /\ ~no
  BY OneVoxel DEF Inv, Stores
<1>2. acc' = [acc EXCEPT ![a] = g.acc]
  OBVIOUS
<1> HIDE DEF no
<1>3. g.map = root_map /\ Remembers(g.acc, g.map)
  <2> HIDE DEF g
  <2> QED BY <1>1, cached_leafIs DEF g
<1> HIDE DEF g
<1>4. acc \in [Accessors -> Accessor] /\ g.acc \in Accessor /\ "map" \in Accessors
  BY <1>3 DEF Inv, Remembers, Accessors
<1>5. acc' \in [Accessors -> Accessor] /\ \A b \in Accessors : acc'[b] = IF b = a THEN g.acc ELSE acc[b]
  BY <1>2, <1>4
<1>6. \A b \in Accessors : Remembers(acc'[b], root_map)
  BY <1>3, <1>5 DEF Inv
<1>7. acc'["map"] = acc["map"]
  BY <1>4, <1>5
<1> QED BY <1>5, <1>6, <1>7 DEF Inv

LEMMA setCellOnStep ==
    ASSUME Inv, NEW c \in Coords, setCellOn(c)
    PROVE  Inv'
PROOF
<1> DEFINE yes == TRUE
           no == FALSE
           g == cached_leaf(acc["client"], root_map, c, yes, no)
           n == getLeafIndex(c)
<1>1. g.leaf \notin {Nil, Dangling} /\ Write("client", g, c, OldOr0(g, c))
  BY DEF setCellOn
<1>2. "client" \in Accessors /\ yes \in BOOLEAN /\ no \in BOOLEAN
  BY DEF Accessors
<1> HIDE DEF yes, no
<1>3. OldOr0(g, c) \in Cell
  <2>1. c \in Point /\ Grid(root_map) /\ Remembers(acc["client"], root_map) /\ n \in LeafIndex
    BY <1>2, OneVoxel DEF Inv, Stores
  <2>2. /\ g.leaf = Nil \/ (g.leaf = Place(c) /\ Place(c) \in Leaves(g.map))
        /\ Grid(g.map)
    <3> HIDE DEF g
    <3>1. Kept(root_map, g.map, c) /\ (g.leaf = Nil \/ (g.leaf = Place(c) /\ Place(c) \in Leaves(g.map)))
      BY <1>2, <2>1, cached_leafIs DEF g
    <3> QED BY <3>1 DEF Kept, Grown
  <2> HIDE DEF g, n
  <2>3. Leaf(g.map, g.leaf) \in LeafGrid
    BY <1>1, <2>2, LeavesAre
  <2>4. Leaf(g.map, g.leaf).cell[n] \in Cell
    BY <2>1, <2>3, LeafHas
  <2> QED BY <2>4, ValuesAre DEF OldOr0, n
<1> DEFINE v == OldOr0(g, c)
<1>4. Write("client", cached_leaf(acc["client"], root_map, c, yes, no), c, v)
  BY <1>1
<1> HIDE DEF v, g
<1> QED BY <1>2, <1>3, <1>4, WriteStep DEF v

LEMMA setCellOffStep ==
    ASSUME Inv, NEW c \in Coords, setCellOff(c)
    PROVE  Inv'
PROOF
<1> DEFINE no == FALSE
           g == cached_leaf(acc["client"], root_map, c, no, no)
<1>1. "client" \in Accessors \ {"map"} /\ no \in BOOLEAN /\ Off \in Cell
  BY ValuesAre DEF Accessors
<1>2. CASE Write("client", g, c, Off)
  <2> HIDE DEF no
  <2> QED BY <1>1, <1>2, WriteStep
<1>3. CASE acc' = [acc EXCEPT !["client"] = g.acc] /\ UNCHANGED <<root_map, content>>
  BY <1>1, <1>3, LookStep
<1> QED BY <1>2, <1>3 DEF setCellOff

(* The leaves that are freed hold nothing.                                 *)
LEMMA ReleasedIs ==
    ASSUME Grid(root_map)
    PROVE  /\ Grid(Released) /\ Leaves(Released) \subseteq Leaves(root_map)
           /\ \A p \in Leaves(Released) : Leaf(Released, p) = Leaf(root_map, p)
           /\ \A p \in Leaves(root_map) : p \notin Leaves(Released) =>
                 \A n \in LeafIndex : Leaf(root_map, p).cell[n] = Off
PROOF
<1> DEFINE D == DOMAIN root_map
           mask(r) == [w \in DOMAIN root_map[r].mask |->
                         {b \in root_map[r].mask[w] : <<r, w * WordBits + b>> \notin Freed}]
           cell(r) == [n \in 0 .. InnerSize - 1 |->
                         IF <<r, n>> \in Freed THEN Nil ELSE root_map[r].cell[n]]
           inner(r) == [mask |-> mask(r), cell |-> cell(r)]
           L == {k \in D : ~maskIsOff(inner(k).mask)}
           new == [r \in L |-> inner(r)]
<1>1. Released = new
  BY DEF Released
<1>2. Freed \subseteq Leaves(root_map) /\ \A p \in Freed : maskIsOff(Leaf(root_map, p).mask)
  BY DEF Freed
<1>3. ASSUME NEW r \in D
      PROVE  /\ inner(r) \in InnerGrid /\ inner(r).mask = mask(r) /\ inner(r).cell = cell(r)
             /\ ~maskIsOff(mask(r)) <=> \E i \in InnerIndex : cell(r)[i] # Nil
  <2> DEFINE m == root_map[r].mask
             c == root_map[r].cell
  <2>1. root_map[r] \in InnerGrid
    BY DEF Grid
  <2>2. /\ m \in Mask(InnerSize) /\ c \in [InnerIndex -> LeafGrid \cup {Nil}]
        /\ \A n \in InnerIndex : n \in On(m, InnerSize) <=> c[n] # Nil
    BY <2>1, InnerHas
  <2>3. inner(r).mask = mask(r) /\ inner(r).cell = cell(r)
    OBVIOUS
  <2> DEFINE mr == mask(r)
             cr == cell(r)
  <2>4. mr \in Mask(InnerSize)
    <3>1. /\ m \in [0 .. WordCount(InnerSize) - 1 -> SUBSET (0 .. WordBits - 1)]
          /\ \A w \in DOMAIN m : \A b \in m[w] : w * WordBits + b < InnerSize
      BY <2>2 DEF Mask
    <3>2. DOMAIN mr = DOMAIN m /\ \A w \in DOMAIN m : mr[w] \subseteq m[w]
      OBVIOUS
    <3>3. mr \in [DOMAIN m -> SUBSET (0 .. WordBits - 1)]
      <4>1. mr = [w \in DOMAIN m |-> mr[w]]
        OBVIOUS
      <4>2. \A w \in DOMAIN m : mr[w] \in SUBSET (0 .. WordBits - 1)
        BY <3>1, <3>2
      <4> HIDE DEF mr, m
      <4> QED BY <4>1, <4>2
    <3>4. DOMAIN m = 0 .. WordCount(InnerSize) - 1
      BY <3>1
    <3> HIDE DEF mr, m
    <3> QED BY <3>1, <3>2, <3>3, <3>4 DEF Mask
  <2>5. cr \in [InnerIndex -> LeafGrid \cup {Nil}]
        /\ \A n \in InnerIndex : cr[n] = IF <<r, n>> \in Freed THEN Nil ELSE c[n]
    <3>1. cr = [n \in InnerIndex |-> IF <<r, n>> \in Freed THEN Nil ELSE c[n]]
      BY DEF InnerIndex
    <3> HIDE DEF c, cr
    <3> QED BY <2>2, <3>1
  <2>6. ASSUME NEW n \in InnerIndex
        PROVE  n \in On(mr, InnerSize) <=> n \in On(m, InnerSize) /\ <<r, n>> \notin Freed
    <3> DEFINE w == n \div WordBits
               b == n % WordBits
    <3>1. w \in DOMAIN m /\ w * WordBits + b = n
      <4>1. w \in 0 .. WordCount(InnerSize) - 1 /\ n = w * WordBits + b
        BY SizesFit, WordsAre DEF InnerIndex
      <4>2. DOMAIN m = 0 .. WordCount(InnerSize) - 1
        BY <2>2 DEF Mask
      <4> HIDE DEF w, b, m
      <4> QED BY <4>1, <4>2
    <3>2. mr[w] = {x \in m[w] : <<r, w * WordBits + x>> \notin Freed}
      BY <3>1
    <3>3. \A x : maskIsOn(x, n) <=> b \in x[w]
      BY DEF maskIsOn
    <3> HIDE DEF w, b, m, mr
    <3>4. b \in mr[w] <=> b \in m[w] /\ <<r, n>> \notin Freed
      BY <3>1, <3>2
    <3> QED BY <3>3, <3>4 DEF On, InnerIndex
  <2> HIDE DEF m, c, mr, cr
  <2>7. \A n \in InnerIndex : n \in On(mr, InnerSize) <=> cr[n] # Nil
    BY <2>2, <2>5, <2>6
  <2>8. inner(r) \in InnerGrid
    <3>1. inner(r) = [mask |-> mr, cell |-> cr]
      BY DEF mr, cr
    <3> HIDE DEF inner
    <3> QED BY <2>4, <2>5, <2>7, <3>1, InnerIs
  <2>9. ~maskIsOff(mr) <=> \E i \in InnerIndex : cr[i] # Nil
    <3>1. maskIsOff(mr) <=> On(mr, InnerSize) = {}
      BY <2>4, SizesFit, OnNew
    <3>2. On(mr, InnerSize) \subseteq InnerIndex
      BY DEF On, InnerIndex
    <3> QED BY <2>7, <3>1, <3>2
  <2> QED BY <2>3, <2>8, <2>9 DEF mr, cr
<1>4. \A r \in D : r \in L <=> \E i \in InnerIndex : cell(r)[i] # Nil
  <2> HIDE DEF cell, mask, inner
  <2> QED BY <1>3
<1>5. \A r \in D, n \in InnerIndex : cell(r)[n] = IF <<r, n>> \in Freed THEN Nil ELSE root_map[r].cell[n]
  BY DEF InnerIndex
<1>6. L \subseteq D /\ \A r \in L : inner(r) \in InnerGrid /\ inner(r).cell = cell(r)
  <2> HIDE DEF inner
  <2> QED BY <1>3
<1> HIDE DEF inner, cell, mask, L, new
<1>7. new = [r \in L |-> inner(r)]
  BY DEF new
<1>8. Grid(new)
  <2>1. D \subseteq Point /\ IsFiniteSet(D)
    BY DEF Grid
  <2>2. IsFiniteSet(L)
    BY <1>6, <2>1, FS_Subset
  <2>3. DOMAIN new = L /\ new \in [L -> InnerGrid]
    BY <1>6, <1>7
  <2> QED BY <1>6, <2>1, <2>2, <2>3 DEF Grid
<1>9. ASSUME NEW r, NEW i
      PROVE  <<r, i>> \in Leaves(new) <=> <<r, i>> \in Leaves(root_map) /\ <<r, i>> \notin Freed
  <2>1. <<r, i>> \in Leaves(new) <=> r \in L /\ i \in InnerIndex /\ new[r].cell[i] # Nil
    <3>1. DOMAIN new = L
      BY <1>7
    <3> QED BY <1>8, <3>1, LeavesAre
  <2>2. r \in L => new[r].cell = cell(r) /\ r \in D
    BY <1>6, <1>7
  <2>3. <<r, i>> \in Leaves(root_map) <=> r \in D /\ i \in InnerIndex /\ root_map[r].cell[i] # Nil
    BY LeavesAre
  <2> HIDE DEF D
  <2> QED BY <1>4, <1>5, <2>1, <2>2, <2>3
<1>10. \A p \in Leaves(new) \cup Leaves(root_map) : p = <<p[1], p[2]>>
  BY <1>8, LeavesAre
<1>11. \A p \in Leaves(new) \cup Leaves(root_map) :
          p \in Leaves(new) <=> p \in Leaves(root_map) /\ p \notin Freed
  BY <1>9, <1>10
<1>12. ASSUME NEW p \in Leaves(new) PROVE Leaf(new, p) = Leaf(root_map, p)
  <2>1. p = <<p[1], p[2]>> /\ p[1] \in L /\ p[2] \in InnerIndex /\ p \notin Freed
    <3>1. DOMAIN new = L
      BY <1>7
    <3> QED BY <1>8, <1>11, <3>1, LeavesAre
  <2>2. new[p[1]].cell[p[2]] = root_map[p[1]].cell[p[2]]
    BY <1>5, <1>6, <1>7, <2>1
  <2> QED BY <2>2 DEF Leaf
<1>13. ASSUME NEW p \in Leaves(root_map), p \in Freed, NEW n \in LeafIndex PROVE Leaf(root_map, p).cell[n] = Off
  <2> DEFINE l == Leaf(root_map, p)
  <2>1. l \in LeafGrid /\ maskIsOff(l.mask)
    BY <1>2, <1>13, LeavesAre
  <2> HIDE DEF l
  <2>2. On(l.mask, LeafSize) = {}
    BY <2>1, LeafHas, SizesFit, OnNew
  <2> QED BY <2>1, <2>2, LeafHas DEF l
<1> QED BY <1>1, <1>8, <1>11, <1>12, <1>13

LEMMA releaseStep ==
    ASSUME Inv, releaseUnusedMemory
    PROVE  Inv'
PROOF
<1>1. /\ root_map' = Released /\ acc' = [a \in Accessors |-> createAccessor] /\ content' = content
      /\ Stores(root_map, content) /\ Grid(root_map)
  BY DEF Inv, releaseUnusedMemory, Stores
<1> DEFINE new == Released
<1>2. /\ Grid(new) /\ Leaves(new) \subseteq Leaves(root_map)
      /\ \A p \in Leaves(new) : Leaf(new, p) = Leaf(root_map, p)
      /\ \A p \in Leaves(root_map) : p \notin Leaves(new) =>
            \A n \in LeafIndex : Leaf(root_map, p).cell[n] = Off
  BY <1>1, ReleasedIs
<1> HIDE DEF new
<1>3. \A c \in Coords : At(new, c) = At(root_map, c)
  BY <1>2, OneVoxel DEF At
<1>4. Stores(new, content)
  BY <1>1, <1>2, <1>3 DEF Stores
<1>5. \A a \in Accessors : acc'[a] = createAccessor
  BY <1>1
<1>6. "map" \in Accessors /\ createAccessor \in Accessor
  BY Created DEF Accessors, Remembers
<1> QED BY <1>1, <1>4, <1>5, <1>6, Created DEF Inv, new

LEMMA clearStep ==
    ASSUME Inv, clear
    PROVE  Inv'
PROOF
<1> DEFINE D == DOMAIN root_map
           cell(r) == [n \in 0 .. InnerSize - 1 |->
                         IF <<r, n>> \in Leaves(root_map) THEN NewLeaf ELSE root_map[r].cell[n]]
           inner(r) == [root_map[r] EXCEPT !.cell = cell(r)]
           new == [r \in D |-> inner(r)]
           off == [c \in Coords |-> Off]
<1>1. root_map' = new /\ content' = off /\ acc' = acc
  BY DEF clear
<1>2. Grid(root_map) /\ D \subseteq Point /\ IsFiniteSet(D) /\ \A r \in D : root_map[r] \in InnerGrid
  BY DEF Inv, Stores, Grid
<1>3. ASSUME NEW r \in D
      PROVE  /\ inner(r) \in InnerGrid /\ inner(r).cell = cell(r)
             /\ \A n \in InnerIndex : cell(r)[n] = IF <<r, n>> \in Leaves(root_map) THEN NewLeaf ELSE Nil
  <2>1. /\ root_map[r] = [mask |-> root_map[r].mask, cell |-> root_map[r].cell]
        /\ root_map[r].mask \in Mask(InnerSize)
        /\ root_map[r].cell \in [InnerIndex -> LeafGrid \cup {Nil}]
        /\ \A n \in InnerIndex : n \in On(root_map[r].mask, InnerSize) <=> root_map[r].cell[n] # Nil
    BY <1>2, InnerHas
  <2>2. inner(r) = [mask |-> root_map[r].mask, cell |-> cell(r)]
    <3> HIDE DEF cell
    <3> QED BY <2>1
  <2>3. \A n \in InnerIndex : <<r, n>> \in Leaves(root_map) <=> root_map[r].cell[n] # Nil
    BY <1>2, LeavesAre
  <2>4. \A n \in InnerIndex : cell(r)[n] = IF <<r, n>> \in Leaves(root_map) THEN NewLeaf ELSE Nil
    BY <2>3 DEF InnerIndex
  <2> DEFINE c == cell(r)
  <2>5. c \in [InnerIndex -> LeafGrid \cup {Nil}]
    <3>1. c = [n \in InnerIndex |-> c[n]]
      BY DEF InnerIndex
    <3> HIDE DEF c
    <3> QED BY <2>4, <3>1, NewGrids DEF c
  <2> HIDE DEF cell, inner
  <2>6. \A n \in InnerIndex : n \in On(root_map[r].mask, InnerSize) <=> c[n] # Nil
    BY <2>1, <2>3, <2>4, NewGrids, LeafHas
  <2> HIDE DEF c
  <2>7. [mask |-> root_map[r].mask, cell |-> c] \in InnerGrid
    BY <2>1, <2>5, <2>6, InnerIs
  <2> QED BY <2>2, <2>4, <2>7 DEF c
<1> HIDE DEF inner, cell, new
<1>4. new = [r \in D |-> inner(r)]
  BY DEF new
<1>5. Grid(new) /\ DOMAIN new = D
  <2>1. DOMAIN new = D /\ new \in [D -> InnerGrid]
    BY <1>3, <1>4
  <2> QED BY <1>2, <2>1 DEF Grid
<1>6. ASSUME NEW r, NEW i PROVE <<r, i>> \in Leaves(new) <=> <<r, i>> \in Leaves(root_map)
  <2>1. <<r, i>> \in Leaves(new) <=> r \in D /\ i \in InnerIndex /\ new[r].cell[i] # Nil
    BY <1>5, LeavesAre
  <2>2. <<r, i>> \in Leaves(root_map) => r \in D /\ i \in InnerIndex
    BY <1>2, LeavesAre
  <2>3. r \in D /\ i \in InnerIndex =>
          new[r].cell[i] = IF <<r, i>> \in Leaves(root_map) THEN NewLeaf ELSE Nil
    BY <1>3, <1>4
  <2>4. NewLeaf # Nil
    BY NewGrids, LeafHas
  <2> QED BY <2>1, <2>2, <2>3, <2>4
<1>7. Leaves(new) = Leaves(root_map)
  <2>1. \A p \in Leaves(new) \cup Leaves(root_map) : p = <<p[1], p[2]>>
    BY <1>2, <1>5, LeavesAre
  <2>2. \A p \in Leaves(new) \cup Leaves(root_map) : p \in Leaves(new) /\ p \in Leaves(root_map)
    BY <1>6, <2>1
  <2> QED BY <2>2
<1>8. ASSUME NEW p \in Leaves(new), NEW n \in LeafIndex PROVE Leaf(new, p).cell[n] = Off
  <2>1. p = <<p[1], p[2]>> /\ p[1] \in D /\ p[2] \in InnerIndex
    BY <1>5, LeavesAre
  <2>2. new[p[1]].cell[p[2]] = NewLeaf
    <3>1. <<p[1], p[2]>> \in Leaves(root_map)
      BY <1>7, <2>1
    <3> QED BY <1>3, <1>4, <2>1, <3>1
  <2> QED BY <2>2, NewGrids DEF Leaf
<1>9. Stores(new, off)
  <2>1. \A c \in Coords : At(new, c) = Off
    BY <1>8, OneVoxel DEF At
  <2>2. off \in [Coords -> Cell] /\ \A c \in Coords : off[c] = Off
    BY ValuesAre
  <2> QED BY <1>5, <1>8, <2>1, <2>2 DEF Stores
<1>10. \A a \in Accessors : Remembers(acc[a], new)
  BY <1>5, <1>7 DEF Inv, Remembers
<1> QED BY <1>1, <1>9, <1>10 DEF Inv

LEMMA InitInv == Init => Inv
PROOF
<1>1. SUFFICES ASSUME Init PROVE Inv
  OBVIOUS
<1>2. /\ root_map = <<>> /\ acc = [a \in Accessors |-> createAccessor]
      /\ content = [c \in Coords |-> Off]
  BY <1>1 DEF Init
<1>3. DOMAIN root_map = {} /\ root_map \in [DOMAIN root_map -> InnerGrid]
  BY <1>2
<1>4. Grid(root_map)
  BY <1>3, FS_EmptySet DEF Grid
<1>5. Leaves(root_map) = {}
  <2>1. \A p \in Leaves(root_map) : p[1] \in DOMAIN root_map
    BY <1>4, LeavesAre
  <2> QED BY <1>3, <2>1
<1>6. Stores(root_map, content)
  BY <1>2, <1>4, <1>5, ValuesAre DEF Stores, At
<1>7. "map" \in Accessors /\ createAccessor \in Accessor
  BY Created DEF Accessors, Remembers
<1> QED BY <1>2, <1>6, <1>7, Created DEF Inv

-----------------------------------------------------------------------------
(* Visiting every cell.                                                    *)

LEMMA SameSize ==
    ASSUME NEW S, NEW T, IsFiniteSet(S), NEW f \in [S -> T],
           \A x \in S : \A y \in S : f[x] = f[y] => x = y,
           \A y \in T : \E x \in S : f[x] = y
    PROVE  IsFiniteSet(T) /\ Cardinality(T) = Cardinality(S)
PROOF
<1>1. f \in Bijection(S, T)
  BY DEF Bijection, Injection, Surjection, IsInjective
<1>2. ExistsBijection(S, T)
  BY <1>1 DEF ExistsBijection
<1> QED BY <1>2, FS_Bijection

LEMMA EnumeratesIs ==
    ASSUME NEW q, NEW S, Enumerates(q, S)
    PROVE  IsFiniteSet(S) /\ Cardinality(S) = Len(q)
PROOF
<1>1. /\ Len(q) \in Nat /\ DOMAIN q = 1 .. Len(q) /\ q \in [1 .. Len(q) -> S]
      /\ \A i \in 1 .. Len(q) : \A j \in 1 .. Len(q) : q[i] = q[j] => i = j
      /\ \A x \in S : \E i \in 1 .. Len(q) : q[i] = x
  BY DEF Enumerates
<1>2. IsFiniteSet(1 .. Len(q)) /\ Cardinality(1 .. Len(q)) = Len(q)
  BY <1>1, FS_Interval
<1> QED BY <1>1, <1>2, SameSize

(* The cells that are on, leaf by leaf.                                    *)
Some(s) == CHOOSE x \in s : TRUE
Sums(W, S, f) == \A s \in SUBSET S : W[s] = IF s = {} THEN 0 ELSE f[Some(s)] + W[s \ {Some(s)}]

Counted(S, f, T, h) == \A p \in S : f[p] = Cardinality({c \in T : h[c] = p})

LEMMA SumIs ==
    ASSUME NEW S, IsFiniteSet(S), NEW f \in [S -> Nat], NEW T, IsFiniteSet(T), NEW h \in [T -> S],
           Counted(S, f, T, h),
           NEW W, Sums(W, S, f)
    PROVE  W[S] = Cardinality(T)
PROOF
<1> DEFINE In(s) == {c \in T : h[c] \in s}
           Bad == {s \in SUBSET S : W[s] # Cardinality(In(s))}
<1>1. SUFFICES ASSUME Bad # {} PROVE FALSE
  <2>1. In(S) = T
    OBVIOUS
  <2>2. S \in Bad \/ W[S] = Cardinality(In(S))
    OBVIOUS
  <2> HIDE DEF Bad, In
  <2> QED BY <1>1, <2>1, <2>2
<1>2. PICK s \in Bad : \A U \in Bad : ~ (<<U, s>> \in StrictSubsetOrdering(S))
  <2>1. Bad \subseteq FiniteSubsetsOf(S)
    BY FS_Subset DEF FiniteSubsetsOf
  <2> HIDE DEF Bad
  <2> QED BY <2>1, <1>1, WFMin, FS_StrictSubsetOrderingWellFounded
<1>3. s \in SUBSET S /\ W[s] # Cardinality(In(s))
  BY <1>2
<1>4. s # {}
  <2>1. ASSUME s = {} PROVE FALSE
    <3>1. W[s] = 0
      BY <1>3, <2>1 DEF Sums
    <3>2. In(s) = {}
      BY <2>1
    <3> HIDE DEF In
    <3> QED BY <1>3, <3>1, <3>2, FS_EmptySet
  <2> QED BY <2>1
<1> DEFINE x == Some(s)
           U == s \ {x}
<1>5. x \in s
  BY <1>4 DEF Some
<1>6. W[s] = f[x] + W[U]
  BY <1>3, <1>4 DEF Sums
<1> HIDE DEF x
<1>7. U \in SUBSET S /\ <<U, s>> \in StrictSubsetOrdering(S)
  BY <1>3, <1>5 DEF StrictSubsetOrdering
<1>8. W[U] = Cardinality(In(U))
  <2>1. U \notin Bad
    BY <1>2, <1>7
  <2> HIDE DEF U, In
  <2> QED BY <1>7, <2>1
<1>9. f[x] = Cardinality({c \in T : h[c] = x})
  BY <1>3, <1>5 DEF Counted
<1> DEFINE A == {c \in T : h[c] = x}
           B == In(U)
<1>10. In(s) = A \cup B /\ A \cap B = {} /\ A \subseteq T /\ B \subseteq T
  BY <1>5
<1> HIDE DEF A, B, In, U
<1>11. IsFiniteSet(A) /\ IsFiniteSet(B)
  BY <1>10, FS_Subset
<1>12. Cardinality(A \cup B) = Cardinality(A) + Cardinality(B) - Cardinality(A \cap B)
       /\ Cardinality(A) \in Nat /\ Cardinality(B) \in Nat /\ Cardinality(A \cap B) = 0
  BY <1>10, <1>11, FS_Union, FS_CardinalityType, FS_EmptySet
<1>13. Cardinality(In(s)) = Cardinality(A) + Cardinality(B)
  BY <1>10, <1>12
<1> QED BY <1>3, <1>6, <1>8, <1>9, <1>13 DEF A, B

(* There is such a sum: that of the voxels is one.                         *)
LEMMA SumExists ==
    ASSUME NEW S, IsFiniteSet(S), NEW f \in [S -> Nat], NEW T, IsFiniteSet(T), NEW h \in [T -> S],
           Counted(S, f, T, h)
    PROVE  \E W \in [SUBSET S -> Nat] : Sums(W, S, f)
PROOF
<1> DEFINE In(s) == {c \in T : h[c] \in s}
           W == [s \in SUBSET S |-> Cardinality(In(s))]
           Then(s) == IF s = {} THEN 0 ELSE f[Some(s)] + W[s \ {Some(s)}]
<1>1. ASSUME NEW s \in SUBSET S PROVE W[s] = Then(s)
  <2>1. CASE s = {}
    <3>1. In(s) = {}
      BY <2>1
    <3>2. W[s] = Cardinality(In(s))
      OBVIOUS
    <3> HIDE DEF W, In
    <3> QED BY <2>1, <3>1, <3>2, FS_EmptySet
  <2>2. CASE s # {}
    <3> DEFINE x == Some(s)
               A == {c \in T : h[c] = x}
               U == s \ {x}
               B == In(U)
    <3>1. x \in s
      BY <2>2 DEF Some
    <3>2. Then(s) = f[x] + W[U]
      BY <2>2
    <3> HIDE DEF x
    <3>3. In(s) = A \cup B /\ A \cap B = {} /\ A \subseteq T /\ B \subseteq T
      BY <3>1
    <3>4. f[x] = Cardinality(A) /\ W[U] = Cardinality(B) /\ W[s] = Cardinality(In(s))
      BY <3>1 DEF Counted
    <3> HIDE DEF A, B, In, U, W
    <3>5. IsFiniteSet(A) /\ IsFiniteSet(B)
      BY <3>3, FS_Subset
    <3>6. Cardinality(A \cup B) = Cardinality(A) + Cardinality(B) - Cardinality(A \cap B)
          /\ Cardinality(A) \in Nat /\ Cardinality(B) \in Nat /\ Cardinality(A \cap B) = 0
      BY <3>3, <3>5, FS_Union, FS_CardinalityType, FS_EmptySet
    <3> HIDE DEF Then
    <3> QED BY <3>2, <3>3, <3>4, <3>6
  <2> QED BY <2>1, <2>2
<1>2. W \in [SUBSET S -> Nat]
  <2>1. ASSUME NEW s \in SUBSET S PROVE Cardinality(In(s)) \in Nat
    <3>1. In(s) \subseteq T
      OBVIOUS
    <3> HIDE DEF In
    <3>2. IsFiniteSet(In(s))
      BY <3>1, FS_Subset
    <3> QED BY <3>2, FS_CardinalityType
  <2> HIDE DEF In
  <2> QED BY <2>1
<1> HIDE DEF W
<1>3. Sums(W, S, f)
  BY <1>1 DEF Sums
<1> QED BY <1>2, <1>3

LEMMA LeavesFinite ==
    ASSUME NEW map, Grid(map)
    PROVE  IsFiniteSet(Leaves(map))
PROOF
<1>1. IsFiniteSet(DOMAIN map) /\ IsFiniteSet(InnerIndex)
  <2>1. 0 \in Int /\ InnerSize - 1 \in Int
    BY Sides
  <2> QED BY <2>1, FS_Interval DEF Grid, InnerIndex
<1>2. IsFiniteSet((DOMAIN map) \X InnerIndex)
  BY <1>1, FS_Product
<1>3. Leaves(map) \subseteq (DOMAIN map) \X InnerIndex
  BY LeavesAre
<1> QED BY <1>2, <1>3, FS_Subset

(* The cells of a leaf that are on are those of the voxels with a value.   *)
LEMMA LeafHolds ==
    ASSUME NEW map, NEW values, Stores(map, values), NEW p \in Leaves(map)
    PROVE  /\ Leaf(map, p).mask \in Mask(LeafSize)
           /\ \A c \in Coords : Place(c) = p =>
                /\ getLeafIndex(c) \in On(Leaf(map, p).mask, LeafSize) <=> values[c] # Off
                /\ values[c] = Leaf(map, p).cell[getLeafIndex(c)]
           /\ \A n \in On(Leaf(map, p).mask, LeafSize) :
                \E c \in Coords : Place(c) = p /\ getLeafIndex(c) = n /\ values[c] # Off
PROOF
<1> DEFINE l == Leaf(map, p)
<1>1. l \in LeafGrid
  BY LeavesAre DEF Stores
<1>2. /\ l.mask \in Mask(LeafSize)
      /\ \A n \in LeafIndex : n \in On(l.mask, LeafSize) <=> l.cell[n] # Off
  <2> HIDE DEF l
  <2> QED BY <1>1, LeafHas
<1>3. \A c \in Coords : Place(c) = p => values[c] = l.cell[getLeafIndex(c)]
  BY DEF Stores, At
<1>4. \A n \in LeafIndex : l.cell[n] # Off => \E c \in Coords : Place(c) = p /\ getLeafIndex(c) = n
  BY DEF Stores
<1>5. On(l.mask, LeafSize) \subseteq LeafIndex
  BY DEF On, LeafIndex
<1> HIDE DEF l
<1>6. \A c \in Coords : getLeafIndex(c) \in LeafIndex
  BY OneVoxel
<1>7. ASSUME NEW n \in On(l.mask, LeafSize)
      PROVE  \E c \in Coords : Place(c) = p /\ getLeafIndex(c) = n /\ values[c] # Off
  <2>1. l.cell[n] # Off
    BY <1>2, <1>5
  <2>2. PICK c \in Coords : Place(c) = p /\ getLeafIndex(c) = n
    BY <1>4, <1>5, <2>1
  <2> QED BY <1>3, <2>1, <2>2
<1> QED BY <1>2, <1>3, <1>6, <1>7 DEF l

LEMMA CountIs ==
    ASSUME NEW map, NEW values, Stores(map, values)
    PROVE  activeCellsCount(map) = Cardinality({c \in Coords : values[c] # Off})
PROOF
<1> DEFINE S == Leaves(map)
           T == {c \in Coords : values[c] # Off}
           F(p) == Len(beginOn(Leaf(map, p).mask, LeafSize))
           f == [p \in S |-> F(p)]
           h == [c \in T |-> Place(c)]
           Next1(W, s) == IF s = {} THEN 0 ELSE F(Some(s)) + W[s \ {Some(s)}]
           Adds(W) == W = [s \in SUBSET S |-> Next1(W, s)]
<1>1. Grid(map) /\ IsFiniteSet(S)
  BY LeavesFinite DEF Stores
<1>2. IsFiniteSet(T) /\ T \subseteq Coords
  BY OneVoxel, FS_Subset
<1>3. h \in [T -> S]
  <2>1. \A c \in T : Place(c) \in S
    BY DEF Stores, At
  <2> QED BY <2>1
<1>4. ASSUME NEW p \in S PROVE F(p) \in Nat /\ F(p) = Cardinality({c \in T : h[c] = p})
  <2> DEFINE q == beginOn(Leaf(map, p).mask, LeafSize)
             O == On(Leaf(map, p).mask, LeafSize)
             C == {c \in T : h[c] = p}
             k == [c \in C |-> getLeafIndex(c)]
  <2>1. Enumerates(q, O) /\ F(p) = Len(q)
    <3>1. Leaf(map, p).mask \in Mask(LeafSize)
      BY LeafHolds
    <3> QED BY <3>1, SizesFit, beginOnIs
  <2>2. IsFiniteSet(C) /\ C \subseteq Coords /\ \A c \in Coords : c \in C <=> values[c] # Off /\ Place(c) = p
    <3>1. C \subseteq T
      OBVIOUS
    <3> QED BY <1>2, <3>1, FS_Subset
  <2>3. k \in [C -> O]
    <3>1. \A c \in C : getLeafIndex(c) \in O
      <4> HIDE DEF C, S
      <4> QED BY <2>2, LeafHolds DEF S
    <3> HIDE DEF C, O
    <3> QED BY <3>1
  <2>4. \A n \in O : \E c \in C : k[c] = n
    <3>1. \A n \in O : \E c \in Coords : Place(c) = p /\ getLeafIndex(c) = n /\ values[c] # Off
      BY LeafHolds
    <3> HIDE DEF C, O
    <3> QED BY <2>2, <3>1
  <2>5. \A c \in C : \A d \in C : k[c] = k[d] => c = d
    <3> HIDE DEF C
    <3> QED BY <2>2, OneVoxel
  <2> HIDE DEF q, O, C, k, F
  <2>6. Cardinality(O) = Cardinality(C)
    BY <2>2, <2>3, <2>4, <2>5, SameSize
  <2>7. Cardinality(O) = Len(q) /\ Len(q) \in Nat
    <3>1. Len(q) \in Nat
      BY <2>1 DEF Enumerates
    <3> QED BY <2>1, <3>1, EnumeratesIs
  <2> QED BY <2>1, <2>6, <2>7 DEF C
<1>5. f \in [S -> Nat] /\ Counted(S, f, T, h)
  <2> HIDE DEF F, h, T, S
  <2> QED BY <1>4 DEF Counted
<1>6. activeCellsCount(map) = (CHOOSE W : Adds(W))[S]
  BY DEF activeCellsCount, MapThenSumSet, MapThenFoldSet, Some
<1>7. \A s \in SUBSET S : s # {} => F(Some(s)) = f[Some(s)]
  <2>1. \A s \in SUBSET S : s # {} => Some(s) \in S
    BY DEF Some
  <2> HIDE DEF F, S
  <2> QED BY <2>1
<1> HIDE DEF F, f, h, T, S
<1>8. \E W : Adds(W)
  <2>1. PICK W \in [SUBSET S -> Nat] : Sums(W, S, f)
    BY <1>1, <1>2, <1>3, <1>5, SumExists
  <2>2. \A s \in SUBSET S : W[s] = Next1(W, s)
    BY <1>7, <2>1 DEF Sums
  <2> HIDE DEF Next1
  <2>3. W = [s \in SUBSET S |-> W[s]]
    OBVIOUS
  <2>4. Adds(W)
    BY <2>2, <2>3
  <2> QED BY <2>4
<1>9. ASSUME NEW W, Adds(W) PROVE W[S] = Cardinality(T)
  <2>1. \A s \in SUBSET S : W[s] = Next1(W, s)
    <3> HIDE DEF Next1
    <3> QED BY <1>9
  <2>2. Sums(W, S, f)
    BY <1>7, <2>1 DEF Sums
  <2> QED BY <1>1, <1>2, <1>3, <1>5, <2>2, SumIs
<1> HIDE DEF Adds
<1>10. (CHOOSE W : Adds(W))[S] = Cardinality(T)
  BY <1>8, <1>9
<1> QED BY <1>6, <1>10 DEF T

LEMMA VisitIs ==
    ASSUME NEW map, NEW values, Stores(map, values)
    PROVE  forEachCell(map) = {<<c, values[c]>> : c \in {d \in Coords : values[d] # Off}}
PROOF
<1> DEFINE E == {<<c, values[c]>> : c \in {d \in Coords : values[d] # Off}}
           Cells(p) == {<<CoordOf(p[1], p[2], n), Leaf(map, p).cell[n]>> :
                          n \in Visited(Leaf(map, p).mask, LeafSize)}
<1>1. forEachCell(map) = UNION {Cells(p) : p \in Leaves(map)}
  BY DEF forEachCell
<1>2. ASSUME NEW p \in Leaves(map)
      PROVE  Cells(p) = {<<CoordOf(p[1], p[2], n), Leaf(map, p).cell[n]>> :
                            n \in On(Leaf(map, p).mask, LeafSize)}
  <2>1. Leaf(map, p).mask \in Mask(LeafSize)
    BY LeafHolds
  <2> QED BY <2>1, SizesFit, VisitedIs
<1>3. ASSUME NEW p \in Leaves(map), NEW c \in Coords, Place(c) = p
      PROVE  CoordOf(p[1], p[2], getLeafIndex(c)) = c
  <2>1. p[1] = getRootKey(c) /\ p[2] = getInnerIndex(c)
    BY <1>3 DEF Place
  <2> QED BY <2>1, OneVoxel, KeysAre
<1>4. ASSUME NEW p \in Leaves(map), NEW e \in Cells(p) PROVE e \in E
  <2> HIDE DEF Cells
  <2>1. PICK n \in On(Leaf(map, p).mask, LeafSize) :
           e = <<CoordOf(p[1], p[2], n), Leaf(map, p).cell[n]>>
    BY <1>2, <1>4
  <2>2. PICK c \in Coords : Place(c) = p /\ getLeafIndex(c) = n /\ values[c] # Off
    BY LeafHolds
  <2>3. e = <<c, values[c]>>
    BY <1>3, <2>1, <2>2, LeafHolds
  <2> QED BY <2>2, <2>3
<1>5. ASSUME NEW c \in Coords, values[c] # Off
      PROVE  Place(c) \in Leaves(map) /\ <<c, values[c]>> \in Cells(Place(c))
  <2> HIDE DEF Cells
  <2> DEFINE p == Place(c)
  <2>1. p \in Leaves(map)
    BY <1>5 DEF Stores, At
  <2> HIDE DEF p
  <2>2. getLeafIndex(c) \in On(Leaf(map, p).mask, LeafSize)
        /\ values[c] = Leaf(map, p).cell[getLeafIndex(c)] /\ CoordOf(p[1], p[2], getLeafIndex(c)) = c
    BY <1>3, <1>5, <2>1, LeafHolds DEF p
  <2> QED BY <1>2, <2>1, <2>2 DEF p
<1> HIDE DEF Cells
<1>6. \A e \in E : e \in UNION {Cells(p) : p \in Leaves(map)}
  BY <1>5
<1>7. \A e \in UNION {Cells(p) : p \in Leaves(map)} : e \in E
  <2> HIDE DEF E
  <2> QED BY <1>4
<1> HIDE DEF E
<1>8. forEachCell(map) = E
  BY <1>1, <1>6, <1>7
<1> QED BY <1>8 DEF E

-----------------------------------------------------------------------------
(* The file.                                                               *)

LEMMA Induction ==
    ASSUME NEW n \in Nat, NEW P, 0 \in P, \A k \in 1 .. n : k - 1 \in P => k \in P
    PROVE  \A k \in 0 .. n : k \in P
PROOF
<1> DEFINE B == (0 .. n) \ P
<1>1. SUFFICES ASSUME B # {} PROVE FALSE
  OBVIOUS
<1>2. PICK k \in B : k - 1 \notin B
  <2>1. B \subseteq 0 .. n /\ n \in Int
    OBVIOUS
  <2> HIDE DEF B
  <2> QED BY <1>1, <2>1, LeastIndex
<1>3. k \in 0 .. n /\ k \notin P
  BY <1>2
<1>4. k # 0
  BY <1>3
<1>5. k \in 1 .. n /\ k - 1 \in 0 .. n
  BY <1>3, <1>4
<1> QED BY <1>2, <1>3, <1>5

(* What a file has from a position on.                                     *)
Holds(s, at, t) == \A j \in 1 .. Len(t) : s[(at + j) - 1] = t[j]

LEMMA HoldsFirst ==
    ASSUME NEW T, NEW x \in T, NEW t \in Seq(T), NEW s, NEW at \in Nat, Holds(s, at, <<x>> \o t)
    PROVE  s[at] = x /\ Holds(s, at + 1, t)
PROOF
<1> DEFINE u == <<x>> \o t
<1>1. /\ Len(u) = Len(t) + 1 /\ Len(t) \in Nat /\ u[1] = x
      /\ \A j \in 1 .. Len(t) : u[j + 1] = t[j]
  OBVIOUS
<1>2. Holds(s, at, u)
  OBVIOUS
<1> HIDE DEF u
<1>3. s[at] = x
  <2>1. 1 \in 1 .. Len(u) /\ (at + 1) - 1 = at
    BY <1>1
  <2>2. s[(at + 1) - 1] = u[1]
    BY <1>2, <2>1 DEF Holds
  <2> QED BY <1>1, <2>1, <2>2
<1>4. ASSUME NEW j \in 1 .. Len(t) PROVE s[((at + 1) + j) - 1] = t[j]
  <2>1. j + 1 \in 1 .. Len(u) /\ (at + (j + 1)) - 1 = ((at + 1) + j) - 1
    BY <1>1
  <2>2. s[(at + (j + 1)) - 1] = u[j + 1]
    BY <1>2, <2>1 DEF Holds
  <2> QED BY <1>1, <2>1, <2>2
<1> QED BY <1>3, <1>4 DEF Holds

(* One after the other.                                                    *)
Starts(s, at, ss, pos) ==
    /\ pos \in [0 .. Len(ss) -> Nat] /\ pos[0] = at
    /\ pos[Len(ss)] = at + Len(FlattenSeq(ss))
    /\ \A k \in 1 .. Len(ss) : /\ pos[k] = pos[k - 1] + Len(ss[k])
                               /\ Holds(s, pos[k - 1], ss[k])

LEMMA FlattenIs ==
    ASSUME NEW T, NEW ss \in Seq(Seq(T)), NEW s, NEW at \in Nat
    PROVE  /\ FlattenSeq(ss) \in Seq(T)
           /\ Holds(s, at, FlattenSeq(ss)) => \E pos : Starts(s, at, ss, pos)
PROOF
<1> DEFINE n == Len(ss)
<1>1. n \in Nat /\ \A i \in 1 .. n : ss[i] \in Seq(T) /\ Len(ss[i]) \in Nat
  OBVIOUS
<1>2. CASE n = 0
  <2>1. ss = <<>> /\ FlattenSeq(ss) = ss
    BY <1>2 DEF FlattenSeq
  <2> DEFINE pos == [k \in 0 .. Len(ss) |-> at]
  <2>2. Len(ss) = 0 /\ Len(FlattenSeq(ss)) = 0
    BY <2>1
  <2>3. pos \in [0 .. Len(ss) -> Nat] /\ pos[0] = at /\ pos[Len(ss)] = at /\ at = at + 0
    BY <2>2
  <2> HIDE DEF pos
  <2>4. 1 .. Len(ss) = {}
    BY <2>2
  <2>5. Starts(s, at, ss, pos)
    BY <2>2, <2>3, <2>4 DEF Starts
  <2>6. <<>> \in Seq(T)
    OBVIOUS
  <2> QED BY <2>1, <2>5, <2>6
<1>3. CASE n # 0
  <2> DEFINE D == 1 .. n
             Chains(v) == v = [i \in D |-> IF i = 1 THEN ss[i] ELSE v[i - 1] \o ss[i]]
             W == CHOOSE v : Chains(v)
             F == [i \in 0 .. n |-> [q \in Seq(T) |-> IF i = 0 THEN q ELSE q \o ss[i]]]
  <2>1. FlattenSeq(ss) = W[n]
    BY <1>3 DEF FlattenSeq
  <2>2. \A i \in D : i # 1 => i - 1 \in D /\ i - 1 # 0
    BY <1>1
  <2>3. \E v : Chains(v)
    <3>1. F \in [0 .. n -> [Seq(T) -> Seq(T)]] /\ <<>> \in Seq(T)
      <4>1. \A i \in 0 .. n : i # 0 => ss[i] \in Seq(T)
        BY <1>1
      <4> HIDE DEF n
      <4> QED BY <4>1
    <3> DEFINE c == <<>>
    <3>2. PICK g \in [0 .. n -> Seq(T)] : Iteration(g, n, c, F)
      <4>1. c \in Seq(T) /\ n \in Int
        BY <1>1, <3>1
      <4> HIDE DEF F, c, n
      <4> QED BY <3>1, <4>1, Iterates
    <3>3. \A i \in D : i \in 0 .. n /\ i # 0 /\ i - 1 \in 0 .. n
      BY <1>1
    <3>4. ASSUME NEW i \in D PROVE g[i] = g[i - 1] \o ss[i]
      <4>1. g[i] = F[i][g[i - 1]] /\ g[i - 1] \in Seq(T)
        <5> HIDE DEF F
        <5> QED BY <3>2, <3>3 DEF Iteration
      <4> QED BY <3>3, <4>1
    <3>5. g[0] = <<>>
      <4> HIDE DEF F
      <4>1. 0 \in 0 .. n
        BY <1>1
      <4> QED BY <3>2, <4>1 DEF Iteration
    <3>6. \A i \in D : i = 1 => g[i] = ss[i]
      <4>1. \A i \in D : i = 1 => i - 1 = 0
        OBVIOUS
      <4>2. \A q \in Seq(T) : <<>> \o q = q
        OBVIOUS
      <4> HIDE DEF D
      <4> QED BY <1>1, <3>4, <3>5, <4>1, <4>2 DEF D
    <3> DEFINE h == [i \in D |-> g[i]]
    <3>7. \A i \in D : h[i] = IF i = 1 THEN ss[i] ELSE h[i - 1] \o ss[i]
      <4> HIDE DEF D, n
      <4> QED BY <2>2, <3>4, <3>6
    <3>8. h = [i \in D |-> h[i]]
      OBVIOUS
    <3> HIDE DEF h, D
    <3>9. Chains(h)
      BY <3>7, <3>8
    <3> QED BY <3>9
  <2>4. Chains(W)
    BY <2>3
  <2> HIDE DEF W, F
  <2>5. 1 \in D /\ n \in D /\ W[1] = ss[1] /\ \A i \in D : i # 1 => W[i] = W[i - 1] \o ss[i]
    <3>1. 1 \in D /\ n \in D
      BY <1>1, <1>3
    <3> HIDE DEF D
    <3> QED BY <2>4, <3>1
  <2> DEFINE Pre(a, b) == Len(a) <= Len(b) /\ \A j \in 1 .. Len(a) : b[j] = a[j]
             P == {i \in 0 .. n : i # 0 => W[i] \in Seq(T) /\ \A k \in 1 .. i : Pre(W[k], W[i])}
  <2>6. ASSUME NEW i \in 1 .. n, i - 1 \in P PROVE i \in P
    <3>1. CASE i = 1
      <4>1. W[i] \in Seq(T)
        BY <1>1, <2>5, <3>1
      <4>2. Pre(W[i], W[i])
        BY <4>1
      <4>3. \A k \in 1 .. i : k = i
        BY <3>1
      <4> HIDE DEF Pre
      <4> QED BY <1>1, <3>1, <4>1, <4>2, <4>3
    <3>2. CASE i # 1
      <4> DEFINE a == W[i - 1]
                 b == W[i]
      <4>1. a \in Seq(T) /\ \A k \in 1 .. i - 1 : Pre(W[k], a)
        <5>1. i - 1 # 0
          BY <1>1, <3>2
        <5> HIDE DEF Pre
        <5> QED BY <2>6, <5>1
      <4>2. b = a \o ss[i] /\ ss[i] \in Seq(T)
        BY <1>1, <2>5, <3>2
      <4> HIDE DEF a, b
      <4>3. b \in Seq(T) /\ Pre(a, b) /\ Pre(b, b) /\ Len(a) \in Nat /\ Len(b) \in Nat
        BY <4>1, <4>2
      <4>4. ASSUME NEW k \in 1 .. i PROVE Pre(W[k], b)
        <5>1. CASE k = i
          <6> HIDE DEF Pre
          <6> QED BY <4>3, <5>1 DEF b
        <5>2. CASE k # i
          <6>1. k \in 1 .. i - 1
            BY <5>2
          <6> DEFINE w == W[k]
          <6>2. Pre(w, a)
            <7> HIDE DEF Pre
            <7> QED BY <4>1, <6>1
          <6>3. w \in Seq(T) \/ Len(w) <= Len(a)
            BY <6>2
          <6> HIDE DEF w
          <6>4. Len(w) \in Int => Pre(w, b)
            <7>1. ASSUME Len(w) \in Int PROVE Pre(w, b)
              <8>1. Len(w) <= Len(b)
                BY <4>3, <6>2, <7>1
              <8>2. ASSUME NEW j \in 1 .. Len(w) PROVE b[j] = w[j]
                <9>1. j \in 1 .. Len(a)
                  BY <4>3, <6>2, <7>1
                <9> QED BY <4>3, <6>2, <9>1
              <8> QED BY <8>1, <8>2
            <7> QED BY <7>1
          <6> QED BY <6>4 DEF w
        <5> QED BY <5>1, <5>2
      <4> HIDE DEF Pre
      <4> QED BY <4>3, <4>4 DEF b
    <3> QED BY <3>1, <3>2
  <2>7. \A i \in 0 .. n : i \in P
    <3>1. 0 \in P
      BY <1>1
    <3> HIDE DEF P, n
    <3> QED BY <1>1, <2>6, <3>1, Induction
  <2>8. \A i \in D : W[i] \in Seq(T) /\ Len(W[i]) \in Nat /\ Pre(W[i], W[n])
    <3>1. \A i \in D : i \in 0 .. n /\ i # 0
      BY <1>1
    <3>2. \A i \in D : W[i] \in Seq(T)
      <4> HIDE DEF Pre, D
      <4> QED BY <2>7, <3>1
    <3>3. \A k \in 1 .. n : Pre(W[k], W[n])
      <4> HIDE DEF Pre
      <4> QED BY <2>5, <2>7, <3>1
    <3> HIDE DEF Pre
    <3> QED BY <3>2, <3>3
  <2> DEFINE pos == [k \in 0 .. n |-> IF k = 0 THEN at ELSE at + Len(W[k])]
  <2>9. ASSUME Holds(s, at, W[n]) PROVE Starts(s, at, ss, pos)
    <3>1. pos \in [0 .. n -> Nat] /\ pos[0] = at /\ pos[n] = at + Len(W[n])
      <4>1. \A k \in 0 .. n : k # 0 => Len(W[k]) \in Nat
        BY <2>8
      <4>2. 0 \in 0 .. n /\ n \in 0 .. n
        BY <1>1
      <4> HIDE DEF n
      <4> QED BY <1>3, <4>1, <4>2
    <3>2. ASSUME NEW k \in D
          PROVE  /\ pos[k] = pos[k - 1] + Len(ss[k]) /\ pos[k - 1] >= at
                 /\ \A j \in 1 .. Len(ss[k]) :
                      /\ (pos[k - 1] - at) + j \in 1 .. Len(W[k])
                      /\ W[k][(pos[k - 1] - at) + j] = ss[k][j]
      <4>1. k \in 0 .. n /\ k - 1 \in 0 .. n /\ ss[k] \in Seq(T) /\ Len(ss[k]) \in Nat
        BY <1>1
      <4>2. pos[k] = at + Len(W[k])
        BY <4>1
      <4>3. CASE k = 1
        <5>1. pos[k - 1] = at /\ W[k] = ss[k]
          BY <2>5, <4>1, <4>3
        <5> HIDE DEF pos
        <5> QED BY <4>1, <4>2, <5>1
      <4>4. CASE k # 1
        <5>1. k - 1 \in D /\ W[k] = W[k - 1] \o ss[k] /\ W[k - 1] \in Seq(T) /\ Len(W[k - 1]) \in Nat
          BY <2>2, <2>5, <2>8, <4>4
        <5>2. pos[k - 1] = at + Len(W[k - 1])
          BY <4>1, <5>1
        <5> DEFINE a == W[k - 1]
                   b == W[k]
                   t == ss[k]
                   m == pos[k - 1]
        <5> HIDE DEF pos, a, b, t, m
        <5>3. /\ b = a \o t /\ a \in Seq(T) /\ t \in Seq(T) /\ Len(a) \in Nat /\ Len(t) \in Nat
              /\ m = at + Len(a) /\ pos[k] = at + Len(b)
          BY <4>1, <4>2, <5>1, <5>2 DEF a, b, t, m
        <5>4. /\ Len(b) = Len(a) + Len(t)
              /\ \A j \in 1 .. Len(t) : b[Len(a) + j] = t[j] /\ Len(a) + j \in 1 .. Len(b)
          BY <5>3
        <5>5. m - at = Len(a) /\ m >= at /\ pos[k] = m + Len(t)
          BY <5>3, <5>4
        <5> QED BY <5>4, <5>5 DEF b, t, m
      <4> QED BY <4>3, <4>4
    <3> HIDE DEF pos
    <3>3. ASSUME NEW k \in D PROVE Holds(s, pos[k - 1], ss[k])
      <4>1. ASSUME NEW j \in 1 .. Len(ss[k]) PROVE s[(pos[k - 1] + j) - 1] = ss[k][j]
        <5> DEFINE m == pos[k - 1]
                   i == (m - at) + j
        <5>1. m \in Nat /\ i \in 1 .. Len(W[k]) /\ W[k][i] = ss[k][j]
          <6>1. k - 1 \in 0 .. n
            BY <1>1
          <6> QED BY <3>1, <3>2, <6>1
        <5>2. Len(ss[k]) \in Nat /\ j \in Int
          BY <1>1
        <5>3. Len(W[k]) \in Nat /\ Len(W[n]) \in Nat /\ Pre(W[k], W[n])
          <6> HIDE DEF Pre
          <6> QED BY <2>5, <2>8
        <5> HIDE DEF m, i
        <5>4. i \in 1 .. Len(W[n]) /\ W[n][i] = W[k][i]
          BY <5>1, <5>3
        <5>5. s[(at + i) - 1] = W[n][i]
          BY <2>9, <5>4 DEF Holds
        <5>6. (at + i) - 1 = (m + j) - 1
          BY <5>1, <5>2 DEF i
        <5> QED BY <5>1, <5>4, <5>5, <5>6 DEF m
      <4> QED BY <4>1 DEF Holds
    <3> QED BY <2>1, <3>1, <3>2, <3>3 DEF Starts
  <2> HIDE DEF pos
  <2> QED BY <2>1, <2>5, <2>8, <2>9
<1> QED BY <1>2, <1>3

(* What a file is made of.                                                 *)
Item == Point \cup Mask(InnerSize) \cup Mask(LeafSize) \cup Cell \cup Nat

LEMMA LeafWritten ==
    ASSUME NEW l \in LeafGrid, NEW q, q = beginOn(l.mask, LeafSize)
    PROVE  /\ Enumerates(q, On(l.mask, LeafSize)) /\ On(l.mask, LeafSize) \subseteq LeafIndex
           /\ [k \in DOMAIN q |-> l.cell[q[k]]] \in Seq(Item)
           /\ SerializeLeaf(l) = <<l.mask>> \o [k \in DOMAIN q |-> l.cell[q[k]]]
           /\ SerializeLeaf(l) \in Seq(Item) /\ Len(SerializeLeaf(l)) = 1 + Len(q)
PROOF
<1> DEFINE O == On(l.mask, LeafSize)
           t == [k \in DOMAIN q |-> l.cell[q[k]]]
<1>1. l.mask \in Mask(LeafSize) /\ l.cell \in [LeafIndex -> Cell]
  BY LeafHas
<1>2. Enumerates(q, O)
  BY <1>1, SizesFit, beginOnIs
<1>3. O \subseteq LeafIndex
  BY DEF On, LeafIndex
<1> HIDE DEF O
<1>4. q \in Seq(O) /\ Len(q) \in Nat /\ DOMAIN q = 1 .. Len(q)
  BY <1>2 DEF Enumerates
<1>5. \A k \in 1 .. Len(q) : l.cell[q[k]] \in Item
  <2>1. \A k \in 1 .. Len(q) : q[k] \in LeafIndex
    BY <1>3, <1>4
  <2> QED BY <1>1, <2>1 DEF Item
<1>6. t \in Seq(Item) /\ Len(t) = Len(q)
  <2>1. t = [k \in 1 .. Len(q) |-> t[k]] /\ \A k \in 1 .. Len(q) : t[k] \in Item
    BY <1>4, <1>5
  <2> HIDE DEF t
  <2> QED BY <1>4, <2>1
<1>7. SerializeLeaf(l) = <<l.mask>> \o t
  BY DEF SerializeLeaf
<1>8. <<l.mask>> \in Seq(Item) /\ Len(<<l.mask>>) = 1
  BY <1>1 DEF Item
<1> HIDE DEF t
<1>9. SerializeLeaf(l) \in Seq(Item) /\ Len(SerializeLeaf(l)) = 1 + Len(q)
  BY <1>4, <1>6, <1>7, <1>8
<1> QED BY <1>2, <1>3, <1>6, <1>7, <1>9 DEF O, t

(* An enumerated element is at one place.                                  *)
LEMMA NthIs ==
    ASSUME NEW q, NEW S, Enumerates(q, S)
    PROVE  /\ Len(q) \in Nat /\ DOMAIN q = 1 .. Len(q) /\ {q[k] : k \in DOMAIN q} = S
           /\ \A k \in DOMAIN q : q[k] \in S
           /\ \A x \in S : Nth(q, x) \in DOMAIN q /\ q[Nth(q, x)] = x
PROOF
<1>1. Len(q) \in Nat /\ DOMAIN q = 1 .. Len(q) /\ \A k \in DOMAIN q : q[k] \in S
  BY DEF Enumerates
<1>2. ASSUME NEW x \in S PROVE Nth(q, x) \in DOMAIN q /\ q[Nth(q, x)] = x
  <2>1. \E k \in DOMAIN q : q[k] = x
    BY DEF Enumerates
  <2> QED BY <2>1 DEF Nth
<1> QED BY <1>1, <1>2

(* A leaf that was written is read.                                        *)
LEMMA LeafRead ==
    ASSUME NEW l \in LeafGrid, NEW s, NEW at \in Nat, Holds(s, at, SerializeLeaf(l))
    PROVE  ReadLeaf(s, at) = l /\ LeafEnd(s, at) = at + Len(SerializeLeaf(l))
PROOF
<1> DEFINE q == beginOn(l.mask, LeafSize)
           O == On(l.mask, LeafSize)
           t == [k \in DOMAIN q |-> l.cell[q[k]]]
<1>1. /\ Enumerates(q, O) /\ O \subseteq LeafIndex /\ t \in Seq(Item)
      /\ SerializeLeaf(l) = <<l.mask>> \o t /\ Len(SerializeLeaf(l)) = 1 + Len(q)
  BY LeafWritten
<1>2. l.mask \in Item
  BY LeafHas DEF Item
<1>3. s[at] = l.mask /\ Holds(s, at + 1, t)
  <2> HIDE DEF t
  <2> QED BY <1>1, <1>2, HoldsFirst
<1>4. ReadLeaf(s, at) = [mask |-> l.mask,
                         cell |-> [n \in 0 .. LeafSize - 1 |->
                                      IF n \in {q[k] : k \in DOMAIN q} THEN s[at + Nth(q, n)] ELSE Off]]
  BY <1>3 DEF ReadLeaf
<1>5. LeafEnd(s, at) = at + 1 + Len(q)
  BY <1>3 DEF LeafEnd
<1> HIDE DEF q, O
<1>6. /\ Len(q) \in Nat /\ DOMAIN q = 1 .. Len(q) /\ {q[k] : k \in DOMAIN q} = O
      /\ \A x \in O : Nth(q, x) \in DOMAIN q /\ q[Nth(q, x)] = x
  BY <1>1, NthIs
<1>7. ASSUME NEW n \in O PROVE s[at + Nth(q, n)] = l.cell[n]
  <2> DEFINE j == Nth(q, n)
  <2>1. j \in 1 .. Len(q) /\ q[j] = n
    BY <1>6
  <2> HIDE DEF j
  <2>2. Len(t) = Len(q) /\ t[j] = l.cell[n]
    BY <1>6, <2>1
  <2>3. ((at + 1) + j) - 1 = at + j
    BY <2>1
  <2> HIDE DEF t
  <2>4. s[((at + 1) + j) - 1] = t[j]
    BY <1>3, <2>1, <2>2 DEF Holds
  <2> QED BY <2>2, <2>3, <2>4 DEF j
<1>8. /\ l = [mask |-> l.mask, cell |-> l.cell] /\ l.cell \in [LeafIndex -> Cell]
      /\ \A n \in LeafIndex : n \notin O => l.cell[n] = Off
  BY LeafHas DEF O
<1>9. [n \in 0 .. LeafSize - 1 |-> IF n \in {q[k] : k \in DOMAIN q} THEN s[at + Nth(q, n)] ELSE Off] = l.cell
  <2>1. [n \in 0 .. LeafSize - 1 |-> IF n \in O THEN s[at + Nth(q, n)] ELSE Off] = l.cell
    BY <1>7, <1>8 DEF LeafIndex
  <2> QED BY <1>6, <2>1
<1> QED BY <1>1, <1>4, <1>5, <1>6, <1>8, <1>9

(* The leaves of an inner grid, written.                                   *)
Parts(g) ==
    [k \in DOMAIN beginOn(g.mask, InnerSize) |-> SerializeLeaf(g.cell[beginOn(g.mask, InnerSize)[k]])]

LEMMA InnerWritten ==
    ASSUME NEW r \in Point, NEW g \in InnerGrid
    PROVE  /\ Enumerates(beginOn(g.mask, InnerSize), On(g.mask, InnerSize))
           /\ Len(Parts(g)) = Len(beginOn(g.mask, InnerSize))
           /\ \A n \in On(g.mask, InnerSize) : n \in InnerIndex /\ g.cell[n] \in LeafGrid
           /\ Parts(g) \in Seq(Seq(Item)) /\ FlattenSeq(Parts(g)) \in Seq(Item)
           /\ SerializeInner(r, g) = <<r, g.mask>> \o FlattenSeq(Parts(g))
           /\ SerializeInner(r, g) \in Seq(Item)
           /\ Len(SerializeInner(r, g)) = 2 + Len(FlattenSeq(Parts(g)))
PROOF
<1> DEFINE O == On(g.mask, InnerSize)
           q == beginOn(g.mask, InnerSize)
           ss == Parts(g)
<1>1. /\ g.mask \in Mask(InnerSize) /\ g.cell \in [InnerIndex -> LeafGrid \cup {Nil}]
      /\ \A n \in InnerIndex : n \in O <=> g.cell[n] # Nil
  BY InnerHas
<1>2. Enumerates(q, O)
  BY <1>1, SizesFit, beginOnIs
<1>3. \A n \in O : n \in InnerIndex /\ g.cell[n] \in LeafGrid
  <2>1. O \subseteq InnerIndex
    BY DEF On, InnerIndex
  <2> HIDE DEF O
  <2> QED BY <1>1, <2>1
<1>4. SerializeInner(r, g) = <<r, g.mask>> \o FlattenSeq(ss)
  BY DEF SerializeInner, Parts
<1>5. ss = [k \in DOMAIN q |-> SerializeLeaf(g.cell[q[k]])]
  BY DEF Parts
<1> HIDE DEF O, q, ss
<1>6. Len(q) \in Nat /\ DOMAIN q = 1 .. Len(q) /\ \A k \in DOMAIN q : q[k] \in O
  BY <1>2, NthIs
<1>7. ASSUME NEW k \in 1 .. Len(q) PROVE ss[k] \in Seq(Item)
  <2> DEFINE l == g.cell[q[k]]
  <2>1. l \in LeafGrid /\ ss[k] = SerializeLeaf(l)
    BY <1>3, <1>5, <1>6
  <2> HIDE DEF l
  <2> QED BY <2>1, LeafWritten
<1>8. ss \in Seq(Seq(Item)) /\ Len(ss) = Len(q)
  BY <1>5, <1>6, <1>7
<1>9. FlattenSeq(ss) \in Seq(Item)
  <2>1. 1 \in Nat
    OBVIOUS
  <2> QED BY <1>8, <2>1, FlattenIs
<1>10. <<r, g.mask>> \in Seq(Item) /\ Len(<<r, g.mask>>) = 2
  BY <1>1 DEF Item
<1>11. SerializeInner(r, g) \in Seq(Item) /\ Len(SerializeInner(r, g)) = 2 + Len(FlattenSeq(ss))
  BY <1>4, <1>9, <1>10
<1> QED BY <1>2, <1>3, <1>4, <1>8, <1>9, <1>11 DEF O, q, ss

(* What starts a leaf after another one is where that ended.               *)
LEMMA LeafEndsAre ==
    ASSUME NEW s, NEW at \in Nat, NEW q, q = beginOn(s[at + 1], InnerSize), NEW ss, Len(ss) = Len(q),
           Len(q) \in Nat, NEW pos, Starts(s, at + 2, ss, pos),
           \A k \in 1 .. Len(q) : LeafEnd(s, pos[k - 1]) = pos[k - 1] + Len(ss[k])
    PROVE  LeafEnds(s, at) = pos
PROOF
<1> DEFINE D == 0 .. Len(q)
           Ends(v) == v = [k \in D |-> IF k = 0 THEN at + 2 ELSE LeafEnd(s, v[k - 1])]
           W == CHOOSE v : Ends(v)
<1>1. LeafEnds(s, at) = W
  BY DEF LeafEnds
<1>2. /\ pos = [k \in D |-> pos[k]] /\ pos[0] = at + 2
      /\ \A k \in 1 .. Len(q) : pos[k] = LeafEnd(s, pos[k - 1])
  BY DEF Starts
<1>3. \A k \in D : k # 0 => k \in 1 .. Len(q)
  OBVIOUS
<1>4. Ends(pos)
  <2> HIDE DEF D
  <2>1. \A k \in D : pos[k] = IF k = 0 THEN at + 2 ELSE LeafEnd(s, pos[k - 1])
    BY <1>2, <1>3
  <2> QED BY <1>2, <2>1
<1>5. Ends(W)
  BY <1>4
<1> HIDE DEF W
<1>6. 0 \in D /\ \A k \in 1 .. Len(q) : k \in D /\ k # 0
  OBVIOUS
<1>7. W[0] = pos[0] /\ \A k \in 1 .. Len(q) : W[k] = LeafEnd(s, W[k - 1])
  <2> HIDE DEF D
  <2> QED BY <1>2, <1>5, <1>6
<1>8. \A k \in D : W[k] = pos[k]
  <2> DEFINE P == {k \in D : W[k] = pos[k]}
  <2>1. \A k \in 1 .. Len(q) : k - 1 \in P => k \in P
    <3> HIDE DEF D
    <3> QED BY <1>2, <1>6, <1>7
  <2>2. 0 \in P
    BY <1>6, <1>7
  <2>3. \A k \in 0 .. Len(q) : k \in P
    <3> HIDE DEF P
    <3> QED BY <2>1, <2>2, Induction
  <2> QED BY <2>3
<1>9. W = [k \in D |-> W[k]]
  BY <1>5
<1> HIDE DEF D
<1> QED BY <1>1, <1>2, <1>8, <1>9

(* An inner grid that was written is read.                                 *)
LEMMA InnerRead ==
    ASSUME NEW r \in Point, NEW g \in InnerGrid, NEW s, NEW at \in Nat,
           Holds(s, at, SerializeInner(r, g))
    PROVE  /\ s[at] = r /\ ReadInner(s, at) = g
           /\ InnerEnd(s, at) = at + Len(SerializeInner(r, g))
PROOF
<1> DEFINE q == beginOn(g.mask, InnerSize)
           O == On(g.mask, InnerSize)
           ss == Parts(g)
           f == FlattenSeq(ss)
<1>1. /\ Enumerates(q, O) /\ Len(ss) = Len(q)
      /\ \A n \in O : n \in InnerIndex /\ g.cell[n] \in LeafGrid
      /\ ss \in Seq(Seq(Item)) /\ f \in Seq(Item)
      /\ SerializeInner(r, g) = <<r, g.mask>> \o f
      /\ Len(SerializeInner(r, g)) = 2 + Len(f)
  BY InnerWritten
<1>2. r \in Item /\ g.mask \in Item
  BY InnerHas DEF Item
<1>3. s[at] = r /\ s[at + 1] = g.mask /\ Holds(s, at + 2, f)
  <2> HIDE DEF f
  <2> DEFINE u == <<g.mask>> \o f
  <2>1. u \in Seq(Item) /\ <<r, g.mask>> \o f = <<r>> \o u
    BY <1>1, <1>2
  <2>2. Holds(s, at, <<r>> \o u)
    BY <1>1, <2>1
  <2>3. s[at] = r /\ Holds(s, at + 1, u)
    <3> HIDE DEF u
    <3> QED BY <1>2, <2>1, <2>2, HoldsFirst
  <2>4. s[at + 1] = g.mask /\ Holds(s, (at + 1) + 1, f)
    <3>1. at + 1 \in Nat
      OBVIOUS
    <3> QED BY <1>1, <1>2, <2>3, <3>1, HoldsFirst
  <2>5. (at + 1) + 1 = at + 2
    OBVIOUS
  <2> QED BY <2>3, <2>4, <2>5
<1>4. PICK pos : Starts(s, at + 2, ss, pos)
  <2>1. at + 2 \in Nat
    OBVIOUS
  <2> HIDE DEF ss
  <2> QED BY <1>1, <1>3, <2>1, FlattenIs
<1>5. /\ Len(q) \in Nat /\ DOMAIN q = 1 .. Len(q) /\ {q[k] : k \in DOMAIN q} = O
      /\ \A k \in DOMAIN q : q[k] \in O
      /\ \A x \in O : Nth(q, x) \in DOMAIN q /\ q[Nth(q, x)] = x
  <2> HIDE DEF q, O
  <2> QED BY <1>1, NthIs
<1>6. ASSUME NEW k \in 1 .. Len(q)
      PROVE  /\ ReadLeaf(s, pos[k - 1]) = g.cell[q[k]]
             /\ LeafEnd(s, pos[k - 1]) = pos[k - 1] + Len(ss[k])
  <2> DEFINE l == g.cell[q[k]]
             m == pos[k - 1]
  <2>1. l \in LeafGrid /\ ss[k] = SerializeLeaf(l)
    BY <1>1, <1>5 DEF Parts
  <2>2. m \in Nat /\ Holds(s, m, ss[k])
    <3>1. k - 1 \in 0 .. Len(ss) /\ k \in 1 .. Len(ss)
      BY <1>1, <1>5
    <3> HIDE DEF ss
    <3> QED BY <1>4, <3>1 DEF Starts
  <2> HIDE DEF l, m, ss
  <2>3. ReadLeaf(s, m) = l /\ LeafEnd(s, m) = m + Len(ss[k])
    BY <2>1, <2>2, LeafRead
  <2> QED BY <2>3 DEF l, m
<1>7. LeafEnds(s, at) = pos
  <2>1. q = beginOn(s[at + 1], InnerSize)
    BY <1>3
  <2>2. \A k \in 1 .. Len(q) : LeafEnd(s, pos[k - 1]) = pos[k - 1] + Len(ss[k])
    BY <1>6
  <2> HIDE DEF q, ss
  <2>3. Len(ss) = Len(q) /\ Len(q) \in Nat /\ Starts(s, at + 2, ss, pos)
    BY <1>1, <1>4, <1>5
  <2> QED BY <2>1, <2>2, <2>3, LeafEndsAre
<1>8. InnerEnd(s, at) = at + Len(SerializeInner(r, g))
  <2>1. InnerEnd(s, at) = pos[Len(q)]
    BY <1>3, <1>7 DEF InnerEnd
  <2>2. pos[Len(q)] = (at + 2) + Len(f)
    <3> HIDE DEF ss, q
    <3> QED BY <1>1, <1>4 DEF Starts
  <2>3. Len(f) \in Nat
    <3> HIDE DEF f
    <3> QED BY <1>1
  <2> HIDE DEF f, q
  <2> QED BY <1>1, <2>1, <2>2, <2>3
<1>9. ReadInner(s, at) = [mask |-> g.mask,
                          cell |-> [n \in 0 .. InnerSize - 1 |->
                              IF n \in {q[k] : k \in DOMAIN q} THEN ReadLeaf(s, pos[Nth(q, n) - 1]) ELSE Nil]]
  BY <1>3, <1>7 DEF ReadInner
<1> HIDE DEF q, O, ss
<1>10. \A n \in O : ReadLeaf(s, pos[Nth(q, n) - 1]) = g.cell[n]
  BY <1>5, <1>6
<1>11. /\ g = [mask |-> g.mask, cell |-> g.cell] /\ g.cell \in [InnerIndex -> LeafGrid \cup {Nil}]
       /\ \A n \in InnerIndex : n \notin O => g.cell[n] = Nil
  BY InnerHas DEF O
<1>12. [n \in 0 .. InnerSize - 1 |->
          IF n \in {q[k] : k \in DOMAIN q} THEN ReadLeaf(s, pos[Nth(q, n) - 1]) ELSE Nil] = g.cell
  <2>1. [n \in 0 .. InnerSize - 1 |-> IF n \in O THEN ReadLeaf(s, pos[Nth(q, n) - 1]) ELSE Nil] = g.cell
    BY <1>10, <1>11 DEF InnerIndex
  <2> QED BY <1>5, <2>1
<1> QED BY <1>3, <1>8, <1>9, <1>11, <1>12

LEMMA SetToSeqIs ==
    ASSUME NEW S, IsFiniteSet(S)
    PROVE  Enumerates(SetToSeq(S), S)
PROOF
<1> DEFINE n == Cardinality(S)
           q == SetToSeq(S)
<1>1. n \in Nat /\ ExistsBijection(1 .. n, S)
  BY FS_CardinalityType
<1>2. \E f \in [1 .. n -> S] : IsInjective(f)
  BY <1>1 DEF ExistsBijection, Bijection, Injection
<1>3. q \in [1 .. n -> S] /\ IsInjective(q)
  BY <1>2 DEF SetToSeq
<1> HIDE DEF q
<1>4. q \in Injection(1 .. n, S)
  BY <1>3 DEF Injection
<1>5. IsFiniteSet(1 .. n) /\ Cardinality(1 .. n) = n
  BY <1>1, FS_Interval
<1>6. q \in Surjection(1 .. n, S)
  BY <1>4, <1>5, FS_Injection
<1> HIDE DEF n
<1>7. q \in Seq(S) /\ DOMAIN q = 1 .. n
  BY <1>1, <1>3
<1> QED BY <1>3, <1>6, <1>7 DEF Enumerates, IsInjective, Surjection, q

(* What starts an inner grid after another one is where that ended.        *)
LEMMA InnerEndsAre ==
    ASSUME NEW s, NEW n \in Nat, s[1] = n, NEW ss, Len(ss) = n, NEW pos, Starts(s, 2, ss, pos),
           \A k \in 1 .. n : InnerEnd(s, pos[k - 1]) = pos[k - 1] + Len(ss[k])
    PROVE  InnerEnds(s) = pos
PROOF
<1> DEFINE D == 0 .. n
           Ends(v) == v = [k \in D |-> IF k = 0 THEN 2 ELSE InnerEnd(s, v[k - 1])]
           W == CHOOSE v : Ends(v)
<1>1. InnerEnds(s) = W
  BY DEF InnerEnds
<1>2. /\ pos = [k \in D |-> pos[k]] /\ pos[0] = 2
      /\ \A k \in 1 .. n : pos[k] = InnerEnd(s, pos[k - 1])
  BY DEF Starts
<1>3. \A k \in D : k # 0 => k \in 1 .. n
  OBVIOUS
<1>4. Ends(pos)
  <2> HIDE DEF D
  <2>1. \A k \in D : pos[k] = IF k = 0 THEN 2 ELSE InnerEnd(s, pos[k - 1])
    BY <1>2, <1>3
  <2> QED BY <1>2, <2>1
<1>5. Ends(W)
  BY <1>4
<1> HIDE DEF W
<1>6. 0 \in D /\ \A k \in 1 .. n : k \in D /\ k # 0
  OBVIOUS
<1>7. W[0] = pos[0] /\ \A k \in 1 .. n : W[k] = InnerEnd(s, W[k - 1])
  <2> HIDE DEF D
  <2> QED BY <1>2, <1>5, <1>6
<1>8. \A k \in D : W[k] = pos[k]
  <2> DEFINE P == {k \in D : W[k] = pos[k]}
  <2>1. \A k \in 1 .. n : k - 1 \in P => k \in P
    <3> HIDE DEF D
    <3> QED BY <1>2, <1>6, <1>7
  <2>2. 0 \in P
    BY <1>6, <1>7
  <2>3. \A k \in 0 .. n : k \in P
    <3> HIDE DEF P
    <3> QED BY <2>1, <2>2, Induction
  <2> QED BY <2>3
<1>9. W = [k \in D |-> W[k]]
  BY <1>5
<1> HIDE DEF D
<1> QED BY <1>1, <1>2, <1>8, <1>9

(* A grid that was written is read back as it was: Deserialize ends each   *)
(* leaf and inner grid where Serialize did.                                *)
THEOREM DeserializeIs ==
    ASSUME NEW map, Grid(map)
    PROVE  Deserialize(Serialize(map)) = map
PROOF
<1> DEFINE R == DOMAIN map
           q == SetToSeq(R)
           ss == [k \in DOMAIN q |-> SerializeInner(q[k], map[q[k]])]
           f == FlattenSeq(ss)
           s == Serialize(map)
<1>1. R \subseteq Point /\ IsFiniteSet(R) /\ map \in [R -> InnerGrid]
  BY DEF Grid
<1>2. Enumerates(q, R)
  BY <1>1, SetToSeqIs
<1>3. s = <<Len(q)>> \o f
  BY DEF Serialize
<1> HIDE DEF q, R
<1>4. /\ Len(q) \in Nat /\ DOMAIN q = 1 .. Len(q) /\ {q[k] : k \in DOMAIN q} = R
      /\ \A k \in DOMAIN q : q[k] \in R
      /\ \A x \in R : Nth(q, x) \in DOMAIN q /\ q[Nth(q, x)] = x
  BY <1>2, NthIs
<1>5. ASSUME NEW k \in 1 .. Len(q)
      PROVE  /\ q[k] \in Point /\ map[q[k]] \in InnerGrid
             /\ ss[k] = SerializeInner(q[k], map[q[k]]) /\ ss[k] \in Seq(Item)
  <2> DEFINE r == q[k]
             g == map[r]
  <2>1. r \in Point /\ g \in InnerGrid /\ ss[k] = SerializeInner(r, g)
    BY <1>1, <1>4
  <2> HIDE DEF g, r
  <2>2. SerializeInner(r, g) \in Seq(Item)
    BY <2>1, InnerWritten
  <2> HIDE DEF ss
  <2> QED BY <2>1, <2>2 DEF r, g
<1>6. ss \in Seq(Seq(Item)) /\ Len(ss) = Len(q)
  <2>1. ss = [k \in 1 .. Len(q) |-> ss[k]]
    BY <1>4
  <2> HIDE DEF ss
  <2> QED BY <1>4, <1>5, <2>1
<1> HIDE DEF ss
<1>7. f \in Seq(Item)
  <2>1. 1 \in Nat
    OBVIOUS
  <2> QED BY <1>6, <2>1, FlattenIs
<1> HIDE DEF f
<1>8. s[1] = Len(q) /\ Holds(s, 2, f)
  <2> HIDE DEF s
  <2>1. Holds(s, 1, <<Len(q)>> \o f)
    <3> DEFINE u == <<Len(q)>> \o f
    <3>1. Len(u) \in Nat /\ s = u
      BY <1>3, <1>4, <1>7
    <3> HIDE DEF u
    <3>2. \A j \in 1 .. Len(u) : (1 + j) - 1 = j
      BY <3>1
    <3>3. Holds(s, 1, u)
      BY <3>1, <3>2 DEF Holds
    <3> QED BY <3>3 DEF u
  <2>2. Len(q) \in Item /\ 1 \in Nat /\ 1 + 1 = 2
    BY <1>4 DEF Item
  <2>3. s[1] = Len(q) /\ Holds(s, 1 + 1, f)
    BY <1>7, <2>1, <2>2, HoldsFirst
  <2> QED BY <2>2, <2>3
<1> HIDE DEF s
<1>9. PICK pos : Starts(s, 2, ss, pos)
  <2>1. 2 \in Nat
    OBVIOUS
  <2> QED BY <1>6, <1>8, <2>1, FlattenIs DEF f
<1>10. ASSUME NEW k \in 1 .. Len(q)
       PROVE  /\ s[pos[k - 1]] = q[k] /\ ReadInner(s, pos[k - 1]) = map[q[k]]
              /\ InnerEnd(s, pos[k - 1]) = pos[k - 1] + Len(ss[k])
  <2> DEFINE r == q[k]
             g == map[r]
             m == pos[k - 1]
  <2>1. m \in Nat /\ Holds(s, m, ss[k])
    <3>1. k - 1 \in 0 .. Len(ss) /\ k \in 1 .. Len(ss)
      BY <1>6
    <3> QED BY <1>9, <3>1 DEF Starts
  <2>2. r \in Point /\ g \in InnerGrid /\ ss[k] = SerializeInner(r, g)
    BY <1>5
  <2> HIDE DEF r, g, m
  <2>3. s[m] = r /\ ReadInner(s, m) = g /\ InnerEnd(s, m) = m + Len(ss[k])
    BY <2>1, <2>2, InnerRead
  <2> QED BY <2>3 DEF r, g, m
<1>11. InnerEnds(s) = pos
  <2>1. \A k \in 1 .. Len(q) : InnerEnd(s, pos[k - 1]) = pos[k - 1] + Len(ss[k])
    BY <1>10
  <2> QED BY <1>4, <1>6, <1>8, <1>9, <2>1, InnerEndsAre
<1> DEFINE roots == [k \in 1 .. Len(q) |-> s[pos[k - 1]]]
<1>12. roots = q
  <2>1. q = [k \in 1 .. Len(q) |-> q[k]]
    BY <1>2, <1>4 DEF Enumerates
  <2> QED BY <1>10, <2>1
<1>13. Deserialize(s) = [r \in {roots[k] : k \in 1 .. Len(q)} |-> ReadInner(s, pos[Nth(roots, r) - 1])]
  BY <1>8, <1>11 DEF Deserialize
<1> HIDE DEF roots
<1>14. Deserialize(s) = [r \in R |-> ReadInner(s, pos[Nth(q, r) - 1])]
  BY <1>4, <1>12, <1>13
<1>15. \A r \in R : ReadInner(s, pos[Nth(q, r) - 1]) = map[r]
  BY <1>4, <1>10
<1> QED BY <1>1, <1>14, <1>15 DEF s

LEMMA reloadStep ==
    ASSUME Inv, reload
    PROVE  Inv'
PROOF
<1>1. root_map' = root_map /\ content' = content /\ acc' = [a \in Accessors |-> createAccessor]
  BY DeserializeIs DEF Inv, Stores, reload
<1>2. \A a \in Accessors : Remembers(acc'[a], root_map') /\ acc'[a].inner_coord = None
  BY <1>1, Created
<1>3. acc' \in [Accessors -> Accessor]
  BY <1>1, <1>2 DEF Remembers
<1>4. "map" \in Accessors
  BY DEF Accessors
<1> QED BY <1>1, <1>2, <1>3, <1>4 DEF Inv

-----------------------------------------------------------------------------
(* The theorems.                                                           *)

LEMMA addPointStep ==
    ASSUME Inv, NEW c \in Coords, NEW v \in Values, addPoint(c, v) \/ setValue(c, v)
    PROVE  Inv'
PROOF
<1> DEFINE yes == TRUE
           no == FALSE
           add == Write("map", cached_leaf(acc["map"], root_map, c, yes, no), c, v)
           set == Write("client", cached_leaf(acc["client"], root_map, c, yes, yes), c, v)
<1>1. "map" \in Accessors /\ "client" \in Accessors /\ v \in Cell /\ yes \in BOOLEAN /\ no \in BOOLEAN
  BY ValuesAre DEF Accessors
<1>2. add \/ set
  BY DEF addPoint, setValue
<1> HIDE DEF yes, no
<1>3. add => Inv'
  BY <1>1, WriteStep
<1>4. set => Inv'
  BY <1>1, WriteStep
<1> QED BY <1>2, <1>3, <1>4

LEMMA NextInv ==
    ASSUME Inv, [Next]_vars
    PROVE  Inv'
PROOF
<1>1. ASSUME NEW c \in Coords, NEW v \in Values, addPoint(c, v) \/ setValue(c, v) PROVE Inv'
  BY <1>1, addPointStep
<1>2. ASSUME NEW c \in Coords, setCellOn(c) PROVE Inv'
  BY <1>2, setCellOnStep
<1>3. ASSUME NEW c \in Coords, setCellOff(c) PROVE Inv'
  BY <1>3, setCellOffStep
<1>4. ASSUME NEW c \in Coords, NEW a \in {"client", "reader"}, lookup(a, c) PROVE Inv'
  <2>1. a \in Accessors \ {"map"}
    BY DEF Accessors
  <2> QED BY <1>4, <2>1, LookStep DEF lookup
<1>5. CASE releaseUnusedMemory
  BY <1>5, releaseStep
<1>6. CASE reload
  BY <1>6, reloadStep
<1>7. CASE clear
  BY <1>7, clearStep
<1>8. CASE UNCHANGED vars
  BY <1>8 DEF Inv, vars
<1> QED BY <1>1, <1>2, <1>3, <1>4, <1>5, <1>6, <1>7, <1>8 DEF Next

(* What a fresh accessor finds and forEachCell visits is what was written  *)
(* last, whatever the grid went through.                                   *)
LEMMA InvGridIsMap ==
    ASSUME Inv
    PROVE  GridIsMap
PROOF
<1>1. Stores(root_map, content) /\ Grid(root_map)
  BY DEF Inv, Stores
<1>2. ASSUME NEW c \in Coords PROVE value(createAccessor, root_map, c) = content[c]
  <2> DEFINE a == createAccessor
  <2>1. c \in Point /\ getInnerKey(c) \in Point
    BY OneVoxel, KeysAre
  <2>2. Remembers(a, root_map) /\ a.inner_coord = None
    BY Created
  <2> HIDE DEF a
  <2>3. ~Misses(a, c)
    BY <2>1, <2>2, NotNil DEF Misses
  <2>4. value(a, root_map, c) = At(root_map, c)
    BY <1>1, <2>1, <2>2, <2>3, valueIs
  <2> QED BY <1>1, <2>4 DEF Stores, a
<1>3. forEachCell(root_map) = {<<c, content[c]>> : c \in {d \in Coords : content[d] # Off}}
  BY <1>1, VisitIs
<1>4. activeCellsCount(root_map) = Cardinality({c \in Coords : content[c] # Off})
  BY <1>1, CountIs
<1> QED BY <1>2, <1>3, <1>4 DEF GridIsMap

(* An accessor that remembers no miss of a voxel finds it; that of         *)
(* OccupancyMap remembers none.                                            *)
LEMMA InvAccessorsSeeGrid ==
    ASSUME Inv
    PROVE  AccessorsSeeGrid
PROOF
<1>1. ASSUME NEW a \in Accessors, NEW c \in Coords, ~Misses(acc[a], c)
      PROVE  value(acc[a], root_map, c) = content[c]
  <2>1. Grid(root_map) /\ Remembers(acc[a], root_map) /\ c \in Point
    BY OneVoxel DEF Inv, Stores
  <2>2. value(acc[a], root_map, c) = At(root_map, c)
    BY <1>1, <2>1, valueIs
  <2> QED BY <2>2 DEF Inv, Stores
<1>2. ASSUME NEW c \in Coords PROVE ~Misses(acc["map"], c)
  <2>1. getInnerKey(c) \in Point
    BY OneVoxel, KeysAre
  <2>2. acc["map"].inner_coord = None \/ acc["map"].leaf_ptr # Nil
    BY DEF Inv
  <2> QED BY <2>1, <2>2, NotNil DEF Misses
<1> QED BY <1>1, <1>2 DEF AccessorsSeeGrid

LEMMA AlwaysInv == Spec => []Inv
PROOF
<1>1. Inv /\ [Next]_vars => Inv'
  BY NextInv
<1> QED BY InitInv, <1>1, PTL DEF Spec

(* However the voxels are written, released, cleared and reloaded, the     *)
(* tree holds the last value of each, negative coordinates too, and        *)
(* forEachCell and activeCellsCount meet those and no others.              *)
THEOREM GridIsMapHolds == Spec => []GridIsMap
PROOF
<1>1. Inv => GridIsMap
  BY InvGridIsMap
<1> QED BY AlwaysInv, <1>1, PTL

(* No accessor in use reads a freed grid, and each finds what another one  *)
(* wrote, but for a leaf it remembers missing.                             *)
THEOREM AccessorsSeeGridHolds == Spec => []AccessorsSeeGrid
PROOF
<1>1. Inv => AccessorsSeeGrid
  BY InvAccessorsSeeGrid
<1> QED BY AlwaysInv, <1>1, PTL

=============================================================================
