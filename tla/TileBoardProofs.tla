-------------------------- MODULE TileBoardProofs --------------------------
(***************************************************************************)
(* What the tray of Tile Rush does to any tiles in any order: a tile that  *)
(* is put in is one more, tiles leave by threes, and none of a face stay   *)
(* that could have left.  Shared by the proofs about both games.           *)
(***************************************************************************)
EXTENDS TileBoard, FiniteSetTheorems, SequenceTheorems, TLAPS

(* The ranks of a finite set of integers are 1 up to their number.         *)
LEMMA RankIsPositive ==
  ASSUME NEW S \in SUBSET Int, IsFiniteSet(S), NEW i \in S
  PROVE  Rank(S, i) \in 1 .. Cardinality(S)
  <1> DEFINE T == {j \in S : j <= i}
  <1>1. T \in SUBSET S /\ i \in T
    OBVIOUS
  <1>2. IsFiniteSet(T) /\ Cardinality(T) <= Cardinality(S)
    BY <1>1, FS_Subset
  <1>3. Cardinality(T) \in Nat /\ Cardinality(S) \in Nat
    BY <1>2, FS_CardinalityType
  <1>4. Cardinality(T) # 0
    BY <1>1, <1>2, FS_EmptySet
  <1>5. QED
    BY <1>2, <1>3, <1>4 DEF Rank

LEMMA RankGrows ==
  ASSUME NEW S \in SUBSET Int, IsFiniteSet(S), NEW i \in S, NEW j \in S, i < j
  PROVE  Rank(S, i) < Rank(S, j)
  <1> DEFINE T == {k \in S : k <= i}
             U == {k \in S : k <= j}
  <1>0. \A k \in S : k \in Int
    OBVIOUS
  <1>1. T \in SUBSET U /\ j \in U /\ j \notin T /\ U \in SUBSET S
    <2>1. i \in Int /\ j \in Int
      BY <1>0
    <2>2. \A k \in S : k <= i => k <= j
      BY <1>0, <2>1
    <2>3. j <= j /\ ~(j <= i)
      BY <2>1
    <2>4. QED
      BY <2>2, <2>3
  <1>2. IsFiniteSet(U)
    BY <1>1, FS_Subset
  <1>3. IsFiniteSet(T) /\ Cardinality(T) <= Cardinality(U) /\ Cardinality(T) # Cardinality(U)
    BY <1>1, <1>2, FS_Subset
  <1>4. Cardinality(T) \in Nat /\ Cardinality(U) \in Nat
    BY <1>2, <1>3, FS_CardinalityType
  <1>5. QED
    BY <1>3, <1>4 DEF Rank

LEMMA RankIsInjective ==
  ASSUME NEW S \in SUBSET Int, IsFiniteSet(S), NEW i \in S, NEW j \in S,
         Rank(S, i) = Rank(S, j)
  PROVE  i = j
  <1>1. i \in Int /\ j \in Int
    OBVIOUS
  <1>2. Rank(S, i) \in Int
    BY RankIsPositive
  <1>3. CASE i < j
    BY <1>2, <1>3, RankGrows
  <1>4. CASE j < i
    BY <1>2, <1>4, RankGrows
  <1>5. QED
    BY <1>1, <1>3, <1>4

LEMMA RankIsOnto ==
  ASSUME NEW S \in SUBSET Int, IsFiniteSet(S), NEW k \in 1 .. Cardinality(S)
  PROVE  \E i \in S : Rank(S, i) = k
  <1> DEFINE n == Cardinality(S)
             rank == [i \in S |-> Rank(S, i)]
  <1>1. n \in Nat
    BY FS_CardinalityType
  <1>2. rank \in [S -> 1 .. n]
    BY RankIsPositive
  <1>3. \A i, j \in S : rank[i] = rank[j] => i = j
    BY RankIsInjective
  <1>4. rank \in Injection(S, 1 .. n)
    BY <1>2, <1>3 DEF Injection, IsInjective
  <1>5. IsFiniteSet(1 .. n) /\ Cardinality(1 .. n) = n
    BY <1>1, FS_Interval
  <1>6. rank \in Surjection(S, 1 .. n)
    BY <1>4, <1>5, FS_Injection
  <1>7. QED
    BY <1>6 DEF Surjection

(* The greatest element is there: it is the one of the last rank.          *)
LEMMA MaxIsThere ==
  ASSUME NEW S \in SUBSET Int, IsFiniteSet(S), S # {}
  PROVE  Max(S) \in S
  <1> DEFINE n == Cardinality(S)
  <1>1. n \in Nat /\ n # 0
    BY FS_CardinalityType, FS_EmptySet
  <1>2. n \in 1 .. Cardinality(S)
    BY <1>1
  <1>3. PICK m \in S : Rank(S, m) = n
    BY <1>2, RankIsOnto
  <1> DEFINE T == {j \in S : j <= m}
  <1>4. T \in SUBSET S /\ Cardinality(T) = Cardinality(S)
    BY <1>3 DEF Rank
  <1>5. T = S
    BY <1>4, FS_Subset
  <1>6. \A j \in S : m >= j
    BY <1>5
  <1>7. QED
    BY <1>6 DEF Max

-----------------------------------------------------------------------------
LEMMA InsertIsOneLonger ==
  ASSUME NEW S, NEW s \in Seq(S), NEW e \in S, NEW i \in 1 .. Len(s) + 1
  PROVE  InsertAt(s, i, e) \in Seq(S) /\ Len(InsertAt(s, i, e)) = Len(s) + 1
  <1>1. PICK n : n = Len(s)
    OBVIOUS
  <1>2. n \in Nat /\ i \in 1 .. n + 1
    BY <1>1, LenProperties
  <1>3. \A j \in 1 .. n : s[j] \in S
    BY <1>1, ElementOfSeq
  <1>4. PICK before : before = SubSeq(s, 1, i - 1)
    OBVIOUS
  <1>5. PICK behind : behind = SubSeq(s, i, n)
    OBVIOUS
  <1>6. before \in Seq(S) /\ Len(before) = i - 1
    <2>1. i - 1 \in Int /\ \A j \in 1 .. i - 1 : s[j] \in S
      BY <1>2, <1>3
    <2>2. before \in Seq(S) /\ Len(before) = IF 1 <= i - 1 THEN (i - 1) - 1 + 1 ELSE 0
      BY <1>4, <2>1, SubSeqProperties
    <2>3. QED
      BY <1>2, <2>2
  <1>7. behind \in Seq(S) /\ Len(behind) = n - i + 1
    <2>1. i \in Int /\ n \in Int /\ \A j \in i .. n : s[j] \in S
      BY <1>2, <1>3
    <2>2. behind \in Seq(S) /\ Len(behind) = IF i <= n THEN n - i + 1 ELSE 0
      BY <1>5, <2>1, SubSeqProperties
    <2>3. QED
      BY <1>2, <2>2
  <1>8. PICK upTo : upTo = before \o <<e>>
    OBVIOUS
  <1>9. upTo \in Seq(S) /\ Len(upTo) = i
    <2>1. <<e>> \in Seq(S) /\ Len(<<e>>) = 1
      OBVIOUS
    <2>2. upTo \in Seq(S) /\ Len(upTo) = Len(before) + Len(<<e>>)
      BY <1>6, <1>8, <2>1, ConcatProperties
    <2>3. QED
      BY <1>2, <1>6, <2>1, <2>2
  <1>10. InsertAt(s, i, e) = upTo \o behind
    BY <1>1, <1>4, <1>5, <1>8 DEF InsertAt
  <1>11. upTo \o behind \in Seq(S) /\ Len(upTo \o behind) = Len(upTo) + Len(behind)
    BY <1>7, <1>9, ConcatProperties
  <1>12. QED
    BY <1>1, <1>2, <1>7, <1>9, <1>10, <1>11

(* A tile that is put into the tray is one more in it.                     *)
LEMMA OneMoreInTray ==
  ASSUME NEW tray \in Seq(TrayTile), NEW tile \in TrayTile
  PROVE  /\ AddTileToTrayGrouped(tray, tile) \in Seq(TrayTile)
         /\ Len(AddTileToTrayGrouped(tray, tile)) = Len(tray) + 1
  <1> DEFINE same == {i \in DOMAIN tray : tray[i].face = tile.face}
             with == AddTileToTrayGrouped(tray, tile)
  <1>1. Len(tray) \in Nat /\ DOMAIN tray = 1 .. Len(tray)
    BY LenProperties
  <1>2. CASE same = {}
    <2>1. with = Append(tray, tile)
      BY <1>2 DEF AddTileToTrayGrouped
    <2>2. QED
      BY <2>1, AppendProperties
  <1>3. CASE same # {}
    <2>0. PICK m : m = Max(same)
      OBVIOUS
    <2>1. same \in SUBSET Int /\ IsFiniteSet(1 .. Len(tray)) /\ same \in SUBSET (1 .. Len(tray))
      BY <1>1, FS_Interval
    <2>2. IsFiniteSet(same)
      BY <2>1, FS_Subset
    <2>3. m \in same
      BY <1>3, <2>0, <2>1, <2>2, MaxIsThere
    <2>4. m \in 1 .. Len(tray)
      BY <1>1, <2>3
    <2>5. with = InsertAt(tray, m + 1, tile)
      BY <1>3, <2>0 DEF AddTileToTrayGrouped
    <2>6. m + 1 \in 1 .. Len(tray) + 1
      BY <1>1, <2>4
    <2>7. QED
      BY <2>5, <2>6, InsertIsOneLonger
  <1>4. QED
    BY <1>2, <1>3

(* The tiles of one face are alike, and the tray is finite.                *)
LEMMA AlikeIsShared ==
  ASSUME NEW tray \in Seq(TrayTile), NEW i \in DOMAIN tray
  PROVE  /\ Alike(tray, i) \in SUBSET Int /\ IsFiniteSet(Alike(tray, i))
         /\ i \in Alike(tray, i)
         /\ \A j \in Alike(tray, i) : j \in DOMAIN tray /\ Alike(tray, j) = Alike(tray, i)
         /\ Cardinality(Alike(tray, i)) \in Nat
  <1>1. Len(tray) \in Nat /\ DOMAIN tray = 1 .. Len(tray)
    BY LenProperties
  <1>2. IsFiniteSet(1 .. Len(tray)) /\ Alike(tray, i) \in SUBSET (1 .. Len(tray))
    BY <1>1, FS_Interval DEF Alike
  <1>3. IsFiniteSet(Alike(tray, i))
    BY <1>2, FS_Subset
  <1>4. QED
    BY <1>1, <1>2, <1>3, FS_CardinalityType DEF Alike

LEMMA TrayIsFinite ==
  ASSUME NEW tray \in Seq(TrayTile)
  PROVE  /\ DOMAIN tray \in SUBSET Int /\ IsFiniteSet(DOMAIN tray)
         /\ Cardinality(DOMAIN tray) = Len(tray) /\ Len(tray) \in Nat
         /\ InTriple(tray) \in SUBSET DOMAIN tray
         /\ IsFiniteSet(InTriple(tray)) /\ Cardinality(InTriple(tray)) \in Nat
  <1>1. Len(tray) \in Nat /\ DOMAIN tray = 1 .. Len(tray)
    BY LenProperties
  <1>2. IsFiniteSet(1 .. Len(tray)) /\ Cardinality(1 .. Len(tray)) = Len(tray)
    BY <1>1, FS_Interval
  <1>3. InTriple(tray) \in SUBSET DOMAIN tray
    BY DEF InTriple
  <1>4. IsFiniteSet(InTriple(tray))
    BY <1>1, <1>2, <1>3, FS_Subset
  <1>5. QED
    BY <1>1, <1>2, <1>3, <1>4, FS_CardinalityType

-----------------------------------------------------------------------------
(* Tiles leave the tray by threes: the tiles that go are three times those *)
(* of them whose rank among their own is a multiple of three.              *)
LEMMA TriplesAreWhole ==
  ASSUME NEW tray \in Seq(TrayTile)
  PROVE  /\ Matches(tray) \in Nat
         /\ Cardinality(InTriple(tray)) = 3 * Matches(tray)
  <1> DEFINE I == InTriple(tray)
             r(i) == Rank(Alike(tray, i), i)
             q(i) == Cardinality(Alike(tray, i)) \div 3
             T == {i \in I : r(i) % 3 = 0}
             P == T \X (0 .. 2)
             to == [p \in P |-> CHOOSE j \in Alike(tray, p[1]) :
                                  Rank(Alike(tray, p[1]), j) = r(p[1]) - p[2]]
  <1>1. \A i \in I : /\ i \in DOMAIN tray /\ r(i) <= 3 * q(i)
                     /\ Cardinality(Alike(tray, i)) \in Nat /\ q(i) \in Nat
                     /\ 3 * q(i) <= Cardinality(Alike(tray, i))
                     /\ r(i) \in 1 .. Cardinality(Alike(tray, i))
    <2> TAKE i \in I
    <2>1. i \in DOMAIN tray /\ r(i) <= 3 * q(i)
      BY DEF InTriple
    <2>2. Cardinality(Alike(tray, i)) \in Nat
      BY <2>1, AlikeIsShared
    <2>3. r(i) \in 1 .. Cardinality(Alike(tray, i))
      BY <2>1, AlikeIsShared, RankIsPositive
    <2>4. q(i) \in Nat /\ 3 * q(i) <= Cardinality(Alike(tray, i))
      BY <2>2
    <2>5. QED
      BY <2>1, <2>2, <2>3, <2>4
  <1>2. \A p \in P : /\ p[1] \in I /\ p[2] \in 0 .. 2
                     /\ r(p[1]) - p[2] \in 1 .. 3 * q(p[1])
                     /\ r(p[1]) % 3 = 0 /\ r(p[1]) \in Nat /\ q(p[1]) \in Nat
                     /\ p = <<p[1], p[2]>>
    <2> TAKE p \in P
    <2>1. p[1] \in I /\ p[2] \in 0 .. 2 /\ r(p[1]) % 3 = 0 /\ p = <<p[1], p[2]>>
      OBVIOUS
    <2> HIDE DEF P, T
    <2>2. r(p[1]) \in Nat \ {0} /\ q(p[1]) \in Nat /\ r(p[1]) <= 3 * q(p[1])
      BY <1>1, <2>1
    <2> HIDE DEF r, q
    <2>3. r(p[1]) - p[2] \in 1 .. 3 * q(p[1])
      BY <2>1, <2>2
    <2>4. QED
      BY <2>1, <2>2, <2>3
  <1>3. \A p \in P : /\ to[p] \in Alike(tray, p[1])
                     /\ r(to[p]) = r(p[1]) - p[2]
                     /\ Alike(tray, to[p]) = Alike(tray, p[1])
                     /\ to[p] \in I
    <2> TAKE p \in P
    <2> DEFINE A == Alike(tray, p[1])
               k == r(p[1]) - p[2]
    <2>1. p[1] \in DOMAIN tray
      BY <1>1, <1>2
    <2>2. A \in SUBSET Int /\ IsFiniteSet(A)
      BY <2>1, AlikeIsShared
    <2>3. k \in 1 .. Cardinality(A)
      BY <1>1, <1>2
    <2>4. \E j \in A : Rank(A, j) = k
      BY <2>2, <2>3, RankIsOnto
    <2>5. to[p] \in A /\ Rank(A, to[p]) = k
      BY <2>4
    <2> HIDE DEF to
    <2>6. to[p] \in DOMAIN tray /\ Alike(tray, to[p]) = A
      BY <2>1, <2>5, AlikeIsShared
    <2>7. r(to[p]) = k /\ q(to[p]) = q(p[1])
      BY <2>5, <2>6
    <2>8. r(to[p]) <= 3 * q(to[p])
      BY <1>2, <2>7
    <2>9. to[p] \in I
      BY <2>6, <2>8 DEF InTriple
    <2>10. QED
      BY <2>5, <2>6, <2>7, <2>9
  <1>4. to \in [P -> I]
    BY <1>3
  <1>5. ASSUME NEW a \in P, NEW b \in P, to[a] = to[b]
        PROVE  a = b
    <2>1. Alike(tray, a[1]) = Alike(tray, b[1]) /\ r(a[1]) - a[2] = r(b[1]) - b[2]
      BY <1>3, <1>5
    <2>2. r(a[1]) = r(b[1]) /\ a[2] = b[2]
      <3>1. PICK x, y, k, l : x = r(a[1]) /\ y = r(b[1]) /\ k = a[2] /\ l = b[2]
        OBVIOUS
      <3>2. x \in Nat /\ x % 3 = 0 /\ k \in 0 .. 2
        BY <1>2, <3>1
      <3>3. y \in Nat /\ y % 3 = 0 /\ l \in 0 .. 2
        BY <1>2, <3>1
      <3>4. x - k = y - l
        BY <2>1, <3>1
      <3>5. x = y /\ k = l
        BY <3>2, <3>3, <3>4
      <3>6. QED
        BY <3>1, <3>5
    <2>3. a[1] \in DOMAIN tray /\ b[1] \in DOMAIN tray
      BY <1>1, <1>2
    <2> DEFINE A == Alike(tray, a[1])
    <2>4. A \in SUBSET Int /\ IsFiniteSet(A) /\ a[1] \in A /\ b[1] \in A
      BY <2>1, <2>3, AlikeIsShared
    <2>5. Rank(A, a[1]) = Rank(A, b[1])
      BY <2>1, <2>2
    <2>6. a[1] = b[1]
      BY <2>4, <2>5, RankIsInjective
    <2>7. QED
      BY <1>2, <2>2, <2>6
  <1>6. ASSUME NEW j \in I
        PROVE  \E p \in P : to[p] = j
    <2> DEFINE A == Alike(tray, j)
               k == (3 - (r(j) % 3)) % 3
    <2>1. /\ j \in DOMAIN tray /\ r(j) \in Nat \ {0} /\ q(j) \in Nat
          /\ r(j) <= 3 * q(j) /\ 3 * q(j) <= Cardinality(A) /\ Cardinality(A) \in Nat
      BY <1>1
    <2>2. k \in 0 .. 2 /\ r(j) + k \in 1 .. 3 * q(j) /\ (r(j) + k) % 3 = 0
      <3> HIDE DEF r, q
      <3>1. QED
        BY <2>1
    <2> HIDE DEF k
    <2>3. A \in SUBSET Int /\ IsFiniteSet(A) /\ j \in A
      BY <2>1, AlikeIsShared
    <2>4. r(j) + k \in 1 .. Cardinality(A)
      BY <2>1, <2>2
    <2>5. PICK i \in A : Rank(A, i) = r(j) + k
      BY <2>3, <2>4, RankIsOnto
    <2>6. i \in DOMAIN tray /\ Alike(tray, i) = A
      BY <2>1, <2>5, AlikeIsShared
    <2>7. r(i) = r(j) + k /\ q(i) = q(j)
      BY <2>5, <2>6
    <2>8. i \in I /\ r(i) % 3 = 0
      BY <2>2, <2>6, <2>7 DEF InTriple
    <2>9. <<i, k>> \in P
      BY <2>2, <2>8
    <2>10. to[<<i, k>>] \in A /\ r(to[<<i, k>>]) = r(i) - k /\ Alike(tray, to[<<i, k>>]) = A
      BY <1>3, <2>6, <2>9
    <2>11. Rank(A, to[<<i, k>>]) = Rank(A, j)
      BY <2>1, <2>2, <2>7, <2>10
    <2>12. to[<<i, k>>] = j
      BY <2>3, <2>10, <2>11, RankIsInjective
    <2>13. QED
      BY <2>9, <2>12
  <1>7. IsFiniteSet(I) /\ Cardinality(I) \in Nat
    BY TrayIsFinite
  <1>8. IsFiniteSet(T) /\ Cardinality(T) \in Nat
    BY <1>7, FS_Subset, FS_CardinalityType
  <1>9. IsFiniteSet(0 .. 2) /\ Cardinality(0 .. 2) = 3
    <2>1. 0 \in Int /\ 2 \in Int /\ ~(0 > 2) /\ 2 - 0 + 1 = 3
      OBVIOUS
    <2>2. IsFiniteSet(0 .. 2) /\ Cardinality(0 .. 2) = IF 0 > 2 THEN 0 ELSE 2 - 0 + 1
      BY <2>1, FS_Interval
    <2>3. QED
      BY <2>1, <2>2
  <1>10. IsFiniteSet(P) /\ Cardinality(P) = Cardinality(T) * 3
    BY <1>8, <1>9, FS_Product
  <1> HIDE DEF I, T, P, to
  <1>11. to \in Surjection(P, I) /\ to \in Injection(P, I)
    BY <1>4, <1>5, <1>6 DEF Surjection, Injection, IsInjective
  <1>12. Cardinality(I) = Cardinality(P)
    BY <1>10, <1>11, FS_Surjection
  <1>13. Matches(tray) = Cardinality(I) \div 3
    BY DEF Matches, I
  <1>14. QED
    BY <1>8, <1>10, <1>12, <1>13 DEF I

(* The tiles that stay close up.                                           *)
LEMMA TheRestCloses ==
  ASSUME NEW tray \in Seq(TrayTile)
  PROVE  /\ Resolved(tray) \in Seq(TrayTile)
         /\ Len(Resolved(tray)) = Cardinality(Kept(tray))
         /\ Len(Resolved(tray)) = Len(tray) - 3 * Matches(tray)
         /\ \A k \in DOMAIN Resolved(tray) : \E i \in Kept(tray) :
              Rank(Kept(tray), i) = k /\ Resolved(tray)[k] = tray[i]
  <1> DEFINE K == Kept(tray)
             n == Cardinality(K)
             at(k) == CHOOSE i \in K : Rank(K, i) = k
  <1>1. K \in SUBSET DOMAIN tray /\ K = DOMAIN tray \ InTriple(tray)
    BY DEF Kept
  <1>2. K \in SUBSET Int /\ IsFiniteSet(K) /\ n \in Nat
    BY <1>1, TrayIsFinite, FS_Subset, FS_CardinalityType
  <1>3. \A k \in 1 .. n : at(k) \in K /\ Rank(K, at(k)) = k
    BY <1>2, RankIsOnto
  <1>4. \A i \in DOMAIN tray : tray[i] \in TrayTile
    BY LenProperties, ElementOfSeq
  <1>5. \A k \in 1 .. n : tray[at(k)] \in TrayTile
    BY <1>1, <1>3, <1>4
  <1>6. Resolved(tray) = [k \in 1 .. n |-> tray[at(k)]]
    BY DEF Resolved
  <1> HIDE DEF n, at, K
  <1>7. Resolved(tray) \in Seq(TrayTile) /\ Len(Resolved(tray)) = n /\ DOMAIN Resolved(tray) = 1 .. n
    BY <1>2, <1>5, <1>6
  <1>8. n = Len(tray) - 3 * Matches(tray)
    <2>1. InTriple(tray) \in SUBSET DOMAIN tray /\ IsFiniteSet(DOMAIN tray)
          /\ Cardinality(DOMAIN tray) = Len(tray)
      BY TrayIsFinite
    <2>2. n = Cardinality(DOMAIN tray) - Cardinality(DOMAIN tray \cap InTriple(tray))
      BY <1>1, <2>1, FS_Difference DEF n
    <2>3. DOMAIN tray \cap InTriple(tray) = InTriple(tray)
      BY <2>1
    <2>4. QED
      BY <2>1, <2>2, <2>3, TriplesAreWhole
  <1>9. \A k \in 1 .. n : \E i \in K : Rank(K, i) = k /\ Resolved(tray)[k] = tray[i]
    BY <1>3, <1>6
  <1>10. QED
    BY <1>7, <1>8, <1>9 DEF n, K

(* Of each face at most two stay: their ranks are those above the triples. *)
LEMMA AtMostTwoStay ==
  ASSUME NEW tray \in Seq(TrayTile), NEW i \in DOMAIN tray
  PROVE  /\ IsFiniteSet(Alike(tray, i) \cap Kept(tray))
         /\ Cardinality(Alike(tray, i) \cap Kept(tray)) <= 2
  <1> DEFINE A == Alike(tray, i)
             B == A \cap Kept(tray)
             c == Cardinality(A)
             t == 3 * (c \div 3)
             rank == [j \in B |-> Rank(A, j)]
  <1>1. A \in SUBSET Int /\ IsFiniteSet(A) /\ c \in Nat
        /\ \A j \in A : j \in DOMAIN tray /\ Alike(tray, j) = A
    BY AlikeIsShared
  <1>2. t \in Nat /\ t + 1 \in Int /\ c \in Int /\ t <= c /\ c <= t + 2
    BY <1>1
  <1>3. \A j \in B : Rank(A, j) \in t + 1 .. c
    <2> TAKE j \in B
    <2>1. j \in A /\ j \notin InTriple(tray)
      BY DEF Kept
    <2>2. ~(Rank(A, j) <= t)
      BY <1>1, <2>1 DEF InTriple
    <2>3. Rank(A, j) \in 1 .. c
      BY <1>1, <2>1, RankIsPositive
    <2> HIDE DEF t, c
    <2>4. QED
      BY <1>2, <2>2, <2>3
  <1>4. rank \in [B -> t + 1 .. c]
    BY <1>3
  <1>5. \A j, k \in B : rank[j] = rank[k] => j = k
    BY <1>1, RankIsInjective
  <1> HIDE DEF rank, t, c
  <1>6. rank \in Injection(B, t + 1 .. c)
    BY <1>4, <1>5 DEF Injection, IsInjective
  <1>7. IsFiniteSet(t + 1 .. c) /\ Cardinality(t + 1 .. c) <= 2
    <2>1. IsFiniteSet(t + 1 .. c)
          /\ Cardinality(t + 1 .. c) = IF t + 1 > c THEN 0 ELSE c - (t + 1) + 1
      BY <1>2, FS_Interval
    <2>2. QED
      BY <1>2, <2>1
  <1>8. IsFiniteSet(B) /\ Cardinality(B) <= Cardinality(t + 1 .. c)
    BY <1>6, <1>7, FS_Injection
  <1>9. Cardinality(B) \in Nat /\ Cardinality(t + 1 .. c) \in Nat
    BY <1>7, <1>8, FS_CardinalityType
  <1>10. QED
    BY <1>7, <1>8, <1>9

(* So no triple is left.                                                   *)
LEMMA NoTripleStays ==
  ASSUME NEW tray \in Seq(TrayTile)
  PROVE  Matches(Resolved(tray)) = 0
  <1> DEFINE R == Resolved(tray)
             K == Kept(tray)
             at == [k \in DOMAIN R |-> CHOOSE i \in K : Rank(K, i) = k /\ R[k] = tray[i]]
  <1>1. R \in Seq(TrayTile)
    BY TheRestCloses
  <1>2. \A k \in DOMAIN R : at[k] \in K /\ Rank(K, at[k]) = k /\ R[k] = tray[at[k]]
    BY TheRestCloses
  <1>3. K \in SUBSET DOMAIN tray
    BY DEF Kept
  <1> HIDE DEF R, at
  <1>4. ASSUME NEW k \in DOMAIN R
        PROVE  Cardinality(Alike(R, k)) <= 2 /\ Cardinality(Alike(R, k)) \in Nat
    <2> DEFINE S == Alike(R, k)
               T == Alike(tray, at[k]) \cap K
               to == [l \in S |-> at[l]]
    <2>1. S \in SUBSET DOMAIN R
      BY DEF Alike
    <2>2. \A l \in S : at[l] \in T
      BY <1>2, <1>3, <2>1 DEF Alike
    <2>3. to \in [S -> T]
      BY <2>2
    <2>4. \A l, m \in S : to[l] = to[m] => l = m
      BY <1>2, <2>1
    <2> HIDE DEF to
    <2>5. to \in Injection(S, T)
      BY <2>3, <2>4 DEF Injection, IsInjective
    <2>6. at[k] \in DOMAIN tray
      BY <1>2, <1>3
    <2>7. IsFiniteSet(T) /\ Cardinality(T) <= 2
      BY <2>6, AtMostTwoStay
    <2>8. IsFiniteSet(S) /\ Cardinality(S) <= Cardinality(T)
      BY <2>5, <2>7, FS_Injection
    <2>9. Cardinality(S) \in Nat /\ Cardinality(T) \in Nat
      BY <2>7, <2>8, FS_CardinalityType
    <2>10. QED
      BY <2>7, <2>8, <2>9
  <1>5. ASSUME NEW k \in InTriple(R)
        PROVE  FALSE
    <2> DEFINE S == Alike(R, k)
    <2>1. k \in DOMAIN R /\ Rank(S, k) <= 3 * (Cardinality(S) \div 3)
      BY DEF InTriple
    <2>2. Cardinality(S) \in 0 .. 2
      BY <1>4, <2>1
    <2>3. Cardinality(S) \div 3 = 0
      BY <2>2
    <2>4. Rank(S, k) \in 1 .. Cardinality(S)
      BY <1>1, <2>1, AlikeIsShared, RankIsPositive
    <2> HIDE DEF S
    <2>5. QED
      BY <2>1, <2>2, <2>3, <2>4
  <1>6. InTriple(R) = {}
    BY <1>5
  <1>7. Cardinality(InTriple(R)) = 0
    BY <1>6, FS_EmptySet
  <1>8. QED
    BY <1>7 DEF Matches, R
=============================================================================
