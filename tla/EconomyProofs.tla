--------------------------- MODULE EconomyProofs ---------------------------
(***************************************************************************)
(* Facts about the fee split and the weekly shares, for every fee and pool, *)
(* and about sums of credits, for every finite set of accounts.            *)
(***************************************************************************)
EXTENDS Economy, Functions, FiniteSets, FiniteSetTheorems, WellFoundedInduction, TLAPS

(* splitDailyEntryFee never creates or loses a credit, and no part of the  *)
(* split is negative, whatever rounding the two floors do.                 *)
THEOREM SplitConservesFee ==
  ASSUME NEW fee \in Nat
  PROVE  LET s == SplitDailyEntryFee(fee)
         IN  /\ s.rewards + s.treasury + s.weeklyJackpot = fee
             /\ s.rewards \in Nat /\ s.treasury \in Nat /\ s.weeklyJackpot \in Nat
  <1> DEFINE r == (fee * 70) \div 100
             t == (fee * 20) \div 100
  <1>1. r \in Nat /\ 100 * r <= 70 * fee
    OBVIOUS
  <1>2. t \in Nat /\ 100 * t <= 20 * fee
    OBVIOUS
  <1> HIDE DEF r, t
  <1>3. fee - r - t \in Nat
    BY <1>1, <1>2
  <1>4. SplitDailyEntryFee(fee) = [rewards |-> r, treasury |-> t, weeklyJackpot |-> fee - r - t]
    BY DEF SplitDailyEntryFee, RewardsPercent, TreasuryPercent, r, t
  <1>5. QED
    BY <1>1, <1>2, <1>3, <1>4

(* computeWeeklyReward never promises more than the pool: the three podium *)
(* prizes and seven runner-up prizes add up to at most the pool.           *)
THEOREM WeeklyPrizesFitPool ==
  ASSUME NEW pool \in Nat
  PROVE  /\ PodiumTotal(pool) \in Nat
         /\ RunnerUp(pool) \in Nat
         /\ PodiumTotal(pool) + RunnerUpSlots * RunnerUp(pool) <= pool
  <1> DEFINE a == (pool * 35) \div 100
             b == (pool * 20) \div 100
             c == (pool * 12) \div 100
             d == (pool - (a + b + c)) \div 7
  <1>1. a \in Nat /\ 100 * a <= 35 * pool
    OBVIOUS
  <1>2. b \in Nat /\ 100 * b <= 20 * pool
    OBVIOUS
  <1>3. c \in Nat /\ 100 * c <= 12 * pool
    OBVIOUS
  <1>4. PodiumTotal(pool) = a + b + c
    BY DEF PodiumTotal, Podium, WeeklyShare
  <1> HIDE DEF a, b, c
  <1>5. a + b + c \in Nat /\ a + b + c <= pool
    BY <1>1, <1>2, <1>3
  <1>6. d \in Nat /\ 7 * d <= pool - (a + b + c)
    BY <1>5
  <1> HIDE DEF d
  <1>7. RunnerUp(pool) = d
    <2>1. CASE pool - (a + b + c) > 0
      BY <1>4, <2>1 DEF RunnerUp, RunnerUpSlots, d
    <2>2. CASE pool - (a + b + c) = 0
      BY <1>4, <2>2 DEF RunnerUp, RunnerUpSlots, d
    <2>3. QED
      BY <1>1, <1>2, <1>3, <1>5, <2>1, <2>2
  <1>8. QED
    BY <1>4, <1>5, <1>6, <1>7 DEF RunnerUpSlots

-----------------------------------------------------------------------------
(* Sums over finite sets.  SumFunctionOnSet is the CHOOSE of a recursive   *)
(* function; the lemmas show there is such a function and that it does not *)
(* matter which element it takes first.                                    *)

(* Induction over the naturals, for a set of them in place of a predicate. *)
LEMMA AllNaturals ==
  ASSUME NEW S \in SUBSET Nat, 0 \in S, \A n \in S : n + 1 \in S
  PROVE  S = Nat
  <1> DEFINE R == OpToRel(<, Nat)
             T == Nat \ S
  <1> SUFFICES ASSUME T # {} PROVE FALSE
    OBVIOUS
  <1>1. IsWellFoundedOn(R, Nat)
    BY NatLessThanWellFounded
  <1> HIDE DEF R
  <1>2. PICK x \in T : \A y \in T : ~ (<<y, x>> \in R)
    BY <1>1, WFMin
  <1>3. x \in Nat /\ x # 0 /\ x - 1 \in Nat
    BY <1>2
  <1>4. x - 1 \in T
    BY <1>3
  <1>5. <<x - 1, x>> \in R
    BY <1>3 DEF R, OpToRel
  <1>6. QED
    BY <1>2, <1>4, <1>5

(* The function SumFunctionOnSet defines, from subsets of D to their sums. *)
Sums(f, D) ==
  CHOOSE it : it = [s \in SUBSET D |->
    IF s = {} THEN 0 ELSE LET x == CHOOSE x \in s : TRUE IN f[x] + it[s \ {x}]]

LEMMA SumIsLast == ASSUME NEW f, NEW D PROVE SumFunctionOnSet(f, D) = Sums(f, D)[D]
  BY DEF SumFunctionOnSet, FoldFunctionOnSet, MapThenFoldSet, Sums

(* The element the sum takes first.                                        *)
Some(s) == CHOOSE x \in s : TRUE

LEMMA OneLess ==
  ASSUME NEW s, IsFiniteSet(s), s # {}
  PROVE  /\ Some(s) \in s
         /\ IsFiniteSet(s \ {Some(s)})
         /\ Cardinality(s) \in Nat
         /\ Cardinality(s \ {Some(s)}) = Cardinality(s) - 1
  <1>1. Some(s) \in s
    BY DEF Some
  <1>2. QED
    BY <1>1, FS_RemoveElement, FS_CardinalityType

(* it gives every subset of D its sum, by the recursion of Sums.           *)
Adds(it, f, D) ==
  /\ it = [s \in SUBSET D |-> it[s]]
  /\ \A s \in SUBSET D : it[s] = IF s = {} THEN 0 ELSE f[Some(s)] + it[s \ {Some(s)}]

(* Two such functions agree where the summed functions do.                 *)
LEMMA AddsUnique ==
  ASSUME NEW f, NEW g, NEW D, NEW i, NEW j, NEW E, IsFiniteSet(D), D \subseteq E,
         \A x \in D : f[x] = g[x],
         Adds(i, f, D), Adds(j, g, E)
  PROVE  i[D] = j[D]
  <1> DEFINE S == {n \in Nat : \A s \in SUBSET D : Cardinality(s) = n => i[s] = j[s]}
  <1>1. 0 \in S
    <2> SUFFICES ASSUME NEW s \in SUBSET D, Cardinality(s) = 0 PROVE i[s] = j[s]
      OBVIOUS
    <2>1. s = {}
      BY FS_Subset, FS_EmptySet
    <2>2. QED
      BY <2>1 DEF Adds
  <1>2. \A n \in S : n + 1 \in S
    <2> SUFFICES ASSUME NEW n \in S, NEW s \in SUBSET D, Cardinality(s) = n + 1
                 PROVE  i[s] = j[s]
      OBVIOUS
    <2>1. IsFiniteSet(s) /\ s # {}
      BY FS_Subset, FS_EmptySet
    <2>2. Some(s) \in s /\ Cardinality(s \ {Some(s)}) = Cardinality(s) - 1
      BY <2>1, OneLess
    <2>3. i[s \ {Some(s)}] = j[s \ {Some(s)}]
      <3>1. s \ {Some(s)} \in SUBSET D
        OBVIOUS
      <3>2. Cardinality(s \ {Some(s)}) = n
        BY <2>2
      <3>3. QED
        BY <3>1, <3>2
    <2>4. i[s] = f[Some(s)] + i[s \ {Some(s)}]
      BY <2>1 DEF Adds
    <2>5. j[s] = g[Some(s)] + j[s \ {Some(s)}]
      BY <2>1 DEF Adds
    <2>6. QED
      BY <2>2, <2>3, <2>4, <2>5
  <1>3. S = Nat
    <2> HIDE DEF S
    <2> S \in SUBSET Nat
      BY DEF S
    <2> QED
      BY <1>1, <1>2, AllNaturals
  <1>4. Cardinality(D) \in Nat
    BY FS_CardinalityType
  <1>5. QED
    BY <1>3, <1>4

(* There is one for every finite set of integers.                          *)
LEMMA AddsExists ==
  ASSUME NEW f, NEW D, IsFiniteSet(D), \A x \in D : f[x] \in Int
  PROVE  \E it \in [SUBSET D -> Int] : Adds(it, f, D)
  <1> DEFINE Next(it, s) == IF s = {} THEN 0 ELSE f[Some(s)] + it[s \ {Some(s)}]
             Upto(it, n) == \A s \in SUBSET D : Cardinality(s) <= n => it[s] = Next(it, s)
             S == {n \in Nat : \E it \in [SUBSET D -> Int] : Upto(it, n)}
  <1>1. 0 \in S
    <2> DEFINE z == [s \in SUBSET D |-> 0]
    <2>1. \A s \in SUBSET D : Cardinality(s) <= 0 => s = {}
      BY FS_Subset, FS_EmptySet, FS_CardinalityType
    <2>2. Upto(z, 0)
      BY <2>1
    <2>3. z \in [SUBSET D -> Int]
      OBVIOUS
    <2>4. QED
      BY <2>2, <2>3
  <1>2. \A n \in S : n + 1 \in S
    <2> SUFFICES ASSUME NEW n \in S PROVE n + 1 \in S
      OBVIOUS
    <2>1. PICK it \in [SUBSET D -> Int] : Upto(it, n)
      OBVIOUS
    <2> DEFINE new == [s \in SUBSET D |-> Next(it, s)]
    <2>2. \A s \in SUBSET D : s # {} => /\ Some(s) \in D
                                        /\ s \ {Some(s)} \in SUBSET D
                                        /\ Cardinality(s \ {Some(s)}) = Cardinality(s) - 1
                                        /\ Cardinality(s) \in Nat
      <3> SUFFICES ASSUME NEW s \in SUBSET D, s # {}
                   PROVE  /\ Some(s) \in D
                          /\ s \ {Some(s)} \in SUBSET D
                          /\ Cardinality(s \ {Some(s)}) = Cardinality(s) - 1
                          /\ Cardinality(s) \in Nat
        OBVIOUS
      <3>1. IsFiniteSet(s)
        BY FS_Subset
      <3>2. QED
        BY <3>1, OneLess
    <2>3. \A s \in SUBSET D : Next(it, s) \in Int
      <3> SUFFICES ASSUME NEW s \in SUBSET D, s # {}
                   PROVE  f[Some(s)] + it[s \ {Some(s)}] \in Int
        OBVIOUS
      <3>1. f[Some(s)] \in Int
        BY <2>2
      <3>2. it[s \ {Some(s)}] \in Int
        BY <2>2
      <3>3. QED
        BY <3>1, <3>2
    <2>4. new \in [SUBSET D -> Int]
      BY <2>3
    <2>5. \A s \in SUBSET D : Cardinality(s) <= n => new[s] = it[s]
      BY <2>1
    <2>6. Upto(new, n + 1)
      <3> SUFFICES ASSUME NEW s \in SUBSET D, Cardinality(s) <= n + 1, s # {}
                   PROVE  new[s] = f[Some(s)] + new[s \ {Some(s)}]
        OBVIOUS
      <3>1. s \ {Some(s)} \in SUBSET D /\ Cardinality(s \ {Some(s)}) <= n
        BY <2>2
      <3>2. new[s \ {Some(s)}] = it[s \ {Some(s)}]
        BY <2>5, <3>1
      <3>3. new[s] = f[Some(s)] + it[s \ {Some(s)}]
        OBVIOUS
      <3>4. QED
        BY <3>2, <3>3
    <2>7. n + 1 \in Nat
      OBVIOUS
    <2> HIDE DEF Upto, new
    <2>8. QED
      BY <2>4, <2>6, <2>7
  <1>3. S = Nat
    <2> HIDE DEF S
    <2> S \in SUBSET Nat
      BY DEF S
    <2> QED
      BY <1>1, <1>2, AllNaturals
  <1>4. Cardinality(D) \in Nat
    BY FS_CardinalityType
  <1>5. PICK it \in [SUBSET D -> Int] : Upto(it, Cardinality(D))
    BY <1>3, <1>4
  <1>6. \A s \in SUBSET D : Cardinality(s) <= Cardinality(D)
    BY FS_Subset
  <1>7. QED
    BY <1>5, <1>6 DEF Adds

(* So the CHOOSE in SumFunctionOnSet finds one, and any other is as good.  *)
LEMMA SumIsAdded ==
  ASSUME NEW f, NEW D, NEW E, NEW it, IsFiniteSet(E), D \subseteq E, \A x \in E : f[x] \in Int,
         Adds(it, f, E)
  PROVE  SumFunctionOnSet(f, D) = it[D]
  <1>1. IsFiniteSet(D)
    BY FS_Subset
  <1>2. PICK i : Adds(i, f, D)
    BY <1>1, AddsExists
  <1> DEFINE Rec(j) == [s \in SUBSET D |->
               IF s = {} THEN 0 ELSE LET x == CHOOSE x \in s : TRUE IN f[x] + j[s \ {x}]]
  <1>3. i = Rec(i)
    BY <1>2 DEF Adds, Some
  <1>4. Sums(f, D) = Rec(Sums(f, D))
    BY <1>3, Zenon DEF Sums
  <1>5. Adds(Sums(f, D), f, D)
    <2> DEFINE j == Sums(f, D)
    <2>1. j = Rec(j)
      BY <1>4
    <2> HIDE DEF j
    <2>2. Adds(j, f, D)
      BY <2>1 DEF Adds, Some
    <2>3. QED
      BY <2>2 DEF j
  <1>6. Sums(f, D)[D] = it[D]
    BY <1>1, <1>5, AddsUnique
  <1>7. QED
    BY <1>6, SumIsLast

(* Any element may be taken first.                                         *)
Takes(it, f, s, d) == it[s] = f[d] + it[s \ {d}]

LEMMA TakeAny ==
  ASSUME NEW f, NEW D, NEW it, IsFiniteSet(D), \A x \in D : f[x] \in Int,
         it \in [SUBSET D -> Int], Adds(it, f, D), NEW t \in SUBSET D, NEW e \in t
  PROVE  Takes(it, f, t, e)
  <1> DEFINE Any(s) == \A d \in s : it[s] = f[d] + it[s \ {d}]
             S == {n \in Nat : \A s \in SUBSET D : Cardinality(s) = n => Any(s)}
  <1>1. 0 \in S
    <2> SUFFICES ASSUME NEW s \in SUBSET D, Cardinality(s) = 0 PROVE Any(s)
      OBVIOUS
    <2>1. s = {}
      BY FS_Subset, FS_EmptySet
    <2>2. QED
      BY <2>1
  <1>2. \A n \in S : n + 1 \in S
    <2> SUFFICES ASSUME NEW n \in S, NEW s \in SUBSET D, Cardinality(s) = n + 1, NEW d \in s
                 PROVE  it[s] = f[d] + it[s \ {d}]
      OBVIOUS
    <2> DEFINE c == Some(s)
    <2>1. IsFiniteSet(s)
      BY FS_Subset
    <2>2. c \in s
      BY <2>1, OneLess
    <2>3. it[s] = f[c] + it[s \ {c}]
      BY DEF Adds
    <2> HIDE DEF c
    <2>4. CASE d = c
      BY <2>3, <2>4
    <2>5. CASE d # c
      <3>1. Cardinality(s \ {c}) = n /\ Cardinality(s \ {d}) = n
        <4>1. Cardinality(s \ {c}) = Cardinality(s) - 1
          BY <2>1, <2>2, FS_RemoveElement
        <4>2. Cardinality(s \ {d}) = Cardinality(s) - 1
          BY <2>1, FS_RemoveElement
        <4>3. n \in Nat
          OBVIOUS
        <4> HIDE DEF S
        <4>4. QED
          BY <4>1, <4>2, <4>3
      <3>2. it[s \ {c}] = f[d] + it[(s \ {c}) \ {d}]
        <4>1. Any(s \ {c})
          BY <3>1
        <4>2. QED
          BY <4>1, <2>5
      <3>3. it[s \ {d}] = f[c] + it[(s \ {d}) \ {c}]
        <4>1. Any(s \ {d})
          BY <3>1
        <4>2. QED
          BY <4>1, <2>2, <2>5
      <3>4. (s \ {c}) \ {d} = (s \ {d}) \ {c}
        OBVIOUS
      <3>5. f[c] \in Int /\ f[d] \in Int
        BY <2>2
      <3>7. (s \ {d}) \ {c} \in SUBSET D
        OBVIOUS
      <3>8. it[(s \ {d}) \ {c}] \in Int
        BY <3>7
      <3> DEFINE rest == it[(s \ {d}) \ {c}]
      <3> HIDE DEF S, rest, Any
      <3>9. it[s \ {c}] = f[d] + rest
        BY <3>2, <3>4 DEF rest
      <3>10. it[s \ {d}] = f[c] + rest
        BY <3>3 DEF rest
      <3>11. rest \in Int
        BY <3>8 DEF rest
      <3>12. f[c] + (f[d] + rest) = f[d] + (f[c] + rest)
        BY <3>5, <3>11
      <3>6. QED
        BY <2>3, <3>9, <3>10, <3>12
    <2>6. QED
      BY <2>4, <2>5
  <1>3. S = Nat
    <2> HIDE DEF S
    <2> S \in SUBSET Nat
      BY DEF S
    <2> QED
      BY <1>1, <1>2, AllNaturals
  <1>4. Cardinality(t) \in Nat
    BY FS_Subset, FS_CardinalityType
  <1>5. QED
    BY <1>3, <1>4 DEF Takes

-----------------------------------------------------------------------------
(* What the other modules use: the sum over a finite set of integers.      *)
LEMMA SumIsInt ==
  ASSUME NEW f, NEW D, IsFiniteSet(D), \A x \in D : f[x] \in Int
  PROVE  SumFunctionOnSet(f, D) \in Int
  <1>1. PICK it \in [SUBSET D -> Int] : Adds(it, f, D)
    BY AddsExists
  <1>2. SumFunctionOnSet(f, D) = it[D]
    BY <1>1, SumIsAdded
  <1>3. QED
    BY <1>2

LEMMA SumEmpty == ASSUME NEW f PROVE SumFunctionOnSet(f, {}) = 0
  <1>1. IsFiniteSet({})
    BY FS_EmptySet
  <1>2. PICK it \in [SUBSET {} -> Int] : Adds(it, f, {})
    BY <1>1, AddsExists
  <1>3. SumFunctionOnSet(f, {}) = it[{}]
    BY <1>1, <1>2, SumIsAdded
  <1>4. QED
    BY <1>2, <1>3 DEF Adds

(* One element apart.                                                      *)
LEMMA SumTakes ==
  ASSUME NEW f, NEW D, IsFiniteSet(D), \A x \in D : f[x] \in Int, NEW d \in D
  PROVE  SumFunctionOnSet(f, D) = f[d] + SumFunctionOnSet(f, D \ {d})
  <1>1. PICK it \in [SUBSET D -> Int] : Adds(it, f, D)
    BY AddsExists
  <1>2. SumFunctionOnSet(f, D) = it[D]
    BY <1>1, SumIsAdded
  <1>3. SumFunctionOnSet(f, D \ {d}) = it[D \ {d}]
    BY <1>1, SumIsAdded
  <1>4. it[D] = f[d] + it[D \ {d}]
    <2>1. Adds(it, f, D)
      BY <1>1
    <2>2. D \in SUBSET D
      OBVIOUS
    <2>3. Takes(it, f, D, d)
      BY <2>1, <2>2, TakeAny
    <2>4. QED
      BY <2>3 DEF Takes
  <1>5. QED
    BY <1>2, <1>3, <1>4

(* It depends on the values alone.                                         *)
LEMMA SumSame ==
  ASSUME NEW f, NEW g, NEW D, IsFiniteSet(D), \A x \in D : f[x] \in Int,
         \A x \in D : g[x] = f[x]
  PROVE  SumFunctionOnSet(g, D) = SumFunctionOnSet(f, D)
  <1>1. PICK i \in [SUBSET D -> Int] : Adds(i, f, D)
    BY AddsExists
  <1>2. PICK j \in [SUBSET D -> Int] : Adds(j, g, D)
    BY AddsExists
  <1>3. SumFunctionOnSet(f, D) = i[D]
    BY <1>1, SumIsAdded
  <1>4. SumFunctionOnSet(g, D) = j[D]
    BY <1>2, SumIsAdded
  <1>5. i[D] = j[D]
    BY <1>1, <1>2, AddsUnique
  <1>6. QED
    BY <1>3, <1>4, <1>5

(* Changing one value changes it by as much.                               *)
LEMMA SumChanges ==
  ASSUME NEW f, NEW g, NEW D, IsFiniteSet(D), NEW d \in D,
         \A x \in D : f[x] \in Int, \A x \in D : g[x] \in Int,
         \A x \in D \ {d} : g[x] = f[x]
  PROVE  SumFunctionOnSet(g, D) = SumFunctionOnSet(f, D) + g[d] - f[d]
  <1>1. IsFiniteSet(D \ {d})
    BY FS_RemoveElement
  <1>2. SumFunctionOnSet(g, D \ {d}) = SumFunctionOnSet(f, D \ {d})
    BY <1>1, SumSame
  <1>3. SumFunctionOnSet(f, D) = f[d] + SumFunctionOnSet(f, D \ {d})
    BY SumTakes
  <1>4. SumFunctionOnSet(g, D) = g[d] + SumFunctionOnSet(g, D \ {d})
    BY SumTakes
  <1>5. SumFunctionOnSet(f, D \ {d}) \in Int /\ f[d] \in Int /\ g[d] \in Int
    BY <1>1, SumIsInt
  <1>6. QED
    BY <1>2, <1>3, <1>4, <1>5

LEMMA SumOfZeros ==
  ASSUME NEW f, NEW D, IsFiniteSet(D), \A x \in D : f[x] = 0
  PROVE  SumFunctionOnSet(f, D) = 0
  <1> DEFINE zero == [s \in SUBSET D |-> 0]
  <1>1. Adds(zero, f, D)
    <2>1. \A s \in SUBSET D : s # {} => Some(s) \in D /\ s \ {Some(s)} \in SUBSET D
      BY FS_Subset, OneLess
    <2>2. \A s \in SUBSET D : s # {} => f[Some(s)] + zero[s \ {Some(s)}] = 0
      BY <2>1
    <2>3. QED
      BY <2>2 DEF Adds
  <1>2. zero[D] = 0
    OBVIOUS
  <1> HIDE DEF zero
  <1>3. SumFunctionOnSet(f, D) = zero[D]
    BY <1>1, SumIsAdded
  <1>4. QED
    BY <1>2, <1>3

(* A sum grows with its summands.                                          *)
LEMMA SumGrows ==
  ASSUME NEW f, NEW g, NEW D, IsFiniteSet(D),
         \A x \in D : f[x] \in Int, \A x \in D : g[x] \in Int, \A x \in D : f[x] <= g[x]
  PROVE  SumFunctionOnSet(f, D) <= SumFunctionOnSet(g, D)
  <1> DEFINE S == {n \in Nat : \A s \in SUBSET D :
                     Cardinality(s) = n => SumFunctionOnSet(f, s) <= SumFunctionOnSet(g, s)}
  <1>1. \A s \in SUBSET D : IsFiniteSet(s)
    BY FS_Subset
  <1>2. 0 \in S
    <2>1. \A s \in SUBSET D : Cardinality(s) = 0 => s = {}
      BY <1>1, FS_EmptySet
    <2>2. SumFunctionOnSet(f, {}) <= SumFunctionOnSet(g, {})
      BY SumEmpty
    <2>3. QED
      BY <2>1, <2>2
  <1>3. \A n \in S : n + 1 \in S
    <2> SUFFICES ASSUME NEW n \in S, NEW s \in SUBSET D, Cardinality(s) = n + 1
                 PROVE  SumFunctionOnSet(f, s) <= SumFunctionOnSet(g, s)
      OBVIOUS
    <2>1. s # {}
      BY FS_EmptySet
    <2>2. PICK d \in s : TRUE
      BY <2>1
    <2> HIDE DEF S
    <2>3. /\ IsFiniteSet(s) /\ IsFiniteSet(s \ {d}) /\ s \ {d} \in SUBSET D
          /\ Cardinality(s \ {d}) = n
      <3>1. n \in Nat
        BY DEF S
      <3>2. IsFiniteSet(s)
        BY <1>1
      <3>3. IsFiniteSet(s \ {d}) /\ Cardinality(s \ {d}) = Cardinality(s) - 1
        BY <3>2, FS_RemoveElement
      <3>4. QED
        BY <3>1, <3>2, <3>3
    <2>4. SumFunctionOnSet(f, s \ {d}) <= SumFunctionOnSet(g, s \ {d})
      BY <2>3 DEF S
    <2>5. /\ SumFunctionOnSet(f, s) = f[d] + SumFunctionOnSet(f, s \ {d})
          /\ SumFunctionOnSet(g, s) = g[d] + SumFunctionOnSet(g, s \ {d})
      BY <2>3, SumTakes
    <2>6. /\ SumFunctionOnSet(f, s \ {d}) \in Int /\ SumFunctionOnSet(g, s \ {d}) \in Int
      BY <2>3, SumIsInt
    <2>7. f[d] \in Int /\ g[d] \in Int /\ f[d] <= g[d]
      OBVIOUS
    <2>8. QED
      BY <2>4, <2>5, <2>6, <2>7
  <1> HIDE DEF S
  <1>4. S = Nat
    <2>1. S \in SUBSET Nat
      BY DEF S
    <2>2. QED
      BY <1>2, <1>3, <2>1, AllNaturals
  <1>5. Cardinality(D) \in S
    BY <1>4, FS_CardinalityType
  <1>6. QED
    BY <1>5 DEF S

LEMMA SumOfOne ==
  ASSUME NEW f, NEW x, f[x] \in Int
  PROVE  SumFunctionOnSet(f, {x}) = f[x]
  <1>1. IsFiniteSet({x}) /\ {x} \ {x} = {}
    BY FS_Singleton
  <1>2. SumFunctionOnSet(f, {x}) = f[x] + SumFunctionOnSet(f, {x} \ {x})
    BY <1>1, SumTakes
  <1>3. SumFunctionOnSet(f, {x} \ {x}) = 0
    BY <1>1, SumEmpty
  <1>4. QED
    BY <1>2, <1>3

(* The sum of the sums is the sum of sums.                                 *)
LEMMA SumAdds ==
  ASSUME NEW f, NEW g, NEW h, NEW D, IsFiniteSet(D),
         \A x \in D : f[x] \in Int, \A x \in D : g[x] \in Int, \A x \in D : h[x] = f[x] + g[x]
  PROVE  SumFunctionOnSet(h, D) = SumFunctionOnSet(f, D) + SumFunctionOnSet(g, D)
  <1> DEFINE Adding(s) ==
               SumFunctionOnSet(h, s) = SumFunctionOnSet(f, s) + SumFunctionOnSet(g, s)
             S == {n \in Nat : \A s \in SUBSET D : Cardinality(s) = n => Adding(s)}
  <1>1. \A s \in SUBSET D : IsFiniteSet(s)
    BY FS_Subset
  <1>2. 0 \in S
    <2>1. \A s \in SUBSET D : Cardinality(s) = 0 => s = {}
      BY <1>1, FS_EmptySet
    <2>2. SumFunctionOnSet(f, {}) = 0 /\ SumFunctionOnSet(g, {}) = 0
          /\ SumFunctionOnSet(h, {}) = 0
      BY SumEmpty
    <2>3. Adding({})
      BY <2>2
    <2> HIDE DEF Adding
    <2>4. QED
      BY <2>1, <2>3
  <1>3. \A n \in S : n + 1 \in S
    <2> HIDE DEF Adding
    <2> SUFFICES ASSUME NEW n \in S, NEW s \in SUBSET D, Cardinality(s) = n + 1
                 PROVE  Adding(s)
      OBVIOUS
    <2>0. n \in Nat
      BY Zenon DEF S
    <2> HIDE DEF S
    <2>1. s # {}
      BY <2>0, FS_EmptySet
    <2>2. PICK d \in s : TRUE
      BY <2>1
    <2>3. /\ IsFiniteSet(s) /\ IsFiniteSet(s \ {d}) /\ s \ {d} \in SUBSET D
          /\ Cardinality(s \ {d}) = n
      <3>1. n \in Nat
        BY <2>0
      <3>2. IsFiniteSet(s)
        BY <1>1
      <3>3. IsFiniteSet(s \ {d}) /\ Cardinality(s \ {d}) = Cardinality(s) - 1
        BY <3>2, FS_RemoveElement
      <3>4. QED
        BY <3>1, <3>2, <3>3
    <2>4. Adding(s \ {d})
      BY <2>3 DEF S
    <2>5. \A x \in D : h[x] \in Int
      OBVIOUS
    <2>6. /\ SumFunctionOnSet(f, s) = f[d] + SumFunctionOnSet(f, s \ {d})
          /\ SumFunctionOnSet(g, s) = g[d] + SumFunctionOnSet(g, s \ {d})
          /\ SumFunctionOnSet(h, s) = h[d] + SumFunctionOnSet(h, s \ {d})
      BY <2>3, <2>5, SumTakes
    <2>7. /\ SumFunctionOnSet(f, s \ {d}) \in Int /\ SumFunctionOnSet(g, s \ {d}) \in Int
      BY <2>3, SumIsInt
    <2>8. f[d] \in Int /\ g[d] \in Int /\ h[d] = f[d] + g[d]
      OBVIOUS
    <2>9. QED
      BY <2>4, <2>6, <2>7, <2>8 DEF Adding
  <1> HIDE DEF S, Adding
  <1>4. S = Nat
    <2>1. S \in SUBSET Nat
      BY DEF S
    <2>2. QED
      BY <1>2, <1>3, <2>1, AllNaturals
  <1>5. Cardinality(D) \in S
    BY <1>4, FS_CardinalityType
  <1>6. Adding(D)
    BY <1>5 DEF S
  <1>7. QED
    BY <1>6 DEF Adding

(* A sum of naturals is one, and is zero only if they all are.             *)
LEMMA SumIsNat ==
  ASSUME NEW f, NEW D, IsFiniteSet(D), \A x \in D : f[x] \in Nat
  PROVE  /\ SumFunctionOnSet(f, D) \in Nat
         /\ SumFunctionOnSet(f, D) = 0 => \A x \in D : f[x] = 0
  <1>1. \A s \in SUBSET D : SumFunctionOnSet(f, s) \in Nat
    <2> SUFFICES ASSUME NEW s \in SUBSET D PROVE SumFunctionOnSet(f, s) \in Nat
      OBVIOUS
    <2> DEFINE zero == [x \in s |-> 0]
    <2>1. IsFiniteSet(s)
      BY FS_Subset
    <2>2. /\ \A x \in s : zero[x] = 0
          /\ \A x \in s : zero[x] \in Int
          /\ \A x \in s : f[x] \in Int
          /\ \A x \in s : zero[x] <= f[x]
      OBVIOUS
    <2> HIDE DEF zero
    <2>3. SumFunctionOnSet(zero, s) = 0
      BY <2>1, <2>2, SumOfZeros
    <2>4. SumFunctionOnSet(zero, s) <= SumFunctionOnSet(f, s)
      BY <2>1, <2>2, SumGrows
    <2>5. SumFunctionOnSet(f, s) \in Int
      BY <2>1, <2>2, SumIsInt
    <2>6. QED
      BY <2>3, <2>4, <2>5
  <1>2. ASSUME SumFunctionOnSet(f, D) = 0, NEW d \in D PROVE f[d] = 0
    <2>1. \A x \in D : f[x] \in Int
      OBVIOUS
    <2>2. SumFunctionOnSet(f, D) = f[d] + SumFunctionOnSet(f, D \ {d})
      BY <2>1, SumTakes
    <2>3. f[d] \in Nat /\ SumFunctionOnSet(f, D \ {d}) \in Nat
      BY <1>1
    <2>4. QED
      BY <1>2, <2>2, <2>3
  <1>3. QED
    BY <1>1, <1>2

(* The sum of a sequence's values goes on where it stopped.                *)
LEMMA SumGoesOn ==
  ASSUME NEW f, NEW i \in Nat, NEW n \in Nat, i <= n, \A x \in 1 .. n : f[x] \in Int
  PROVE  SumFunctionOnSet(f, 1 .. n)
           = SumFunctionOnSet(f, 1 .. i) + SumFunctionOnSet(f, i + 1 .. n)
  <1> DEFINE GoesOn(m) == i + m <= n =>
               SumFunctionOnSet(f, 1 .. i + m)
                 = SumFunctionOnSet(f, 1 .. i) + SumFunctionOnSet(f, i + 1 .. i + m)
             S == {m \in Nat : GoesOn(m)}
  <1>1. \A m \in Nat : i + m <= n =>
          /\ SumFunctionOnSet(f, 1 .. i + m) \in Int
          /\ SumFunctionOnSet(f, i + 1 .. i + m) \in Int
    <2> SUFFICES ASSUME NEW m \in Nat, i + m <= n
                 PROVE  /\ SumFunctionOnSet(f, 1 .. i + m) \in Int
                        /\ SumFunctionOnSet(f, i + 1 .. i + m) \in Int
      OBVIOUS
    <2>1. IsFiniteSet(1 .. i + m) /\ IsFiniteSet(i + 1 .. i + m)
      BY FS_Interval
    <2>2. 1 .. i + m \subseteq 1 .. n /\ i + 1 .. i + m \subseteq 1 .. n
      OBVIOUS
    <2>3. QED
      BY <2>1, <2>2, SumIsInt
  <1>2. GoesOn(0)
    <2>1. i + 1 .. i + 0 = {} /\ i + 0 = i
      OBVIOUS
    <2>2. SumFunctionOnSet(f, 1 .. i) \in Int
      BY <1>1, <2>1
    <2>3. SumFunctionOnSet(f, i + 1 .. i + 0) = 0
      BY <2>1, SumEmpty
    <2>4. QED
      BY <2>1, <2>2, <2>3
  <1>3. ASSUME NEW m \in Nat, GoesOn(m) PROVE GoesOn(m + 1)
    <2> SUFFICES ASSUME i + (m + 1) <= n
                 PROVE  SumFunctionOnSet(f, 1 .. i + (m + 1))
                          = SumFunctionOnSet(f, 1 .. i) + SumFunctionOnSet(f, i + 1 .. i + (m + 1))
      OBVIOUS
    <2> DEFINE k == i + (m + 1)
    <2>1. /\ i + m <= n
          /\ k \in 1 .. k /\ k \in i + 1 .. k
          /\ 1 .. k \subseteq 1 .. n /\ i + 1 .. k \subseteq 1 .. n
          /\ (1 .. k) \ {k} = 1 .. i + m /\ (i + 1 .. k) \ {k} = i + 1 .. i + m
      OBVIOUS
    <2>2. IsFiniteSet(1 .. k) /\ IsFiniteSet(i + 1 .. k)
      BY FS_Interval
    <2>3. /\ \A x \in 1 .. k : f[x] \in Int
          /\ \A x \in i + 1 .. k : f[x] \in Int
          /\ f[k] \in Int
      BY <2>1
    <2> HIDE DEF k, GoesOn, S
    <2>4a. SumFunctionOnSet(f, 1 .. k) = f[k] + SumFunctionOnSet(f, (1 .. k) \ {k})
      <3>1. PICK D : D = 1 .. k
        OBVIOUS
      <3>2. IsFiniteSet(D) /\ k \in D /\ \A x \in D : f[x] \in Int
        BY <2>1, <2>2, <2>3, <3>1
      <3>3. SumFunctionOnSet(f, D) = f[k] + SumFunctionOnSet(f, D \ {k})
        BY <3>2, SumTakes
      <3>4. QED
        BY <3>1, <3>3
    <2>4b. SumFunctionOnSet(f, i + 1 .. k) = f[k] + SumFunctionOnSet(f, (i + 1 .. k) \ {k})
      <3>1. PICK D : D = i + 1 .. k
        OBVIOUS
      <3>2. IsFiniteSet(D) /\ k \in D /\ \A x \in D : f[x] \in Int
        BY <2>1, <2>2, <2>3, <3>1
      <3>3. SumFunctionOnSet(f, D) = f[k] + SumFunctionOnSet(f, D \ {k})
        BY <3>2, SumTakes
      <3>4. QED
        BY <3>1, <3>3
    <2>4. /\ SumFunctionOnSet(f, 1 .. k) = f[k] + SumFunctionOnSet(f, 1 .. i + m)
          /\ SumFunctionOnSet(f, i + 1 .. k) = f[k] + SumFunctionOnSet(f, i + 1 .. i + m)
      BY <2>1, <2>4a, <2>4b, Zenon
    <2>5. SumFunctionOnSet(f, 1 .. i + m)
            = SumFunctionOnSet(f, 1 .. i) + SumFunctionOnSet(f, i + 1 .. i + m)
      BY <1>3, <2>1 DEF GoesOn
    <2>6. /\ SumFunctionOnSet(f, 1 .. i) \in Int
          /\ SumFunctionOnSet(f, i + 1 .. i + m) \in Int
      <3>1. i + 0 = i /\ i + 0 <= n
        OBVIOUS
      <3>2. QED
        BY <1>1, <2>1, <3>1
    <2>7. SumFunctionOnSet(f, 1 .. k)
            = SumFunctionOnSet(f, 1 .. i) + SumFunctionOnSet(f, i + 1 .. k)
      BY <2>3, <2>4, <2>5, <2>6
    <2>8. QED
      BY <2>7 DEF k
  <1> HIDE DEF GoesOn
  <1>4. S \in SUBSET Nat /\ 0 \in S /\ \A m \in S : m + 1 \in S
    BY <1>2, <1>3
  <1> HIDE DEF S
  <1>5. S = Nat
    BY <1>4, AllNaturals
  <1>6. n - i \in Nat
    OBVIOUS
  <1>7. GoesOn(n - i)
    BY <1>5, <1>6 DEF S
  <1>8. i + (n - i) = n
    OBVIOUS
  <1>9. QED
    BY <1>7, <1>8 DEF GoesOn
=============================================================================
