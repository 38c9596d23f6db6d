------------------------------ MODULE NatFacts ------------------------------
(* Facts about minima, division, levels and sums that the proofs of        *)
(* several components rest on.                                             *)
EXTENDS Integers, FiniteSets, FiniteSetsExt, Functions, FiniteSetTheorems,
        WellFoundedInduction, TLAPS

(* A nonempty set of naturals has a least element, and Min is it: the      *)
(* first-fit searches of pmm.c stop at a definite place.                   *)
LEMMA MinFact ==
  ASSUME NEW S \in SUBSET Nat, S # {}
  PROVE  Min(S) \in S /\ \A y \in S : Min(S) <= y
<1>1. PICK s \in S : TRUE
  OBVIOUS
<1> DEFINE B == 0 .. s
           T == {0 .. x : x \in S \cap B}
<1>2. IsFiniteSet(B)
  BY FS_Interval
<1>3. T \subseteq FiniteSubsetsOf(B) /\ T # {}
  BY <1>1, <1>2, FS_FiniteSubsetsOfFinite
<1>4. PICK m \in T : \A t \in T : <<t, m>> \notin StrictSubsetOrdering(B)
  <2> HIDE DEF T, B
  <2> QED BY <1>3, FS_StrictSubsetOrderingWellFounded, WFMin
<1>5. PICK x \in S \cap B : m = 0 .. x
  OBVIOUS
<1>6. ASSUME NEW y \in S \cap B PROVE x <= y
  <2>1. <<0 .. y, 0 .. x>> \notin StrictSubsetOrdering(B)
    BY <1>4, <1>5
  <2>2. <<0 .. y, 0 .. x>> \in (SUBSET B) \X (SUBSET B)
    BY <1>1
  <2>3. ~(0 .. y \subseteq 0 .. x /\ 0 .. y # 0 .. x)
    <3> HIDE DEF B, T
    <3> QED BY <2>1, <2>2 DEF StrictSubsetOrdering
  <2>4. SUFFICES ASSUME y < x PROVE FALSE
    BY <1>1
  <2>5. x \in 0 .. x /\ x \notin 0 .. y /\ 0 .. y \subseteq 0 .. x
    BY <2>4, <1>1
  <2> QED BY <2>3, <2>5
<1>7. \A y \in S : x <= y
  BY <1>6
<1> QED
  BY <1>7 DEF Min

(* A nonempty bounded set of naturals has a greatest element, and Max is   *)
(* it: get_highest_usable_addr is above every entry it looked at.          *)
LEMMA MaxFact ==
  ASSUME NEW B \in Nat, NEW S \in SUBSET (0 .. B), S # {}
  PROVE  Max(S) \in S /\ \A y \in S : y <= Max(S)
<1> DEFINE T == {B - x : x \in S}
<1>1. T \in SUBSET Nat /\ T # {}
  <2>1. \A x \in S : B - x \in Nat
    OBVIOUS
  <2> QED BY <2>1
<1>2. Min(T) \in T /\ \A y \in T : Min(T) <= y
  <2> HIDE DEF T
  <2> QED BY <1>1, MinFact
<1>3. PICK x \in S : Min(T) = B - x
  BY <1>2
<1>4. \A y \in S : y <= x
  <2> SUFFICES ASSUME NEW y \in S PROVE y <= x
    OBVIOUS
  <2>1. B - x <= B - y
    BY <1>2, <1>3
  <2> QED BY <2>1
<1> QED
  BY <1>4 DEF Max

(* Quotient and remainder by a positive number.                            *)
LEMMA DivMod ==
  ASSUME NEW n \in Nat \ {0}, NEW a \in Int
  PROVE  /\ a \div n \in Int /\ a % n \in 0 .. (n - 1)
         /\ a = n * (a \div n) + (a % n)
  OBVIOUS

(* Division undoes a multiplication and finds the remainder added to it.    *)
LEMMA DivModOf ==
  ASSUME NEW n \in Nat \ {0}, NEW k \in Int, NEW j \in 0 .. (n - 1)
  PROVE  (k * n + j) \div n = k /\ (k * n + j) % n = j
  OBVIOUS

(* The quotient of a natural number, and how close it is.                   *)
LEMMA DivNat ==
  ASSUME NEW n \in Nat \ {0}, NEW a \in Nat
  PROVE  a \div n \in Nat /\ n * (a \div n) <= a /\ a < n * (a \div n) + n
  BY DivMod

(* Below k * n exactly when the quotient by n is below k.                  *)
LEMMA DivBelow ==
  ASSUME NEW n \in Nat \ {0}, NEW a \in Nat, NEW k \in Nat
  PROVE  a < k * n <=> a \div n < k
<1> DEFINE q == a \div n
<1>1. q \in Nat /\ n * q <= a /\ a < n * q + n
  BY DivNat
<1> HIDE DEF q
<1>2. q < k => n * q + n <= k * n
  <2> SUFFICES ASSUME q < k PROVE n * q + n <= k * n
    OBVIOUS
  <2>1. PICK d \in Nat : k = q + 1 + d
    <3>1. k - q - 1 \in Nat /\ k = q + 1 + (k - q - 1)
      BY <1>1
    <3> QED BY <3>1
  <2>2. k * n = n * q + n + d * n /\ d * n >= 0
    BY <2>1, <1>1
  <2> QED BY <2>2, <1>1
<1>3. q >= k => k * n <= n * q
  BY <1>1
<1>4. q < k \/ q >= k
  BY <1>1
<1>5. n * q \in Nat /\ k * n \in Nat
  BY <1>1
<1>6. a < k * n <=> q < k
  BY <1>1, <1>2, <1>3, <1>4, <1>5
<1> QED
  BY <1>6 DEF q

(* Quotients are in the order of what is divided.                          *)
LEMMA DivMonotone ==
  ASSUME NEW n \in Nat \ {0}, NEW a \in Nat, NEW b \in Nat, a <= b
  PROVE  a \div n <= b \div n
<1> DEFINE q == a \div n
           r == b \div n
<1>1. q \in Nat /\ n * q <= a /\ r \in Nat /\ b < n * r + n
  BY DivNat
<1> HIDE DEF q, r
<1>2. SUFFICES ASSUME r < q PROVE FALSE
  BY <1>1 DEF q, r
<1>3. r + 1 <= q
  BY <1>1, <1>2
<1>4. n * (r + 1) <= n * q
  BY <1>1, <1>3
<1>5. n * (r + 1) = n * r + n
  BY <1>1
<1> QED BY <1>1, <1>4, <1>5

(* A remainder, written without one.                                       *)
LEMMA ModSmall ==
  ASSUME NEW n \in Nat \ {0}, NEW a \in Int
  PROVE  /\ a \in 0 .. (n - 1) => a % n = a
         /\ a \in n .. (n + n - 1) => a % n = a - n
         /\ a \in (0 - n) .. (0 - 1) => a % n = a + n
<1>1. ASSUME a \in 0 .. (n - 1) PROVE a % n = a
  <2>1. (0 * n + a) % n = a
    BY <1>1, DivModOf
  <2>2. 0 * n + a = a
    OBVIOUS
  <2> QED BY <2>1, <2>2
<1>2. ASSUME a \in n .. (n + n - 1) PROVE a % n = a - n
  <2>1. a - n \in 0 .. (n - 1)
    BY <1>2
  <2>2. (1 * n + (a - n)) % n = a - n
    BY <2>1, DivModOf
  <2>3. 1 * n + (a - n) = a
    OBVIOUS
  <2> QED BY <2>2, <2>3
<1>3. ASSUME a \in (0 - n) .. (0 - 1) PROVE a % n = a + n
  <2>1. a + n \in 0 .. (n - 1) /\ -1 \in Int
    BY <1>3
  <2>2. ((-1) * n + (a + n)) % n = a + n
    BY <2>1, DivModOf
  <2>3. (-1) * n + (a + n) = a
    OBVIOUS
  <2> QED BY <2>2, <2>3
<1> QED
  BY <1>1, <1>2, <1>3

(* ... up to twice the modulus, as an index that wraps once.               *)
LEMMA ModTwice ==
  ASSUME NEW n \in Nat \ {0}, NEW a \in 0 .. (n + n - 1)
  PROVE  a % n = IF a < n THEN a ELSE a - n
<1>1. CASE a \in 0 .. (n - 1)
  <2>1. a % n = a
    BY <1>1, ModSmall
  <2>2. a < n
    BY <1>1
  <2> QED BY <2>1, <2>2
<1>2. CASE a \in n .. (n + n - 1)
  <2>1. a \in Int
    OBVIOUS
  <2>2. a % n = a - n
    BY <1>2, <2>1, ModSmall
  <2>3. ~(a < n)
    BY <1>2
  <2> QED BY <2>2, <2>3
<1> QED
  BY <1>1, <1>2

(* j further on than index t of a ring of n.                               *)
LEMMA RingIndex ==
  ASSUME NEW n \in Nat \ {0}, NEW t \in 0 .. (n - 1), NEW j \in 0 .. n
  PROVE  /\ (t + j) % n = IF t + j < n THEN t + j ELSE t + j - n
         /\ (t + j) % n \in 0 .. (n - 1)
<1>1. \A a \in 0 .. (n + n - 1) : a % n = IF a < n THEN a ELSE a - n
  BY ModTwice
<1>2. t + j \in 0 .. (n + n - 1)
  OBVIOUS
<1>3. (t + j) % n = IF t + j < n THEN t + j ELSE t + j - n
  BY <1>1, <1>2
<1>4. (IF t + j < n THEN t + j ELSE t + j - n) \in 0 .. (n - 1)
  OBVIOUS
<1> QED
  BY <1>3, <1>4

(* Division by a product: one more digit in front of the lower ones, as    *)
(* poll_payload_size puts the bytes of a number together.                  *)
LEMMA RemainderSplit ==
  ASSUME NEW a \in Nat, NEW w \in Nat \ {0}, NEW b \in Nat \ {0}
  PROVE  /\ a % (b * w) = (a % w) + ((a \div w) % b) * w
         /\ a \div (b * w) = (a \div w) \div b
<1> DEFINE q == a \div w
           r == a % w
           s == q \div b
           t == q % b
<1>1. q \in Nat /\ r \in 0 .. (w - 1) /\ a = w * q + r
  BY DivMod, DivNat
<1>2. s \in Nat /\ t \in 0 .. (b - 1) /\ q = b * s + t
  <2> HIDE DEF q
  <2>1. q \div b \in Nat
    BY <1>1, DivNat
  <2>2. q % b \in 0 .. (b - 1) /\ q = b * (q \div b) + (q % b)
    BY <1>1, DivMod
  <2> QED BY <2>1, <2>2
<1> HIDE DEF q, r, s, t
<1>3. b * w \in Nat \ {0} /\ t * w \in Nat
  BY <1>2
<1>4. t * w <= (b - 1) * w
  BY <1>2
<1>5. (b - 1) * w = b * w - w
  OBVIOUS
<1>6. t * w + r \in 0 .. (b * w - 1)
  BY <1>1, <1>3, <1>4, <1>5
<1>7. a = s * (b * w) + (t * w + r)
  <2>1. w * (b * s + t) = s * (b * w) + t * w
    BY <1>2
  <2> QED BY <1>1, <1>2, <2>1
<1>8. a % (b * w) = t * w + r /\ a \div (b * w) = s
  <2> DEFINE n == b * w
             j == t * w + r
  <2>1. n \in Nat \ {0} /\ j \in 0 .. (n - 1) /\ s \in Int /\ a = s * n + j
    BY <1>2, <1>3, <1>6, <1>7
  <2> HIDE DEF n, j
  <2>2. a % n = j /\ a \div n = s
    BY <2>1, DivModOf
  <2> QED BY <2>2 DEF n, j
<1> QED
  BY <1>1, <1>3, <1>8 DEF q, r, s, t

-----------------------------------------------------------------------------
(* Levels.  What holds at the top and one level further down wherever it   *)
(* holds, holds at every level.                                            *)
LEMMA DownEveryLevel ==
  ASSUME NEW a \in Nat, NEW b \in Nat, NEW P \in SUBSET (a .. b),
         a <= b => b \in P,
         \A l \in a .. (b - 1) : l + 1 \in P => l \in P
  PROVE  P = a .. b
<1> DEFINE D == {b - l : l \in (a .. b) \ P}
<1>1. SUFFICES ASSUME P # a .. b PROVE FALSE
  OBVIOUS
<1>2. D \subseteq Nat /\ D # {}
  <2>1. PICK l \in a .. b : l \notin P
    BY <1>1
  <2>2. \A m \in a .. b : b - m \in Nat
    OBVIOUS
  <2> QED BY <2>1, <2>2
<1>3. PICK n \in D : \A d \in D : n <= d
  <2> HIDE DEF D
  <2> QED BY <1>2, MinFact
<1>4. PICK l \in (a .. b) \ P : n = b - l
  BY <1>3
<1>5. l \in a .. (b - 1)
  BY <1>4
<1>6. l + 1 \notin P /\ l + 1 \in a .. b
  BY <1>4, <1>5
<1>7. b - (l + 1) \in D
  BY <1>6
<1> HIDE DEF D
<1> QED BY <1>3, <1>4, <1>7

(* ... and so does what holds at the bottom and one level further up.      *)
LEMMA UpEveryLevel ==
  ASSUME NEW a \in Nat, NEW b \in Nat, NEW P \in SUBSET (a .. b),
         a <= b => a \in P,
         \A l \in a .. (b - 1) : l \in P => l + 1 \in P
  PROVE  P = a .. b
<1> DEFINE D == (a .. b) \ P
<1>1. SUFFICES ASSUME D # {} PROVE FALSE
  OBVIOUS
<1>2. D \subseteq Nat
  OBVIOUS
<1>3. PICK n \in D : \A d \in D : n <= d
  <2> HIDE DEF D
  <2> QED BY <1>1, <1>2, MinFact
<1>4. n # a /\ n \in a .. b /\ n \notin P
  BY <1>3
<1>5. n - 1 \in a .. (b - 1) /\ n - 1 \notin D /\ (n - 1) + 1 = n
  <2>1. ~(n <= n - 1) /\ n - 1 \in a .. (b - 1) /\ (n - 1) + 1 = n
    BY <1>4
  <2> HIDE DEF D
  <2> QED BY <1>3, <2>1
<1>6. n - 1 \in P
  BY <1>5
<1> QED BY <1>4, <1>5, <1>6

-----------------------------------------------------------------------------
(* Sums.  SumFunctionOnSet is a recursive function on the subsets of a set *)
(* that takes any one element first.                                       *)
AnyOf(s) == CHOOSE e \in s : TRUE
SmallSubsets(S, k) == {s \in SUBSET S : Cardinality(s) <= k}
IsSumOn(g, f, D) ==
  g = [s \in D |-> IF s = {} THEN 0 ELSE f[AnyOf(s)] + g[s \ {AnyOf(s)}]]

LEMMA AnyOfFact ==
  ASSUME NEW S, IsFiniteSet(S), NEW s \in SUBSET S, s # {}
  PROVE  /\ AnyOf(s) \in s /\ s \ {AnyOf(s)} \in SUBSET S
         /\ Cardinality(s) \in Nat \ {0} /\ Cardinality(s \ {AnyOf(s)}) = Cardinality(s) - 1
<1>1. AnyOf(s) \in s
  BY DEF AnyOf
<1>2. IsFiniteSet(s)
  BY FS_Subset
<1>3. Cardinality(s) \in Nat /\ Cardinality(s) # 0
  BY <1>2, FS_CardinalityType, FS_EmptySet
<1>4. Cardinality(s \ {AnyOf(s)}) = Cardinality(s) - 1
  BY <1>1, <1>2, FS_RemoveElement
<1> QED
  BY <1>1, <1>3, <1>4

LEMMA SumIs ==
  ASSUME NEW f, NEW S
  PROVE  SumFunctionOnSet(f, S) = (CHOOSE g : IsSumOn(g, f, SUBSET S))[S]
BY DEF SumFunctionOnSet, FoldFunctionOnSet, MapThenFoldSet, IsSumOn, AnyOf

(* There is such a function: up to one more element at a time.             *)
LEMMA SumExists ==
  ASSUME NEW f, NEW S, IsFiniteSet(S)
  PROVE  \E g : IsSumOn(g, f, SUBSET S)
<1> DEFINE B == {k \in Nat : ~ \E g : IsSumOn(g, f, SmallSubsets(S, k))}
<1>1. \A s \in SUBSET S : Cardinality(s) \in Nat /\ (Cardinality(s) = 0 <=> s = {})
  BY FS_Subset, FS_CardinalityType, FS_EmptySet
<1>2. B = {}
  <2>1. SUFFICES ASSUME B # {} PROVE FALSE
    OBVIOUS
  <2>2. PICK k \in B : \A m \in B : k <= m
    <3>1. B \in SUBSET Nat
      OBVIOUS
    <3> HIDE DEF B
    <3> QED BY <2>1, <3>1, MinFact
  <2>3. CASE k = 0
    <3> DEFINE g == [s \in SmallSubsets(S, 0) |-> 0]
    <3>1. \A s \in SmallSubsets(S, 0) : s = {}
      BY <1>1 DEF SmallSubsets
    <3>2. g = [s \in SmallSubsets(S, 0) |-> IF s = {} THEN 0 ELSE f[AnyOf(s)] + g[s \ {AnyOf(s)}]]
      BY <3>1
    <3>3. IsSumOn(g, f, SmallSubsets(S, 0))
      BY <3>2 DEF IsSumOn
    <3> QED BY <2>3, <3>3
  <2>4. CASE k # 0
    <3>1. k - 1 \in Nat /\ k \in Nat /\ ~(k <= k - 1)
      BY <2>4
    <3>2. PICK g : IsSumOn(g, f, SmallSubsets(S, k - 1))
      BY <2>2, <3>1
    <3> DEFINE h == [s \in SmallSubsets(S, k) |->
                       IF s = {} THEN 0 ELSE f[AnyOf(s)] + g[s \ {AnyOf(s)}]]
    <3>3. ASSUME NEW s \in SmallSubsets(S, k), s # {}
          PROVE  h[s \ {AnyOf(s)}] = g[s \ {AnyOf(s)}]
      <4> DEFINE t == s \ {AnyOf(s)}
      <4>1. t \in SmallSubsets(S, k - 1) /\ t \in SmallSubsets(S, k)
        <5>1. s \in SUBSET S /\ Cardinality(s) <= k
          BY DEF SmallSubsets
        <5>2. t \in SUBSET S /\ Cardinality(s) \in Nat /\ Cardinality(t) = Cardinality(s) - 1
          BY <3>3, <5>1, AnyOfFact
        <5> QED BY <5>1, <5>2, <3>1 DEF SmallSubsets
      <4> HIDE DEF t
      <4>2. h[t] = IF t = {} THEN 0 ELSE f[AnyOf(t)] + g[t \ {AnyOf(t)}]
        BY <4>1
      <4>3. g[t] = IF t = {} THEN 0 ELSE f[AnyOf(t)] + g[t \ {AnyOf(t)}]
        BY <3>2, <4>1 DEF IsSumOn
      <4> QED BY <4>2, <4>3 DEF t
    <3>4. h = [s \in SmallSubsets(S, k) |-> IF s = {} THEN 0 ELSE f[AnyOf(s)] + h[s \ {AnyOf(s)}]]
      BY <3>3
    <3>5. IsSumOn(h, f, SmallSubsets(S, k))
      <4> HIDE DEF h
      <4> QED BY <3>4 DEF IsSumOn
    <3> QED BY <3>5
  <2> QED BY <2>3, <2>4
<1>3. SmallSubsets(S, Cardinality(S)) = SUBSET S
  BY FS_Subset DEF SmallSubsets
<1>4. Cardinality(S) \in Nat
  BY <1>1
<1>5. \E g : IsSumOn(g, f, SmallSubsets(S, Cardinality(S)))
  BY <1>2, <1>4
<1> HIDE DEF B
<1> QED
  BY <1>3, <1>5

(* It is the only one, on every set whose values are the same.             *)
LEMMA SumUnique ==
  ASSUME NEW f, NEW g, NEW S, NEW T, IsFiniteSet(S), NEW U \in SUBSET (S \cap T),
         \A e \in U : f[e] = g[e], NEW p, NEW q,
         IsSumOn(p, f, SUBSET S), IsSumOn(q, g, SUBSET T)
  PROVE  p[U] = q[U]
<1> DEFINE B == {k \in Nat : \E s \in SUBSET U : Cardinality(s) = k /\ p[s] # q[s]}
<1>1. SUFFICES ASSUME B # {} PROVE FALSE
  <2>1. Cardinality(U) \in Nat
    BY FS_Subset, FS_CardinalityType
  <2> QED BY <2>1
<1>2. PICK k \in B : \A m \in B : k <= m
  <2>1. B \in SUBSET Nat
    OBVIOUS
  <2> HIDE DEF B
  <2> QED BY <1>1, <2>1, MinFact
<1>3. PICK s \in SUBSET U : Cardinality(s) = k /\ p[s] # q[s]
  BY <1>2
<1>4. s \in SUBSET S /\ s \in SUBSET T
  OBVIOUS
<1>5. /\ p[s] = IF s = {} THEN 0 ELSE f[AnyOf(s)] + p[s \ {AnyOf(s)}]
      /\ q[s] = IF s = {} THEN 0 ELSE g[AnyOf(s)] + q[s \ {AnyOf(s)}]
  BY <1>4 DEF IsSumOn
<1>6. s # {}
  BY <1>3, <1>5
<1>7. /\ AnyOf(s) \in s /\ s \ {AnyOf(s)} \in SUBSET U
      /\ Cardinality(s \ {AnyOf(s)}) = k - 1 /\ k \in Nat \ {0}
  BY <1>3, <1>4, <1>6, AnyOfFact
<1>8. f[AnyOf(s)] = g[AnyOf(s)]
  BY <1>7
<1>9. p[s \ {AnyOf(s)}] = q[s \ {AnyOf(s)}]
  BY <1>2, <1>7
<1> QED
  BY <1>3, <1>5, <1>6, <1>8, <1>9

LEMMA SumSame ==
  ASSUME NEW f, NEW g, NEW S, IsFiniteSet(S), \A e \in S : f[e] = g[e]
  PROVE  SumFunctionOnSet(f, S) = SumFunctionOnSet(g, S)
<1> DEFINE p == CHOOSE h : IsSumOn(h, f, SUBSET S)
           q == CHOOSE h : IsSumOn(h, g, SUBSET S)
<1>1. IsSumOn(p, f, SUBSET S)
  BY SumExists
<1>2. IsSumOn(q, g, SUBSET S)
  BY SumExists
<1>3. SumFunctionOnSet(f, S) = p[S] /\ SumFunctionOnSet(g, S) = q[S]
  BY SumIs
<1> HIDE DEF p, q
<1> QED
  BY <1>1, <1>2, <1>3, SumUnique

(* The definition unfolded.                                                *)
LEMMA SumUnfold ==
  ASSUME NEW f, NEW S, IsFiniteSet(S)
  PROVE  SumFunctionOnSet(f, S)
           = IF S = {} THEN 0 ELSE f[AnyOf(S)] + SumFunctionOnSet(f, S \ {AnyOf(S)})
<1> DEFINE T == S \ {AnyOf(S)}
           p == CHOOSE h : IsSumOn(h, f, SUBSET S)
           q == CHOOSE h : IsSumOn(h, f, SUBSET T)
<1>1. IsFiniteSet(T)
  BY FS_Subset
<1>2. IsSumOn(p, f, SUBSET S)
  BY SumExists
<1>3. IsSumOn(q, f, SUBSET T)
  <2> HIDE DEF T
  <2> QED BY <1>1, SumExists
<1>4. SumFunctionOnSet(f, S) = p[S] /\ SumFunctionOnSet(f, T) = q[T]
  BY SumIs
<1>5. p[S] = IF S = {} THEN 0 ELSE f[AnyOf(S)] + p[T]
  <2> HIDE DEF p
  <2> QED BY <1>2 DEF IsSumOn
<1>6. p[T] = q[T]
  <2>1. T \in SUBSET (S \cap T)
    OBVIOUS
  <2> HIDE DEF p, q, T
  <2> QED BY <2>1, <1>2, <1>3, SumUnique
<1> QED
  BY <1>4, <1>5, <1>6

(* A finite set that has a property some subset of S lacks has a smallest  *)
(* such subset: the argument of every proof about a sum, cited as a fact   *)
(* about a set of counterexamples.                                         *)
LEMMA SmallestSubset ==
  ASSUME NEW S, IsFiniteSet(S), NEW C \in SUBSET (SUBSET S), C # {}
  PROVE  \E s \in C : \A t \in C : Cardinality(s) <= Cardinality(t)
<1> DEFINE B == {Cardinality(s) : s \in C}
<1>1. B \in SUBSET Nat /\ B # {}
  BY FS_Subset, FS_CardinalityType
<1>2. Min(B) \in B /\ \A m \in B : Min(B) <= m
  <2> HIDE DEF B
  <2> QED BY <1>1, MinFact
<1>3. PICK s \in C : Cardinality(s) = Min(B)
  BY <1>2
<1>4. \A t \in C : Cardinality(s) <= Cardinality(t)
  BY <1>2, <1>3
<1> QED
  BY <1>4

(* A finite set of naturals has an upper bound.                            *)
LEMMA FiniteBound ==
  ASSUME NEW S \in SUBSET Nat, IsFiniteSet(S)
  PROVE  \E B \in Nat : S \subseteq 0 .. B
<1> DEFINE C == {s \in SUBSET S : ~ \E B \in Nat : s \subseteq 0 .. B}
<1>1. SUFFICES ASSUME C # {} PROVE FALSE
  OBVIOUS
<1>2. PICK s \in C : \A t \in C : Cardinality(s) <= Cardinality(t)
  <2>1. C \in SUBSET (SUBSET S)
    OBVIOUS
  <2> HIDE DEF C
  <2> QED BY <1>1, <2>1, SmallestSubset
<1>3. s # {}
  <2>1. 0 \in Nat /\ {} \subseteq 0 .. 0
    OBVIOUS
  <2> QED BY <2>1
<1>4. /\ AnyOf(s) \in s /\ s \ {AnyOf(s)} \in SUBSET S
      /\ Cardinality(s) \in Nat \ {0} /\ Cardinality(s \ {AnyOf(s)}) = Cardinality(s) - 1
  BY <1>3, AnyOfFact
<1>5. s \ {AnyOf(s)} \notin C
  BY <1>2, <1>4
<1>6. PICK B \in Nat : s \ {AnyOf(s)} \subseteq 0 .. B
  BY <1>4, <1>5
<1>7. AnyOf(s) \in Nat
  BY <1>4
<1> DEFINE top == IF B > AnyOf(s) THEN B ELSE AnyOf(s)
<1>8. top \in Nat /\ AnyOf(s) \in 0 .. top /\ 0 .. B \subseteq 0 .. top
  BY <1>7
<1>9. s \subseteq 0 .. top
  <2> HIDE DEF top
  <2> QED BY <1>6, <1>8
<1> QED
  BY <1>8, <1>9

LEMMA SumType ==
  ASSUME NEW f, NEW S, IsFiniteSet(S), \A e \in S : f[e] \in Int
  PROVE  SumFunctionOnSet(f, S) \in Int
<1> DEFINE Total(s) == SumFunctionOnSet(f, s)
           C == {s \in SUBSET S : Total(s) \notin Int}
<1>1. SUFFICES ASSUME C # {} PROVE FALSE
  OBVIOUS
<1>2. PICK s \in C : \A t \in C : Cardinality(s) <= Cardinality(t)
  <2>1. C \in SUBSET (SUBSET S)
    OBVIOUS
  <2> HIDE DEF C
  <2> QED BY <1>1, <2>1, SmallestSubset
<1>3. IsFiniteSet(s)
  BY FS_Subset
<1>4. Total(s) = IF s = {} THEN 0 ELSE f[AnyOf(s)] + Total(s \ {AnyOf(s)})
  BY <1>3, SumUnfold
<1>5. s # {}
  BY <1>4
<1>6. AnyOf(s) \in s /\ s \ {AnyOf(s)} \in SUBSET S /\ Cardinality(s \ {AnyOf(s)}) < Cardinality(s)
  BY <1>5, AnyOfFact
<1>7. s \ {AnyOf(s)} \notin C
  <2>1. Cardinality(s) \in Nat /\ Cardinality(s \ {AnyOf(s)}) \in Nat
    BY <1>3, FS_CardinalityType, FS_RemoveElement
  <2> QED BY <1>2, <1>6, <2>1
<1>8. Total(s \ {AnyOf(s)}) \in Int /\ f[AnyOf(s)] \in Int
  BY <1>6, <1>7
<1> QED
  BY <1>4, <1>5, <1>8

(* Any element may be taken out first.                                     *)
LEMMA SumTake ==
  ASSUME NEW f, NEW S, IsFiniteSet(S), \A e \in S : f[e] \in Int, NEW x \in S
  PROVE  SumFunctionOnSet(f, S) = f[x] + SumFunctionOnSet(f, S \ {x})
<1> DEFINE Total(s) == SumFunctionOnSet(f, s)
           C == {s \in SUBSET S : \E y \in s : Total(s) # f[y] + Total(s \ {y})}
<1>1. SUFFICES ASSUME C # {} PROVE FALSE
  <2> HIDE DEF Total
  <2>1. x \in S /\ S \in SUBSET S
    OBVIOUS
  <2>2. Total(S) = f[x] + Total(S \ {x})
    BY <2>1
  <2> QED BY <2>2 DEF Total
<1>2. PICK s \in C : \A t \in C : Cardinality(s) <= Cardinality(t)
  <2>1. C \in SUBSET (SUBSET S)
    OBVIOUS
  <2> HIDE DEF C
  <2> QED BY <1>1, <2>1, SmallestSubset
<1>3. \A t \in SUBSET S : IsFiniteSet(t) /\ Total(t) \in Int /\ Cardinality(t) \in Nat
  <2> SUFFICES ASSUME NEW t \in SUBSET S
               PROVE  IsFiniteSet(t) /\ Total(t) \in Int /\ Cardinality(t) \in Nat
    OBVIOUS
  <2>1. IsFiniteSet(t) /\ \A e \in t : f[e] \in Int
    BY FS_Subset
  <2> QED BY <2>1, SumType, FS_CardinalityType
<1>4. PICK y \in s : s \in SUBSET S /\ Total(s) # f[y] + Total(s \ {y})
  BY <1>2
<1> DEFINE c == AnyOf(s)
<1>5. c \in s /\ s \ {c} \in SUBSET S /\ Cardinality(s \ {c}) < Cardinality(s)
  BY <1>3, <1>4, AnyOfFact
<1>6. Cardinality(s \ {y}) < Cardinality(s)
  BY <1>3, <1>4, FS_RemoveElement
<1>7. Total(s) = f[c] + Total(s \ {c})
  BY <1>3, <1>4, SumUnfold
<1> HIDE DEF c, Total
<1>8. c # y
  BY <1>4, <1>7
<1>9. s \ {c} \notin C /\ s \ {y} \notin C /\ s \ {y} \in SUBSET S
  <2>1. s \ {y} \in SUBSET S
    BY <1>4
  <2>2. \A t \in SUBSET S : Cardinality(t) < Cardinality(s) => t \notin C
    <3> SUFFICES ASSUME NEW t \in SUBSET S, Cardinality(t) < Cardinality(s), t \in C PROVE FALSE
      OBVIOUS
    <3>1. Cardinality(t) \in Nat /\ Cardinality(s) \in Nat /\ Cardinality(s) <= Cardinality(t)
      BY <1>2, <1>3, <1>4
    <3> QED BY <3>1
  <2> HIDE DEF C
  <2> QED BY <2>1, <2>2, <1>5, <1>6
<1>10. Total(s \ {c}) = f[y] + Total((s \ {c}) \ {y})
  BY <1>4, <1>5, <1>8, <1>9
<1>11. Total(s \ {y}) = f[c] + Total((s \ {y}) \ {c})
  BY <1>4, <1>5, <1>8, <1>9
<1>12. (s \ {c}) \ {y} = (s \ {y}) \ {c}
  OBVIOUS
<1>13. f[c] \in Int /\ f[y] \in Int /\ Total((s \ {c}) \ {y}) \in Int
  BY <1>3, <1>4, <1>5
<1> DEFINE X == Total((s \ {c}) \ {y})
<1>14. Total(s \ {c}) = f[y] + X /\ Total(s \ {y}) = f[c] + X
  BY <1>10, <1>11, <1>12
<1>15. X \in Int /\ Total(s) = f[c] + (f[y] + X) /\ Total(s) # f[y] + (f[c] + X)
  BY <1>4, <1>7, <1>13, <1>14
<1> HIDE DEF X
<1> QED
  BY <1>13, <1>15

(* The sum over two sets without a common element.                         *)
LEMMA SumUnion ==
  ASSUME NEW f, NEW S, NEW T, IsFiniteSet(S), IsFiniteSet(T), S \cap T = {},
         \A e \in S \cup T : f[e] \in Int
  PROVE  SumFunctionOnSet(f, S \cup T) = SumFunctionOnSet(f, S) + SumFunctionOnSet(f, T)
<1> DEFINE Total(s) == SumFunctionOnSet(f, s)
           C == {t \in SUBSET T : Total(S \cup t) # Total(S) + Total(t)}
<1>1. SUFFICES ASSUME C # {} PROVE FALSE
  <2> HIDE DEF Total
  <2>1. Total(S \cup T) = Total(S) + Total(T)
    OBVIOUS
  <2> QED BY <2>1 DEF Total
<1>2. PICK t \in C : \A s \in C : Cardinality(t) <= Cardinality(s)
  <2>1. C \in SUBSET (SUBSET T)
    OBVIOUS
  <2> HIDE DEF C
  <2> QED BY <1>1, <2>1, SmallestSubset
<1>3. \A s \in SUBSET T : /\ IsFiniteSet(s) /\ IsFiniteSet(S \cup s) /\ Cardinality(s) \in Nat
                          /\ Total(s) \in Int /\ Total(S \cup s) \in Int
  <2> SUFFICES ASSUME NEW s \in SUBSET T
               PROVE  /\ IsFiniteSet(s) /\ IsFiniteSet(S \cup s) /\ Cardinality(s) \in Nat
                      /\ Total(s) \in Int /\ Total(S \cup s) \in Int
    OBVIOUS
  <2>1. IsFiniteSet(s) /\ IsFiniteSet(S \cup s) /\ \A e \in S \cup s : f[e] \in Int
    BY FS_Subset, FS_Union
  <2> QED BY <2>1, SumType, FS_CardinalityType
<1>4. t \in SUBSET T /\ Total(S \cup t) # Total(S) + Total(t)
  BY <1>2
<1>5. Total(S) \in Int
  BY SumType
<1>6. t # {}
  <2>1. Total({}) = 0
    BY SumUnfold, FS_EmptySet
  <2>2. S \cup {} = S
    OBVIOUS
  <2>3. Total(S \cup {}) = Total(S) + Total({})
    BY <1>5, <2>1, <2>2
  <2> HIDE DEF Total, C
  <2> QED BY <1>4, <2>3
<1>7. PICK c : c \in t
  BY <1>6
<1>8. Total(t) = f[c] + Total(t \ {c})
  <2>1. \A e \in t : f[e] \in Int
    BY <1>4
  <2> QED BY <1>3, <1>4, <1>7, <2>1, SumTake
<1>9. Total(S \cup t) = f[c] + Total(S \cup (t \ {c}))
  <2>1. c \in S \cup t /\ \A e \in S \cup t : f[e] \in Int
    BY <1>4, <1>7
  <2>2. (S \cup t) \ {c} = S \cup (t \ {c})
    BY <1>4, <1>7
  <2>3. Total(S \cup t) = f[c] + Total((S \cup t) \ {c})
    <3>1. IsFiniteSet(S \cup t)
      BY <1>3, <1>4
    <3> HIDE DEF C
    <3> QED BY <3>1, <2>1, SumTake
  <2> QED BY <2>2, <2>3
<1>10. t \ {c} \in SUBSET T /\ Cardinality(t \ {c}) < Cardinality(t)
  <2>1. IsFiniteSet(t) /\ Cardinality(t) \in Nat
    BY <1>3, <1>4
  <2>2. Cardinality(t \ {c}) = Cardinality(t) - 1
    BY <2>1, <1>7, FS_RemoveElement
  <2> QED BY <2>1, <2>2, <1>4
<1> HIDE DEF Total
<1>11. Total(S \cup (t \ {c})) = Total(S) + Total(t \ {c})
  <2>1. t \ {c} \notin C
    BY <1>2, <1>3, <1>4, <1>10
  <2> QED BY <1>10, <2>1
<1>12. Total(t \ {c}) \in Int /\ f[c] \in Int
  BY <1>3, <1>4, <1>7, <1>10
<1> QED
  BY <1>4, <1>5, <1>8, <1>9, <1>11, <1>12

(* A sum of zeros.                                                         *)
LEMMA SumZeros ==
  ASSUME NEW f, NEW S, IsFiniteSet(S), \A e \in S : f[e] = 0
  PROVE  SumFunctionOnSet(f, S) = 0
<1> DEFINE Total(s) == SumFunctionOnSet(f, s)
           C == {s \in SUBSET S : Total(s) # 0}
<1>1. SUFFICES ASSUME C # {} PROVE FALSE
  OBVIOUS
<1>2. PICK s \in C : \A t \in C : Cardinality(s) <= Cardinality(t)
  <2>1. C \in SUBSET (SUBSET S)
    OBVIOUS
  <2> HIDE DEF C
  <2> QED BY <1>1, <2>1, SmallestSubset
<1>3. IsFiniteSet(s)
  BY FS_Subset
<1>4. Total(s) = IF s = {} THEN 0 ELSE f[AnyOf(s)] + Total(s \ {AnyOf(s)})
  BY <1>3, SumUnfold
<1>5. s # {}
  BY <1>4
<1>6. /\ AnyOf(s) \in s /\ s \ {AnyOf(s)} \in SUBSET S
      /\ Cardinality(s) \in Nat \ {0} /\ Cardinality(s \ {AnyOf(s)}) = Cardinality(s) - 1
  BY <1>5, AnyOfFact
<1>7. s \ {AnyOf(s)} \notin C
  BY <1>2, <1>6
<1>8. Total(s \ {AnyOf(s)}) = 0 /\ f[AnyOf(s)] = 0
  BY <1>6, <1>7
<1> QED
  BY <1>4, <1>5, <1>8

(* The same terms at other places in a row.                                *)
PlacesFrom(a, m) == a .. (a + m - 1)

LEMMA SumShift ==
  ASSUME NEW f, NEW g, NEW a \in Int, NEW b \in Int, NEW m \in Nat,
         \A d \in 0 .. (m - 1) : f[a + d] \in Int /\ f[a + d] = g[b + d]
  PROVE  SumFunctionOnSet(f, PlacesFrom(a, m)) = SumFunctionOnSet(g, PlacesFrom(b, m))
<1> DEFINE F(k) == SumFunctionOnSet(f, a .. (a + k - 1))
           G(k) == SumFunctionOnSet(g, b .. (b + k - 1))
           B == {k \in 0 .. m : F(k) # G(k)}
<1>1. SUFFICES ASSUME B # {} PROVE FALSE
  <2> HIDE DEF F, G
  <2>1. F(m) = G(m)
    OBVIOUS
  <2> QED BY <2>1 DEF F, G, PlacesFrom
<1>2. PICK k \in B : \A l \in B : k <= l
  <2>1. B \in SUBSET Nat
    OBVIOUS
  <2> HIDE DEF B
  <2> QED BY <1>1, <2>1, MinFact
<1>3. k # 0
  <2>1. a .. (a + 0 - 1) = {} /\ b .. (b + 0 - 1) = {}
    OBVIOUS
  <2>2. F(0) = 0 /\ G(0) = 0
    BY <2>1, SumUnfold, FS_EmptySet
  <2> HIDE DEF F, G
  <2> QED BY <1>2, <2>2
<1>4. k \in 1 .. m
  BY <1>2, <1>3
<1>5. F(k) = f[a + (k - 1)] + F(k - 1)
  <2> DEFINE S == a .. (a + k - 1)
  <2>1. IsFiniteSet(S) /\ a + (k - 1) \in S /\ S \ {a + (k - 1)} = a .. (a + (k - 1) - 1)
    <3>1. k \in Nat \ {0} /\ a + k - 1 \in Int
      BY <1>4
    <3>2. IsFiniteSet(S)
      BY <3>1, FS_Interval
    <3>3. a + (k - 1) \in S /\ S \ {a + (k - 1)} = a .. (a + (k - 1) - 1)
      BY <3>1
    <3> QED BY <3>2, <3>3
  <2>2. ASSUME NEW e \in S PROVE f[e] \in Int
    <3>1. e - a \in 0 .. (m - 1) /\ e = a + (e - a)
      BY <1>4
    <3> QED BY <3>1
  <2>3. SumFunctionOnSet(f, S) = f[a + (k - 1)] + SumFunctionOnSet(f, S \ {a + (k - 1)})
    <3> HIDE DEF S
    <3> QED BY <2>1, <2>2, SumTake
  <2> QED BY <2>1, <2>3
<1>6. G(k) = g[b + (k - 1)] + G(k - 1)
  <2> DEFINE S == b .. (b + k - 1)
  <2>1. IsFiniteSet(S) /\ b + (k - 1) \in S /\ S \ {b + (k - 1)} = b .. (b + (k - 1) - 1)
    <3>1. k \in Nat \ {0} /\ b + k - 1 \in Int
      BY <1>4
    <3>2. IsFiniteSet(S)
      BY <3>1, FS_Interval
    <3>3. b + (k - 1) \in S /\ S \ {b + (k - 1)} = b .. (b + (k - 1) - 1)
      BY <3>1
    <3> QED BY <3>2, <3>3
  <2>2. ASSUME NEW e \in S PROVE g[e] \in Int
    <3>1. e - b \in 0 .. (m - 1) /\ e = b + (e - b)
      BY <1>4
    <3>2. f[a + (e - b)] \in Int /\ f[a + (e - b)] = g[b + (e - b)]
      BY <3>1
    <3> QED BY <3>1, <3>2
  <2>3. SumFunctionOnSet(g, S) = g[b + (k - 1)] + SumFunctionOnSet(g, S \ {b + (k - 1)})
    <3> HIDE DEF S
    <3> QED BY <2>1, <2>2, SumTake
  <2> QED BY <2>1, <2>3
<1> HIDE DEF F, G
<1>7. F(k - 1) = G(k - 1)
  BY <1>2, <1>4
<1>8. f[a + (k - 1)] = g[b + (k - 1)]
  BY <1>4
<1> QED
  BY <1>2, <1>5, <1>6, <1>7, <1>8

(* The sum of a function given by its terms, on part of where another has  *)
(* the same ones.                                                          *)
LEMMA SumPart ==
  ASSUME NEW f, NEW g, NEW S, IsFiniteSet(S), DOMAIN f = S, \A e \in S : f[e] = g[e]
  PROVE  SumFunction(f) = SumFunctionOnSet(g, S)
BY SumSame DEF SumFunction

(* The sum of the first terms, and of those that follow.                   *)
LEMMA SumNext ==
  ASSUME NEW f, NEW p \in Nat, NEW q \in Nat, p <= q, \A e \in 0 .. (q - 1) : f[e] \in Int
  PROVE  SumFunctionOnSet(f, 0 .. (q - 1))
           = SumFunctionOnSet(f, 0 .. (p - 1)) + SumFunctionOnSet(f, p .. (q - 1))
<1> DEFINE S == 0 .. (p - 1)
           T == p .. (q - 1)
<1>1. IsFiniteSet(S) /\ IsFiniteSet(T)
  BY FS_Interval
<1>2. S \cap T = {} /\ S \cup T = 0 .. (q - 1)
  OBVIOUS
<1> HIDE DEF S, T
<1>3. SumFunctionOnSet(f, S \cup T) = SumFunctionOnSet(f, S) + SumFunctionOnSet(f, T)
  BY <1>1, <1>2, SumUnion
<1> QED
  BY <1>2, <1>3 DEF S, T

=============================================================================
