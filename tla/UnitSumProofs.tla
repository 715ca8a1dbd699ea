--------------------------- MODULE UnitSumProofs ----------------------------
(***************************************************************************)
(* Lemmas about the sums of UnitSum, from the library's theorems on the    *)
(* cardinality of finite sets.                                             *)
(***************************************************************************)
EXTENDS UnitSum, FiniteSetTheorems, TLAPS

\* A finite set of natural amounts has finitely many units.
LEMMA UnitsFinite ==
  ASSUME NEW S, IsFiniteSet(S), NEW w, \A x \in S : w[x] \in Nat
  PROVE  IsFiniteSet(Units(S, w))
<1> DEFINE Heap(x) == {x} \X (1 .. w[x])
           Heaps == {Heap(x) : x \in S}
<1>1. ASSUME NEW x \in S PROVE IsFiniteSet(Heap(x))
  <2>1. IsFiniteSet({x})
    BY FS_Singleton
  <2>2. IsFiniteSet(1 .. w[x])
    BY FS_Interval
  <2>3. IsFiniteSet({x} \X (1 .. w[x]))
    BY <2>1, <2>2, FS_Product
  <2> QED
    BY <2>3
<1>2. IsFiniteSet(Heaps)
  <2> DEFINE f == [x \in S |-> Heap(x)]
  <2>1. f \in Surjection(S, Heaps)
    BY DEF Surjection
  <2> QED
    BY <2>1, FS_Surjection
<1>3. \A h \in Heaps : IsFiniteSet(h)
  BY <1>1
<1>4. IsFiniteSet(UNION Heaps)
  <2> HIDE DEF Heaps
  <2> QED
    BY <1>2, <1>3, FS_UNION
<1> QED
  BY <1>4 DEF Units

\* A sum is a natural number.
LEMMA SumType ==
  ASSUME NEW S, IsFiniteSet(S), NEW w, \A x \in S : w[x] \in Nat
  PROVE  SumOf(S, w) \in Nat
  BY UnitsFinite, FS_CardinalityType DEF SumOf

\* The empty sum.
LEMMA SumEmpty == ASSUME NEW w PROVE SumOf({}, w) = 0
<1>1. Units({}, w) = {}
  BY DEF Units
<1> QED
  BY <1>1, FS_EmptySet DEF SumOf

\* A larger set has a larger sum.
LEMMA SumMonotone ==
  ASSUME NEW S, IsFiniteSet(S), NEW w, \A x \in S : w[x] \in Nat,
         NEW T \in SUBSET S
  PROVE  SumOf(T, w) <= SumOf(S, w)
<1>1. Units(T, w) \in SUBSET Units(S, w)
  BY DEF Units
<1> QED
  BY <1>1, UnitsFinite, FS_Subset DEF SumOf

\* Only the amounts of the members matter.
LEMMA SumSame ==
  ASSUME NEW S, NEW v, NEW w, \A x \in S : v[x] = w[x]
  PROVE  SumOf(S, v) = SumOf(S, w)
<1>1. Units(S, v) = Units(S, w)
  BY DEF Units
<1> QED
  BY <1>1 DEF SumOf

\* The sum over two disjoint sets.
LEMMA SumUnion ==
  ASSUME NEW S, IsFiniteSet(S), NEW T, IsFiniteSet(T), S \cap T = {},
         NEW w, \A x \in S \cup T : w[x] \in Nat
  PROVE  SumOf(S \cup T, w) = SumOf(S, w) + SumOf(T, w)
<1>1. IsFiniteSet(Units(S, w)) /\ IsFiniteSet(Units(T, w))
  BY UnitsFinite
<1>2. Units(S \cup T, w) = Units(S, w) \cup Units(T, w)
  BY DEF Units
<1>3. Units(S, w) \cap Units(T, w) = {}
  BY DEF Units
<1>4. Cardinality({}) = 0
  BY FS_EmptySet
<1>5. Cardinality(Units(S, w)) \in Nat /\ Cardinality(Units(T, w)) \in Nat
  BY <1>1, FS_CardinalityType
<1>6. Cardinality(Units(S, w) \cup Units(T, w)) =
        Cardinality(Units(S, w)) + Cardinality(Units(T, w))
          - Cardinality(Units(S, w) \cap Units(T, w))
  BY <1>1, FS_Union
<1>7. \A a, b \in Nat : a + b - 0 = a + b
  OBVIOUS
<1> QED
  BY <1>2, <1>3, <1>4, <1>5, <1>6, <1>7, Zenon DEF SumOf

\* The sum of one amount.
LEMMA SumSingle ==
  ASSUME NEW x, NEW w, w[x] \in Nat
  PROVE  SumOf({x}, w) = w[x]
<1>1. Units({x}, w) = {x} \X (1 .. w[x])
  BY DEF Units
<1>2. IsFiniteSet({x}) /\ Cardinality({x}) = 1
  BY FS_Singleton
<1>3. IsFiniteSet(1 .. w[x])
      /\ Cardinality(1 .. w[x]) = IF 1 > w[x] THEN 0 ELSE w[x] - 1 + 1
  BY FS_Interval, 1 \in Int, w[x] \in Int
<1>4. Cardinality({x} \X (1 .. w[x])) = Cardinality({x}) * Cardinality(1 .. w[x])
  <2> DEFINE I == 1 .. w[x]
  <2>1. IsFiniteSet({x}) /\ IsFiniteSet(I)
    BY <1>2, <1>3
  <2> HIDE DEF I
  <2>2. Cardinality({x} \X I) = Cardinality({x}) * Cardinality(I)
    BY <2>1, FS_Product
  <2> QED
    BY <2>2 DEF I
<1>5. Cardinality(1 .. w[x]) = w[x]
  BY <1>3
<1>6. \A n \in Nat : 1 * n = n
  OBVIOUS
<1> QED
  BY <1>1, <1>2, <1>4, <1>5, <1>6, Zenon DEF SumOf

\* Adding one amount.
LEMMA SumAdd ==
  ASSUME NEW S, IsFiniteSet(S), NEW x, x \notin S,
         NEW w, \A y \in S \cup {x} : w[y] \in Nat
  PROVE  SumOf(S \cup {x}, w) = SumOf(S, w) + w[x]
<1>1. IsFiniteSet({x}) /\ S \cap {x} = {}
  BY FS_Singleton
<1>2. SumOf({x}, w) = w[x]
  BY SumSingle
<1> QED
  BY <1>1, <1>2, SumUnion

\* An amount is at most the sum it is part of.
LEMMA SumMember ==
  ASSUME NEW S, IsFiniteSet(S), NEW x \in S, NEW w, \A y \in S : w[y] \in Nat
  PROVE  w[x] <= SumOf(S, w)
<1>1. SumOf({x}, w) <= SumOf(S, w)
  BY SumMonotone
<1> QED
  BY <1>1, SumSingle

\* One member less.
LEMMA SumShrink ==
  ASSUME NEW S, IsFiniteSet(S), NEW x \in S, NEW v, NEW w,
         \A y \in S \ {x} : w[y] = v[y], \A y \in S : v[y] \in Nat
  PROVE  SumOf(S \ {x}, w) = SumOf(S, v) - v[x] /\ SumOf(S, v) - v[x] \in Nat
<1>1. PICK T : T = S \ {x}
  OBVIOUS
<1>2. IsFiniteSet(T) /\ x \notin T /\ S = T \cup {x}
  BY <1>1, FS_Subset
<1>3. SumOf(S, v) = SumOf(T, v) + v[x]
  BY <1>2, SumAdd
<1>4. SumOf(T, w) = SumOf(T, v)
  BY <1>1, SumSame
<1>5. SumOf(T, v) \in Nat
  BY <1>1, <1>2, SumType
<1> QED
  BY <1>1, <1>3, <1>4, <1>5

\* A sum of nothing but zeros.
LEMMA SumZero ==
  ASSUME NEW S, NEW w, \A x \in S : w[x] = 0 PROVE SumOf(S, w) = 0
<1>1. \A x \in S : 1 .. w[x] = {}
  OBVIOUS
<1>2. Units(S, w) = {}
  BY <1>1 DEF Units
<1> QED
  BY <1>2, FS_EmptySet DEF SumOf

\* Products and quotients of amounts.
LEMMA Product == \A m, n \in Nat : m * n \in Nat
OBVIOUS

LEMMA Division ==
  ASSUME NEW n \in Nat, NEW w \in Nat \ {0}
  PROVE  n \div w \in Nat /\ w * (n \div w) <= n /\ n < w * (n \div w) + w
OBVIOUS

\* One share more, rounded down: the sum z of shares of n stays a share of the
\* sum.
LEMMA OneMoreShare ==
  ASSUME NEW t \in Nat, NEW w \in Nat \ {0}, NEW z \in Nat, NEW n \in Nat,
         NEW a \in Nat, w * z <= t * n
  PROVE  (a * t) \div w \in Nat /\ w * (z + ((a * t) \div w)) <= t * (n + a)
<1>1. PICK b \in Nat : b = a * t
  BY Product
<1>2. PICK q \in Nat : q = b \div w
  BY Division
<1>3. w * q <= b
  BY <1>2, Division
<1>4. w * (z + q) = w * z + w * q /\ t * (n + a) = t * n + a * t
  OBVIOUS
<1>5. w * z \in Nat /\ t * n \in Nat /\ w * q \in Nat
  BY Product
<1> QED
  BY <1>1, <1>2, <1>3, <1>4, <1>5
=============================================================================
