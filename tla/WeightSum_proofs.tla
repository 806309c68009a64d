---------------------------- MODULE WeightSum_proofs ----------------------------
(***************************************************************************)
(* What sums of weights do when their set or their weights change.         *)
(***************************************************************************)
EXTENDS WeightSum, FiniteSetTheorems, TLAPS

\* The units of x are as many as it weighs.
LEMMA UnitsOfOne ==
  ASSUME NEW x, NEW n \in Nat
  PROVE  IsFiniteSet({x} \X (1 .. n)) /\ Cardinality({x} \X (1 .. n)) = n
  <1>1. IsFiniteSet(1 .. n) /\ Cardinality(1 .. n) = n
    BY FS_Interval
  <1>2. IsFiniteSet({x}) /\ Cardinality({x}) = 1
    BY FS_Singleton
  <1>3. QED
    BY <1>1, <1>2, FS_Product

LEMMA UnitsFinite ==
  ASSUME NEW S, IsFiniteSet(S), NEW w, \A x \in S : w[x] \in Nat
  PROVE  IsFiniteSet(UnitsOfWeight(S, w))
  <1> DEFINE each == {{x} \X (1 .. w[x]) : x \in S}
             f == [x \in S |-> {x} \X (1 .. w[x])]
  <1>1. f \in Surjection(S, each)
    BY DEF Surjection
  <1>2. IsFiniteSet(each)
    <2> HIDE DEF each, f
    <2> QED BY <1>1, FS_Surjection
  <1>3. \A T \in each : IsFiniteSet(T)
    <2>1. \A x \in S : IsFiniteSet({x} \X (1 .. w[x]))
      BY UnitsOfOne
    <2>2. QED
      BY <2>1
  <1>4. IsFiniteSet(UNION each)
    <2> HIDE DEF each
    <2> QED BY <1>2, <1>3, FS_UNION
  <1>5. QED
    BY <1>4 DEF UnitsOfWeight

\* A sum of natural numbers is one.
LEMMA TotalType ==
  ASSUME NEW S, IsFiniteSet(S), NEW w, \A x \in S : w[x] \in Nat
  PROVE  Total(S, w) \in Nat
  BY UnitsFinite, FS_CardinalityType DEF Total

LEMMA TotalEmpty == \A w : Total({}, w) = 0
  <1> TAKE w
  <1>1. UnitsOfWeight({}, w) = {}
    BY DEF UnitsOfWeight
  <1>2. QED
    BY <1>1, FS_EmptySet DEF Total

\* Only the weights of the set's elements count.
LEMMA TotalSame ==
  ASSUME NEW S, NEW v, NEW w, \A x \in S : v[x] = w[x]
  PROVE  Total(S, v) = Total(S, w)
  <1>1. UnitsOfWeight(S, v) = UnitsOfWeight(S, w)
    BY DEF UnitsOfWeight
  <1>2. QED
    BY <1>1 DEF Total

\* An element more adds its weight.
LEMMA TotalAdd ==
  ASSUME NEW S, IsFiniteSet(S), NEW y, y \notin S, NEW w,
         \A x \in S \cup {y} : w[x] \in Nat
  PROVE  Total(S \cup {y}, w) = Total(S, w) + w[y]
  <1> DEFINE old == UnitsOfWeight(S, w)
             new == {y} \X (1 .. w[y])
  <1>1. UnitsOfWeight(S \cup {y}, w) = old \cup new
    BY DEF UnitsOfWeight
  <1>2. old \cap new = {}
    BY DEF UnitsOfWeight
  <1>3. IsFiniteSet(old) /\ Cardinality(old) \in Nat
    BY UnitsFinite, FS_CardinalityType
  <1>4. IsFiniteSet(new) /\ Cardinality(new) = w[y] /\ w[y] \in Nat
    BY UnitsOfOne
  <1> HIDE DEF old, new
  <1>5. Cardinality(old \cup new) = Cardinality(old) + Cardinality(new) - Cardinality({})
    BY <1>2, <1>3, <1>4, FS_Union
  <1>6. Cardinality({}) = 0
    BY FS_EmptySet
  <1>7. Total(S \cup {y}, w) = Cardinality(old \cup new)
    BY <1>1 DEF Total
  <1>8. Total(S, w) = Cardinality(old)
    BY DEF Total, old
  <1>9. QED
    BY <1>3, <1>4, <1>5, <1>6, <1>7, <1>8

\* An element less takes its weight away.
LEMMA TotalRemove ==
  ASSUME NEW S, IsFiniteSet(S), NEW y \in S, NEW w, \A x \in S : w[x] \in Nat
  PROVE  Total(S \ {y}, w) = Total(S, w) - w[y]
  <1>1. IsFiniteSet(S \ {y})
    BY FS_RemoveElement
  <1>2. (S \ {y}) \cup {y} = S
    OBVIOUS
  <1>3. Total(S, w) = Total(S \ {y}, w) + w[y]
    BY <1>1, <1>2, TotalAdd
  <1>4. Total(S \ {y}, w) \in Nat
    BY <1>1, TotalType
  <1>5. QED
    BY <1>3, <1>4

\* What is matched, one to one, by something that weighs as much, weighs no more together.
LEMMA TotalMatched ==
  ASSUME NEW S, NEW T, IsFiniteSet(T), NEW v, NEW w, NEW f \in [S -> T],
         \A x, y \in S : f[x] = f[y] => x = y,
         \A x \in S : v[x] = w[f[x]],
         \A y \in T : w[y] \in Nat
  PROVE  Total(S, v) <= Total(T, w)
  <1> DEFINE A == UnitsOfWeight(S, v)
             B == UnitsOfWeight(T, w)
             g == [p \in A |-> <<f[p[1]], p[2]>>]
  <1>1. \A p \in A : p = <<p[1], p[2]>> /\ p[1] \in S /\ p[2] \in 1 .. v[p[1]]
    BY DEF UnitsOfWeight
  <1>2. \A x \in T : \A k \in 1 .. w[x] : <<x, k>> \in B
    BY DEF UnitsOfWeight
  <1>3. IsFiniteSet(B)
    BY UnitsFinite
  <1> HIDE DEF A, B
  <1>4. g \in [A -> B]
    BY <1>1, <1>2
  <1>5. \A p, q \in A : g[p] = g[q] => p = q
    BY <1>1
  <1> HIDE DEF g
  <1>6. g \in Injection(A, B)
    BY <1>4, <1>5 DEF Injection, IsInjective
  <1>7. Cardinality(A) <= Cardinality(B)
    BY <1>3, <1>6, FS_Injection
  <1>8. QED
    BY <1>7 DEF Total, A, B

\* A part weighs no more than the whole.
LEMMA TotalPart ==
  ASSUME NEW T, IsFiniteSet(T), NEW S \in SUBSET T, NEW w, \A x \in T : w[x] \in Nat
  PROVE  Total(S, w) <= Total(T, w)
  <1> DEFINE f == [x \in S |-> x]
  <1>1. f \in [S -> T] /\ \A x \in S : f[x] = x
    OBVIOUS
  <1> HIDE DEF f
  <1>2. QED
    BY <1>1, TotalMatched
=============================================================================
