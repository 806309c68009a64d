---------------------------- MODULE HeapQueue_proofs ----------------------------
(* That the array, the loops over it and the cascade's recursion do what         *)
(* ReadyQueue promises, for any units, dependencies, weights and orders.         *)
EXTENDS HeapQueue, FiniteSetTheorems, WellFoundedInduction, TLAPS

-----------------------------------------------------------------------------
(* Loops: a function that is told by `stop, or go on from the next state' has  *)
(* a value for each state, and if every step makes progress it stops with what *)
(* every step keeps.                                                           *)

\* A set of numbers has a least one.
LEMMA Least ==
  ASSUME NEW T, T \subseteq Nat, T # {}
  PROVE  \E x \in T : \A y \in T : x <= y
<1> DEFINE R == {ss \in Nat \X Nat : ss[1] < ss[2]}
<1>1. IsWellFoundedOn(R, Nat)
  BY NatLessThanWellFounded DEF OpToRel
<1>2. PICK x \in T : \A y \in T : ~(<<y, x>> \in R)
  BY <1>1, WFMin
<1>3. \A y \in T : ~(y < x)
  BY <1>2
<1> QED BY <1>3

\* Induction, of sets of numbers.
LEMMA AllNumbers ==
  ASSUME NEW S, 0 \in S, \A n \in Nat : n \in S => n + 1 \in S
  PROVE  Nat \subseteq S
<1> SUFFICES ASSUME Nat \ S # {} PROVE FALSE
  OBVIOUS
<1>1. PICK x \in Nat \ S : \A y \in Nat \ S : x <= y
  BY Least
<1>2. x # 0 /\ x - 1 \in Nat
  BY <1>1
<1>3. x - 1 \in S
  BY <1>1, <1>2
<1> QED BY <1>1, <1>2, <1>3

IsOrbit(h, F, v, k) == h[0] = v /\ \A n \in Nat : n < k => h[n + 1] = F[h[n]]

\* The sequences that F makes of v.
Orbits(V, F, v) == {h \in [Nat -> V] : h[0] = v /\ \A n \in Nat : h[n + 1] = F[h[n]]}

LEMMA OrbitExists ==
  ASSUME NEW V, NEW F \in [V -> V], NEW v \in V
  PROVE  Orbits(V, F, v) # {}
<1> DEFINE S == {k \in Nat : \E h \in [Nat -> V] : IsOrbit(h, F, v, k)}
<1>1. 0 \in S
  <2>1. [n \in Nat |-> v] \in [Nat -> V] /\ IsOrbit([n \in Nat |-> v], F, v, 0)
    BY DEF IsOrbit
  <2> QED BY <2>1
<1>2. ASSUME NEW k \in Nat, k \in S PROVE k + 1 \in S
  <2>1. PICK h \in [Nat -> V] : IsOrbit(h, F, v, k)
    BY <1>2
  <2> DEFINE g == [h EXCEPT ![k + 1] = F[h[k]]]
  <2>2. g \in [Nat -> V]
    OBVIOUS
  <2>3. g[0] = v
    BY <2>1 DEF IsOrbit
  <2>4. ASSUME NEW n \in Nat, n < k + 1 PROVE g[n + 1] = F[g[n]]
    <3>1. g[n] = h[n]
      BY <2>4
    <3>2. CASE n < k
      BY <2>1, <3>1, <3>2 DEF IsOrbit
    <3>3. CASE n = k
      BY <3>1, <3>3
    <3> QED BY <2>4, <3>2, <3>3
  <2>5. IsOrbit(g, F, v, k + 1)
    <3> HIDE DEF g
    <3> QED BY <2>3, <2>4 DEF IsOrbit
  <2>6. \E o \in [Nat -> V] : IsOrbit(o, F, v, k + 1)
    <3> HIDE DEF g
    <3> QED BY <2>2, <2>5
  <2> QED BY <2>6
<1>3. Nat \subseteq S
  BY <1>1, <1>2, AllNumbers
<1>4. ASSUME NEW k \in Nat, NEW l \in Nat, k <= l,
             NEW h \in [Nat -> V], NEW g \in [Nat -> V],
             IsOrbit(h, F, v, k), IsOrbit(g, F, v, l)
      PROVE  \A n \in 0 .. k : h[n] = g[n]
  <2> DEFINE A == {n \in Nat : n <= k => h[n] = g[n]}
  <2>1. 0 \in A
    BY <1>4 DEF IsOrbit
  <2>2. ASSUME NEW n \in Nat, n \in A PROVE n + 1 \in A
    BY <1>4, <2>2 DEF IsOrbit
  <2>3. Nat \subseteq A
    BY <2>1, <2>2, AllNumbers
  <2> QED BY <2>3
<1> DEFINE at == [k \in Nat |-> CHOOSE h \in [Nat -> V] : IsOrbit(h, F, v, k)]
<1>5. \A k \in Nat : at[k] \in [Nat -> V] /\ IsOrbit(at[k], F, v, k)
  BY <1>3
<1> DEFINE f == [k \in Nat |-> at[k][k]]
<1> HIDE DEF at
<1>6. f \in [Nat -> V] /\ f[0] = v
  <2>1. at[0][0] = v
    BY <1>5 DEF IsOrbit
  <2> QED BY <1>5, <2>1
<1>7. ASSUME NEW n \in Nat PROVE f[n + 1] = F[f[n]]
  <2>1. at[n + 1][n + 1] = F[at[n + 1][n]]
    <3>1. n + 1 \in Nat /\ n < n + 1
      OBVIOUS
    <3>2. IsOrbit(at[n + 1], F, v, n + 1)
      BY <1>5, <3>1
    <3> QED BY <3>1, <3>2 DEF IsOrbit
  <2>2. at[n + 1][n] = at[n][n]
    BY <1>4, <1>5
  <2> QED BY <2>1, <2>2
<1> HIDE DEF f
<1>8. f \in Orbits(V, F, v)
  BY <1>6, <1>7 DEF Orbits
<1> QED BY <1>8

\* g ends at the states in D, with what r says, and goes on to the next state elsewhere.
IsLoop(g, V, F, D, r) == g = [x \in V |-> IF x \in D THEN r[x] ELSE g[F[x]]]

HasLoop(V, F, D, r) == \E g : IsLoop(g, V, F, D, r)

\* A loop has a value: run it to its end, if it has one.
LEMMA LoopExists ==
  ASSUME NEW V, NEW F \in [V -> V], NEW D, NEW r
  PROVE  HasLoop(V, F, D, r)
<1> DEFINE orb == [x \in V |-> CHOOSE h : h \in Orbits(V, F, x)]
<1>0. \A x \in V : orb[x] \in Orbits(V, F, x)
  BY OrbitExists
<1> HIDE DEF orb
<1>1. \A x \in V : /\ orb[x] \in [Nat -> V] /\ orb[x][0] = x
                   /\ \A n \in Nat : orb[x][n + 1] = F[orb[x][n]]
  BY <1>0 DEF Orbits
<1>2. ASSUME NEW x \in V PROVE \A n \in Nat : orb[x][n + 1] = orb[F[x]][n]
  <2> DEFINE A == {n \in Nat : orb[x][n + 1] = orb[F[x]][n]}
  <2>0. F[x] \in V
    OBVIOUS
  <2>1. 0 \in A
    BY <1>1, <2>0
  <2>2. ASSUME NEW n \in Nat, n \in A PROVE n + 1 \in A
    BY <1>1, <2>0, <2>2
  <2>3. Nat \subseteq A
    BY <2>1, <2>2, AllNumbers
  <2> QED BY <2>3
<1> DEFINE ends(x) == {n \in Nat : orb[x][n] \in D}
           first(x) == CHOOSE n \in ends(x) : \A k \in ends(x) : n <= k
           g == [x \in V |-> IF ends(x) = {} THEN {} ELSE r[orb[x][first(x)]]]
<1>3. \A x : ends(x) # {} => first(x) \in ends(x) /\ \A k \in ends(x) : first(x) <= k
  BY Least
<1> HIDE DEF first, orb
<1>4. ASSUME NEW x \in V, x \in D PROVE g[x] = r[x]
  <2>1. 0 \in ends(x)
    BY <1>1, <1>4
  <2>2. first(x) = 0
    BY <1>3, <2>1
  <2> QED BY <1>1, <2>1, <2>2
<1>5. ASSUME NEW x \in V, x \notin D PROVE g[x] = g[F[x]]
  <2>1. F[x] \in V /\ 0 \notin ends(x)
    BY <1>1, <1>5
  <2>2. \A n \in Nat : n + 1 \in ends(x) <=> n \in ends(F[x])
    BY <1>2
  <2>3. ends(x) = {} <=> ends(F[x]) = {}
    <3>1. ASSUME NEW n \in ends(x) PROVE n - 1 \in ends(F[x])
      <4>1. n - 1 \in Nat /\ n = (n - 1) + 1
        BY <2>1
      <4> QED BY <2>2, <4>1
    <3>2. ASSUME NEW n \in ends(F[x]) PROVE n + 1 \in ends(x)
      BY <2>2
    <3> QED BY <3>1, <3>2
  <2>4. CASE ends(x) # {}
    <3>1. first(x) \in ends(x) /\ first(F[x]) \in ends(F[x])
      BY <1>3, <2>3, <2>4
    <3>2. first(x) \in Nat /\ first(F[x]) \in Nat /\ first(x) # 0
      BY <2>1, <3>1
    <3>3. first(x) <= first(F[x]) + 1
      BY <1>3, <2>2, <2>4, <3>1, <3>2
    <3>4. first(x) - 1 \in ends(F[x])
      BY <2>2, <3>1, <3>2
    <3>5. first(F[x]) <= first(x) - 1
      BY <1>3, <3>4
    <3>6. first(x) = first(F[x]) + 1
      BY <3>2, <3>3, <3>5
    <3>7. orb[x][first(x)] = orb[F[x]][first(F[x])]
      BY <1>2, <3>2, <3>6
    <3> QED BY <2>1, <2>3, <2>4, <3>7
  <2> QED BY <2>1, <2>3, <2>4
<1>6. g = [x \in V |-> IF x \in D THEN r[x] ELSE g[F[x]]]
  BY <1>4, <1>5
<1> HIDE DEF g
<1> QED BY <1>6 DEF HasLoop, IsLoop

\* A loop that makes progress ends, with what it keeps.
LEMMA LoopEnds ==
  ASSUME NEW V, NEW F, NEW D, NEW r, NEW g,
         IsLoop(g, V, F, D, r),
         NEW I \in SUBSET V, NEW m \in [I -> Nat],
         \A x \in I \ D : F[x] \in I /\ m[F[x]] < m[x]
  PROVE  \A x \in I : \E y \in I \cap D : g[x] = r[y]
<1> DEFINE Ends(x) == \E y \in I \cap D : g[x] = r[y]
           Bad == {m[x] : x \in {z \in I : ~Ends(z)}}
<1> SUFFICES ASSUME Bad # {} PROVE FALSE
  OBVIOUS
<1>9. \A x \in I \cap D : g[x] = r[x]
  BY DEF IsLoop
<1>0. Bad \subseteq Nat
  OBVIOUS
<1>1. PICK b \in Bad : \A c \in Bad : b <= c
  <2> HIDE DEF Bad
  <2> QED BY <1>0, Least
<1>2. PICK x \in I : ~Ends(x) /\ m[x] = b
  OBVIOUS
<1>3. x \notin D
  BY <1>2, <1>9
<1>4. g[x] = g[F[x]] /\ F[x] \in I /\ m[F[x]] < m[x]
  BY <1>3 DEF IsLoop
<1>5. ~Ends(F[x])
  BY <1>2, <1>4
<1>6. m[F[x]] \in Bad
  BY <1>4, <1>5
<1>7. b \in Nat /\ m[F[x]] \in Nat /\ b <= m[F[x]]
  BY <1>1, <1>2, <1>4, <1>6
<1> QED BY <1>2, <1>4, <1>7

-----------------------------------------------------------------------------
(* A heap, of numbers.                                                         *)

Heaped(a, n) == \A k \in 2 .. n : a[k] <= a[k \div 2]

\* A heap but that entry j may be more than its parent.
HeapedButUp(a, j, n) ==
  /\ \A k \in 2 .. n : k # j => a[k] <= a[k \div 2]
  /\ j >= 2 => \A k \in 2 .. n : k \div 2 = j => a[k] <= a[j \div 2]

\* A heap but that entry i may be less than its children.
HeapedButDown(a, i, n) ==
  /\ \A k \in 2 .. n : k \div 2 # i => a[k] <= a[k \div 2]
  /\ i >= 2 => \A k \in 2 .. n : k \div 2 = i => a[k] <= a[i \div 2]

\* A heap but for entry i, which may be anything.
HeapedBut(a, i, n) ==
  /\ \A k \in 2 .. n : k \div 2 # i /\ k # i => a[k] <= a[k \div 2]
  /\ i >= 2 => \A k \in 2 .. n : k \div 2 = i => a[k] <= a[i \div 2]

Exchanged(a, b, i, j, n) ==
  b[i] = a[j] /\ b[j] = a[i] /\ \A k \in 1 .. n : k # i /\ k # j => b[k] = a[k]

LEMMA RiseOrders ==
  ASSUME NEW n \in Nat, NEW a, NEW b, \A k \in 1 .. n : a[k] \in Int /\ b[k] \in Int,
         NEW j \in 2 .. n, HeapedButUp(a, j, n), a[j] > a[j \div 2],
         Exchanged(a, b, j, j \div 2, n)
  PROVE  HeapedButUp(b, j \div 2, n)
<1> DEFINE p == j \div 2
<1>0. p \in 1 .. n /\ p < j
  OBVIOUS
<1>1. b[j] = a[p] /\ b[p] = a[j] /\ \A k \in 1 .. n : k # j /\ k # p => b[k] = a[k]
  BY DEF Exchanged
<1>2. ASSUME NEW k \in 2 .. n, k # p PROVE b[k] <= b[k \div 2]
  <2> DEFINE q == k \div 2
  <2>0. q \in 1 .. n /\ q < k
    OBVIOUS
  <2>1. CASE k = j
    BY <1>0, <1>1, <2>1
  <2>2. CASE k # j /\ q = j
    <3>1. a[k] <= a[p]
      BY <2>2 DEF HeapedButUp
    <3> QED BY <1>1, <1>2, <2>2, <3>1
  <2>3. CASE k # j /\ q = p
    <3>1. a[k] <= a[p]
      BY <2>3 DEF HeapedButUp
    <3> QED BY <1>0, <1>1, <1>2, <2>3, <3>1
  <2>4. CASE k # j /\ q # j /\ q # p
    <3>1. a[k] <= a[q]
      BY <2>4 DEF HeapedButUp
    <3> QED BY <1>1, <1>2, <2>0, <2>4, <3>1
  <2> QED BY <2>1, <2>2, <2>3, <2>4
<1>3. ASSUME p >= 2, NEW k \in 2 .. n, k \div 2 = p PROVE b[k] <= b[p \div 2]
  <2> DEFINE q == p \div 2
  <2>0. q \in 1 .. n /\ q < p
    BY <1>0, <1>3
  <2>1. b[q] = a[q] /\ a[p] <= a[q]
    BY <1>0, <1>1, <1>3, <2>0 DEF HeapedButUp
  <2>2. CASE k = j
    BY <1>1, <2>1, <2>2
  <2>3. CASE k # j
    <3>1. a[k] <= a[p] /\ b[k] = a[k]
      BY <1>0, <1>1, <1>3, <2>3 DEF HeapedButUp
    <3> QED BY <1>0, <2>0, <2>1, <3>1
  <2> QED BY <2>2, <2>3
<1> QED BY <1>2, <1>3 DEF HeapedButUp

LEMMA SinkOrders ==
  ASSUME NEW n \in Nat, NEW a, NEW b, \A k \in 1 .. n : a[k] \in Int /\ b[k] \in Int,
         NEW i \in 1 .. n, HeapedBut(a, i, n),
         NEW c \in 2 .. n, c \div 2 = i, a[c] > a[i],
         \A k \in 2 .. n : k \div 2 = i => a[k] <= a[c],
         Exchanged(a, b, i, c, n)
  PROVE  HeapedButDown(b, c, n)
<1>0. i < c
  OBVIOUS
<1>1. b[i] = a[c] /\ b[c] = a[i] /\ \A k \in 1 .. n : k # i /\ k # c => b[k] = a[k]
  BY DEF Exchanged
<1>2. ASSUME NEW k \in 2 .. n, k \div 2 # c PROVE b[k] <= b[k \div 2]
  <2> DEFINE q == k \div 2
  <2>0. q \in 1 .. n /\ q < k
    OBVIOUS
  <2>1. CASE k = c
    BY <1>0, <1>1, <2>1
  <2>2. CASE k = i
    <3>1. a[c] <= a[q]
      BY <2>2 DEF HeapedBut
    <3> QED BY <1>0, <1>1, <2>0, <2>2, <3>1
  <2>3. CASE k # c /\ k # i /\ q = i
    BY <1>1, <2>3
  <2>4. CASE k # c /\ k # i /\ q # i
    <3>1. a[k] <= a[q]
      BY <2>4 DEF HeapedBut
    <3> QED BY <1>1, <1>2, <2>0, <2>4, <3>1
  <2> QED BY <2>1, <2>2, <2>3, <2>4
<1>3. ASSUME NEW k \in 2 .. n, k \div 2 = c PROVE b[k] <= b[c \div 2]
  <2>1. k # c /\ k # i /\ a[k] <= a[c]
    BY <1>0, <1>3 DEF HeapedBut
  <2> QED BY <1>1, <2>1
<1> QED BY <1>2, <1>3 DEF HeapedButDown

-----------------------------------------------------------------------------
(* The array in another order.                                                 *)

Reordered(s, t) ==
  /\ t \in Seq(Unit) /\ Len(t) = Len(s)
  /\ ToSet(t) = ToSet(s)
  /\ IsInjective(s) => IsInjective(t)

LEMMA Entries ==
  ASSUME NEW s \in Seq(Unit)
  PROVE  /\ Len(s) \in Nat /\ DOMAIN s = 1 .. Len(s)
         /\ \A k \in 1 .. Len(s) : s[k] \in Unit
         /\ ToSet(s) = {s[k] : k \in 1 .. Len(s)}
BY DEF ToSet

LEMMA ReorderedSame == \A s \in Seq(Unit) : Reordered(s, s)
BY DEF Reordered

LEMMA ReorderedFurther ==
  ASSUME NEW s, NEW t, NEW v, Reordered(s, t), Reordered(t, v)
  PROVE  Reordered(s, v)
BY DEF Reordered

LEMMA SwapReorders ==
  ASSUME NEW s \in Seq(Unit), NEW i \in 1 .. Len(s), NEW j \in 1 .. Len(s)
  PROVE  /\ Reordered(s, Swap(s, i, j))
         /\ Swap(s, i, j)[i] = s[j] /\ Swap(s, i, j)[j] = s[i]
         /\ \A k \in 1 .. Len(s) : k # i /\ k # j => Swap(s, i, j)[k] = s[k]
<1> DEFINE t == [s EXCEPT ![i] = s[j], ![j] = s[i]]
<1>1. t \in Seq(Unit) /\ Len(t) = Len(s)
  OBVIOUS
<1>2. \A k \in 1 .. Len(s) : t[k] = IF k = j THEN s[i] ELSE IF k = i THEN s[j] ELSE s[k]
  OBVIOUS
<1>3. DOMAIN t = 1 .. Len(s) /\ DOMAIN s = 1 .. Len(s)
  BY <1>1
<1> HIDE DEF t
<1>4. ToSet(t) = ToSet(s)
  <2>1. ASSUME NEW x \in ToSet(t) PROVE x \in ToSet(s)
    <3>1. PICK k \in 1 .. Len(s) : t[k] = x
      BY <1>3 DEF ToSet
    <3>2. \E l \in 1 .. Len(s) : s[l] = x
      BY <1>2, <3>1
    <3> QED BY <1>3, <3>2 DEF ToSet
  <2>2. ASSUME NEW x \in ToSet(s) PROVE x \in ToSet(t)
    <3>1. PICK k \in 1 .. Len(s) : s[k] = x
      BY <1>3 DEF ToSet
    <3>2. \E l \in 1 .. Len(s) : t[l] = x
      BY <1>2, <3>1
    <3> QED BY <1>3, <3>2 DEF ToSet
  <2> QED BY <2>1, <2>2
<1>5. IsInjective(s) => IsInjective(t)
  BY <1>2, <1>3 DEF IsInjective
<1> QED BY <1>1, <1>2, <1>4, <1>5 DEF Reordered, Swap, t

-----------------------------------------------------------------------------
(* container/heap: rising.                                                     *)

UpStops == {x \in Rising : x[2] = 1 \/ ~Less(x[1], x[2], x[2] \div 2)}
UpNext  == [x \in Rising |-> IF x \in UpStops THEN x
                            ELSE <<Swap(x[1], x[2], x[2] \div 2), x[2] \div 2>>]
UpValue == [x \in Rising |-> x[1]]

LEMMA UpIsLoop == IsLoop(up, Rising, UpNext, UpStops, UpValue)
<1>1. UpNext \in [Rising -> Rising]
  <2>1. ASSUME NEW x \in Rising, x \notin UpStops
        PROVE  <<Swap(x[1], x[2], x[2] \div 2), x[2] \div 2>> \in Rising
    <3>1. x[1] \in Seq(Unit) /\ x[2] \in 2 .. Len(x[1]) /\ x[2] \div 2 \in 1 .. Len(x[1])
      BY <2>1 DEF Rising, UpStops
    <3>2. Reordered(x[1], Swap(x[1], x[2], x[2] \div 2))
      BY <3>1, SwapReorders
    <3> QED BY <3>1, <3>2 DEF Rising, Reordered
  <2> QED BY <2>1 DEF UpNext
<1>2. \A g : \A x \in Rising :
        (IF x \in UpStops THEN UpValue[x] ELSE g[UpNext[x]]) =
          IF x[2] = 1 \/ ~Less(x[1], x[2], x[2] \div 2) THEN x[1]
          ELSE g[<<Swap(x[1], x[2], x[2] \div 2), x[2] \div 2>>]
  BY DEF UpStops, UpNext, UpValue
<1>3. PICK g : IsLoop(g, Rising, UpNext, UpStops, UpValue)
  BY <1>1, LoopExists DEF HasLoop
<1>4. \A f : IsLoop(f, Rising, UpNext, UpStops, UpValue) <=>
        f = [x \in Rising |->
               LET s == x[1]
                   j == x[2]
               IN  IF j = 1 \/ ~Less(s, j, j \div 2) THEN s
                   ELSE f[<<Swap(s, j, j \div 2), j \div 2>>]]
  <2> TAKE f
  <2>1. [x \in Rising |-> IF x \in UpStops THEN UpValue[x] ELSE f[UpNext[x]]] =
        [x \in Rising |-> LET s == x[1]
                              j == x[2]
                          IN  IF j = 1 \/ ~Less(s, j, j \div 2) THEN s
                              ELSE f[<<Swap(s, j, j \div 2), j \div 2>>]]
    BY <1>2
  <2> QED BY <2>1 DEF IsLoop
<1>5. up = [x \in Rising |->
              LET s == x[1]
                  j == x[2]
              IN  IF j = 1 \/ ~Less(s, j, j \div 2) THEN s
                  ELSE up[<<Swap(s, j, j \div 2), j \div 2>>]]
  BY <1>3, <1>4, Zenon DEF up
<1> QED BY <1>4, <1>5

Weighed(s) == [k \in 1 .. Len(s) |-> weight[s[k]]]

LEMMA WeighedInts ==
  ASSUME weight \in [Unit -> Int], NEW s \in Seq(Unit)
  PROVE  \A k \in 1 .. Len(s) : Weighed(s)[k] \in Int /\ Weighed(s)[k] = weight[s[k]]
BY DEF Weighed

LEMMA Half ==
  \A i, n \in Int : i \in 2 .. n => i \div 2 \in 1 .. n /\ i \div 2 < i /\ i \div 2 \in Nat
OBVIOUS

LEMMA SwapRises ==
  ASSUME weight \in [Unit -> Int],
         NEW t \in Seq(Unit), NEW n \in 0 .. Len(t), NEW i \in 2 .. n,
         Less(t, i, i \div 2), HeapedButUp(Weighed(t), i, n)
  PROVE  HeapedButUp(Weighed(Swap(t, i, i \div 2)), i \div 2, n)
<1> DEFINE p == i \div 2
           v == Swap(t, i, p)
           a == Weighed(t)
           b == Weighed(v)
<1>1. Len(t) \in Nat /\ n \in Nat /\ n <= Len(t) /\ i \in 1 .. Len(t) /\ i \in 1 .. n
      /\ \A k \in 1 .. n : k \in 1 .. Len(t)
  OBVIOUS
<1>2. p \in 1 .. n /\ p \in 1 .. Len(t)
  BY <1>1, Half
<1> HIDE DEF p
<1>3. /\ Reordered(t, v) /\ v[i] = t[p] /\ v[p] = t[i]
      /\ \A k \in 1 .. Len(t) : k # i /\ k # p => v[k] = t[k]
  BY <1>1, <1>2, SwapReorders
<1>4. v \in Seq(Unit) /\ Len(v) = Len(t)
  BY <1>3 DEF Reordered
<1> HIDE DEF v
<1>5. \A k \in 1 .. Len(t) : /\ a[k] \in Int /\ a[k] = weight[t[k]]
                              /\ b[k] \in Int /\ b[k] = weight[v[k]]
  BY <1>4, WeighedInts
<1>11. weight[t[i]] > weight[t[p]]
  BY DEF Less, p
<1> HIDE DEF a, b
<1>6. a[i] > a[p]
  BY <1>1, <1>2, <1>5, <1>11
<1>7. Exchanged(a, b, i, p, n)
  <2>1. b[i] = a[p] /\ b[p] = a[i]
    BY <1>1, <1>2, <1>3, <1>5
  <2>2. ASSUME NEW k \in 1 .. n, k # i, k # p PROVE b[k] = a[k]
    BY <1>1, <1>3, <1>5, <2>2
  <2> QED BY <2>1, <2>2 DEF Exchanged
<1>8. HeapedButUp(a, i, n)
  BY DEF a
<1>9. \A k \in 1 .. n : a[k] \in Int /\ b[k] \in Int
  BY <1>1, <1>5
<1>10. HeapedButUp(b, p, n)
  BY <1>1, <1>6, <1>7, <1>8, <1>9, RiseOrders DEF p
<1> QED BY <1>10 DEF b, v, p

LEMMA RiseEnds ==
  ASSUME weight \in [Unit -> Int],
         NEW t \in Seq(Unit), NEW n \in 0 .. Len(t), NEW i \in 1 .. n,
         i = 1 \/ ~Less(t, i, i \div 2), HeapedButUp(Weighed(t), i, n)
  PROVE  Heaped(Weighed(t), n)
<1> DEFINE a == Weighed(t)
<1>1. Len(t) \in Nat /\ n \in Nat /\ n <= Len(t) /\ \A k \in 1 .. n : k \in 1 .. Len(t)
  OBVIOUS
<1>2. \A k \in 1 .. n : a[k] \in Int /\ a[k] = weight[t[k]]
  BY <1>1, WeighedInts
<1>3. HeapedButUp(a, i, n)
  OBVIOUS
<1> HIDE DEF a
<1>4. i = 1 \/ ~(a[i] > a[i \div 2])
  BY <1>1, <1>2, Half DEF Less
<1>5. ASSUME NEW k \in 2 .. n PROVE a[k] <= a[k \div 2]
  <2>0. k \in Int /\ n \in Int /\ k \in 2 .. n
    BY <1>1
  <2>1. k \div 2 \in 1 .. n
    BY <2>0, Half
  <2>2. k \in 1 .. n
    BY <2>0
  <2>3. CASE k = i
    <3>1. a[k] \in Int /\ a[k \div 2] \in Int /\ ~(a[k] > a[k \div 2])
      BY <1>2, <1>4, <2>0, <2>1, <2>2, <2>3
    <3> QED BY <3>1
  <2>4. CASE k # i
    BY <1>3, <2>4 DEF HeapedButUp
  <2> QED BY <2>3, <2>4
<1> QED BY <1>5 DEF Heaped, a

\* The arrays that rising from j can pass through.
Risen(s, j, n) ==
  {x \in Rising : /\ Reordered(s, x[1])
                  /\ x[2] <= j
                  /\ \A k \in 1 .. Len(s) : k > j => x[1][k] = s[k]
                  /\ HeapedButUp(Weighed(s), j, n) => HeapedButUp(Weighed(x[1]), x[2], n)}

LEMMA RisesOn ==
  ASSUME weight \in [Unit -> Int],
         NEW s \in Seq(Unit), NEW j \in 1 .. Len(s), NEW n \in j .. Len(s),
         NEW t, NEW i, <<t, i>> \in Risen(s, j, n), <<t, i>> \notin UpStops
  PROVE  UpNext[<<t, i>>] \in Risen(s, j, n) /\ UpNext[<<t, i>>][2] < i
<1> DEFINE p == i \div 2
           v == Swap(t, i, p)
<1>0. /\ t \in Seq(Unit) /\ i \in 1 .. Len(t) /\ <<t, i>> \in Rising
      /\ Reordered(s, t) /\ i <= j
      /\ \A k \in 1 .. Len(s) : k > j => t[k] = s[k]
      /\ HeapedButUp(Weighed(s), j, n) => HeapedButUp(Weighed(t), i, n)
  BY DEF Risen, Rising
<1>1. i # 1 /\ Less(t, i, p)
  BY <1>0 DEF UpStops
<1>2. Len(t) = Len(s) /\ Len(s) \in Nat
  BY <1>0 DEF Reordered
<1>3. j \in Nat /\ n \in Nat /\ i \in 2 .. n /\ i \in 2 .. Len(t) /\ n \in 0 .. Len(t)
  BY <1>0, <1>1, <1>2
<1>4. p \in 1 .. Len(t) /\ p < i /\ p \in Nat
  BY <1>2, <1>3, Half
<1>5. /\ Reordered(t, v) /\ v[i] = t[p] /\ v[p] = t[i]
      /\ \A k \in 1 .. Len(t) : k # i /\ k # p => v[k] = t[k]
  BY <1>0, <1>4, SwapReorders
<1>6. UpNext[<<t, i>>] = <<v, p>>
  BY <1>0 DEF UpNext
<1>7. HeapedButUp(Weighed(t), i, n) => HeapedButUp(Weighed(v), p, n)
  BY <1>0, <1>1, <1>3, SwapRises
<1> HIDE DEF p, v
<1>8. v \in Seq(Unit) /\ Len(v) = Len(t)
  BY <1>5 DEF Reordered
<1>9. Reordered(s, v)
  BY <1>0, <1>5, ReorderedFurther
<1>10. \A k \in 1 .. Len(s) : k > j => v[k] = s[k]
  BY <1>0, <1>2, <1>3, <1>4, <1>5
<1>11. <<v, p>> \in Rising
  BY <1>4, <1>8 DEF Rising
<1>12. p <= j
  BY <1>0, <1>3, <1>4
<1>13. <<v, p>> \in Risen(s, j, n)
  BY <1>0, <1>7, <1>9, <1>10, <1>11, <1>12 DEF Risen
<1> QED BY <1>4, <1>6, <1>13

\* Rising keeps the entries, leaves those behind j alone, and makes a heap of what is
\* one but for j.
LEMMA UpOrders ==
  ASSUME weight \in [Unit -> Int],
         NEW s \in Seq(Unit), NEW j \in 1 .. Len(s), NEW n \in j .. Len(s)
  PROVE  /\ Reordered(s, Up(s, j))
         /\ \A k \in 1 .. Len(s) : k > j => Up(s, j)[k] = s[k]
         /\ HeapedButUp(Weighed(s), j, n) => Heaped(Weighed(Up(s, j)), n)
<1> DEFINE I == Risen(s, j, n)
           m == [x \in I |-> x[2]]
<1>1. I \in SUBSET Rising /\ m \in [I -> Nat]
  BY DEF Risen, Rising
<1>2. ASSUME NEW x \in I, x \notin UpStops PROVE UpNext[x] \in I /\ m[UpNext[x]] < m[x]
  <2>1. PICK t, i : x = <<t, i>>
    BY <1>1 DEF Rising
  <2> HIDE DEF I
  <2>2. UpNext[x] \in I /\ UpNext[x][2] < x[2]
    BY <1>2, <2>1, RisesOn DEF I
  <2> QED BY <2>2
<1>3. <<s, j>> \in I
  BY ReorderedSame DEF Risen, Rising
<1> HIDE DEF m, I
<1>4. \A x \in I \ UpStops : UpNext[x] \in I /\ m[UpNext[x]] < m[x]
  BY <1>2
<1>5. \A x \in I : \E y \in I \cap UpStops : up[x] = UpValue[y]
  BY <1>1, <1>4, UpIsLoop, LoopEnds
<1>6. PICK y \in I \cap UpStops : up[<<s, j>>] = UpValue[y]
  BY <1>3, <1>5
<1>7. PICK t, i : y = <<t, i>>
  BY <1>1 DEF Rising
<1>8. Up(s, j) = t
  BY <1>1, <1>6, <1>7 DEF UpValue, Up
<1>9. /\ t \in Seq(Unit) /\ i \in 1 .. Len(t)
      /\ Reordered(s, t) /\ i <= j
      /\ \A k \in 1 .. Len(s) : k > j => t[k] = s[k]
      /\ HeapedButUp(Weighed(s), j, n) => HeapedButUp(Weighed(t), i, n)
  BY <1>6, <1>7 DEF I, Risen, Rising
<1>10. i = 1 \/ ~Less(t, i, i \div 2)
  BY <1>6, <1>7 DEF UpStops
<1>11. n \in 0 .. Len(t) /\ i \in 1 .. n
  BY <1>9 DEF Reordered
<1>12. HeapedButUp(Weighed(s), j, n) => Heaped(Weighed(t), n)
  BY <1>9, <1>10, <1>11, RiseEnds
<1> QED BY <1>8, <1>9, <1>12

-----------------------------------------------------------------------------
(* container/heap: sinking.                                                    *)

LEMMA Doubles == \A k, i \in Int : k \div 2 = i <=> k = 2*i \/ k = 2*i + 1
OBVIOUS

\* What down compares an entry with is the heaviest of its children.
LEMMA ChildIsHeaviest ==
  ASSUME weight \in [Unit -> Int],
         NEW t \in Seq(Unit), NEW n \in 0 .. Len(t), NEW i \in 1 .. n, 2*i <= n
  PROVE  /\ Child(t, i, n) \in 2 .. n /\ Child(t, i, n) \div 2 = i /\ Child(t, i, n) > i
         /\ \A k \in 2 .. n : k \div 2 = i => weight[t[k]] <= weight[t[Child(t, i, n)]]
<1>1. Len(t) \in Nat /\ n \in Nat /\ i \in Nat /\ n <= Len(t) /\ \A k \in 1 .. n : t[k] \in Unit
  OBVIOUS
<1>2. \A k \in 1 .. n : weight[t[k]] \in Int
  BY <1>1
<1> DEFINE c == Child(t, i, n)
<1>3. c = 2*i \/ c = 2*i + 1
  BY DEF Child
<1>4. c \in 2 .. n /\ c > i
  <2>1. c = 2*i + 1 => 2*i + 1 <= n
    <3>1. 2*i + 1 # 2*i
      BY <1>1
    <3> QED BY <3>1 DEF Child
  <2> HIDE DEF c
  <2> QED BY <1>1, <1>3, <2>1
<1>5. c \div 2 = i
  <2> HIDE DEF c
  <2>1. c \in Int /\ i \in Int
    BY <1>1, <1>4
  <2> QED BY <1>3, <2>1, Doubles
<1>6. ASSUME NEW k \in 2 .. n, k \div 2 = i PROVE weight[t[k]] <= weight[t[c]]
  <2>1. k = 2*i \/ k = 2*i + 1
    BY <1>1, <1>6, Doubles
  <2>2. k \in 1 .. n /\ c \in 1 .. n
    BY <1>1, <1>4
  <2>3. CASE k = c
    BY <1>2, <2>2, <2>3
  <2>4. CASE k # c /\ k = 2*i
    <3>1. c = 2*i + 1 /\ Less(t, c, k)
      BY <1>3, <2>4 DEF Child
    <3> QED BY <1>2, <2>2, <3>1 DEF Less
  <2>5. CASE k # c /\ k = 2*i + 1
    <3>1. c = 2*i /\ ~Less(t, k, c)
      BY <1>3, <2>5, <1>1, <2>2 DEF Child
    <3> QED BY <1>2, <2>2, <3>1 DEF Less
  <2> QED BY <2>1, <2>3, <2>4, <2>5
<1> QED BY <1>4, <1>5, <1>6

LEMMA SwapSinks ==
  ASSUME weight \in [Unit -> Int],
         NEW t \in Seq(Unit), NEW n \in 0 .. Len(t), NEW i \in 1 .. n, 2*i <= n,
         Less(t, Child(t, i, n), i), HeapedBut(Weighed(t), i, n)
  PROVE  HeapedButDown(Weighed(Swap(t, i, Child(t, i, n))), Child(t, i, n), n)
<1> DEFINE c == Child(t, i, n)
           v == Swap(t, i, c)
           a == Weighed(t)
           b == Weighed(v)
<1>1. Len(t) \in Nat /\ n \in Nat /\ n <= Len(t) /\ i \in 1 .. Len(t)
      /\ \A k \in 1 .. n : k \in 1 .. Len(t)
  OBVIOUS
<1>2. c \in 2 .. n /\ c \div 2 = i
      /\ \A k \in 2 .. n : k \div 2 = i => weight[t[k]] <= weight[t[c]]
  BY ChildIsHeaviest
<1>11. weight[t[c]] > weight[t[i]]
  BY DEF Less
<1> HIDE DEF c
<1>12. c \in 1 .. n /\ c \in 1 .. Len(t)
  BY <1>1, <1>2
<1>3. /\ Reordered(t, v) /\ v[i] = t[c] /\ v[c] = t[i]
      /\ \A k \in 1 .. Len(t) : k # i /\ k # c => v[k] = t[k]
  BY <1>1, <1>12, SwapReorders
<1>4. v \in Seq(Unit) /\ Len(v) = Len(t)
  BY <1>3 DEF Reordered
<1> HIDE DEF v
<1>5. \A k \in 1 .. Len(t) : /\ a[k] \in Int /\ a[k] = weight[t[k]]
                              /\ b[k] \in Int /\ b[k] = weight[v[k]]
  BY <1>4, WeighedInts
<1>8. HeapedBut(a, i, n)
  OBVIOUS
<1> HIDE DEF a, b
<1>6. a[c] > a[i]
  <2>1. a[c] = weight[t[c]] /\ a[i] = weight[t[i]]
    BY <1>1, <1>12, <1>5
  <2> QED BY <1>11, <2>1
<1>7. Exchanged(a, b, i, c, n)
  <2>1. b[i] = a[c] /\ b[c] = a[i]
    BY <1>1, <1>12, <1>3, <1>5
  <2>2. ASSUME NEW k \in 1 .. n, k # i, k # c PROVE b[k] = a[k]
    <3>1. k \in 1 .. Len(t)
      BY <1>1
    <3>2. v[k] = t[k] /\ b[k] = weight[v[k]] /\ a[k] = weight[t[k]]
      BY <1>3, <1>5, <2>2, <3>1
    <3> QED BY <3>2
  <2> QED BY <2>1, <2>2 DEF Exchanged
<1>9. \A k \in 1 .. n : a[k] \in Int /\ b[k] \in Int
  BY <1>1, <1>5
<1>13. \A k \in 2 .. n : k \div 2 = i => a[k] <= a[c]
  <2>1. ASSUME NEW k \in 2 .. n, k \div 2 = i PROVE a[k] <= a[c]
    <3>1. k \in 1 .. n
      BY <1>1
    <3>2. a[k] = weight[t[k]] /\ a[c] = weight[t[c]]
      BY <1>1, <1>5, <1>12, <3>1
    <3> QED BY <1>2, <2>1, <3>2
  <2> QED BY <2>1
<1>10. HeapedButDown(b, c, n)
  BY <1>1, <1>2, <1>6, <1>7, <1>8, <1>9, <1>13, SinkOrders
<1> QED BY <1>10 DEF b, v, c

\* Where sinking stops no child is heavier.
LEMMA SinkEnds ==
  ASSUME weight \in [Unit -> Int],
         NEW t \in Seq(Unit), NEW n \in 0 .. Len(t), NEW i \in 1 .. n,
         2*i > n \/ ~Less(t, Child(t, i, n), i)
  PROVE  /\ HeapedBut(Weighed(t), i, n) => HeapedButUp(Weighed(t), i, n)
         /\ HeapedButDown(Weighed(t), i, n) => Heaped(Weighed(t), n)
<1> DEFINE a == Weighed(t)
<1>1. /\ Len(t) \in Nat /\ n \in Nat /\ i \in Nat /\ n <= Len(t)
      /\ \A k \in 1 .. n : k \in 1 .. Len(t) /\ t[k] \in Unit
  OBVIOUS
<1>2. \A k \in 1 .. n : a[k] \in Int /\ a[k] = weight[t[k]]
  BY <1>1, WeighedInts
<1>3. ASSUME NEW k \in 2 .. n, k \div 2 = i PROVE weight[t[k]] <= weight[t[i]]
  <2>1. 2*i <= n
    BY <1>1, <1>3, Doubles
  <2>2. Child(t, i, n) \in 2 .. n /\ weight[t[k]] <= weight[t[Child(t, i, n)]]
    BY <1>3, <2>1, ChildIsHeaviest
  <2>4. PICK c : c = Child(t, i, n)
    OBVIOUS
  <2>7. ~Less(t, c, i)
    <3>1. ~(2*i > n)
      BY <1>1, <2>1
    <3> QED BY <2>4, <3>1
  <2>3. ~(weight[t[Child(t, i, n)]] > weight[t[i]])
    BY <2>4, <2>7 DEF Less
  <2>5. c \in 1 .. n /\ k \in 1 .. n
    BY <1>1, <2>2, <2>4
  <2>6. weight[t[c]] \in Int /\ weight[t[k]] \in Int /\ weight[t[i]] \in Int
    BY <1>2, <2>5
  <2> QED BY <2>2, <2>3, <2>4, <2>6
<1> HIDE DEF a
<1>4. ASSUME NEW k \in 2 .. n, k \div 2 = i PROVE a[k] <= a[i]
  <2>1. k \in 1 .. n
    BY <1>1
  <2> QED BY <1>2, <1>3, <1>4, <2>1
<1>5. HeapedButDown(a, i, n) => Heaped(a, n)
  BY <1>4 DEF HeapedButDown, Heaped
<1>6. HeapedBut(a, i, n) => HeapedButUp(a, i, n)
  BY <1>4 DEF HeapedBut, HeapedButUp
<1> QED BY <1>5, <1>6 DEF a

DownStops == {x \in Sinking : \/ 2*x[2] > x[3]
                              \/ ~Less(x[1], Child(x[1], x[2], x[3]), x[2])}
DownNext  == [x \in Sinking |->
                IF x \in DownStops THEN x
                ELSE <<Swap(x[1], x[2], Child(x[1], x[2], x[3])), Child(x[1], x[2], x[3]), x[3]>>]
DownValue == [x \in Sinking |-> x[1]]

LEMMA SinksOn ==
  ASSUME weight \in [Unit -> Int],
         NEW t, NEW i, NEW n, <<t, i, n>> \in Sinking, <<t, i, n>> \notin DownStops
  PROVE  /\ t \in Seq(Unit) /\ Len(t) \in Nat /\ i \in 1 .. n /\ n \in 0 .. Len(t) /\ n \in Nat
         /\ 2*i <= n /\ Less(t, Child(t, i, n), i)
         /\ Child(t, i, n) \in 2 .. n /\ Child(t, i, n) > i
         /\ i \in 1 .. Len(t) /\ Child(t, i, n) \in 1 .. Len(t)
         /\ <<Swap(t, i, Child(t, i, n)), Child(t, i, n), n>> \in Sinking
         /\ DownNext[<<t, i, n>>] = <<Swap(t, i, Child(t, i, n)), Child(t, i, n), n>>
<1>1. t \in Seq(Unit) /\ Len(t) \in Nat /\ i \in 1 .. n /\ n \in 0 .. Len(t) /\ n \in Nat
  BY DEF Sinking
<1>2. 2*i <= n /\ Less(t, Child(t, i, n), i)
  BY <1>1 DEF DownStops
<1>3. PICK c : c = Child(t, i, n)
  OBVIOUS
<1>4. c \in 2 .. n /\ c > i
  BY <1>1, <1>2, <1>3, ChildIsHeaviest
<1>5. i \in 1 .. Len(t) /\ c \in 1 .. Len(t) /\ c \in 1 .. n
  BY <1>1, <1>4
<1>6. Swap(t, i, c) \in Seq(Unit) /\ Len(Swap(t, i, c)) = Len(t)
  BY <1>1, <1>5, SwapReorders DEF Reordered
<1>7. <<Swap(t, i, c), c, n>> \in Sinking
  BY <1>1, <1>5, <1>6 DEF Sinking
<1>8. DownNext[<<t, i, n>>] = <<Swap(t, i, c), c, n>>
  BY <1>3 DEF DownNext
<1> QED BY <1>1, <1>2, <1>3, <1>4, <1>5, <1>7, <1>8

LEMMA DownIsLoop ==
  ASSUME weight \in [Unit -> Int]
  PROVE  IsLoop(down, Sinking, DownNext, DownStops, DownValue)
<1>1. DownNext \in [Sinking -> Sinking]
  <2>1. ASSUME NEW x \in Sinking PROVE DownNext[x] \in Sinking
    <3>1. CASE x \in DownStops
      BY <3>1 DEF DownNext
    <3>2. CASE x \notin DownStops
      <4>1. PICK t, i, n : x = <<t, i, n>>
        BY DEF Sinking
      <4> QED BY <3>2, <4>1, SinksOn
    <3> QED BY <3>1, <3>2
  <2>2. DownNext = [x \in Sinking |-> DownNext[x]]
    BY DEF DownNext
  <2> QED BY <2>1, <2>2
<1>2. \A g : \A x \in Sinking :
        (IF x \in DownStops THEN DownValue[x] ELSE g[DownNext[x]]) =
          IF 2*x[2] > x[3] \/ ~Less(x[1], Child(x[1], x[2], x[3]), x[2]) THEN x[1]
          ELSE g[<<Swap(x[1], x[2], Child(x[1], x[2], x[3])), Child(x[1], x[2], x[3]), x[3]>>]
  BY DEF DownStops, DownNext, DownValue
<1>3. PICK g : IsLoop(g, Sinking, DownNext, DownStops, DownValue)
  BY <1>1, LoopExists DEF HasLoop
<1>4. \A f : IsLoop(f, Sinking, DownNext, DownStops, DownValue) <=>
        f = [x \in Sinking |->
               LET s == x[1]
                   i == x[2]
                   n == x[3]
                   c == Child(s, i, n)
               IN  IF 2*i > n \/ ~Less(s, c, i) THEN s ELSE f[<<Swap(s, i, c), c, n>>]]
  <2> TAKE f
  <2>1. [x \in Sinking |-> IF x \in DownStops THEN DownValue[x] ELSE f[DownNext[x]]] =
        [x \in Sinking |->
           LET s == x[1]
               i == x[2]
               n == x[3]
               c == Child(s, i, n)
           IN  IF 2*i > n \/ ~Less(s, c, i) THEN s ELSE f[<<Swap(s, i, c), c, n>>]]
    BY <1>2
  <2> QED BY <2>1 DEF IsLoop
<1>5. down = [x \in Sinking |->
                LET s == x[1]
                    i == x[2]
                    n == x[3]
                    c == Child(s, i, n)
                IN  IF 2*i > n \/ ~Less(s, c, i) THEN s ELSE down[<<Swap(s, i, c), c, n>>]]
  BY <1>3, <1>4, Zenon DEF down
<1> QED BY <1>4, <1>5

\* The states that sinking from i can pass through.
Sunk(s, i, n) ==
  {x \in Sinking :
     /\ x[3] = n
     /\ Reordered(s, x[1])
     /\ \A k \in 1 .. Len(s) : k > n => x[1][k] = s[k]
     /\ \/ x[1] = s /\ x[2] = i
        \/ /\ x[2] > i
           /\ weight[x[1][i]] > weight[s[i]]
           /\ HeapedBut(Weighed(s), i, n) => HeapedButDown(Weighed(x[1]), x[2], n)}

LEMMA SunkOn ==
  ASSUME weight \in [Unit -> Int],
         NEW s \in Seq(Unit), NEW n \in 0 .. Len(s), NEW i \in 1 .. n,
         NEW t, NEW j, <<t, j, n>> \in Sunk(s, i, n), <<t, j, n>> \notin DownStops
  PROVE  DownNext[<<t, j, n>>] \in Sunk(s, i, n) /\ DownNext[<<t, j, n>>][2] > j
<1>1. <<t, j, n>> \in Sinking
  BY DEF Sunk
<1> DEFINE c == Child(t, j, n)
           v == Swap(t, j, c)
<1>2. /\ t \in Seq(Unit) /\ Len(t) \in Nat /\ j \in 1 .. n /\ n \in 0 .. Len(t) /\ n \in Nat
      /\ 2*j <= n /\ Less(t, c, j) /\ c \in 2 .. n /\ c > j
      /\ j \in 1 .. Len(t) /\ c \in 1 .. Len(t)
      /\ <<v, c, n>> \in Sinking
      /\ DownNext[<<t, j, n>>] = <<v, c, n>>
  BY <1>1, SinksOn
<1>3. /\ Reordered(t, v) /\ v[j] = t[c] /\ v[c] = t[j]
      /\ \A k \in 1 .. Len(t) : k # j /\ k # c => v[k] = t[k]
  BY <1>2, SwapReorders
<1>4. /\ Reordered(s, t)
      /\ \A k \in 1 .. Len(s) : k > n => t[k] = s[k]
      /\ \/ t = s /\ j = i
         \/ /\ j > i
            /\ weight[t[i]] > weight[s[i]]
            /\ HeapedBut(Weighed(s), i, n) => HeapedButDown(Weighed(t), j, n)
  BY DEF Sunk
<1>5. Len(t) = Len(s)
  BY <1>4 DEF Reordered
<1>6. Reordered(s, v)
  BY <1>3, <1>4, ReorderedFurther
<1>11. weight[t[c]] > weight[t[j]]
  BY <1>2 DEF Less
<1>7. ASSUME HeapedBut(Weighed(s), i, n) PROVE HeapedButDown(Weighed(v), c, n)
  <2>1. HeapedBut(Weighed(t), j, n)
    <3>1. CASE t = s /\ j = i
      BY <1>7, <3>1
    <3>2. CASE HeapedButDown(Weighed(t), j, n)
      BY <3>2 DEF HeapedButDown, HeapedBut
    <3> QED BY <1>4, <1>7, <3>1, <3>2
  <2> QED BY <1>2, <2>1, SwapSinks
<1> HIDE DEF c, v
<1>12. j \in Int /\ c \in Int /\ n \in Int /\ i \in Int /\ j <= n /\ c <= n /\ c > j /\ i \in 1 .. Len(t)
  <2>1. j \in Int /\ c \in Int /\ n \in Int /\ j <= n /\ c <= n /\ c > j
    BY <1>2
  <2>2. i \in Int /\ i \in 1 .. Len(t)
    BY <1>5
  <2> QED BY <2>1, <2>2
<1>8. ASSUME NEW k \in 1 .. Len(s), k > n PROVE v[k] = s[k]
  <2>1. k # j /\ k # c
    BY <1>8, <1>12
  <2>2. k \in 1 .. Len(t)
    BY <1>5
  <2> QED BY <1>3, <1>4, <1>8, <2>1, <2>2
<1>9. c > i /\ weight[v[i]] > weight[s[i]]
  <2>1. CASE t = s /\ j = i
    <3>1. c > i /\ v[i] = t[c]
      BY <1>2, <1>3, <2>1
    <3> QED BY <1>11, <2>1, <3>1
  <2>2. CASE j > i /\ weight[t[i]] > weight[s[i]]
    <3>1. i # j /\ i # c /\ c > i /\ i \in 1 .. Len(t)
      BY <1>12, <2>2
    <3>2. v[i] = t[i]
      BY <1>3, <3>1
    <3> QED BY <2>2, <3>1, <3>2
  <2> QED BY <1>4, <2>1, <2>2
<1>10. <<v, c, n>> \in Sunk(s, i, n)
  BY <1>2, <1>6, <1>7, <1>8, <1>9 DEF Sunk
<1> QED BY <1>2, <1>10

\* Sinking keeps the entries, leaves those behind n alone, and if it moves anything
\* makes a heap of what is one but for i; if it does not, only i's parent may be lighter.
LEMMA DownOrders ==
  ASSUME weight \in [Unit -> Int],
         NEW s \in Seq(Unit), NEW n \in 0 .. Len(s), NEW i \in 1 .. n
  PROVE  /\ Reordered(s, Down(s, i, n))
         /\ \A k \in 1 .. Len(s) : k > n => Down(s, i, n)[k] = s[k]
         /\ HeapedBut(Weighed(s), i, n) =>
              IF Down(s, i, n) = s THEN HeapedButUp(Weighed(s), i, n)
              ELSE Heaped(Weighed(Down(s, i, n)), n)
<1> DEFINE I == Sunk(s, i, n)
           m == [x \in I |-> n - x[2]]
<1>0. \A x \in I : x \in Sinking /\ x[3] = n /\ x = <<x[1], x[2], n>> /\ x[2] \in 1 .. n
  BY DEF Sunk, Sinking
<1>1. I \in SUBSET Sinking /\ m \in [I -> Nat]
  <2> HIDE DEF I
  <2>1. \A x \in I : n - x[2] \in Nat
    BY <1>0
  <2> QED BY <1>0, <2>1
<1>2. ASSUME NEW x \in I, x \notin DownStops
      PROVE  DownNext[x] \in I /\ m[DownNext[x]] < m[x]
  <2>1. PICK t, j : x = <<t, j, n>>
    BY <1>0
  <2> HIDE DEF I
  <2>2. DownNext[x] \in I /\ DownNext[x][2] > x[2]
    BY <1>2, <2>1, SunkOn DEF I
  <2>3. DownNext[x][2] \in 1 .. n /\ x[2] \in 1 .. n
    BY <1>0, <2>2
  <2> QED BY <2>2, <2>3
<1>3. <<s, i, n>> \in I
  BY ReorderedSame DEF Sunk, Sinking
<1> HIDE DEF m, I
<1>4. \A x \in I \ DownStops : DownNext[x] \in I /\ m[DownNext[x]] < m[x]
  BY <1>2
<1>5. \A x \in I : \E y \in I \cap DownStops : down[x] = DownValue[y]
  BY <1>1, <1>4, DownIsLoop, LoopEnds
<1>6. PICK y \in I \cap DownStops : down[<<s, i, n>>] = DownValue[y]
  BY <1>3, <1>5
<1>7. PICK t, j : y = <<t, j, n>> /\ j \in 1 .. n
  BY <1>0, <1>6
<1>8. Down(s, i, n) = t
  BY <1>1, <1>6, <1>7 DEF DownValue, Down
<1>9. /\ t \in Seq(Unit)
      /\ Reordered(s, t)
      /\ \A k \in 1 .. Len(s) : k > n => t[k] = s[k]
      /\ \/ t = s /\ j = i
         \/ /\ weight[t[i]] > weight[s[i]]
            /\ HeapedBut(Weighed(s), i, n) => HeapedButDown(Weighed(t), j, n)
  BY <1>6, <1>7 DEF I, Sunk, Sinking
<1>10. 2*j > n \/ ~Less(t, Child(t, j, n), j)
  BY <1>6, <1>7 DEF DownStops
<1>11. n \in 0 .. Len(t)
  BY <1>9 DEF Reordered
<1>12. ASSUME HeapedBut(Weighed(s), i, n)
       PROVE  IF t = s THEN HeapedButUp(Weighed(s), i, n) ELSE Heaped(Weighed(t), n)
  <2>1. CASE t = s /\ j = i
    BY <1>7, <1>10, <1>12, <2>1, SinkEnds
  <2>2. CASE weight[t[i]] > weight[s[i]] /\ HeapedButDown(Weighed(t), j, n)
    <3>1. s[i] \in Unit
      OBVIOUS
    <3>2. weight[s[i]] \in Int
      BY <3>1
    <3>3. t # s
      BY <2>2, <3>2
    <3> QED BY <1>7, <1>9, <1>10, <1>11, <2>2, <3>3, SinkEnds
  <2> QED BY <1>9, <1>12, <2>1, <2>2
<1> QED BY <1>8, <1>9, <1>12

-----------------------------------------------------------------------------
(* heap.Remove and heap.Push.                                                  *)

LEMMA Inside == \A n \in Nat \ {0} : n \in 1 .. n /\ \A k \in 1 .. n - 1 : k \in 1 .. n /\ k # n
OBVIOUS

LEMMA FrontOf ==
  ASSUME weight \in [Unit -> Int], NEW t \in Seq(Unit), t # <<>>, IsInjective(t)
  PROVE  /\ Front(t) \in Seq(Unit) /\ Len(Front(t)) = Len(t) - 1 /\ IsInjective(Front(t))
         /\ ToSet(Front(t)) = ToSet(t) \ {t[Len(t)]}
         /\ Heaped(Weighed(t), Len(t) - 1) => Heaped(Weighed(Front(t)), Len(t) - 1)
<1> DEFINE f == Front(t)
<1>1. Len(t) \in Nat \ {0} /\ DOMAIN t = 1 .. Len(t)
  OBVIOUS
<1>2. f \in Seq(Unit) /\ Len(f) = Len(t) - 1 /\ \A k \in 1 .. Len(t) - 1 : f[k] = t[k]
  BY <1>1 DEF Front
<1> HIDE DEF f
<1>3. DOMAIN f = 1 .. Len(t) - 1
  BY <1>1, <1>2
<1>4. IsInjective(f)
  <2>1. \A k, l \in 1 .. Len(t) - 1 : k \in 1 .. Len(t) /\ l \in 1 .. Len(t)
    BY <1>1
  <2> QED BY <1>1, <1>2, <1>3, <2>1 DEF IsInjective
<1>5. ToSet(f) = ToSet(t) \ {t[Len(t)]}
  <2>1. ASSUME NEW x \in ToSet(f) PROVE x \in ToSet(t) /\ x # t[Len(t)]
    <3>1. PICK k \in 1 .. Len(t) - 1 : f[k] = x
      BY <1>3, <2>1 DEF ToSet
    <3>2. k \in 1 .. Len(t) /\ Len(t) \in 1 .. Len(t) /\ k # Len(t)
      BY <1>1, Inside
    <3>3. t[k] = x
      BY <1>2, <3>1
    <3> QED BY <1>1, <3>2, <3>3 DEF ToSet, IsInjective
  <2>2. ASSUME NEW x \in ToSet(t), x # t[Len(t)] PROVE x \in ToSet(f)
    <3>1. PICK k \in 1 .. Len(t) : t[k] = x
      BY <1>1 DEF ToSet
    <3>2. k \in 1 .. Len(t) - 1
      BY <1>1, <2>2, <3>1
    <3> QED BY <1>2, <1>3, <3>1, <3>2 DEF ToSet
  <2> QED BY <2>1, <2>2
<1>6. ASSUME Heaped(Weighed(t), Len(t) - 1) PROVE Heaped(Weighed(f), Len(t) - 1)
  <2> DEFINE a == Weighed(t)
             b == Weighed(f)
  <2>1. \A k \in 1 .. Len(t) - 1 : a[k] = weight[t[k]] /\ b[k] = weight[f[k]] /\ k \in 1 .. Len(t)
    <3>1. \A k \in 1 .. Len(t) - 1 : k \in 1 .. Len(t) /\ k \in 1 .. Len(f)
      <4>1. Len(f) = Len(t) - 1 /\ Len(t) \in Nat
        BY <1>1, <1>2
      <4> QED BY <4>1
    <3> QED BY <1>2, <3>1, WeighedInts
  <2>2. Heaped(a, Len(t) - 1)
    BY <1>6
  <2> HIDE DEF a, b
  <2>3. ASSUME NEW k \in 2 .. Len(t) - 1 PROVE b[k] <= b[k \div 2]
    <3>1. k \in 1 .. Len(t) - 1 /\ k \div 2 \in 1 .. Len(t) - 1
      <4>1. k \in Int /\ Len(t) - 1 \in Int
        BY <1>1
      <4> QED BY <4>1, Half
    <3>2. a[k] <= a[k \div 2]
      BY <2>2 DEF Heaped
    <3>3. \A l \in 1 .. Len(t) - 1 : a[l] = b[l]
      <4>1. ASSUME NEW l \in 1 .. Len(t) - 1 PROVE a[l] = b[l]
        <5>1. f[l] = t[l] /\ a[l] = weight[t[l]] /\ b[l] = weight[f[l]]
          BY <1>2, <2>1
        <5> QED BY <5>1
      <4> QED BY <4>1
    <3> QED BY <3>1, <3>2, <3>3
  <2>4. Heaped(b, Len(t) - 1)
    BY <2>3 DEF Heaped
  <2> QED BY <2>4 DEF b
<1> QED BY <1>2, <1>4, <1>5, <1>6 DEF f

\* With another entry in i's place.
LEMMA SwapLast ==
  ASSUME weight \in [Unit -> Int], NEW s \in Seq(Unit), NEW i \in 1 .. Len(s), i # Len(s),
         Heaped(Weighed(s), Len(s))
  PROVE  HeapedBut(Weighed(Swap(s, i, Len(s))), i, Len(s) - 1)
<1> DEFINE v == Swap(s, i, Len(s))
           a == Weighed(s)
           b == Weighed(v)
           n == Len(s) - 1
<1>1. Len(s) \in Nat /\ i \in Nat /\ n \in Nat /\ n + 1 = Len(s) /\ i \in 1 .. n
      /\ Len(s) \in 1 .. Len(s)
  OBVIOUS
<1>2. /\ Reordered(s, v)
      /\ \A k \in 1 .. Len(s) : k # i /\ k # Len(s) => v[k] = s[k]
  BY <1>1, SwapReorders
<1>3. v \in Seq(Unit) /\ Len(v) = Len(s)
  BY <1>2 DEF Reordered
<1> HIDE DEF v
<1>4. \A k \in 1 .. Len(s) : /\ a[k] \in Int /\ a[k] = weight[s[k]]
                              /\ b[k] \in Int /\ b[k] = weight[v[k]]
  BY <1>3, WeighedInts
<1>5. Heaped(a, Len(s))
  OBVIOUS
<1> HIDE DEF a, b
<1>6. \A k \in 1 .. n : k # i => b[k] = a[k]
  <2>1. ASSUME NEW k \in 1 .. n, k # i PROVE b[k] = a[k]
    <3>1. k \in 1 .. Len(s) /\ k # Len(s)
      <4>1. Len(s) \in Nat /\ k \in 1 .. Len(s) - 1
        OBVIOUS
      <4> QED BY <4>1
    <3>2. v[k] = s[k]
      BY <1>2, <2>1, <3>1
    <3>3. a[k] = weight[s[k]] /\ b[k] = weight[v[k]]
      BY <1>4, <3>1
    <3> QED BY <3>2, <3>3
  <2> QED BY <2>1
<1> HIDE DEF n
<1>7. \A k \in 1 .. n : k \in 1 .. Len(s) /\ a[k] \in Int
  BY <1>1, <1>4
<1>8. \A k \in 2 .. n : k \in 1 .. n /\ k \in 2 .. Len(s) /\ k \div 2 \in 1 .. n /\ a[k] <= a[k \div 2]
  <2>1. ASSUME NEW k \in 2 .. n PROVE k \in 1 .. n /\ k \in 2 .. Len(s) /\ k \div 2 \in 1 .. n
    <3>1. k \in Int /\ n \in Int
      BY <1>1
    <3> QED BY <1>1, <3>1, Half
  <2> QED BY <1>5, <2>1 DEF Heaped
<1>9. \A k \in 2 .. n : k \div 2 # i /\ k # i => b[k] <= b[k \div 2]
  BY <1>6, <1>8
<1>10. ASSUME i >= 2, NEW k \in 2 .. n, k \div 2 = i PROVE b[k] <= b[i \div 2]
  <2>1. i \in 2 .. n
    BY <1>1, <1>10
  <2>2. a[k] <= a[i] /\ a[i] <= a[i \div 2] /\ i \div 2 \in 1 .. n
    BY <1>8, <1>10, <2>1
  <2>3. i \div 2 # i /\ k # i
    <3>1. k \in Int /\ n \in Int /\ i \in Int
      BY <1>1
    <3> QED BY <1>10, <2>1, <3>1, Half
  <2>4. b[k] = a[k] /\ b[i \div 2] = a[i \div 2]
    BY <1>6, <1>8, <2>2, <2>3
  <2> QED BY <1>1, <1>7, <1>8, <2>2, <2>4
<1>11. HeapedBut(b, i, n)
  BY <1>9, <1>10 DEF HeapedBut
<1> QED BY <1>11 DEF b, v, n

\* heap.Remove takes out the entry it is asked for, keeps the others, and leaves a heap.
LEMMA HeapRemoveRemoves ==
  ASSUME weight \in [Unit -> Int],
         NEW s \in Seq(Unit), IsInjective(s), Heaped(Weighed(s), Len(s)), NEW i \in 1 .. Len(s)
  PROVE  /\ HeapRemove(s, i) \in Seq(Unit) /\ IsInjective(HeapRemove(s, i))
         /\ Len(HeapRemove(s, i)) = Len(s) - 1
         /\ ToSet(HeapRemove(s, i)) = ToSet(s) \ {s[i]}
         /\ Heaped(Weighed(HeapRemove(s, i)), Len(HeapRemove(s, i)))
<1>1. Len(s) \in Nat /\ s # <<>> /\ Len(s) \in 1 .. Len(s)
  OBVIOUS
<1>2. CASE i = Len(s)
  <2>1. HeapRemove(s, i) = Front(s)
    BY <1>2 DEF HeapRemove
  <2>2. Heaped(Weighed(s), Len(s) - 1)
    <3>1. \A k \in 2 .. Len(s) - 1 : k \in 2 .. Len(s)
      BY <1>1
    <3> QED BY <3>1 DEF Heaped
  <2>3. PICK f : f = Front(s)
    OBVIOUS
  <2>4. /\ f \in Seq(Unit) /\ Len(f) = Len(s) - 1 /\ IsInjective(f)
        /\ ToSet(f) = ToSet(s) \ {s[Len(s)]}
        /\ Heaped(Weighed(f), Len(s) - 1)
    BY <1>1, <2>2, <2>3, FrontOf
  <2> QED BY <1>2, <2>1, <2>3, <2>4
<1>3. CASE i # Len(s)
  <2> DEFINE n == Len(s) - 1
             t == Swap(s, i, Len(s))
             sunk == Down(t, i, n)
             v == IF sunk = t THEN Up(t, i) ELSE sunk
  <2>1. HeapRemove(s, i) = Front(v)
    BY <1>3 DEF HeapRemove
  <2>2. Reordered(s, t) /\ t[Len(s)] = s[i]
    BY <1>1, SwapReorders
  <2>3. HeapedBut(Weighed(t), i, n)
    BY <1>3, SwapLast
  <2>4. t \in Seq(Unit) /\ Len(t) = Len(s)
    BY <2>2 DEF Reordered
  <2> HIDE DEF t
  <2>5. n \in 0 .. Len(t) /\ i \in 1 .. n /\ i \in 1 .. Len(t) /\ n \in i .. Len(t)
        /\ Len(s) \in 1 .. Len(t) /\ Len(s) > n /\ Len(s) > i
    <3> PICK l : l = Len(s)
      OBVIOUS
    <3>1. l \in Nat /\ i \in 1 .. l /\ i # l /\ Len(t) = l /\ n = l - 1
      BY <1>1, <1>3, <2>4
    <3> HIDE DEF n
    <3>2. i \in 1 .. n /\ n \in 0 .. l /\ i \in 1 .. l /\ n \in i .. l /\ l \in 1 .. l
          /\ l > n /\ l > i
      BY <3>1
    <3> QED BY <3>1, <3>2
  <2> HIDE DEF n
  <2>6. /\ Reordered(t, sunk)
        /\ sunk[Len(s)] = t[Len(s)]
        /\ IF sunk = t THEN HeapedButUp(Weighed(t), i, n) ELSE Heaped(Weighed(sunk), n)
    BY <2>3, <2>4, <2>5, DownOrders
  <2>7. /\ Reordered(t, Up(t, i))
        /\ Up(t, i)[Len(s)] = t[Len(s)]
        /\ HeapedButUp(Weighed(t), i, n) => Heaped(Weighed(Up(t, i)), n)
    BY <2>4, <2>5, UpOrders
  <2> HIDE DEF sunk
  <2>8. Reordered(t, v) /\ v[Len(s)] = t[Len(s)] /\ Heaped(Weighed(v), n)
    BY <2>6, <2>7
  <2> HIDE DEF v
  <2>9. Reordered(s, v)
    BY <2>2, <2>8, ReorderedFurther
  <2>10. v \in Seq(Unit) /\ Len(v) = Len(s) /\ ToSet(v) = ToSet(s) /\ IsInjective(v) /\ v # <<>>
    BY <1>1, <2>9 DEF Reordered
  <2>11. Heaped(Weighed(v), Len(v) - 1)
    BY <2>8, <2>10 DEF n
  <2> QED BY <2>1, <2>2, <2>8, <2>10, <2>11, FrontOf
<1> QED BY <1>2, <1>3

\* heap.Push adds its entry, keeps the others, and leaves a heap.
LEMMA PushAdds ==
  ASSUME weight \in [Unit -> Int],
         NEW s \in Seq(Unit), IsInjective(s), Heaped(Weighed(s), Len(s)),
         NEW u \in Unit, u \notin ToSet(s)
  PROVE  /\ Push(s, u) \in Seq(Unit) /\ IsInjective(Push(s, u))
         /\ ToSet(Push(s, u)) = ToSet(s) \cup {u}
         /\ Heaped(Weighed(Push(s, u)), Len(Push(s, u)))
<1> DEFINE t == Append(s, u)
           n == Len(s) + 1
<1>1. /\ t \in Seq(Unit) /\ Len(t) = n /\ Len(s) \in Nat /\ n \in Nat /\ t[n] = u
      /\ \A k \in 1 .. Len(s) : t[k] = s[k]
      /\ DOMAIN t = 1 .. n /\ DOMAIN s = 1 .. Len(s)
  OBVIOUS
<1> HIDE DEF t
<1>2. \A k \in 1 .. n : k = n \/ k \in 1 .. Len(s)
  BY <1>1
<1>3. ToSet(t) = ToSet(s) \cup {u}
  <2>1. \A x \in ToSet(t) : x \in ToSet(s) \/ x = u
    BY <1>1, <1>2 DEF ToSet
  <2>2. n \in 1 .. n /\ \A k \in 1 .. Len(s) : k \in 1 .. n
    BY <1>1
  <2>3. u \in ToSet(t) /\ \A x \in ToSet(s) : x \in ToSet(t)
    BY <1>1, <2>2 DEF ToSet
  <2> QED BY <2>1, <2>3
<1>4. IsInjective(t)
  <2>1. ASSUME NEW k \in 1 .. n, NEW l \in 1 .. n, t[k] = t[l] PROVE k = l
    <3>1. \A m \in 1 .. Len(s) : s[m] # u
      BY <1>1 DEF ToSet
    <3>2. CASE k = n /\ l # n
      BY <1>1, <1>2, <2>1, <3>1, <3>2
    <3>3. CASE k # n /\ l = n
      BY <1>1, <1>2, <2>1, <3>1, <3>3
    <3>4. CASE k # n /\ l # n
      BY <1>1, <1>2, <2>1, <3>4 DEF IsInjective
    <3> QED BY <3>2, <3>3, <3>4
  <2> QED BY <1>1, <2>1 DEF IsInjective
<1>5. HeapedButUp(Weighed(t), n, n)
  <2> DEFINE a == Weighed(s)
             b == Weighed(t)
  <2>1. \A k \in 1 .. Len(s) : a[k] = weight[s[k]]
    BY WeighedInts
  <2>2. \A k \in 1 .. n : b[k] = weight[t[k]] /\ b[k] \in Int
    BY <1>1, WeighedInts
  <2>3. Heaped(a, Len(s))
    OBVIOUS
  <2> HIDE DEF a, b
  <2>4. \A k \in 1 .. Len(s) : a[k] = b[k]
    <3>1. ASSUME NEW k \in 1 .. Len(s) PROVE a[k] = b[k]
      <4>1. k \in 1 .. n /\ t[k] = s[k]
        BY <1>1
      <4>2. a[k] = weight[s[k]] /\ b[k] = weight[t[k]]
        BY <2>1, <2>2, <4>1
      <4> QED BY <4>1, <4>2
    <3> QED BY <3>1
  <2> HIDE DEF n
  <2>5. ASSUME NEW k \in 2 .. n, k # n PROVE b[k] <= b[k \div 2]
    <3>1. k \in 2 .. Len(s) /\ k \in Int /\ Len(s) \in Int
      BY <1>1, <1>2, <2>5
    <3>2. k \in 1 .. Len(s) /\ k \div 2 \in 1 .. Len(s)
      BY <3>1, Half
    <3>3. a[k] <= a[k \div 2]
      BY <2>3, <3>1 DEF Heaped
    <3> QED BY <2>4, <3>2, <3>3
  <2>6. \A k \in 2 .. n : k \div 2 # n
    <3>1. ASSUME NEW k \in 2 .. n PROVE k \div 2 # n
      <4>1. k \in Int /\ n \in Int /\ k <= n
        BY <1>1
      <4> QED BY <4>1, Half
    <3> QED BY <3>1
  <2>7. HeapedButUp(b, n, n)
    BY <2>5, <2>6 DEF HeapedButUp
  <2> QED BY <2>7 DEF b
<1>6. Push(s, u) = Up(t, n)
  BY DEF Push, t
<1>7. n \in 1 .. Len(t) /\ n \in n .. Len(t)
  BY <1>1
<1>8. Reordered(t, Up(t, n)) /\ Heaped(Weighed(Up(t, n)), n)
  BY <1>1, <1>5, <1>7, UpOrders
<1> QED BY <1>1, <1>3, <1>4, <1>6, <1>8 DEF Reordered

-----------------------------------------------------------------------------
(* MarkFailedCascade's walk of the array.                                      *)

LEMMA HeapRemoveTyped ==
  ASSUME weight \in [Unit -> Int], NEW s \in Seq(Unit), NEW i \in 1 .. Len(s)
  PROVE  HeapRemove(s, i) \in Seq(Unit) /\ Len(HeapRemove(s, i)) = Len(s) - 1
<1>1. Len(s) \in Nat /\ i \in Nat /\ Len(s) # 0 /\ Len(s) \in 1 .. Len(s)
  OBVIOUS
<1>2. ASSUME NEW t \in Seq(Unit), Len(t) = Len(s)
      PROVE  Front(t) \in Seq(Unit) /\ Len(Front(t)) = Len(s) - 1
  BY <1>1, <1>2 DEF Front
<1>3. CASE i = Len(s)
  BY <1>2, <1>3 DEF HeapRemove
<1>4. CASE i # Len(s)
  <2> DEFINE t == Swap(s, i, Len(s))
  <2>1. t \in Seq(Unit) /\ Len(t) = Len(s)
    BY <1>1, SwapReorders DEF Reordered
  <2> HIDE DEF t
  <2>2. i \in 1 .. Len(t) /\ Len(s) - 1 \in 0 .. Len(t) /\ i \in 1 .. Len(s) - 1
        /\ Len(s) - 1 \in i .. Len(t)
    <3> PICK l : l = Len(s)
      OBVIOUS
    <3>1. l \in Nat /\ i \in 1 .. l /\ i # l /\ Len(t) = l
      BY <1>1, <1>4, <2>1
    <3>2. i \in 1 .. l /\ l - 1 \in 0 .. l /\ i \in 1 .. l - 1 /\ l - 1 \in i .. l
      BY <3>1
    <3> QED BY <3>1, <3>2
  <2>3. Reordered(t, Up(t, i)) /\ Reordered(t, Down(t, i, Len(s) - 1))
    BY <2>1, <2>2, UpOrders, DownOrders
  <2>4. HeapRemove(s, i) = Front(Up(t, i)) \/ HeapRemove(s, i) = Front(Down(t, i, Len(s) - 1))
    BY <1>4 DEF HeapRemove, t
  <2> QED BY <1>2, <2>1, <2>3, <2>4 DEF Reordered
<1> QED BY <1>3, <1>4

WalkStops == {y \in Walking : y[2] = 0}
WalkNext  == [y \in Walking |->
                IF y \in WalkStops THEN y
                ELSE <<IF y[1][y[2]] \in y[3] THEN HeapRemove(y[1], y[2]) ELSE y[1], y[2] - 1, y[3]>>]
WalkValue == [y \in Walking |-> y[1]]

LEMMA WalkIsLoop ==
  ASSUME weight \in [Unit -> Int]
  PROVE  IsLoop(walking, Walking, WalkNext, WalkStops, WalkValue)
<1>1. WalkNext \in [Walking -> Walking]
  <2>1. ASSUME NEW y \in Walking PROVE WalkNext[y] \in Walking
    <3>1. CASE y \in WalkStops
      BY <3>1 DEF WalkNext
    <3>2. CASE y \notin WalkStops
      <4>1. PICK s, i, gone : y = <<s, i, gone>>
        BY DEF Walking
      <4>2. /\ s \in Seq(Unit) /\ i \in 1 .. Len(s) /\ i \in Nat /\ Len(s) \in Nat
            /\ gone \in SUBSET Unit
        BY <3>2, <4>1 DEF Walking, WalkStops
      <4> DEFINE v == IF s[i] \in gone THEN HeapRemove(s, i) ELSE s
      <4>3. v \in Seq(Unit) /\ i - 1 <= Len(v) /\ i - 1 \in Nat
        <5>1. v \in Seq(Unit) /\ (Len(v) = Len(s) - 1 \/ Len(v) = Len(s))
          BY <4>2, HeapRemoveTyped
        <5> HIDE DEF v
        <5> QED BY <4>2, <5>1
      <4>4. WalkNext[y] = <<v, i - 1, gone>>
        BY <3>2, <4>1 DEF WalkNext
      <4> HIDE DEF v
      <4> QED BY <4>2, <4>3, <4>4 DEF Walking
    <3> QED BY <3>1, <3>2
  <2>2. WalkNext = [y \in Walking |-> WalkNext[y]]
    BY DEF WalkNext
  <2> QED BY <2>1, <2>2
<1>2. \A g : \A y \in Walking :
        (IF y \in WalkStops THEN WalkValue[y] ELSE g[WalkNext[y]]) =
          IF y[2] = 0 THEN y[1]
          ELSE g[<<IF y[1][y[2]] \in y[3] THEN HeapRemove(y[1], y[2]) ELSE y[1], y[2] - 1, y[3]>>]
  BY DEF WalkStops, WalkNext, WalkValue
<1>3. PICK g : IsLoop(g, Walking, WalkNext, WalkStops, WalkValue)
  BY <1>1, LoopExists DEF HasLoop
<1>4. \A f : IsLoop(f, Walking, WalkNext, WalkStops, WalkValue) <=>
        f = [x \in Walking |->
               LET s == x[1]
                   i == x[2]
                   gone == x[3]
               IN  IF i = 0 THEN s
                   ELSE f[<<IF s[i] \in gone THEN HeapRemove(s, i) ELSE s, i - 1, gone>>]]
  <2> TAKE f
  <2>1. [y \in Walking |-> IF y \in WalkStops THEN WalkValue[y] ELSE f[WalkNext[y]]] =
        [x \in Walking |->
               LET s == x[1]
                   i == x[2]
                   gone == x[3]
               IN  IF i = 0 THEN s
                   ELSE f[<<IF s[i] \in gone THEN HeapRemove(s, i) ELSE s, i - 1, gone>>]]
    BY <1>2
  <2> QED BY <2>1 DEF IsLoop
<1>5. walking = [x \in Walking |->
                   LET s == x[1]
                       i == x[2]
                       gone == x[3]
                   IN  IF i = 0 THEN s
                       ELSE walking[<<IF s[i] \in gone THEN HeapRemove(s, i) ELSE s, i - 1, gone>>]]
  BY <1>3, <1>4, Zenon DEF walking
<1> QED BY <1>4, <1>5

\* A heap in which each unit occurs once.
Orderly(s) == s \in Seq(Unit) /\ IsInjective(s) /\ Heaped(Weighed(s), Len(s))

Walked(s, gone) ==
  {y \in Walking : /\ y[3] = gone
                   /\ Orderly(y[1])
                   /\ ToSet(y[1]) \subseteq ToSet(s) /\ ToSet(s) \ ToSet(y[1]) \subseteq gone}

\* The walk takes out some of what is to go, nothing else, and leaves a heap.
LEMMA WalkOrders ==
  ASSUME weight \in [Unit -> Int], NEW s, Orderly(s), NEW gone \in SUBSET Unit
  PROVE  /\ Orderly(WithoutCascaded(s, gone))
         /\ ToSet(WithoutCascaded(s, gone)) \subseteq ToSet(s)
         /\ ToSet(s) \ ToSet(WithoutCascaded(s, gone)) \subseteq gone
<1> DEFINE I == Walked(s, gone)
           m == [y \in I |-> y[2]]
<1>1. I \in SUBSET Walking /\ m \in [I -> Nat]
  BY DEF Walked, Walking
<1>2. ASSUME NEW y \in I, y \notin WalkStops PROVE WalkNext[y] \in I /\ m[WalkNext[y]] < m[y]
  <2>1. PICK t, i : y = <<t, i, gone>>
    BY DEF Walked, Walking
  <2>2. /\ t \in Seq(Unit) /\ i \in 1 .. Len(t) /\ i \in Nat /\ Len(t) \in Nat
        /\ Orderly(t) /\ ToSet(t) \subseteq ToSet(s) /\ ToSet(s) \ ToSet(t) \subseteq gone
    BY <1>2, <2>1 DEF Walked, Walking, WalkStops
  <2> DEFINE v == IF t[i] \in gone THEN HeapRemove(t, i) ELSE t
  <2>3. WalkNext[y] = <<v, i - 1, gone>>
    BY <1>1, <1>2, <2>1 DEF WalkNext
  <2>4. /\ Orderly(v) /\ (Len(v) = Len(t) - 1 \/ Len(v) = Len(t))
        /\ ToSet(v) \subseteq ToSet(t) /\ ToSet(t) \ ToSet(v) \subseteq gone
    <3>1. CASE t[i] \in gone
      <4> PICK r : r = HeapRemove(t, i)
        OBVIOUS
      <4>1. Orderly(r) /\ Len(r) = Len(t) - 1 /\ ToSet(r) = ToSet(t) \ {t[i]}
        BY <2>2, HeapRemoveRemoves DEF Orderly
      <4> QED BY <3>1, <4>1
    <3>2. CASE t[i] \notin gone
      BY <2>2, <3>2
    <3> QED BY <3>1, <3>2
  <2> HIDE DEF v
  <2>5. v \in Seq(Unit) /\ i - 1 \in Nat /\ i - 1 <= Len(v) /\ i - 1 < i
    BY <2>2, <2>4 DEF Orderly
  <2>6. <<v, i - 1, gone>> \in Walking
    BY <2>5 DEF Walking
  <2>7. WalkNext[y] \in I
    BY <2>2, <2>3, <2>4, <2>6 DEF Walked
  <2> HIDE DEF I
  <2> QED BY <2>1, <2>3, <2>5, <2>7
<1>3. <<s, Len(s), gone>> \in I
  BY DEF Walked, Walking, Orderly
<1> HIDE DEF m, I
<1>4. \A y \in I \ WalkStops : WalkNext[y] \in I /\ m[WalkNext[y]] < m[y]
  BY <1>2
<1>5. \A y \in I : \E z \in I \cap WalkStops : walking[y] = WalkValue[z]
  BY <1>1, <1>4, WalkIsLoop, LoopEnds
<1>6. PICK z \in I \cap WalkStops : walking[<<s, Len(s), gone>>] = WalkValue[z]
  BY <1>3, <1>5
<1>7. WithoutCascaded(s, gone) = z[1]
  BY <1>1, <1>6 DEF WalkValue, WithoutCascaded
<1> QED BY <1>6, <1>7 DEF I, Walked

-----------------------------------------------------------------------------
(* NewDependencyScheduler's pushes.                                            *)

LEMMA HeadAndTail ==
  ASSUME NEW S, NEW q \in Seq(S), q # <<>>
  PROVE  /\ Head(q) \in S /\ Tail(q) \in Seq(S) /\ Len(Tail(q)) = Len(q) - 1
         /\ Len(q) \in Nat \ {0}
         /\ ToSet(q) = {Head(q)} \cup ToSet(Tail(q))
         /\ IsInjective(q) => IsInjective(Tail(q)) /\ Head(q) \notin ToSet(Tail(q))
<1> DEFINE t == Tail(q)
<1>1. Len(q) \in Nat \ {0} /\ t \in Seq(S) /\ Len(t) = Len(q) - 1 /\ Head(q) = q[1] /\ q[1] \in S
  OBVIOUS
<1>2. \A k \in 1 .. Len(q) - 1 : t[k] = q[k + 1]
  OBVIOUS
<1>3. DOMAIN q = 1 .. Len(q) /\ DOMAIN t = 1 .. Len(q) - 1
  BY <1>1
<1> HIDE DEF t
<1> PICK n : n = Len(q)
  OBVIOUS
<1>4. /\ n \in Nat \ {0} /\ 1 \in 1 .. n
      /\ \A k \in 1 .. n - 1 : k + 1 \in 1 .. n /\ k + 1 # 1 /\ k \in Int
      /\ \A k \in 1 .. n : k = 1 \/ (k - 1 \in 1 .. n - 1 /\ (k - 1) + 1 = k)
  BY <1>1
<1>5. ToSet(q) = {q[1]} \cup ToSet(t)
  <2>1. \A x \in ToSet(t) : x \in ToSet(q)
    BY <1>2, <1>3, <1>4 DEF ToSet
  <2>2. q[1] \in ToSet(q)
    BY <1>3, <1>4 DEF ToSet
  <2>3. ASSUME NEW x \in ToSet(q), x # q[1] PROVE x \in ToSet(t)
    <3>1. PICK k \in 1 .. n : q[k] = x
      BY <1>3 DEF ToSet
    <3>2. k - 1 \in 1 .. n - 1 /\ (k - 1) + 1 = k
      BY <1>4, <2>3, <3>1
    <3>3. t[k - 1] = x
      BY <1>2, <3>1, <3>2
    <3> QED BY <1>3, <3>2, <3>3 DEF ToSet
  <2> QED BY <2>1, <2>2, <2>3
<1>6. ASSUME IsInjective(q) PROVE IsInjective(t) /\ q[1] \notin ToSet(t)
  <2>1. \A k, l \in 1 .. n : q[k] = q[l] => k = l
    BY <1>3, <1>6 DEF IsInjective
  <2>2. q[1] \notin ToSet(t)
    BY <1>2, <1>3, <1>4, <2>1 DEF ToSet
  <2>3. ASSUME NEW k \in 1 .. n - 1, NEW l \in 1 .. n - 1, t[k] = t[l] PROVE k = l
    <3>1. k + 1 = l + 1
      BY <1>2, <1>4, <2>1, <2>3
    <3> QED BY <1>4, <3>1
  <2> QED BY <1>3, <2>2, <2>3 DEF IsInjective
<1> QED BY <1>1, <1>5, <1>6 DEF t

Heaping   == Seq(Unit) \X Seq(Unit)
HeapStops == {x \in Heaping : x[2] = <<>>}
HeapNext  == [x \in Heaping |->
                IF x \in HeapStops THEN x ELSE <<Push(x[1], Head(x[2])), Tail(x[2])>>]
HeapValue == [x \in Heaping |-> x[1]]

LEMMA HeapingIsLoop ==
  ASSUME weight \in [Unit -> Int]
  PROVE  IsLoop(heaping, Heaping, HeapNext, HeapStops, HeapValue)
<1>1. HeapNext \in [Heaping -> Heaping]
  <2>1. ASSUME NEW s \in Seq(Unit), NEW u \in Unit PROVE Push(s, u) \in Seq(Unit)
    <3> DEFINE t == Append(s, u)
    <3>1. t \in Seq(Unit) /\ Len(s) + 1 \in 1 .. Len(t) /\ Len(s) + 1 \in Len(s) + 1 .. Len(t)
      OBVIOUS
    <3> HIDE DEF t
    <3>2. Reordered(t, Up(t, Len(s) + 1))
      BY <3>1, UpOrders
    <3> QED BY <3>2 DEF Reordered, Push, t
  <2>2. ASSUME NEW x \in Heaping PROVE HeapNext[x] \in Heaping
    <3>1. CASE x \in HeapStops
      BY <3>1 DEF HeapNext
    <3>2. CASE x \notin HeapStops
      <4>1. x[1] \in Seq(Unit) /\ x[2] \in Seq(Unit) /\ x[2] # <<>>
        BY <3>2 DEF Heaping, HeapStops
      <4>0. Head(x[2]) \in Unit /\ Tail(x[2]) \in Seq(Unit)
        BY <4>1, HeadAndTail
      <4>2. Push(x[1], Head(x[2])) \in Seq(Unit) /\ Tail(x[2]) \in Seq(Unit)
        BY <2>1, <4>0, <4>1
      <4>3. HeapNext[x] = <<Push(x[1], Head(x[2])), Tail(x[2])>>
        BY <3>2 DEF HeapNext
      <4>4. PICK v, t : v = Push(x[1], Head(x[2])) /\ t = Tail(x[2])
        OBVIOUS
      <4>5. v \in Seq(Unit) /\ t \in Seq(Unit) /\ HeapNext[x] = <<v, t>>
        BY <4>2, <4>3, <4>4
      <4> QED BY <4>5 DEF Heaping
    <3> QED BY <3>1, <3>2
  <2>3. HeapNext = [x \in Heaping |-> HeapNext[x]]
    BY DEF HeapNext
  <2> QED BY <2>2, <2>3
<1>2. \A g : \A x \in Heaping :
        (IF x \in HeapStops THEN HeapValue[x] ELSE g[HeapNext[x]]) =
          IF x[2] = <<>> THEN x[1] ELSE g[<<Push(x[1], Head(x[2])), Tail(x[2])>>]
  BY DEF HeapStops, HeapNext, HeapValue
<1>3. PICK g : IsLoop(g, Heaping, HeapNext, HeapStops, HeapValue)
  BY <1>1, LoopExists DEF HasLoop
<1>4. \A f : IsLoop(f, Heaping, HeapNext, HeapStops, HeapValue) <=>
        f = [x \in Seq(Unit) \X Seq(Unit) |->
               IF x[2] = <<>> THEN x[1] ELSE f[<<Push(x[1], Head(x[2])), Tail(x[2])>>]]
  <2> TAKE f
  <2>1. [x \in Heaping |-> IF x \in HeapStops THEN HeapValue[x] ELSE f[HeapNext[x]]] =
        [x \in Heaping |->
               IF x[2] = <<>> THEN x[1] ELSE f[<<Push(x[1], Head(x[2])), Tail(x[2])>>]]
    BY <1>2
  <2> QED BY <2>1 DEF IsLoop, Heaping
<1>5. heaping = [x \in Seq(Unit) \X Seq(Unit) |->
                   IF x[2] = <<>> THEN x[1] ELSE heaping[<<Push(x[1], Head(x[2])), Tail(x[2])>>]]
  BY <1>3, <1>4, Zenon DEF heaping
<1> QED BY <1>4, <1>5

PushedSome(q) ==
  {x \in Heaping : /\ Orderly(x[1]) /\ IsInjective(x[2])
                   /\ ToSet(x[1]) \cap ToSet(x[2]) = {}
                   /\ ToSet(x[1]) \cup ToSet(x[2]) = ToSet(q)}

\* Pushing them one by one makes a heap of the units.
LEMMA HeapingHeaps ==
  ASSUME weight \in [Unit -> Int], NEW q \in Seq(Unit), IsInjective(q)
  PROVE  Orderly(heaping[<<<<>>, q>>]) /\ ToSet(heaping[<<<<>>, q>>]) = ToSet(q)
<1> DEFINE I == PushedSome(q)
           m == [x \in I |-> Len(x[2])]
<1>1. I \in SUBSET Heaping /\ m \in [I -> Nat]
  BY DEF PushedSome, Heaping
<1>2. ASSUME NEW x \in I, x \notin HeapStops PROVE HeapNext[x] \in I /\ m[HeapNext[x]] < m[x]
  <2>1. PICK s, p : x = <<s, p>>
    BY DEF PushedSome, Heaping
  <2>2. /\ s \in Seq(Unit) /\ p \in Seq(Unit) /\ p # <<>>
        /\ Orderly(s) /\ IsInjective(p)
        /\ ToSet(s) \cap ToSet(p) = {} /\ ToSet(s) \cup ToSet(p) = ToSet(q)
    BY <1>2, <2>1 DEF PushedSome, Heaping, HeapStops
  <2>3. PICK u, t, v : u = Head(p) /\ t = Tail(p) /\ v = Push(s, u)
    OBVIOUS
  <2>4. HeapNext[x] = <<v, t>>
    BY <1>1, <1>2, <2>1, <2>3 DEF HeapNext
  <2>5. /\ u \in Unit /\ t \in Seq(Unit) /\ Len(t) = Len(p) - 1 /\ Len(p) \in Nat
        /\ ToSet(p) = {u} \cup ToSet(t)
        /\ IsInjective(t) /\ u \notin ToSet(t)
    BY <2>2, <2>3, HeadAndTail
  <2>6. v \in Seq(Unit) /\ Orderly(v) /\ ToSet(v) = ToSet(s) \cup {u}
    <3>1. u \notin ToSet(s)
      BY <2>2, <2>5
    <3> QED BY <2>2, <2>3, <2>5, <3>1, PushAdds DEF Orderly
  <2>7. <<v, t>> \in Heaping
    BY <2>5, <2>6 DEF Heaping
  <2>8. HeapNext[x] \in I
    BY <2>2, <2>4, <2>5, <2>6, <2>7 DEF PushedSome
  <2> HIDE DEF I
  <2> QED BY <2>1, <2>4, <2>5, <2>8
<1>3. <<<<>>, q>> \in I
  <2>1. <<>> \in Seq(Unit) /\ ToSet(<<>>) = {} /\ IsInjective(<<>>) /\ Len(<<>>) = 0
    BY DEF ToSet, IsInjective
  <2>2. Heaped(Weighed(<<>>), 0)
    BY DEF Heaped
  <2> QED BY <2>1, <2>2 DEF PushedSome, Heaping, Orderly
<1> HIDE DEF m, I
<1>4. \A x \in I \ HeapStops : HeapNext[x] \in I /\ m[HeapNext[x]] < m[x]
  BY <1>2
<1>5. \A x \in I : \E y \in I \cap HeapStops : heaping[x] = HeapValue[y]
  BY <1>1, <1>4, HeapingIsLoop, LoopEnds
<1>6. PICK y \in I \cap HeapStops : heaping[<<<<>>, q>>] = HeapValue[y]
  BY <1>3, <1>5
<1>7. heaping[<<<<>>, q>>] = y[1] /\ y[2] = <<>>
  BY <1>1, <1>6 DEF HeapValue, HeapStops
<1>8. ToSet(<<>>) = {}
  BY DEF ToSet
<1> QED BY <1>6, <1>7, <1>8 DEF I, PushedSome

-----------------------------------------------------------------------------
(* ensureBlocks.                                                               *)

Blocking    == Unit \X (Nat \ {0}) \X Seq(Unit)
BlockStops  == {x \in Blocking : x[2] > Len(work)}
Found(u, i, found) == IF u \in depsOf[work[i]] THEN Append(found, work[i]) ELSE found
BlockNext   == [x \in Blocking |->
                  IF x \in BlockStops THEN x ELSE <<x[1], x[2] + 1, Found(x[1], x[2], x[3])>>]
BlockValue  == [x \in Blocking |-> x[3]]

LEMMA BlockingIsLoop ==
  ASSUME work \in Seq(Unit)
  PROVE  IsLoop(blocking, Blocking, BlockNext, BlockStops, BlockValue)
<1>1. BlockNext \in [Blocking -> Blocking]
  <2>1. ASSUME NEW x \in Blocking PROVE BlockNext[x] \in Blocking
    <3>1. CASE x \in BlockStops
      BY <3>1 DEF BlockNext
    <3>2. CASE x \notin BlockStops
      <4>1. PICK u, i, found : x = <<u, i, found>>
        BY DEF Blocking
      <4>2. u \in Unit /\ i \in Nat \ {0} /\ found \in Seq(Unit) /\ i \in 1 .. Len(work)
        BY <3>2, <4>1 DEF Blocking, BlockStops
      <4>3. work[i] \in Unit
        BY <4>2
      <4>4. PICK v : v = Found(u, i, found)
        OBVIOUS
      <4>5. v \in Seq(Unit)
        BY <4>2, <4>3, <4>4 DEF Found
      <4>6. BlockNext[x] = <<u, i + 1, v>>
        BY <3>2, <4>1, <4>4 DEF BlockNext
      <4> QED BY <4>2, <4>5, <4>6 DEF Blocking
    <3> QED BY <3>1, <3>2
  <2>2. BlockNext = [x \in Blocking |-> BlockNext[x]]
    BY DEF BlockNext
  <2> QED BY <2>1, <2>2
<1>2. \A g : \A x \in Blocking :
        (IF x \in BlockStops THEN BlockValue[x] ELSE g[BlockNext[x]]) =
          IF x[2] > Len(work) THEN x[3]
          ELSE g[<<x[1], x[2] + 1,
                   IF x[1] \in depsOf[work[x[2]]] THEN Append(x[3], work[x[2]]) ELSE x[3]>>]
  BY DEF BlockStops, BlockNext, BlockValue, Found
<1>3. PICK g : IsLoop(g, Blocking, BlockNext, BlockStops, BlockValue)
  BY <1>1, LoopExists DEF HasLoop
<1>4. \A f : IsLoop(f, Blocking, BlockNext, BlockStops, BlockValue) <=>
        f = [x \in Unit \X (Nat \ {0}) \X Seq(Unit) |->
               LET u == x[1]
                   i == x[2]
                   found == x[3]
               IN  IF i > Len(work) THEN found
                   ELSE f[<<u, i + 1, IF u \in depsOf[work[i]] THEN Append(found, work[i]) ELSE found>>]]
  <2> TAKE f
  <2>1. [x \in Blocking |-> IF x \in BlockStops THEN BlockValue[x] ELSE f[BlockNext[x]]] =
        [x \in Blocking |->
               LET u == x[1]
                   i == x[2]
                   found == x[3]
               IN  IF i > Len(work) THEN found
                   ELSE f[<<u, i + 1, IF u \in depsOf[work[i]] THEN Append(found, work[i]) ELSE found>>]]
    BY <1>2
  <2> QED BY <2>1 DEF IsLoop, Blocking
<1>5. blocking =
        [x \in Unit \X (Nat \ {0}) \X Seq(Unit) |->
               LET u == x[1]
                   i == x[2]
                   found == x[3]
               IN  IF i > Len(work) THEN found
                   ELSE blocking[<<u, i + 1, IF u \in depsOf[work[i]] THEN Append(found, work[i]) ELSE found>>]]
  BY <1>3, <1>4, Zenon DEF blocking
<1> QED BY <1>4, <1>5

\* The dependents of u among the first units of the slice.
FoundFirst(u) ==
  {x \in Blocking : /\ x[1] = u /\ x[2] <= Len(work) + 1
                    /\ Len(x[3]) < x[2]
                    /\ ToSet(x[3]) = {v \in BlockedBy(u) : \E k \in 1 .. x[2] - 1 : work[k] = v}}

LEMMA AppendAdds ==
  ASSUME NEW S, NEW s \in Seq(S), NEW e \in S
  PROVE  /\ Append(s, e) \in Seq(S) /\ Len(Append(s, e)) = Len(s) + 1
         /\ ToSet(Append(s, e)) = ToSet(s) \cup {e}
<1> DEFINE t == Append(s, e)
           n == Len(s) + 1
<1>1. /\ t \in Seq(S) /\ Len(t) = n /\ Len(s) \in Nat /\ n \in Nat /\ t[n] = e
      /\ \A k \in 1 .. Len(s) : t[k] = s[k]
      /\ DOMAIN t = 1 .. n /\ DOMAIN s = 1 .. Len(s)
  OBVIOUS
<1> HIDE DEF t
<1>2. \A k \in 1 .. n : k = n \/ k \in 1 .. Len(s)
  BY <1>1
<1>3. \A x \in ToSet(t) : x \in ToSet(s) \/ x = e
  BY <1>1, <1>2 DEF ToSet
<1>4. n \in 1 .. n /\ \A k \in 1 .. Len(s) : k \in 1 .. n
  BY <1>1
<1>5. e \in ToSet(t) /\ \A x \in ToSet(s) : x \in ToSet(t)
  BY <1>1, <1>4 DEF ToSet
<1> QED BY <1>1, <1>3, <1>5 DEF t

\* The reverse map has the dependents of u, none of them twice over the slice's length.
LEMMA BlocksAreDependents ==
  ASSUME work \in Seq(Unit), ToSet(work) = Unit, NEW u \in Unit
  PROVE  /\ Blocks(u) \in Seq(Unit) /\ Len(Blocks(u)) <= Len(work)
         /\ ToSet(Blocks(u)) = BlockedBy(u)
<1> DEFINE I == FoundFirst(u)
           m == [x \in I |-> Len(work) + 1 - x[2]]
<1>0. Len(work) \in Nat /\ DOMAIN work = 1 .. Len(work)
  OBVIOUS
<1>1. I \in SUBSET Blocking /\ m \in [I -> Nat]
  <2>1. \A x \in I : x[2] \in Nat /\ x[2] <= Len(work) + 1
    BY DEF FoundFirst, Blocking
  <2>2. \A x \in I : Len(work) + 1 - x[2] \in Nat
    BY <1>0, <2>1
  <2> QED BY <2>2 DEF FoundFirst
<1>2. ASSUME NEW x \in I, x \notin BlockStops PROVE BlockNext[x] \in I /\ m[BlockNext[x]] < m[x]
  <2>1. PICK i, found : x = <<u, i, found>>
    BY DEF FoundFirst, Blocking
  <2>2. /\ i \in Nat \ {0} /\ found \in Seq(Unit) /\ i \in 1 .. Len(work)
        /\ Len(found) < i /\ Len(found) \in Nat
        /\ ToSet(found) = {v \in BlockedBy(u) : \E k \in 1 .. i - 1 : work[k] = v}
    BY <1>2, <2>1 DEF FoundFirst, Blocking, BlockStops
  <2>3. work[i] \in Unit
    BY <2>2
  <2>4. PICK v : v = Found(u, i, found)
    OBVIOUS
  <2>5. BlockNext[x] = <<u, i + 1, v>>
    BY <1>1, <1>2, <2>1, <2>4 DEF BlockNext
  <2>6. v \in Seq(Unit) /\ Len(v) < i + 1
        /\ ToSet(v) = ToSet(found) \cup (IF u \in depsOf[work[i]] THEN {work[i]} ELSE {})
    <3>1. CASE u \in depsOf[work[i]]
      BY <2>2, <2>3, <2>4, <3>1, AppendAdds DEF Found
    <3>2. CASE u \notin depsOf[work[i]]
      BY <2>2, <2>4, <3>2 DEF Found
    <3> QED BY <3>1, <3>2
  <2>7. \A k : k \in 1 .. (i + 1) - 1 <=> k \in 1 .. i - 1 \/ k = i
    BY <2>2
  <2>8. work[i] \in BlockedBy(u) <=> u \in depsOf[work[i]]
    BY <2>3 DEF BlockedBy
  <2>9. ToSet(v) = {w \in BlockedBy(u) : \E k \in 1 .. (i + 1) - 1 : work[k] = w}
    BY <2>2, <2>6, <2>7, <2>8
  <2>10. i + 1 \in Nat \ {0} /\ i + 1 <= Len(work) + 1
    BY <1>0, <2>2
  <2>11. <<u, i + 1, v>> \in Blocking
    BY <2>6, <2>10 DEF Blocking
  <2>12. BlockNext[x] \in I
    BY <2>5, <2>6, <2>9, <2>10, <2>11 DEF FoundFirst
  <2>13. Len(work) + 1 - (i + 1) < Len(work) + 1 - i
    BY <1>0, <2>2
  <2> HIDE DEF I
  <2> QED BY <2>1, <2>5, <2>12, <2>13
<1>3. <<u, 1, <<>>>> \in I
  <2>1. <<>> \in Seq(Unit) /\ ToSet(<<>>) = {} /\ Len(<<>>) = 0 /\ 1 .. 1 - 1 = {}
    BY DEF ToSet
  <2>2. <<u, 1, <<>>>> \in Blocking
    <3>1. 1 \in Nat \ {0}
      OBVIOUS
    <3>2. \A e \in Seq(Unit) : <<u, 1, e>> \in Blocking
      BY <3>1 DEF Blocking
    <3> QED BY <2>1, <3>2
  <2>3. 1 <= Len(work) + 1 /\ Len(<<>>) < 1
    BY <1>0, <2>1
  <2>4. ToSet(<<>>) = {v \in BlockedBy(u) : \E k \in 1 .. 1 - 1 : work[k] = v}
    BY <2>1
  <2> QED BY <2>2, <2>3, <2>4 DEF FoundFirst
<1> HIDE DEF m, I
<1>4. \A x \in I \ BlockStops : BlockNext[x] \in I /\ m[BlockNext[x]] < m[x]
  BY <1>2
<1>5. \A x \in I : \E y \in I \cap BlockStops : blocking[x] = BlockValue[y]
  BY <1>1, <1>4, BlockingIsLoop, LoopEnds
<1>6. PICK y \in I \cap BlockStops : blocking[<<u, 1, <<>>>>] = BlockValue[y]
  BY <1>3, <1>5
<1>7. PICK i, found : y = <<u, i, found>>
  BY <1>6 DEF I, FoundFirst, Blocking
<1>8. Blocks(u) = found
  BY <1>1, <1>6, <1>7 DEF BlockValue, Blocks
<1>9. /\ i \in Nat /\ i = Len(work) + 1 /\ found \in Seq(Unit) /\ Len(found) < i
      /\ ToSet(found) = {v \in BlockedBy(u) : \E k \in 1 .. i - 1 : work[k] = v}
  BY <1>0, <1>6, <1>7 DEF I, FoundFirst, Blocking, BlockStops
<1>10. i - 1 = Len(work)
  BY <1>0, <1>9
<1>11. \A v \in BlockedBy(u) : \E k \in 1 .. i - 1 : work[k] = v
  BY <1>0, <1>10 DEF BlockedBy, ToSet
<1>12. Len(found) <= Len(work)
  BY <1>0, <1>9
<1> QED BY <1>8, <1>9, <1>11, <1>12

-----------------------------------------------------------------------------
(* cascadeFailRecursive.                                                       *)

\* What the cascade marks holds every dependent of what it marks, and whatever does
\* so holds what the cascade marks.
LEMMA CascadeIsLeast ==
  ASSUME NEW u
  PROVE  /\ CascadeFail(u) \subseteq Unit
         /\ ClosedUnderCascade(CascadeFail(u), u)
         /\ \A S \in SUBSET Unit : ClosedUnderCascade(S, u) => CascadeFail(u) \subseteq S
<1>1. \A S \in SUBSET Unit : ClosedUnderCascade(S, u) => CascadeFail(u) \subseteq S
  BY DEF CascadeFail
<1>2. ASSUME NEW v \in Unit \ (failed \cup {u}), depsOf[v] \cap (CascadeFail(u) \cup {u}) # {}
      PROVE  v \in CascadeFail(u)
  <2>1. ASSUME NEW S \in SUBSET Unit, ClosedUnderCascade(S, u) PROVE v \in S
    <3>1. depsOf[v] \cap (S \cup {u}) # {}
      BY <1>1, <1>2, <2>1
    <3> QED BY <2>1, <3>1 DEF ClosedUnderCascade
  <2> QED BY <2>1 DEF CascadeFail
<1>3. ClosedUnderCascade(CascadeFail(u), u)
  BY <1>2 DEF ClosedUnderCascade
<1> QED BY <1>1, <1>3 DEF CascadeFail

\* It marks none that had failed before, nor u itself, and each for a dependency that
\* it marked or for u.
LEMMA CascadeHasReason ==
  ASSUME NEW u
  PROVE  /\ CascadeFail(u) \cap (failed \cup {u}) = {}
         /\ \A v \in CascadeFail(u) : depsOf[v] \cap (CascadeFail(u) \cup {u}) # {}
<1> DEFINE S == {v \in CascadeFail(u) \ (failed \cup {u}) :
                   depsOf[v] \cap (CascadeFail(u) \cup {u}) # {}}
<1>1. S \in SUBSET Unit
  BY CascadeIsLeast
<1>2. ASSUME NEW v \in Unit \ (failed \cup {u}), depsOf[v] \cap (S \cup {u}) # {}
      PROVE  v \in S
  <2>1. depsOf[v] \cap (CascadeFail(u) \cup {u}) # {}
    BY <1>2
  <2>2. v \in CascadeFail(u)
    BY <2>1, CascadeIsLeast DEF ClosedUnderCascade
  <2> QED BY <2>1, <2>2
<1>3. ClosedUnderCascade(S, u)
  <2> HIDE DEF S
  <2> QED BY <1>2 DEF ClosedUnderCascade
<1>4. CascadeFail(u) \subseteq S
  <2> HIDE DEF S
  <2> QED BY <1>1, <1>3, CascadeIsLeast
<1> QED BY <1>4

Cascading == (SUBSET Unit) \X Seq(Unit) \X Seq(Unit)
CascStops == {x \in Cascading : x[3] = <<>>}
MarkNext(marked, list, todo) ==
  IF Head(todo) \in marked THEN <<marked, list, Tail(todo)>>
  ELSE <<marked \cup {Head(todo)}, Append(list, Head(todo)), Blocks(Head(todo)) \o Tail(todo)>>
CascNext  == [x \in Cascading |-> IF x \in CascStops THEN x ELSE MarkNext(x[1], x[2], x[3])]
CascValue == [x \in Cascading |-> [failed |-> x[1], list |-> x[2]]]

LEMMA Concatenated ==
  ASSUME NEW S, NEW s \in Seq(S), NEW t \in Seq(S)
  PROVE  /\ s \o t \in Seq(S) /\ Len(s \o t) = Len(s) + Len(t)
         /\ ToSet(s \o t) = ToSet(s) \cup ToSet(t)
<1> DEFINE v == s \o t
<1> PICK m, n : m = Len(s) /\ n = Len(t)
  OBVIOUS
<1>1. /\ v \in Seq(S) /\ Len(v) = m + n /\ m \in Nat /\ n \in Nat
      /\ \A k \in 1 .. m + n : v[k] = IF k <= m THEN s[k] ELSE t[k - m]
      /\ DOMAIN s = 1 .. m /\ DOMAIN t = 1 .. n
  OBVIOUS
<1>2. DOMAIN v = 1 .. m + n
  BY <1>1
<1> HIDE DEF v
<1>3. ASSUME NEW x \in ToSet(v) PROVE x \in ToSet(s) \cup ToSet(t)
  <2>1. PICK k \in 1 .. m + n : v[k] = x
    BY <1>2 DEF ToSet
  <2>2. CASE k <= m
    <3>1. k \in 1 .. m /\ s[k] = x
      BY <1>1, <2>1, <2>2
    <3> QED BY <1>1, <3>1 DEF ToSet
  <2>3. CASE ~(k <= m)
    <3>1. k - m \in 1 .. n /\ t[k - m] = x
      BY <1>1, <2>1, <2>3
    <3> QED BY <1>1, <3>1 DEF ToSet
  <2> QED BY <2>2, <2>3
<1>4. ASSUME NEW x \in ToSet(s) PROVE x \in ToSet(v)
  <2>1. PICK k \in 1 .. m : s[k] = x
    BY <1>1 DEF ToSet
  <2>2. k \in 1 .. m + n /\ k <= m
    BY <1>1
  <2>3. v[k] = x
    BY <1>1, <2>1, <2>2
  <2> QED BY <1>2, <2>2, <2>3 DEF ToSet
<1>5. ASSUME NEW x \in ToSet(t) PROVE x \in ToSet(v)
  <2>1. PICK k \in 1 .. n : t[k] = x
    BY <1>1 DEF ToSet
  <2>2. k + m \in 1 .. m + n /\ ~(k + m <= m) /\ (k + m) - m = k
    BY <1>1
  <2>3. v[k + m] = x
    BY <1>1, <2>1, <2>2
  <2> QED BY <1>2, <2>2, <2>3 DEF ToSet
<1> QED BY <1>1, <1>3, <1>4, <1>5 DEF v

\* The slice has finitely many units.
LEMMA UnitIsFinite ==
  ASSUME work \in Seq(Unit), ToSet(work) = Unit
  PROVE  IsFiniteSet(Unit)
<1>1. work \in Surjection(1 .. Len(work), Unit)
  BY DEF Surjection, ToSet
<1>2. IsFiniteSet(1 .. Len(work))
  BY FS_Interval
<1> QED BY <1>1, <1>2, FS_Surjection

LEMMA CascadingIsLoop ==
  ASSUME work \in Seq(Unit), ToSet(work) = Unit
  PROVE  IsLoop(cascading, Cascading, CascNext, CascStops, CascValue)
<1>1. CascNext \in [Cascading -> Cascading]
  <2>1. ASSUME NEW x \in Cascading PROVE CascNext[x] \in Cascading
    <3>1. CASE x \in CascStops
      BY <3>1 DEF CascNext
    <3>2. CASE x \notin CascStops
      <4>1. PICK marked, list, todo : x = <<marked, list, todo>>
        BY DEF Cascading
      <4>2. marked \in SUBSET Unit /\ list \in Seq(Unit) /\ todo \in Seq(Unit) /\ todo # <<>>
        BY <3>2, <4>1 DEF Cascading, CascStops
      <4>3. PICK v, rest, b : v = Head(todo) /\ rest = Tail(todo) /\ b = Blocks(v)
        OBVIOUS
      <4>4. v \in Unit /\ rest \in Seq(Unit)
        BY <4>2, <4>3, HeadAndTail
      <4>5. b \in Seq(Unit)
        BY <4>3, <4>4, BlocksAreDependents
      <4>6. Append(list, v) \in Seq(Unit) /\ b \o rest \in Seq(Unit)
        BY <4>2, <4>4, <4>5
      <4>7. \/ CascNext[x] = <<marked, list, rest>>
            \/ CascNext[x] = <<marked \cup {v}, Append(list, v), b \o rest>>
        BY <3>2, <4>1, <4>3 DEF CascNext, MarkNext
      <4>8. marked \cup {v} \in SUBSET Unit
        BY <4>2, <4>4
      <4>9. \A a, c, d : a \in SUBSET Unit /\ c \in Seq(Unit) /\ d \in Seq(Unit) => <<a, c, d>> \in Cascading
        BY DEF Cascading
      <4> QED BY <4>2, <4>4, <4>6, <4>7, <4>8, <4>9
    <3> QED BY <3>1, <3>2
  <2>2. CascNext = [x \in Cascading |-> CascNext[x]]
    BY DEF CascNext
  <2> QED BY <2>1, <2>2
<1>2. \A g : \A x \in Cascading :
        (IF x \in CascStops THEN CascValue[x] ELSE g[CascNext[x]]) =
          IF x[3] = <<>> THEN [failed |-> x[1], list |-> x[2]]
          ELSE IF Head(x[3]) \in x[1] THEN g[<<x[1], x[2], Tail(x[3])>>]
          ELSE g[<<x[1] \cup {Head(x[3])}, Append(x[2], Head(x[3])),
                   Blocks(Head(x[3])) \o Tail(x[3])>>]
  BY DEF CascStops, CascNext, CascValue, MarkNext
<1>3. PICK g : IsLoop(g, Cascading, CascNext, CascStops, CascValue)
  BY <1>1, LoopExists DEF HasLoop
<1>4. \A f : IsLoop(f, Cascading, CascNext, CascStops, CascValue) <=>
        f = [x \in (SUBSET Unit) \X Seq(Unit) \X Seq(Unit) |->
               LET marked == x[1]
                   list == x[2]
                   todo == x[3]
                   v == Head(todo)
               IN  IF todo = <<>> THEN [failed |-> marked, list |-> list]
                   ELSE IF v \in marked THEN f[<<marked, list, Tail(todo)>>]
                   ELSE f[<<marked \cup {v}, Append(list, v), Blocks(v) \o Tail(todo)>>]]
  <2> TAKE f
  <2> DEFINE A(x) == IF x \in CascStops THEN CascValue[x] ELSE f[CascNext[x]]
             B(x) == LET marked == x[1]
                         list == x[2]
                         todo == x[3]
                         v == Head(todo)
                     IN  IF todo = <<>> THEN [failed |-> marked, list |-> list]
                         ELSE IF v \in marked THEN f[<<marked, list, Tail(todo)>>]
                         ELSE f[<<marked \cup {v}, Append(list, v), Blocks(v) \o Tail(todo)>>]
  <2>1. [x \in Cascading |-> A(x)] = [x \in Cascading |-> B(x)]
    <3>1. ASSUME NEW x \in Cascading PROVE A(x) = B(x)
      BY <1>2, Zenon
    <3> HIDE DEF A, B
    <3> QED BY <3>1
  <2> QED BY <2>1 DEF IsLoop, Cascading
<1>5. cascading =
        [x \in (SUBSET Unit) \X Seq(Unit) \X Seq(Unit) |->
               LET marked == x[1]
                   list == x[2]
                   todo == x[3]
                   v == Head(todo)
               IN  IF todo = <<>> THEN [failed |-> marked, list |-> list]
                   ELSE IF v \in marked THEN cascading[<<marked, list, Tail(todo)>>]
                   ELSE cascading[<<marked \cup {v}, Append(list, v), Blocks(v) \o Tail(todo)>>]]
  BY <1>3, <1>4, Zenon DEF cascading
<1> QED BY <1>4, <1>5

\* A cascade from u under way: what it has marked is in its list and fails with u; what
\* is still to be looked at fails with u or failed before; no dependent is overlooked.
Cascaded(u) ==
  {x \in Cascading :
     /\ failed \cup {u} \subseteq x[1]
     /\ x[1] \subseteq failed \cup {u} \cup ToSet(x[2])
     /\ ToSet(x[2]) \subseteq x[1]
     /\ ToSet(x[2]) \subseteq CascadeFail(u)
     /\ ToSet(x[3]) \subseteq CascadeFail(u) \cup failed \cup {u}
     /\ \A w \in ToSet(x[2]) \cup {u} : BlockedBy(w) \subseteq x[1] \cup ToSet(x[3])}

LEMMA BlockedFail ==
  ASSUME NEW u \in Unit, NEW w \in CascadeFail(u) \cup {u}
  PROVE  BlockedBy(w) \subseteq CascadeFail(u) \cup failed \cup {u}
<1>1. ASSUME NEW d \in BlockedBy(w), d \notin failed \cup {u} PROVE d \in CascadeFail(u)
  <2>1. d \in Unit /\ w \in depsOf[d]
    BY DEF BlockedBy
  <2>2. depsOf[d] \cap (CascadeFail(u) \cup {u}) # {}
    BY <2>1
  <2> QED BY <1>1, <2>1, <2>2, CascadeIsLeast DEF ClosedUnderCascade
<1> QED BY <1>1

\* How many more calls and looks a cascade can make.
StepsLeft(marked, todo) == Cardinality(Unit \ marked) * (Len(work) + 1) + Len(todo)

LEMMA StepsLeftNat ==
  ASSUME work \in Seq(Unit), ToSet(work) = Unit, NEW marked \in SUBSET Unit, NEW todo \in Seq(Unit)
  PROVE  StepsLeft(marked, todo) \in Nat
<1>1. IsFiniteSet(Unit \ marked)
  BY UnitIsFinite, FS_Difference
<1>2. Cardinality(Unit \ marked) \in Nat /\ Len(work) + 1 \in Nat /\ Len(todo) \in Nat
  BY <1>1, FS_CardinalityType
<1>3. \A c, l, t \in Nat : c * l + t \in Nat
  OBVIOUS
<1> QED BY <1>2, <1>3 DEF StepsLeft

LEMMA FewerStepsLeft ==
  ASSUME work \in Seq(Unit), ToSet(work) = Unit,
         NEW marked \in SUBSET Unit, NEW todo \in Seq(Unit), NEW v \in Unit \ marked,
         NEW longer \in Seq(Unit), Len(longer) <= Len(work) + Len(todo) - 1, Len(todo) > 0
  PROVE  StepsLeft(marked \cup {v}, longer) < StepsLeft(marked, todo)
<1> PICK c, l : c = Cardinality(Unit \ marked) /\ l = Len(work)
  OBVIOUS
<1>1. IsFiniteSet(Unit \ marked)
  BY UnitIsFinite, FS_Difference
<1>2. Unit \ (marked \cup {v}) = (Unit \ marked) \ {v} /\ v \in Unit \ marked
  OBVIOUS
<1>3. Cardinality(Unit \ (marked \cup {v})) = c - 1 /\ c \in Nat
  <2> PICK S, T : S = Unit \ marked /\ T = S \ {v}
    OBVIOUS
  <2>1. IsFiniteSet(S) /\ v \in S /\ T = Unit \ (marked \cup {v}) /\ c = Cardinality(S)
    BY <1>1, <1>2
  <2>2. Cardinality(T) = Cardinality(S) - 1 /\ Cardinality(S) \in Nat
    <3>1. Cardinality(S \ {v}) = IF v \in S THEN Cardinality(S) - 1 ELSE Cardinality(S)
      BY <2>1, FS_RemoveElement, Zenon
    <3>2. Cardinality(S) \in Nat
      BY <2>1, FS_CardinalityType
    <3> QED BY <2>1, <3>1, <3>2
  <2> QED BY <2>1, <2>2
<1>4. l \in Nat /\ Len(longer) \in Nat /\ Len(todo) \in Nat /\ Len(longer) <= l + Len(todo) - 1
  OBVIOUS
<1>5. \A n, m, p, q \in Int : p <= m + q - 1 => (n - 1) * (m + 1) + p < n * (m + 1) + q
  <2>1. \A n, m \in Int : (n - 1) * (m + 1) = n * (m + 1) - (m + 1)
    OBVIOUS
  <2>2. \A n, m \in Int : n * (m + 1) \in Int
    OBVIOUS
  <2> QED BY <2>1, <2>2
<1>6. (c - 1) * (l + 1) + Len(longer) < c * (l + 1) + Len(todo)
  BY <1>3, <1>4, <1>5
<1> QED BY <1>3, <1>6 DEF StepsLeft

LEMMA CascadesOn ==
  ASSUME work \in Seq(Unit), ToSet(work) = Unit, NEW u \in Unit,
         NEW marked, NEW list, NEW todo, <<marked, list, todo>> \in Cascaded(u), todo # <<>>
  PROVE  /\ CascNext[<<marked, list, todo>>] \in Cascaded(u)
         /\ StepsLeft(CascNext[<<marked, list, todo>>][1], CascNext[<<marked, list, todo>>][3])
              < StepsLeft(marked, todo)
<1>1. /\ marked \in SUBSET Unit /\ list \in Seq(Unit) /\ todo \in Seq(Unit)
      /\ <<marked, list, todo>> \in Cascading
      /\ failed \cup {u} \subseteq marked
      /\ marked \subseteq failed \cup {u} \cup ToSet(list)
      /\ ToSet(list) \subseteq marked
      /\ ToSet(list) \subseteq CascadeFail(u)
      /\ ToSet(todo) \subseteq CascadeFail(u) \cup failed \cup {u}
      /\ \A w \in ToSet(list) \cup {u} : BlockedBy(w) \subseteq marked \cup ToSet(todo)
  BY DEF Cascaded, Cascading
<1> PICK v, rest, b : v = Head(todo) /\ rest = Tail(todo) /\ b = Blocks(v)
  OBVIOUS
<1>2. /\ v \in Unit /\ rest \in Seq(Unit) /\ Len(rest) = Len(todo) - 1 /\ Len(todo) \in Nat \ {0}
      /\ ToSet(todo) = {v} \cup ToSet(rest)
  BY <1>1, HeadAndTail
<1>3. b \in Seq(Unit) /\ Len(b) <= Len(work) /\ ToSet(b) = BlockedBy(v)
  BY <1>2, BlocksAreDependents
<1>4. CascNext[<<marked, list, todo>>] = MarkNext(marked, list, todo)
  BY <1>1 DEF CascNext, CascStops
<1>5. \A a, c, d : a \in SUBSET Unit /\ c \in Seq(Unit) /\ d \in Seq(Unit) => <<a, c, d>> \in Cascading
  BY DEF Cascading
<1>6. CASE v \in marked
  <2>1. CascNext[<<marked, list, todo>>] = <<marked, list, rest>>
    BY <1>4, <1>6 DEF MarkNext
  <2>2. <<marked, list, rest>> \in Cascading
    BY <1>1, <1>2, <1>5
  <2>3. marked \cup ToSet(todo) = marked \cup ToSet(rest)
    BY <1>2, <1>6
  <2>4. <<marked, list, rest>> \in Cascaded(u)
    BY <1>1, <1>2, <2>2, <2>3 DEF Cascaded
  <2>5. StepsLeft(marked, rest) < StepsLeft(marked, todo)
    <3> PICK c : c = Cardinality(Unit \ marked) * (Len(work) + 1)
      OBVIOUS
    <3>1. StepsLeft(marked, rest) = c + Len(rest) /\ StepsLeft(marked, todo) = c + Len(todo)
      BY DEF StepsLeft
    <3>2. c \in Int
      <4>1. IsFiniteSet(Unit \ marked)
        BY UnitIsFinite, FS_Difference
      <4>2. Cardinality(Unit \ marked) \in Int /\ Len(work) + 1 \in Int
        BY <4>1, FS_CardinalityType
      <4>3. \A m, n \in Int : m * n \in Int
        OBVIOUS
      <4> QED BY <4>2, <4>3
    <3> QED BY <1>2, <3>1, <3>2
  <2> QED BY <2>1, <2>4, <2>5
<1>7. CASE v \notin marked
  <2> PICK m, l, t : m = marked \cup {v} /\ l = Append(list, v) /\ t = b \o rest
    OBVIOUS
  <2>1. CascNext[<<marked, list, todo>>] = <<m, l, t>>
    BY <1>4, <1>7 DEF MarkNext
  <2>2. l \in Seq(Unit) /\ ToSet(l) = ToSet(list) \cup {v}
    BY <1>1, <1>2, AppendAdds
  <2>3. t \in Seq(Unit) /\ Len(t) = Len(b) + Len(rest) /\ ToSet(t) = ToSet(b) \cup ToSet(rest)
    <3>1. \A p, q \in Seq(Unit) : /\ p \o q \in Seq(Unit) /\ Len(p \o q) = Len(p) + Len(q)
                                  /\ ToSet(p \o q) = ToSet(p) \cup ToSet(q)
      BY Concatenated
    <3> QED BY <1>2, <1>3, <3>1
  <2>4. <<m, l, t>> \in Cascading
    BY <1>1, <1>2, <1>5, <2>2, <2>3
  <2>5. v \in CascadeFail(u)
    BY <1>1, <1>2, <1>7
  <2>6. ToSet(b) \subseteq CascadeFail(u) \cup failed \cup {u}
    BY <1>3, <2>5, BlockedFail
  <2>7. ASSUME NEW w \in ToSet(l) \cup {u} PROVE BlockedBy(w) \subseteq m \cup ToSet(t)
    <3>1. CASE w = v
      BY <1>3, <2>3, <3>1
    <3>2. CASE w \in ToSet(list) \cup {u}
      BY <1>1, <1>2, <2>3, <3>2
    <3> QED BY <2>2, <3>1, <3>2
  <2>8. /\ failed \cup {u} \subseteq m
        /\ m \subseteq failed \cup {u} \cup ToSet(l)
        /\ ToSet(l) \subseteq m
        /\ ToSet(l) \subseteq CascadeFail(u)
        /\ ToSet(t) \subseteq CascadeFail(u) \cup failed \cup {u}
    BY <1>1, <1>2, <2>2, <2>3, <2>5, <2>6
  <2>9. <<m, l, t>> \in Cascaded(u)
    <3>1. PICK x : x = <<m, l, t>>
      OBVIOUS
    <3>2. x \in Cascading /\ x[1] = m /\ x[2] = l /\ x[3] = t
      BY <2>4, <3>1
    <3>3. \A w \in ToSet(x[2]) \cup {u} : BlockedBy(w) \subseteq x[1] \cup ToSet(x[3])
      BY <2>7, <3>2
    <3>4. x \in Cascaded(u)
      BY <2>8, <3>2, <3>3, Zenon DEF Cascaded
    <3> QED BY <3>1, <3>4
  <2>10. StepsLeft(m, t) < StepsLeft(marked, todo)
    <3>1. Len(t) <= Len(work) + Len(todo) - 1 /\ Len(todo) > 0
      <4>1. Len(work) \in Nat /\ Len(b) \in Nat
        BY <1>3
      <4> QED BY <1>2, <1>3, <2>3, <4>1
    <3>2. v \in Unit \ marked
      BY <1>2, <1>7
    <3> QED BY <1>1, <2>3, <3>1, <3>2, FewerStepsLeft
  <2> QED BY <2>1, <2>9, <2>10
<1> QED BY <1>6, <1>7

\* The recursion marks u and what fails with it, and lists the latter.
LEMMA CascadeComputes ==
  ASSUME work \in Seq(Unit), ToSet(work) = Unit, failed \subseteq Unit, NEW u \in Unit
  PROVE  /\ Cascade(u).failed = failed \cup {u} \cup CascadeFail(u)
         /\ ToSet(Cascade(u).list) = CascadeFail(u)
<1> DEFINE I == Cascaded(u)
           m == [x \in I |-> StepsLeft(x[1], x[3])]
           x0 == <<failed \cup {u}, <<>>, Blocks(u)>>
<1>0. \A x \in I : /\ x \in Cascading /\ x = <<x[1], x[2], x[3]>>
                   /\ x[1] \in SUBSET Unit /\ x[2] \in Seq(Unit) /\ x[3] \in Seq(Unit)
  BY DEF Cascaded, Cascading
<1>1. I \in SUBSET Cascading /\ m \in [I -> Nat]
  <2> HIDE DEF I
  <2>1. \A x \in I : StepsLeft(x[1], x[3]) \in Nat
    BY <1>0, StepsLeftNat
  <2> QED BY <1>0, <2>1
<1>2. ASSUME NEW x \in I, x \notin CascStops PROVE CascNext[x] \in I /\ m[CascNext[x]] < m[x]
  <2>1. PICK marked, list, todo : x = <<marked, list, todo>>
    BY <1>0
  <2>2. todo # <<>>
    BY <1>0, <1>2, <2>1 DEF CascStops
  <2>3. /\ CascNext[x] \in I
        /\ StepsLeft(CascNext[x][1], CascNext[x][3]) < StepsLeft(marked, todo)
    BY <1>2, <2>1, <2>2, CascadesOn
  <2> HIDE DEF I
  <2> QED BY <2>1, <2>3
<1>3. x0 \in I
  <2> PICK b : b = Blocks(u)
    OBVIOUS
  <2>1. b \in Seq(Unit) /\ ToSet(b) = BlockedBy(u)
    BY BlocksAreDependents
  <2>2. <<>> \in Seq(Unit) /\ ToSet(<<>>) = {}
    BY DEF ToSet
  <2>3. ToSet(b) \subseteq CascadeFail(u) \cup failed \cup {u}
    BY <2>1, BlockedFail
  <2>4. \A a, c, d : a \in SUBSET Unit /\ c \in Seq(Unit) /\ d \in Seq(Unit) => <<a, c, d>> \in Cascading
    BY DEF Cascading
  <2>5. PICK x : x = x0
    OBVIOUS
  <2>6. x \in Cascading /\ x[1] = failed \cup {u} /\ x[2] = <<>> /\ x[3] = b
    <3>1. failed \cup {u} \in SUBSET Unit
      OBVIOUS
    <3> QED BY <2>1, <2>2, <2>4, <2>5, <3>1
  <2>7. \A w \in ToSet(x[2]) \cup {u} : BlockedBy(w) \subseteq x[1] \cup ToSet(x[3])
    BY <2>1, <2>2, <2>6
  <2>8. /\ failed \cup {u} \subseteq x[1]
        /\ x[1] \subseteq failed \cup {u} \cup ToSet(x[2])
        /\ ToSet(x[2]) \subseteq x[1]
        /\ ToSet(x[2]) \subseteq CascadeFail(u)
        /\ ToSet(x[3]) \subseteq CascadeFail(u) \cup failed \cup {u}
    BY <2>2, <2>3, <2>6
  <2>9. x \in Cascaded(u)
    BY <2>6, <2>7, <2>8, Zenon DEF Cascaded
  <2> QED BY <2>5, <2>9
<1> HIDE DEF m, I, x0
<1>4. \A x \in I \ CascStops : CascNext[x] \in I /\ m[CascNext[x]] < m[x]
  BY <1>2
<1>5. \A x \in I : \E y \in I \cap CascStops : cascading[x] = CascValue[y]
  BY <1>1, <1>4, CascadingIsLoop, LoopEnds
<1>6. PICK y \in I \cap CascStops : cascading[x0] = CascValue[y]
  BY <1>3, <1>5
<1>7. PICK marked, list : y = <<marked, list, <<>>>>
  <2>1. y \in I /\ y \in CascStops
    BY <1>6
  <2>2. y = <<y[1], y[2], y[3]>> /\ y[3] = <<>>
    BY <1>0, <2>1 DEF CascStops
  <2> QED BY <2>2
<1>8. Cascade(u) = [failed |-> marked, list |-> list]
  <2>1. CascValue[y] = [failed |-> y[1], list |-> y[2]]
    BY <1>1, <1>6 DEF CascValue
  <2> QED BY <1>6, <1>7, <2>1 DEF Cascade, x0
<1>9. /\ failed \cup {u} \subseteq marked
      /\ marked \subseteq failed \cup {u} \cup ToSet(list)
      /\ ToSet(list) \subseteq marked
      /\ ToSet(list) \subseteq CascadeFail(u)
      /\ \A w \in ToSet(list) \cup {u} : BlockedBy(w) \subseteq marked \cup ToSet(<<>>)
  BY <1>6, <1>7 DEF I, Cascaded
<1>10. ToSet(<<>>) = {}
  BY DEF ToSet
<1>11. ASSUME NEW v \in Unit \ (failed \cup {u}), depsOf[v] \cap (ToSet(list) \cup {u}) # {}
       PROVE  v \in ToSet(list)
  <2>1. PICK w \in ToSet(list) \cup {u} : w \in depsOf[v]
    BY <1>11
  <2>2. v \in BlockedBy(w)
    BY <2>1 DEF BlockedBy
  <2> QED BY <1>9, <1>10, <1>11, <2>2
<1>12. ToSet(list) \in SUBSET Unit
  BY <1>9, CascadeIsLeast
<1>13. CascadeFail(u) \subseteq ToSet(list)
  <2>1. ClosedUnderCascade(ToSet(list), u)
    BY <1>11 DEF ClosedUnderCascade
  <2> QED BY <1>12, <2>1, CascadeIsLeast
<1>14. ToSet(list) = CascadeFail(u) /\ marked = failed \cup {u} \cup ToSet(list)
  BY <1>9, <1>13
<1>15. Cascade(u).failed = marked /\ Cascade(u).list = list
  BY <1>8
<1> QED BY <1>14, <1>15

-----------------------------------------------------------------------------
(* The scheduler.                                                              *)

TypeOK ==
  /\ depsOf \in [Unit -> SUBSET Unit]
  /\ weight \in [Unit -> Int]
  /\ work \in Seq(Unit) /\ ToSet(work) = Unit
  /\ items \in Seq(Unit)
  /\ inflight \subseteq Unit
  /\ completed \subseteq Unit
  /\ failed \subseteq Unit

\* Each unit is in the queue at most once, and not while it is handed out.
OnceQueued == IsInjective(items) /\ ToSet(items) \cap inflight = {}

Inv == TypeOK /\ OnceQueued /\ HeapOrdered /\ LeftBehindIsSkipped

LEMMA OrderlyItems ==
  ASSUME weight \in [Unit -> Int], NEW s \in Seq(Unit)
  PROVE  Heaped(Weighed(s), Len(s)) <=> \A i \in 2 .. Len(s) : weight[s[i]] <= weight[s[i \div 2]]
<1> DEFINE a == Weighed(s)
<1>1. \A k \in 1 .. Len(s) : a[k] = weight[s[k]]
  BY WeighedInts
<1> HIDE DEF a
<1>2. ASSUME NEW i \in 2 .. Len(s) PROVE a[i] = weight[s[i]] /\ a[i \div 2] = weight[s[i \div 2]]
  <2>1. i \in Int /\ Len(s) \in Int
    OBVIOUS
  <2>2. i \div 2 \in 1 .. Len(s) /\ i \in 1 .. Len(s)
    BY <2>1, Half
  <2> QED BY <1>1, <2>2
<1>3. Heaped(a, Len(s)) <=> \A i \in 2 .. Len(s) : weight[s[i]] <= weight[s[i \div 2]]
  BY <1>2 DEF Heaped
<1> QED BY <1>3 DEF a

LEMMA InvOrderly == TypeOK => (IsInjective(items) /\ HeapOrdered <=> Orderly(items))
BY OrderlyItems DEF TypeOK, HeapOrdered, Orderly

LEMMA InitInv == Init => Inv /\ ToSet(items) = Unit
<1> SUFFICES ASSUME Init PROVE Inv /\ ToSet(items) = Unit
  OBVIOUS
<1>1. /\ depsOf \in [Unit -> SUBSET Unit] /\ weight \in [Unit -> Int]
      /\ work \in Seq(Unit) /\ ToSet(work) = Unit /\ IsInjective(work)
  BY QueueAssumption DEF Init
<1>2. Orderly(items) /\ ToSet(items) = Unit
  BY <1>1, HeapingHeaps DEF Init
<1>3. TypeOK
  BY <1>1, <1>2 DEF Init, TypeOK, Orderly
<1>4. IsInjective(items) /\ HeapOrdered
  BY <1>2, <1>3, InvOrderly
<1>5. OnceQueued /\ LeftBehindIsSkipped
  BY <1>4 DEF Init, OnceQueued, LeftBehindIsSkipped
<1> QED BY <1>2, <1>3, <1>4, <1>5 DEF Inv

\* What a step leaves in the queue, as the heap it still is.
LEMMA StaysOrderly ==
  ASSUME TypeOK, weight' = weight, Orderly(items')
  PROVE  IsInjective(items') /\ HeapOrdered'
<1> PICK s : s = items'
  OBVIOUS
<1>1. s \in Seq(Unit) /\ IsInjective(s) /\ Heaped(Weighed(s), Len(s))
  BY DEF Orderly
<1>2. \A i \in 2 .. Len(s) : weight[s[i]] <= weight[s[i \div 2]]
  BY <1>1, OrderlyItems DEF TypeOK
<1> QED BY <1>1, <1>2 DEF HeapOrdered

LEMMA TakeInv ==
  ASSUME Inv, NEW i \in HeaviestReadyAt,
         items' = HeapRemove(items, i), inflight' = inflight \cup {items[i]},
         UNCHANGED <<depsOf, work, weight, completed, failed>>
  PROVE  /\ Inv'
         /\ items[i] \in ToSet(items) /\ ToSet(items') = ToSet(items) \ {items[i]}
<1>1. Orderly(items) /\ TypeOK /\ i \in 1 .. Len(items)
  BY InvOrderly DEF Inv, OnceQueued, HeaviestReadyAt, TypeOK
<1>2. Orderly(items') /\ ToSet(items') = ToSet(items) \ {items[i]}
  <2> PICK s, r : s = items /\ r = HeapRemove(s, i)
    OBVIOUS
  <2>1. Orderly(r) /\ ToSet(r) = ToSet(s) \ {s[i]}
    BY <1>1, HeapRemoveRemoves DEF Orderly, TypeOK
  <2> QED BY <2>1
<1>3. items[i] \in Unit /\ items[i] \in ToSet(items)
  BY <1>1 DEF TypeOK, ToSet
<1>4. IsInjective(items') /\ HeapOrdered'
  BY <1>1, <1>2, StaysOrderly
<1>5. TypeOK'
  BY <1>1, <1>2, <1>3 DEF TypeOK, Orderly
<1>6. OnceQueued'
  BY <1>2, <1>4 DEF Inv, OnceQueued
<1>7. LeftBehindIsSkipped'
  BY <1>2 DEF Inv, LeftBehindIsSkipped, HasFailedDependency
<1> QED BY <1>2, <1>3, <1>4, <1>5, <1>6, <1>7 DEF Inv

LEMMA CompleteInv ==
  ASSUME Inv, NEW u \in Unit, MarkComplete(u)
  PROVE  Inv'
BY DEF Inv, TypeOK, OnceQueued, HeapOrdered, LeftBehindIsSkipped, HasFailedDependency, MarkComplete

LEMMA FailInv ==
  ASSUME Inv, NEW u \in Unit, MarkFailedCascade(u)
  PROVE  /\ Inv'
         /\ failed' = failed \cup {u} \cup CascadeFail(u)
         /\ completed' = completed \cup {u} \cup CascadeFail(u)
         /\ ToSet(items') \subseteq ToSet(items)
         /\ ToSet(items) \ ToSet(items') \subseteq CascadeFail(u)
<1>1. TypeOK /\ Orderly(items) /\ u \in inflight /\ u \notin ToSet(items)
  BY InvOrderly DEF Inv, OnceQueued, MarkFailedCascade
<1>2. /\ Cascade(u).failed = failed \cup {u} \cup CascadeFail(u)
      /\ ToSet(Cascade(u).list) = CascadeFail(u)
  BY <1>1, CascadeComputes DEF TypeOK
<1>3. /\ failed' = failed \cup {u} \cup CascadeFail(u)
      /\ completed' = completed \cup {u} \cup CascadeFail(u)
      /\ items' = WithoutCascaded(items, CascadeFail(u))
      /\ inflight' = inflight \ {u}
      /\ UNCHANGED <<depsOf, work, weight>>
  BY <1>2 DEF MarkFailedCascade
<1>4. CascadeFail(u) \in SUBSET Unit
  BY CascadeIsLeast
<1>5. /\ Orderly(items')
      /\ ToSet(items') \subseteq ToSet(items)
      /\ ToSet(items) \ ToSet(items') \subseteq CascadeFail(u)
  <2> PICK s, r : s = items /\ r = WithoutCascaded(s, CascadeFail(u))
    OBVIOUS
  <2>1. Orderly(r) /\ ToSet(r) \subseteq ToSet(s) /\ ToSet(s) \ ToSet(r) \subseteq CascadeFail(u)
    BY <1>1, <1>4, WalkOrders DEF TypeOK
  <2> QED BY <1>3, <2>1
<1>6. IsInjective(items') /\ HeapOrdered'
  BY <1>1, <1>3, <1>5, StaysOrderly
<1>7. TypeOK'
  BY <1>1, <1>3, <1>4, <1>5 DEF TypeOK, Orderly
<1>8. OnceQueued'
  BY <1>3, <1>5, <1>6 DEF Inv, OnceQueued
<1>9. LeftBehindIsSkipped'
  <2>1. ASSUME NEW w \in ToSet(items'), w \in failed' PROVE depsOf[w] \cap failed' # {}
    <3>1. w \in ToSet(items) /\ w # u
      BY <1>1, <1>5
    <3>2. CASE w \in failed
      BY <1>3, <3>1, <3>2 DEF Inv, LeftBehindIsSkipped, HasFailedDependency
    <3>3. CASE w \in CascadeFail(u)
      <4>1. depsOf[w] \cap (CascadeFail(u) \cup {u}) # {}
        BY <3>3, CascadeHasReason
      <4> QED BY <1>3, <4>1
    <3> QED BY <1>3, <2>1, <3>1, <3>2, <3>3
  <2> QED BY <1>3, <2>1 DEF LeftBehindIsSkipped, HasFailedDependency
<1> QED BY <1>3, <1>5, <1>6, <1>7, <1>8, <1>9 DEF Inv

LEMMA NextInv == Inv /\ [Next]_vars => Inv'
<1> SUFFICES ASSUME Inv, [Next]_vars PROVE Inv'
  OBVIOUS
<1>1. CASE Take
  <2>1. PICK i \in HeaviestReadyAt :
          /\ items' = HeapRemove(items, i)
          /\ inflight' = inflight \cup {items[i]}
          /\ UNCHANGED <<depsOf, work, weight, completed, failed>>
    BY <1>1 DEF Take
  <2> QED BY <2>1, TakeInv
<1>2. ASSUME NEW u \in Unit, MarkComplete(u) PROVE Inv'
  BY <1>2, CompleteInv
<1>3. ASSUME NEW u \in Unit, MarkFailedCascade(u) PROVE Inv'
  BY <1>3, FailInv
<1>4. CASE UNCHANGED vars
  BY <1>4 DEF Inv, TypeOK, OnceQueued, HeapOrdered, LeftBehindIsSkipped, HasFailedDependency, vars
<1> QED BY <1>1, <1>2, <1>3, <1>4 DEF Next, Drained

THEOREM Inductive == Spec => []Inv
BY InitInv, NextInv, PTL DEF Spec

\* The array stays a heap through every removal, wherever in it.
THEOREM StaysAHeap == Spec => []HeapOrdered
<1>1. Inv => HeapOrdered
  BY DEF Inv
<1> QED BY <1>1, Inductive, PTL

\* A failed unit that the walk of the heap passed by has a failed dependency.
THEOREM LeftBehind == Spec => []LeftBehindIsSkipped
<1>1. Inv => LeftBehindIsSkipped
  BY DEF Inv
<1> QED BY <1>1, Inductive, PTL

-----------------------------------------------------------------------------
(* The promise: ReadyQueue.                                                    *)

LEMMA SameCascade == \A u : Queue!CascadeFail(u) = CascadeFail(u)
BY DEF Queue!CascadeFail, Queue!ClosedUnderCascade, CascadeFail, ClosedUnderCascade

LEMMA TakesTheHeaviest ==
  ASSUME TypeOK, NEW i \in HeaviestReadyAt
  PROVE  items[i] \in Queue!HeaviestReady
<1>1. i \in 1 .. Len(items) /\ items[i] \in ToSet(items) /\ items[i] \in Unit
  BY DEF TypeOK, HeaviestReadyAt, ToSet
<1>2. /\ IsReady(items[i]) /\ weight[items[i]] > -1
      /\ \A j \in DOMAIN items : IsReady(items[j]) /\ weight[items[j]] > -1
                                   => weight[items[j]] <= weight[items[i]]
  BY DEF HeaviestReadyAt
<1>3. weight[items[i]] \in Int /\ weight[items[i]] >= 0
  BY <1>1, <1>2 DEF TypeOK
<1>4. ASSUME NEW v \in ToSet(items), IsReady(v) PROVE weight[v] <= weight[items[i]]
  <2>1. PICK j \in DOMAIN items : items[j] = v
    BY DEF ToSet
  <2>2. v \in Unit /\ weight[v] \in Int
    BY <2>1 DEF TypeOK
  <2>3. CASE weight[v] > -1
    BY <1>2, <1>4, <2>1, <2>3
  <2>4. CASE ~(weight[v] > -1)
    BY <1>3, <2>2, <2>4
  <2> QED BY <2>3, <2>4
<1> QED BY <1>1, <1>2, <1>3, <1>4 DEF Queue!HeaviestReady, Queue!IsReady, IsReady

LEMMA NextImplements == Inv /\ [Next]_vars => [Queue!Next]_(Queue!vars)
<1> SUFFICES ASSUME Inv, [Next]_vars PROVE Queue!Next \/ UNCHANGED Queue!vars
  OBVIOUS
<1>1. CASE Take
  <2>1. PICK i \in HeaviestReadyAt :
          /\ items' = HeapRemove(items, i)
          /\ inflight' = inflight \cup {items[i]}
          /\ UNCHANGED <<depsOf, work, weight, completed, failed>>
    BY <1>1 DEF Take
  <2>2. items[i] \in Queue!HeaviestReady
    BY <2>1, TakesTheHeaviest DEF Inv
  <2>3. items[i] \in Unit /\ ToSet(items') = ToSet(items) \ {items[i]}
    <3>1. items[i] \in ToSet(items) /\ ToSet(items') = ToSet(items) \ {items[i]}
      BY <2>1, TakeInv
    <3>2. ToSet(items) \subseteq Unit
      BY DEF Inv, TypeOK, ToSet
    <3> QED BY <3>1, <3>2
  <2>4. Queue!Take(items[i])
    BY <2>1, <2>2, <2>3 DEF Queue!Take
  <2> QED BY <2>3, <2>4 DEF Queue!Next
<1>2. ASSUME NEW u \in Unit, MarkComplete(u) PROVE Queue!Next
  <2>1. Queue!Complete(u)
    BY <1>2 DEF MarkComplete, Queue!Complete
  <2> QED BY <2>1 DEF Queue!Next
<1>3. ASSUME NEW u \in Unit, MarkFailedCascade(u) PROVE Queue!Next
  <2>1. /\ failed' = failed \cup {u} \cup CascadeFail(u)
        /\ completed' = completed \cup {u} \cup CascadeFail(u)
        /\ ToSet(items') \subseteq ToSet(items)
        /\ ToSet(items) \ ToSet(items') \subseteq CascadeFail(u)
    BY <1>3, FailInv
  <2>2. /\ u \in inflight /\ inflight' = inflight \ {u} /\ UNCHANGED <<depsOf, weight>>
    BY <1>3 DEF MarkFailedCascade
  <2> DEFINE removed == ToSet(items) \ ToSet(items')
  <2>3. /\ removed \in SUBSET (ToSet(items) \cap CascadeFail(u))
        /\ ToSet(items') = ToSet(items) \ removed
    BY <2>1
  <2>4. Queue!FailCascade(u)
    BY <2>1, <2>2, <2>3, SameCascade DEF Queue!FailCascade
  <2> QED BY <2>4 DEF Queue!Next
<1>4. CASE UNCHANGED vars
  BY <1>4 DEF vars, Queue!vars
<1> QED BY <1>1, <1>2, <1>3, <1>4 DEF Next, Drained

\* The array, the scan for the heaviest ready unit, the walk of the array and the
\* recursion behave as ReadyQueue: the heaviest ready unit is handed out first, none is
\* lost or handed out twice, and a failure marks exactly what transitively depends on it.
THEOREM Implements == Spec => ImplementsReadyQueue
<1>1. Init => Queue!Init
  BY InitInv DEF Init, Queue!Init
<1> QED BY <1>1, Inductive, NextImplements, PTL DEF Spec, Queue!Spec, ImplementsReadyQueue
=============================================================================
