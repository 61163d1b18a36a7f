--------------------------- MODULE InductionLemmas ---------------------------
(***************************************************************************)
(* Induction, as statements about sets: the finite subsets of a set are    *)
(* well-founded under strict inclusion (FiniteSetTheorems), which orders   *)
(* the naturals through the intervals 1 .. n.  With it, the sums and the   *)
(* greatest elements that the models take from the community modules.      *)
(***************************************************************************)
EXTENDS Naturals, FiniteSets, FiniteSetsExt, Functions, FiniteSetTheorems, TLAPS

\* Among finite sets one is minimal.
LEMMA MinimalSet ==
  ASSUME NEW S, NEW T, T \subseteq FiniteSubsetsOf(S), T # {}
  PROVE  \E X \in T : \A Y \in T : ~(Y \subseteq X /\ Y # X)
<1>1. PICK X \in T : \A Y \in T : <<Y, X>> \notin StrictSubsetOrdering(S)
  BY FS_StrictSubsetOrderingWellFounded, WFMin
<1>2. ASSUME NEW Y \in T, Y \subseteq X, Y # X PROVE FALSE
  <2>1. X \subseteq S /\ Y \subseteq S
    BY <1>2 DEF FiniteSubsetsOf
  <2>2. <<Y, X>> \in StrictSubsetOrdering(S)
    BY <1>2, <2>1 DEF StrictSubsetOrdering
  <2>3. QED
    BY <1>1, <2>2
<1>3. QED
  BY <1>2

\* Sets of naturals have a least element.
LEMMA LeastNatural ==
  ASSUME NEW S \in SUBSET Nat, S # {}
  PROVE  \E x \in S : \A y \in S : x <= y
<1>. DEFINE T == {1 .. n : n \in S}
<1>1. T \subseteq FiniteSubsetsOf(Nat)
  <2>1. ASSUME NEW n \in S PROVE 1 .. n \in FiniteSubsetsOf(Nat)
    <3>1. IsFiniteSet(1 .. n)
      BY FS_Interval
    <3>2. 1 .. n \subseteq Nat
      OBVIOUS
    <3>3. QED
      BY <3>1, <3>2 DEF FiniteSubsetsOf
  <2>2. QED
    BY <2>1
<1>2. T # {}
  OBVIOUS
<1>3. \E X \in T : \A Y \in T : ~(Y \subseteq X /\ Y # X)
  <2>. HIDE DEF T
  <2>1. QED
    BY <1>1, <1>2, MinimalSet
<1>4. PICK n \in S : \A m \in S : ~(1 .. m \subseteq 1 .. n /\ 1 .. m # 1 .. n)
  <2>1. PICK X \in T : \A Y \in T : ~(Y \subseteq X /\ Y # X)
    BY <1>3
  <2>2. PICK n \in S : X = 1 .. n
    BY <2>1
  <2>3. ASSUME NEW m \in S PROVE 1 .. m \in T
    OBVIOUS
  <2>4. QED
    BY <2>1, <2>2, <2>3, Zenon
<1>5. ASSUME NEW m \in S PROVE n <= m
  <2>1. CASE m < n
    <3>1. 1 .. m \subseteq 1 .. n /\ n \in 1 .. n /\ n \notin 1 .. m
      BY <2>1
    <3>2. QED
      BY <1>4, <3>1
  <2>2. QED
    BY <2>1
<1>6. QED
  BY <1>5

\* Induction over the naturals, for the set of those that satisfy the claim.
LEMMA NaturalInduction ==
  ASSUME NEW S, 0 \in S, \A n \in Nat : n \in S => n + 1 \in S
  PROVE  Nat \subseteq S
<1>. DEFINE B == {n \in Nat : n \notin S}
<1>1. SUFFICES ASSUME B # {} PROVE FALSE
  OBVIOUS
<1>2. PICK n \in B : \A m \in B : n <= m
  <2>1. B \in SUBSET Nat
    OBVIOUS
  <2>2. QED
    BY <1>1, <2>1, LeastNatural
<1>3. n # 0 /\ n \in Nat
  OBVIOUS
<1>4. n - 1 \in Nat /\ n - 1 \in S
  BY <1>2, <1>3
<1>5. (n - 1) + 1 \in S
  BY <1>4
<1>6. QED
  BY <1>3, <1>5

\* Induction over finite sets, for the set of those that satisfy the claim.
LEMMA FiniteSetInduction ==
  ASSUME NEW S, IsFiniteSet(S), NEW P, {} \in P,
         \A T \in SUBSET S : \A x \in S \ T : T \in P => T \union {x} \in P
  PROVE  S \in P
<1>. DEFINE B == {T \in SUBSET S : T \notin P}
<1>1. SUFFICES ASSUME S \notin P PROVE FALSE
  OBVIOUS
<1>2. B \subseteq FiniteSubsetsOf(S)
  <2>1. ASSUME NEW T \in SUBSET S PROVE IsFiniteSet(T)
    BY FS_Subset
  <2>2. QED
    BY <2>1 DEF FiniteSubsetsOf
<1>3. B # {}
  BY <1>1
<1>4. PICK X \in B : \A Y \in B : ~(Y \subseteq X /\ Y # X)
  <2>. HIDE DEF B
  <2>1. QED
    BY <1>2, <1>3, MinimalSet
<1>5. PICK x : x \in X
  OBVIOUS
<1>6. X \ {x} \in P
  BY <1>4, <1>5
<1>7. (X \ {x}) \union {x} \in P
  BY <1>5, <1>6
<1>8. (X \ {x}) \union {x} = X
  BY <1>5
<1>9. QED
  BY <1>7, <1>8

\* Among the subsets of a finite set that have a property one is minimal.
LEMMA MinimalSubset ==
  ASSUME NEW S, IsFiniteSet(S), NEW B \in SUBSET SUBSET S, B # {}
  PROVE  \E X \in B : \A Y \in SUBSET X : Y # X => Y \notin B
<1>1. B \subseteq FiniteSubsetsOf(S)
  BY FS_Subset DEF FiniteSubsetsOf
<1>2. QED
  BY <1>1, MinimalSet

-----------------------------------------------------------------------------
(* SumFunctionOnSet. *)

\* The element of s that is added next.
Some(s) == CHOOSE x \in s : TRUE

\* h sums f over the subsets of S, in that order.
IsSum(f, S, h) ==
  h = [s \in SUBSET S |-> IF s = {} THEN 0 ELSE f[Some(s)] + h[s \ {Some(s)}]]

\* (A set that is not empty has one.)
LEMMA SomeIn == ASSUME NEW s, s # {} PROVE Some(s) \in s
BY DEF Some

\* What that says of each subset.
LEMMA SumAt ==
  ASSUME NEW f, NEW S, NEW h, IsSum(f, S, h), NEW s \in SUBSET S
  PROVE  h[s] = IF s = {} THEN 0 ELSE f[Some(s)] + h[s \ {Some(s)}]
BY DEF IsSum

\* (The definition, unfolded.)
LEMMA SumDef ==
  ASSUME NEW f, NEW S
  PROVE  SumFunctionOnSet(f, S) = (CHOOSE h : IsSum(f, S, h))[S]
BY DEF SumFunctionOnSet, FoldFunctionOnSet, MapThenFoldSet, IsSum, Some

\* The sum over a set depends on nothing but its elements.
LEMMA SumAgrees ==
  ASSUME NEW f, NEW g, NEW S, NEW T, NEW h, NEW k, IsSum(f, S, h), IsSum(g, T, k),
         NEW U, IsFiniteSet(U), U \subseteq S, U \subseteq T, \A x \in U : f[x] = g[x]
  PROVE  h[U] = k[U]
<1>. DEFINE B == {s \in SUBSET U : h[s] # k[s]}
<1>1. SUFFICES ASSUME B # {} PROVE FALSE
  OBVIOUS
<1>2. PICK X \in B : \A Y \in SUBSET X : Y # X => Y \notin B
  <2>1. B \in SUBSET SUBSET U
    OBVIOUS
  <2>. HIDE DEF B
  <2>2. QED
    BY <1>1, <2>1, MinimalSubset
<1>. DEFINE y == Some(X)
<1>3. X \in SUBSET S /\ X \in SUBSET T /\ X \subseteq U
  OBVIOUS
<1>4. /\ h[X] = IF X = {} THEN 0 ELSE f[y] + h[X \ {y}]
      /\ k[X] = IF X = {} THEN 0 ELSE g[y] + k[X \ {y}]
  <2>1. h[X] = IF X = {} THEN 0 ELSE f[y] + h[X \ {y}]
    BY <1>3, SumAt
  <2>2. k[X] = IF X = {} THEN 0 ELSE g[y] + k[X \ {y}]
    <3>1. ASSUME NEW s \in SUBSET T PROVE k[s] = IF s = {} THEN 0 ELSE g[Some(s)] + k[s \ {Some(s)}]
      BY SumAt
    <3>2. QED
      BY <1>3, <3>1
  <2>3. QED
    BY <2>1, <2>2
<1>5. CASE X # {}
  <2>1. y \in X
    BY <1>5, SomeIn
  <2>. HIDE DEF y
  <2>2. X \ {y} \in SUBSET X /\ X \ {y} # X
    BY <2>1
  <2>3. h[X \ {y}] = k[X \ {y}]
    BY <1>2, <1>3, <2>2
  <2>4. QED
    BY <1>2, <1>3, <1>4, <1>5, <2>1, <2>3
<1>6. QED
  BY <1>2, <1>4, <1>5

\* There is such a function for every finite set.
LEMMA SumExists ==
  ASSUME NEW f, NEW S, IsFiniteSet(S)
  PROVE  \E h : IsSum(f, S, h)
<1>. DEFINE B == {T \in SUBSET S : ~ \E h : IsSum(f, T, h)}
<1>1. SUFFICES ASSUME B # {} PROVE FALSE
  OBVIOUS
<1>2. PICK T \in B : \A Y \in SUBSET T : Y # T => Y \notin B
  <2>1. B \in SUBSET SUBSET S
    OBVIOUS
  <2>. HIDE DEF B
  <2>2. QED
    BY <1>1, <2>1, MinimalSubset
<1>. DEFINE K(s) == CHOOSE h : IsSum(f, s, h)
            V(s) == IF s = {} THEN 0 ELSE f[Some(s)] + K(s \ {Some(s)})[s \ {Some(s)}]
            h == [s \in SUBSET T |-> V(s)]
<1>3. ASSUME NEW s \in SUBSET T, s # T PROVE IsSum(f, s, K(s)) /\ IsFiniteSet(s)
  <2>1. \E k : IsSum(f, s, k)
    BY <1>2, <1>3
  <2>2. QED
    BY <2>1, FS_Subset
<1>4. ASSUME NEW s \in SUBSET T, s # T PROVE K(s)[s] = V(s)
  <2>1. CASE s = {}
    BY <1>3, <1>4, <2>1, SumAt
  <2>2. CASE s # {}
    <3>. DEFINE r == s \ {Some(s)}
    <3>1. Some(s) \in s
      BY <2>2, SomeIn
    <3>2. r \in SUBSET T /\ r # T /\ r \subseteq s
      BY <1>4, <3>1
    <3>3. IsSum(f, s, K(s)) /\ IsSum(f, r, K(r)) /\ IsFiniteSet(r)
      BY <1>3, <1>4, <3>2
    <3>4. K(s)[s] = f[Some(s)] + K(s)[r]
      BY <2>2, <3>3, SumAt
    <3>5. K(s)[r] = K(r)[r]
      <4>. HIDE DEF K, r
      <4>1. QED
        BY <3>2, <3>3, SumAgrees
    <3>6. QED
      BY <2>2, <3>4, <3>5
  <2>3. QED
    BY <2>1, <2>2
<1>5. ASSUME NEW s \in SUBSET T PROVE h[s] = IF s = {} THEN 0 ELSE f[Some(s)] + h[s \ {Some(s)}]
  <2>1. CASE s # {}
    <3>1. Some(s) \in s
      BY <2>1, SomeIn
    <3>2. s \ {Some(s)} \in SUBSET T /\ s \ {Some(s)} # T
      BY <3>1
    <3>3. K(s \ {Some(s)})[s \ {Some(s)}] = V(s \ {Some(s)})
      BY <1>4, <3>2
    <3>4. h[s \ {Some(s)}] = V(s \ {Some(s)})
      BY <3>2
    <3>5. h[s] = V(s) /\ V(s) = f[Some(s)] + K(s \ {Some(s)})[s \ {Some(s)}]
      BY <2>1
    <3>. HIDE DEF h, V, K
    <3>6. QED
      BY <2>1, <3>3, <3>4, <3>5
  <2>2. QED
    BY <2>1
<1>6. IsSum(f, T, h)
  <2>1. h = [s \in SUBSET T |-> h[s]]
    OBVIOUS
  <2>2. h = [s \in SUBSET T |-> IF s = {} THEN 0 ELSE f[Some(s)] + h[s \ {Some(s)}]]
    <3>. DEFINE k == [s \in SUBSET T |-> IF s = {} THEN 0 ELSE f[Some(s)] + h[s \ {Some(s)}]]
    <3>1. \A s \in SUBSET T : h[s] = k[s]
      <4>1. SUFFICES ASSUME NEW s \in SUBSET T PROVE h[s] = k[s]
        OBVIOUS
      <4>2. k[s] = IF s = {} THEN 0 ELSE f[Some(s)] + h[s \ {Some(s)}]
        OBVIOUS
      <4>. HIDE DEF h, k
      <4>3. QED
        BY <1>5, <4>2
    <3>2. DOMAIN k = SUBSET T /\ k = [s \in SUBSET T |-> k[s]]
      OBVIOUS
    <3>3. h = k
      <4>. HIDE DEF h, k
      <4>1. QED
        BY <2>1, <3>1, <3>2
    <3>4. QED
      BY <3>3
  <2>. HIDE DEF h
  <2>3. QED
    BY <2>2 DEF IsSum
<1>7. QED
  BY <1>2, <1>6

\* So one may be picked for every finite set.
LEMMA SumPicked ==
  ASSUME NEW f, NEW S, IsFiniteSet(S)
  PROVE  \E h : IsSum(f, S, h) /\ SumFunctionOnSet(f, S) = h[S]
<1>. DEFINE h == CHOOSE k : IsSum(f, S, k)
<1>1. IsSum(f, S, h)
  BY SumExists
<1>2. SumFunctionOnSet(f, S) = h[S]
  BY SumDef
<1>. HIDE DEF h
<1>3. QED
  BY <1>1, <1>2

\* Functions that agree on a set have the same sum over it.
LEMMA SumSame ==
  ASSUME NEW f, NEW g, NEW S, IsFiniteSet(S), \A x \in S : f[x] = g[x]
  PROVE  SumFunctionOnSet(f, S) = SumFunctionOnSet(g, S)
<1>1. PICK h : IsSum(f, S, h) /\ SumFunctionOnSet(f, S) = h[S]
  BY SumPicked
<1>2. PICK k : IsSum(g, S, k) /\ SumFunctionOnSet(g, S) = k[S]
  BY SumPicked
<1>3. h[S] = k[S]
  BY <1>1, <1>2, SumAgrees
<1>4. QED
  BY <1>1, <1>2, <1>3

\* The order does not matter: any element may be added last.
LEMMA SumAnyLast ==
  ASSUME NEW f, NEW S, NEW h, IsSum(f, S, h), IsFiniteSet(S), \A x \in S : f[x] \in Nat
  PROVE  \A s \in SUBSET S : h[s] \in Nat /\ \A x \in s : h[s] = f[x] + h[s \ {x}]
<1>. DEFINE Good(s) == h[s] \in Nat /\ \A x \in s : h[s] = f[x] + h[s \ {x}]
            B == {s \in SUBSET S : ~Good(s)}
<1>1. SUFFICES ASSUME B # {} PROVE FALSE
  OBVIOUS
<1>2. PICK s \in B : \A Y \in SUBSET s : Y # s => Y \notin B
  <2>1. B \in SUBSET SUBSET S
    OBVIOUS
  <2>. HIDE DEF B
  <2>2. QED
    BY <1>1, <2>1, MinimalSubset
<1>3. s \in SUBSET S /\ ~Good(s)
  OBVIOUS
<1>4. \A Y \in SUBSET s : Y # s => Good(Y)
  BY <1>2, <1>3
<1>. HIDE DEF Good
<1>5. h[s] = IF s = {} THEN 0 ELSE f[Some(s)] + h[s \ {Some(s)}]
  BY <1>3, SumAt
<1>6. CASE s = {}
  BY <1>3, <1>5, <1>6 DEF Good
<1>7. CASE s # {}
  <2>. DEFINE y == Some(s)
  <2>1. y \in s /\ h[s] = f[y] + h[s \ {y}]
    BY <1>5, <1>7, SomeIn
  <2>. HIDE DEF y
  <2>2. \A x \in s : Good(s \ {x}) /\ f[x] \in Nat
    BY <1>3, <1>4
  <2>3. h[s] \in Nat
    BY <2>1, <2>2 DEF Good
  <2>4. ASSUME NEW x \in s PROVE h[s] = f[x] + h[s \ {x}]
    <3>1. CASE x # y
      <4>1. h[s \ {y}] = f[x] + h[(s \ {y}) \ {x}]
        BY <2>1, <2>2, <3>1 DEF Good
      <4>2. h[s \ {x}] = f[y] + h[(s \ {x}) \ {y}]
        BY <2>1, <2>2, <3>1 DEF Good
      <4>. DEFINE r == (s \ {y}) \ {x}
      <4>3. (s \ {x}) \ {y} = r
        OBVIOUS
      <4>4. r \in SUBSET s /\ r # s
        BY <2>1
      <4>5. h[r] \in Nat /\ h[s \ {y}] = f[x] + h[r] /\ h[s \ {x}] = f[y] + h[r]
        BY <1>4, <4>1, <4>2, <4>3, <4>4 DEF Good
      <4>6. f[x] \in Nat /\ f[y] \in Nat
        BY <2>1, <2>2
      <4>7. QED
        BY <2>1, <4>5, <4>6
    <3>2. QED
      BY <2>1, <3>1
  <2>5. QED
    BY <1>3, <2>3, <2>4 DEF Good
<1>8. QED
  BY <1>6, <1>7

\* A sum is the value of any element and the sum of the others.
LEMMA SumSplit ==
  ASSUME NEW f, NEW S, IsFiniteSet(S), \A x \in S : f[x] \in Nat
  PROVE  /\ SumFunctionOnSet(f, S) \in Nat
         /\ \A x \in S : SumFunctionOnSet(f, S) = f[x] + SumFunctionOnSet(f, S \ {x})
<1>1. PICK h : IsSum(f, S, h) /\ SumFunctionOnSet(f, S) = h[S]
  BY SumPicked
<1>2. h[S] \in Nat /\ \A x \in S : h[S] = f[x] + h[S \ {x}]
  BY <1>1, SumAnyLast
<1>3. ASSUME NEW x \in S PROVE SumFunctionOnSet(f, S \ {x}) = h[S \ {x}]
  <2>1. IsFiniteSet(S \ {x}) /\ S \ {x} \subseteq S
    BY FS_Subset
  <2>2. PICK k : IsSum(f, S \ {x}, k) /\ SumFunctionOnSet(f, S \ {x}) = k[S \ {x}]
    BY <2>1, SumPicked
  <2>3. k[S \ {x}] = h[S \ {x}]
    BY <1>1, <2>1, <2>2, SumAgrees
  <2>4. QED
    BY <2>2, <2>3
<1>4. QED
  BY <1>1, <1>2, <1>3

\* Nothing adds up to 0, and one element to its value.
LEMMA SumFew ==
  ASSUME NEW f
  PROVE  /\ SumFunctionOnSet(f, {}) = 0
         /\ \A x : f[x] \in Nat => SumFunctionOnSet(f, {x}) = f[x]
<1>1. SumFunctionOnSet(f, {}) = 0
  <2>1. IsFiniteSet({})
    BY FS_EmptySet
  <2>2. PICK h : IsSum(f, {}, h) /\ SumFunctionOnSet(f, {}) = h[{}]
    BY <2>1, SumPicked
  <2>3. QED
    BY <2>2, SumAt
<1>2. ASSUME NEW x, f[x] \in Nat PROVE SumFunctionOnSet(f, {x}) = f[x]
  <2>1. IsFiniteSet({x}) /\ \A y \in {x} : f[y] \in Nat
    BY <1>2, FS_Singleton
  <2>2. SumFunctionOnSet(f, {x}) = f[x] + SumFunctionOnSet(f, {x} \ {x})
    BY <2>1, SumSplit
  <2>3. {x} \ {x} = {}
    OBVIOUS
  <2>4. QED
    BY <1>1, <1>2, <2>2, <2>3
<1>3. QED
  BY <1>1, <1>2

\* Elements of value 0 may be left out.
LEMMA SumZeros ==
  ASSUME NEW f, NEW S, IsFiniteSet(S), \A x \in S : f[x] \in Nat,
         NEW Z \in SUBSET S, \A x \in Z : f[x] = 0
  PROVE  SumFunctionOnSet(f, S \ Z) = SumFunctionOnSet(f, S)
<1>. DEFINE P == {T \in SUBSET Z : SumFunctionOnSet(f, S \ T) = SumFunctionOnSet(f, S)}
<1>1. {} \in P
  <2>1. S \ {} = S
    OBVIOUS
  <2>2. QED
    BY <2>1
<1>2. ASSUME NEW T \in SUBSET Z, NEW x \in Z \ T, T \in P PROVE T \union {x} \in P
  <2>. DEFINE R == S \ T
  <2>1. IsFiniteSet(R) /\ x \in R /\ \A y \in R : f[y] \in Nat
    BY FS_Subset
  <2>2. SumFunctionOnSet(f, R) = SumFunctionOnSet(f, S)
    BY <1>2
  <2>3. S \ (T \union {x}) = R \ {x}
    OBVIOUS
  <2>4. SumFunctionOnSet(f, R) = f[x] + SumFunctionOnSet(f, R \ {x})
    <3>. HIDE DEF R
    <3>1. QED
      BY <2>1, SumSplit
  <2>5. SumFunctionOnSet(f, R \ {x}) \in Nat
    <3>1. IsFiniteSet(R \ {x}) /\ \A y \in R \ {x} : f[y] \in Nat
      BY <2>1, FS_Subset
    <3>. HIDE DEF R
    <3>2. QED
      BY <3>1, SumSplit
  <2>6. f[x] = 0
    OBVIOUS
  <2>7. SumFunctionOnSet(f, R \ {x}) = SumFunctionOnSet(f, S)
    <3>. HIDE DEF R, P
    <3>1. QED
      BY <2>2, <2>4, <2>5, <2>6
  <2>8. SumFunctionOnSet(f, S \ (T \union {x})) = SumFunctionOnSet(f, S)
    BY <2>3, <2>7
  <2>9. QED
    BY <2>8
<1>3. IsFiniteSet(Z)
  BY FS_Subset
<1>4. Z \in P
  <2>. HIDE DEF P
  <2>1. QED
    BY <1>1, <1>2, <1>3, FiniteSetInduction
<1>5. QED
  BY <1>4

\* A value may be carried from one element to another.
LEMMA SumCarried ==
  ASSUME NEW f, NEW g, NEW S, IsFiniteSet(S), \A x \in S : f[x] \in Nat,
         NEW x \in S, NEW y \in S, x # y, g[x] = 0, g[y] = f[y] + f[x],
         \A z \in S \ {x, y} : g[z] = f[z]
  PROVE  /\ SumFunctionOnSet(g, S) = SumFunctionOnSet(f, S)
         /\ \A z \in S : g[z] \in Nat
<1>. DEFINE R == S \ {x}
            Q == R \ {y}
<1>1. IsFiniteSet(R) /\ IsFiniteSet(Q) /\ y \in R /\ Q = S \ {x, y}
  BY FS_Subset
<1>2. \A z \in S : g[z] \in Nat
  <2>1. ASSUME NEW z \in S PROVE g[z] \in Nat
    <3>1. CASE z = x
      BY <3>1
    <3>2. CASE z = y
      <4>1. f[x] \in Nat /\ f[y] \in Nat
        OBVIOUS
      <4>2. QED
        BY <3>2, <4>1
    <3>3. QED
      BY <3>1, <3>2
  <2>2. QED
    BY <2>1
<1>. HIDE DEF R
<1>3. ASSUME NEW h, \A z \in S : h[z] \in Nat
      PROVE  /\ SumFunctionOnSet(h, S) = h[x] + (h[y] + SumFunctionOnSet(h, Q))
             /\ h[x] \in Nat /\ h[y] \in Nat /\ SumFunctionOnSet(h, Q) \in Nat
  <2>1. (\A z \in R : h[z] \in Nat) /\ (\A z \in Q : h[z] \in Nat)
    BY <1>3 DEF R
  <2>2. SumFunctionOnSet(h, S) = h[x] + SumFunctionOnSet(h, R)
    BY <1>3, SumSplit DEF R
  <2>3. SumFunctionOnSet(h, R) = h[y] + SumFunctionOnSet(h, R \ {y})
    BY <1>1, <2>1, SumSplit
  <2>. HIDE DEF Q
  <2>4. SumFunctionOnSet(h, Q) \in Nat
    BY <1>1, <2>1, SumSplit
  <2>5. SumFunctionOnSet(h, R) = h[y] + SumFunctionOnSet(h, Q)
    BY <2>3 DEF Q
  <2>6. QED
    BY <1>3, <2>2, <2>4, <2>5
<1>4. SumFunctionOnSet(g, Q) = SumFunctionOnSet(f, Q)
  <2>1. \A z \in Q : g[z] = f[z]
    BY <1>1
  <2>. HIDE DEF Q
  <2>2. QED
    BY <1>1, <2>1, SumSame
<1>. HIDE DEF Q
<1>5. /\ SumFunctionOnSet(f, S) = f[x] + (f[y] + SumFunctionOnSet(f, Q))
      /\ f[x] \in Nat /\ f[y] \in Nat /\ SumFunctionOnSet(f, Q) \in Nat
  BY <1>3
<1>6. SumFunctionOnSet(g, S) = g[x] + (g[y] + SumFunctionOnSet(g, Q))
  BY <1>2, <1>3
<1>7. SumFunctionOnSet(g, S) = 0 + ((f[y] + f[x]) + SumFunctionOnSet(f, Q))
  BY <1>4, <1>6
<1>8. QED
  BY <1>2, <1>5, <1>7

\* So may those of many, each to another's own.
LEMMA SumFolds ==
  ASSUME NEW f, NEW g, NEW S, IsFiniteSet(S), \A x \in S : f[x] \in Nat,
         NEW F \in SUBSET S, NEW to \in [F -> S \ F],
         \A x, y \in F : to[x] = to[y] => x = y,
         \A x \in F : g[x] = 0 /\ g[to[x]] = f[to[x]] + f[x],
         \A z \in S \ F : (\A x \in F : to[x] # z) => g[z] = f[z]
  PROVE  SumFunctionOnSet(g, S) = SumFunctionOnSet(f, S)
<1>. DEFINE Part(T) == [z \in S |-> IF z \in T \/ \E x \in T : to[x] = z THEN g[z] ELSE f[z]]
            P == {T \in SUBSET F : /\ \A z \in S : Part(T)[z] \in Nat
                                   /\ SumFunctionOnSet(Part(T), S) = SumFunctionOnSet(f, S)}
<1>1. {} \in P
  <2>1. \A z \in S : Part({})[z] = f[z]
    OBVIOUS
  <2>. HIDE DEF Part
  <2>2. SumFunctionOnSet(Part({}), S) = SumFunctionOnSet(f, S)
    BY <2>1, SumSame
  <2>3. QED
    BY <2>1, <2>2
<1>2. ASSUME NEW T \in SUBSET F, NEW x \in F \ T, T \in P PROVE T \union {x} \in P
  <2>. DEFINE U == T \union {x}
              y == to[x]
  <2>1. x \in S /\ y \in S /\ y \notin F /\ x # y
    OBVIOUS
  <2>2. Part(T)[x] = f[x]
    OBVIOUS
  <2>3. Part(T)[y] = f[y]
    OBVIOUS
  <2>4. Part(U)[x] = 0
    OBVIOUS
  <2>5. Part(U)[y] = f[y] + f[x]
    OBVIOUS
  <2>6. \A z \in S \ {x, y} : Part(U)[z] = Part(T)[z]
    OBVIOUS
  <2>7. /\ \A z \in S : Part(T)[z] \in Nat
        /\ SumFunctionOnSet(Part(T), S) = SumFunctionOnSet(f, S)
    BY <1>2
  <2>. HIDE DEF Part, y
  <2>8. /\ SumFunctionOnSet(Part(U), S) = SumFunctionOnSet(Part(T), S)
        /\ \A z \in S : Part(U)[z] \in Nat
    <3>. HIDE DEF U, P
    <3>1. Part(U)[y] = Part(T)[y] + Part(T)[x]
      BY <2>2, <2>3, <2>5
    <3>2. QED
      BY ONLY IsFiniteSet(S), <2>1, <2>4, <2>6, <2>7, <3>1, SumCarried
  <2>9. QED
    BY <2>7, <2>8
<1>3. IsFiniteSet(F)
  BY FS_Subset
<1>4. F \in P
  <2>. HIDE DEF P
  <2>1. QED
    BY <1>1, <1>2, <1>3, FiniteSetInduction
<1>5. \A z \in S : Part(F)[z] = g[z]
  OBVIOUS
<1>6. QED
  <2>1. SumFunctionOnSet(Part(F), S) = SumFunctionOnSet(f, S)
    BY <1>4
  <2>. HIDE DEF Part, P
  <2>2. SumFunctionOnSet(Part(F), S) = SumFunctionOnSet(g, S)
    BY <1>5, SumSame
  <2>3. QED
    BY <2>1, <2>2

-----------------------------------------------------------------------------
(* Max. *)

\* A finite set of naturals has a greatest element, and Max finds it.
LEMMA MaxIsGreatest ==
  ASSUME NEW S \in SUBSET Nat, IsFiniteSet(S), S # {}
  PROVE  Max(S) \in S /\ \A x \in S : x <= Max(S)
<1>. DEFINE P == {T \in SUBSET S : T = {} \/ \E x \in T : \A y \in T : x >= y}
<1>1. {} \in P
  OBVIOUS
<1>2. ASSUME NEW T \in SUBSET S, NEW x \in S \ T, T \in P PROVE T \union {x} \in P
  <2>1. CASE T = {}
    <3>1. \A y \in T \union {x} : x >= y
      BY <2>1
    <3>2. QED
      BY <3>1
  <2>2. CASE T # {}
    <3>1. PICK m \in T : \A y \in T : m >= y
      BY <1>2, <2>2
    <3>2. \E z \in T \union {x} : \A y \in T \union {x} : z >= y
      <4>1. CASE x >= m
        BY <3>1, <4>1
      <4>2. CASE m >= x
        BY <3>1, <4>2
      <4>3. QED
        BY <4>1, <4>2
    <3>3. QED
      BY <3>2
  <2>3. QED
    BY <2>1, <2>2
<1>3. S \in P
  <2>. HIDE DEF P
  <2>1. QED
    BY <1>1, <1>2, FiniteSetInduction
<1>4. \E x \in S : \A y \in S : x >= y
  BY <1>3
<1>5. QED
  BY <1>4 DEF Max
=============================================================================
