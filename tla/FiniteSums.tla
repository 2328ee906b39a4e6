----------------------------- MODULE FiniteSums -----------------------------
(***************************************************************************)
(* Sums over finite sets, and the induction they take.  An induction       *)
(* theorem with an operator for its hypothesis cannot be used here, so     *)
(* induction is put as the existence of a least counterexample: a set of   *)
(* numbers has a least member, a set of finite sets a smallest.  The same  *)
(* induction gives recursion over the numbers.                             *)
(***************************************************************************)
EXTENDS Integers, FiniteSetsExt, FiniteSetTheorems, WellFoundedInduction, TLAPS

LEMMA LeastNumber ==
  ASSUME NEW T \in SUBSET Nat, T # {}
  PROVE  \E n \in T : \A m \in T : n <= m
  <1> DEFINE Before == OpToRel(<, Nat)
  <1>1. IsWellFoundedOn(Before, Nat)
    BY NatLessThanWellFounded
  <1>2. \A m, n \in Nat : m < n => <<m, n>> \in Before
    BY DEF OpToRel
  <1> HIDE DEF Before
  <1>3. PICK n \in T : \A m \in T : ~ (<<m, n>> \in Before)
    BY <1>1, WFMin
  <1>4. ASSUME NEW m \in T
        PROVE  n <= m
    <2>1. m \in Nat /\ n \in Nat
      OBVIOUS
    <2>2. ~(m < n)
      BY <1>2, <1>3, <2>1
    <2> QED BY <2>1, <2>2
  <1> QED BY <1>4

LEMMA SmallestSet ==
  ASSUME NEW S, IsFiniteSet(S), NEW F \in SUBSET (SUBSET S), F # {}
  PROVE  \E t \in F : \A u \in F : ~(u \subseteq t /\ u # t)
  <1> DEFINE R == StrictSubsetOrdering(S)
             D == FiniteSubsetsOf(S)
  <1>1. IsWellFoundedOn(R, D)
    BY FS_StrictSubsetOrderingWellFounded
  <1>2. F \subseteq D
    BY FS_Subset DEF FiniteSubsetsOf
  <1>3. \A u, t \in SUBSET S : u \subseteq t /\ u # t => <<u, t>> \in R
    BY DEF StrictSubsetOrdering
  <1> HIDE DEF R, D
  <1>4. PICK t \in F : \A u \in F : ~ (<<u, t>> \in R)
    BY <1>1, <1>2, WFMin
  <1> QED BY <1>3, <1>4

\* Induction over the natural numbers, with a set for the hypothesis.
LEMMA Induction ==
  ASSUME NEW S, 0 \in S, \A n \in Nat : n \in S => n + 1 \in S
  PROVE  Nat \subseteq S
  <1> SUFFICES ASSUME Nat \ S # {} PROVE FALSE
    OBVIOUS
  <1>1. PICK n \in Nat \ S : \A m \in Nat \ S : n <= m
    BY LeastNumber
  <1> QED BY <1>1

\* Induction over the subsets of a finite set: if a set has what all its
\* strict subsets have, all have it.
LEMMA SubsetInduction ==
  ASSUME NEW S, IsFiniteSet(S), NEW G,
         \A t \in SUBSET S : (\A u \in SUBSET S : u \subseteq t /\ u # t => u \in G) => t \in G
  PROVE  \A t \in SUBSET S : t \in G
  <1> SUFFICES ASSUME (SUBSET S) \ G # {} PROVE FALSE
    OBVIOUS
  <1> DEFINE F == (SUBSET S) \ G
  <1>1. F \in SUBSET (SUBSET S) /\ F # {}
    OBVIOUS
  <1> HIDE DEF F
  <1>2. PICK t \in F : \A u \in F : ~(u \subseteq t /\ u # t)
    BY <1>1, SmallestSet
  <1> QED BY <1>2 DEF F

-----------------------------------------------------------------------------
(* The recursion of MapThenSumSet, on functions *)

Pick(s) == CHOOSE x \in s : TRUE

SumStep(f, S, iter) ==
  [s \in SUBSET S |-> IF s = {} THEN 0 ELSE f[Pick(s)] + iter[s \ {Pick(s)}]]

Sums(f, S) == CHOOSE iter : iter = SumStep(f, S, iter)

\* The sum of f over S.
Sum(f, S) == Sums(f, S)[S]

LEMMA PickIn == ASSUME NEW s, s # {} PROVE Pick(s) \in s
  BY DEF Pick

LEMMA SumStepAt ==
  ASSUME NEW f, NEW S, NEW iter, iter = SumStep(f, S, iter), NEW s \in SUBSET S
  PROVE  iter[s] = IF s = {} THEN 0 ELSE f[Pick(s)] + iter[s \ {Pick(s)}]
  <1>1. SumStep(f, S, iter)[s] = IF s = {} THEN 0 ELSE f[Pick(s)] + iter[s \ {Pick(s)}]
    BY DEF SumStep
  <1> QED BY <1>1

\* The recursion has at most one solution at each set,
LEMMA SumsUnique ==
  ASSUME NEW f, NEW S, NEW T, IsFiniteSet(S), S \subseteq T,
         NEW g, g = SumStep(f, S, g), NEW h, h = SumStep(f, T, h)
  PROVE  \A s \in SUBSET S : g[s] = h[s]
  <1> DEFINE G == {s \in SUBSET S : g[s] = h[s]}
  <1>1. ASSUME NEW t \in SUBSET S,
               \A u \in SUBSET S : u \subseteq t /\ u # t => u \in G
        PROVE  t \in G
    <2>1. g[t] = IF t = {} THEN 0 ELSE f[Pick(t)] + g[t \ {Pick(t)}]
      BY SumStepAt
    <2>2. t \in SUBSET T
      OBVIOUS
    <2>3. h[t] = IF t = {} THEN 0 ELSE f[Pick(t)] + h[t \ {Pick(t)}]
      BY <2>2, SumStepAt
    <2>4. CASE t = {}
      BY <2>1, <2>3, <2>4
    <2>5. CASE t # {}
      <3>1. t \ {Pick(t)} \in G
        BY <1>1, <2>5, PickIn
      <3> QED BY <2>1, <2>3, <2>5, <3>1
    <2> QED BY <2>4, <2>5
  <1> HIDE DEF G
  <1>2. \A t \in SUBSET S : t \in G
    BY <1>1, SubsetInduction
  <1> QED BY <1>2 DEF G

\* and has one.
LEMMA SumsExist ==
  ASSUME NEW f, NEW S, IsFiniteSet(S)
  PROVE  \E iter : iter = SumStep(f, S, iter)
  <1> DEFINE Solved(t) == \E iter : iter = SumStep(f, t, iter)
             G == {t \in SUBSET S : Solved(t)}
  <1>1. ASSUME NEW t \in SUBSET S,
               \A u \in SUBSET S : u \subseteq t /\ u # t => u \in G
        PROVE  t \in G
    <2> DEFINE g == [s \in SUBSET t |-> IF s = {} THEN 0
                                          ELSE f[Pick(s)] + Sum(f, s \ {Pick(s)})]
    <2>1. ASSUME NEW u \in SUBSET t, u # t
          PROVE  Sum(f, u) = g[u]
      <3>1. u \in SUBSET S /\ IsFiniteSet(u)
        BY FS_Subset
      <3>2. Sums(f, u) = SumStep(f, u, Sums(f, u))
        <4>1. Solved(u)
          BY <1>1, <2>1, <3>1
        <4> QED BY <4>1 DEF Sums
      <3>3. Sum(f, u) = IF u = {} THEN 0 ELSE f[Pick(u)] + Sums(f, u)[u \ {Pick(u)}]
        BY <3>2, SumStepAt DEF Sum
      <3>4. CASE u = {}
        BY <3>3, <3>4
      <3>5. CASE u # {}
        <4> DEFINE v == u \ {Pick(u)}
        <4>1. v \subseteq u /\ v \in SUBSET S /\ v # t /\ v \subseteq t /\ IsFiniteSet(v)
          BY <2>1, <3>1, FS_Subset, PickIn
        <4>2. Sums(f, v) = SumStep(f, v, Sums(f, v))
          <5>1. Solved(v)
            BY <1>1, <4>1
          <5> QED BY <5>1 DEF Sums
        <4>3. \A s \in SUBSET v : Sums(f, v)[s] = Sums(f, u)[s]
          <5> HIDE DEF v
          <5> QED BY <3>2, <4>1, <4>2, SumsUnique
        <4>4. Sum(f, v) = Sums(f, u)[v]
          BY <4>3 DEF Sum
        <4>5. g[u] = f[Pick(u)] + Sum(f, v)
          BY <3>5
        <4> QED BY <3>3, <3>5, <4>4, <4>5
      <3> QED BY <3>4, <3>5
    <2>2. ASSUME NEW s \in SUBSET t
          PROVE  g[s] = IF s = {} THEN 0 ELSE f[Pick(s)] + g[s \ {Pick(s)}]
      <3>1. CASE s = {}
        BY <3>1
      <3>2. CASE s # {}
        <4>1. s \ {Pick(s)} \in SUBSET t /\ s \ {Pick(s)} # t
          BY <3>2, PickIn
        <4>2. Sum(f, s \ {Pick(s)}) = g[s \ {Pick(s)}]
          BY <2>1, <4>1
        <4>3. g[s] = f[Pick(s)] + Sum(f, s \ {Pick(s)})
          BY <3>2
        <4> HIDE DEF g
        <4> QED BY <3>2, <4>2, <4>3
      <3> QED BY <3>1, <3>2
    <2>3. g = [s \in SUBSET t |-> g[s]]
      OBVIOUS
    <2> HIDE DEF g
    <2>4. g = SumStep(f, t, g)
      BY <2>2, <2>3 DEF SumStep
    <2> QED BY <2>4
  <1> HIDE DEF G
  <1>2. \A t \in SUBSET S : t \in G
    BY <1>1, SubsetInduction
  <1> QED BY <1>2 DEF G

LEMMA SumsSolve ==
  ASSUME NEW f, NEW S, IsFiniteSet(S)
  PROVE  Sums(f, S) = SumStep(f, S, Sums(f, S))
  BY SumsExist DEF Sums

\* Whatever solves the recursion at S is the sum over S.
LEMMA SumsSolution ==
  ASSUME NEW f, NEW S, IsFiniteSet(S), NEW h, h = SumStep(f, S, h)
  PROVE  h[S] = Sum(f, S)
  <1> DEFINE g == Sums(f, S)
  <1>1. g = SumStep(f, S, g)
    BY SumsSolve
  <1> HIDE DEF g
  <1>2. \A s \in SUBSET S : h[s] = g[s]
    BY <1>1, SumsUnique
  <1> QED BY <1>2 DEF g, Sum

LEMMA SumEmpty == ASSUME NEW f PROVE Sum(f, {}) = 0
  <1>1. IsFiniteSet({})
    BY FS_EmptySet
  <1>2. Sums(f, {})[{}] = IF {} = {} THEN 0 ELSE f[Pick({})] + Sums(f, {})[{} \ {Pick({})}]
    BY <1>1, SumsSolve, SumStepAt
  <1> QED BY <1>2 DEF Sum

\* The chosen element taken away,
LEMMA SumPicked ==
  ASSUME NEW f, NEW S, IsFiniteSet(S), S # {}
  PROVE  Sum(f, S) = f[Pick(S)] + Sum(f, S \ {Pick(S)})
  <1> DEFINE u == S \ {Pick(S)}
  <1>1. u \in SUBSET S /\ IsFiniteSet(u)
    BY FS_Subset
  <1>2. Sums(f, S)[S] = f[Pick(S)] + Sums(f, S)[u]
    BY SumsSolve, SumStepAt
  <1>3. Sums(f, u)[u] = Sums(f, S)[u]
    <2> DEFINE g == Sums(f, u)
               h == Sums(f, S)
    <2>1. g = SumStep(f, u, g) /\ h = SumStep(f, S, h)
      BY <1>1, SumsSolve
    <2> HIDE DEF u, g, h
    <2>2. \A s \in SUBSET u : g[s] = h[s]
      BY <1>1, <2>1, SumsUnique
    <2> QED BY <2>2 DEF g, h
  <1> QED BY <1>2, <1>3 DEF Sum

LEMMA SumType ==
  ASSUME NEW N, N = Int \/ N = Nat,
         NEW f, NEW S, IsFiniteSet(S), \A x \in S : f[x] \in N
  PROVE  Sum(f, S) \in N
  <1> DEFINE G == {t \in SUBSET S : Sum(f, t) \in N}
  <1>1. ASSUME NEW t \in SUBSET S,
               \A u \in SUBSET S : u \subseteq t /\ u # t => u \in G
        PROVE  t \in G
    <2>1. CASE t = {}
      BY <2>1, SumEmpty
    <2>2. CASE t # {}
      <3>1. Pick(t) \in t /\ IsFiniteSet(t)
        BY <2>2, PickIn, FS_Subset
      <3>2. t \ {Pick(t)} \in G
        BY <1>1, <3>1
      <3>3. Sum(f, t) = f[Pick(t)] + Sum(f, t \ {Pick(t)})
        BY <2>2, <3>1, SumPicked
      <3> QED BY <3>1, <3>2, <3>3
    <2> QED BY <2>1, <2>2
  <1> HIDE DEF G
  <1>2. \A t \in SUBSET S : t \in G
    BY <1>1, SubsetInduction
  <1> QED BY <1>2 DEF G

\* and any element: the order in which a sum is taken does not matter.
LEMMA SumTaken ==
  ASSUME NEW f, NEW S, IsFiniteSet(S), \A y \in S : f[y] \in Int, NEW x \in S
  PROVE  Sum(f, S) = f[x] + Sum(f, S \ {x})
  <1> DEFINE G == {t \in SUBSET S : \A y \in t : Sum(f, t) = f[y] + Sum(f, t \ {y})}
  <1>1. ASSUME NEW t \in SUBSET S,
               \A u \in SUBSET S : u \subseteq t /\ u # t => u \in G
        PROVE  t \in G
    <2> SUFFICES ASSUME NEW y \in t PROVE Sum(f, t) = f[y] + Sum(f, t \ {y})
      OBVIOUS
    <2> DEFINE p == Pick(t)
               u == t \ {p}
               v == t \ {y}
               w == (t \ {p}) \ {y}
    <2>1. p \in t /\ IsFiniteSet(t)
      BY PickIn, FS_Subset
    <2>2. Sum(f, t) = f[p] + Sum(f, u)
      BY <2>1, SumPicked
    <2>3. CASE y = p
      BY <2>2, <2>3
    <2>4. CASE y # p
      <3>1. u \in G /\ v \in G
        BY <1>1, <2>1
      <3>2. y \in u /\ p \in v
        BY <2>1, <2>4
      <3>3. v \ {p} = w
        OBVIOUS
      <3>4. Sum(f, u) = f[y] + Sum(f, w)
        BY <3>1, <3>2
      <3>5. Sum(f, v) = f[p] + Sum(f, w)
        BY <3>1, <3>2, <3>3
      <3>6. Sum(f, w) \in Int /\ f[p] \in Int /\ f[y] \in Int
        BY <2>1, FS_Subset, SumType
      <3> HIDE DEF p, u, v, w
      <3>7. Sum(f, t) = f[y] + Sum(f, v)
        BY <2>2, <3>4, <3>5, <3>6
      <3> QED BY <3>7 DEF v
    <2> QED BY <2>3, <2>4
  <1> HIDE DEF G
  <1>2. \A t \in SUBSET S : t \in G
    BY <1>1, SubsetInduction
  <1> QED BY <1>2 DEF G

\* A sum looks at the values in its set only.
LEMMA SumSame ==
  ASSUME NEW S, IsFiniteSet(S), NEW f, NEW g, \A x \in S : f[x] = g[x]
  PROVE  Sum(f, S) = Sum(g, S)
  <1> DEFINE G == {t \in SUBSET S : Sum(f, t) = Sum(g, t)}
  <1>1. ASSUME NEW t \in SUBSET S,
               \A u \in SUBSET S : u \subseteq t /\ u # t => u \in G
        PROVE  t \in G
    <2>1. CASE t = {}
      BY <2>1, SumEmpty
    <2>2. CASE t # {}
      <3>1. Pick(t) \in t /\ IsFiniteSet(t)
        BY <2>2, PickIn, FS_Subset
      <3>2. t \ {Pick(t)} \in G
        BY <1>1, <3>1
      <3>3. /\ Sum(f, t) = f[Pick(t)] + Sum(f, t \ {Pick(t)})
            /\ Sum(g, t) = g[Pick(t)] + Sum(g, t \ {Pick(t)})
        BY <2>2, <3>1, SumPicked
      <3> QED BY <3>1, <3>2, <3>3
    <2> QED BY <2>1, <2>2
  <1> HIDE DEF G
  <1>2. \A t \in SUBSET S : t \in G
    BY <1>1, SubsetInduction
  <1> QED BY <1>2 DEF G

\* What a change of one value does to the sum, and what a transfer does.
LEMMA SumChanged ==
  ASSUME NEW S, IsFiniteSet(S), NEW f \in [S -> Int], NEW g \in [S -> Int], NEW x \in S,
         \A y \in S \ {x} : g[y] = f[y]
  PROVE  Sum(g, S) = Sum(f, S) + g[x] - f[x]
  <1> DEFINE u == S \ {x}
  <1>1. IsFiniteSet(u)
    BY FS_Subset
  <1>2. Sum(f, u) = Sum(g, u)
    BY <1>1, SumSame
  <1>3. Sum(f, S) = f[x] + Sum(f, u) /\ Sum(g, S) = g[x] + Sum(g, u)
    BY SumTaken
  <1>4. Sum(f, u) \in Int /\ f[x] \in Int /\ g[x] \in Int
    BY <1>1, SumType
  <1> HIDE DEF u
  <1> QED BY <1>2, <1>3, <1>4

LEMMA SumMoved ==
  ASSUME NEW S, IsFiniteSet(S), NEW f \in [S -> Int], NEW g \in [S -> Int],
         NEW x \in S, NEW y \in S \ {x},
         \A z \in S \ {x, y} : g[z] = f[z],
         g[x] + g[y] = f[x] + f[y]
  PROVE  Sum(g, S) = Sum(f, S)
  <1> DEFINE h == [f EXCEPT ![x] = g[x]]
  <1>1. h \in [S -> Int] /\ h[x] = g[x] /\ h[y] = f[y] /\ \A z \in S \ {x} : h[z] = f[z]
    OBVIOUS
  <1>2. \A z \in S \ {y} : g[z] = h[z]
    OBVIOUS
  <1> HIDE DEF h
  <1>3. Sum(h, S) = Sum(f, S) + h[x] - f[x]
    BY <1>1, SumChanged
  <1>4. Sum(g, S) = Sum(h, S) + g[y] - h[y]
    BY <1>1, <1>2, SumChanged
  <1>5. Sum(f, S) \in Int /\ f[x] \in Int /\ f[y] \in Int /\ g[x] \in Int /\ g[y] \in Int
    BY SumType
  <1> QED BY <1>1, <1>3, <1>4, <1>5

\* A sum of one value in a part of the set, and nothing elsewhere.
LEMMA SumConstant ==
  ASSUME NEW S, IsFiniteSet(S), NEW T, NEW w \in Nat,
         NEW f, \A x \in S : (x \in T => f[x] = w) /\ (x \notin T => f[x] = 0)
  PROVE  Sum(f, S) = Cardinality(S \cap T) * w
  <1> DEFINE G == {t \in SUBSET S : Sum(f, t) = Cardinality(t \cap T) * w}
  <1>1. ASSUME NEW t \in SUBSET S,
               \A u \in SUBSET S : u \subseteq t /\ u # t => u \in G
        PROVE  t \in G
    <2>1. CASE t = {}
      <3>1. Cardinality(t \cap T) = 0
        BY <2>1, FS_EmptySet
      <3> QED BY <2>1, <3>1, SumEmpty
    <2>2. CASE t # {}
      <3> DEFINE p == Pick(t)
                 u == t \ {p}
      <3>1. p \in t /\ IsFiniteSet(t) /\ IsFiniteSet(t \cap T)
        BY <2>2, PickIn, FS_Subset
      <3>2. Sum(f, u) = Cardinality(u \cap T) * w
        BY <1>1, <3>1
      <3>3. Sum(f, t) = f[p] + Sum(f, u)
        BY <2>2, <3>1, SumPicked
      <3>4. CASE p \notin T
        <4>1. u \cap T = t \cap T /\ f[p] = 0
          BY <3>1, <3>4
        <4>2. Cardinality(t \cap T) \in Nat
          BY <3>1, FS_CardinalityType
        <4> HIDE DEF p, u
        <4> DEFINE n == Cardinality(t \cap T)
        <4>3. n \in Nat /\ Sum(f, t) = 0 + n * w
          BY <3>2, <3>3, <4>1, <4>2
        <4> HIDE DEF n
        <4>4. Sum(f, t) = n * w
          BY <4>3
        <4> QED BY <4>4 DEF n
      <3>5. CASE p \in T
        <4>1. u \cap T = (t \cap T) \ {p} /\ f[p] = w
          BY <3>1, <3>5
        <4>2. Cardinality((t \cap T) \ {p}) = Cardinality(t \cap T) - 1
          BY <3>1, <3>5, FS_RemoveElement
        <4>3. Cardinality(t \cap T) \in Nat
          BY <3>1, FS_CardinalityType
        <4> HIDE DEF p, u
        <4> DEFINE n == Cardinality(t \cap T)
        <4>4. Sum(f, t) = w + (n - 1) * w
          BY <3>2, <3>3, <4>1, <4>2
        <4>5. n \in Nat
          BY <4>3
        <4> HIDE DEF n
        <4>6. w + (n - 1) * w = n * w
          BY <4>5
        <4>7. Sum(f, t) = n * w
          BY <4>4, <4>6
        <4> QED BY <4>7 DEF n
      <3> QED BY <3>4, <3>5
    <2> QED BY <2>1, <2>2
  <1> HIDE DEF G
  <1>2. \A t \in SUBSET S : t \in G
    BY <1>1, SubsetInduction
  <1> QED BY <1>2 DEF G

\* One element in the place of another of the same value leaves the sum.
LEMMA SumReplaced ==
  ASSUME NEW S, IsFiniteSet(S), NEW x \in S, NEW y, y \notin S \ {x},
         NEW f, \A z \in S : f[z] \in Int, f[y] = f[x]
  PROVE  Sum(f, (S \ {x}) \cup {y}) = Sum(f, S)
  <1> DEFINE u == S \ {x}
             T == u \cup {y}
  <1>1. IsFiniteSet(u) /\ IsFiniteSet(T)
    BY FS_RemoveElement, FS_AddElement
  <1>2. T \ {y} = u /\ y \in T /\ \A z \in T : f[z] \in Int
    OBVIOUS
  <1>3. Sum(f, S) = f[x] + Sum(f, u)
    BY SumTaken
  <1> HIDE DEF u, T
  <1>4. Sum(f, T) = f[y] + Sum(f, u)
    BY <1>1, <1>2, SumTaken
  <1> QED BY <1>3, <1>4 DEF T, u

-----------------------------------------------------------------------------
(* Recursion over the natural numbers.  h[n] takes the value at n to the   *)
(* one at n + 1.                                                           *)

\* The beginnings of length n + 1 of such a recursion from a.
Begun(S, a, h, n) ==
  {f \in [0..n -> S] : f[0] = a /\ \A i \in 0..n-1 : f[i + 1] = h[i][f[i]]}

\* Two beginnings agree as far as both go.
LEMMA BegunUnique ==
  ASSUME NEW S, NEW a, NEW h, NEW m \in Nat, NEW n \in Nat,
         NEW f \in Begun(S, a, h, m), NEW g \in Begun(S, a, h, n)
  PROVE  \A i \in Nat : i <= m /\ i <= n => f[i] = g[i]
  <1> DEFINE G == {i \in Nat : i <= m /\ i <= n => f[i] = g[i]}
  <1>1. 0 \in G
    BY DEF Begun
  <1>2. ASSUME NEW i \in Nat, i \in G
        PROVE  i + 1 \in G
    <2> SUFFICES ASSUME i + 1 <= m, i + 1 <= n PROVE f[i + 1] = g[i + 1]
      OBVIOUS
    <2>1. f[i] = g[i]
      BY <1>2
    <2>2. i \in 0..m-1 /\ i \in 0..n-1
      OBVIOUS
    <2> QED BY <2>1, <2>2 DEF Begun
  <1> HIDE DEF G
  <1>3. Nat \subseteq G
    BY <1>1, <1>2, Induction
  <1> QED BY <1>3 DEF G

\* There is a beginning of every length.
LEMMA BegunExists ==
  ASSUME NEW S, NEW a \in S, NEW h \in [Nat -> [S -> S]]
  PROVE  \A n \in Nat : Begun(S, a, h, n) # {}
  <1> DEFINE G == {n \in Nat : Begun(S, a, h, n) # {}}
  <1>1. 0 \in G
    <2>1. [i \in 0..0 |-> a] \in Begun(S, a, h, 0)
      BY DEF Begun
    <2> QED BY <2>1
  <1>2. ASSUME NEW n \in Nat, n \in G
        PROVE  n + 1 \in G
    <2>1. PICK f : f \in Begun(S, a, h, n)
      BY <1>2
    <2> DEFINE g == [i \in 0..n + 1 |-> IF i = n + 1 THEN h[n][f[n]] ELSE f[i]]
    <2>2. f \in [0..n -> S] /\ f[0] = a /\ \A i \in 0..n-1 : f[i + 1] = h[i][f[i]]
      BY <2>1 DEF Begun
    <2>3. h[n][f[n]] \in S
      BY <2>2
    <2>4. g \in [0..n + 1 -> S]
      BY <2>2, <2>3
    <2>5. g[0] = a
      BY <2>2
    <2>6. \A i \in 0..n : g[i + 1] = h[i][g[i]]
      <3> TAKE i \in 0..n
      <3>1. CASE i = n
        BY <3>1
      <3>2. CASE i # n
        BY <2>2, <3>2
      <3> QED BY <3>1, <3>2
    <2> HIDE DEF g
    <2>7. g \in Begun(S, a, h, n + 1)
      BY <2>4, <2>5, <2>6 DEF Begun
    <2> QED BY <2>7
  <1> HIDE DEF G
  <1>3. Nat \subseteq G
    BY <1>1, <1>2, Induction
  <1> QED BY <1>3 DEF G

\* f is such a recursion in full.
Follows(S, a, h, f) ==
  f \in [Nat -> S] /\ f[0] = a /\ \A n \in Nat : f[n + 1] = h[n][f[n]]

\* It can be followed for ever.
LEMMA Recursion ==
  ASSUME NEW S, NEW a, a \in S, NEW h, h \in [Nat -> [S -> S]]
  PROVE  \E f : Follows(S, a, h, f)
  <1> DEFINE b(n) == CHOOSE f : f \in Begun(S, a, h, n)
             F == [n \in Nat |-> b(n)[n]]
  <1>1. ASSUME NEW n \in Nat
        PROVE  b(n) \in Begun(S, a, h, n)
    BY BegunExists
  <1>2. ASSUME NEW n \in Nat
        PROVE  /\ b(n) \in [0..n -> S]
               /\ b(n)[0] = a
               /\ \A i \in 0..n-1 : b(n)[i + 1] = h[i][b(n)[i]]
    <2> HIDE DEF b
    <2> QED BY <1>1 DEF Begun
  <1>3. ASSUME NEW n \in Nat
        PROVE  b(n + 1)[n] = b(n)[n]
    <2>1. b(n) \in Begun(S, a, h, n) /\ b(n + 1) \in Begun(S, a, h, n + 1)
      BY <1>1
    <2> HIDE DEF b
    <2> QED BY <2>1, BegunUnique
  <1> HIDE DEF b
  <1>4. F \in [Nat -> S]
    BY <1>2
  <1>5. F[0] = a
    BY <1>2
  <1>6. ASSUME NEW n \in Nat
        PROVE  F[n + 1] = h[n][F[n]]
    <2>1. b(n + 1)[n + 1] = h[n][b(n + 1)[n]]
      BY <1>2
    <2> QED BY <1>3, <2>1
  <1> HIDE DEF F
  <1> QED BY <1>4, <1>5, <1>6 DEF Follows


\* A step that does not depend on n can be repeated for ever.
LEMMA Iterates ==
  ASSUME NEW S, NEW a \in S, NEW step \in [S -> S]
  PROVE  \E g \in [Nat -> S] : g[0] = a /\ \A n \in Nat : g[n + 1] = step[g[n]]
  <1> DEFINE h == [n \in Nat |-> step]
  <1>1. h \in [Nat -> [S -> S]]
    OBVIOUS
  <1>2. \A n \in Nat : h[n] = step
    OBVIOUS
  <1> HIDE DEF h
  <1>3. PICK g : Follows(S, a, h, g)
    BY <1>1, Recursion
  <1> QED BY <1>2, <1>3 DEF Follows

\* The same in the form a recursive definition has.
Iterated(a, step, g) == [n \in Nat |-> IF n = 0 THEN a ELSE step[g[n - 1]]]

\* A recursive function has the equation it is defined by.
LEMMA Iteration ==
  ASSUME NEW S, NEW a, a \in S, NEW step, step \in [S -> S]
  PROVE  \E g : g = Iterated(a, step, g)
  <1> DEFINE Rec(g) == [n \in Nat |-> IF n = 0 THEN a ELSE step[g[n - 1]]]
  <1>2. PICK g \in [Nat -> S] : g[0] = a /\ \A n \in Nat : g[n + 1] = step[g[n]]
    BY Iterates
  <1>3. \A n \in Nat : g[n] = Rec(g)[n]
    <2> TAKE n \in Nat
    <2>1. CASE n = 0
      BY <1>2, <2>1
    <2>2. CASE n # 0
      <3>1. n - 1 \in Nat /\ (n - 1) + 1 = n
        BY <2>2
      <3>2. g[n] = step[g[n - 1]]
        BY <1>2, <3>1
      <3> QED BY <2>2, <3>2
    <2> QED BY <2>1, <2>2
  <1>4. g = Rec(g)
    BY <1>3
  <1> QED BY <1>4 DEF Iterated

\* g follows h for n steps, in the form a recursive definition has.
FollowsTo(S, n, a, h, g) ==
  /\ g \in [0..n -> S]
  /\ \A i \in 0..n : g[i] = IF i = 0 THEN a ELSE h[i][g[i - 1]]

\* A recursion of n steps has a solution.
LEMMA BoundedRecursion ==
  ASSUME NEW S, NEW n \in Nat, NEW a, a \in S, NEW h, h \in [1..n -> [S -> S]]
  PROVE  \E g : FollowsTo(S, n, a, h, g)
  <1> DEFINE k == [m \in Nat |-> IF m + 1 \in 1..n THEN h[m + 1] ELSE [x \in S |-> x]]
  <1>1. k \in [Nat -> [S -> S]]
    OBVIOUS
  <1>2. \A m \in Nat : m + 1 <= n => k[m] = h[m + 1]
    OBVIOUS
  <1> HIDE DEF k
  <1>3. PICK f : Follows(S, a, k, f)
    BY <1>1, Recursion
  <1> DEFINE g == [i \in 0..n |-> f[i]]
  <1>4. f \in [Nat -> S] /\ f[0] = a /\ \A m \in Nat : f[m + 1] = k[m][f[m]]
    BY <1>3 DEF Follows
  <1>5. g \in [0..n -> S]
    BY <1>4
  <1>6. \A i \in 0..n : g[i] = IF i = 0 THEN a ELSE h[i][g[i - 1]]
    <2> TAKE i \in 0..n
    <2>1. CASE i = 0
      BY <1>4, <2>1
    <2>2. CASE i # 0
      <3>1. i - 1 \in Nat /\ (i - 1) + 1 = i /\ i <= n /\ i - 1 \in 0..n
        BY <2>2
      <3>2. f[i] = k[i - 1][f[i - 1]] /\ k[i - 1] = h[i]
        BY <1>2, <1>4, <3>1
      <3> QED BY <2>2, <3>1, <3>2
    <2> QED BY <2>1, <2>2
  <1> HIDE DEF g
  <1>7. FollowsTo(S, n, a, h, g)
    BY <1>5, <1>6 DEF FollowsTo
  <1> QED BY <1>7

\* Division with a remainder.
LEMMA Divided ==
  ASSUME NEW n \in Nat, NEW u \in Nat \ {0}
  PROVE  /\ n \div u \in Nat /\ n % u \in Nat /\ n % u < u
         /\ n = u * (n \div u) + (n % u)
  OBVIOUS

=============================================================================
