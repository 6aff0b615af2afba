-------------------------- MODULE AlgorithmProofs --------------------------
(***************************************************************************)
(* Proofs about the pure algorithms, for every input: that a build by the  *)
(* plan of the incremental planner equals a full one, that readiness is    *)
(* what all dependencies allow and the validator agrees with it, that only *)
(* transactions that lock the repository first close a circle, that an     *)
(* upgraded database is whole, that the code graph is closed and has every *)
(* resolved reference, that an impact report shows what is nearest in the  *)
(* graph, that evidence is ranked and selected fairly, and that views and  *)
(* pages of the graph are what they say.                                   *)
(***************************************************************************)
EXTENDS AlgorithmInvariants,
        FiniteSetTheorems, SequenceTheorems, WellFoundedInduction, TLAPS

---------------------------------------------------------------------------
(* Induction, and least and greatest numbers. *)

\* A set of numbers that has 0 and, with each number, the next has them all: if not,
\* no interval 0..n up to one that is missing would be least in the well-founded order
\* of the finite sets.
LEMMA SetInduction ==
  ASSUME NEW S, 0 \in S, \A n \in Nat : n \in S => n + 1 \in S
  PROVE  \A n \in Nat : n \in S
  <1> SUFFICES ASSUME NEW m \in Nat, m \notin S PROVE FALSE OBVIOUS
  <1> DEFINE T == {0..n : n \in {k \in Nat : k \notin S}}
  <1>1. T \subseteq FiniteSubsetsOf(Nat)
    <2>1. ASSUME NEW n \in Nat PROVE 0..n \in FiniteSubsetsOf(Nat)
      BY FS_Interval DEF FiniteSubsetsOf
    <2> QED BY <2>1
  <1>2. T # {} OBVIOUS
  <1>3. PICK x \in T : \A y \in T : ~ (<<y, x>> \in StrictSubsetOrdering(Nat))
    <2> HIDE DEF T
    <2> QED BY <1>1, <1>2, WFMin, FS_StrictSubsetOrderingWellFounded
  <1>4. PICK n \in Nat : n \notin S /\ x = 0..n BY <1>3
  <1>5. n # 0 /\ n - 1 \in Nat /\ n - 1 \notin S BY <1>4
  <1>6. 0..(n - 1) \in T BY <1>5
  <1>7. <<0..(n - 1), x>> \in StrictSubsetOrdering(Nat)
    <2>1. 0..(n - 1) \in SUBSET Nat /\ 0..n \in SUBSET Nat /\ 0..(n - 1) \subseteq 0..n
      BY <1>4, <1>5
    <2>2. n \in 0..n /\ n \notin 0..(n - 1) BY <1>4, <1>5
    <2> QED BY <2>1, <2>2, <1>4 DEF StrictSubsetOrdering
  <1> QED BY <1>3, <1>6, <1>7

\* A finite set of numbers that is not empty has a greatest one.
LEMMA MaxOfFinite ==
  ASSUME NEW T \in SUBSET Nat, IsFiniteSet(T), T # {}
  PROVE  Max(T) \in T
  <1> DEFINE above(x) == {y \in T : y > x}
             F == {above(x) : x \in T}
  <1>1. F \subseteq FiniteSubsetsOf(T)
    <2>1. ASSUME NEW x \in T PROVE above(x) \in FiniteSubsetsOf(T)
      BY FS_Subset DEF FiniteSubsetsOf
    <2> QED BY <2>1
  <1>2. F # {} OBVIOUS
  <1>3. PICK u \in F : \A v \in F : ~ (<<v, u>> \in StrictSubsetOrdering(T))
    <2> HIDE DEF F
    <2> QED BY <1>1, <1>2, WFMin, FS_StrictSubsetOrderingWellFounded
  <1>4. PICK x \in T : u = above(x) OBVIOUS
  <1>5. ASSUME NEW y \in T, y > x PROVE FALSE
    <2>1. above(y) \in F OBVIOUS
    <2>2. above(y) \subseteq above(x) /\ y \in above(x) /\ y \notin above(y)
      <3>1. y \in Nat /\ x \in Nat /\ ~ (y > y) OBVIOUS
      <3>2. ASSUME NEW z \in T, z > y PROVE z > x BY <1>5, <3>1, <3>2
      <3> QED BY <1>5, <3>1, <3>2
    <2>3. above(y) \in SUBSET T /\ above(x) \in SUBSET T OBVIOUS
    <2> HIDE DEF above
    <2>4. <<above(y), above(x)>> \in StrictSubsetOrdering(T)
      BY <2>2, <2>3 DEF StrictSubsetOrdering
    <2> QED BY <1>3, <1>4, <2>1, <2>4
  <1>6. \A y \in T : x >= y BY <1>5
  <1> QED BY <1>6 DEF Max

\* A set of numbers that is not empty has a least one.
LEMMA LeastOfNonempty ==
  ASSUME NEW T \in SUBSET Nat, T # {}
  PROVE  \E x \in T : \A y \in T : x <= y
  <1> SUFFICES ASSUME \A x \in T : \E y \in T : y < x PROVE FALSE OBVIOUS
  <1> DEFINE S == {n \in Nat : \A x \in T : x > n}
  <1>1. 0 \in S OBVIOUS
  <1>2. ASSUME NEW n \in Nat, n \in S PROVE n + 1 \in S
    <2> SUFFICES ASSUME NEW x \in T PROVE x > n + 1 OBVIOUS
    <2>1. PICK y \in T : y < x OBVIOUS
    <2>2. y > n /\ y \in Nat /\ x \in Nat BY <1>2
    <2> QED BY <2>1, <2>2
  <1>3. \A n \in Nat : n \in S
    <2> HIDE DEF S
    <2> QED BY <1>1, <1>2, SetInduction
  <1>4. PICK x \in T : x \in Nat OBVIOUS
  <1> QED BY <1>3, <1>4

\* What a function from a finite set covers is finite, and so is a finite union of finite sets.
LEMMA CoverIsFinite ==
  ASSUME NEW S, IsFiniteSet(S), NEW f, NEW T, Covers(f, S, T)
  PROVE  IsFiniteSet(T)
  <1> DEFINE g == [s \in S |-> f[s]]
             I == {f[s] : s \in S}
  <1>1. g \in Surjection(S, I) BY DEF Surjection
  <1>2. T \subseteq I BY DEF Covers
  <1> HIDE DEF g, I
  <1> QED BY <1>1, <1>2, FS_Surjection, FS_Subset

LEMMA IntervalIsFinite == \A n \in Nat : IsFiniteSet(0..n) /\ IsFiniteSet(1..n)
  BY FS_Interval

LEMMA UnionIsFinite ==
  ASSUME NEW S, IsFiniteSet(S), NEW f, AreFinite(f, S)
  PROVE  IsFiniteSet(UNION {f[s] : s \in S})
  <1> DEFINE T == {f[s] : s \in S}
  <1>1. Covers(f, S, T) BY DEF Covers
  <1>2. \A x \in T : IsFiniteSet(x) BY DEF AreFinite
  <1> HIDE DEF T
  <1>3. IsFiniteSet(T) BY <1>1, CoverIsFinite
  <1> QED BY <1>2, <1>3, FS_UNION DEF T

---------------------------------------------------------------------------
(* Searches.  The algorithms look further from a set step by step, in a     *)
(* function from the number of steps to what is reached.                    *)

\* There is such a function for every number of steps.
LEMMA IterationExists ==
  ASSUME NEW base, NEW st
  PROVE  \A n \in Nat : \E f : Iterates(base, st, n, f)
  <1> DEFINE S == {n \in Nat : \E f : Iterates(base, st, n, f)}
  <1>1. 0 \in S
    <2> DEFINE f == [k \in 0..0 |-> base]
    <2>1. Iterates(base, st, 0, f) BY DEF Iterates
    <2> QED BY <2>1
  <1>2. ASSUME NEW n \in Nat, n \in S PROVE n + 1 \in S
    <2>1. PICK f : Iterates(base, st, n, f) BY <1>2
    <2> DEFINE g == [k \in 0..(n + 1) |-> IF k = n + 1 THEN st[f[n]] ELSE f[k]]
    <2>2. ASSUME NEW k \in 0..(n + 1) PROVE g[k] = IF k = 0 THEN base ELSE st[g[k - 1]]
      <3>1. CASE k = n + 1
        <4>1. g[k - 1] = f[n] /\ g[k] = st[f[n]] /\ k # 0 BY <3>1
        <4> HIDE DEF g
        <4> QED BY <4>1, <3>1
      <3>2. CASE k \in 0..n
        <4>1. f[k] = IF k = 0 THEN base ELSE st[f[k - 1]] BY <2>1, <3>2 DEF Iterates
        <4>2. g[k] = f[k] /\ (k # 0 => g[k - 1] = f[k - 1]) BY <3>2
        <4> HIDE DEF g
        <4> QED BY <4>1, <4>2
      <3> QED BY <3>1, <3>2
    <2>3. Iterates(base, st, n + 1, g)
      <3>1. g = [k \in 0..(n + 1) |-> IF k = 0 THEN base ELSE st[g[k - 1]]] BY <2>2
      <3> HIDE DEF g
      <3> QED BY <3>1 DEF Iterates
    <2> HIDE DEF g
    <2> QED BY <2>3
  <1> QED
    <2> HIDE DEF S
    <2>1. \A n \in Nat : n \in S BY <1>1, <1>2, SetInduction
    <2> QED BY <2>1 DEF S

\* Two of them agree as far as both go.
LEMMA IterationAgrees ==
  ASSUME NEW base, NEW st, NEW n \in Nat, NEW m \in Nat,
         NEW f, Iterates(base, st, n, f), NEW g, Iterates(base, st, m, g)
  PROVE  \A k \in Nat : k <= n /\ k <= m => f[k] = g[k]
  <1> DEFINE S == {k \in Nat : k <= n /\ k <= m => f[k] = g[k]}
  <1>1. 0 \in S BY DEF Iterates
  <1>2. ASSUME NEW k \in Nat, k \in S PROVE k + 1 \in S
    <2> SUFFICES ASSUME k + 1 <= n, k + 1 <= m PROVE f[k + 1] = g[k + 1] OBVIOUS
    <2>1. f[k] = g[k] BY <1>2
    <2>2. k + 1 \in 0..n /\ k + 1 \in 0..m /\ k + 1 # 0 /\ (k + 1) - 1 = k OBVIOUS
    <2>3. f[k + 1] = st[f[k]] /\ g[k + 1] = st[g[k]] BY <2>2 DEF Iterates
    <2> QED BY <2>1, <2>3
  <1> QED
    <2> HIDE DEF S
    <2>1. \A k \in Nat : k \in S BY <1>1, <1>2, SetInduction
    <2> QED BY <2>1 DEF S

\* The sequence they are the beginnings of.
LEMMA IterateEquations ==
  ASSUME NEW base, NEW st
  PROVE  /\ Iterate(base, st, 0) = base
         /\ \A n \in Nat : Iterate(base, st, n + 1) = st[Iterate(base, st, n)]
  <1> DEFINE It(n) == CHOOSE f : Iterates(base, st, n, f)
  <1>1. ASSUME NEW n \in Nat PROVE Iterates(base, st, n, It(n)) BY IterationExists
  <1>2. Iterate(base, st, 0) = base
    <2> DEFINE f == It(0)
    <2>1. Iterates(base, st, 0, f) /\ Iterate(base, st, 0) = f[0] BY <1>1 DEF Iterate
    <2> HIDE DEF f
    <2> QED BY <2>1 DEF Iterates
  <1>3. ASSUME NEW n \in Nat PROVE Iterate(base, st, n + 1) = st[Iterate(base, st, n)]
    <2> DEFINE f == It(n)
               g == It(n + 1)
    <2>1. Iterates(base, st, n, f) /\ Iterates(base, st, n + 1, g) BY <1>1
    <2>2. Iterate(base, st, n) = f[n] /\ Iterate(base, st, n + 1) = g[n + 1]
      BY DEF Iterate
    <2> HIDE DEF f, g
    <2>3. f[n] = g[n] BY <2>1, IterationAgrees
    <2>4. g[n + 1] = st[g[n]]
      <3>1. n + 1 \in 0..(n + 1) /\ n + 1 # 0 /\ (n + 1) - 1 = n OBVIOUS
      <3> QED BY <2>1, <3>1 DEF Iterates
    <2> QED BY <2>2, <2>3, <2>4
  <1> QED BY <1>2, <1>3

\* What is reached stays in a set that the steps do not leave.
LEMMA IterateType ==
  ASSUME NEW U, NEW base \in SUBSET U, NEW st \in [SUBSET U -> SUBSET U]
  PROVE  \A n \in Nat : Iterate(base, st, n) \in SUBSET U
  <1> DEFINE S == {n \in Nat : Iterate(base, st, n) \in SUBSET U}
  <1>1. 0 \in S BY IterateEquations
  <1>2. ASSUME NEW n \in Nat, n \in S PROVE n + 1 \in S
    <2>1. Iterate(base, st, n) \in SUBSET U BY <1>2
    <2>2. Iterate(base, st, n + 1) = st[Iterate(base, st, n)] BY IterateEquations
    <2> QED BY <2>1, <2>2
  <1> QED
    <2> HIDE DEF S
    <2>1. \A n \in Nat : n \in S BY <1>1, <1>2, SetInduction
    <2> QED BY <2>1 DEF S

\* A search that only adds has found everything after as many steps as there is to find.
LEMMA IterateSaturates ==
  ASSUME NEW U, IsFiniteSet(U), NEW base \in SUBSET U, NEW st \in [SUBSET U -> SUBSET U],
         \A n \in Nat : Iterate(base, st, n) \subseteq Iterate(base, st, n + 1)
  PROVE  \A n \in Nat : n >= Cardinality(U) =>
           Iterate(base, st, n) = Iterate(base, st, Cardinality(U))
  <1> DEFINE it(n) == Iterate(base, st, n)
             S == {n \in Nat : Cardinality(it(n)) >= n \/ it(n + 1) = it(n)}
  <1>0. \A n \in Nat : it(n) \in SUBSET U /\ it(n + 1) = st[it(n)] /\ it(n) \subseteq it(n + 1)
    <2> SUFFICES ASSUME NEW n \in Nat
                 PROVE  it(n) \in SUBSET U /\ it(n + 1) = st[it(n)] /\ it(n) \subseteq it(n + 1)
      OBVIOUS
    <2>1. it(n) \in SUBSET U BY IterateType
    <2>2. it(n + 1) = st[it(n)] BY IterateEquations
    <2> QED BY <2>1, <2>2
  <1>1. \A n \in Nat : IsFiniteSet(it(n)) /\ Cardinality(it(n)) \in Nat
    BY <1>0, FS_Subset, FS_CardinalityType
  <1>2. 0 \in S BY <1>1
  <1>3. ASSUME NEW n \in Nat, n \in S PROVE n + 1 \in S
    <2>1. CASE it(n + 1) = it(n) BY <1>0, <2>1
    <2>2. CASE it(n + 1) # it(n)
      <3>1. Cardinality(it(n)) >= n BY <1>3, <2>2
      <3>2. Cardinality(it(n)) <= Cardinality(it(n + 1)) /\ Cardinality(it(n)) # Cardinality(it(n + 1))
        BY <1>0, <1>1, <2>2, FS_Subset
      <3> QED BY <1>1, <3>1, <3>2
    <2> QED BY <2>1, <2>2
  <1>4. \A n \in Nat : n \in S
    <2> HIDE DEF S
    <2> QED BY <1>2, <1>3, SetInduction
  <1>5. Cardinality(U) \in Nat BY FS_CardinalityType
  <1>6. ASSUME NEW n \in Nat, n >= Cardinality(U) PROVE it(n + 1) = it(n)
    <2>1. CASE Cardinality(it(n)) >= n
      <3>1. Cardinality(it(n)) = Cardinality(U)
        <4>1. Cardinality(it(n)) <= Cardinality(U) /\ Cardinality(it(n)) \in Nat
          BY <1>0, <1>1, FS_Subset
        <4> HIDE DEF it
        <4> QED BY <4>1, <1>5, <1>6, <2>1
      <3>2. it(n) = U BY <1>0, <3>1, FS_Subset
      <3> QED BY <1>0, <3>2
    <2> QED BY <1>4, <2>1
  <1> DEFINE R == {n \in Nat : n >= Cardinality(U) => it(n) = it(Cardinality(U))}
  <1>7. 0 \in R BY <1>5
  <1>8. ASSUME NEW n \in Nat, n \in R PROVE n + 1 \in R
    <2>1. CASE n >= Cardinality(U) BY <1>6, <1>8, <2>1
    <2>2. CASE n + 1 = Cardinality(U) BY <2>2
    <2> QED BY <1>5, <2>1, <2>2
  <1> QED
    <2> HIDE DEF R
    <2>1. \A n \in Nat : n \in R BY <1>7, <1>8, SetInduction
    <2> QED BY <2>1 DEF R

\* What a search has after n steps is what any function that follows its steps has.
LEMMA IterateIsUnique ==
  ASSUME NEW base, NEW st, NEW n \in Nat, NEW w, Iterates(base, st, n, w)
  PROVE  w[n] = Iterate(base, st, n)
  <1> DEFINE f == CHOOSE f : Iterates(base, st, n, f)
  <1>1. Iterates(base, st, n, f) /\ Iterate(base, st, n) = f[n]
    BY IterationExists DEF Iterate
  <1> HIDE DEF f
  <1> QED BY <1>1, IterationAgrees

LEMMA FoldExists ==
  ASSUME NEW S, NEW base \in S, NEW n \in Nat, NEW st \in [(1..n) \X S -> S]
  PROVE  \E f \in [0..n -> S] : Folds(base, st, n, f)
  <1> DEFINE T == {m \in Nat : m <= n => \E f \in [0..m -> S] : Folds(base, st, m, f)}
  <1>1. 0 \in T
    <2> DEFINE f == [k \in 0..0 |-> base]
    <2>1. f \in [0..0 -> S] /\ Folds(base, st, 0, f) BY DEF Folds
    <2> HIDE DEF f
    <2> QED BY <2>1
  <1>2. ASSUME NEW m \in Nat, m \in T PROVE m + 1 \in T
    <2> SUFFICES ASSUME m + 1 <= n PROVE \E f \in [0..(m + 1) -> S] : Folds(base, st, m + 1, f)
      OBVIOUS
    <2>1. PICK f \in [0..m -> S] : Folds(base, st, m, f) BY <1>2
    <2> DEFINE g == [k \in 0..(m + 1) |-> IF k = m + 1 THEN st[<<m + 1, f[m]>>] ELSE f[k]]
    <2>2. st[<<m + 1, f[m]>>] \in S OBVIOUS
    <2>3. ASSUME NEW k \in 0..(m + 1)
          PROVE  g[k] \in S /\ g[k] = IF k = 0 THEN base ELSE st[<<k, g[k - 1]>>]
      <3>1. CASE k = m + 1
        <4>1. g[k - 1] = f[m] /\ g[k] = st[<<m + 1, f[m]>>] /\ k # 0 BY <3>1
        <4> HIDE DEF g
        <4> QED BY <2>2, <3>1, <4>1
      <3>2. CASE k \in 0..m
        <4>1. f[k] \in S /\ f[k] = IF k = 0 THEN base ELSE st[<<k, f[k - 1]>>]
          BY <2>1, <3>2 DEF Folds
        <4>2. g[k] = f[k] /\ (k # 0 => g[k - 1] = f[k - 1]) BY <3>2
        <4> HIDE DEF g
        <4> QED BY <4>1, <4>2
      <3> QED BY <3>1, <3>2
    <2>4. g \in [0..(m + 1) -> S] /\ g = [k \in 0..(m + 1) |-> IF k = 0 THEN base ELSE st[<<k, g[k - 1]>>]]
      BY <2>3
    <2> HIDE DEF g
    <2> QED BY <2>4 DEF Folds
  <1> HIDE DEF T
  <1>3. n \in T BY <1>1, <1>2, SetInduction
  <1> QED BY <1>3 DEF T

---------------------------------------------------------------------------
(* The incremental planner. *)

LEMMA UsesStepType ==
  ASSUME NEW s
  PROVE  UsesStep(s) \in [SUBSET DOMAIN s -> SUBSET DOMAIN s]
  BY DEF UsesStep, UsesOf, DependenciesOf

LEMMA UsesToEquations ==
  ASSUME NEW s, NEW f \in DOMAIN s
  PROVE  /\ UsesTo(f, s, 0) = {f}
         /\ \A n \in Nat : /\ UsesTo(f, s, n) \in SUBSET DOMAIN s
                           /\ UsesTo(f, s, n + 1) = UsesOf(s, UsesTo(f, s, n))
  <1>1. UsesTo(f, s, 0) = {f} BY IterateEquations DEF UsesTo
  <1>2. ASSUME NEW n \in Nat PROVE UsesTo(f, s, n) \in SUBSET DOMAIN s
    BY UsesStepType, IterateType DEF UsesTo
  <1>3. ASSUME NEW n \in Nat PROVE UsesTo(f, s, n + 1) = UsesOf(s, UsesTo(f, s, n))
    <2>1. UsesTo(f, s, n + 1) = UsesStep(s)[UsesTo(f, s, n)]
      BY IterateEquations DEF UsesTo
    <2> QED BY <1>2, <2>1 DEF UsesStep
  <1> QED BY <1>1, <1>2, <1>3

LEMMA UsesIsWithin ==
  ASSUME NEW f, NEW s, NEW g, UsesWithin(f, s, g)
  PROVE  \E w : UsesWithin(f, s, w) /\ Uses(f, s) = w[Cardinality(DOMAIN s)]
  BY DEF Uses, UsesWithin, UsesOf

LEMMA UsesIsIterate ==
  ASSUME NEW s, IsFiniteSet(DOMAIN s), NEW f \in DOMAIN s
  PROVE  Uses(f, s) = UsesTo(f, s, Cardinality(DOMAIN s))
  <1> DEFINE N == Cardinality(DOMAIN s)
             it(n) == UsesTo(f, s, n)
             g == [n \in 0..N |-> it(n)]
  <1>1. N \in Nat BY FS_CardinalityType
  <1>2. it(0) = {f} /\ \A n \in Nat : it(n + 1) = UsesOf(s, it(n)) BY UsesToEquations
  <1> HIDE DEF N, it
  <1>3. UsesWithin(f, s, g)
    <2>1. ASSUME NEW n \in 0..N PROVE g[n] = IF n = 0 THEN {f} ELSE UsesOf(s, g[n - 1])
      <3>1. CASE n = 0 BY <1>1, <1>2, <3>1
      <3>2. CASE n # 0
        <4>1. n - 1 \in Nat /\ n - 1 \in 0..N /\ (n - 1) + 1 = n BY <1>1, <3>2
        <4>2. it(n) = UsesOf(s, it(n - 1)) BY <1>2, <4>1
        <4>3. g[n] = it(n) /\ g[n - 1] = it(n - 1) BY <4>1
        <4> HIDE DEF g
        <4> QED BY <3>2, <4>2, <4>3
      <3> QED BY <3>1, <3>2
    <2>2. g = [n \in 0..N |-> IF n = 0 THEN {f} ELSE UsesOf(s, g[n - 1])] BY <2>1
    <2> HIDE DEF g
    <2> QED BY <2>2 DEF UsesWithin, N
  <1> HIDE DEF g
  <1>4. PICK w : UsesWithin(f, s, w) /\ Uses(f, s) = w[N] BY <1>3, UsesIsWithin DEF N
  <1> DEFINE S == {n \in Nat : n <= N => w[n] = it(n)}
  <1>5. 0 \in S BY <1>1, <1>2, <1>4 DEF UsesWithin, N
  <1>6. ASSUME NEW n \in Nat, n \in S PROVE n + 1 \in S
    <2> SUFFICES ASSUME n + 1 <= N PROVE w[n + 1] = it(n + 1) OBVIOUS
    <2>1. n + 1 \in 0..N /\ n + 1 # 0 /\ (n + 1) - 1 = n /\ n <= N BY <1>1
    <2>2. w[n + 1] = UsesOf(s, w[n]) BY <1>4, <2>1 DEF UsesWithin, N
    <2> QED BY <1>2, <1>6, <2>1, <2>2
  <1>7. N \in S
    <2> HIDE DEF S
    <2> QED BY <1>1, <1>5, <1>6, SetInduction
  <1> QED BY <1>1, <1>4, <1>7 DEF it, N

\* Nothing that a file uses is further away than there are files.
LEMMA UsesSaturates ==
  ASSUME NEW s, IsFiniteSet(DOMAIN s), NEW f \in DOMAIN s, NEW n \in Nat, n >= Cardinality(DOMAIN s)
  PROVE  Uses(f, s) = UsesTo(f, s, n)
  <1>1. \A k \in Nat : Iterate({f}, UsesStep(s), k) \subseteq Iterate({f}, UsesStep(s), k + 1)
    <2> SUFFICES ASSUME NEW k \in Nat PROVE UsesTo(f, s, k) \subseteq UsesTo(f, s, k + 1)
      BY DEF UsesTo
    <2>1. UsesTo(f, s, k + 1) = UsesOf(s, UsesTo(f, s, k)) BY UsesToEquations
    <2> QED BY <2>1 DEF UsesOf
  <1>2. {f} \in SUBSET DOMAIN s /\ UsesStep(s) \in [SUBSET DOMAIN s -> SUBSET DOMAIN s]
    BY UsesStepType
  <1>3. Iterate({f}, UsesStep(s), n) = Iterate({f}, UsesStep(s), Cardinality(DOMAIN s))
    BY <1>1, <1>2, IterateSaturates
  <1> QED BY <1>3, UsesIsIterate DEF UsesTo

LEMMA AffectedIsWithin ==
  ASSUME NEW changes, NEW current, NEW dependencies, NEW n, NEW g,
         AffectedWithin(changes, current, dependencies, n, g)
  PROVE  \E w : /\ AffectedWithin(changes, current, dependencies, n, w)
                /\ Affected(changes, current, dependencies, n) = w[n]
  BY DEF Affected, AffectedWithin, AffectedOf

\* The search for affected files begins with the changed ones, and a step adds those
\* that depend on what was reached or on what is gone.
LEMMA AffectedEquations ==
  ASSUME NEW changes, NEW current, NEW dependencies, ChangedCurrent(changes) \subseteq DOMAIN current
  PROVE  /\ Affected(changes, current, dependencies, 0) = ChangedCurrent(changes)
         /\ \A n \in Nat :
              Affected(changes, current, dependencies, n + 1)
                = AffectedOf(changes, current, dependencies, Affected(changes, current, dependencies, n))
  <1> DEFINE C == ChangedCurrent(changes)
             D == DOMAIN current
             next(before) == AffectedOf(changes, current, dependencies, before)
             st == [before \in SUBSET D |-> next(before)]
             it(n) == Iterate(C, st, n)
             at(n) == Affected(changes, current, dependencies, n)
  <1>1. st \in [SUBSET D -> SUBSET D] BY DEF AffectedOf
  <1>2. it(0) = C /\ \A n \in Nat : it(n) \in SUBSET D /\ it(n + 1) = st[it(n)]
    <2> HIDE DEF st
    <2>1. it(0) = C /\ \A n \in Nat : it(n + 1) = st[it(n)] BY IterateEquations
    <2>2. \A n \in Nat : it(n) \in SUBSET D BY <1>1, IterateType
    <2> QED BY <2>1, <2>2
  <1> HIDE DEF it
  <1>3. \A n \in Nat : it(n + 1) = next(it(n)) BY <1>2
  <1> HIDE DEF st, next
  <1>4. ASSUME NEW N \in Nat PROVE at(N) = it(N)
    <2> DEFINE g == [n \in 0..N |-> it(n)]
    <2>1. ASSUME NEW n \in 0..N PROVE g[n] = IF n = 0 THEN C ELSE next(g[n - 1])
      <3>1. CASE n = 0 BY <1>2, <3>1
      <3>2. CASE n # 0
        <4>1. n - 1 \in Nat /\ n - 1 \in 0..N /\ (n - 1) + 1 = n BY <3>2
        <4>2. it(n) = next(it(n - 1)) BY <1>3, <4>1
        <4>3. g[n] = it(n) /\ g[n - 1] = it(n - 1) BY <4>1
        <4> HIDE DEF g
        <4> QED BY <3>2, <4>2, <4>3
      <3> QED BY <3>1, <3>2
    <2>2. g = [n \in 0..N |-> IF n = 0 THEN C ELSE next(g[n - 1])] BY <2>1
    <2> HIDE DEF g
    <2>3. AffectedWithin(changes, current, dependencies, N, g)
      BY <2>2 DEF AffectedWithin, next, C
    <2>4. PICK w : AffectedWithin(changes, current, dependencies, N, w) /\ at(N) = w[N]
      BY <2>3, AffectedIsWithin
    <2>5. \A n \in 0..N : w[n] = IF n = 0 THEN C ELSE next(w[n - 1])
      BY <2>4 DEF AffectedWithin, next, C
    <2> DEFINE S == {n \in Nat : n <= N => w[n] = it(n)}
    <2>6. 0 \in S
      <3>1. w[0] = C BY <2>5
      <3> QED BY <1>2, <3>1
    <2>7. ASSUME NEW n \in Nat, n \in S PROVE n + 1 \in S
      <3> SUFFICES ASSUME n + 1 <= N PROVE w[n + 1] = it(n + 1) OBVIOUS
      <3>1. n + 1 \in 0..N /\ n + 1 # 0 /\ (n + 1) - 1 = n /\ n <= N OBVIOUS
      <3>2. w[n + 1] = next(w[n]) BY <2>5, <3>1
      <3> QED BY <1>3, <2>7, <3>1, <3>2
    <2>8. N \in S
      <3> HIDE DEF S
      <3> QED BY <2>6, <2>7, SetInduction
    <2> QED BY <2>4, <2>8
  <1>5. at(0) = C BY <1>2, <1>4
  <1>6. ASSUME NEW n \in Nat PROVE at(n + 1) = next(at(n)) BY <1>3, <1>4
  <1> QED BY <1>5, <1>6 DEF at, next, C

\* What a plan leaves alone is in both snapshots, and the same.
LEMMA UnchangedOutsideFrontier ==
  ASSUME NEW previous, NEW current, IsSnapshot(previous), IsSnapshot(current),
         NEW h \in DOMAIN previous \cup DOMAIN current, h \notin Frontier(Changes(previous, current))
  PROVE  h \in DOMAIN previous /\ h \in DOMAIN current /\ previous[h] = current[h]
  <1> DEFINE ch == Changes(previous, current)
  <1>1. h # NoFile BY DEF IsSnapshot
  <1>2. \A c \in ch : c.old # h /\ c.new # h
    <2> SUFFICES ASSUME NEW c \in ch, c.old = h \/ c.new = h PROVE FALSE OBVIOUS
    <2>1. {c.old, c.new} \in {{x.old, x.new} : x \in ch} /\ h \in {c.old, c.new} OBVIOUS
    <2>2. h \in UNION {{x.old, x.new} : x \in ch} BY <2>1
    <2> QED BY <1>1, <2>2 DEF Frontier
  <1>3. ASSUME h \in Deleted(previous, current) PROVE FALSE
    <2>1. CASE \E m \in Moves(previous, current) : m[1] = h
      <3>1. PICK m \in Moves(previous, current) : m[1] = h BY <2>1
      <3>2. [old |-> m[1], new |-> m[2], kinds |-> {"moved"}] \in ch BY DEF Changes
      <3> QED BY <1>2, <3>1, <3>2
    <2>2. CASE h \notin {m[1] : m \in Moves(previous, current)}
      <3>1. [old |-> h, new |-> NoFile, kinds |-> {"deleted"}] \in ch
        BY <1>3, <2>2 DEF Changes
      <3> QED BY <1>2, <3>1
    <2> QED BY <2>1, <2>2
  <1>4. ASSUME h \in Added(previous, current) PROVE FALSE
    <2>1. CASE \E m \in Moves(previous, current) : m[2] = h
      <3>1. PICK m \in Moves(previous, current) : m[2] = h BY <2>1
      <3>2. [old |-> m[1], new |-> m[2], kinds |-> {"moved"}] \in ch BY DEF Changes
      <3> QED BY <1>2, <3>1, <3>2
    <2>2. CASE h \notin {m[2] : m \in Moves(previous, current)}
      <3>1. [old |-> NoFile, new |-> h, kinds |-> {"added"}] \in ch
        BY <1>4, <2>2 DEF Changes
      <3> QED BY <1>2, <3>1
    <2> QED BY <2>1, <2>2
  <1>5. h \in DOMAIN previous /\ h \in DOMAIN current BY <1>3, <1>4 DEF Deleted, Added
  <1>6. ChangedDimensions(previous[h], current[h]) = {}
    <2> SUFFICES ASSUME ChangedDimensions(previous[h], current[h]) # {} PROVE FALSE
      OBVIOUS
    <2>1. [old |-> h, new |-> h, kinds |-> ChangedDimensions(previous[h], current[h])] \in ch
      BY <1>5 DEF Changes
    <2> QED BY <1>2, <2>1
  <1>7. previous[h] = current[h]
    <2> DEFINE p == previous[h]
               c == current[h]
    <2>1. /\ p.documentation = c.documentation /\ p.structure = c.structure
          /\ p.public_api = c.public_api /\ p.dependency = c.dependency
      BY <1>6 DEF ChangedDimensions
    <2>2. p.content = c.content BY <1>6 DEF ChangedDimensions
    <2>3. /\ p = [content |-> p.content, documentation |-> p.documentation, structure |-> p.structure,
                  public_api |-> p.public_api, dependency |-> p.dependency]
          /\ c = [content |-> c.content, documentation |-> c.documentation, structure |-> c.structure,
                  public_api |-> c.public_api, dependency |-> c.dependency]
      BY <1>5 DEF IsSnapshot
    <2> HIDE DEF p, c
    <2>4. p = c BY <2>1, <2>2, <2>3
    <2> QED BY <2>4 DEF p, c
  <1> QED BY <1>5, <1>7

\* The files that are changed in the new snapshot are files of it.
LEMMA ChangedAreCurrent ==
  ASSUME NEW previous, NEW current
  PROVE  ChangedCurrent(Changes(previous, current)) \subseteq DOMAIN current
  <1> SUFFICES ASSUME NEW c \in Changes(previous, current), c.new # NoFile PROVE c.new \in DOMAIN current
    BY DEF ChangedCurrent
  <1> QED BY DEF Changes, Moves, Added

\* A file of the new snapshot that no change names is as it was.
LEMMA UnchangedCurrent ==
  ASSUME NEW previous, NEW current, IsSnapshot(previous), IsSnapshot(current),
         NEW f \in DOMAIN current, f \notin ChangedCurrent(Changes(previous, current))
  PROVE  f \in DOMAIN previous /\ previous[f] = current[f]
  <1> DEFINE ch == Changes(previous, current)
  <1>1. f # NoFile BY DEF IsSnapshot
  <1>2. \A c \in ch : c.new # f BY <1>1 DEF ChangedCurrent
  <1>3. f \in DOMAIN previous
    <2> SUFFICES ASSUME f \in Added(previous, current) PROVE FALSE BY DEF Added
    <2>1. CASE \E m \in Moves(previous, current) : m[2] = f
      <3>1. PICK m \in Moves(previous, current) : m[2] = f BY <2>1
      <3>2. [old |-> m[1], new |-> m[2], kinds |-> {"moved"}] \in ch BY DEF Changes
      <3> QED BY <1>2, <3>1, <3>2
    <2>2. CASE f \notin {m[2] : m \in Moves(previous, current)}
      <3>1. [old |-> NoFile, new |-> f, kinds |-> {"added"}] \in ch BY <2>2 DEF Changes
      <3> QED BY <1>2, <3>1
    <2> QED BY <2>1, <2>2
  <1>4. ASSUME NEW c \in ch, c.old = f PROVE FALSE
    <2>1. \/ \E g \in DOMAIN previous \cap DOMAIN current : c.old = g /\ c.new = g
          \/ \E m \in Moves(previous, current) : c.old = m[1]
          \/ c.old = NoFile
          \/ \E g \in Deleted(previous, current) : c.old = g
      BY DEF Changes
    <2>2. c.old \notin Deleted(previous, current) BY <1>4 DEF Deleted
    <2>3. ASSUME NEW m \in Moves(previous, current) PROVE m[1] \in Deleted(previous, current)
      BY DEF Moves
    <2> QED BY <1>1, <1>2, <1>4, <2>1, <2>2, <2>3
  <1>5. f \notin Frontier(ch) BY <1>2, <1>4 DEF Frontier
  <1> QED BY <1>3, <1>5, UnchangedOutsideFrontier

\* What is reused rests on nothing that changed: the search for affected files went
\* against the dependencies until nothing was added.
LEMMA ReusedUsesAreUnchanged ==
  ASSUME NEW previous, NEW current, IsSnapshot(previous), IsSnapshot(current),
         NEW W, ChangedCurrent(Changes(previous, current)) \subseteq W,
         W = AffectedOf(Changes(previous, current), current,
                        DependenciesOf(previous) \cup DependenciesOf(current), W),
         NEW f \in DOMAIN current \ W
  PROVE  /\ f \in DOMAIN previous
         /\ \A n \in Nat :
              /\ UsesTo(f, previous, n) = UsesTo(f, current, n)
              /\ \A g \in UsesTo(f, current, n) : previous[g] = current[g]
  <1> DEFINE ch == Changes(previous, current)
             same == {g \in DOMAIN current \ W : g \in DOMAIN previous /\ previous[g] = current[g]}
             S == {n \in Nat : UsesTo(f, previous, n) = UsesTo(f, current, n) /\ UsesTo(f, current, n) \subseteq same}
  <1>1. f \in same BY UnchangedCurrent
  <1>2. ASSUME NEW g \in same, NEW h, <<g, h>> \in DependenciesOf(previous) \cup DependenciesOf(current)
        PROVE  h \in same
    <2>1. h \notin W /\ h \notin Frontier(ch)
      <3> SUFFICES ASSUME h \in W \cup Frontier(ch) PROVE g \in W OBVIOUS
      <3>1. g \in Dependents(W \cup Frontier(ch), DependenciesOf(previous) \cup DependenciesOf(current))
        BY <1>2 DEF Dependents
      <3> QED BY <3>1 DEF AffectedOf
    <2>2. h \in DOMAIN previous \cup DOMAIN current BY <1>2 DEF DependenciesOf
    <2> QED BY <2>1, <2>2, UnchangedOutsideFrontier
  <1>3. ASSUME NEW g \in same, NEW h
        PROVE  <<g, h>> \in DependenciesOf(previous) <=> <<g, h>> \in DependenciesOf(current)
    <2>1. ASSUME <<g, h>> \in DependenciesOf(previous) PROVE <<g, h>> \in DependenciesOf(current)
      BY <1>2, <2>1 DEF DependenciesOf
    <2>2. ASSUME <<g, h>> \in DependenciesOf(current) PROVE <<g, h>> \in DependenciesOf(previous)
      BY <1>2, <2>2 DEF DependenciesOf
    <2> QED BY <2>1, <2>2
  <1>4. ASSUME NEW T \in SUBSET same
        PROVE  UsesOf(previous, T) = UsesOf(current, T) /\ UsesOf(current, T) \subseteq same
    <2> HIDE DEF same
    <2> DEFINE of(s) == {d[2] : d \in {d \in DependenciesOf(s) : d[1] \in T}}
    <2>1. ASSUME NEW s \in {previous, current}, NEW h
          PROVE  h \in of(s) <=> \E g \in T : <<g, h>> \in DependenciesOf(s)
      <3>1. ASSUME NEW d \in DependenciesOf(s) PROVE d = <<d[1], d[2]>>
        BY DEF DependenciesOf
      <3>2. ASSUME h \in of(s) PROVE \E g \in T : <<g, h>> \in DependenciesOf(s)
        <4>1. PICK d \in DependenciesOf(s) : d[1] \in T /\ h = d[2] BY <3>2
        <4> QED BY <3>1, <4>1
      <3>3. ASSUME NEW g \in T, <<g, h>> \in DependenciesOf(s) PROVE h \in of(s) BY <3>3
      <3> QED BY <3>2, <3>3
    <2>2. of(previous) = of(current) /\ of(current) \subseteq same BY <1>2, <1>3, <2>1
    <2> QED BY <2>2 DEF UsesOf
  <1>5. f \in DOMAIN previous /\ f \in DOMAIN current BY <1>1
  <1>6. 0 \in S
    <2> HIDE DEF same
    <2>1. UsesTo(f, previous, 0) = {f} /\ UsesTo(f, current, 0) = {f}
      BY <1>5, UsesToEquations
    <2> QED BY <1>1, <2>1
  <1>7. ASSUME NEW n \in Nat, n \in S PROVE n + 1 \in S
    <2> HIDE DEF same
    <2>1. /\ UsesTo(f, previous, n + 1) = UsesOf(previous, UsesTo(f, previous, n))
          /\ UsesTo(f, current, n + 1) = UsesOf(current, UsesTo(f, current, n))
      BY <1>5, UsesToEquations
    <2> QED BY <1>4, <1>7, <2>1
  <1>8. \A n \in Nat : n \in S
    <2> HIDE DEF S
    <2> QED BY <1>6, <1>7, SetInduction
  <1> QED BY <1>5, <1>8

LEMMA CompareIsCount ==
  ASSUME NEW full, NEW g, g = [part \in SUBSET DOMAIN full |-> CountUp(full, g, part)]
  PROVE  \E w : /\ w = [part \in SUBSET DOMAIN full |-> CountUp(full, w, part)]
                /\ Compare(full, full, 1).equivalent <=> w[DOMAIN full] = 0
  BY DEF Compare, FoldSet, MapThenFoldSet, CountUp, Chosen

\* Entries that agree are found to be equivalent.
LEMMA SameIsEquivalent ==
  ASSUME NEW facts
  PROVE  Compare([facts |-> facts], [facts |-> facts], 1).equivalent
  <1> DEFINE full == [facts |-> facts]
             F == {"facts"}
             g == [part \in SUBSET F |-> 0]
  <1>1. DOMAIN full = F /\ Cardinality(Mismatches(full["facts"], full["facts"])) = 0
    BY FS_EmptySet DEF Mismatches
  <1> HIDE DEF full
  <1>2. ASSUME NEW part \in SUBSET F, NEW it, it[{}] = 0 PROVE CountUp(full, it, part) = 0
    <2>1. CASE part = {} BY <2>1 DEF CountUp
    <2>2. CASE part = F BY <1>1, <1>2, <2>2 DEF Chosen, CountUp
    <2> QED BY <2>1, <2>2
  <1>3. g = [part \in SUBSET F |-> CountUp(full, g, part)] BY <1>2
  <1> HIDE DEF g
  <1>4. PICK w : /\ w = [part \in SUBSET DOMAIN full |-> CountUp(full, w, part)]
                 /\ Compare(full, full, 1).equivalent <=> w[DOMAIN full] = 0
    BY <1>1, <1>3, CompareIsCount
  <1>5. w[{}] = 0 BY <1>4 DEF CountUp
  <1>6. w[DOMAIN full] = 0 BY <1>1, <1>2, <1>4, <1>5
  <1> QED BY <1>4, <1>6 DEF full

\* A build that follows the plan equals a full one, whatever was edited, added, moved or
\* deleted, however dependencies chain or cycle, whatever the limits
\* (IncrementalPlanner.plan, compare).
THEOREM IncrementalBuildIsFull ==
  ASSUME NEW previous, NEW current, IsSnapshot(previous), IsSnapshot(current),
         NEW limits, limits.depth \in Nat
  PROVE  IncrementalEqualsFull(previous, current, limits)
  <1> DEFINE ch == Changes(previous, current)
             D == DependenciesOf(previous) \cup DependenciesOf(current)
             W == Affected(ch, current, D, limits.depth)
             plan == PlanOf(previous, current, limits)
             files == DOMAIN current
  <1> SUFFICES ASSUME plan.mode = "incremental"
               PROVE  Compare([facts |-> Build(current)],
                              [facts |-> BuildByPlan(plan, previous, current)], 1).equivalent
    BY DEF IncrementalEqualsFull
  <1>1. /\ plan.rebuild = W /\ plan.reuse = files \ W
        /\ Affected(ch, current, D, limits.depth + 1) = W
    BY DEF PlanOf, Plan, FullPlan
  <1>2. ChangedCurrent(ch) \subseteq files BY ChangedAreCurrent
  <1>3. W = AffectedOf(ch, current, D, W)
    <2>1. Affected(ch, current, D, limits.depth + 1)
            = AffectedOf(ch, current, D, Affected(ch, current, D, limits.depth))
      <3> HIDE DEF ch, D
      <3> QED BY <1>2, AffectedEquations
    <2> QED BY <1>1, <2>1
  <1>4. ChangedCurrent(ch) \subseteq W /\ W \subseteq files
    <2> DEFINE at(n) == Affected(ch, current, D, n)
               S == {n \in Nat : ChangedCurrent(ch) \subseteq at(n) /\ at(n) \subseteq files}
    <2>1. at(0) = ChangedCurrent(ch) /\ \A n \in Nat : at(n + 1) = AffectedOf(ch, current, D, at(n))
      <3> HIDE DEF ch, D
      <3> QED BY <1>2, AffectedEquations
    <2> HIDE DEF at, ch, D
    <2>2. 0 \in S BY <1>2, <2>1
    <2>3. ASSUME NEW n \in Nat, n \in S PROVE n + 1 \in S
      <3>1. at(n + 1) = AffectedOf(ch, current, D, at(n)) BY <2>1
      <3>2. ChangedCurrent(ch) \subseteq at(n) /\ at(n) \subseteq files BY <2>3
      <3>3. at(n) \subseteq at(n + 1) /\ at(n + 1) \subseteq files
        BY <3>1, <3>2 DEF AffectedOf
      <3> HIDE DEF at
      <3> QED BY <3>2, <3>3
    <2>4. limits.depth \in S
      <3> HIDE DEF S
      <3> QED BY <2>2, <2>3, SetInduction
    <2> QED BY <2>4 DEF at
  <1> HIDE DEF W, plan
  <1>5. ASSUME NEW f \in files \ W PROVE Build(previous)[f] = Build(current)[f]
    <2> DEFINE p == Cardinality(DOMAIN previous)
               c == Cardinality(DOMAIN current)
    <2>1. p \in Nat /\ c \in Nat BY FS_CardinalityType DEF IsSnapshot
    <2>2. PICK n \in Nat : n >= p /\ n >= c BY <2>1
    <2>0. /\ f \in DOMAIN previous
          /\ \A k \in Nat :
               /\ UsesTo(f, previous, k) = UsesTo(f, current, k)
               /\ \A g \in UsesTo(f, current, k) : previous[g] = current[g]
      <3>1. f \in DOMAIN current \ W BY <1>5
      <3>2. ChangedCurrent(Changes(previous, current)) \subseteq W BY <1>4
      <3> QED BY <1>3, <3>1, <3>2, ReusedUsesAreUnchanged
    <2>3. f \in DOMAIN previous /\ f \in DOMAIN current BY <1>5, <2>0
    <2>4. Uses(f, previous) = UsesTo(f, previous, n) /\ Uses(f, current) = UsesTo(f, current, n)
      BY <2>2, <2>3, UsesSaturates DEF IsSnapshot
    <2>5. /\ UsesTo(f, previous, n) = UsesTo(f, current, n)
          /\ \A g \in UsesTo(f, current, n) : previous[g] = current[g]
      BY <2>0
    <2>6. {<<g, previous[g]>> : g \in Uses(f, previous)} = {<<g, current[g]>> : g \in Uses(f, current)}
      BY <2>4, <2>5
    <2> QED BY <2>3, <2>6 DEF Build
  <1>6. BuildByPlan(plan, previous, current) = Build(current)
    <2>1. plan.rebuild \cup plan.reuse = files BY <1>1, <1>4
    <2>2. ASSUME NEW f \in files
          PROVE  (IF f \in plan.reuse THEN Build(previous)[f] ELSE Build(current)[f]) = Build(current)[f]
      BY <1>1, <1>5
    <2>3. BuildByPlan(plan, previous, current) = [f \in files |-> Build(current)[f]]
      BY <2>1, <2>2 DEF BuildByPlan
    <2>4. Build(current) = [f \in files |-> Build(current)[f]] BY DEF Build
    <2> QED BY <2>3, <2>4
  <1> QED BY <1>6, SameIsEquivalent

---------------------------------------------------------------------------
(* Capability readiness. *)

LEMMA ReachedAtEquations ==
  ASSUME NEW specs
  PROVE  /\ ReachedAt(specs, 0) = {}
         /\ \A k \in Nat : /\ ReachedAt(specs, k) \in SUBSET DOMAIN specs
                           /\ ReachedAt(specs, k + 1) = Available(specs, ReachedAt(specs, k))
                           /\ ReachedAt(specs, k) \subseteq ReachedAt(specs, k + 1)
  <1> DEFINE at(k) == ReachedAt(specs, k)
             S == {k \in Nat : at(k) \subseteq at(k + 1)}
  <1>1. AvailableStep(specs) \in [SUBSET DOMAIN specs -> SUBSET DOMAIN specs]
    BY DEF AvailableStep, Available
  <1>2. at(0) = {} BY IterateEquations DEF ReachedAt
  <1>3. \A k \in Nat : at(k) \in SUBSET DOMAIN specs BY <1>1, IterateType DEF ReachedAt
  <1>4. ASSUME NEW k \in Nat PROVE at(k + 1) = Available(specs, at(k))
    <2>1. at(k + 1) = AvailableStep(specs)[at(k)] BY IterateEquations DEF ReachedAt
    <2> QED BY <1>3, <2>1 DEF AvailableStep
  <1> HIDE DEF at
  <1>5. 0 \in S BY <1>2
  <1>6. ASSUME NEW k \in Nat, k \in S PROVE k + 1 \in S
    <2>1. at(k + 1) = Available(specs, at(k)) /\ at(k + 1 + 1) = Available(specs, at(k + 1))
      BY <1>4
    <2>2. at(k) \subseteq at(k + 1) BY <1>6
    <2> QED BY <2>1, <2>2 DEF Available
  <1>7. \A k \in Nat : k \in S
    <2> HIDE DEF S
    <2> QED BY <1>5, <1>6, SetInduction
  <1> QED BY <1>2, <1>3, <1>4, <1>7 DEF at

LEMMA ReachedIsWithin ==
  ASSUME NEW specs, NEW g, ReachedWithin(specs, g)
  PROVE  \E a : ReachedWithin(specs, a) /\ Reached(specs) = a[Cardinality(DOMAIN specs)]
  BY DEF Reached, ReachedWithin, Available

LEMMA ReachedIsIterate ==
  ASSUME NEW specs, IsFiniteSet(DOMAIN specs)
  PROVE  Reached(specs) = ReachedAt(specs, Cardinality(DOMAIN specs))
  <1> DEFINE N == Cardinality(DOMAIN specs)
             at(k) == ReachedAt(specs, k)
             g == [k \in 0..N |-> at(k)]
  <1>1. N \in Nat BY FS_CardinalityType
  <1>2. at(0) = {} /\ \A k \in Nat : at(k + 1) = Available(specs, at(k))
    BY ReachedAtEquations
  <1> HIDE DEF N, at
  <1>3. ReachedWithin(specs, g)
    <2>1. ASSUME NEW k \in 0..N PROVE g[k] = IF k = 0 THEN {} ELSE Available(specs, g[k - 1])
      <3>1. CASE k = 0 BY <1>1, <1>2, <3>1
      <3>2. CASE k # 0
        <4>1. k - 1 \in Nat /\ k - 1 \in 0..N /\ (k - 1) + 1 = k BY <1>1, <3>2
        <4>2. at(k) = Available(specs, at(k - 1)) BY <1>2, <4>1
        <4>3. g[k] = at(k) /\ g[k - 1] = at(k - 1) BY <4>1
        <4> HIDE DEF g
        <4> QED BY <3>2, <4>2, <4>3
      <3> QED BY <3>1, <3>2
    <2>2. g = [k \in 0..N |-> IF k = 0 THEN {} ELSE Available(specs, g[k - 1])] BY <2>1
    <2> HIDE DEF g
    <2> QED BY <2>2 DEF ReachedWithin, N
  <1> HIDE DEF g
  <1>4. PICK a : ReachedWithin(specs, a) /\ Reached(specs) = a[N]
    BY <1>3, ReachedIsWithin DEF N
  <1>5. \A k \in 0..N : a[k] = IF k = 0 THEN {} ELSE Available(specs, a[k - 1])
    BY <1>4 DEF ReachedWithin, N
  <1>6. \A k \in 0..N : a[k] \in SUBSET DOMAIN specs BY <1>5 DEF Available
  <1>7. Iterates({}, AvailableStep(specs), N, a)
    <2>1. ASSUME NEW k \in 0..N, k # 0 PROVE Available(specs, a[k - 1]) = AvailableStep(specs)[a[k - 1]]
      BY <1>1, <1>6, <2>1 DEF AvailableStep
    <2>2. a = [k \in 0..N |-> IF k = 0 THEN {} ELSE AvailableStep(specs)[a[k - 1]]]
      BY <1>4, <2>1 DEF ReachedWithin, N
    <2> QED BY <2>2 DEF Iterates
  <1> QED BY <1>1, <1>4, <1>7, IterateIsUnique DEF ReachedAt, N

\* Specs that are accepted use no name that has none.
LEMMA AcceptedUses ==
  ASSUME NEW specs, IsFiniteSet(DOMAIN specs), Accepted(specs)
  PROVE  \A n \in DOMAIN specs : specs[n].uses \subseteq DOMAIN specs
  <1>1. ReachedAt(specs, Cardinality(DOMAIN specs)) = DOMAIN specs
    BY ReachedIsIterate DEF Accepted
  <1>2. Cardinality(DOMAIN specs) \in Nat BY FS_CardinalityType
  <1>3. DOMAIN specs \subseteq Available(specs, DOMAIN specs)
    <2> DEFINE N == Cardinality(DOMAIN specs)
    <2>1. /\ ReachedAt(specs, N + 1) = Available(specs, ReachedAt(specs, N))
          /\ ReachedAt(specs, N) \subseteq ReachedAt(specs, N + 1)
      BY <1>2, ReachedAtEquations
    <2> QED BY <1>1, <2>1
  <1> QED BY <1>3 DEF Available

\* Specs are accepted exactly when their dependencies have an order, for any number of
\* capabilities (_dependency_order).
THEOREM AcceptedAreOrderable ==
  ASSUME NEW specs, IsFiniteSet(DOMAIN specs)
  PROVE  AcceptedIsOrderable(specs)
  <1> DEFINE D == DOMAIN specs
             N == Cardinality(D)
             at(k) == ReachedAt(specs, k)
  <1>1. N \in Nat BY FS_CardinalityType
  <1>2. /\ at(0) = {}
        /\ \A k \in Nat : /\ at(k) \in SUBSET D
                          /\ at(k + 1) = Available(specs, at(k))
                          /\ at(k) \subseteq at(k + 1)
    BY ReachedAtEquations
  <1>3. Accepted(specs) <=> at(N) = D BY ReachedIsIterate DEF Accepted
  <1> HIDE DEF at, N
  <1>4. ASSUME Accepted(specs)
        PROVE  \E rank \in [D -> 1..N] : \A n \in D : \A d \in specs[n].uses : rank[d] < rank[n]
    <2>1. ASSUME NEW n \in D PROVE \E k \in 1..N : n \in at(k) /\ n \notin at(k - 1)
      <3> SUFFICES ASSUME \A k \in 1..N : n \in at(k) => n \in at(k - 1) PROVE FALSE
        OBVIOUS
      <3> DEFINE S == {i \in Nat : i <= N => n \in at(N - i)}
      <3>1. 0 \in S BY <1>1, <1>3, <1>4
      <3>2. ASSUME NEW i \in Nat, i \in S PROVE i + 1 \in S
        <4> SUFFICES ASSUME i + 1 <= N PROVE n \in at(N - (i + 1)) OBVIOUS
        <4>1. N - i \in 1..N /\ (N - i) - 1 = N - (i + 1) /\ n \in at(N - i) BY <1>1, <3>2
        <4> QED BY <4>1
      <3>3. N \in S
        <4> HIDE DEF S
        <4> QED BY <1>1, <3>1, <3>2, SetInduction
      <3>4. N - N = 0 BY <1>1
      <3> QED BY <1>1, <1>2, <3>3, <3>4
    <2> DEFINE rank == [n \in D |-> CHOOSE k \in 1..N : n \in at(k) /\ n \notin at(k - 1)]
    <2>2. ASSUME NEW n \in D PROVE rank[n] \in 1..N /\ n \in at(rank[n]) /\ n \notin at(rank[n] - 1)
      BY <2>1
    <2>3. rank \in [D -> 1..N] BY <2>2
    <2> HIDE DEF rank
    <2>4. ASSUME NEW i \in Nat PROVE \A j \in Nat : at(i) \subseteq at(i + j)
      <3> DEFINE S == {j \in Nat : at(i) \subseteq at(i + j)}
      <3>1. 0 \in S OBVIOUS
      <3>2. ASSUME NEW j \in Nat, j \in S PROVE j + 1 \in S BY <1>2, <3>2
      <3> QED
        <4> HIDE DEF S
        <4>1. \A j \in Nat : j \in S BY <3>1, <3>2, SetInduction
        <4> QED BY <4>1 DEF S
    <2>5. ASSUME NEW n \in D, NEW d \in specs[n].uses PROVE rank[d] < rank[n]
      <3> DEFINE r == rank[n]
                 q == rank[d]
      <3>1. r \in 1..N /\ n \in at(r) /\ r - 1 \in Nat /\ (r - 1) + 1 = r BY <1>1, <2>2
      <3>2. specs[n].uses \subseteq at(r - 1) BY <1>2, <3>1 DEF Available
      <3>3. d \in at(r - 1) /\ d \in D BY <1>2, <3>1, <3>2
      <3>4. q \in 1..N /\ d \notin at(q - 1) /\ q - 1 \in Nat BY <1>1, <2>2, <3>3
      <3> HIDE DEF r, q
      <3>5. ASSUME r <= q PROVE FALSE
        <4>1. q - r \in Nat /\ (r - 1) + (q - r) = q - 1 BY <1>1, <3>1, <3>4, <3>5
        <4>2. at(r - 1) \subseteq at(q - 1) BY <2>4, <3>1, <4>1
        <4> QED BY <3>3, <3>4, <4>2
      <3>6. q < r BY <1>1, <3>1, <3>4, <3>5
      <3> QED BY <3>6 DEF r, q
    <2> QED BY <2>3, <2>5
  <1>5. ASSUME \A n \in D : specs[n].uses \subseteq D,
               NEW rank \in [D -> 1..N], \A n \in D : \A d \in specs[n].uses : rank[d] < rank[n]
        PROVE  Accepted(specs)
    <2> DEFINE S == {k \in Nat : \A n \in D : rank[n] <= k => n \in at(k)}
    <2>1. 0 \in S
      <3>1. ASSUME NEW n \in D, rank[n] <= 0 PROVE FALSE BY <1>1, <1>5, <3>1
      <3> QED BY <3>1
    <2>2. ASSUME NEW k \in Nat, k \in S PROVE k + 1 \in S
      <3>1. ASSUME NEW n \in D, rank[n] <= k + 1 PROVE n \in at(k + 1)
        <4>1. ASSUME NEW d \in specs[n].uses PROVE d \in at(k) BY <1>1, <1>5, <2>2, <3>1
        <4>2. at(k + 1) = Available(specs, at(k)) BY <1>2
        <4> QED BY <4>1, <4>2 DEF Available
      <3> QED BY <3>1
    <2>3. N \in S
      <3> HIDE DEF S
      <3> QED BY <1>1, <2>1, <2>2, SetInduction
    <2>4. ASSUME NEW n \in D PROVE n \in at(N) BY <1>1, <1>5, <2>3
    <2> QED BY <1>1, <1>2, <1>3, <2>4
  <1> QED BY <1>4, <1>5, AcceptedUses DEF AcceptedIsOrderable, N

LEMMA OwnIsState ==
  ASSUME NEW specs, NEW evidence, NEW n, NEW states
  PROVE  /\ Own(specs, evidence, n) \in States
         /\ Inherited(Own(specs, evidence, n), states) \in States
  <1>1. Own(specs, evidence, n) \in States BY DEF Own, OwnState, States
  <1> QED BY <1>1 DEF Inherited, States

LEMMA KnownIsReport ==
  ASSUME NEW specs, NEW evidence, NEW before
  PROVE  Known(specs, evidence, before) \in Reports(specs)
  <1> DEFINE S == Available(specs, DOMAIN before)
             known(n) == Inherited(Own(specs, evidence, n), {before[d] : d \in specs[n].uses})
  <1>1. S \in SUBSET DOMAIN specs BY DEF Available
  <1>2. \A n \in S : known(n) \in States BY OwnIsState
  <1>3. Known(specs, evidence, before) = [n \in S |-> known(n)] BY DEF Known
  <1> HIDE DEF S, known
  <1>4. Known(specs, evidence, before) \in [S -> States] BY <1>2, <1>3
  <1> QED BY <1>1, <1>4 DEF Reports

LEMMA KnownAtEquations ==
  ASSUME NEW specs, NEW evidence
  PROVE  /\ KnownAt(specs, evidence, 0) = <<>>
         /\ \A k \in Nat : /\ KnownAt(specs, evidence, k) \in Reports(specs)
                           /\ KnownAt(specs, evidence, k + 1)
                                = Known(specs, evidence, KnownAt(specs, evidence, k))
  <1> DEFINE at(k) == KnownAt(specs, evidence, k)
             S == {k \in Nat : at(k) \in Reports(specs)}
  <1>1. at(0) = <<>> /\ \A k \in Nat : at(k + 1) = KnownStep(specs, evidence)[at(k)]
    BY IterateEquations DEF KnownAt
  <1> HIDE DEF at
  <1>2. ASSUME NEW k \in Nat, at(k) \in Reports(specs)
        PROVE  at(k + 1) = Known(specs, evidence, at(k))
    BY <1>1, <1>2 DEF KnownStep
  <1>3. 0 \in S BY <1>1 DEF Reports
  <1>4. ASSUME NEW k \in Nat, k \in S PROVE k + 1 \in S BY <1>2, <1>4, KnownIsReport
  <1>5. \A k \in Nat : k \in S
    <2> HIDE DEF S
    <2> QED BY <1>3, <1>4, SetInduction
  <1> QED BY <1>1, <1>2, <1>5 DEF at

LEMMA ReadinessIsKnown ==
  ASSUME NEW specs, NEW evidence, NEW g, KnownWithin(specs, evidence, g)
  PROVE  \E w : /\ KnownWithin(specs, evidence, w)
                /\ Readiness(specs, evidence) = w[Cardinality(DOMAIN specs)]
  <1> DEFINE w == CHOOSE w : KnownWithin(specs, evidence, w)
  <1>1. KnownWithin(specs, evidence, w) OBVIOUS
  <1>2. Readiness(specs, evidence) = w[Cardinality(DOMAIN specs)]
    BY DEF Readiness, KnownWithin, Known, Available, Own
  <1> HIDE DEF w
  <1> QED BY <1>1, <1>2

LEMMA ReadinessIsIterate ==
  ASSUME NEW specs, IsFiniteSet(DOMAIN specs), NEW evidence
  PROVE  Readiness(specs, evidence) = KnownAt(specs, evidence, Cardinality(DOMAIN specs))
  <1> DEFINE N == Cardinality(DOMAIN specs)
             at(k) == KnownAt(specs, evidence, k)
             known(before) == Known(specs, evidence, before)
             g == [k \in 0..N |-> at(k)]
  <1>1. N \in Nat BY FS_CardinalityType
  <1>2. at(0) = <<>> /\ \A k \in Nat : at(k + 1) = known(at(k)) BY KnownAtEquations
  <1> HIDE DEF N, at, known
  <1>3. KnownWithin(specs, evidence, g)
    <2>1. ASSUME NEW k \in 0..N PROVE g[k] = IF k = 0 THEN <<>> ELSE known(g[k - 1])
      <3>1. CASE k = 0 BY <1>1, <1>2, <3>1
      <3>2. CASE k # 0
        <4>1. k - 1 \in Nat /\ k - 1 \in 0..N /\ (k - 1) + 1 = k BY <1>1, <3>2
        <4>2. at(k) = known(at(k - 1)) BY <1>2, <4>1
        <4>3. g[k] = at(k) /\ g[k - 1] = at(k - 1) BY <4>1
        <4> HIDE DEF g
        <4> QED BY <3>2, <4>2, <4>3
      <3> QED BY <3>1, <3>2
    <2>2. g = [k \in 0..N |-> IF k = 0 THEN <<>> ELSE known(g[k - 1])] BY <2>1
    <2> HIDE DEF g
    <2> QED BY <2>2 DEF KnownWithin, N, known
  <1> HIDE DEF g
  <1>4. PICK w : KnownWithin(specs, evidence, w) /\ Readiness(specs, evidence) = w[N]
    BY <1>3, ReadinessIsKnown DEF N
  <1>5. \A k \in 0..N : w[k] = IF k = 0 THEN <<>> ELSE known(w[k - 1])
    BY <1>4 DEF KnownWithin, N, known
  <1> DEFINE S == {k \in Nat : k <= N => w[k] = at(k)}
  <1>6. 0 \in S
    <2>1. w[0] = <<>> BY <1>1, <1>5
    <2> QED BY <1>2, <2>1
  <1>7. ASSUME NEW k \in Nat, k \in S PROVE k + 1 \in S
    <2> SUFFICES ASSUME k + 1 <= N PROVE w[k + 1] = at(k + 1) OBVIOUS
    <2>1. k + 1 \in 0..N /\ k + 1 # 0 /\ (k + 1) - 1 = k /\ k <= N BY <1>1
    <2>2. w[k + 1] = known(w[k]) BY <1>5, <2>1
    <2> QED BY <1>2, <1>7, <2>1, <2>2
  <1>8. N \in S
    <2> HIDE DEF S
    <2> QED BY <1>1, <1>6, <1>7, SetInduction
  <1> QED BY <1>1, <1>4, <1>8 DEF at, N

\* The capabilities of accepted specs have a state each, which follows from their own
\* and from those of their dependencies.
LEMMA ReadinessEquations ==
  ASSUME NEW specs, IsFiniteSet(DOMAIN specs), NEW evidence, Accepted(specs)
  PROVE  LET readiness == Readiness(specs, evidence)
         IN /\ DOMAIN readiness = DOMAIN specs
            /\ \A n \in DOMAIN specs :
                 /\ readiness[n] \in States
                 /\ readiness[n] = Inherited(Own(specs, evidence, n), {readiness[d] : d \in specs[n].uses})
  <1> DEFINE N == Cardinality(DOMAIN specs)
             at(k) == KnownAt(specs, evidence, k)
             known(before) == Known(specs, evidence, before)
             reached(k) == ReachedAt(specs, k)
  <1>1. N \in Nat BY FS_CardinalityType
  <1>2. at(0) = <<>> /\ \A k \in Nat : at(k + 1) = known(at(k)) BY KnownAtEquations
  <1>3. /\ reached(0) = {}
        /\ \A k \in Nat : /\ reached(k) \in SUBSET DOMAIN specs
                          /\ reached(k + 1) = Available(specs, reached(k))
                          /\ reached(k) \subseteq reached(k + 1)
    BY ReachedAtEquations
  <1>4. reached(N) = DOMAIN specs BY ReachedIsIterate DEF Accepted
  <1>5. Readiness(specs, evidence) = at(N) BY ReadinessIsIterate
  <1> HIDE DEF N, at, reached
  <1>6. ASSUME NEW before
        PROVE  /\ DOMAIN known(before) = Available(specs, DOMAIN before)
               /\ \A n \in Available(specs, DOMAIN before) :
                    known(before)[n] = Inherited(Own(specs, evidence, n), {before[d] : d \in specs[n].uses})
    BY DEF Known
  <1> HIDE DEF known
  <1>7. \A k \in Nat : DOMAIN at(k) = reached(k)
    <2> DEFINE S == {k \in Nat : DOMAIN at(k) = reached(k)}
    <2>1. 0 \in S
      <3>1. DOMAIN <<>> = {} OBVIOUS
      <3> QED BY <1>2, <1>3, <3>1
    <2>2. ASSUME NEW k \in Nat, k \in S PROVE k + 1 \in S BY <1>2, <1>3, <1>6, <2>2
    <2> QED
      <3> HIDE DEF S
      <3>1. \A k \in Nat : k \in S BY <2>1, <2>2, SetInduction
      <3> QED BY <3>1 DEF S
  <1>8. \A k \in Nat : \A n \in reached(k) : at(k + 1)[n] = at(k)[n]
    <2> DEFINE S == {k \in Nat : \A n \in reached(k) : at(k + 1)[n] = at(k)[n]}
    <2>1. 0 \in S BY <1>3
    <2>2. ASSUME NEW k \in Nat, k \in S PROVE k + 1 \in S
      <3> SUFFICES ASSUME NEW n \in reached(k + 1) PROVE at(k + 1 + 1)[n] = at(k + 1)[n]
        OBVIOUS
      <3>1. /\ at(k + 1) = known(at(k)) /\ at(k + 1 + 1) = known(at(k + 1))
            /\ DOMAIN at(k) = reached(k) /\ DOMAIN at(k + 1) = reached(k + 1)
        BY <1>2, <1>7
      <3>2. n \in Available(specs, reached(k)) /\ n \in Available(specs, reached(k + 1))
        BY <1>3 DEF Available
      <3>3. /\ at(k + 1)[n] = Inherited(Own(specs, evidence, n), {at(k)[d] : d \in specs[n].uses})
            /\ at(k + 1 + 1)[n] = Inherited(Own(specs, evidence, n), {at(k + 1)[d] : d \in specs[n].uses})
        BY <1>6, <3>1, <3>2
      <3>4. \A d \in specs[n].uses : at(k + 1)[d] = at(k)[d] BY <2>2, <3>2 DEF Available
      <3>5. {at(k)[d] : d \in specs[n].uses} = {at(k + 1)[d] : d \in specs[n].uses}
        BY <3>4
      <3> QED BY <3>3, <3>5
    <2> QED
      <3> HIDE DEF S
      <3>1. \A k \in Nat : k \in S BY <2>1, <2>2, SetInduction
      <3> QED BY <3>1 DEF S
  <1>9. DOMAIN at(N) = DOMAIN specs BY <1>1, <1>4, <1>7
  <1>10. ASSUME NEW n \in DOMAIN specs
         PROVE  at(N)[n] = Inherited(Own(specs, evidence, n), {at(N)[d] : d \in specs[n].uses})
    <2>1. n \in Available(specs, DOMAIN at(N)) BY <1>1, <1>3, <1>4, <1>9
    <2>2. at(N + 1) = known(at(N)) /\ at(N + 1)[n] = at(N)[n] BY <1>1, <1>2, <1>4, <1>8
    <2> QED BY <1>6, <2>1, <2>2
  <1>11. ASSUME NEW n \in DOMAIN specs PROVE at(N)[n] \in States
    <2>1. Inherited(Own(specs, evidence, n), {at(N)[d] : d \in specs[n].uses}) \in States
      BY OwnIsState
    <2> QED BY <1>10, <2>1
  <1> QED BY <1>5, <1>9, <1>10, <1>11

\* What a build hands over is valid exactly when its report allows the activation and
\* its artifacts are there, for any specs, evidence and artifacts
\* (CapabilityReadinessCalculator.calculate, CandidateValidator.validate).
THEOREM ReportsMatchValidator ==
  ASSUME NEW specs, IsFiniteSet(DOMAIN specs), NEW evidence, Accepted(specs), NEW made, NEW required
  PROVE  ReportMatchesValidator(specs, evidence, made, required)
  <1> DEFINE readiness == Readiness(specs, evidence)
             c == CandidateOf(specs, evidence, made, required)
             M == MandatoryOf(specs)
             needs(S) == UNION {specs[n].needs : n \in S}
  <1>1. DOMAIN readiness = DOMAIN specs BY ReadinessEquations
  <1> HIDE DEF readiness
  <1>2. /\ c.status = "ready" /\ c.summary = "passed" /\ c.issues = {} /\ c.declared = readiness
        /\ DOMAIN c.artifacts = made /\ DOMAIN c.readiness = DOMAIN specs
        /\ \A t \in made : c.artifacts[t].required <=> t \in required
        /\ \A n \in DOMAIN specs : /\ c.readiness[n].state = readiness[n]
                                   /\ c.readiness[n].needs = specs[n].needs
                                   /\ c.readiness[n].issueKnown
    BY DEF CandidateOf, readiness
  <1> HIDE DEF c
  <1>3. M \subseteq DOMAIN specs BY DEF MandatoryOf
  <1> HIDE DEF M
  <1>4. Required(c) = {t \in made : t \in required} BY <1>2 DEF Required
  <1>5. Summary(c) = "passed" BY <1>2 DEF Summary
  <1>6. Valid(c, M) <=> /\ \A n \in DOMAIN specs : specs[n].needs \subseteq made
                        /\ \A n \in M : readiness[n] \in Usable /\ specs[n].needs \subseteq Required(c)
    BY <1>1, <1>2, <1>3, <1>5 DEF Valid
  <1>7. (\A n \in DOMAIN specs : specs[n].needs \subseteq made) <=> needs(DOMAIN specs) \subseteq made
    OBVIOUS
  <1>8. (\A n \in M : specs[n].needs \subseteq required) <=> needs(M) \subseteq required
    OBVIOUS
  <1>9. Valid(c, M) <=> /\ \A n \in M : readiness[n] \in Usable
                        /\ needs(DOMAIN specs) \subseteq made
                        /\ needs(M) \subseteq required
    BY <1>3, <1>4, <1>6, <1>7, <1>8
  <1> QED BY <1>9 DEF ReportMatchesValidator, ActivationAllowed, c, M, readiness

LEMMA RestsEquations ==
  ASSUME NEW specs, \A m \in DOMAIN specs : specs[m].uses \subseteq DOMAIN specs, NEW n \in DOMAIN specs
  PROVE  /\ RestsStep(specs) \in [SUBSET DOMAIN specs -> SUBSET DOMAIN specs]
         /\ RestsAt(specs, n, 0) = {n}
         /\ \A k \in Nat : /\ RestsAt(specs, n, k) \in SUBSET DOMAIN specs
                           /\ RestsAt(specs, n, k + 1) = Rests(specs, RestsAt(specs, n, k))
  <1> DEFINE at(k) == RestsAt(specs, n, k)
  <1>1. RestsStep(specs) \in [SUBSET DOMAIN specs -> SUBSET DOMAIN specs]
    <2>1. ASSUME NEW before \in SUBSET DOMAIN specs PROVE Rests(specs, before) \in SUBSET DOMAIN specs
      BY DEF Rests
    <2> QED BY <2>1 DEF RestsStep
  <1>2. at(0) = {n} BY IterateEquations DEF RestsAt
  <1>3. \A k \in Nat : at(k) \in SUBSET DOMAIN specs BY <1>1, IterateType DEF RestsAt
  <1>4. ASSUME NEW k \in Nat PROVE at(k + 1) = Rests(specs, at(k))
    <2>1. at(k + 1) = RestsStep(specs)[at(k)] BY IterateEquations DEF RestsAt
    <2> QED BY <1>3, <2>1 DEF RestsStep
  <1> QED BY <1>1, <1>2, <1>3, <1>4

LEMMA ClosureIsWithin ==
  ASSUME NEW specs, NEW n, NEW g, RestsWithin(specs, n, g)
  PROVE  \E w : RestsWithin(specs, n, w) /\ Closure(specs, n) = w[Cardinality(DOMAIN specs)]
  <1> DEFINE w == CHOOSE w : RestsWithin(specs, n, w)
  <1>1. RestsWithin(specs, n, w) OBVIOUS
  <1>2. Closure(specs, n) = w[Cardinality(DOMAIN specs)]
    BY DEF Closure, RestsWithin, Rests
  <1> HIDE DEF w
  <1> QED BY <1>1, <1>2

LEMMA ClosureIsIterate ==
  ASSUME NEW specs, IsFiniteSet(DOMAIN specs), \A m \in DOMAIN specs : specs[m].uses \subseteq DOMAIN specs,
         NEW n \in DOMAIN specs
  PROVE  Closure(specs, n) = RestsAt(specs, n, Cardinality(DOMAIN specs))
  <1> DEFINE N == Cardinality(DOMAIN specs)
             at(k) == RestsAt(specs, n, k)
             rests(before) == Rests(specs, before)
             g == [k \in 0..N |-> at(k)]
  <1>1. N \in Nat BY FS_CardinalityType
  <1>2. at(0) = {n} /\ \A k \in Nat : at(k + 1) = rests(at(k)) BY RestsEquations
  <1> HIDE DEF N, at, rests
  <1>3. RestsWithin(specs, n, g)
    <2>1. ASSUME NEW k \in 0..N PROVE g[k] = IF k = 0 THEN {n} ELSE rests(g[k - 1])
      <3>1. CASE k = 0 BY <1>1, <1>2, <3>1
      <3>2. CASE k # 0
        <4>1. k - 1 \in Nat /\ k - 1 \in 0..N /\ (k - 1) + 1 = k BY <1>1, <3>2
        <4>2. at(k) = rests(at(k - 1)) BY <1>2, <4>1
        <4>3. g[k] = at(k) /\ g[k - 1] = at(k - 1) BY <4>1
        <4> HIDE DEF g
        <4> QED BY <3>2, <4>2, <4>3
      <3> QED BY <3>1, <3>2
    <2>2. g = [k \in 0..N |-> IF k = 0 THEN {n} ELSE rests(g[k - 1])] BY <2>1
    <2> HIDE DEF g
    <2> QED BY <2>2 DEF RestsWithin, N, rests
  <1> HIDE DEF g
  <1>4. PICK w : RestsWithin(specs, n, w) /\ Closure(specs, n) = w[N]
    BY <1>3, ClosureIsWithin DEF N
  <1>5. \A k \in 0..N : w[k] = IF k = 0 THEN {n} ELSE rests(w[k - 1])
    BY <1>4 DEF RestsWithin, N, rests
  <1> DEFINE S == {k \in Nat : k <= N => w[k] = at(k)}
  <1>6. 0 \in S
    <2>1. w[0] = {n} BY <1>1, <1>5
    <2> QED BY <1>2, <2>1
  <1>7. ASSUME NEW k \in Nat, k \in S PROVE k + 1 \in S
    <2> SUFFICES ASSUME k + 1 <= N PROVE w[k + 1] = at(k + 1) OBVIOUS
    <2>1. k + 1 \in 0..N /\ k + 1 # 0 /\ (k + 1) - 1 = k /\ k <= N BY <1>1
    <2>2. w[k + 1] = rests(w[k]) BY <1>5, <2>1
    <2> QED BY <1>2, <1>7, <2>1, <2>2
  <1>8. N \in S
    <2> HIDE DEF S
    <2> QED BY <1>1, <1>6, <1>7, SetInduction
  <1> QED BY <1>1, <1>4, <1>8 DEF at, N

\* What a capability rests on is the least set with the capability and, with each
\* member, its dependencies.
LEMMA ClosureIsLeast ==
  ASSUME NEW specs, IsFiniteSet(DOMAIN specs), \A m \in DOMAIN specs : specs[m].uses \subseteq DOMAIN specs,
         NEW n \in DOMAIN specs
  PROVE  /\ n \in Closure(specs, n)
         /\ \A m \in Closure(specs, n) : m \in DOMAIN specs /\ specs[m].uses \subseteq Closure(specs, n)
         /\ \A X : n \in X /\ (\A m \in X : specs[m].uses \subseteq X) => Closure(specs, n) \subseteq X
  <1> DEFINE N == Cardinality(DOMAIN specs)
             at(k) == RestsAt(specs, n, k)
  <1>1. N \in Nat BY FS_CardinalityType
  <1>2. /\ at(0) = {n}
        /\ \A k \in Nat : at(k) \in SUBSET DOMAIN specs /\ at(k + 1) = Rests(specs, at(k))
    BY RestsEquations
  <1>3. Closure(specs, n) = at(N) BY ClosureIsIterate
  <1>4. at(N + 1) = at(N)
    <2>1. \A k \in Nat : Iterate({n}, RestsStep(specs), k) \subseteq Iterate({n}, RestsStep(specs), k + 1)
      <3> SUFFICES ASSUME NEW k \in Nat PROVE at(k) \subseteq at(k + 1) BY DEF RestsAt
      <3> HIDE DEF at
      <3> QED BY <1>2 DEF Rests
    <2>2. RestsStep(specs) \in [SUBSET DOMAIN specs -> SUBSET DOMAIN specs] /\ {n} \in SUBSET DOMAIN specs
      BY RestsEquations
    <2>3. N + 1 \in Nat /\ N + 1 >= N BY <1>1
    <2> HIDE DEF N
    <2>4. Iterate({n}, RestsStep(specs), N + 1) = Iterate({n}, RestsStep(specs), N)
      BY <2>1, <2>2, <2>3, IterateSaturates DEF N
    <2> QED BY <2>4 DEF RestsAt
  <1> HIDE DEF N, at
  <1>5. ASSUME NEW X, n \in X, \A m \in X : specs[m].uses \subseteq X PROVE at(N) \subseteq X
    <2> DEFINE S == {k \in Nat : at(k) \subseteq X}
    <2>1. 0 \in S BY <1>2, <1>5
    <2>2. ASSUME NEW k \in Nat, k \in S PROVE k + 1 \in S BY <1>2, <1>5, <2>2 DEF Rests
    <2> QED
      <3> HIDE DEF S
      <3>1. N \in S BY <1>1, <2>1, <2>2, SetInduction
      <3> QED BY <3>1 DEF S
  <1>6. \A m \in at(N) : m \in DOMAIN specs /\ specs[m].uses \subseteq at(N)
    BY <1>1, <1>2, <1>4 DEF Rests
  <1>7. n \in at(N)
    <2> DEFINE S == {k \in Nat : n \in at(k)}
    <2>1. 0 \in S BY <1>2
    <2>2. ASSUME NEW k \in Nat, k \in S PROVE k + 1 \in S BY <1>2, <2>2 DEF Rests
    <2> QED
      <3> HIDE DEF S
      <3>1. N \in S BY <1>1, <2>1, <2>2, SetInduction
      <3> QED BY <3>1 DEF S
  <1> QED BY <1>3, <1>5, <1>6, <1>7

\* It is the capability with what its dependencies rest on.
LEMMA ClosureEquation ==
  ASSUME NEW specs, IsFiniteSet(DOMAIN specs), \A m \in DOMAIN specs : specs[m].uses \subseteq DOMAIN specs,
         NEW n \in DOMAIN specs
  PROVE  \A x : x \in Closure(specs, n) <=> x = n \/ \E d \in specs[n].uses : x \in Closure(specs, d)
  <1> DEFINE X == {x \in DOMAIN specs : x = n \/ \E d \in specs[n].uses : x \in Closure(specs, d)}
  <1>1. specs[n].uses \subseteq DOMAIN specs OBVIOUS
  <1>2. \A d \in specs[n].uses :
          /\ d \in Closure(specs, d)
          /\ \A m \in Closure(specs, d) : m \in DOMAIN specs /\ specs[m].uses \subseteq Closure(specs, d)
          /\ \A Y : d \in Y /\ (\A m \in Y : specs[m].uses \subseteq Y) => Closure(specs, d) \subseteq Y
    BY <1>1, ClosureIsLeast
  <1>3. /\ n \in Closure(specs, n)
        /\ \A m \in Closure(specs, n) : m \in DOMAIN specs /\ specs[m].uses \subseteq Closure(specs, n)
        /\ \A Y : n \in Y /\ (\A m \in Y : specs[m].uses \subseteq Y) => Closure(specs, n) \subseteq Y
    BY ClosureIsLeast
  <1>4. Closure(specs, n) \subseteq X
    <2>1. n \in X OBVIOUS
    <2>2. ASSUME NEW m \in X, NEW u \in specs[m].uses PROVE u \in X
      <3>1. u \in DOMAIN specs OBVIOUS
      <3>2. CASE m = n BY <1>2, <2>2, <3>1, <3>2
      <3>3. CASE \E d \in specs[n].uses : m \in Closure(specs, d)
        BY <1>2, <2>2, <3>1, <3>3
      <3> QED BY <2>2, <3>2, <3>3
    <2> HIDE DEF X
    <2> QED BY <1>3, <2>1, <2>2
  <1>5. ASSUME NEW d \in specs[n].uses PROVE Closure(specs, d) \subseteq Closure(specs, n)
    BY <1>2, <1>3
  <1> QED BY <1>3, <1>4, <1>5

\* No capability is shown in a better state than anything it rests on allows, nor in a
\* worse one than all of it explains, for any number of capabilities and any dependencies
\* that are accepted (calculate, _apply_dependencies).
THEOREM ReadinessIsGrounded ==
  ASSUME NEW specs, IsFiniteSet(DOMAIN specs), NEW evidence, Accepted(specs)
  PROVE  NoBetterThanItsGround(specs, evidence)
  <1> DEFINE R == Readiness(specs, evidence)
             own(n) == Own(specs, evidence, n)
             C(n) == Closure(specs, n)
             N == Cardinality(DOMAIN specs)
             Sound(n) == /\ R[n] \in Usable <=> \A m \in C(n) : own(m) \in Usable
                         /\ R[n] = "ready" <=> \A m \in C(n) : own(m) = "ready"
                         /\ R[n] = "stale" => \E m \in C(n) : own(m) = "stale"
                         /\ R[n] = "failed" => own(n) = "failed"
             S == {k \in Nat : \A n \in ReachedAt(specs, k) : Sound(n)}
  <1>0. \A n \in DOMAIN specs : specs[n].uses \subseteq DOMAIN specs BY AcceptedUses
  <1>1. \A n \in DOMAIN specs : \A x : x \in C(n) <=> x = n \/ \E d \in specs[n].uses : x \in C(d)
    BY <1>0, ClosureEquation
  <1>2. \A n \in DOMAIN specs : /\ R[n] \in States
                                /\ R[n] = Inherited(own(n), {R[d] : d \in specs[n].uses})
    BY ReadinessEquations
  <1>3. \A n \in DOMAIN specs : own(n) \in States BY OwnIsState
  <1> HIDE DEF R, own, C, N
  <1>4. ASSUME NEW n \in DOMAIN specs, \A d \in specs[n].uses : Sound(d) PROVE Sound(n)
    <2> DEFINE deps == {R[d] : d \in specs[n].uses}
    <2>1. /\ R[n] = Inherited(own(n), deps) /\ own(n) \in States
          /\ \A d \in specs[n].uses : R[d] \in States /\ R[d] \in deps
          /\ \A s \in deps : \E d \in specs[n].uses : s = R[d]
      BY <1>0, <1>2, <1>3
    <2> HIDE DEF deps
    <2>2. R[n] \in Usable <=> own(n) \in Usable /\ \A d \in specs[n].uses : R[d] \in Usable
      BY <2>1 DEF Inherited, Usable, States
    <2>3. R[n] = "ready" <=> own(n) = "ready" /\ \A d \in specs[n].uses : R[d] = "ready"
      BY <2>1 DEF Inherited, Usable, States
    <2>4. R[n] = "stale" => own(n) = "stale" \/ \E d \in specs[n].uses : R[d] = "stale"
      BY <2>1 DEF Inherited, Usable, States
    <2>5. R[n] = "failed" => own(n) = "failed" BY <2>1 DEF Inherited, Usable, States
    <2>6. R[n] \in Usable <=> \A m \in C(n) : own(m) \in Usable BY <1>1, <1>4, <2>2
    <2>7. R[n] = "ready" <=> \A m \in C(n) : own(m) = "ready" BY <1>1, <1>4, <2>3
    <2>8. R[n] = "stale" => \E m \in C(n) : own(m) = "stale" BY <1>1, <1>4, <2>4
    <2> QED BY <2>5, <2>6, <2>7, <2>8
  <1> HIDE DEF Sound
  <1>5. /\ ReachedAt(specs, 0) = {}
        /\ \A k \in Nat : ReachedAt(specs, k + 1) = Available(specs, ReachedAt(specs, k))
    BY ReachedAtEquations
  <1>6. 0 \in S BY <1>5
  <1>7. ASSUME NEW k \in Nat, k \in S PROVE k + 1 \in S
    <2>1. ASSUME NEW n \in ReachedAt(specs, k + 1) PROVE Sound(n)
      <3>1. n \in DOMAIN specs /\ specs[n].uses \subseteq ReachedAt(specs, k)
        BY <1>5, <2>1 DEF Available
      <3> QED BY <1>4, <1>7, <3>1
    <2> QED BY <2>1
  <1>8. N \in S
    <2> HIDE DEF S
    <2>1. N \in Nat BY FS_CardinalityType DEF N
    <2> QED BY <1>6, <1>7, <2>1, SetInduction
  <1>9. ReachedAt(specs, N) = DOMAIN specs BY ReachedIsIterate DEF Accepted, N
  <1>10. ASSUME NEW n \in DOMAIN specs PROVE Sound(n) /\ n \in C(n) BY <1>1, <1>8, <1>9
  <1> DEFINE states(X) == {OwnState(specs[m], evidence[m]) : m \in X}
  <1>11. ASSUME NEW n \in DOMAIN specs
         PROVE  /\ R[n] \in Usable <=> states(C(n)) \subseteq Usable
                /\ R[n] = "ready" <=> states(C(n)) = {"ready"}
                /\ R[n] = "stale" => "stale" \in states(C(n))
                /\ R[n] = "failed" => states({n}) = {"failed"}
    <2>1. Sound(n) /\ n \in C(n) BY <1>10
    <2>2. \A X : states(X) = {own(m) : m \in X} BY DEF own, Own
    <2> HIDE DEF states
    <2>3. (\A m \in C(n) : own(m) = "ready") <=> states(C(n)) = {"ready"} BY <2>1, <2>2
    <2>4. (\A m \in C(n) : own(m) \in Usable) <=> states(C(n)) \subseteq Usable BY <2>2
    <2>5. (\E m \in C(n) : own(m) = "stale") => "stale" \in states(C(n)) BY <2>2
    <2>6. states({n}) = {own(n)} BY <2>2
    <2> QED BY <2>1, <2>3, <2>4, <2>5, <2>6 DEF Sound
  <1> QED BY <1>11 DEF NoBetterThanItsGround, R, C

---------------------------------------------------------------------------
(* The lock orders. *)

LEMMA JobBeforeRepository ==
  ASSUME NEW j \in Jobs, NEW o, UnderWay(o),
         o.of \in Claim(j) \cup LeaseCommands(j) \cup Cancellations(j)
  PROVE  KeepsToItsJob(o, j)
  <1> DEFINE r == o.of.rows
  <1>1. \/ r = <<JobRow(j), RepositoryRow, AttemptRow(j), VersionRow(j)>>
        \/ r = <<JobRow(j), AttemptRow(j), RepositoryRow>>
        \/ r = <<JobRow(j), AttemptRow(j), RepositoryRow, VersionRow(j)>>
        \/ r = <<JobRow(j), VersionRow(j)>>
    BY DEF Claim, LeaseCommands, Cancellations, Transaction
  <1>2. /\ JobRow(j) # AttemptRow(j) /\ JobRow(j) # RepositoryRow /\ JobRow(j) # VersionRow(j)
        /\ AttemptRow(j) # RepositoryRow /\ AttemptRow(j) # VersionRow(j) /\ RepositoryRow # VersionRow(j)
    BY DEF JobRow, AttemptRow, VersionRow, RepositoryRow
  <1>3. o.holds \in Nat /\ 1 <= o.holds /\ o.holds < Len(r) BY DEF UnderWay
  <1>4. /\ Held(o) = {r[i] : i \in 1..o.holds}
        /\ Waits(o) = r[o.holds + 1]
    BY DEF Held, Waits
  <1> HIDE DEF r
  <1>5. CASE r = <<JobRow(j), RepositoryRow, AttemptRow(j), VersionRow(j)>>
    BY <1>2, <1>3, <1>4, <1>5 DEF KeepsToItsJob, RowsOf
  <1>6. CASE r = <<JobRow(j), AttemptRow(j), RepositoryRow>>
    BY <1>2, <1>3, <1>4, <1>6 DEF KeepsToItsJob, RowsOf
  <1>7. CASE r = <<JobRow(j), AttemptRow(j), RepositoryRow, VersionRow(j)>>
    BY <1>2, <1>3, <1>4, <1>7 DEF KeepsToItsJob, RowsOf
  <1>8. CASE r = <<JobRow(j), VersionRow(j)>>
    <2>1. Len(r) = 2 /\ r[1] = JobRow(j) /\ r[2] = VersionRow(j) BY <1>8
    <2>2. o.holds = 1 BY <1>3, <2>1
    <2> QED BY <1>2, <1>4, <2>1, <2>2 DEF KeepsToItsJob, RowsOf
  <1> QED BY <1>1, <1>5, <1>6, <1>7, <1>8

LEMMA DeletionLocksJobs ==
  ASSUME NEW o, UnderWay(o), o.of \in DeleteRepository
  PROVE  /\ JobRow(1) \in Held(o)
         /\ JobRow(2) \in Held(o) \/ Held(o) \subseteq {JobRow(1), AttemptRow(1)}
  <1> DEFINE r == o.of.rows
  <1>1. Len(r) = 7 /\ r[1] = JobRow(1) /\ r[2] = AttemptRow(1) /\ r[3] = JobRow(2)
    BY DEF DeleteRepository, Transaction
  <1>2. o.holds \in Nat /\ 1 <= o.holds /\ o.holds < 7 BY <1>1 DEF UnderWay
  <1>3. Held(o) = {r[i] : i \in 1..o.holds} BY DEF Held
  <1> HIDE DEF r
  <1>4. CASE o.holds <= 2 BY <1>1, <1>2, <1>3, <1>4
  <1>5. CASE o.holds > 2
    <2>1. 1 \in 1..o.holds /\ 3 \in 1..o.holds BY <1>2, <1>5
    <2> QED BY <1>1, <1>3, <2>1
  <1> QED BY <1>2, <1>4, <1>5

\* Any number of transactions of two jobs, however far each has come
\* (claim, _lock_owned_lease, activate, save_repository).
THEOREM WorkersNeverDeadlock ==
  ASSUME NEW open, \A o \in open : UnderWay(o)
  PROVE  CirclesNeedActivation(open)
  <1> SUFFICES ASSUME Compatible(open), NEW circle \in SUBSET open, Deadlocked(circle),
                      \A o \in circle : o.of.name \notin {"activate", "save_repository"}
               PROVE  FALSE
    BY DEF CirclesNeedActivation
  <1>1. ASSUME NEW o \in circle
        PROVE  \/ \E j \in Jobs : KeepsToItsJob(o, j)
               \/ JobRow(1) \in Held(o) /\ JobRow(2) \in Held(o)
               \/ JobRow(1) \in Held(o) /\ Held(o) \subseteq {JobRow(1), AttemptRow(1)}
    <2>1. UnderWay(o) /\ o.of \in Transactions /\ o.of.name # "activate" /\ o.of.name # "save_repository"
      BY DEF UnderWay
    <2>2. o.of \notin SaveRepository /\ \A j \in Jobs : o.of \notin Activate(j)
      BY <2>1 DEF SaveRepository, Activate, Transaction
    <2>3. CASE o.of \in DeleteRepository BY <2>1, <2>3, DeletionLocksJobs
    <2>4. CASE \E j \in Jobs : o.of \in Claim(j) \cup LeaseCommands(j) \cup Cancellations(j)
      BY <2>1, <2>4, JobBeforeRepository
    <2> QED BY <2>1, <2>2, <2>3, <2>4 DEF Transactions
  <1>2. ASSUME NEW o \in circle PROVE JobRow(1) \in Held(o) \/ JobRow(2) \in Held(o)
    BY <1>1 DEF KeepsToItsJob, Jobs
  <1>3. ASSUME NEW o \in circle, NEW p \in circle, o # p, NEW row PROVE ~ (row \in Held(o) /\ row \in Held(p))
    BY <1>3 DEF Compatible
  <1>4. PICK o \in circle : TRUE BY DEF Deadlocked
  <1>5. PICK p \in circle : p # o /\ Waits(o) \in Held(p) BY DEF Deadlocked
  <1>6. Waits(p) \in Held(o)
    <2>1. PICK q \in circle : q # p /\ Waits(p) \in Held(q) BY DEF Deadlocked
    <2>2. q = o BY <1>2, <1>3, <1>5, <2>1
    <2> QED BY <2>1, <2>2
  <1>7. \A j \in Jobs : /\ JobRow(j) # AttemptRow(j) /\ JobRow(j) # RepositoryRow /\ JobRow(j) # VersionRow(j)
                        /\ AttemptRow(j) # RepositoryRow
    BY DEF JobRow, AttemptRow, VersionRow, RepositoryRow
  <1>8. RowsOf(1) \cap RowsOf(2) = {RepositoryRow} /\ JobRow(1) \notin RowsOf(2) /\ AttemptRow(1) \notin RowsOf(2)
    BY DEF RowsOf, JobRow, AttemptRow, VersionRow, RepositoryRow
  <1>9. ASSUME NEW a \in circle, NEW b \in circle, a # b, Waits(a) \in Held(b), Waits(b) \in Held(a),
               JobRow(1) \in Held(a)
        PROVE  FALSE
    <2>1. JobRow(2) \notin Held(a) /\ JobRow(1) \notin Held(b) /\ JobRow(2) \in Held(b)
      BY <1>2, <1>3, <1>9
    <2>2. KeepsToItsJob(b, 2) BY <1>1, <2>1 DEF KeepsToItsJob, Jobs
    <2>3. CASE KeepsToItsJob(a, 1) BY <1>8, <1>9, <2>2, <2>3 DEF KeepsToItsJob
    <2>4. CASE Held(a) \subseteq {JobRow(1), AttemptRow(1)}
      BY <1>8, <1>9, <2>2, <2>4 DEF KeepsToItsJob
    <2> QED BY <1>1, <1>9, <2>1, <2>3, <2>4 DEF KeepsToItsJob, Jobs
  <1>10. JobRow(1) \in Held(o) \/ JobRow(1) \in Held(p) BY <1>2, <1>3, <1>5
  <1>11. JobRow(1) \notin Held(o) BY <1>5, <1>6, <1>9
  <1>12. JobRow(1) \notin Held(p) BY <1>5, <1>6, <1>9
  <1> QED BY <1>10, <1>11, <1>12

---------------------------------------------------------------------------
(* The upgrade of a local database. *)

LEMMA VersionsAreThere ==
  ASSUME NEW db, IsLegacy(db), NEW r \in DOMAIN db.current
  PROVE  /\ VersionsOf(db, r) \subseteq Nat
         /\ ActiveVersion(db, r) \in VersionsOf(db, r)
         /\ \A x \in Records(db) : x.repository = r => x.version \in VersionsOf(db, r)
  <1> DEFINE mine == {y \in Records(db) : y.repository = r}
             seen == {x.version : x \in mine}
             V == VersionsOf(db, r)
  <1>1. V = IF seen = {} THEN {db.current[r]} ELSE seen BY DEF VersionsOf
  <1>2. db.current[r] \in Nat /\ seen \subseteq Nat BY DEF IsLegacy
  <1>3. \A x \in Records(db) : x.repository = r => x.version \in V BY <1>1
  <1>4. IsFiniteSet(V)
    <2>1. IsFiniteSet(mine) BY FS_Subset DEF IsLegacy
    <2>2. IsFiniteSet(seen)
      <3> DEFINE f == [x \in mine |-> x.version]
      <3>1. Covers(f, mine, seen) BY DEF Covers
      <3> HIDE DEF mine, seen, f
      <3> QED BY <2>1, <3>1, CoverIsFinite
    <2>3. IsFiniteSet({db.current[r]}) BY FS_Singleton
    <2> QED BY <1>1, <2>2, <2>3
  <1>5. V \in SUBSET Nat /\ V # {} BY <1>1, <1>2
  <1>6. Max(V) \in V
    <2> HIDE DEF V
    <2> QED BY <1>4, <1>5, MaxOfFinite
  <1>7. ActiveVersion(db, r) \in V BY <1>6 DEF ActiveVersion
  <1> QED BY <1>3, <1>5, <1>7

\* Whatever a local database holds, what the upgrade inserts satisfies the keys and the
\* unique indexes of the production schema unless it refuses before the transaction
\* (upgrade of legacy_upgrade.py).
THEOREM UpgradesAreWhole ==
  ASSUME NEW db, IsLegacy(db)
  PROVE  UpgradeIsWhole(db)
  <1> DEFINE rows == Rows(db)
             V(r) == VersionsOf(db, r)
             active(r) == ActiveVersion(db, r)
             R == DOMAIN db.current
             all == Records(db)
  <1> SUFFICES ASSUME ~ Refused(db)
               PROVE
       /\ \A x \in rows.files \cup rows.users \cup rows.nodes \cup rows.edges : x.version \in Ids(rows.versions)
       /\ \A x \in rows.users : x.file \in Ids(rows.files) /\ <<x.file[1], x.file[2]>> = x.version
       /\ \A e \in rows.edges : e.ends \subseteq {n.id : n \in {m \in rows.nodes : m.version = e.version}}
       /\ \A j \in rows.jobs : j.target \in Ids(rows.versions)
       /\ \A v, w \in rows.versions : v.id[1] = w.id[1] /\ v.number = w.number => v = w
       /\ \A r \in rows.repositories : Ids(ActiveRows(rows, r.id)) = {r.active}
       /\ \A j, k \in rows.jobs :
            j.repository = k.repository /\ {j.state, k.state} \subseteq {"queued", "running"} => j = k
    BY DEF UpgradeIsWhole
  <1>1. \A r \in R : V(r) \subseteq Nat /\ active(r) \in V(r) /\ \A x \in all : x.repository = r => x.version \in V(r)
    BY VersionsAreThere
  <1>2. \A x \in all : x.repository \in R BY DEF Refused
  <1> DEFINE row(r, v) == [id |-> <<r, v>>, number |-> IF v + 1 > 1 THEN v + 1 ELSE 1,
                           lifecycle |-> IF v = active(r) THEN "active" ELSE "superseded"]
  <1>3. \A x : x \in rows.versions <=> \E r \in R : \E v \in V(r) : x = row(r, v)
    BY DEF Rows
  <1>4. \A r \in R : \A v \in V(r) : <<r, v>> \in Ids(rows.versions)
    <2> SUFFICES ASSUME NEW r \in R, NEW v \in V(r) PROVE <<r, v>> \in Ids(rows.versions)
      OBVIOUS
    <2>1. row(r, v) \in rows.versions /\ row(r, v).id = <<r, v>> BY <1>3
    <2> HIDE DEF row, rows
    <2> QED BY <2>1 DEF Ids
  <1>5. \A x \in all : Version(x) \in Ids(rows.versions)
    <2> HIDE DEF rows, all, R
    <2> QED BY <1>1, <1>2, <1>4 DEF Version
  <1>6. /\ db.files \subseteq all /\ FileUsers(db) \subseteq all /\ db.nodes \subseteq all
        /\ db.edges \subseteq all /\ db.jobs \subseteq all
    BY DEF Records, FileUsers
  <1>7. /\ rows.files = {[id |-> FileOf(f), version |-> Version(f)] : f \in db.files}
        /\ rows.users = {[file |-> FileOf(x), version |-> Version(x)] : x \in FileUsers(db)}
        /\ rows.nodes = {[id |-> NodeOf(n, n.id), version |-> Version(n)] : n \in db.nodes}
        /\ rows.edges = {[ends |-> {NodeOf(e, e.source), NodeOf(e, e.target)},
                          version |-> Version(e)] : e \in db.edges}
        /\ rows.jobs = {[id |-> j.id, repository |-> j.repository, target |-> Version(j),
                         state |-> StateOf(j)] : j \in db.jobs}
        /\ rows.repositories = {[id |-> r, active |-> <<r, active(r)>>] : r \in R}
    BY DEF Rows
  <1> HIDE DEF rows, all
  <1>8. ASSUME NEW x \in rows.files \cup rows.users \cup rows.nodes \cup rows.edges
        PROVE  x.version \in Ids(rows.versions)
    BY <1>5, <1>6, <1>7
  <1>9. ASSUME NEW x \in rows.users
        PROVE  x.file \in Ids(rows.files) /\ <<x.file[1], x.file[2]>> = x.version
    <2>1. PICK y \in FileUsers(db) : x.file = FileOf(y) /\ x.version = Version(y) BY <1>7
    <2>2. PICK f \in db.files : FileOf(y) = FileOf(f) BY DEF Refused
    <2>3. PICK z \in rows.files : z.id = FileOf(f)
      <3>1. [id |-> FileOf(f), version |-> Version(f)] \in rows.files BY <1>7
      <3> QED BY <3>1
    <2>4. x.file \in Ids(rows.files) BY <2>1, <2>2, <2>3 DEF Ids
    <2> QED BY <2>1, <2>4 DEF FileOf, Version
  <1>10. ASSUME NEW e \in rows.edges
         PROVE  e.ends \subseteq {n.id : n \in {m \in rows.nodes : m.version = e.version}}
    <2>1. PICK d \in db.edges : /\ e.ends = {NodeOf(d, d.source), NodeOf(d, d.target)}
                                /\ e.version = Version(d)
      BY <1>7
    <2>2. ASSUME NEW id, NodeOf(d, id) \in {NodeOf(n, n.id) : n \in db.nodes}
          PROVE  NodeOf(d, id) \in {n.id : n \in {m \in rows.nodes : m.version = e.version}}
      <3>1. PICK n \in db.nodes : NodeOf(d, id) = NodeOf(n, n.id) BY <2>2
      <3>2. Version(n) = Version(d) BY <3>1 DEF NodeOf, Version
      <3>3. PICK z \in rows.nodes : z.id = NodeOf(n, n.id) /\ z.version = Version(n)
        <4>1. [id |-> NodeOf(n, n.id), version |-> Version(n)] \in rows.nodes BY <1>7
        <4> QED BY <4>1
      <3> QED BY <2>1, <3>1, <3>2, <3>3
    <2>3. {NodeOf(d, d.source), NodeOf(d, d.target)} \subseteq {NodeOf(n, n.id) : n \in db.nodes}
      BY DEF Refused
    <2> QED BY <2>1, <2>2, <2>3
  <1>11. ASSUME NEW j \in rows.jobs PROVE j.target \in Ids(rows.versions)
    BY <1>5, <1>6, <1>7
  <1>12. ASSUME NEW v \in rows.versions, NEW w \in rows.versions, v.id[1] = w.id[1], v.number = w.number
         PROVE  v = w
    <2>1. PICK r \in R : \E n \in V(r) : v = row(r, n) BY <1>3
    <2>2. PICK s \in R : \E m \in V(s) : w = row(s, m) BY <1>3
    <2>3. PICK n \in V(r) : v = row(r, n) BY <2>1
    <2>4. PICK m \in V(s) : w = row(s, m) BY <2>2
    <2>5. r = s BY <1>12, <2>3, <2>4
    <2>6. n \in Nat /\ m \in Nat BY <1>1
    <2>7. (IF n + 1 > 1 THEN n + 1 ELSE 1) = IF m + 1 > 1 THEN m + 1 ELSE 1
      BY <1>12, <2>3, <2>4
    <2>8. n = m BY <2>6, <2>7
    <2> QED BY <2>3, <2>4, <2>5, <2>8
  <1>13. ASSUME NEW x \in rows.repositories PROVE Ids(ActiveRows(rows, x.id)) = {x.active}
    <2>1. PICK r \in R : x.id = r /\ x.active = <<r, active(r)>> BY <1>7
    <2>2. row(r, active(r)) \in ActiveRows(rows, r)
      <3>1. row(r, active(r)) \in rows.versions BY <1>1, <1>3
      <3>2. row(r, active(r)).id = <<r, active(r)>> /\ row(r, active(r)).lifecycle = "active"
        OBVIOUS
      <3> HIDE DEF row
      <3> QED BY <3>1, <3>2 DEF ActiveRows
    <2>3. ASSUME NEW v \in ActiveRows(rows, r) PROVE v.id = <<r, active(r)>>
      <3>1. v \in rows.versions /\ v.id[1] = r /\ v.lifecycle = "active" BY DEF ActiveRows
      <3>2. PICK s \in R : \E n \in V(s) : v = row(s, n) BY <1>3, <3>1
      <3>3. PICK n \in V(s) : v = row(s, n) BY <3>2
      <3> QED BY <3>1, <3>3
    <2>4. row(r, active(r)).id = <<r, active(r)>> OBVIOUS
    <2> HIDE DEF row
    <2> QED BY <2>1, <2>2, <2>3, <2>4 DEF Ids
  <1>14. ASSUME NEW j \in rows.jobs, NEW k \in rows.jobs, j.repository = k.repository,
                {j.state, k.state} \subseteq {"queued", "running"}
         PROVE  j = k
    <2> DEFINE rowOf(i) == [id |-> i.id, repository |-> i.repository, target |-> Version(i),
                            state |-> StateOf(i)]
    <2>1. PICK a \in db.jobs : j = rowOf(a) BY <1>7
    <2>2. PICK b \in db.jobs : k = rowOf(b) BY <1>7
    <2> DEFINE r == a.repository
               U == Unfinished(db, r)
    <2>3. a \in U /\ b \in U BY <1>14, <2>1, <2>2 DEF Unfinished
    <2>4. IsFiniteSet(U) BY <1>6, FS_Subset DEF Unfinished, IsLegacy, all
    <2>5. r \in R /\ ~ (Cardinality(U) > 1) BY <1>2, <1>6 DEF Refused
    <2> HIDE DEF U
    <2>6. a = b
      <3> SUFFICES ASSUME a # b PROVE FALSE OBVIOUS
      <3>1. {a, b} \subseteq U /\ IsFiniteSet({a, b}) BY <2>3, <2>4, FS_Subset
      <3>2. Cardinality({a, b}) = 2
        <4>1. Cardinality({a}) = 1 /\ IsFiniteSet({a}) /\ b \notin {a} /\ {a, b} = {a} \cup {b}
          BY FS_Singleton
        <4>2. Cardinality({a} \cup {b}) = Cardinality({a}) + 1 BY <4>1, FS_AddElement
        <4> QED BY <4>1, <4>2
      <3>3. Cardinality({a, b}) <= Cardinality(U) /\ Cardinality(U) \in Nat
        BY <2>4, <3>1, FS_Subset, FS_CardinalityType
      <3> QED BY <2>5, <3>2, <3>3
    <2> QED BY <2>1, <2>2, <2>6
  <1> QED BY <1>8, <1>9, <1>10, <1>11, <1>12, <1>13, <1>14

---------------------------------------------------------------------------
(* What the local profile leaves in a database. *)

LEMMA LocalStepKeeps ==
  ASSUME NEW local \in Locals, NEW event \in LocalEvents
  PROVE  /\ LocalStep(local, event) \in Locals
         /\ LocalInv(local) => LocalInv(LocalStep(local, event))
  <1> DEFINE next    == local.current + 1
             retired == [i \in DOMAIN local.jobs |->
                           IF local.jobs[i].status = "running" THEN [local.jobs[i] EXCEPT !.status = "failed"]
                           ELSE local.jobs[i]]
             run(status) == Append(retired, [version |-> next, status |-> status])
             t == LocalStep(local, event)
  <1>1. /\ event = "indexed" => t = [local EXCEPT !.current = next, !.jobs = run("completed")]
        /\ event = "failed" => t = [local EXCEPT !.jobs = run("failed")]
        /\ event = "left" => t = [local EXCEPT !.jobs = run("running")]
        /\ event = "asked" => t = IF local.current = 0 THEN local
                                  ELSE [local EXCEPT !.evidence = @ \cup {local.current}]
    BY DEF LocalStep
  <1>2. local = [current |-> local.current, jobs |-> local.jobs, evidence |-> local.evidence]
        /\ local.current \in Nat /\ local.jobs \in Seq(LocalJobs) /\ local.evidence \subseteq Nat /\ next \in Nat
    BY DEF Locals
  <1>3. retired \in Seq(LocalJobs) /\ Len(retired) = Len(local.jobs)
        /\ \A i \in 1..Len(retired) : retired[i].status # "running"
    <2>1. DOMAIN local.jobs = 1..Len(local.jobs) /\ Len(local.jobs) \in Nat BY <1>2
    <2>2. ASSUME NEW i \in DOMAIN local.jobs PROVE retired[i] \in LocalJobs /\ retired[i].status # "running"
      <3>1. local.jobs[i] \in LocalJobs BY <1>2, <2>1
      <3> QED BY <3>1 DEF LocalJobs
    <2>3. retired = [i \in 1..Len(local.jobs) |-> retired[i]] BY <2>1
    <2> HIDE DEF retired
    <2>4. \A i \in 1..Len(local.jobs) : retired[i] \in LocalJobs /\ retired[i].status # "running"
      BY <2>1, <2>2
    <2>5. retired \in Seq(LocalJobs) /\ Len(retired) = Len(local.jobs) BY <2>1, <2>3, <2>4
    <2> QED BY <2>4, <2>5
  <1> HIDE DEF retired, next
  <1>4. ASSUME NEW status \in {"completed", "failed", "running"}
        PROVE  /\ run(status) \in Seq(LocalJobs) /\ Len(run(status)) = Len(retired) + 1
               /\ DOMAIN run(status) = 1..(Len(retired) + 1)
               /\ \A i \in DOMAIN run(status) : run(status)[i].status = "running" => i = Len(run(status))
    <2>1. [version |-> next, status |-> status] \in LocalJobs BY <1>2 DEF LocalJobs
    <2>2. run(status) \in Seq(LocalJobs) /\ Len(run(status)) = Len(retired) + 1 /\ Len(retired) \in Nat
          /\ \A i \in 1..Len(retired) : run(status)[i] = retired[i]
      BY <1>3, <2>1
    <2> HIDE DEF run
    <2> QED BY <1>3, <2>2
  <1> HIDE DEF run
  <1>5. event \in {"indexed", "failed", "left", "asked"} BY DEF LocalEvents
  <1> HIDE DEF t
  <1>6. CASE event = "indexed"
    <2>1. t = [current |-> next, jobs |-> run("completed"), evidence |-> local.evidence]
      BY <1>1, <1>2, <1>6
    <2> QED BY <1>2, <1>4, <2>1 DEF LocalInv, Locals, next, t
  <1>7. CASE event = "failed"
    <2>1. t = [current |-> local.current, jobs |-> run("failed"), evidence |-> local.evidence]
      BY <1>1, <1>2, <1>7
    <2> QED BY <1>2, <1>4, <2>1 DEF LocalInv, Locals, t
  <1>8. CASE event = "left"
    <2>1. t = [current |-> local.current, jobs |-> run("running"), evidence |-> local.evidence]
      BY <1>1, <1>2, <1>8
    <2> QED BY <1>2, <1>4, <2>1 DEF LocalInv, Locals, t
  <1>9. CASE event = "asked" /\ local.current = 0 BY <1>1, <1>9 DEF t
  <1>10. CASE event = "asked" /\ local.current # 0
    BY <1>1, <1>2, <1>10 DEF LocalInv, Locals, t
  <1> QED BY <1>5, <1>6, <1>7, <1>8, <1>9, <1>10

LEMMA AfterIsLocal ==
  ASSUME NEW events \in Seq(LocalEvents)
  PROVE  LocalInv(After(events))
  <1> DEFINE n == Len(events)
             Follows(f) == f = [k \in 0..n |-> IF k = 0 THEN Unused ELSE LocalStep(f[k - 1], events[k])]
             after == CHOOSE f : Follows(f)
             st == [p \in (1..n) \X Locals |-> LocalStep(p[2], events[p[1]])]
  <1>1. n \in Nat /\ \A k \in 1..n : events[k] \in LocalEvents OBVIOUS
  <1>2. LocalInv(Unused) /\ Unused \in Locals BY DEF Unused, LocalInv, Locals
  <1>3. st \in [(1..n) \X Locals -> Locals] BY <1>1, LocalStepKeeps
  <1>4. PICK f \in [0..n -> Locals] : Folds(Unused, st, n, f)
    <2> HIDE DEF st, n
    <2> QED BY <1>1, <1>2, <1>3, FoldExists
  <1>5. Follows(f)
    <2>1. ASSUME NEW k \in 0..n, k # 0 PROVE st[<<k, f[k - 1]>>] = LocalStep(f[k - 1], events[k])
      <3>1. <<k, f[k - 1]>> \in (1..n) \X Locals BY <1>1, <2>1
      <3> QED BY <3>1
    <2> HIDE DEF st
    <2> QED BY <1>4, <2>1 DEF Folds
  <1>6. Follows(after)
    <2> HIDE DEF Follows
    <2> QED BY <1>5
  <1>7. After(events) = after[n] BY DEF After
  <1> DEFINE T == {k \in Nat : k <= n => LocalInv(after[k])}
  <1> HIDE DEF after
  <1>8. 0 \in T BY <1>1, <1>2, <1>6
  <1>9. ASSUME NEW k \in Nat, k \in T PROVE k + 1 \in T
    <2> SUFFICES ASSUME k + 1 <= n PROVE LocalInv(after[k + 1]) OBVIOUS
    <2>1. LocalInv(after[k]) BY <1>1, <1>9
    <2>2. after[k + 1] = LocalStep(after[k], events[k + 1])
      <3>1. k + 1 \in 0..n /\ k + 1 # 0 /\ (k + 1) - 1 = k BY <1>1
      <3> HIDE DEF n
      <3> QED BY <1>6, <3>1
    <2>3. events[k + 1] \in LocalEvents /\ after[k] \in Locals BY <1>1, <2>1 DEF LocalInv
    <2> QED BY <2>1, <2>2, <2>3, LocalStepKeeps
  <1> HIDE DEF T
  <1>10. n \in T BY <1>1, <1>8, <1>9, SetInduction
  <1> QED BY <1>7, <1>10 DEF T

\* Nobody who asks after the upgrade sees another index (upgrade, _map_versions).
LEMMA LeftIsKept ==
  ASSUME NEW db, IsLegacy(db), IsLeft(db)
  PROVE  UpgradeKeepsIndex(db)
  <1> SUFFICES ASSUME NEW r \in DOMAIN db.current, db.current[r] > 0,
                      NEW x \in Rows(db).repositories, x.id = r
               PROVE  /\ x.active = <<r, db.current[r]>>
                      /\ Ids({f \in Rows(db).files : f.version = x.active})
                           = {FileOf(f) : f \in {g \in db.files : g.repository = r}}
    BY DEF UpgradeKeepsIndex
  <1>1. PICK f \in db.files : f.repository = r BY DEF IsLeft
  <1>2. f \in Records(db) /\ f.version = db.current[r] BY <1>1 DEF IsLeft, Records
  <1>3. db.current[r] \in VersionsOf(db, r) BY <1>1, <1>2, VersionsAreThere
  <1>4. ActiveVersion(db, r) = db.current[r] BY <1>3 DEF ActiveVersion
  <1>5. x.active = <<r, db.current[r]>> BY <1>4 DEF Rows
  <1>6. Rows(db).files = {[id |-> FileOf(g), version |-> Version(g)] : g \in db.files}
    BY DEF Rows
  <1>7. \A g \in db.files : Version(g) = x.active <=> g.repository = r
    BY <1>5 DEF IsLeft, Version
  <1>8. \A g \in db.files : [id |-> FileOf(g), version |-> Version(g)] \in Rows(db).files
    BY <1>6
  <1>9. ASSUME NEW y \in Rows(db).files PROVE \E g \in db.files : y.id = FileOf(g) /\ y.version = Version(g)
    BY <1>6
  <1> DEFINE mine == {y \in Rows(db).files : y.version = x.active}
  <1>10. ASSUME NEW i \in Ids(mine) PROVE i \in {FileOf(g) : g \in {g \in db.files : g.repository = r}}
    <2>1. PICK y \in Rows(db).files : y.version = x.active /\ i = y.id BY DEF Ids
    <2> QED BY <1>7, <1>9, <2>1
  <1>11. ASSUME NEW g \in db.files, g.repository = r PROVE FileOf(g) \in Ids(mine)
    <2> DEFINE y == [id |-> FileOf(g), version |-> Version(g)]
    <2>1. y \in Rows(db).files /\ y.version = x.active /\ y.id = FileOf(g)
      BY <1>7, <1>8, <1>11
    <2> HIDE DEF y
    <2> QED BY <2>1 DEF Ids
  <1> HIDE DEF mine
  <1>12. Ids(mine) = {FileOf(g) : g \in {g \in db.files : g.repository = r}}
    BY <1>10, <1>11
  <1> QED BY <1>5, <1>12 DEF mine

\* Only the evidence of a replaced version keeps the upgrade from what it does
\* (_reject_unsupported).
LEMMA LeftIsRefusedForEvidence ==
  ASSUME NEW db, IsLegacy(db), IsLeft(db)
  PROVE  OnlyOldEvidenceRefuses(db)
  <1> DEFINE files == {FileOf(f) : f \in db.files}
             nodes == {NodeOf(n, n.id) : n \in db.nodes}
  <1>1. ASSUME NEW e \in db.evidence, e.version # db.current[e.repository] PROVE Refused(db)
    <2>1. e \in FileUsers(db) BY DEF FileUsers
    <2>2. FileOf(e) \notin files
      <3> SUFFICES ASSUME NEW f \in db.files, FileOf(e) = FileOf(f) PROVE FALSE OBVIOUS
      <3>1. f.version = db.current[f.repository] BY DEF IsLeft
      <3> QED BY <1>1, <3>1 DEF FileOf
    <2> QED BY <2>1, <2>2 DEF Refused
  <1>2. ASSUME \A e \in db.evidence : e.version = db.current[e.repository] PROVE ~ Refused(db)
    <2>1. \A x \in FileUsers(db) : x.version = db.current[x.repository]
      BY <1>2 DEF FileUsers, IsLeft
    <2>2. \A x \in FileUsers(db) : FileOf(x) \in files BY <2>1 DEF IsLeft
    <2>3. ASSUME NEW r \in DOMAIN db.current PROVE ~ (Cardinality(Unfinished(db, r)) > 1)
      <3>1. \A j, k \in Unfinished(db, r) : j = k BY DEF IsLeft
      <3>2. CASE Unfinished(db, r) = {} BY <3>2, FS_EmptySet
      <3>3. CASE Unfinished(db, r) # {}
        <4>1. PICK j \in Unfinished(db, r) : TRUE BY <3>3
        <4>2. Unfinished(db, r) = {j} BY <3>1, <4>1
        <4> QED BY <4>2, FS_Singleton
      <3> QED BY <3>2, <3>3
    <2> QED BY <2>2, <2>3 DEF Refused, IsLeft
  <1> QED BY <1>1, <1>2 DEF OnlyOldEvidenceRefuses

LEMMA LegacyDatabaseIsLeft ==
  ASSUME NEW history, NEW n \in Nat, n > 0, DOMAIN history = 1..n,
         \A r \in 1..n : history[r] \in Seq(LocalEvents)
  PROVE  IsLegacy(LegacyDatabase(history)) /\ IsLeft(LegacyDatabase(history))
  <1> DEFINE D == DOMAIN history
             db == LegacyDatabase(history)
             local == [r \in D |-> After(history[r])]
             indexed == {r \in D : local[r].current > 0}
             file(r, f) == [repository |-> r, version |-> local[r].current, file |-> f]
             use(r, f) == [repository |-> r, version |-> local[r].current, file |-> f, name |-> "f"]
             node(r, m, f) == [repository |-> r, version |-> local[r].current, id |-> m, file |-> f]
             edge(r) == [repository |-> r, version |-> local[r].current, source |-> "m", target |-> "n"]
             answer(r, v) == [repository |-> r, version |-> v, file |-> "b"]
             job(r, i) == [id |-> <<r, i>>, repository |-> r, version |-> local[r].jobs[i].version,
                           status |-> local[r].jobs[i].status]
  <1>1. /\ db.current = [r \in D |-> local[r].current]
        /\ db.files = {file(r, f) : f \in {"a", "b"}, r \in indexed}
        /\ db.observations = {use(r, f) : f \in {"a", "b"}, r \in indexed}
        /\ db.nodes = {node(r, "m", "a") : r \in indexed} \cup {node(r, "n", "none") : r \in indexed}
        /\ db.edges = {edge(r) : r \in indexed}
        /\ db.evidence = UNION {{answer(r, v) : v \in local[r].evidence} : r \in D}
        /\ db.jobs = UNION {{job(r, i) : i \in DOMAIN local[r].jobs} : r \in D}
    <2>1. db = [current |-> [r \in D |-> local[r].current],
                files |-> {file(r, f) : f \in {"a", "b"}, r \in indexed},
                observations |-> {use(r, f) : f \in {"a", "b"}, r \in indexed},
                nodes |-> {node(r, "m", "a") : r \in indexed} \cup {node(r, "n", "none") : r \in indexed},
                edges |-> {edge(r) : r \in indexed},
                evidence |-> UNION {{answer(r, v) : v \in local[r].evidence} : r \in D},
                jobs |-> UNION {{job(r, i) : i \in DOMAIN local[r].jobs} : r \in D}]
      BY DEF LegacyDatabase
    <2> HIDE DEF db
    <2> QED BY ONLY <2>1
  <1>2. ASSUME NEW r \in D PROVE LocalInv(local[r])
    <2>1. history[r] \in Seq(LocalEvents) OBVIOUS
    <2> QED BY <2>1, AfterIsLocal
  <1>0. IsFiniteSet(D) /\ 1 \in D BY FS_Interval
  <1> HIDE DEF db, local, D
  <1>3. \A r \in D : /\ local[r].current \in Nat /\ local[r].jobs \in Seq(LocalJobs)
                     /\ \A v \in local[r].evidence : v \in Nat /\ 0 < v /\ v <= local[r].current
                     /\ \A i \in DOMAIN local[r].jobs :
                          /\ local[r].jobs[i] \in LocalJobs
                          /\ local[r].jobs[i].status = "running" => i = Len(local[r].jobs)
    BY <1>2 DEF LocalInv, Locals
  <1>4. IsFiniteSet(D) /\ IsFiniteSet(indexed) BY <1>0, FS_Subset
  <1>5. /\ \A x \in db.files : \E r \in indexed : \E f \in {"a", "b"} : x = file(r, f)
        /\ \A x \in db.observations : \E r \in indexed : \E f \in {"a", "b"} : x = use(r, f)
        /\ \A x \in db.nodes : \E r \in indexed : x = node(r, "m", "a") \/ x = node(r, "n", "none")
        /\ \A x \in db.edges : \E r \in indexed : x = edge(r)
    BY <1>1
  <1>6. \A x \in db.evidence : \E r \in D : \E v \in local[r].evidence : x = answer(r, v)
    BY <1>1
  <1>7. \A x \in db.jobs : \E r \in D : \E i \in DOMAIN local[r].jobs : x = job(r, i)
    BY <1>1
  <1>8. DOMAIN db.current = D /\ \A r \in D : db.current[r] = local[r].current BY <1>1
  <1>9. \A r \in indexed : /\ \A f \in {"a", "b"} : file(r, f) \in db.files
                           /\ node(r, "m", "a") \in db.nodes /\ node(r, "n", "none") \in db.nodes
    BY <1>1
  <1>10. \A r \in indexed : r \in D /\ local[r].current > 0 OBVIOUS
  <1> HIDE DEF indexed
  <1>11. \A x \in Records(db) : x.repository \in D /\ x.version \in Nat
    <2>0. \A x \in db.files \cup db.observations \cup db.nodes \cup db.edges :
            \E r \in indexed : x.repository = r /\ x.version = local[r].current
      BY <1>5
    <2>1. \A x \in db.files \cup db.observations \cup db.nodes \cup db.edges : x.repository \in D /\ x.version \in Nat
      BY <1>3, <1>10, <2>0
    <2>2. ASSUME NEW x \in db.evidence PROVE x.repository \in D /\ x.version \in Nat
      <3>1. PICK r \in D : \E v \in local[r].evidence : x = answer(r, v) BY <1>6
      <3>2. PICK v \in local[r].evidence : x = answer(r, v) BY <3>1
      <3>3. x.repository = r /\ x.version = v BY <3>2
      <3> QED BY <1>3, <3>3
    <2>3. ASSUME NEW x \in db.jobs PROVE x.repository \in D /\ x.version \in Nat
      <3>1. PICK r \in D : \E i \in DOMAIN local[r].jobs : x = job(r, i) BY <1>7
      <3>2. PICK i \in DOMAIN local[r].jobs : x = job(r, i) BY <3>1
      <3>3. x.repository = r /\ x.version = local[r].jobs[i].version BY <3>2
      <3>4. local[r].jobs[i] \in LocalJobs BY <1>3
      <3> QED BY <3>3, <3>4 DEF LocalJobs
    <2> QED BY <2>1, <2>2, <2>3 DEF Records
  <1>12. IsFiniteSet(Records(db))
    <2> DEFINE fixed(r) == {file(r, "a"), file(r, "b"), use(r, "a"), use(r, "b"),
                            node(r, "m", "a"), node(r, "n", "none"), edge(r)}
               said(r) == {answer(r, v) : v \in local[r].evidence}
               made(r) == {job(r, i) : i \in DOMAIN local[r].jobs}
               of == [r \in D |-> (fixed(r) \cup said(r)) \cup made(r)]
    <2>1. ASSUME NEW r \in D PROVE IsFiniteSet(fixed(r))
      <3> DEFINE f == <<file(r, "a"), file(r, "b"), use(r, "a"), use(r, "b"),
                        node(r, "m", "a"), node(r, "n", "none"), edge(r)>>
      <3>1. Covers(f, 1..7, fixed(r))
        <4> HIDE DEF file, use, node, edge
        <4> QED BY DEF Covers
      <3> HIDE DEF f, fixed
      <3> QED BY <3>1, IntervalIsFinite, CoverIsFinite
    <2>2. ASSUME NEW r \in D PROVE IsFiniteSet(said(r))
      <3> DEFINE c == local[r].current
                 f == [v \in 0..c |-> answer(r, v)]
      <3>1. c \in Nat /\ \A v \in local[r].evidence : v \in 0..c BY <1>3
      <3>2. Covers(f, 0..c, said(r)) BY <3>1 DEF Covers
      <3> HIDE DEF c, f, said
      <3> QED BY <3>1, <3>2, CoverIsFinite, IntervalIsFinite
    <2>3. ASSUME NEW r \in D PROVE IsFiniteSet(made(r))
      <3> DEFINE n1 == Len(local[r].jobs)
                 f == [i \in 1..n1 |-> job(r, i)]
      <3>1. n1 \in Nat /\ DOMAIN local[r].jobs = 1..n1 BY <1>3
      <3>2. Covers(f, 1..n1, made(r)) BY <3>1 DEF Covers
      <3> HIDE DEF n1, f, made
      <3> QED BY <3>1, <3>2, CoverIsFinite, IntervalIsFinite
    <2>4. Records(db) \subseteq UNION {of[r] : r \in D}
      <3>1. \A x \in db.files \cup db.observations \cup db.nodes \cup db.edges : \E r \in D : x \in fixed(r)
        <4> HIDE DEF file, use, node, edge
        <4> QED BY <1>5, <1>10
      <3>2. \A x \in db.evidence : \E r \in D : x \in said(r) BY <1>6
      <3>3. \A x \in db.jobs : \E r \in D : x \in made(r) BY <1>7
      <3> HIDE DEF fixed, said, made
      <3> QED BY <3>1, <3>2, <3>3 DEF Records
    <2> HIDE DEF fixed, said, made
    <2>5. AreFinite(of, D) BY <2>1, <2>2, <2>3, FS_Union DEF AreFinite
    <2> HIDE DEF of
    <2> DEFINE all == UNION {of[r] : r \in D}
    <2>6. IsFiniteSet(all) BY <1>4, <2>5, UnionIsFinite
    <2>7. Records(db) \subseteq all BY <2>4
    <2> HIDE DEF all
    <2> QED BY <2>6, <2>7, FS_Subset
  <1>13. IsLegacy(db) BY <1>1, <1>3, <1>11, <1>12 DEF IsLegacy
  <1>14. \A x \in db.files \cup db.observations \cup db.nodes \cup db.edges : x.version = db.current[x.repository]
    <2>1. \A x \in db.files \cup db.observations \cup db.nodes \cup db.edges :
            \E r \in indexed : x.repository = r /\ x.version = local[r].current
      BY <1>5
    <2> QED BY <1>8, <1>10, <2>1
  <1>15. ASSUME NEW r \in D, db.current[r] > 0 PROVE \E f \in db.files : f.repository = r
    <2>1. r \in indexed BY <1>8, <1>15 DEF indexed
    <2> QED BY <1>9, <2>1
  <1>16. ASSUME NEW r \in indexed, NEW f \in {"a", "b"}
         PROVE  <<r, local[r].current, f>> \in {FileOf(g) : g \in db.files}
    <2>1. file(r, f) \in db.files /\ FileOf(file(r, f)) = <<r, local[r].current, f>>
      BY <1>9 DEF FileOf
    <2> HIDE DEF file
    <2> QED BY <2>1
  <1>17. ASSUME NEW x \in FileUsers(db), x.version = db.current[x.repository]
         PROVE  FileOf(x) \in {FileOf(f) : f \in db.files}
    <2>1. CASE x \in db.observations
      <3>1. PICK r \in indexed, f \in {"a", "b"} : x = use(r, f) BY <1>5, <2>1
      <3> QED BY <1>16, <3>1 DEF FileOf
    <2>2. CASE x \in db.evidence
      <3>1. PICK r \in D : \E v \in local[r].evidence : x = answer(r, v) BY <1>6, <2>2
      <3>2. PICK v \in local[r].evidence : x = answer(r, v) BY <3>1
      <3>3. v = local[r].current /\ local[r].current > 0 BY <1>3, <1>8, <1>17, <3>2
      <3>4. r \in indexed BY <3>3 DEF indexed
      <3> QED BY <1>16, <3>2, <3>3, <3>4 DEF FileOf
    <2>3. CASE x \in db.nodes /\ x.file # "none"
      <3>1. PICK r \in indexed : x = node(r, "m", "a") BY <1>5, <2>3
      <3> QED BY <1>16, <3>1 DEF FileOf
    <2> QED BY <2>1, <2>2, <2>3 DEF FileUsers
  <1>18. ASSUME NEW e \in db.edges
         PROVE  {NodeOf(e, e.source), NodeOf(e, e.target)} \subseteq {NodeOf(m, m.id) : m \in db.nodes}
    <2>1. PICK r \in indexed : e = edge(r) BY <1>5
    <2>2. NodeOf(e, e.source) = NodeOf(node(r, "m", "a"), node(r, "m", "a").id)
          /\ NodeOf(e, e.target) = NodeOf(node(r, "n", "none"), node(r, "n", "none").id)
      BY <2>1 DEF NodeOf
    <2> HIDE DEF node
    <2> QED BY <1>9, <2>2
  <1>19. ASSUME NEW r \in D, NEW j \in Unfinished(db, r), NEW k \in Unfinished(db, r) PROVE j = k
    <2>1. ASSUME NEW x \in Unfinished(db, r) PROVE x = job(r, Len(local[r].jobs))
      <3>1. x \in db.jobs /\ x.repository = r /\ StateOf(x) \in {"queued", "running"}
        BY DEF Unfinished
      <3>2. PICK s \in D : \E i \in DOMAIN local[s].jobs : x = job(s, i) BY <1>7, <3>1
      <3>3. PICK i \in DOMAIN local[s].jobs : x = job(s, i) BY <3>2
      <3>4. s = r BY <3>1, <3>3
      <3>5. x.status = local[r].jobs[i].status /\ local[r].jobs[i].status \in {"completed", "failed", "running"}
        BY <1>3, <3>3, <3>4 DEF LocalJobs
      <3>6. local[r].jobs[i].status = "running" BY <3>1, <3>5 DEF StateOf, JobStates
      <3>7. i = Len(local[r].jobs) BY <1>3, <3>3, <3>4, <3>6
      <3> QED BY <3>3, <3>4, <3>7
    <2> HIDE DEF job
    <2> QED BY <2>1
  <1>20. IsLeft(db) BY <1>0, <1>8, <1>11, <1>14, <1>15, <1>17, <1>18, <1>19 DEF IsLeft
  <1> QED BY <1>13, <1>20 DEF db

---------------------------------------------------------------------------
(* The code graph. *)

\* The folders of a path reach up to the root.
LEMMA FilesAreClosed ==
  ASSUME NEW S, NEW path \in Seq(S), path # <<>>
  PROVE  Closed(FilePart(path), FilePart(path).nodes)
  <1> DEFINE up(n) == SubSeq(path, 1, n)
             nodes == FilePart(path).nodes
  <1>1. Len(path) \in Nat /\ Len(path) >= 1 OBVIOUS
  <1>2. nodes = {FolderNode(<<>>), FileNode(path)} \cup {FolderNode(d) : d \in Folders(path)}
    BY DEF FilePart
  <1>3. ASSUME NEW n \in 0..(Len(path) - 1) PROVE FolderNode(up(n)) \in nodes
    <2>1. CASE n = 0
      <3>1. up(0) = <<>> BY SubSeqEmpty
      <3> QED BY <1>2, <2>1, <3>1
    <2>2. CASE n # 0
      <3>1. up(n) \in Folders(path) BY <1>1, <2>2 DEF Folders
      <3> HIDE DEF up
      <3> QED BY <1>2, <3>1
    <2> QED BY <2>1, <2>2
  <1>4. ASSUME NEW n \in 1..(Len(path) - 1) PROVE Front(up(n)) = up(n - 1)
    <2>1. Len(up(n)) = n BY <1>1, SubSeqProperties
    <2>2. Front(up(n)) = SubSeq(up(n), 1, n - 1) BY <2>1 DEF Front
    <2>3. CASE n = 1 BY <2>2, <2>3, SubSeqEmpty
    <2>4. CASE n # 1 BY <1>1, <2>2, <2>4, SubSeqOfSubSeq
    <2> QED BY <2>3, <2>4
  <1>5. Front(path) = up(Len(path) - 1) BY DEF Front
  <1> HIDE DEF up, nodes
  <1>6. ASSUME NEW e \in FilePart(path).edges PROVE e.source \in nodes /\ e.target \in nodes
    <2>1. \/ \E d \in Folders(path) : e.source = FolderNode(Front(d)) /\ e.target = FolderNode(d)
          \/ e.source = FolderNode(Front(path)) /\ e.target = FileNode(path)
      BY DEF FilePart, GraphEdge
    <2>2. ASSUME NEW d \in Folders(path), e.source = FolderNode(Front(d)), e.target = FolderNode(d)
          PROVE  e.source \in nodes /\ e.target \in nodes
      <3>1. PICK n \in 1..(Len(path) - 1) : d = up(n) BY DEF Folders, up
      <3>2. n - 1 \in 0..(Len(path) - 1) /\ n \in 0..(Len(path) - 1) BY <1>1
      <3> QED BY <1>3, <1>4, <2>2, <3>1, <3>2
    <2>3. Len(path) - 1 \in 0..(Len(path) - 1) BY <1>1
    <2> QED BY <1>2, <1>3, <1>5, <2>1, <2>2, <2>3
  <1> QED BY <1>6 DEF Closed, nodes

\* A name that a module defines has a first definition, which references mean.
LEMMA FirstDefinition ==
  ASSUME NEW m, NEW S, m.functions \in Seq(S), NEW i \in DOMAIN m.functions
  PROVE  NodeOfKey(KeyOf(m, m.functions[i])) \in SymbolPart(m).nodes
  <1> DEFINE T == {j \in DOMAIN m.functions : KeyOf(m, m.functions[j]) = KeyOf(m, m.functions[i])}
  <1>1. DOMAIN m.functions = 1..Len(m.functions) /\ Len(m.functions) \in Nat OBVIOUS
  <1>2. PICK k \in T : \A j \in T : k <= j
    <2>1. T \in SUBSET Nat /\ i \in T BY <1>1
    <2> HIDE DEF T
    <2> QED BY <2>1, LeastOfNonempty
  <1>3. {j \in 1..(k - 1) : KeyOf(m, m.functions[j]) = KeyOf(m, m.functions[k])} = {}
    <2> SUFFICES ASSUME NEW j \in 1..(k - 1), KeyOf(m, m.functions[j]) = KeyOf(m, m.functions[k]) PROVE FALSE
      OBVIOUS
    <2>1. k \in Nat /\ j \in DOMAIN m.functions /\ ~ (k <= j) BY <1>1, <1>2
    <2>2. j \in T BY <1>2, <2>1
    <2> QED BY <1>2, <2>1, <2>2
  <1>4. SymbolNode(m, k) = <<"symbol", <<m.file, m.functions[k].qualified>>, KindOf(m.functions[k]), 1>>
    <2>1. Cardinality({j \in 1..(k - 1) : KeyOf(m, m.functions[j]) = KeyOf(m, m.functions[k])}) = 0
      BY <1>3, FS_EmptySet
    <2> QED BY <2>1 DEF SymbolNode
  <1>5. NodeOfKey(KeyOf(m, m.functions[k])) = SymbolNode(m, k)
    BY <1>4 DEF NodeOfKey, KeyOf
  <1> QED BY <1>2, <1>5 DEF SymbolPart

\* Calls come from and, if they resolve, lead to functions of the module.
LEMMA CallsStayInModule ==
  ASSUME NEW m, NEW r \in CallReferences(m)
  PROVE  /\ r.type = "call"
         /\ \E i \in DOMAIN m.functions : r.source = KeyOf(m, m.functions[i])
         /\ \A t \in r.targets : \E i \in DOMAIN m.functions : t = KeyOf(m, m.functions[i])
  <1>1. PICK i \in DOMAIN m.functions :
          /\ r.type = "call" /\ r.source = KeyOf(m, m.functions[i])
          /\ r.targets = CallTargets(m, m.functions[i], r.raw)
    <2> DEFINE places == UNION {{<<i, j>> : j \in DOMAIN m.functions[i].calls} : i \in DOMAIN m.functions}
               source(p) == KeyOf(m, m.functions[p[1]])
               raw(p) == m.functions[p[1]].calls[p[2]]
               before(q, p) == /\ source(q) = source(p) /\ raw(q) = raw(p)
                               /\ (q[1] < p[1] \/ (q[1] = p[1] /\ q[2] < p[2]))
               reference(p) == [source |-> source(p), type |-> "call", raw |-> raw(p),
                                ordinal |-> Cardinality({q \in places : before(q, p)}),
                                targets |-> CallTargets(m, m.functions[p[1]], raw(p))]
    <2>1. CallReferences(m) = {reference(p) : p \in places} BY DEF CallReferences
    <2>2. \A p \in places : p[1] \in DOMAIN m.functions OBVIOUS
    <2> HIDE DEF places, before
    <2>3. PICK p \in places : r = reference(p)
      <3> HIDE DEF reference
      <3> QED BY <2>1
    <2> QED BY <2>2, <2>3
  <1>2. ASSUME NEW name, NEW t \in Named(m, name)
        PROVE  \E j \in DOMAIN m.functions : t = KeyOf(m, m.functions[j])
    BY DEF Named, Range
  <1>3. ASSUME NEW t \in r.targets PROVE \E j \in DOMAIN m.functions : t = KeyOf(m, m.functions[j])
    BY <1>1, <1>2 DEF CallTargets
  <1> QED BY <1>1, <1>3

LEMMA ResolvedHasTarget ==
  ASSUME NEW r, Outcome(r.targets) = "resolved"
  PROVE  TheTarget(r) \in r.targets
  BY FS_EmptySet DEF Outcome, TheTarget

LEMMA EmittedParts ==
  ASSUME NEW repository, NEW m
  PROVE  /\ Emitted(repository, m).nodes = UNION {PartOf(m, r).nodes : r \in Projected(repository, m)}
         /\ Emitted(repository, m).edges = UNION {PartOf(m, r).edges : r \in Projected(repository, m)}
  <1> DEFINE P == Projected(repository, m)
  <1>1. Emitted(repository, m) = Joined({PartOf(m, r) : r \in P})
    BY DEF Emitted, Projected, PartOf
  <1>2. /\ {p.nodes : p \in {PartOf(m, r) : r \in P}} = {PartOf(m, r).nodes : r \in P}
        /\ {p.edges : p \in {PartOf(m, r) : r \in P}} = {PartOf(m, r).edges : r \in P}
    OBVIOUS
  <1> QED BY <1>1, <1>2 DEF Joined

\* What is emitted for a module leads to nodes that are emitted with it, to its symbols or
\* to files.
LEMMA EmittedIsClosed ==
  ASSUME NEW repository, IsRepository(repository), NEW m \in repository.modules,
         NEW nodes, Emitted(repository, m).nodes \subseteq nodes, SymbolPart(m).nodes \subseteq nodes,
         \A p \in repository.files : FileNode(p) \in nodes
  PROVE  Closed(Emitted(repository, m), nodes)
  <1> DEFINE part(r) == PartOf(m, r)
             P == Projected(repository, m)
  <1>1. /\ P \subseteq References(repository, m)
        /\ Emitted(repository, m).nodes = UNION {part(r).nodes : r \in P}
        /\ Emitted(repository, m).edges = UNION {part(r).edges : r \in P}
    BY EmittedParts DEF Projected
  <1> HIDE DEF P
  <1>2. PICK S : m.functions \in Seq(S) BY DEF IsRepository
  <1>3. FileNode(m.file) \in nodes BY DEF IsRepository
  <1>4. \A i \in DOMAIN m.functions : NodeOfKey(KeyOf(m, m.functions[i])) \in nodes
    BY <1>2, FirstDefinition
  <1>5. ASSUME NEW r \in P PROVE part(r).nodes \subseteq nodes
    <2>1. part(r).nodes \in {part(x).nodes : x \in P} OBVIOUS
    <2> HIDE DEF part
    <2> QED BY <1>1, <2>1
  <1>6. ASSUME NEW r \in P, r \in CallReferences(m), NEW e \in part(r).edges
        PROVE  e.source \in nodes /\ e.target \in nodes
    <2>1. /\ r.type = "call"
          /\ \E i \in DOMAIN m.functions : r.source = KeyOf(m, m.functions[i])
          /\ \A t \in r.targets : \E i \in DOMAIN m.functions : t = KeyOf(m, m.functions[i])
      BY <1>6, CallsStayInModule
    <2> DEFINE source == IF r.source = NoEntity THEN FileNode(m.file) ELSE NodeOfKey(r.source)
               site   == <<"call_site", m.file, r.source, r.raw, r.ordinal>>
               other  == <<"unresolved_call", <<m.file, r.raw>>>>
               target == IF Outcome(r.targets) = "resolved" THEN NodeOfKey(TheTarget(r)) ELSE other
    <2>2. /\ CallPart(m, r).nodes = {site} \cup IF target = other THEN {other} ELSE {}
          /\ CallPart(m, r).edges = {GraphEdge(source, target, IF target = other THEN "calls_unresolved" ELSE "calls"),
                                     GraphEdge(source, site, "contains_call")}
      BY DEF CallPart
    <2>3. source \in nodes BY <1>3, <1>4, <2>1
    <2>4. CASE Outcome(r.targets) = "resolved"
      <3>1. TheTarget(r) \in r.targets BY <2>4, ResolvedHasTarget
      <3>2. target \in nodes BY <1>4, <2>1, <2>4, <3>1
      <3>3. site \in nodes BY <1>5, <2>1, <2>2 DEF PartOf
      <3> HIDE DEF source, site, target, other
      <3> QED BY <1>6, <2>1, <2>2, <2>3, <3>2, <3>3 DEF GraphEdge, PartOf
    <2>5. CASE Outcome(r.targets) # "resolved"
      <3>1. target = other BY <2>5
      <3> HIDE DEF source, site, target, other
      <3>2. target \in nodes /\ site \in nodes BY <1>5, <2>1, <2>2, <3>1 DEF PartOf
      <3> QED BY <1>6, <2>1, <2>2, <2>3, <3>2 DEF GraphEdge, PartOf
    <2> QED BY <2>4, <2>5
  <1>7. ASSUME NEW r \in P, r \in ImportReferences(repository, m), NEW e \in part(r).edges
        PROVE  e.source \in nodes /\ e.target \in nodes
    <2>1. r.type = "import" /\ r.targets = ImportTargets(repository, r.raw)
      BY <1>7 DEF ImportReferences
    <2>2. /\ part(r).nodes = {<<"module", r.raw>>}
          /\ e \in {GraphEdge(FileNode(m.file), <<"module", r.raw>>, "imports")}
                   \cup IF Outcome(r.targets) = "resolved"
                        THEN {GraphEdge(FileNode(m.file), TheTarget(r), "imports_internal")} ELSE {}
      BY <1>7, <2>1 DEF ImportPart, PartOf
    <2>3. <<"module", r.raw>> \in nodes BY <1>5, <2>2
    <2>4. ASSUME Outcome(r.targets) = "resolved" PROVE TheTarget(r) \in nodes
      <3>1. TheTarget(r) \in r.targets BY <2>4, ResolvedHasTarget
      <3>2. PICK p \in repository.files : TheTarget(r) = <<"file", p>>
        BY <2>1, <3>1 DEF ImportTargets
      <3> QED BY <3>2 DEF FileNode
    <2> QED BY <1>3, <2>2, <2>3, <2>4 DEF GraphEdge
  <1>8. ASSUME NEW e \in Emitted(repository, m).edges PROVE e.source \in nodes /\ e.target \in nodes
    <2>1. PICK r \in P : e \in part(r).edges
      <3> HIDE DEF part
      <3> QED BY <1>1
    <2>2. r \in CallReferences(m) \/ r \in ImportReferences(repository, m)
      BY <1>1 DEF References
    <2> QED BY <1>6, <1>7, <2>1, <2>2
  <1> QED BY <1>8 DEF Closed

\* Whatever is repeated, ambiguous, recursive or imported, each edge that a stage adds to
\* the graph of a repository ends in nodes that some stage adds, so that normalization
\* drops nothing (GraphService.build_graph, CPGEmitter.apply, normalize_repository_graph).
THEOREM GraphsAreClosed ==
  ASSUME NEW repository, IsRepository(repository)
  PROVE  NothingDangles(repository)
  <1> DEFINE parts == {AllEmitted(repository), ClientPart(repository)} \cup {FilePart(p) : p \in repository.files}
                      \cup UNION {{SymbolPart(m), EndpointPart(m)} : m \in repository.modules}
             nodes == UNION {p.nodes : p \in parts}
  <1>1. Built(repository) = [nodes |-> nodes, edges |-> UNION {p.edges : p \in parts}]
    BY DEF Built, Assembled, Joined
  <1>2. ASSUME NEW p \in parts PROVE p.nodes \subseteq nodes OBVIOUS
  <1>3. /\ AllEmitted(repository) \in parts /\ ClientPart(repository) \in parts
        /\ \A p \in repository.files : FilePart(p) \in parts
        /\ \A m \in repository.modules : SymbolPart(m) \in parts /\ EndpointPart(m) \in parts
    OBVIOUS
  <1>4. \A p \in parts : \/ p = AllEmitted(repository) \/ p = ClientPart(repository)
                         \/ \E f \in repository.files : p = FilePart(f)
                         \/ \E m \in repository.modules : p = SymbolPart(m) \/ p = EndpointPart(m)
    OBVIOUS
  <1> HIDE DEF parts, nodes
  <1>5. ASSUME NEW p \in repository.files PROVE FileNode(p) \in nodes
    BY <1>2, <1>3 DEF FilePart
  <1>6. ASSUME NEW m \in repository.modules
        PROVE  /\ \A i \in DOMAIN m.functions : SymbolNode(m, i) \in nodes
               /\ \A e \in m.endpoints : EndpointNode(e) \in nodes
               /\ SymbolPart(m).nodes \subseteq nodes
    BY <1>2, <1>3 DEF SymbolPart, EndpointPart
  <1>7. Closed(AllEmitted(repository), nodes)
    <2>1. ASSUME NEW m \in repository.modules PROVE Closed(Emitted(repository, m), nodes)
      BY <1>2, <1>3, <1>5, <1>6, EmittedIsClosed DEF AllEmitted, Joined
    <2>2. \A e \in AllEmitted(repository).edges : \E m \in repository.modules : e \in Emitted(repository, m).edges
      BY DEF AllEmitted, Joined
    <2> QED BY <2>1, <2>2 DEF Closed
  <1>8. Closed(ClientPart(repository), nodes)
    <2> DEFINE end(c) == CHOOSE e \in Served(repository, c) : TRUE
    <2>1. ASSUME NEW c \in repository.clientCalls, Cardinality(Served(repository, c)) = 1
          PROVE  EndpointNode(end(c)) \in nodes
      <3>1. Served(repository, c) # {} BY <2>1, FS_EmptySet
      <3>2. end(c) \in Served(repository, c) BY <3>1
      <3>3. Served(repository, c) \subseteq UNION {m.endpoints : m \in repository.modules}
        BY DEF Served
      <3> HIDE DEF end
      <3>4. PICK m \in repository.modules : end(c) \in m.endpoints BY <3>2, <3>3
      <3> QED BY <1>6, <3>4
    <2>2. \A c \in repository.clientCalls : ClientNode(c) \in nodes
      BY <1>2, <1>3 DEF ClientPart
    <2>3. \A e \in ClientPart(repository).edges :
            \E c \in repository.clientCalls : /\ Cardinality(Served(repository, c)) = 1
                                             /\ e.source = ClientNode(c) /\ e.target = EndpointNode(end(c))
      BY DEF ClientPart, GraphEdge
    <2> HIDE DEF end
    <2> QED BY <2>1, <2>2, <2>3 DEF Closed
  <1>9. ASSUME NEW p \in repository.files PROVE Closed(FilePart(p), nodes)
    BY <1>2, <1>3, FilesAreClosed DEF IsRepository, Closed
  <1>10. ASSUME NEW m \in repository.modules PROVE Closed(SymbolPart(m), nodes)
    BY <1>5, <1>6 DEF IsRepository, Closed, SymbolPart, GraphEdge
  <1>11. ASSUME NEW m \in repository.modules PROVE Closed(EndpointPart(m), nodes)
    <2> DEFINE handlers(e) == {i \in DOMAIN m.functions : Last(m.functions[i].qualified) = e.handler}
    <2>1. ASSUME NEW e \in m.endpoints, handlers(e) # {} PROVE Max(handlers(e)) \in DOMAIN m.functions
      <3>1. DOMAIN m.functions = 1..Len(m.functions) /\ Len(m.functions) \in Nat
        BY DEF IsRepository
      <3>2. IsFiniteSet(1..Len(m.functions)) BY <3>1, FS_Interval
      <3>3. handlers(e) \in SUBSET Nat /\ IsFiniteSet(handlers(e))
        BY <3>1, <3>2, FS_Subset
      <3>4. Max(handlers(e)) \in handlers(e)
        <4> HIDE DEF handlers
        <4> QED BY <2>1, <3>3, MaxOfFinite
      <3> QED BY <3>4
    <2>2. \A x \in EndpointPart(m).edges :
            \E e \in m.endpoints : /\ handlers(e) # {}
                                  /\ x.source = EndpointNode(e) /\ x.target = SymbolNode(m, Max(handlers(e)))
      BY DEF EndpointPart, GraphEdge
    <2> HIDE DEF handlers
    <2> QED BY <1>6, <2>1, <2>2 DEF Closed
  <1>12. \A p \in parts : Closed(p, nodes) BY <1>4, <1>7, <1>8, <1>9, <1>10, <1>11
  <1>13. \A e \in Built(repository).edges : {e.source, e.target} \subseteq Built(repository).nodes
    BY <1>1, <1>12 DEF Closed
  <1> QED BY <1>1, <1>13 DEF NothingDangles, Normalized

\* A module counts as valid when no name is defined twice in it.
LEMMA ValidUnlessRepeated ==
  ASSUME NEW repository, IsRepository(repository), IsParsed(repository), NEW m \in repository.modules
  PROVE  LET references == References(repository, m)
         IN ActiveEvidence(repository, m, references) = IF Repeats(m) THEN {} ELSE Resolved(references)
  <1> DEFINE references == References(repository, m)
             candidates == EdgeCandidates(m, references)
  <1>1. PICK S : m.functions \in Seq(S) BY DEF IsRepository
  <1>2. DOMAIN m.functions = 1..Len(m.functions) /\ Len(m.functions) \in Nat BY <1>1
  <1>3. \A i \in DOMAIN m.functions : /\ NodeCandidates(m)[i].key = KeyOf(m, m.functions[i])
                                     /\ NodeCandidates(m)[i].span = m.functions[i].span
    BY DEF NodeCandidates
  <1>4. ASSUME Repeats(m) PROVE Conflicts(m) # {}
    <2>1. PICK i \in DOMAIN m.functions : \E j \in DOMAIN m.functions :
            i # j /\ KeyOf(m, m.functions[i]) = KeyOf(m, m.functions[j])
      BY <1>4 DEF Repeats, KeyOf
    <2>2. PICK j \in DOMAIN m.functions : i # j /\ KeyOf(m, m.functions[i]) = KeyOf(m, m.functions[j])
      BY <2>1
    <2>3. m.functions[i].span # m.functions[j].span BY <2>2 DEF IsParsed
    <2>4. CASE i < j
      <3>1. <<i, j>> \in Conflicts(m) BY <1>3, <2>2, <2>3, <2>4 DEF Conflicts
      <3> QED BY <3>1
    <2>5. CASE j < i
      <3>1. <<j, i>> \in Conflicts(m) BY <1>3, <2>2, <2>3, <2>5 DEF Conflicts
      <3> QED BY <3>1
    <2> QED BY <1>2, <2>2, <2>4, <2>5
  <1>5. ASSUME ~ Repeats(m) PROVE Conflicts(m) = {}
    <2> SUFFICES ASSUME NEW p \in Conflicts(m) PROVE FALSE OBVIOUS
    <2>1. /\ p[1] \in DOMAIN m.functions /\ p[2] \in DOMAIN m.functions /\ p[1] < p[2]
          /\ NodeCandidates(m)[p[1]].key = NodeCandidates(m)[p[2]].key
      BY DEF Conflicts
    <2>2. KeyOf(m, m.functions[p[1]]) = KeyOf(m, m.functions[p[2]]) /\ p[1] # p[2]
      BY <1>2, <1>3, <2>1
    <2> QED BY <1>5, <2>1, <2>2 DEF Repeats, KeyOf
  <1>6. \A c : c \in candidates <=>
          \E r \in Resolved(references) :
            c = [kind |-> "edge", relation |-> IF r.type = "call" THEN "calls" ELSE "imports",
                 source |-> SourceKey(m, r), target |-> TheTarget(r), evidence |-> r]
    BY DEF EdgeCandidates
  <1> HIDE DEF candidates
  <1>7. Dangling(repository, m, references) = {}
    <2> SUFFICES ASSUME NEW c \in candidates
                 PROVE  {c.source, c.target} \subseteq KnownKeys(repository, m, references)
      BY DEF Dangling, candidates
    <2>1. PICK r \in Resolved(references) : c.source = SourceKey(m, r) /\ c.target = TheTarget(r)
      BY <1>6
    <2>2. r \in references /\ TheTarget(r) \in r.targets BY ResolvedHasTarget DEF Resolved
    <2>3. m.file \in repository.files BY DEF IsRepository
    <2> HIDE DEF references
    <2>4. c.source \in KnownKeys(repository, m, references)
      <3>1. r.source \in {x.source : x \in references} BY <2>2
      <3>2. <<"file", m.file>> \in {<<"file", p>> : p \in repository.files} BY <2>3
      <3>3. c.source = <<"file", m.file>> \/ c.source = r.source BY <2>1 DEF SourceKey
      <3> QED BY <3>1, <3>2, <3>3 DEF KnownKeys
    <2>5. c.target \in KnownKeys(repository, m, references) BY <2>1, <2>2 DEF KnownKeys
    <2> QED BY <2>4, <2>5
  <1>8. {c.evidence : c \in candidates} = Resolved(references)
    <2> HIDE DEF references
    <2>1. \A c \in candidates : c.evidence \in Resolved(references) BY <1>6
    <2>2. ASSUME NEW r \in Resolved(references) PROVE r \in {c.evidence : c \in candidates}
      <3>1. PICK c \in candidates : c.evidence = r
        <4> DEFINE c == [kind |-> "edge", relation |-> IF r.type = "call" THEN "calls" ELSE "imports",
                         source |-> SourceKey(m, r), target |-> TheTarget(r), evidence |-> r]
        <4>1. c \in candidates /\ c.evidence = r BY <1>6, <2>2
        <4> QED BY <4>1
      <3> QED BY <3>1
    <2> QED BY <2>1, <2>2
  <1> QED BY <1>4, <1>5, <1>7, <1>8 DEF ActiveEvidence, candidates

\* The types of the edges that other stages add.
LEMMA OtherEdges ==
  ASSUME NEW repository, NEW e \in Built(repository).edges, e.type \in {"calls", "imports_internal"}
  PROVE  \E m \in repository.modules : e \in Emitted(repository, m).edges
  <1> DEFINE parts == {AllEmitted(repository), ClientPart(repository)} \cup {FilePart(p) : p \in repository.files}
                      \cup UNION {{SymbolPart(m), EndpointPart(m)} : m \in repository.modules}
  <1>1. Built(repository).edges = UNION {p.edges : p \in parts}
    BY DEF Built, Assembled, Joined
  <1>2. \A p \in parts : \/ p = AllEmitted(repository) \/ p = ClientPart(repository)
                         \/ \E f \in repository.files : p = FilePart(f)
                         \/ \E m \in repository.modules : p = SymbolPart(m) \/ p = EndpointPart(m)
    OBVIOUS
  <1> HIDE DEF parts
  <1>3. PICK p \in parts : e \in p.edges BY <1>1
  <1>4. p # ClientPart(repository) BY <1>3 DEF ClientPart, GraphEdge
  <1>5. ASSUME NEW f PROVE p # FilePart(f) BY <1>3 DEF FilePart, GraphEdge
  <1>6. ASSUME NEW m PROVE p # SymbolPart(m) /\ p # EndpointPart(m)
    <2>1. p # SymbolPart(m) BY <1>3 DEF SymbolPart, GraphEdge
    <2>2. \A x \in EndpointPart(m).edges : x.type = "exposes_endpoint"
      <3> DEFINE handlers(x) == {i \in DOMAIN m.functions : Last(m.functions[i].qualified) = x.handler}
                 edge(x) == GraphEdge(EndpointNode(x), SymbolNode(m, Max(handlers(x))), "exposes_endpoint")
      <3>1. EndpointPart(m).edges = {edge(x) : x \in {y \in m.endpoints : handlers(y) # {}}}
        BY DEF EndpointPart
      <3>2. \A x : edge(x).type = "exposes_endpoint" BY DEF GraphEdge
      <3> HIDE DEF edge, handlers
      <3> QED BY <3>1, <3>2
    <2> QED BY <1>3, <2>1, <2>2
  <1>7. e \in AllEmitted(repository).edges BY <1>2, <1>3, <1>4, <1>5, <1>6
  <1> QED BY <1>7 DEF AllEmitted, Joined

\* What is emitted for a reference says what it resolved to.
LEMMA PartSaysReference ==
  ASSUME NEW repository, NEW m, NEW r \in References(repository, m)
  PROVE  /\ Outcome(r.targets) = "resolved" =>
              GraphEdge(IF r.source = NoEntity THEN FileNode(m.file) ELSE NodeOfKey(r.source),
                        IF r.type = "call" THEN NodeOfKey(TheTarget(r)) ELSE TheTarget(r),
                        IF r.type = "call" THEN "calls" ELSE "imports_internal") \in PartOf(m, r).edges
         /\ \A e \in PartOf(m, r).edges : e.type \in {"calls", "imports_internal"} =>
              /\ Outcome(r.targets) = "resolved"
              /\ e.type = "calls" <=> r.type = "call"
              /\ e.source = IF r.type = "call" THEN NodeOfKey(r.source) ELSE FileNode(m.file)
         /\ r.type = "call" => r.source # NoEntity /\ \E i \in DOMAIN m.functions : r.source = KeyOf(m, m.functions[i])
         /\ r.type # "call" => r.type = "import" /\ r.source = NoEntity
  <1>1. CASE r \in CallReferences(m)
    <2>1. r.type = "call" /\ \E i \in DOMAIN m.functions : r.source = KeyOf(m, m.functions[i])
      BY <1>1, CallsStayInModule
    <2>2. r.source # NoEntity BY <2>1 DEF KeyOf, NoEntity
    <2> DEFINE site  == <<"call_site", m.file, r.source, r.raw, r.ordinal>>
               other == <<"unresolved_call", <<m.file, r.raw>>>>
    <2>3. NodeOfKey(TheTarget(r)) # other BY DEF NodeOfKey
    <2>4. CASE Outcome(r.targets) = "resolved"
      <3>1. PartOf(m, r).edges = {GraphEdge(NodeOfKey(r.source), NodeOfKey(TheTarget(r)), "calls"),
                                  GraphEdge(NodeOfKey(r.source), site, "contains_call")}
        BY <2>1, <2>2, <2>3, <2>4 DEF PartOf, CallPart
      <3> HIDE DEF site
      <3> QED BY <2>1, <2>2, <2>4, <3>1 DEF GraphEdge
    <2>5. CASE Outcome(r.targets) # "resolved"
      <3>1. PartOf(m, r).edges = {GraphEdge(NodeOfKey(r.source), other, "calls_unresolved"),
                                  GraphEdge(NodeOfKey(r.source), site, "contains_call")}
        BY <2>1, <2>2, <2>5 DEF PartOf, CallPart
      <3> HIDE DEF site, other
      <3> QED BY <2>1, <2>2, <2>5, <3>1 DEF GraphEdge
    <2> QED BY <2>4, <2>5
  <1>2. CASE r \in ImportReferences(repository, m)
    BY <1>2 DEF ImportReferences, PartOf, ImportPart, GraphEdge
  <1> QED BY <1>1, <1>2 DEF References

\* A reference that resolves to one definition is an edge of the graph unless its module
\* defines a name twice, and then none of the module's is
\* (GraphCandidateNormalizer, CPGEmitter.apply).
THEOREM ReferencesAreDrawn ==
  ASSUME NEW repository, IsRepository(repository), IsParsed(repository)
  PROVE  ResolvedReferencesAreDrawn(repository)
  <1> DEFINE graph == Normalized(Built(repository))
             drawn(m, r) == \E e \in graph.edges :
               /\ e.source = IF r.source = NoEntity THEN FileNode(m.file) ELSE NodeOfKey(r.source)
               /\ e.target = IF r.type = "call" THEN NodeOfKey(TheTarget(r)) ELSE TheTarget(r)
               /\ e.type = IF r.type = "call" THEN "calls" ELSE "imports_internal"
  <1>1. graph = Built(repository) BY GraphsAreClosed DEF NothingDangles
  <1> HIDE DEF graph
  <1>2. ASSUME NEW m \in repository.modules, NEW r \in Resolved(References(repository, m))
        PROVE  /\ r \in References(repository, m) /\ Outcome(r.targets) = "resolved"
               /\ r \in Projected(repository, m) <=> ~ Repeats(m)
    BY ValidUnlessRepeated DEF Resolved, Projected
  <1>3. ASSUME NEW m \in repository.modules PROVE Emitted(repository, m).edges \subseteq graph.edges
    <2>1. Emitted(repository, m).edges \subseteq AllEmitted(repository).edges
      <3>1. Emitted(repository, m).edges \in {p.edges : p \in {Emitted(repository, x) : x \in repository.modules}}
        OBVIOUS
      <3> QED BY <3>1 DEF AllEmitted, Joined
    <2>2. AllEmitted(repository).edges \subseteq Built(repository).edges
      BY DEF Built, Assembled, Joined
    <2> QED BY <1>1, <2>1, <2>2
  <1>4. ASSUME NEW m \in repository.modules, NEW r \in Resolved(References(repository, m)), ~ Repeats(m)
        PROVE  drawn(m, r)
    <2> DEFINE e == GraphEdge(IF r.source = NoEntity THEN FileNode(m.file) ELSE NodeOfKey(r.source),
                              IF r.type = "call" THEN NodeOfKey(TheTarget(r)) ELSE TheTarget(r),
                              IF r.type = "call" THEN "calls" ELSE "imports_internal")
    <2>1. r \in References(repository, m) /\ Outcome(r.targets) = "resolved" /\ r \in Projected(repository, m)
      BY <1>2, <1>4
    <2>2. e \in PartOf(m, r).edges BY <2>1, PartSaysReference
    <2> HIDE DEF e
    <2>3. e \in Emitted(repository, m).edges BY <2>1, <2>2, EmittedParts
    <2>4. e \in graph.edges BY <1>3, <2>3
    <2> QED BY <2>4 DEF e, GraphEdge
  <1>5. ASSUME NEW m \in repository.modules, NEW r \in Resolved(References(repository, m)), drawn(m, r), Repeats(m)
        PROVE  FALSE
    <2>1. PICK e \in graph.edges :
            /\ e.source = IF r.source = NoEntity THEN FileNode(m.file) ELSE NodeOfKey(r.source)
            /\ e.type = IF r.type = "call" THEN "calls" ELSE "imports_internal"
      BY <1>5
    <2>2. PICK n \in repository.modules : e \in Emitted(repository, n).edges
      BY <1>1, <2>1, OtherEdges
    <2>3. PICK x \in Projected(repository, n) : e \in PartOf(n, x).edges
      BY <2>2, EmittedParts
    <2>4. x \in References(repository, n) BY DEF Projected
    <2>5. /\ Outcome(x.targets) = "resolved"
          /\ e.type = "calls" <=> x.type = "call"
          /\ e.source = IF x.type = "call" THEN NodeOfKey(x.source) ELSE FileNode(n.file)
          /\ x.type = "call" => \E i \in DOMAIN n.functions : x.source = KeyOf(n, n.functions[i])
      BY <2>1, <2>3, <2>4, PartSaysReference
    <2>6. /\ r.type = "call" => r.source # NoEntity /\ \E i \in DOMAIN m.functions : r.source = KeyOf(m, m.functions[i])
          /\ r.type # "call" => r.type = "import" /\ r.source = NoEntity
      BY <1>2, <1>5, PartSaysReference
    <2>7. m.file = n.file
      <3>1. CASE r.type = "call"
        <4>1. PICK i \in DOMAIN m.functions : r.source = KeyOf(m, m.functions[i])
          BY <2>6, <3>1
        <4>2. PICK j \in DOMAIN n.functions : x.source = KeyOf(n, n.functions[j])
          BY <2>1, <2>5, <3>1
        <4>3. NodeOfKey(r.source) = NodeOfKey(x.source) BY <2>1, <2>5, <2>6, <3>1
        <4>4. <<m.file, m.functions[i].qualified>> = <<n.file, n.functions[j].qualified>>
          BY <4>1, <4>2, <4>3 DEF NodeOfKey, KeyOf
        <4> QED BY <4>4
      <3>2. CASE r.type # "call"
        <4>1. FileNode(m.file) = FileNode(n.file) BY <2>1, <2>5, <2>6, <3>2
        <4> QED BY <4>1 DEF FileNode
      <3> QED BY <3>1, <3>2
    <2>8. m = n BY <2>7 DEF IsParsed
    <2>9. x \in Resolved(References(repository, m)) /\ x \in Projected(repository, m)
      BY <2>4, <2>5, <2>8 DEF Resolved
    <2> QED BY <1>2, <1>5, <2>9
  <1>6. \A m \in repository.modules : \A r \in Resolved(References(repository, m)) : drawn(m, r) <=> ~ Repeats(m)
    BY <1>4, <1>5
  <1> QED BY <1>6 DEF ResolvedReferencesAreDrawn, Repeats, graph

---------------------------------------------------------------------------
(* Impact. *)

LEMMA FurtherIsTouching ==
  ASSUME NEW g, IsGraph(g), NEW S \in SUBSET DOMAIN g.node
  PROVE  \A y : y \in Further(g, S) <=> y \in S \/ \E x \in S : Touch(g, x, y)
  <1>1. \A e : e \in Range(g.edges) <=> \E i \in DOMAIN g.edges : e = g.edges[i]
    BY DEF Range
  <1>2. \A e \in Range(g.edges) : e.source \in DOMAIN g.node /\ e.target \in DOMAIN g.node
    BY DEF IsGraph
  <1>3. ASSUME NEW y \in Further(g, S), y \notin S PROVE \E x \in S : Touch(g, x, y)
    <2>1. PICK i \in DOMAIN g.edges :
            /\ y \in {g.edges[i].source, g.edges[i].target}
            /\ {g.edges[i].source, g.edges[i].target} \cap S # {}
      BY <1>3 DEF Further
    <2>2. PICK x \in S : x \in {g.edges[i].source, g.edges[i].target} BY <2>1
    <2>3. g.edges[i] \in Range(g.edges) /\ x # y BY <1>1, <1>3
    <2> QED BY <2>1, <2>2, <2>3 DEF Touch
  <1>4. ASSUME NEW y, NEW x \in S, Touch(g, x, y) PROVE y \in Further(g, S)
    <2>1. PICK i \in DOMAIN g.edges : \/ g.edges[i].source = x /\ g.edges[i].target = y
                                      \/ g.edges[i].target = x /\ g.edges[i].source = y
      BY <1>1, <1>4 DEF Touch
    <2>2. y \in DOMAIN g.node BY <1>1, <1>2, <2>1
    <2> QED BY <2>1, <2>2 DEF Further
  <1>5. S \subseteq Further(g, S) BY DEF Further
  <1> QED BY <1>3, <1>4, <1>5

LEMMA NearEquations ==
  ASSUME NEW g, IsGraph(g), NEW roots \in SUBSET DOMAIN g.node
  PROVE  /\ Near(g, roots, 0) = roots
         /\ \A k \in Nat : /\ Near(g, roots, k) \in SUBSET DOMAIN g.node
                           /\ Near(g, roots, k + 1) = Further(g, Near(g, roots, k))
                           /\ \A y : y \in Near(g, roots, k + 1) <=>
                                y \in Near(g, roots, k) \/ \E x \in Near(g, roots, k) : Touch(g, x, y)
         /\ \A m, n \in Nat : m <= n => Near(g, roots, m) \subseteq Near(g, roots, n)
  <1> DEFINE N == DOMAIN g.node
             st == FurtherStep(g)
             W(k) == Near(g, roots, k)
  <1>1. st \in [SUBSET N -> SUBSET N] BY DEF FurtherStep, Further
  <1>2. W(0) = roots BY IterateEquations DEF Near
  <1>3. \A k \in Nat : W(k) \in SUBSET N
    <2> HIDE DEF st, N
    <2>1. \A k \in Nat : Iterate(roots, st, k) \in SUBSET N BY <1>1, IterateType DEF N
    <2> QED BY <2>1 DEF Near, st
  <1>4. ASSUME NEW k \in Nat PROVE W(k + 1) = Further(g, W(k))
    <2>1. W(k + 1) = st[W(k)] BY IterateEquations DEF Near
    <2> QED BY <1>3, <2>1 DEF FurtherStep
  <1> HIDE DEF W
  <1>5. ASSUME NEW k \in Nat
        PROVE  \A y : y \in W(k + 1) <=> y \in W(k) \/ \E x \in W(k) : Touch(g, x, y)
    BY <1>3, <1>4, FurtherIsTouching
  <1> DEFINE T == {n \in Nat : \A m \in Nat : m <= n => W(m) \subseteq W(n)}
  <1>6. 0 \in T OBVIOUS
  <1>7. ASSUME NEW n \in Nat, n \in T PROVE n + 1 \in T
    <2> SUFFICES ASSUME NEW m \in Nat, m <= n + 1 PROVE W(m) \subseteq W(n + 1) OBVIOUS
    <2>1. CASE m <= n BY <1>5, <1>7, <2>1
    <2>2. CASE m = n + 1 BY <2>2
    <2> QED BY <2>1, <2>2
  <1>8. \A n \in Nat : n \in T
    <2> HIDE DEF T
    <2> QED BY <1>6, <1>7, SetInduction
  <1> QED BY <1>2, <1>3, <1>4, <1>5, <1>8 DEF W

LEMMA RangeOfAppend ==
  ASSUME NEW S, NEW s \in Seq(S), NEW x \in S
  PROVE  /\ Append(s, x) \in Seq(S) /\ Len(Append(s, x)) = Len(s) + 1
         /\ Append(s, x)[Len(s) + 1] = x /\ \A i \in 1..Len(s) : Append(s, x)[i] = s[i]
         /\ Range(Append(s, x)) = Range(s) \cup {x}
  <1> DEFINE t == Append(s, x)
  <1>1. /\ t \in Seq(S) /\ Len(t) = Len(s) + 1
        /\ t[Len(s) + 1] = x /\ \A i \in 1..Len(s) : t[i] = s[i]
    OBVIOUS
  <1>2. DOMAIN t = 1..(Len(s) + 1) /\ DOMAIN s = 1..Len(s) /\ Len(s) \in Nat BY <1>1
  <1> HIDE DEF t
  <1>3. \A y : y \in Range(t) <=> \E i \in 1..(Len(s) + 1) : y = t[i] BY <1>2 DEF Range
  <1>4. \A y : y \in Range(s) <=> \E i \in 1..Len(s) : y = s[i] BY <1>2 DEF Range
  <1>5. \A i \in 1..(Len(s) + 1) : i \in 1..Len(s) \/ i = Len(s) + 1 BY <1>2
  <1>6. Len(s) + 1 \in 1..(Len(s) + 1) /\ \A i \in 1..Len(s) : i \in 1..(Len(s) + 1)
    BY <1>2
  <1>7. Range(t) = Range(s) \cup {x} BY <1>1, <1>3, <1>4, <1>5, <1>6
  <1> QED BY <1>1, <1>7 DEF t

LEMMA RangeOfTail ==
  ASSUME NEW S, NEW s \in Seq(S), s # <<>>
  PROVE  /\ Tail(s) \in Seq(S) /\ Head(s) \in S /\ Head(s) = s[1] /\ Len(s) \in Nat /\ Len(s) >= 1
         /\ Len(Tail(s)) = Len(s) - 1 /\ \A i \in 1..(Len(s) - 1) : Tail(s)[i] = s[i + 1]
         /\ Range(s) = {Head(s)} \cup Range(Tail(s))
  <1> DEFINE t == Tail(s)
  <1>1. /\ t \in Seq(S) /\ Head(s) \in S /\ Head(s) = s[1] /\ Len(s) \in Nat /\ Len(s) >= 1
        /\ Len(t) = Len(s) - 1 /\ \A i \in 1..(Len(s) - 1) : t[i] = s[i + 1]
    OBVIOUS
  <1>2. DOMAIN t = 1..(Len(s) - 1) /\ DOMAIN s = 1..Len(s) BY <1>1
  <1> HIDE DEF t
  <1>3. \A y : y \in Range(t) <=> \E i \in 1..(Len(s) - 1) : y = t[i] BY <1>2 DEF Range
  <1>4. \A y : y \in Range(s) <=> \E i \in 1..Len(s) : y = s[i] BY <1>2 DEF Range
  <1>5. \A i \in 1..Len(s) : i = 1 \/ (i - 1 \in 1..(Len(s) - 1) /\ s[i] = t[i - 1])
    BY <1>1
  <1>6. 1 \in 1..Len(s) /\ \A i \in 1..(Len(s) - 1) : i + 1 \in 1..Len(s) BY <1>1
  <1>7. ASSUME NEW y \in Range(s) PROVE y = Head(s) \/ y \in Range(t)
    <2>1. PICK i \in 1..Len(s) : y = s[i] BY <1>4
    <2> QED BY <1>1, <1>3, <1>5, <2>1
  <1>8. ASSUME NEW y \in Range(t) PROVE y \in Range(s)
    <2>1. PICK i \in 1..(Len(s) - 1) : y = t[i] BY <1>3
    <2> QED BY <1>1, <1>4, <1>6, <2>1
  <1>9. Head(s) \in Range(s) BY <1>1, <1>4, <1>6
  <1> QED BY <1>1, <1>7, <1>8, <1>9 DEF t

LEMMA RangeOfConcat ==
  ASSUME NEW S, NEW s \in Seq(S), NEW t \in Seq(S)
  PROVE  s \o t \in Seq(S) /\ Range(s \o t) = Range(s) \cup Range(t)
  <1> DEFINE u == s \o t
  <1>1. /\ u \in Seq(S) /\ Len(u) = Len(s) + Len(t) /\ Len(s) \in Nat /\ Len(t) \in Nat
        /\ \A i \in 1..(Len(s) + Len(t)) : u[i] = IF i <= Len(s) THEN s[i] ELSE t[i - Len(s)]
    OBVIOUS
  <1>2. DOMAIN u = 1..(Len(s) + Len(t)) /\ DOMAIN s = 1..Len(s) /\ DOMAIN t = 1..Len(t)
    BY <1>1
  <1> HIDE DEF u
  <1>3. ASSUME NEW y \in Range(u) PROVE y \in Range(s) \cup Range(t)
    <2>1. PICK i \in 1..(Len(s) + Len(t)) : y = u[i] BY <1>2 DEF Range
    <2>2. CASE i <= Len(s)
      <3>1. i \in 1..Len(s) /\ y = s[i] BY <1>1, <2>1, <2>2
      <3> QED BY <1>2, <3>1 DEF Range
    <2>3. CASE i > Len(s)
      <3>1. i - Len(s) \in 1..Len(t) /\ y = t[i - Len(s)] BY <1>1, <2>1, <2>3
      <3> QED BY <1>2, <3>1 DEF Range
    <2> QED BY <1>1, <2>2, <2>3
  <1>4. ASSUME NEW y \in Range(s) PROVE y \in Range(u)
    <2>1. PICK i \in 1..Len(s) : y = s[i] BY <1>2 DEF Range
    <2>2. i \in 1..(Len(s) + Len(t)) /\ u[i] = s[i] BY <1>1
    <2> QED BY <1>2, <2>1, <2>2 DEF Range
  <1>5. ASSUME NEW y \in Range(t) PROVE y \in Range(u)
    <2>1. PICK i \in 1..Len(t) : y = t[i] BY <1>2 DEF Range
    <2>2. Len(s) + i \in 1..(Len(s) + Len(t)) /\ ~ (Len(s) + i <= Len(s)) /\ (Len(s) + i) - Len(s) = i
      BY <1>1
    <2>3. u[Len(s) + i] = t[i] BY <1>1, <2>2
    <2> QED BY <1>2, <2>1, <2>2, <2>3 DEF Range
  <1> QED BY <1>1, <1>3, <1>4, <1>5 DEF u

\* The neighbours of a node are those that an edge joins to it.
LEMMA AdjacentAreTouching ==
  ASSUME NEW g, IsGraph(g), NEW n
  PROVE  /\ Adjacent(g, n) \in Seq(Adjacencies(g))
         /\ \A a \in Range(Adjacent(g, n)) : Touch(g, n, a[2])
         /\ \A y : Touch(g, n, y) => \E a \in Range(Adjacent(g, n)) : a[2] = y
  <1> DEFINE L == Len(g.edges)
             P == Adjacencies(g)
             out(e) == IF e.source = n THEN <<<<e, e.target>>>> ELSE <<>>
             in(e) == IF e.target = n THEN <<<<e, e.source>>>> ELSE <<>>
             Adds(f) == f = [k \in 0..L |-> IF k = 0 THEN <<>> ELSE f[k - 1] \o out(g.edges[k]) \o in(g.edges[k])]
             adjacent == CHOOSE f : Adds(f)
             st == [p \in (1..L) \X Seq(P) |-> p[2] \o out(g.edges[p[1]]) \o in(g.edges[p[1]])]
  <1>1. /\ L \in Nat /\ DOMAIN g.edges = 1..L
        /\ \A k \in 1..L : g.edges[k] \in Range(g.edges)
        /\ \A e \in Range(g.edges) : e.source \in DOMAIN g.node /\ e.target \in DOMAIN g.node
    BY DEF IsGraph
  <1>2. ASSUME NEW e \in Range(g.edges)
        PROVE  /\ out(e) \in Seq(P) /\ Range(out(e)) = IF e.source = n THEN {<<e, e.target>>} ELSE {}
               /\ in(e) \in Seq(P) /\ Range(in(e)) = IF e.target = n THEN {<<e, e.source>>} ELSE {}
    <2>1. <<e, e.target>> \in P /\ <<e, e.source>> \in P BY <1>1 DEF Adjacencies
    <2> HIDE DEF P
    <2>2. \A x \in P : <<x>> \in Seq(P) /\ Range(<<x>>) = {x} BY DEF Range
    <2>3. <<>> \in Seq(P) /\ Range(<<>>) = {} BY DEF Range
    <2> QED BY <2>1, <2>2, <2>3
  <1> HIDE DEF P, out, in
  <1>3. ASSUME NEW s \in Seq(P), NEW e \in Range(g.edges)
        PROVE  /\ s \o out(e) \o in(e) \in Seq(P)
               /\ Range(s \o out(e) \o in(e)) = (Range(s) \cup Range(out(e))) \cup Range(in(e))
    <2> DEFINE t == s \o out(e)
    <2>1. t \in Seq(P) /\ Range(t) = Range(s) \cup Range(out(e)) BY <1>2, RangeOfConcat
    <2> HIDE DEF t
    <2>2. t \o in(e) \in Seq(P) /\ Range(t \o in(e)) = Range(t) \cup Range(in(e))
      BY <1>2, <2>1, RangeOfConcat
    <2> QED BY <2>1, <2>2 DEF t
  <1>4. st \in [(1..L) \X Seq(P) -> Seq(P)] BY <1>1, <1>3
  <1>5. PICK f \in [0..L -> Seq(P)] : Folds(<<>>, st, L, f)
    <2>1. <<>> \in Seq(P) OBVIOUS
    <2> HIDE DEF st, L
    <2> QED BY <1>1, <1>4, <2>1, FoldExists
  <1>6. Adds(f)
    <2>1. ASSUME NEW k \in 0..L, k # 0 PROVE st[<<k, f[k - 1]>>] = f[k - 1] \o out(g.edges[k]) \o in(g.edges[k])
      <3>1. <<k, f[k - 1]>> \in (1..L) \X Seq(P) BY <1>1, <2>1
      <3> QED BY <3>1
    <2> HIDE DEF st
    <2> QED BY <1>5, <2>1 DEF Folds
  <1>7. Adds(adjacent)
    <2> HIDE DEF Adds
    <2> QED BY <1>6
  <1>8. Adjacent(g, n) = adjacent[L] BY DEF Adjacent, out, in
  <1> HIDE DEF adjacent
  <1> DEFINE Has(k, a) == \E i \in 1..k : \/ g.edges[i].source = n /\ a = <<g.edges[i], g.edges[i].target>>
                                          \/ g.edges[i].target = n /\ a = <<g.edges[i], g.edges[i].source>>
             T == {k \in Nat : k <= L => /\ adjacent[k] \in Seq(P)
                                         /\ \A a : a \in Range(adjacent[k]) <=> Has(k, a)}
  <1>9. 0 \in T
    <2>1. adjacent[0] = <<>> BY <1>1, <1>7
    <2>2. <<>> \in Seq(P) /\ \A a : a \notin Range(<<>>) BY DEF Range
    <2>3. \A a : ~ Has(0, a) OBVIOUS
    <2> HIDE DEF Has
    <2> QED BY <2>1, <2>2, <2>3
  <1>10. ASSUME NEW k \in Nat, k \in T PROVE k + 1 \in T
    <2> SUFFICES ASSUME k + 1 <= L
                 PROVE  adjacent[k + 1] \in Seq(P) /\ \A a : a \in Range(adjacent[k + 1]) <=> Has(k + 1, a)
      OBVIOUS
    <2> DEFINE e == g.edges[k + 1]
    <2>1. adjacent[k] \in Seq(P) /\ \A a : a \in Range(adjacent[k]) <=> Has(k, a)
      BY <1>1, <1>10
    <2>2. k + 1 \in 1..L /\ k + 1 \in 0..L /\ k + 1 # 0 /\ (k + 1) - 1 = k /\ e \in Range(g.edges)
      BY <1>1
    <2>3. adjacent[k + 1] = adjacent[k] \o out(e) \o in(e)
      <3> HIDE DEF L, e
      <3> QED BY <1>7, <2>2 DEF e
    <2>4. \A a : Has(k + 1, a) <=> (\/ Has(k, a)
                                   \/ (e.source = n /\ a = <<e, e.target>>)
                                   \/ (e.target = n /\ a = <<e, e.source>>))
      OBVIOUS
    <2> HIDE DEF e, Has
    <2>5. /\ adjacent[k + 1] \in Seq(P)
          /\ Range(adjacent[k + 1]) = (Range(adjacent[k]) \cup Range(out(e))) \cup Range(in(e))
      BY <1>3, <2>1, <2>2, <2>3
    <2>6. /\ \A a : a \in Range(out(e)) <=> (e.source = n /\ a = <<e, e.target>>)
          /\ \A a : a \in Range(in(e)) <=> (e.target = n /\ a = <<e, e.source>>)
      BY <1>2, <2>2
    <2> QED BY <2>1, <2>4, <2>5, <2>6
  <1>11. L \in T
    <2> HIDE DEF T
    <2> QED BY <1>1, <1>9, <1>10, SetInduction
  <1>12. Adjacent(g, n) \in Seq(P) /\ \A a : a \in Range(Adjacent(g, n)) <=> Has(L, a)
    BY <1>1, <1>8, <1>11
  <1>13. ASSUME NEW a \in Range(Adjacent(g, n)) PROVE Touch(g, n, a[2])
    <2>1. PICK i \in 1..L : \/ g.edges[i].source = n /\ a = <<g.edges[i], g.edges[i].target>>
                            \/ g.edges[i].target = n /\ a = <<g.edges[i], g.edges[i].source>>
      BY <1>12
    <2> QED BY <1>1, <2>1 DEF Touch
  <1>14. ASSUME NEW y, Touch(g, n, y) PROVE \E a \in Range(Adjacent(g, n)) : a[2] = y
    <2>1. PICK e \in Range(g.edges) : (e.source = n /\ e.target = y) \/ (e.target = n /\ e.source = y)
      BY <1>14 DEF Touch
    <2>2. PICK i \in 1..L : e = g.edges[i] BY <1>1 DEF Range
    <2>3. Has(L, <<e, y>>) BY <2>1, <2>2
    <2>4. <<e, y>> \in Range(Adjacent(g, n)) /\ <<e, y>>[2] = y BY <1>12, <2>3
    <2> QED BY <2>4
  <1> QED BY <1>12, <1>13, <1>14 DEF P

LEMMA HitType ==
  ASSUME NEW g, IsGraph(g), NEW from \in Entries(g), NEW a \in Adjacencies(g)
  PROVE  HitOf(from, a) \in Entries(g) /\ HitOf(from, a).node = a[2] /\ HitOf(from, a).depth = from.depth + 1
  <1>1. a[1] \in Range(g.edges) /\ a[2] \in DOMAIN g.node BY DEF Adjacencies
  <1>2. a[1].confidence \in Int /\ a[1].type \in {e.type : e \in Range(g.edges)}
    BY <1>1 DEF IsGraph
  <1>3. from.confidence \in Int /\ from.depth \in Nat BY DEF Entries
  <1>4. from.confidence * a[1].confidence \in Int BY <1>2, <1>3
  <1>5. (from.confidence * a[1].confidence + 5000) \div 10000 \in Int
    <2> DEFINE c == from.confidence * a[1].confidence + 5000
    <2>1. c \in Int BY <1>4
    <2> HIDE DEF c
    <2>2. c \div 10000 \in Int BY <2>1
    <2> QED BY <2>2 DEF c
  <1> DEFINE c == (from.confidence * a[1].confidence + 5000) \div 10000
  <1>6. c \in Int BY <1>5
  <1> HIDE DEF c
  <1>7. [node |-> a[2], depth |-> from.depth + 1, via |-> a[1].type, confidence |-> c] \in Entries(g)
    BY <1>1, <1>2, <1>3, <1>6 DEF Entries
  <1> QED BY <1>7 DEF HitOf, c

LEMMA FollowCases ==
  ASSUME NEW g, IsGraph(g), NEW roots, NEW state \in Searches(g), NEW from \in Entries(g), NEW a \in Adjacencies(g)
  PROVE  /\ Follow(state, from, a, g, roots) \in Searches(g)
         /\ Followed(state, from, a, roots, Follow(state, from, a, g, roots))
  <1> DEFINE h == HitOf(from, a)
             t == Follow(state, from, a, g, roots)
             seen == \E i \in DOMAIN state.hits : state.hits[i].node = a[2] /\ state.hits[i].depth <= from.depth + 1
  <1>1. state.queue \in Seq(Entries(g)) /\ state.hits \in Seq(Entries(g))
        /\ state = [queue |-> state.queue, hits |-> state.hits]
    BY DEF Searches
  <1>2. h \in Entries(g) BY HitType
  <1>3. t = IF a[2] \in roots \/ seen THEN state
            ELSE [state EXCEPT !.hits = Append(@, h), !.queue = Append(@, h)]
    BY DEF Follow, HitOf
  <1>4. seen <=> \E x \in Range(state.hits) : x.node = a[2] /\ x.depth <= from.depth + 1
    BY DEF Range
  <1> HIDE DEF h, t, seen
  <1>5. CASE a[2] \in roots \/ seen BY <1>3, <1>4, <1>5 DEF t, Followed
  <1>6. CASE ~ (a[2] \in roots \/ seen)
    <2>1. t = [queue |-> Append(state.queue, h), hits |-> Append(state.hits, h)]
      BY <1>1, <1>3, <1>6
    <2>2. Append(state.queue, h) \in Seq(Entries(g)) /\ Append(state.hits, h) \in Seq(Entries(g))
      BY <1>1, <1>2
    <2>3. t \in Searches(g) /\ t.queue = Append(state.queue, h) /\ t.hits = Append(state.hits, h)
      BY <2>1, <2>2 DEF Searches
    <2> QED BY <1>4, <1>6, <2>3 DEF t, h, Followed
  <1> QED BY <1>5, <1>6

LEMMA FollowAllSteps ==
  ASSUME NEW g, IsGraph(g), NEW roots, NEW state \in Searches(g), NEW from \in Entries(g)
  PROVE  \E f : FollowedAll(state, from, g, roots, f)
  <1> DEFINE adjacent == Adjacent(g, from.node)
             L == Len(adjacent)
             S == Searches(g)
             Steps(f) == f = [i \in 0..L |-> IF i = 0 THEN state ELSE Follow(f[i - 1], from, adjacent[i], g, roots)]
             after == CHOOSE f : Steps(f)
             st == [p \in (1..L) \X S |-> Follow(p[2], from, adjacent[p[1]], g, roots)]
  <1>1. adjacent \in Seq(Adjacencies(g)) BY AdjacentAreTouching
  <1>2. FollowAll(state, from, g, roots) = after[L] BY DEF FollowAll
  <1> HIDE DEF adjacent
  <1>3. L \in Nat /\ \A i \in 1..L : adjacent[i] \in Adjacencies(g) BY <1>1
  <1>4. \A s \in S, a \in Adjacencies(g) : Follow(s, from, a, g, roots) \in S
    BY FollowCases
  <1> HIDE DEF S, L
  <1>5. st \in [(1..L) \X S -> S] BY <1>3, <1>4
  <1>6. PICK f \in [0..L -> S] : Folds(state, st, L, f)
    <2>1. state \in S BY DEF S
    <2> HIDE DEF st
    <2> QED BY <1>3, <1>5, <2>1, FoldExists
  <1>7. Steps(f)
    <2>1. ASSUME NEW i \in 0..L, i # 0 PROVE st[<<i, f[i - 1]>>] = Follow(f[i - 1], from, adjacent[i], g, roots)
      BY <1>3, <2>1
    <2> HIDE DEF st
    <2> QED BY <1>6, <2>1 DEF Folds
  <1>8. Steps(after)
    <2> HIDE DEF Steps
    <2> QED BY <1>7
  <1> HIDE DEF after, st
  <1>9. /\ after[0] = state
        /\ \A i \in 1..L : after[i] = Follow(after[i - 1], from, adjacent[i], g, roots)
    BY <1>3, <1>8
  <1> DEFINE T == {i \in Nat : i <= L => after[i] \in S}
  <1>10. 0 \in T BY <1>9 DEF S
  <1>11. ASSUME NEW i \in Nat, i \in T PROVE i + 1 \in T
    <2> SUFFICES ASSUME i + 1 <= L PROVE after[i + 1] \in S OBVIOUS
    <2>1. i + 1 \in 1..L /\ (i + 1) - 1 = i /\ after[i] \in S BY <1>3, <1>11
    <2>2. after[i + 1] = Follow(after[i], from, adjacent[i + 1], g, roots) BY <1>9, <2>1
    <2> QED BY <1>3, <1>4, <2>1, <2>2
  <1>12. \A i \in Nat : i \in T
    <2> HIDE DEF T
    <2> QED BY <1>10, <1>11, SetInduction
  <1>13. after \in [0..L -> S] BY <1>3, <1>8, <1>12
  <1> QED BY <1>2, <1>9, <1>13 DEF adjacent, L, S, FollowedAll

\* When nothing is left at a distance, everything at the next one is known.
LEMMA NextLevel ==
  ASSUME NEW g, IsGraph(g), NEW roots \in SUBSET DOMAIN g.node, NEW limit \in Nat, NEW state, NEW d,
         LevelInv(g, roots, limit, state, d, {}), d < limit, \A h \in Range(state.queue) : h.depth # d
  PROVE  LevelInv(g, roots, limit, state, d + 1, {})
  <1> DEFINE W(k) == Near(g, roots, k)
  <1>0. /\ d \in Nat /\ d + 1 \in 0..limit /\ state \in Searches(g)
        /\ \A h \in Range(state.queue) : h.depth = d + 1
    BY DEF LevelInv
  <1>1. /\ W(0) = roots
        /\ \A y : y \in W(d + 1) <=> y \in W(d) \/ \E x \in W(d) : Touch(g, x, y)
        /\ \A m, n \in Nat : m <= n => W(m) \subseteq W(n)
    BY <1>0, NearEquations
  <1> HIDE DEF W
  <1>2. ASSUME NEW x \in W(d) PROVE \A y : Touch(g, x, y) => IsKnown(state, roots, y)
    BY <1>0, <1>2 DEF LevelInv, Exact, W
  <1>3. ASSUME NEW y \in W(d + 1) PROVE IsKnown(state, roots, y)
    <2>1. CASE y \in W(d) BY <2>1 DEF LevelInv, W
    <2>2. CASE \E x \in W(d) : Touch(g, x, y) BY <1>2, <2>2
    <2> QED BY <1>1, <2>1, <2>2
  <1>4. ASSUME NEW x \in W(d + 1), x \notin W(d) PROVE \E h \in Range(state.queue) : h.node = x
    <2>1. x \notin roots BY <1>0, <1>1, <1>4
    <2>2. PICK h \in Range(state.hits) : h.node = x BY <1>3, <2>1 DEF IsKnown
    <2>3. Exact(g, roots, h) /\ h.depth <= d + 1 /\ (h.depth > d => h \in Range(state.queue))
      BY DEF LevelInv
    <2>4. h \in Entries(g) BY <1>0 DEF Searches, Range
    <2>5. h.depth \in Nat BY <2>4 DEF Entries
    <2>6. ~ (h.depth <= d)
      <3> SUFFICES ASSUME h.depth <= d PROVE FALSE OBVIOUS
      <3>1. W(h.depth) \subseteq W(d) BY <1>0, <1>1, <2>5
      <3> QED BY <1>4, <2>2, <2>3, <3>1 DEF Exact, W
    <2> QED BY <1>0, <2>2, <2>3, <2>5, <2>6
  <1>5. \A h \in Range(state.hits) : /\ Exact(g, roots, h) /\ 1 <= h.depth /\ h.depth <= (d + 1) + 1 /\ h.depth <= limit
                                     /\ ~ (h.depth > d + 1)
    <2> SUFFICES ASSUME NEW h \in Range(state.hits)
                 PROVE  /\ Exact(g, roots, h) /\ 1 <= h.depth /\ h.depth <= (d + 1) + 1 /\ h.depth <= limit
                        /\ ~ (h.depth > d + 1)
      OBVIOUS
    <2>1. h \in Entries(g) BY <1>0 DEF Searches, Range
    <2>2. h.depth \in Nat BY <2>1 DEF Entries
    <2>3. Exact(g, roots, h) /\ 1 <= h.depth /\ h.depth <= d + 1 /\ h.depth <= limit
      BY DEF LevelInv
    <2> QED BY <1>0, <2>2, <2>3
  <1>6. \A x \in W(d + 1) : \/ \E h \in Range(state.queue) : h.node = x
                            \/ \A y : Touch(g, x, y) => IsKnown(state, roots, y)
    BY <1>2, <1>4
  <1>7. \A h \in Range(state.queue) : Exact(g, roots, h) /\ h.depth \in {d + 1, (d + 1) + 1} /\ h.depth <= limit
    BY <1>0 DEF LevelInv
  <1>8. /\ \A i, j \in 1..Len(state.hits) : state.hits[i].node = state.hits[j].node => i = j
        /\ \A i, j \in 1..Len(state.queue) : i <= j => state.queue[i].depth <= state.queue[j].depth
    BY DEF LevelInv
  <1> QED BY <1>0, <1>3, <1>5, <1>6, <1>7, <1>8 DEF LevelInv, W

\* A neighbour that is not known yet is one step further away.
LEMMA FollowKeeps ==
  ASSUME NEW g, IsGraph(g), NEW roots \in SUBSET DOMAIN g.node, NEW limit \in Nat, NEW state, NEW d,
         NEW from \in Entries(g), from.depth = d, from.node \in Near(g, roots, d), d < limit,
         LevelInv(g, roots, limit, state, d, {from.node}),
         NEW a \in Adjacencies(g), Touch(g, from.node, a[2])
  PROVE  KeepsLevel(g, roots, limit, d, from.node, state, a[2], Follow(state, from, a, g, roots))
  <1> DEFINE t == Follow(state, from, a, g, roots)
             h == HitOf(from, a)
             W(k) == Near(g, roots, k)
  <1>1. state \in Searches(g) /\ d \in Nat /\ d \in 0..limit BY DEF LevelInv
  <1>2. state.queue \in Seq(Entries(g)) /\ state.hits \in Seq(Entries(g))
    BY <1>1 DEF Searches
  <1>3. /\ t \in Searches(g)
        /\ \/ t = state /\ (a[2] \in roots \/ \E x \in Range(state.hits) : x.node = a[2])
           \/ /\ t.queue = Append(state.queue, h) /\ t.hits = Append(state.hits, h)
              /\ a[2] \notin roots
              /\ \A x \in Range(state.hits) : ~ (x.node = a[2] /\ x.depth <= from.depth + 1)
    <2>1. t \in Searches(g) /\ Followed(state, from, a, roots, t) BY <1>1, FollowCases
    <2> HIDE DEF t
    <2> QED BY <2>1 DEF Followed
  <1>4. h \in Entries(g) /\ h.node = a[2] /\ h.depth = d + 1 BY HitType
  <1>5. /\ \A y : y \in W(d + 1) <=> y \in W(d) \/ \E x \in W(d) : Touch(g, x, y)
        /\ \A m, n \in Nat : m <= n => W(m) \subseteq W(n)
    BY <1>1, NearEquations
  <1> HIDE DEF t, h, W
  <1>6. CASE t = state /\ (a[2] \in roots \/ \E x \in Range(state.hits) : x.node = a[2])
    BY <1>6 DEF IsKnown, t, KeepsLevel
  <1>7. CASE /\ t.queue = Append(state.queue, h) /\ t.hits = Append(state.hits, h)
             /\ a[2] \notin roots
             /\ \A x \in Range(state.hits) : ~ (x.node = a[2] /\ x.depth <= from.depth + 1)
    <2>1. /\ Len(t.queue) = Len(state.queue) + 1 /\ Range(t.queue) = Range(state.queue) \cup {h}
          /\ t.queue[Len(state.queue) + 1] = h /\ \A i \in 1..Len(state.queue) : t.queue[i] = state.queue[i]
          /\ Len(state.queue) \in Nat
      BY <1>2, <1>4, <1>7, RangeOfAppend
    <2>2. /\ Len(t.hits) = Len(state.hits) + 1 /\ Range(t.hits) = Range(state.hits) \cup {h}
          /\ t.hits[Len(state.hits) + 1] = h /\ \A i \in 1..Len(state.hits) : t.hits[i] = state.hits[i]
          /\ Len(state.hits) \in Nat
      BY <1>2, <1>4, <1>7, RangeOfAppend
    <2>3. \A x \in Range(state.hits) : x.node # a[2]
      <3> SUFFICES ASSUME NEW x \in Range(state.hits) PROVE x.node # a[2] OBVIOUS
      <3>1. x.depth <= d + 1 BY DEF LevelInv
      <3> QED BY <1>7, <3>1
    <2>4. ~ IsKnown(state, roots, a[2]) BY <1>7, <2>3 DEF IsKnown
    <2>5. Exact(g, roots, h)
      <3>1. a[2] \in W(d + 1) BY <1>5 DEF W
      <3>2. ASSUME NEW k \in Nat, k < d + 1 PROVE a[2] \notin W(k)
        BY <1>1, <1>5, <2>4, <3>2 DEF LevelInv, W
      <3> QED BY <1>4, <3>1, <3>2 DEF Exact, W
    <2>6. \A y : IsKnown(t, roots, y) <=> IsKnown(state, roots, y) \/ y = a[2]
      BY <1>4, <2>2 DEF IsKnown
    <2>7. \A i, j \in 1..Len(t.hits) : t.hits[i].node = t.hits[j].node => i = j
      <3> SUFFICES ASSUME NEW i \in 1..Len(t.hits), NEW j \in 1..Len(t.hits), t.hits[i].node = t.hits[j].node
                   PROVE  i = j
        OBVIOUS
      <3>1. \A k \in 1..Len(state.hits) : state.hits[k] \in Range(state.hits)
        BY <1>2 DEF Range
      <3>2. \A k \in 1..Len(state.hits) : t.hits[k].node # a[2] BY <2>2, <2>3, <3>1
      <3>3. \A k \in 1..Len(t.hits) : k \in 1..Len(state.hits) \/ (k = Len(state.hits) + 1 /\ t.hits[k].node = a[2])
        BY <1>4, <2>2
      <3>4. CASE i \in 1..Len(state.hits) /\ j \in 1..Len(state.hits)
        BY <2>2, <3>4 DEF LevelInv
      <3> QED BY <3>2, <3>3, <3>4
    <2>8. \A i, j \in 1..Len(t.queue) : i <= j => t.queue[i].depth <= t.queue[j].depth
      <3> SUFFICES ASSUME NEW i \in 1..Len(t.queue), NEW j \in 1..Len(t.queue), i <= j
                   PROVE  t.queue[i].depth <= t.queue[j].depth
        OBVIOUS
      <3>1. \A k \in 1..Len(state.queue) : state.queue[k] \in Range(state.queue)
        BY <1>2 DEF Range
      <3>2. \A k \in 1..Len(state.queue) : t.queue[k].depth \in {d, d + 1}
        BY <2>1, <3>1 DEF LevelInv
      <3>3. \A k \in 1..Len(t.queue) : k \in 1..Len(state.queue) \/ (k = Len(state.queue) + 1 /\ t.queue[k].depth = d + 1)
        BY <1>4, <2>1
      <3>4. CASE j \in 1..Len(state.queue)
        <4>1. i \in 1..Len(state.queue) BY <2>1, <3>4
        <4> QED BY <2>1, <3>4, <4>1 DEF LevelInv
      <3>5. CASE t.queue[j].depth = d + 1 BY <1>1, <3>2, <3>3, <3>5
      <3> QED BY <3>3, <3>4, <3>5
    <2>9. \A x \in Range(t.hits) : /\ Exact(g, roots, x) /\ 1 <= x.depth /\ x.depth <= d + 1 /\ x.depth <= limit
                                   /\ x.depth > d => x \in Range(t.queue)
      <3>1. ASSUME NEW x \in Range(state.hits)
            PROVE  /\ Exact(g, roots, x) /\ 1 <= x.depth /\ x.depth <= d + 1 /\ x.depth <= limit
                   /\ x.depth > d => x \in Range(t.queue)
        BY <2>1 DEF LevelInv
      <3>2. Exact(g, roots, h) /\ 1 <= h.depth /\ h.depth <= d + 1 /\ h.depth <= limit /\ h \in Range(t.queue)
        BY <1>1, <1>4, <2>1, <2>5
      <3> QED BY <2>2, <3>1, <3>2
    <2>10. \A x \in Range(t.queue) : Exact(g, roots, x) /\ x.depth \in {d, d + 1} /\ x.depth <= limit
      BY <1>1, <1>4, <2>1, <2>5 DEF LevelInv
    <2>11. \A y \in W(d) : IsKnown(t, roots, y) BY <2>6 DEF LevelInv, W
    <2>12. \A x \in W(d) \ {from.node} : \/ \E q \in Range(t.queue) : q.node = x
                                         \/ \A y : Touch(g, x, y) => IsKnown(t, roots, y)
      BY <2>1, <2>6 DEF LevelInv, W
    <2>13. LevelInv(g, roots, limit, t, d, {from.node})
      BY <1>1, <1>3, <2>7, <2>8, <2>9, <2>10, <2>11, <2>12 DEF LevelInv, W
    <2>14. Surplus(t) = Surplus(state) BY <2>1, <2>2 DEF Surplus
    <2> QED BY <2>6, <2>13, <2>14 DEF t, KeepsLevel
  <1> QED BY <1>3, <1>6, <1>7

LEMMA FollowAllKeeps ==
  ASSUME NEW g, IsGraph(g), NEW roots \in SUBSET DOMAIN g.node, NEW limit \in Nat, NEW state, NEW d,
         NEW from, Visiting(g, roots, limit, state, from, d)
  PROVE  /\ LevelInv(g, roots, limit, FollowAll(state, from, g, roots), d, {})
         /\ Surplus(FollowAll(state, from, g, roots)) = Surplus(state)
  <1> DEFINE t == FollowAll(state, from, g, roots)
             adjacent == Adjacent(g, from.node)
             L == Len(adjacent)
             Inv(s) == LevelInv(g, roots, limit, s, d, {from.node})
  <1>0. /\ from \in Entries(g) /\ from.depth = d /\ from.node \in Near(g, roots, d) /\ d < limit
        /\ LevelInv(g, roots, limit, state, d, {from.node})
    BY DEF Visiting
  <1>1. state \in Searches(g) BY <1>0 DEF LevelInv
  <1>2. PICK f \in [0..L -> Searches(g)] :
          /\ f[0] = state
          /\ \A i \in 1..L : f[i] = Follow(f[i - 1], from, adjacent[i], g, roots)
          /\ t = f[L]
    <2>1. PICK f : FollowedAll(state, from, g, roots, f) BY <1>0, <1>1, FollowAllSteps
    <2> QED BY <2>1 DEF FollowedAll
  <1>3. /\ adjacent \in Seq(Adjacencies(g)) /\ L \in Nat /\ DOMAIN adjacent = 1..L
        /\ \A a \in Range(adjacent) : Touch(g, from.node, a[2])
        /\ \A y : Touch(g, from.node, y) => \E a \in Range(adjacent) : a[2] = y
    BY AdjacentAreTouching
  <1> HIDE DEF t, adjacent, L
  <1>4. ASSUME NEW s, Inv(s), NEW a \in Adjacencies(g), Touch(g, from.node, a[2])
        PROVE  KeepsLevel(g, roots, limit, d, from.node, s, a[2], Follow(s, from, a, g, roots))
    BY <1>0, <1>4, FollowKeeps
  <1> HIDE DEF Inv
  <1> DEFINE T == {i \in Nat : i <= L => /\ Inv(f[i]) /\ Surplus(f[i]) = Surplus(state)
                                         /\ \A k \in 1..i : IsKnown(f[i], roots, adjacent[k][2])}
  <1>5. 0 \in T BY <1>0, <1>2 DEF Inv
  <1>6. ASSUME NEW i \in Nat, i \in T PROVE i + 1 \in T
    <2> SUFFICES ASSUME i + 1 <= L
                 PROVE  /\ Inv(f[i + 1]) /\ Surplus(f[i + 1]) = Surplus(state)
                        /\ \A k \in 1..(i + 1) : IsKnown(f[i + 1], roots, adjacent[k][2])
      OBVIOUS
    <2> DEFINE a == adjacent[i + 1]
    <2>1. i + 1 \in 1..L /\ (i + 1) - 1 = i /\ i <= L BY <1>3
    <2>2. Inv(f[i]) /\ Surplus(f[i]) = Surplus(state) /\ \A k \in 1..i : IsKnown(f[i], roots, adjacent[k][2])
      BY <1>6, <2>1
    <2>3. f[i + 1] = Follow(f[i], from, a, g, roots) BY <1>2, <2>1
    <2>4. a \in Adjacencies(g) /\ Touch(g, from.node, a[2]) BY <1>3, <2>1 DEF Range
    <2>5. /\ Inv(f[i + 1]) /\ IsKnown(f[i + 1], roots, a[2]) /\ Surplus(f[i + 1]) = Surplus(f[i])
          /\ \A y : IsKnown(f[i], roots, y) => IsKnown(f[i + 1], roots, y)
      BY <1>4, <2>2, <2>3, <2>4 DEF KeepsLevel, Inv
    <2>6. \A k \in 1..(i + 1) : k \in 1..i \/ k = i + 1 OBVIOUS
    <2> QED BY <2>2, <2>5, <2>6
  <1>7. L \in T
    <2> HIDE DEF T
    <2> QED BY <1>3, <1>5, <1>6, SetInduction
  <1>8. Inv(t) /\ Surplus(t) = Surplus(state) /\ \A k \in 1..L : IsKnown(t, roots, adjacent[k][2])
    BY <1>2, <1>3, <1>7
  <1>9. \A y : Touch(g, from.node, y) => IsKnown(t, roots, y)
    <2> SUFFICES ASSUME NEW y, Touch(g, from.node, y) PROVE IsKnown(t, roots, y) OBVIOUS
    <2>1. PICK k \in 1..L : adjacent[k][2] = y BY <1>3 DEF Range
    <2> QED BY <1>8, <2>1
  <1>10. LevelInv(g, roots, limit, t, d, {})
    <2>1. LevelInv(g, roots, limit, t, d, {from.node}) BY <1>8 DEF Inv
    <2>2. \A x \in Near(g, roots, d) \ {} : \/ \E h \in Range(t.queue) : h.node = x
                                            \/ \A y : Touch(g, x, y) => IsKnown(t, roots, y)
      <3> SUFFICES ASSUME NEW x \in Near(g, roots, d)
                   PROVE  \/ \E h \in Range(t.queue) : h.node = x
                          \/ \A y : Touch(g, x, y) => IsKnown(t, roots, y)
        OBVIOUS
      <3>1. CASE x = from.node BY <1>9, <3>1
      <3>2. CASE x # from.node BY <1>0, <2>1, <3>2 DEF LevelInv
      <3> QED BY <3>1, <3>2
    <2> QED BY <2>1, <2>2 DEF LevelInv
  <1> QED BY <1>8, <1>10 DEF t

\* A round takes the first of the queue, and what it adds to the queue are hits.
LEMMA VisitKeeps ==
  ASSUME NEW g, IsGraph(g), NEW roots \in SUBSET DOMAIN g.node, NEW limit \in Nat, NEW state,
         \E d \in 0..limit : LevelInv(g, roots, limit, state, d, {}), state.queue # <<>>
  PROVE  /\ \E d \in 0..limit : LevelInv(g, roots, limit, Visit(state, limit, g, roots), d, {})
         /\ Surplus(Visit(state, limit, g, roots)) = Surplus(state) - 1
  <1> DEFINE t == Visit(state, limit, g, roots)
             from == Head(state.queue)
             rest == [queue |-> Tail(state.queue), hits |-> state.hits]
  <1>1. t = IF from.depth >= limit THEN rest ELSE FollowAll(rest, from, g, roots)
    BY DEF Visit
  <1>2. /\ state \in Searches(g) /\ state.queue \in Seq(Entries(g)) /\ state.hits \in Seq(Entries(g))
        /\ state = [queue |-> state.queue, hits |-> state.hits]
    BY DEF LevelInv, Searches
  <1>3. rest = [queue |-> Tail(state.queue), hits |-> state.hits] OBVIOUS
  <1>4. /\ rest.queue = Tail(state.queue) /\ rest.hits = state.hits BY <1>3
  <1>5. /\ rest.queue \in Seq(Entries(g)) /\ from \in Entries(g) /\ from = state.queue[1]
        /\ Len(state.queue) \in Nat /\ Len(state.queue) >= 1 /\ Len(rest.queue) = Len(state.queue) - 1
        /\ \A i \in 1..(Len(state.queue) - 1) : rest.queue[i] = state.queue[i + 1]
        /\ Range(state.queue) = {from} \cup Range(rest.queue)
    BY <1>2, <1>4, RangeOfTail
  <1>6. rest \in Searches(g) /\ from.depth \in Nat
    BY <1>2, <1>3, <1>4, <1>5 DEF Searches, Entries
  <1> HIDE DEF t, from, rest
  <1>7. PICK d \in 0..limit : LevelInv(g, roots, limit, state, d, {}) /\ from.depth = d
    <2>1. PICK d \in 0..limit : LevelInv(g, roots, limit, state, d, {}) OBVIOUS
    <2>2. from.depth \in {d, d + 1} /\ from.depth <= limit BY <1>5, <2>1 DEF LevelInv
    <2>3. CASE from.depth = d BY <2>1, <2>3
    <2>4. CASE from.depth = d + 1
      <3>1. d < limit /\ d + 1 \in 0..limit BY <2>2, <2>4
      <3>2. \A h \in Range(state.queue) : h.depth # d
        <4> SUFFICES ASSUME NEW h \in Range(state.queue) PROVE h.depth # d OBVIOUS
        <4>1. PICK i \in 1..Len(state.queue) : h = state.queue[i] BY <1>2 DEF Range
        <4>2. 1 \in 1..Len(state.queue) /\ 1 <= i BY <1>5
        <4>3. state.queue[1].depth <= h.depth BY <2>1, <4>1, <4>2 DEF LevelInv
        <4>4. h.depth \in {d, d + 1} BY <2>1 DEF LevelInv
        <4> QED BY <1>5, <2>4, <4>3, <4>4
      <3>3. LevelInv(g, roots, limit, state, d + 1, {}) BY <2>1, <3>1, <3>2, NextLevel
      <3> QED BY <2>4, <3>1, <3>3
    <2> QED BY <2>2, <2>3, <2>4
  <1>8. from \in Range(state.queue) BY <1>5
  <1>9. from.node \in Near(g, roots, d) BY <1>7, <1>8 DEF LevelInv, Exact
  <1>10. LevelInv(g, roots, limit, rest, d, {from.node})
    <2>1. \A y : IsKnown(rest, roots, y) <=> IsKnown(state, roots, y) BY <1>4 DEF IsKnown
    <2>2. \A h \in Range(rest.hits) :
            /\ Exact(g, roots, h) /\ 1 <= h.depth /\ h.depth <= d + 1 /\ h.depth <= limit
            /\ h.depth > d => h \in Range(rest.queue)
      <3> SUFFICES ASSUME NEW h \in Range(state.hits)
                   PROVE  /\ Exact(g, roots, h) /\ 1 <= h.depth /\ h.depth <= d + 1 /\ h.depth <= limit
                          /\ h.depth > d => h \in Range(rest.queue)
        BY <1>4
      <3>1. /\ Exact(g, roots, h) /\ 1 <= h.depth /\ h.depth <= d + 1 /\ h.depth <= limit
            /\ h.depth > d => h \in Range(state.queue)
        BY <1>7 DEF LevelInv
      <3>2. h.depth > d => h # from BY <1>7
      <3> QED BY <1>5, <3>1, <3>2
    <2>3. \A h \in Range(rest.queue) : Exact(g, roots, h) /\ h.depth \in {d, d + 1} /\ h.depth <= limit
      BY <1>5, <1>7 DEF LevelInv
    <2>4. \A i, j \in 1..Len(rest.queue) : i <= j => rest.queue[i].depth <= rest.queue[j].depth
      <3> SUFFICES ASSUME NEW i \in 1..Len(rest.queue), NEW j \in 1..Len(rest.queue), i <= j
                   PROVE  rest.queue[i].depth <= rest.queue[j].depth
        OBVIOUS
      <3>1. /\ i + 1 \in 1..Len(state.queue) /\ j + 1 \in 1..Len(state.queue) /\ i + 1 <= j + 1
            /\ rest.queue[i] = state.queue[i + 1] /\ rest.queue[j] = state.queue[j + 1]
        BY <1>5
      <3>2. \A m, n \in 1..Len(state.queue) : m <= n => state.queue[m].depth <= state.queue[n].depth
        BY <1>7 DEF LevelInv
      <3> QED BY <3>1, <3>2
    <2>5. d < limit => \A x \in Near(g, roots, d) \ {from.node} :
            \/ \E h \in Range(rest.queue) : h.node = x
            \/ \A y : Touch(g, x, y) => IsKnown(rest, roots, y)
      <3> SUFFICES ASSUME d < limit, NEW x \in Near(g, roots, d), x # from.node
                   PROVE  \/ \E h \in Range(rest.queue) : h.node = x
                          \/ \A y : Touch(g, x, y) => IsKnown(rest, roots, y)
        OBVIOUS
      <3>1. \/ \E h \in Range(state.queue) : h.node = x
            \/ \A y : Touch(g, x, y) => IsKnown(state, roots, y)
        BY <1>7 DEF LevelInv
      <3> QED BY <1>5, <2>1, <3>1
    <2>6. /\ \A i, j \in 1..Len(rest.hits) : rest.hits[i].node = rest.hits[j].node => i = j
          /\ \A y \in Near(g, roots, d) : IsKnown(rest, roots, y)
      BY <1>4, <1>7, <2>1 DEF LevelInv
    <2> QED BY <1>6, <2>2, <2>3, <2>4, <2>5, <2>6 DEF LevelInv
  <1>11. CASE from.depth >= limit
    <2>1. t = rest /\ ~ (d < limit) BY <1>1, <1>7, <1>11
    <2>2. LevelInv(g, roots, limit, t, d, {}) BY <1>10, <2>1 DEF LevelInv
    <2>3. Len(t.hits) = Len(state.hits) /\ Len(t.queue) = Len(state.queue) - 1 /\ Len(state.hits) \in Nat
      BY <1>2, <1>4, <1>5, <2>1
    <2> QED BY <1>5, <2>2, <2>3 DEF t, Surplus
  <1>12. CASE ~ (from.depth >= limit)
    <2>1. t = FollowAll(rest, from, g, roots) /\ d < limit BY <1>1, <1>7, <1>12
    <2>2. LevelInv(g, roots, limit, t, d, {}) /\ Surplus(t) = Surplus(rest)
      <3>1. from \in Entries(g) /\ from.depth = d /\ d < limit BY <1>5, <1>7, <2>1
      <3>2. /\ LevelInv(g, roots, limit, FollowAll(rest, from, g, roots), d, {})
            /\ Surplus(FollowAll(rest, from, g, roots)) = Surplus(rest)
        <4>1. Visiting(g, roots, limit, rest, from, d) BY <1>9, <1>10, <3>1 DEF Visiting
        <4> QED BY <4>1, FollowAllKeeps
      <3> QED BY <2>1, <3>2
    <2>3. Surplus(rest) = Surplus(state) - 1 BY <1>2, <1>4, <1>5 DEF Surplus
    <2> QED BY <2>2, <2>3 DEF t
  <1> QED BY <1>11, <1>12

LEMMA StartKeeps ==
  ASSUME NEW g, IsGraph(g), NEW roots \in SUBSET DOMAIN g.node, NEW limit \in Nat
  PROVE  LevelInv(g, roots, limit, Start(roots), 0, {}) /\ Surplus(Start(roots)) = Cardinality(roots)
  <1> DEFINE Entry(r) == [node |-> r, depth |-> 0, via |-> "none", confidence |-> 10000]
             E == {Entry(r) : r \in roots}
             q == SetToSeq(E)
             n == Cardinality(E)
             s == Start(roots)
  <1>1. IsFiniteSet(roots) BY FS_Subset DEF IsGraph
  <1>2. IsFiniteSet(E) /\ n = Cardinality(roots)
    <2> DEFINE f == [r \in roots |-> Entry(r)]
    <2>1. f \in Surjection(roots, E) BY DEF Surjection
    <2>2. f \in Injection(roots, E)
      <3>1. \A r \in roots : f[r].node = r OBVIOUS
      <3>2. f \in [roots -> E] /\ \A a, b \in roots : f[a] = f[b] => a = b
        <4> HIDE DEF Entry
        <4>1. f \in [roots -> E] OBVIOUS
        <4> HIDE DEF f
        <4> QED BY <3>1, <4>1
      <3> QED BY <3>2 DEF Injection, IsInjective
    <2> HIDE DEF f, E
    <2> QED BY <1>1, <2>1, <2>2, FS_Surjection
  <1>3. \A h \in E : h.depth = 0 /\ h.node \in roots /\ h \in Entries(g) BY DEF Entries
  <1>4. \A r \in roots : Entry(r) \in E /\ Entry(r).node = r OBVIOUS
  <1>5. s = [queue |-> q, hits |-> <<>>] BY DEF Start
  <1> HIDE DEF Entry, E
  <1>6. n \in Nat BY <1>2, FS_CardinalityType
  <1>7. q \in [1..n -> E] /\ IsInjective(q)
    <2>1. PICK f \in [1..n -> E] : IsInjective(f)
      BY <1>2, FS_CardinalityType DEF ExistsBijection, Bijection, Injection, IsInjective
    <2> QED BY <2>1 DEF SetToSeq
  <1> HIDE DEF q, n, s
  <1>8. Range(q) = E
    <2>1. q \in Injection(1..n, E) BY <1>7 DEF Injection, IsInjective
    <2>2. Cardinality(1..n) = Cardinality(E) BY <1>6, FS_Interval DEF n
    <2>3. q \in Surjection(1..n, E) BY <1>2, <2>1, <2>2, FS_Injection
    <2> QED BY <1>7, <2>3 DEF Surjection, Range
  <1>9. q \in Seq(Entries(g)) /\ Len(q) = n /\ \A i \in 1..n : q[i].depth = 0
    BY <1>3, <1>6, <1>7
  <1>10. s.queue = q /\ s.hits = <<>> /\ s \in Searches(g) /\ Len(s.hits) = 0 /\ Range(s.hits) = {}
    BY <1>5, <1>9 DEF Searches, Range
  <1>11. Near(g, roots, 0) = roots BY NearEquations
  <1>12. \A h \in Range(s.queue) : Exact(g, roots, h) /\ h.depth \in {0, 0 + 1} /\ h.depth <= limit
    <2> SUFFICES ASSUME NEW h \in E PROVE Exact(g, roots, h) /\ h.depth \in {0, 0 + 1} /\ h.depth <= limit
      BY <1>8, <1>10
    <2>1. h.depth = 0 /\ h.node \in roots BY <1>3
    <2> QED BY <1>11, <2>1 DEF Exact
  <1>13. \A y \in Near(g, roots, 0) : IsKnown(s, roots, y) BY <1>11 DEF IsKnown
  <1>14. \A x \in Near(g, roots, 0) \ {} : \E h \in Range(s.queue) : h.node = x
    BY <1>4, <1>8, <1>10, <1>11
  <1>15. \A i, j \in 1..Len(s.queue) : i <= j => s.queue[i].depth <= s.queue[j].depth
    BY <1>9, <1>10
  <1>16. LevelInv(g, roots, limit, s, 0, {})
    BY <1>10, <1>12, <1>13, <1>14, <1>15 DEF LevelInv
  <1>17. Surplus(s) = Cardinality(roots) BY <1>2, <1>6, <1>9, <1>10 DEF Surplus
  <1> QED BY <1>16, <1>17 DEF s

LEMMA VisitType ==
  ASSUME NEW g, IsGraph(g), NEW roots, NEW limit, NEW state \in Searches(g), state.queue # <<>>
  PROVE  Visit(state, limit, g, roots) \in Searches(g)
  <1> DEFINE from == Head(state.queue)
             rest == [queue |-> Tail(state.queue), hits |-> state.hits]
  <1>1. Visit(state, limit, g, roots) = IF from.depth >= limit THEN rest ELSE FollowAll(rest, from, g, roots)
    BY DEF Visit
  <1>2. state.queue \in Seq(Entries(g)) /\ state.hits \in Seq(Entries(g)) BY DEF Searches
  <1>3. from \in Entries(g) /\ Tail(state.queue) \in Seq(Entries(g)) BY <1>2, RangeOfTail
  <1>4. rest \in Searches(g) BY <1>2, <1>3 DEF Searches
  <1> HIDE DEF from, rest
  <1>5. FollowAll(rest, from, g, roots) \in Searches(g)
    <2>1. PICK f : FollowedAll(rest, from, g, roots, f) BY <1>3, <1>4, FollowAllSteps
    <2> DEFINE adjacent == Adjacent(g, from.node)
    <2>2. Len(adjacent) \in Nat BY AdjacentAreTouching
    <2>3. f \in [0..Len(adjacent) -> Searches(g)] /\ FollowAll(rest, from, g, roots) = f[Len(adjacent)]
      BY <2>1 DEF FollowedAll
    <2> HIDE DEF adjacent
    <2> QED BY <2>2, <2>3
  <1> QED BY <1>1, <1>4, <1>5

LEMMA HitsSteps ==
  ASSUME NEW g, IsGraph(g), NEW roots \in SUBSET DOMAIN g.node, NEW limit \in Nat
  PROVE  \E f : Rounds(g, roots, limit, 2 * Cardinality(DOMAIN g.node), f)
  <1> DEFINE R == 2 * Cardinality(DOMAIN g.node)
             S == Searches(g)
             first == Start(roots)
             next(s) == IF s.queue = <<>> THEN s ELSE Visit(s, limit, g, roots)
             Steps(f) == f = [k \in 0..R |-> IF k = 0 THEN first ELSE next(f[k - 1])]
             state == CHOOSE f : Steps(f)
             st == [p \in (1..R) \X S |-> next(p[2])]
  <1>1. R \in Nat BY FS_CardinalityType DEF IsGraph
  <1>2. Hits(g, roots, limit) = state[R].hits BY DEF Hits
  <1>3. first \in S BY StartKeeps DEF LevelInv
  <1>4. \A s \in S : next(s) \in S BY VisitType
  <1> HIDE DEF R, S, first, next
  <1>5. st \in [(1..R) \X S -> S] BY <1>4
  <1>6. PICK f \in [0..R -> S] : Folds(first, st, R, f)
    <2> HIDE DEF st
    <2> QED BY <1>1, <1>3, <1>5, FoldExists
  <1>7. Steps(f)
    <2>1. ASSUME NEW k \in 0..R, k # 0 PROVE st[<<k, f[k - 1]>>] = next(f[k - 1])
      BY <1>1, <2>1
    <2> HIDE DEF st
    <2> QED BY <1>6, <2>1 DEF Folds
  <1>8. Steps(state)
    <2> HIDE DEF Steps
    <2> QED BY <1>7
  <1> HIDE DEF state, st
  <1>9. state[0] = first /\ \A k \in 1..R : state[k] = next(state[k - 1]) BY <1>1, <1>8
  <1> QED BY <1>2, <1>9 DEF Rounds, R, first, next

\* A node is found once, and the target is not: there are not more than the rest.
LEMMA HitsAreFew ==
  ASSUME NEW g, IsGraph(g), NEW roots \in SUBSET DOMAIN g.node, NEW limit \in Nat, NEW state, NEW d,
         LevelInv(g, roots, limit, state, d, {})
  PROVE  Len(state.hits) \in Nat /\ Len(state.hits) + Cardinality(roots) <= Cardinality(DOMAIN g.node)
  <1> DEFINE N == DOMAIN g.node
             n == Len(state.hits)
             f == [i \in 1..n |-> state.hits[i].node]
  <1>1. IsFiniteSet(N) /\ IsFiniteSet(roots) /\ roots \cap N = roots /\ N \cap roots = roots
    BY FS_Subset DEF IsGraph
  <1>2. state.hits \in Seq(Entries(g)) /\ n \in Nat BY DEF LevelInv, Searches
  <1>3. \A i \in 1..n : state.hits[i] \in Entries(g) /\ state.hits[i] \in Range(state.hits)
    BY <1>2 DEF Range
  <1>4. Near(g, roots, 0) = roots BY NearEquations
  <1>5. \A i \in 1..n : state.hits[i].node \in N \ roots
    <2> SUFFICES ASSUME NEW i \in 1..n PROVE state.hits[i].node \in N \ roots OBVIOUS
    <2> DEFINE h == state.hits[i]
    <2>1. h \in Entries(g) /\ Exact(g, roots, h) /\ 1 <= h.depth BY <1>3 DEF LevelInv
    <2> HIDE DEF h
    <2>2. h.node \in N /\ h.depth \in Nat BY <2>1 DEF Entries
    <2>3. h.node \notin Near(g, roots, 0) BY <2>1, <2>2 DEF Exact
    <2> QED BY <1>4, <2>2, <2>3 DEF h
  <1>6. f \in Injection(1..n, N \ roots)
    <2>1. f \in [1..n -> N \ roots] BY <1>5
    <2>2. \A i, j \in 1..n : f[i] = f[j] => i = j BY DEF LevelInv
    <2> QED BY <2>1, <2>2 DEF Injection, IsInjective
  <1> HIDE DEF f, N
  <1>7. IsFiniteSet(N \ roots) /\ Cardinality(N \ roots) = Cardinality(N) - Cardinality(roots)
    <2>1. IsFiniteSet(N \ roots) /\ Cardinality(N \ roots) = Cardinality(N) - Cardinality(N \cap roots)
      BY <1>1, FS_Difference
    <2> QED BY <1>1, <2>1
  <1>8. Cardinality(1..n) <= Cardinality(N \ roots) BY <1>6, <1>7, FS_Injection
  <1>9. Cardinality(1..n) = n BY <1>2, FS_Interval
  <1>10. Cardinality(N) \in Nat /\ Cardinality(roots) \in Nat BY <1>1, FS_CardinalityType
  <1> QED BY <1>2, <1>7, <1>8, <1>9, <1>10 DEF N, n

LEMMA DoneIsNear ==
  ASSUME NEW g, IsGraph(g), NEW roots \in SUBSET DOMAIN g.node, NEW limit \in Nat, NEW state, NEW d \in 0..limit,
         LevelInv(g, roots, limit, state, d, {}), state.queue = <<>>
  PROVE  FoundNear(g, roots, limit, state.hits)
  <1> DEFINE T == {k \in Nat : d + k <= limit => LevelInv(g, roots, limit, state, d + k, {})}
  <1>1. 0 \in T OBVIOUS
  <1>2. ASSUME NEW k \in Nat, k \in T PROVE k + 1 \in T
    <2> SUFFICES ASSUME d + (k + 1) <= limit PROVE LevelInv(g, roots, limit, state, d + (k + 1), {})
      OBVIOUS
    <2> DEFINE e == d + k
    <2>1. e < limit /\ LevelInv(g, roots, limit, state, e, {}) /\ d + (k + 1) = e + 1
      BY <1>2
    <2>2. \A h \in Range(state.queue) : h.depth # e BY DEF Range
    <2> HIDE DEF e
    <2>3. LevelInv(g, roots, limit, state, e + 1, {}) BY <2>1, <2>2, NextLevel
    <2> QED BY <2>1, <2>3
  <1>3. \A k \in Nat : k \in T
    <2> HIDE DEF T
    <2> QED BY <1>1, <1>2, SetInduction
  <1>4. LevelInv(g, roots, limit, state, limit, {})
    <2>1. limit - d \in Nat /\ d + (limit - d) = limit OBVIOUS
    <2> QED BY <1>3, <2>1
  <1>5. \A y \in Near(g, roots, limit) : y \in roots \/ \E h \in Range(state.hits) : h.node = y
    BY <1>4 DEF LevelInv, IsKnown
  <1> QED BY <1>4, <1>5 DEF LevelInv, FoundNear, Searches

LEMMA HitsAreNear ==
  ASSUME NEW g, IsGraph(g), NEW roots \in SUBSET DOMAIN g.node, NEW limit \in Nat
  PROVE  FoundNear(g, roots, limit, Hits(g, roots, limit))
  <1> DEFINE N == Cardinality(DOMAIN g.node)
             R == 2 * N
             r == Cardinality(roots)
             Inv(s) == \E d \in 0..limit : LevelInv(g, roots, limit, s, d, {})
  <1>1. N \in Nat /\ R \in Nat /\ r \in Nat /\ r <= N
    BY FS_Subset, FS_CardinalityType DEF IsGraph
  <1>2. PICK f : Rounds(g, roots, limit, R, f) BY HitsSteps
  <1> HIDE DEF N, r
  <1> DEFINE T == {k \in Nat : k <= R => Inv(f[k]) /\ (f[k].queue = <<>> \/ Surplus(f[k]) = r - k)}
  <1>3. 0 \in T
    <2>1. f[0] = Start(roots) BY <1>2 DEF Rounds
    <2>2. LevelInv(g, roots, limit, f[0], 0, {}) /\ Surplus(f[0]) = r
      BY <2>1, StartKeeps DEF r
    <2>3. 0 \in 0..limit OBVIOUS
    <2> QED BY <1>1, <2>2, <2>3
  <1>4. ASSUME NEW k \in Nat, k \in T PROVE k + 1 \in T
    <2> SUFFICES ASSUME k + 1 <= R
                 PROVE  Inv(f[k + 1]) /\ (f[k + 1].queue = <<>> \/ Surplus(f[k + 1]) = r - (k + 1))
      OBVIOUS
    <2>1. k + 1 \in 1..R /\ (k + 1) - 1 = k /\ k <= R BY <1>1
    <2>2. Inv(f[k]) /\ (f[k].queue = <<>> \/ Surplus(f[k]) = r - k) BY <1>4, <2>1
    <2>3. f[k + 1] = IF f[k].queue = <<>> THEN f[k] ELSE Visit(f[k], limit, g, roots)
      BY <1>2, <2>1 DEF Rounds
    <2>4. CASE f[k].queue = <<>> BY <2>2, <2>3, <2>4
    <2>5. CASE f[k].queue # <<>>
      <3>1. Inv(Visit(f[k], limit, g, roots)) /\ Surplus(Visit(f[k], limit, g, roots)) = Surplus(f[k]) - 1
        BY <2>2, <2>5, VisitKeeps
      <3>2. Inv(f[k + 1]) /\ Surplus(f[k + 1]) = (r - k) - 1 BY <2>2, <2>3, <2>5, <3>1
      <3> QED BY <1>1, <3>2
    <2> QED BY <2>4, <2>5
  <1>5. R \in T
    <2> HIDE DEF T
    <2> QED BY <1>1, <1>3, <1>4, SetInduction
  <1>6. PICK d \in 0..limit : LevelInv(g, roots, limit, f[R], d, {}) BY <1>1, <1>5
  <1>7. f[R].queue = <<>>
    <2> SUFFICES ASSUME f[R].queue # <<>> PROVE FALSE OBVIOUS
    <2> DEFINE s == f[R]
    <2>1. Surplus(s) = r - R BY <1>1, <1>5
    <2>2. Len(s.hits) \in Nat /\ Len(s.hits) + r <= N BY <1>6, HitsAreFew DEF N, r
    <2>3. s.queue \in Seq(Entries(g)) BY <1>6 DEF LevelInv, Searches
    <2>4. Len(s.queue) \in Nat /\ Len(s.queue) >= 1 BY <2>3
    <2> HIDE DEF s
    <2>5. Len(s.queue) - Len(s.hits) = r - 2 * N BY <2>1 DEF Surplus
    <2>6. \A p, h, m, n \in Nat : p >= 1 /\ h + m <= n => p - h # m - 2 * n OBVIOUS
    <2> QED BY <1>1, <2>2, <2>4, <2>5, <2>6
  <1>8. FoundNear(g, roots, limit, f[R].hits) BY <1>6, <1>7, DoneIsNear
  <1>9. Hits(g, roots, limit) = f[R].hits BY <1>2 DEF Rounds
  <1> QED BY <1>8, <1>9

LEMMA LeastOfTwo ==
  ASSUME NEW a \in Int, NEW b \in Int
  PROVE  Min({a, b}) = (IF a <= b THEN a ELSE b) /\ Max({a, b}) = IF a >= b THEN a ELSE b
  <1>1. \E x \in {a, b} : \A y \in {a, b} : x <= y OBVIOUS
  <1>2. Min({a, b}) \in {a, b} /\ \A y \in {a, b} : Min({a, b}) <= y BY <1>1 DEF Min
  <1>3. \E x \in {a, b} : \A y \in {a, b} : x >= y OBVIOUS
  <1>4. Max({a, b}) \in {a, b} /\ \A y \in {a, b} : Max({a, b}) >= y BY <1>3 DEF Max
  <1> QED BY <1>2, <1>4

LEMMA DepthIsBounded ==
  ASSUME NEW depth \in Int
  PROVE  BoundedDepth(depth) \in 1..4
  <1>1. Min({depth, 4}) \in Int /\ Min({depth, 4}) <= 4 BY LeastOfTwo
  <1> DEFINE m == Min({depth, 4})
  <1>2. m \in Int /\ m <= 4 BY <1>1
  <1>3. BoundedDepth(depth) = Max({1, m}) BY DEF BoundedDepth
  <1> HIDE DEF m
  <1> QED BY <1>2, <1>3, LeastOfTwo

\* Whatever is found adds to the risk, and nothing else does.
LEMMA RiskIsOfHits ==
  ASSUME NEW g, NEW S, NEW hits \in Seq(S)
  PROVE  RiskLevel(RiskScore(g, hits)) = "unknown" <=> hits = <<>>
  <1> DEFINE all == Range(hits)
             direct == {h \in all : h.depth = 1}
             endpoint == {h \in all : g.node[h.node].type = "endpoint"}
             tested == \E h \in all : g.node[h.node].test
             d == Cardinality(direct)
             f == Cardinality(all \ direct)
             e == Cardinality(endpoint)
             sum == 8 * d + 3 * f + 14 * e
             base == Min({100, sum})
             untested == IF ~ tested /\ all # {} THEN 12 ELSE 0
             strong == IF \E h \in direct : h.via \in HighRisk THEN 10 ELSE 0
             score == Min({100, base + untested + strong})
  <1>1. RiskScore(g, hits) = score BY DEF RiskScore
  <1>2. Len(hits) \in Nat /\ DOMAIN hits = 1..Len(hits) OBVIOUS
  <1>3. IsFiniteSet(all)
    <2>1. Covers(hits, 1..Len(hits), all) BY <1>2 DEF Range, Covers
    <2> HIDE DEF all
    <2> QED BY <1>2, <2>1, IntervalIsFinite, CoverIsFinite
  <1>4. all = {} <=> hits = <<>>
    <2>1. hits = <<>> <=> Len(hits) = 0 OBVIOUS
    <2>2. all = {hits[i] : i \in 1..Len(hits)} BY <1>2 DEF Range
    <2>3. all = {} <=> 1..Len(hits) = {} BY <2>2
    <2>4. 1..Len(hits) = {} <=> Len(hits) = 0
      <3>1. \A n \in Nat : n # 0 => 1 \in 1..n OBVIOUS
      <3>2. 1..0 = {} OBVIOUS
      <3> QED BY <1>2, <3>1, <3>2
    <2> QED BY <2>1, <2>3, <2>4
  <1> HIDE DEF all
  <1>5. direct \subseteq all /\ endpoint \subseteq all /\ all \ direct \subseteq all
    OBVIOUS
  <1>6. strong \in {0, 10} /\ (strong = 10 => all # {}) OBVIOUS
  <1>7. untested \in {0, 12} /\ (untested = 12 => all # {}) OBVIOUS
  <1> HIDE DEF direct, endpoint, strong, untested
  <1>8. /\ IsFiniteSet(direct) /\ IsFiniteSet(all \ direct) /\ IsFiniteSet(endpoint)
        /\ d \in Nat /\ f \in Nat /\ e \in Nat
    BY <1>3, <1>5, FS_Subset, FS_CardinalityType
  <1>9. (d = 0 <=> direct = {}) /\ (f = 0 <=> all \ direct = {}) /\ (e = 0 <=> endpoint = {})
    BY <1>8, FS_EmptySet
  <1> HIDE DEF d, f, e
  <1>10. sum \in Nat /\ (hits = <<>> => sum = 0) /\ (hits # <<>> => sum > 0)
    <2>1. CASE hits = <<>> BY <1>4, <1>5, <1>9, <2>1
    <2>2. CASE hits # <<>> BY <1>4, <1>8, <1>9, <2>2
    <2> QED BY <2>1, <2>2
  <1> HIDE DEF sum
  <1>11. base \in Nat /\ (hits = <<>> => base = 0) /\ (hits # <<>> => base > 0)
    BY <1>10, LeastOfTwo
  <1> HIDE DEF base
  <1> DEFINE total == base + untested + strong
  <1>12. total \in Nat /\ (hits = <<>> => total = 0) /\ (hits # <<>> => total > 0)
    BY <1>4, <1>6, <1>7, <1>11
  <1> HIDE DEF total
  <1>13. score = IF 100 <= total THEN 100 ELSE total BY <1>12, LeastOfTwo DEF total
  <1> HIDE DEF score
  <1>14. score \in Nat /\ (hits = <<>> <=> ~ (score > 0)) BY <1>12, <1>13
  <1>15. RiskLevel(score) = "unknown" <=> ~ (score > 0) BY <1>14 DEF RiskLevel
  <1> QED BY <1>1, <1>14, <1>15

---------------------------------------------------------------------------
(* Places in an order, and sorting. *)

\* The places of the elements of a finite set that is ordered are the numbers from 1 to as
\* many as there are, each once.
LEMMA PlacesAreRanks ==
  ASSUME NEW S, IsFiniteSet(S), NEW R, Orders(R, S)
  PROVE  /\ Places(R, S) \in [S -> 1..Cardinality(S)]
         /\ \A x, y \in S : <<x, y>> \in R => Places(R, S)[x] < Places(R, S)[y]
         /\ \A n \in 1..Cardinality(S) : \E x \in S : Places(R, S)[x] = n
  <1> DEFINE below(x) == {y \in S : <<y, x>> \in R}
             place == Places(R, S)
  <1>0. Cardinality(S) \in Nat BY FS_CardinalityType
  <1>1. ASSUME NEW x \in S PROVE IsFiniteSet(below(x)) /\ Cardinality(below(x)) \in Nat
    BY FS_Subset, FS_CardinalityType
  <1>2. ASSUME NEW x \in S PROVE place[x] = 1 + Cardinality(below(x)) BY DEF Places
  <1>3. ASSUME NEW x \in S PROVE place[x] \in 1..Cardinality(S)
    <2>1. below(x) \subseteq S /\ below(x) # S BY DEF Orders, Irreflexive
    <2>2. Cardinality(below(x)) <= Cardinality(S) /\ Cardinality(below(x)) # Cardinality(S)
      BY <2>1, FS_Subset
    <2> HIDE DEF below, place
    <2> QED BY <1>0, <1>1, <1>2, <2>2
  <1>4. ASSUME NEW x \in S, NEW y \in S, <<x, y>> \in R PROVE place[x] < place[y]
    <2>1. below(x) \subseteq below(y) /\ x \in below(y) /\ x \notin below(x)
      BY <1>4 DEF Orders, Irreflexive, TransitiveOn
    <2>2. Cardinality(below(x)) <= Cardinality(below(y)) /\ Cardinality(below(x)) # Cardinality(below(y))
      <3> HIDE DEF below
      <3> QED BY <1>1, <2>1, FS_Subset
    <2> HIDE DEF below, place
    <2> QED BY <1>1, <1>2, <2>2
  <1>5. place \in [S -> 1..Cardinality(S)]
    <2>1. place = [x \in S |-> place[x]] BY DEF Places
    <2> HIDE DEF place
    <2> QED BY <1>3, <2>1
  <1>6. ASSUME NEW x \in S, NEW y \in S, place[x] = place[y] PROVE x = y
    <2> HIDE DEF place
    <2>1. place[x] \in Int /\ place[y] \in Int BY <1>3
    <2>2. <<x, y>> \notin R /\ <<y, x>> \notin R BY <1>4, <1>6, <2>1
    <2> QED BY <2>2 DEF Orders, TotalOn
  <1>7. ASSUME NEW n \in 1..Cardinality(S) PROVE \E x \in S : place[x] = n
    <2> HIDE DEF place
    <2>1. place \in Injection(S, 1..Cardinality(S))
      BY <1>5, <1>6 DEF Injection, IsInjective
    <2>2. IsFiniteSet(1..Cardinality(S)) /\ Cardinality(1..Cardinality(S)) = Cardinality(S)
      BY <1>0, FS_Interval
    <2>3. place \in Surjection(S, 1..Cardinality(S)) BY <2>1, <2>2, FS_Injection
    <2> QED BY <2>3 DEF Surjection
  <1> QED BY <1>4, <1>5, <1>7

\* Python's order on tuples is one: of two different ones, the first place where they
\* differ decides.
LEMMA TuplesAreOrdered ==
  ASSUME NEW S, NEW key, NEW n \in Nat, Keys(key, S, n)
  PROVE  Orders(SortOrder(S, key), S)
  <1> DEFINE R == SortOrder(S, key)
  <1>1. ASSUME NEW x \in S, NEW y \in S
        PROVE  <<x, y>> \in R <=>
               \E i \in 1..n : key[x][i] < key[y][i] /\ \A j \in 1..(i - 1) : key[x][j] = key[y][j]
    <2>1. <<x, y>> \in R <=> Before(key[x], key[y]) BY DEF SortOrder
    <2>2. Len(key[x]) = n BY DEF Keys
    <2> QED BY <2>1, <2>2 DEF Before
  <1>2. ASSUME NEW x \in S, NEW i \in 1..n PROVE key[x][i] \in Int BY DEF Keys
  <1>3. R \subseteq S \X S BY DEF SortOrder
  <1> HIDE DEF R
  <1>4. ASSUME NEW x \in S PROVE <<x, x>> \notin R BY <1>1, <1>2
  <1>5. ASSUME NEW x \in S, NEW y \in S, NEW z \in S, <<x, y>> \in R, <<y, z>> \in R PROVE <<x, z>> \in R
    <2>1. PICK i \in 1..n : key[x][i] < key[y][i] /\ \A j \in 1..(i - 1) : key[x][j] = key[y][j]
      BY <1>1, <1>5
    <2>2. PICK k \in 1..n : key[y][k] < key[z][k] /\ \A j \in 1..(k - 1) : key[y][j] = key[z][j]
      BY <1>1, <1>5
    <2>3. CASE i < k
      <3>1. key[y][i] = key[z][i] /\ key[x][i] < key[z][i] BY <2>1, <2>2, <2>3
      <3>2. ASSUME NEW j \in 1..(i - 1) PROVE key[x][j] = key[z][j] BY <2>1, <2>2, <2>3
      <3> QED BY <1>1, <3>1, <3>2
    <2>4. CASE k < i
      <3>1. key[x][k] = key[y][k] /\ key[x][k] < key[z][k] BY <2>1, <2>2, <2>4
      <3>2. ASSUME NEW j \in 1..(k - 1) PROVE key[x][j] = key[z][j] BY <2>1, <2>2, <2>4
      <3> QED BY <1>1, <3>1, <3>2
    <2>5. CASE i = k
      <3>1. key[x][i] < key[z][i] BY <1>2, <2>1, <2>2, <2>5
      <3>2. ASSUME NEW j \in 1..(i - 1) PROVE key[x][j] = key[z][j] BY <2>1, <2>2, <2>5
      <3> QED BY <1>1, <3>1, <3>2
    <2> QED BY <2>3, <2>4, <2>5
  <1>6. ASSUME NEW x \in S, NEW y \in S, x # y PROVE <<x, y>> \in R \/ <<y, x>> \in R
    <2> DEFINE D == {i \in 1..n : key[x][i] # key[y][i]}
    <2>1. D # {} /\ D \subseteq Nat BY <1>6 DEF Keys
    <2>2. PICK i \in D : \A j \in D : i <= j
      <3> HIDE DEF D
      <3> QED BY <2>1, LeastOfNonempty
    <2>3. i \in 1..n /\ key[x][i] # key[y][i] OBVIOUS
    <2>4. ASSUME NEW j \in 1..(i - 1) PROVE key[x][j] = key[y][j] BY <2>2, <2>3
    <2>5. key[x][i] < key[y][i] \/ key[y][i] < key[x][i] BY <1>2, <2>3
    <2> HIDE DEF D
    <2> QED BY <1>1, <2>3, <2>4, <2>5
  <1>7. Irreflexive(R, S) BY <1>4 DEF Irreflexive
  <1>8. TransitiveOn(R, S) BY <1>5 DEF TransitiveOn
  <1>9. TotalOn(R, S) BY <1>6 DEF TotalOn
  <1>10. Orders(R, S) BY <1>3, <1>7, <1>8, <1>9 DEF Orders
  <1> QED BY <1>10 DEF R

LEMMA SortedIsSorted ==
  ASSUME NEW S, IsFiniteSet(S), NEW key, NEW n \in Nat, Keys(key, S, n)
  PROVE  SortsBy(SortedBy(S, key), S, key)
  <1> DEFINE R == SortOrder(S, key)
             place == Places(R, S)
             N == Cardinality(S)
             s == SortedBy(S, key)
  <1>0. N \in Nat BY FS_CardinalityType
  <1>1. Orders(R, S) BY TuplesAreOrdered
  <1>2. /\ place \in [S -> 1..N]
        /\ \A x, y \in S : <<x, y>> \in R => place[x] < place[y]
        /\ \A i \in 1..N : \E x \in S : place[x] = i
    <2> HIDE DEF R
    <2> QED BY <1>1, PlacesAreRanks
  <1>3. ASSUME NEW x \in S, NEW y \in S PROVE <<x, y>> \in R <=> Before(key[x], key[y])
    BY DEF SortOrder
  <1>4. place = [x \in S |-> 1 + Cardinality({y \in S : Before(key[y], key[x])})]
    <2>1. ASSUME NEW x \in S PROVE {y \in S : <<y, x>> \in R} = {y \in S : Before(key[y], key[x])}
      BY <1>3
    <2> HIDE DEF R
    <2> QED BY <2>1 DEF Places
  <1>5. s = [i \in 1..N |-> CHOOSE x \in S : place[x] = i]
    <2> HIDE DEF R, place
    <2> QED BY <1>4 DEF SortedBy
  <1> HIDE DEF s, place, R
  <1>6. ASSUME NEW i \in 1..N PROVE s[i] \in S /\ place[s[i]] = i BY <1>2, <1>5
  <1>7. ASSUME NEW x \in S, NEW y \in S, place[x] = place[y] PROVE x = y
    <2>1. place[x] \in 1..N /\ place[y] \in 1..N BY <1>2
    <2>2. <<x, y>> \notin R /\ <<y, x>> \notin R BY <1>2, <1>7, <2>1
    <2> QED BY <1>1, <2>2 DEF Orders, TotalOn
  <1>8. ASSUME NEW x \in S PROVE \E i \in 1..N : s[i] = x BY <1>2, <1>6, <1>7
  <1>9. ASSUME NEW i \in 1..N, NEW j \in 1..N PROVE i < j <=> Before(key[s[i]], key[s[j]])
    <2>1. s[i] \in S /\ s[j] \in S /\ place[s[i]] = i /\ place[s[j]] = j BY <1>6
    <2>2. i < j => <<s[i], s[j]>> \in R
      <3>1. SUFFICES ASSUME i < j PROVE <<s[i], s[j]>> \in R OBVIOUS
      <3>2. s[i] # s[j] BY <2>1, <3>1
      <3>3. <<s[j], s[i]>> \notin R BY <1>2, <2>1, <3>1
      <3> QED BY <1>1, <2>1, <3>2, <3>3 DEF Orders, TotalOn
    <2>3. <<s[i], s[j]>> \in R => i < j BY <1>2, <2>1
    <2> QED BY <1>3, <2>1, <2>2, <2>3
  <1>10. s \in [1..N -> S] BY <1>5, <1>6
  <1>11. Len(s) = N BY <1>0, <1>5
  <1>12. SortsBy(s, S, key) BY <1>8, <1>9, <1>10, <1>11 DEF SortsBy
  <1> QED BY <1>12 DEF s

---------------------------------------------------------------------------
(* The retrievers' ranks. *)

\* A retriever's seeds are ranked from 1 on, each rank given once.
LEMMA SeedsRankOnce ==
  ASSUME NEW seeds, Scored(seeds)
  PROVE  RanksOnce(RankIn(seeds), DOMAIN seeds)
  <1> DEFINE D == DOMAIN seeds
             R == Ahead(seeds, D)
  <1>1. ASSUME NEW c \in D PROVE Max(seeds[c]) \in Nat /\ c \in Nat
    BY MaxOfFinite DEF Scored
  <1>0. RankIn(seeds) = [c \in D |-> 1 + Cardinality({d \in D : IsAhead(seeds, d, c)})]
    BY DEF RankIn, IsAhead
  <1> HIDE DEF D
  <1>2. ASSUME NEW d \in D, NEW c \in D PROVE <<d, c>> \in R <=> IsAhead(seeds, d, c)
    BY DEF Ahead
  <1>3. R \subseteq D \X D BY DEF Ahead
  <1> HIDE DEF R
  <1>4. RankIn(seeds) = Places(R, D)
    <2>1. ASSUME NEW c \in D
          PROVE  {d \in D : IsAhead(seeds, d, c)} = {d \in D : <<d, c>> \in R}
      BY <1>2
    <2> QED BY <1>0, <2>1 DEF Places
  <1>5. Irreflexive(R, D) BY <1>1, <1>2 DEF Irreflexive, IsAhead
  <1>6. TransitiveOn(R, D)
    <2> SUFFICES ASSUME NEW x \in D, NEW y \in D, NEW z \in D, <<x, y>> \in R, <<y, z>> \in R PROVE <<x, z>> \in R
      BY DEF TransitiveOn
    <2> DEFINE a == Max(seeds[x])
               b == Max(seeds[y])
               c == Max(seeds[z])
    <2>1. a \in Nat /\ b \in Nat /\ c \in Nat /\ x \in Nat /\ y \in Nat /\ z \in Nat
      BY <1>1
    <2>2. a > b \/ (a = b /\ x < y) BY <1>2 DEF IsAhead
    <2>3. b > c \/ (b = c /\ y < z) BY <1>2 DEF IsAhead
    <2>4. a > c \/ (a = c /\ x < z)
      <3> HIDE DEF a, b, c
      <3> QED BY <2>1, <2>2, <2>3
    <2> QED BY <1>2, <2>4 DEF IsAhead
  <1>7. TotalOn(R, D)
    <2> SUFFICES ASSUME NEW x \in D, NEW y \in D, x # y PROVE <<x, y>> \in R \/ <<y, x>> \in R
      BY DEF TotalOn
    <2> DEFINE a == Max(seeds[x])
               b == Max(seeds[y])
    <2>1. a \in Nat /\ b \in Nat /\ x \in Nat /\ y \in Nat BY <1>1
    <2>2. (a > b \/ (a = b /\ x < y)) \/ (b > a \/ (b = a /\ y < x))
      <3> HIDE DEF a, b
      <3> QED BY <2>1
    <2> QED BY <1>2, <2>2 DEF IsAhead
  <1>8. Orders(R, D) BY <1>3, <1>5, <1>6, <1>7 DEF Orders
  <1>9. IsFiniteSet(D) BY DEF Scored, D
  <1>10. RanksOnce(Places(R, D), D) BY <1>8, <1>9, PlacesAreRanks DEF RanksOnce
  <1> QED BY <1>4, <1>10 DEF D

LEMMA ExactSeedsAreScored ==
  ASSUME NEW index, NEW found, NEW named, IsFound(index, found)
  PROVE  Scored(ExactSeeds(found, named)) /\ DOMAIN ExactSeeds(found, named) \subseteq DOMAIN index.files
  <1> DEFINE sources == {"symbol", "endpoint", "metadata"}
             seeds == {n \in named : n[1] \in sources /\ n[2] \in DOMAIN found[n[1]] /\ n[3] \in found[n[1]][n[2]]}
             e == ExactSeeds(found, named)
             of(r, c) == IF c \in DOMAIN found[r] THEN found[r][c] ELSE {}
  <1>1. DOMAIN e = {n[2] : n \in seeds} /\ \A c \in DOMAIN e : e[c] = {n[3] : n \in {m \in seeds : m[2] = c}}
    BY DEF ExactSeeds
  <1>2. \A r \in sources : r \in Retrievers BY DEF Retrievers
  <1>3. ASSUME NEW r \in sources, NEW c PROVE of(r, c) \subseteq Nat /\ IsFiniteSet(of(r, c))
    BY <1>2, FS_EmptySet DEF IsFound
  <1>4. \A n \in seeds : n[1] \in sources /\ n[2] \in DOMAIN found[n[1]] /\ n[3] \in of(n[1], n[2])
    OBVIOUS
  <1> HIDE DEF e, of, seeds
  <1>5. DOMAIN e \subseteq DOMAIN index.files BY <1>1, <1>2, <1>4 DEF IsFound
  <1>6. DOMAIN e \subseteq Nat /\ IsFiniteSet(DOMAIN e) BY <1>5, FS_Subset DEF IsFound
  <1>7. ASSUME NEW c \in DOMAIN e PROVE e[c] \subseteq Nat /\ e[c] # {} /\ IsFiniteSet(e[c])
    <2> DEFINE all == (of("symbol", c) \cup of("endpoint", c)) \cup of("metadata", c)
    <2>1. e[c] \subseteq all /\ e[c] # {} BY <1>1, <1>4
    <2>2. IsFiniteSet(of("symbol", c) \cup of("endpoint", c)) BY <1>3, FS_Union
    <2>3. IsFiniteSet(all) /\ all \subseteq Nat BY <1>3, <2>2, FS_Union
    <2> HIDE DEF all
    <2> QED BY <2>1, <2>3, FS_Subset
  <1>8. Scored(e) BY <1>6, <1>7 DEF Scored
  <1> QED BY <1>5, <1>8 DEF e

LEMMA RetrieversRank ==
  ASSUME NEW index, NEW found, NEW named, IsFound(index, found)
  PROVE  AreRanked(index, RetrieverRanks(found, named))
  <1> DEFINE ranks == RetrieverRanks(found, named)
             seeds(r) == IF r = "exact" THEN ExactSeeds(found, named) ELSE found[r]
  <1>1. DOMAIN ranks = Retrievers /\ \A r \in Retrievers : ranks[r] = RankIn(seeds(r))
    BY DEF RetrieverRanks
  <1>2. ASSUME NEW r \in Retrievers PROVE Scored(seeds(r)) /\ DOMAIN seeds(r) \subseteq DOMAIN index.files
    <2>1. CASE r = "exact" BY <2>1, ExactSeedsAreScored
    <2>2. CASE r # "exact" BY <2>2, FS_Subset DEF IsFound, Scored
    <2> QED BY <2>1, <2>2
  <1> HIDE DEF seeds, ranks
  <1>3. ASSUME NEW r \in Retrievers
        PROVE  DOMAIN ranks[r] \subseteq DOMAIN index.files /\ RanksOnce(ranks[r], DOMAIN ranks[r])
    BY <1>1, <1>2, SeedsRankOnce DEF RanksOnce
  <1>4. AreRanked(index, ranks) BY <1>1, <1>3 DEF AreRanked
  <1> QED BY <1>4 DEF ranks

\* The context of the graph's candidates is ranked after them.
LEMMA ContextFollows ==
  ASSUME NEW D, IsFiniteSet(D), NEW rank, RanksOnce(rank, D),
         NEW T \in SUBSET Nat, IsFiniteSet(T), T \cap D = {}
  PROVE  RanksOnce([c \in D \cup T |-> IF c \in T THEN Cardinality(D) + Cardinality({d \in T : d <= c}) ELSE rank[c]],
                   D \cup T)
  <1> DEFINE R == {p \in T \X T : p[1] < p[2]}
             place == Places(R, T)
             m == Cardinality(D)
             n == Cardinality(T)
             all == [c \in D \cup T |-> IF c \in T THEN m + Cardinality({d \in T : d <= c}) ELSE rank[c]]
  <1>0. m \in Nat /\ n \in Nat /\ Cardinality(D \cup T) = m + n
    <2>1. m \in Nat /\ n \in Nat BY FS_CardinalityType
    <2>2. D \cap T = {} /\ Cardinality({}) = 0 BY FS_EmptySet
    <2>3. Cardinality(D \cup T) = Cardinality(D) + Cardinality(T) - Cardinality(D \cap T)
      BY FS_Union
    <2>4. PICK k : k = Cardinality(D \cap T) OBVIOUS
    <2>5. k = 0 BY <2>2, <2>4
    <2>6. Cardinality(D \cup T) = m + n - k BY <2>3, <2>4
    <2> HIDE DEF m, n
    <2> QED BY <2>1, <2>5, <2>6
  <1>1. ASSUME NEW x \in T, NEW y \in T PROVE <<x, y>> \in R <=> x < y OBVIOUS
  <1>2. Orders(R, T)
    <2>1. R \subseteq T \X T OBVIOUS
    <2> HIDE DEF R
    <2>2. Irreflexive(R, T) /\ TransitiveOn(R, T) /\ TotalOn(R, T)
      BY <1>1 DEF Irreflexive, TransitiveOn, TotalOn
    <2> QED BY <2>1, <2>2 DEF Orders
  <1>3. place \in [T -> 1..n] /\ \A i \in 1..n : \E x \in T : place[x] = i
    <2> HIDE DEF R
    <2> QED BY <1>2, PlacesAreRanks
  <1>4. ASSUME NEW c \in T PROVE place[c] = Cardinality({d \in T : d <= c})
    <2> DEFINE S == {y \in T : <<y, c>> \in R}
    <2>1. {d \in T : d <= c} = S \cup {c} /\ c \notin S
      <3>1. S = {y \in T : y < c} BY <1>1
      <3> HIDE DEF S
      <3>2. c \notin S BY <3>1
      <3>3. ASSUME NEW d \in T PROVE d <= c <=> d < c \/ d = c
        <4>1. d \in Nat /\ c \in Nat OBVIOUS
        <4> QED BY <4>1
      <3>4. {d \in T : d <= c} \subseteq S \cup {c} BY <3>1, <3>3
      <3>5. S \cup {c} \subseteq {d \in T : d <= c} BY <3>1, <3>3
      <3> QED BY <3>2, <3>4, <3>5
    <2>2. S \subseteq T /\ place[c] = 1 + Cardinality(S) BY DEF Places
    <2> HIDE DEF S
    <2>3. IsFiniteSet(S) BY <2>2, FS_Subset
    <2>4. Cardinality(S) \in Nat /\ Cardinality(S \cup {c}) = Cardinality(S) + 1
      BY <2>1, <2>3, FS_CardinalityType, FS_AddElement
    <2> HIDE DEF place
    <2> QED BY <2>1, <2>2, <2>4
  <1> HIDE DEF R, place, m, n
  <1>5. \A c \in T : all[c] = m + place[c] BY <1>4
  <1>6. \A c \in D : all[c] = rank[c] OBVIOUS
  <1>7. DOMAIN all = D \cup T /\ all = [c \in D \cup T |-> all[c]] OBVIOUS
  <1>8. rank \in [D -> 1..m] /\ \A i \in 1..m : \E c \in D : rank[c] = i
    BY DEF RanksOnce, m
  <1> HIDE DEF all
  <1>9. ASSUME NEW c \in D \cup T PROVE all[c] \in 1..(m + n)
    <2>1. CASE c \in T BY <1>0, <1>3, <1>5, <2>1
    <2>2. CASE c \in D
      <3>1. rank[c] \in 1..m /\ all[c] = rank[c] BY <1>6, <1>8, <2>2
      <3> QED BY <1>0, <3>1
    <2> QED BY <2>1, <2>2
  <1>10. ASSUME NEW i \in 1..(m + n) PROVE \E c \in D \cup T : all[c] = i
    <2>1. CASE i \in 1..m BY <1>6, <1>8, <2>1
    <2>2. CASE i \notin 1..m
      <3>1. i - m \in 1..n BY <1>0, <2>2
      <3>2. PICK x \in T : place[x] = i - m BY <1>3, <3>1
      <3>3. all[x] = i BY <1>0, <1>5, <3>2
      <3> QED BY <3>3
    <2> QED BY <2>1, <2>2
  <1>11. RanksOnce(all, D \cup T)
    <2>1. all \in [D \cup T -> 1..(m + n)] BY <1>7, <1>9
    <2> QED BY <1>0, <1>10, <2>1 DEF RanksOnce
  <1> QED BY <1>11 DEF all, m

\* Every retriever ranks its candidates from 1 on, each rank given once, the graph's context
\* included (BaseRetriever.retrieve, GraphRetriever.related_candidates).
THEOREM RetrieversRankOnce ==
  ASSUME NEW index, NEW found, NEW named, IsFound(index, found)
  PROVE  /\ AreRanked(index, Candidates(index, found, named))
         /\ EachRetrieverRanksOnce(Candidates(index, found, named))
  <1> DEFINE ranks == RetrieverRanks(found, named)
             related == Related(index, ranks)
             D == DOMAIN ranks["graph"]
             graph == [c \in D \cup related |->
                         IF c \in related THEN RelatedOffset(ranks) + Cardinality({d \in related : d <= c})
                         ELSE ranks["graph"][c]]
             candidates == Candidates(index, found, named)
  <1>1. AreRanked(index, ranks) BY RetrieversRank
  <1>2. candidates = [ranks EXCEPT !["graph"] = graph] BY DEF Candidates
  <1> HIDE DEF candidates, ranks
  <1>3. "graph" \in Retrievers BY DEF Retrievers
  <1>4. related \subseteq DOMAIN index.files /\ related \cap D = {}
    BY <1>3 DEF Related, Retrieved
  <1>5. D \subseteq DOMAIN index.files /\ RanksOnce(ranks["graph"], D)
    BY <1>1, <1>3 DEF AreRanked
  <1>6. RelatedOffset(ranks) = Cardinality(D) BY DEF RelatedOffset
  <1>7. related \in SUBSET Nat /\ IsFiniteSet(related) /\ IsFiniteSet(D)
    <2>1. IsFiniteSet(DOMAIN index.files) /\ DOMAIN index.files \subseteq Nat
      BY DEF IsFound
    <2> HIDE DEF related, D
    <2> QED BY <1>4, <1>5, <2>1, FS_Subset
  <1> HIDE DEF related
  <1>8. RanksOnce(graph, D \cup related)
    <2> HIDE DEF D
    <2> QED BY <1>4, <1>5, <1>6, <1>7, ContextFollows
  <1>9. DOMAIN graph = D \cup related OBVIOUS
  <1> HIDE DEF graph, D
  <1>10. ASSUME NEW r \in Retrievers
         PROVE  DOMAIN candidates[r] \subseteq DOMAIN index.files /\ RanksOnce(candidates[r], DOMAIN candidates[r])
    <2>1. DOMAIN ranks = Retrievers BY <1>1 DEF AreRanked
    <2>2. CASE r = "graph"
      <3>1. candidates[r] = graph BY <1>2, <2>1, <2>2
      <3> QED BY <1>4, <1>5, <1>8, <1>9, <3>1
    <2>3. CASE r # "graph"
      <3>1. candidates[r] = ranks[r] BY <1>2, <2>1, <2>3
      <3> QED BY <1>1, <3>1 DEF AreRanked
    <2> QED BY <2>2, <2>3
  <1>11. DOMAIN candidates = Retrievers BY <1>1, <1>2 DEF AreRanked
  <1>12. AreRanked(index, candidates) BY <1>10, <1>11 DEF AreRanked
  <1>13. EachRetrieverRanksOnce(candidates)
    <2> SUFFICES ASSUME NEW r \in Retrievers
                 PROVE  {candidates[r][c] : c \in DOMAIN candidates[r]} = 1..Cardinality(DOMAIN candidates[r])
      BY DEF EachRetrieverRanksOnce
    <2>1. RanksOnce(candidates[r], DOMAIN candidates[r]) BY <1>10
    <2>2. PICK rank, E : rank = candidates[r] /\ E = DOMAIN candidates[r] OBVIOUS
    <2>3. {rank[c] : c \in E} = 1..Cardinality(E) BY <2>1, <2>2 DEF RanksOnce
    <2> QED BY <2>2, <2>3
  <1> QED BY <1>12, <1>13 DEF candidates

---------------------------------------------------------------------------
(* Totals over a finite set. *)

\* A property of finite sets that the smaller ones hand on to the larger ones.
LEMMA FiniteInduction ==
  ASSUME NEW X, IsFiniteSet(X), NEW C,
         \A S \in SUBSET X : (\A R \in SUBSET S : R # S => R \in C) => S \in C
  PROVE  X \in C
  <1> DEFINE D == {n \in Nat : \A S \in SUBSET X : Cardinality(S) <= n => S \in C}
  <1>1. ASSUME NEW S \in SUBSET X, NEW R \in SUBSET S, R # S
        PROVE  Cardinality(S) \in Nat /\ Cardinality(R) \in Nat /\ Cardinality(R) < Cardinality(S)
    <2>1. IsFiniteSet(S) BY FS_Subset
    <2> QED BY <1>1, <2>1, FS_Subset, FS_CardinalityType
  <1>2. 0 \in D
    <2> SUFFICES ASSUME NEW S \in SUBSET X, Cardinality(S) <= 0 PROVE S \in C OBVIOUS
    <2>1. ASSUME NEW R \in SUBSET S, R # S PROVE FALSE BY <1>1, <2>1
    <2> QED BY <2>1
  <1>3. ASSUME NEW n \in Nat, n \in D PROVE n + 1 \in D
    <2> SUFFICES ASSUME NEW S \in SUBSET X, Cardinality(S) <= n + 1 PROVE S \in C OBVIOUS
    <2>1. ASSUME NEW R \in SUBSET S, R # S PROVE R \in C
      <3>1. Cardinality(R) <= n /\ R \in SUBSET X BY <1>1, <2>1
      <3> QED BY <1>3, <3>1
    <2> QED BY <2>1
  <1>4. \A n \in Nat : n \in D
    <2> HIDE DEF D
    <2> QED BY <1>2, <1>3, SetInduction
  <1> QED BY <1>4, FS_CardinalityType

---------------------------------------------------------------------------
(* Sums of weights. *)

LEMMA TotalIsSum ==
  ASSUME NEW weight, NEW S, NEW g, g = [part \in SUBSET S |-> AddUp(g, weight, part)]
  PROVE  \E sum : sum = [part \in SUBSET S |-> AddUp(sum, weight, part)] /\ Total(weight, S) = sum[S]
  BY DEF Total, MapThenSumSet, MapThenFoldSet, AddUp, First

LEMMA FirstIn == \A S : S # {} => First(S) \in S
  BY DEF First

LEMMA TotalEquation ==
  ASSUME NEW weight, NEW X, IsFiniteSet(X)
  PROVE  Total(weight, X) = Rest(weight, X)
  <1> DEFINE C == {part \in SUBSET X :
                     /\ Total(weight, part) = Rest(weight, part)
                     /\ \A all : \A sum : part \subseteq all /\ sum = [p \in SUBSET all |-> AddUp(sum, weight, p)]
                                 => sum[part] = Total(weight, part)}
  <1>1. ASSUME NEW S \in SUBSET X, \A R \in SUBSET S : R # S => R \in C PROVE S \in C
    <2>0. ASSUME S # {} PROVE S \ {First(S)} \in SUBSET S /\ S \ {First(S)} # S
      BY <2>0, FirstIn
    <2>1. ASSUME NEW all, NEW sum, S \subseteq all, sum = [p \in SUBSET all |-> AddUp(sum, weight, p)]
          PROVE  sum[S] = Rest(weight, S)
      <3>1. sum[S] = AddUp(sum, weight, S) BY <2>1
      <3>2. ASSUME S # {} PROVE sum[S \ {First(S)}] = Total(weight, S \ {First(S)})
        BY <1>1, <2>0, <2>1, <3>2
      <3> QED BY <3>1, <3>2 DEF AddUp, Rest
    <2> DEFINE g == [p \in SUBSET S |-> Rest(weight, p)]
    <2>2. g = [p \in SUBSET S |-> AddUp(g, weight, p)]
      <3>1. ASSUME NEW p \in SUBSET S PROVE Rest(weight, p) = AddUp(g, weight, p)
        <4>1. CASE p = {} BY <4>1 DEF Rest, AddUp
        <4>2. CASE p # {}
          <5>1. p \ {First(p)} \in SUBSET S /\ p \ {First(p)} # S BY <4>2, FirstIn
          <5>2. Total(weight, p \ {First(p)}) = Rest(weight, p \ {First(p)}) BY <1>1, <5>1
          <5>3. g[p \ {First(p)}] = Total(weight, p \ {First(p)}) BY <5>1, <5>2
          <5> HIDE DEF g
          <5> QED BY <4>2, <5>3 DEF Rest, AddUp
        <4> QED BY <4>1, <4>2
      <3> QED BY <3>1
    <2> HIDE DEF g
    <2>3. PICK sum : sum = [p \in SUBSET S |-> AddUp(sum, weight, p)] /\ Total(weight, S) = sum[S]
      BY <2>2, TotalIsSum
    <2>4. Total(weight, S) = Rest(weight, S) BY <2>1, <2>3
    <2> QED BY <2>1, <2>4
  <1>2. X \in C
    <2> HIDE DEF C
    <2> QED BY <1>1, FiniteInduction
  <1> QED BY <1>2

LEMMA TotalOfNone ==
  ASSUME NEW weight PROVE Total(weight, {}) = 0
  BY TotalEquation, FS_EmptySet DEF Rest

LEMMA WeightedPart ==
  ASSUME NEW weight, NEW X, Weighted(weight, X), NEW S \in SUBSET X
  PROVE  Weighted(weight, S)
  BY FS_Subset DEF Weighted

LEMMA TotalType ==
  ASSUME NEW weight, NEW X, Weighted(weight, X)
  PROVE  Total(weight, X) \in Nat
  <1> DEFINE C == {part \in SUBSET X : Total(weight, part) \in Nat}
  <1>1. ASSUME NEW S \in SUBSET X, \A R \in SUBSET S : R # S => R \in C PROVE S \in C
    <2>1. CASE S = {} BY <2>1, TotalOfNone
    <2>2. CASE S # {}
      <3>1. First(S) \in S /\ Total(weight, S \ {First(S)}) \in Nat BY <1>1, <2>2, FirstIn
      <3>2. Total(weight, S) = weight[First(S)] + Total(weight, S \ {First(S)})
        BY <2>2, TotalEquation, WeightedPart DEF Rest, Weighted
      <3> QED BY <3>1, <3>2 DEF Weighted
    <2> QED BY <2>1, <2>2
  <1>2. X \in C
    <2> HIDE DEF C
    <2> QED BY <1>1, FiniteInduction DEF Weighted
  <1> QED BY <1>2

\* The sum does not depend on the order in which the weights are taken.
LEMMA TotalRemove ==
  ASSUME NEW weight, NEW X, Weighted(weight, X)
  PROVE  \A x \in X : Total(weight, X) = weight[x] + Total(weight, X \ {x})
  <1> DEFINE C == {part \in SUBSET X : \A x \in part : Total(weight, part) = weight[x] + Total(weight, part \ {x})}
  <1>0. ASSUME NEW S \in SUBSET X PROVE Weighted(weight, S) /\ Total(weight, S) \in Nat
    BY WeightedPart, TotalType
  <1>1. ASSUME NEW S \in SUBSET X, \A R \in SUBSET S : R # S => R \in C PROVE S \in C
    <2> SUFFICES ASSUME NEW x \in S PROVE Total(weight, S) = weight[x] + Total(weight, S \ {x})
      OBVIOUS
    <2> DEFINE y == First(S)
    <2>1. Total(weight, S) = weight[y] + Total(weight, S \ {y}) /\ y \in S
      BY <1>0, FirstIn, TotalEquation DEF Rest, Weighted
    <2> HIDE DEF y
    <2>2. CASE x = y BY <2>1, <2>2
    <2>3. CASE x # y
      <3>1. S \ {y} \in C /\ S \ {x} \in C BY <1>1, <2>1
      <3>2. Total(weight, S \ {y}) = weight[x] + Total(weight, (S \ {y}) \ {x})
        BY <2>3, <3>1
      <3>3. Total(weight, S \ {x}) = weight[y] + Total(weight, (S \ {x}) \ {y})
        BY <2>1, <2>3, <3>1
      <3>4. PICK r : r = Total(weight, (S \ {x}) \ {y}) OBVIOUS
      <3>5. Total(weight, (S \ {y}) \ {x}) = r BY <3>4
      <3>6. weight[x] \in Nat /\ weight[y] \in Nat /\ r \in Nat
        BY <1>0, <2>1, <3>4 DEF Weighted
      <3> QED BY <2>1, <3>2, <3>3, <3>4, <3>5, <3>6
    <2> QED BY <2>2, <2>3
  <1>2. X \in C
    <2> HIDE DEF C
    <2> QED BY <1>1, FiniteInduction DEF Weighted
  <1> QED BY <1>2

LEMMA TotalAdd ==
  ASSUME NEW weight, NEW X, Weighted(weight, X), NEW x, weight[x] \in Nat, x \notin X
  PROVE  Total(weight, X \cup {x}) = Total(weight, X) + weight[x]
  <1>1. Weighted(weight, X \cup {x}) BY FS_AddElement DEF Weighted
  <1>2. (X \cup {x}) \ {x} = X OBVIOUS
  <1>3. Total(weight, X \cup {x}) = weight[x] + Total(weight, X)
    BY <1>1, <1>2, TotalRemove
  <1>4. Total(weight, X) \in Nat BY TotalType
  <1> QED BY <1>3, <1>4

\* More weights, or larger ones, have a larger sum.
LEMMA TotalMonotone ==
  ASSUME NEW weight, NEW larger, NEW X, Weighted(larger, X), NEW Y \in SUBSET X, Weighted(weight, Y),
         \A x \in Y : weight[x] <= larger[x]
  PROVE  Total(weight, Y) <= Total(larger, X)
  <1> DEFINE C == {all \in SUBSET X : \A part \in SUBSET all : part \subseteq Y => Total(weight, part) <= Total(larger, all)}
  <1>0. ASSUME NEW S \in SUBSET X PROVE Weighted(larger, S) /\ Total(larger, S) \in Nat
    BY WeightedPart, TotalType
  <1>b. ASSUME NEW S \in SUBSET Y PROVE Weighted(weight, S) /\ Total(weight, S) \in Nat
    BY WeightedPart, TotalType
  <1>1. ASSUME NEW S \in SUBSET X, \A R \in SUBSET S : R # S => R \in C PROVE S \in C
    <2> SUFFICES ASSUME NEW part \in SUBSET S, part \subseteq Y PROVE Total(weight, part) <= Total(larger, S)
      OBVIOUS
    <2>1. CASE S = {} BY <2>1, TotalOfNone
    <2>2. CASE S # {}
      <3>1. PICK x : x \in S BY <2>2
      <3>2. Total(larger, S) = larger[x] + Total(larger, S \ {x}) /\ larger[x] \in Nat
        BY <1>0, <3>1, TotalRemove DEF Weighted
      <3>3. S \ {x} \in C /\ S \ {x} \in SUBSET X BY <1>1, <3>1
      <3>4. Total(weight, part \ {x}) <= Total(larger, S \ {x}) BY <3>3
      <3>5. CASE x \in part
        <4>1. Total(weight, part) = weight[x] + Total(weight, part \ {x}) /\ weight[x] \in Nat /\ weight[x] <= larger[x]
          BY <1>b, <3>5, TotalRemove DEF Weighted
        <4>2. Total(weight, part \ {x}) \in Nat /\ Total(larger, S \ {x}) \in Nat
          BY <1>0, <1>b
        <4> QED BY <3>2, <3>4, <4>1, <4>2
      <3>6. CASE x \notin part
        <4>1. part \ {x} = part BY <3>6
        <4>2. Total(weight, part) <= Total(larger, S \ {x}) BY <3>4, <4>1
        <4>3. Total(weight, part) \in Nat /\ Total(larger, S \ {x}) \in Nat BY <1>0, <1>b
        <4> QED BY <3>2, <4>2, <4>3
      <3> QED BY <3>5, <3>6
    <2> QED BY <2>1, <2>2
  <1>2. X \in C
    <2> HIDE DEF C
    <2> QED BY <1>1, FiniteInduction DEF Weighted
  <1> QED BY <1>2

---------------------------------------------------------------------------
(* Fusion. *)

LEMMA ScaleIsProduct ==
  ASSUME NEW k, NEW limit, NEW g, Products(k, limit, g)
  PROVE  \E f : Products(k, limit, f) /\ Scale(k, limit) = f[limit]
  BY DEF Scale, Products

LEMMA ScaleType ==
  ASSUME NEW k \in Nat, NEW limit \in Nat
  PROVE  Scale(k, limit) \in Nat
  <1> DEFINE st == [p \in (1..limit) \X Nat |-> p[2] * (k + p[1])]
  <1>1. st \in [(1..limit) \X Nat -> Nat] OBVIOUS
  <1>2. PICK g \in [0..limit -> Nat] : Folds(1, st, limit, g)
    <2> HIDE DEF st
    <2> QED BY <1>1, FoldExists
  <1>3. Products(k, limit, g)
    <2>1. g = [n \in 0..limit |-> IF n = 0 THEN 1 ELSE st[<<n, g[n - 1]>>]]
      BY <1>2 DEF Folds
    <2>2. ASSUME NEW n \in 0..limit, n # 0 PROVE st[<<n, g[n - 1]>>] = g[n - 1] * (k + n)
      <3>1. n \in 1..limit /\ g[n - 1] \in Nat BY <1>2, <2>2
      <3>2. <<n, g[n - 1]>> \in (1..limit) \X Nat BY <3>1
      <3> QED BY <3>2
    <2> HIDE DEF st
    <2>3. ASSUME NEW n \in 0..limit
          PROVE  (IF n = 0 THEN 1 ELSE st[<<n, g[n - 1]>>]) = IF n = 0 THEN 1 ELSE g[n - 1] * (k + n)
      BY <2>2
    <2>4. g = [n \in 0..limit |-> IF n = 0 THEN 1 ELSE g[n - 1] * (k + n)] BY <2>1, <2>3
    <2> QED BY <2>4 DEF Products
  <1>4. PICK f : Products(k, limit, f) /\ Scale(k, limit) = f[limit]
    BY <1>3, ScaleIsProduct
  <1> DEFINE T == {n \in Nat : n <= limit => f[n] \in Nat}
  <1>5. ASSUME NEW n \in 0..limit PROVE f[n] = IF n = 0 THEN 1 ELSE f[n - 1] * (k + n)
    BY <1>4 DEF Products
  <1>6. 0 \in T BY <1>5
  <1>7. ASSUME NEW n \in Nat, n \in T PROVE n + 1 \in T
    <2> SUFFICES ASSUME n + 1 <= limit PROVE f[n + 1] \in Nat OBVIOUS
    <2>1. f[n] \in Nat BY <1>7
    <2>2. f[n + 1] = f[(n + 1) - 1] * (k + (n + 1)) BY <1>5
    <2>3. (n + 1) - 1 = n /\ k + (n + 1) \in Nat OBVIOUS
    <2> QED BY <2>1, <2>2, <2>3
  <1>8. \A n \in Nat : n \in T
    <2> HIDE DEF T
    <2> QED BY <1>6, <1>7, SetInduction
  <1> QED BY <1>4, <1>8

LEMMA DivSmaller ==
  ASSUME NEW a \in Nat, NEW x \in Nat, NEW y \in Nat, x > 0, x <= y
  PROVE  a \div y \in Nat /\ a \div x \in Nat /\ a \div y <= a \div x
  OBVIOUS

\* A finite set of numbers that is not empty has a least one, and a larger set's is not
\* larger.
LEMMA LeastIn ==
  ASSUME NEW T \in SUBSET Nat, T # {}
  PROVE  Min(T) \in T /\ Min(T) \in Nat /\ \A x \in T : Min(T) <= x
  BY LeastOfNonempty DEF Min

LEMMA RankType ==
  ASSUME NEW index, NEW candidates, AreRanked(index, candidates),
         NEW r \in Retrievers, NEW c \in DOMAIN candidates[r]
  PROVE  candidates[r][c] \in Nat /\ candidates[r][c] > 0
  <1>1. RanksOnce(candidates[r], DOMAIN candidates[r]) BY DEF AreRanked
  <1>2. PICK rank, D, n : rank = candidates[r] /\ D = DOMAIN rank /\ n = Cardinality(D)
    OBVIOUS
  <1>3. rank \in [D -> 1..n] /\ c \in D BY <1>1, <1>2 DEF RanksOnce
  <1>4. rank[c] \in 1..n BY <1>3
  <1>5. candidates[r][c] \in 1..n BY <1>2, <1>4
  <1> QED BY <1>5

LEMMA RetrieversAreFinite == IsFiniteSet(Retrievers)
  <1>1. \A x, y : IsFiniteSet({x, y})
    <2> TAKE x, y
    <2>1. {x, y} = {x} \cup {y} OBVIOUS
    <2>2. IsFiniteSet({x}) BY FS_Singleton
    <2>3. IsFiniteSet({x} \cup {y}) BY <2>2, FS_AddElement
    <2> QED BY <2>1, <2>3
  <1>2. IsFiniteSet({"exact", "lexical"} \cup {"symbol", "endpoint"}) BY <1>1, FS_Union
  <1>3. IsFiniteSet({"metadata", "graph"} \cup {"semantic"}) BY <1>1, FS_AddElement
  <1>4. IsFiniteSet(({"exact", "lexical"} \cup {"symbol", "endpoint"}) \cup ({"metadata", "graph"} \cup {"semantic"}))
    BY <1>2, <1>3, FS_Union
  <1>5. Retrievers = ({"exact", "lexical"} \cup {"symbol", "endpoint"}) \cup ({"metadata", "graph"} \cup {"semantic"})
    BY DEF Retrievers
  <1> QED BY <1>4, <1>5

LEMMA FusedType ==
  ASSUME NEW index, NEW candidates, AreRanked(index, candidates), NEW policy, IsRankingPolicy(policy), NEW c
  PROVE  /\ Weighted(Score(candidates, policy, c), Voters(candidates, policy, c))
         /\ Fused(candidates, policy, c) \in Nat
         /\ {SupportOf(r) : r \in Voters(candidates, policy, c)} \subseteq Nat
         /\ {candidates[r][c] : r \in Voters(candidates, policy, c)} \subseteq Nat
  <1> DEFINE V == Voters(candidates, policy, c)
             score == Score(candidates, policy, c)
             scale == Scale(policy.k, policy.limit)
  <1>1. IsFiniteSet(V) BY RetrieversAreFinite, FS_Subset DEF Voters
  <1>2. ASSUME NEW r \in V PROVE /\ candidates[r][c] \in Nat /\ candidates[r][c] > 0
                                 /\ SupportOf(r) \in Nat
    BY RankType DEF Voters, SupportOf
  <1>3. scale \in Nat /\ policy.k \in Nat BY ScaleType DEF IsRankingPolicy
  <1>4. \A r \in V : score[r] = scale \div (policy.k + candidates[r][c]) BY DEF Score
  <1> HIDE DEF V, score, scale
  <1>5. ASSUME NEW r \in V PROVE score[r] \in Nat
    <2>1. policy.k + candidates[r][c] \in Nat /\ policy.k + candidates[r][c] > 0
      BY <1>2, <1>3
    <2> QED BY <1>3, <1>4, <2>1, DivSmaller
  <1>6. Weighted(score, V) BY <1>1, <1>5 DEF Weighted
  <1>7. Fused(candidates, policy, c) = Total(score, V) BY DEF Fused, V, score
  <1>8. Total(score, V) \in Nat BY <1>6, TotalType
  <1>9. {SupportOf(r) : r \in V} \subseteq Nat /\ {candidates[r][c] : r \in V} \subseteq Nat
    BY <1>2
  <1> QED BY <1>6, <1>7, <1>8, <1>9 DEF V, score

\* Who every voter for d ranks higher has these voters, and comes before d.
LEMMA BetterComesFirst ==
  ASSUME NEW index, NEW candidates, AreRanked(index, candidates), NEW policy, IsRankingPolicy(policy),
         NEW c, NEW d, Voters(candidates, policy, d) # {}, Better(candidates, c, d)
  PROVE  /\ Voters(candidates, policy, d) \subseteq Voters(candidates, policy, c)
         /\ Fused(candidates, policy, d) <= Fused(candidates, policy, c)
         /\ Support(candidates, policy, c) <= Support(candidates, policy, d)
         /\ BestRank(candidates, policy, c) < BestRank(candidates, policy, d)
  <1> DEFINE V == Voters(candidates, policy, d)
             W == Voters(candidates, policy, c)
             score == Score(candidates, policy, d)
             larger == Score(candidates, policy, c)
             scale == Scale(policy.k, policy.limit)
  <1>1. ASSUME NEW r \in V PROVE /\ r \in W /\ candidates[r][c] < candidates[r][d]
                                 /\ candidates[r][d] \in Nat /\ candidates[r][c] \in Nat /\ candidates[r][c] > 0
    <2>1. /\ r \in Retrievers /\ d \in DOMAIN candidates[r] /\ policy.enabled[r]
          /\ candidates[r][d] <= policy.limit /\ SupportOf(r) \in policy.support
      BY DEF Voters
    <2>2. c \in DOMAIN candidates[r] /\ candidates[r][c] < candidates[r][d]
      BY <2>1 DEF Better
    <2>3. candidates[r][d] \in Nat /\ candidates[r][c] \in Nat /\ candidates[r][c] > 0
      BY <2>1, <2>2, RankType
    <2>4. candidates[r][c] <= policy.limit BY <2>1, <2>2, <2>3 DEF IsRankingPolicy
    <2>5. r \in W BY <2>1, <2>2, <2>4 DEF Voters
    <2> QED BY <2>2, <2>3, <2>5
  <1>2. V \subseteq W /\ V # {} BY <1>1
  <1>3. scale \in Nat /\ policy.k \in Nat BY ScaleType DEF IsRankingPolicy
  <1>4. (\A r \in V : score[r] = scale \div (policy.k + candidates[r][d]))
        /\ (\A r \in W : larger[r] = scale \div (policy.k + candidates[r][c]))
    BY DEF Score
  <1>5. Weighted(score, V) /\ Weighted(larger, W) BY FusedType
  <1>6. Fused(candidates, policy, d) = Total(score, V) /\ Fused(candidates, policy, c) = Total(larger, W)
    BY DEF Fused
  <1>7. {SupportOf(r) : r \in V} \subseteq Nat /\ {SupportOf(r) : r \in W} \subseteq Nat
        /\ {candidates[r][d] : r \in V} \subseteq Nat /\ {candidates[r][c] : r \in W} \subseteq Nat
    BY FusedType
  <1>8. /\ Support(candidates, policy, c) = Min({SupportOf(r) : r \in W})
        /\ Support(candidates, policy, d) = Min({SupportOf(r) : r \in V})
        /\ BestRank(candidates, policy, c) = Min({candidates[r][c] : r \in W})
        /\ BestRank(candidates, policy, d) = Min({candidates[r][d] : r \in V})
    BY DEF Support, BestRank
  <1> HIDE DEF V, W, score, larger, scale
  <1>9. ASSUME NEW r \in V PROVE score[r] <= larger[r]
    <2> DEFINE x == policy.k + candidates[r][c]
               y == policy.k + candidates[r][d]
    <2>1. x \in Nat /\ y \in Nat /\ x > 0 /\ x <= y BY <1>1, <1>3
    <2>2. score[r] = scale \div y /\ larger[r] = scale \div x BY <1>1, <1>4
    <2> HIDE DEF x, y
    <2> QED BY <1>3, <2>1, <2>2, DivSmaller
  <1>10. Total(score, V) <= Total(larger, W) BY <1>2, <1>5, <1>9, TotalMonotone
  <1>11. Support(candidates, policy, c) <= Support(candidates, policy, d)
    <2> DEFINE A == {SupportOf(r) : r \in W}
               B == {SupportOf(r) : r \in V}
    <2>1. B \subseteq A /\ B # {} /\ A # {} /\ A \in SUBSET Nat /\ B \in SUBSET Nat
      BY <1>2, <1>7
    <2>2. Min(B) \in A /\ \A x \in A : Min(A) <= x
      <3> HIDE DEF A, B
      <3> QED BY <2>1, LeastIn
    <2> QED BY <1>8, <2>2
  <1>12. BestRank(candidates, policy, c) < BestRank(candidates, policy, d)
    <2> DEFINE A == {candidates[r][c] : r \in W}
               B == {candidates[r][d] : r \in V}
    <2>1. B # {} /\ A # {} /\ A \in SUBSET Nat /\ B \in SUBSET Nat BY <1>2, <1>7
    <2>2. Min(B) \in B /\ Min(A) \in Nat /\ \A x \in A : Min(A) <= x
      <3> HIDE DEF A, B
      <3> QED BY <2>1, LeastIn
    <2>3. PICK r \in V : Min(B) = candidates[r][d] BY <2>2
    <2>4. Min(A) <= candidates[r][c] /\ candidates[r][c] < candidates[r][d] BY <1>1, <2>2
    <2>5. candidates[r][c] \in Nat /\ candidates[r][d] \in Nat BY <1>1
    <2>6. Min(A) < Min(B)
      <3> HIDE DEF A, B
      <3> QED BY <2>2, <2>3, <2>4, <2>5
    <2> QED BY <1>8, <2>6
  <1> QED BY <1>2, <1>6, <1>10, <1>11, <1>12 DEF V, W

LEMMA SliceOfFirst ==
  ASSUME NEW S, NEW N \in Nat, NEW seq, IsList(seq, N, S), NEW size \in Nat
  PROVE  Starts(Slice(seq, 0, size), seq, N)
  <1> DEFINE m == Min({Len(seq), 0 + size})
  <1>1. m \in 0..N
    <2>1. {Len(seq), 0 + size} \in SUBSET Nat /\ {Len(seq), 0 + size} # {} BY DEF IsList
    <2>2. m \in Nat /\ \A x \in {Len(seq), 0 + size} : m <= x
      <3> HIDE DEF m
      <3>1. PICK T : T = {Len(seq), 0 + size} OBVIOUS
      <3>2. m = Min(T) BY <3>1 DEF m
      <3>3. Min(T) \in Nat /\ \A x \in T : Min(T) <= x BY <2>1, <3>1, LeastIn
      <3> QED BY <3>1, <3>2, <3>3
    <2> HIDE DEF m
    <2> QED BY <2>2 DEF IsList
  <1>2. Slice(seq, 0, size) = SubSeq(seq, 1, m) BY DEF Slice
  <1> HIDE DEF m
  <1>3. SubSeq(seq, 1, m) = [i \in 1..m |-> seq[i]] BY <1>1 DEF IsList
  <1> QED BY <1>1, <1>2, <1>3 DEF Starts

\* What all retrievers that found a chunk rank lower than another one stays behind it
\* (ReciprocalRankRanker.rank).
THEOREM FusionIsFair ==
  ASSUME NEW index, IsFiniteSet(DOMAIN index.files), DOMAIN index.files \subseteq Nat,
         NEW candidates, AreRanked(index, candidates), NEW policy, IsRankingPolicy(policy),
         NEW limit \in Nat
  PROVE  FusionRespectsDominance(candidates, policy, limit)
  <1> DEFINE chunks == Fusable(candidates, policy)
             key == FusionKey(candidates, policy)
             N == Cardinality(chunks)
             ordered == SortedBy(chunks, key)
             size == Min({limit, policy.final})
             ranking == Ranking(candidates, policy, limit)
  <1>1. chunks \subseteq DOMAIN index.files BY DEF Fusable, Retrieved, AreRanked
  <1>2. IsFiniteSet(chunks) /\ chunks \subseteq Nat /\ N \in Nat
    <2> HIDE DEF chunks
    <2> QED BY <1>1, FS_Subset, FS_CardinalityType
  <1>3. ASSUME NEW c \in chunks PROVE Voters(candidates, policy, c) # {} BY DEF Fusable
  <1>4. \A c \in chunks :
          key[c] = <<-Fused(candidates, policy, c), Support(candidates, policy, c), BestRank(candidates, policy, c), c>>
    BY DEF FusionKey
  <1>5. ASSUME NEW c \in chunks
        PROVE  /\ Fused(candidates, policy, c) \in Nat /\ Support(candidates, policy, c) \in Nat
               /\ BestRank(candidates, policy, c) \in Nat
    <2> DEFINE A == {SupportOf(r) : r \in Voters(candidates, policy, c)}
               B == {candidates[r][c] : r \in Voters(candidates, policy, c)}
    <2>1. A \in SUBSET Nat /\ B \in SUBSET Nat /\ Fused(candidates, policy, c) \in Nat
      BY FusedType
    <2>2. A # {} /\ B # {} BY <1>3
    <2>3. Support(candidates, policy, c) = Min(A) /\ BestRank(candidates, policy, c) = Min(B)
      BY DEF Support, BestRank
    <2> HIDE DEF A, B
    <2> QED BY <2>1, <2>2, <2>3, LeastIn
  <1>6. ranking = Slice(ordered, 0, size) BY DEF Ranking
  <1> HIDE DEF chunks, key, ranking
  <1>7. Keys(key, chunks, 4)
    <2>1. ASSUME NEW c \in chunks PROVE key[c] \in [1..4 -> Int] /\ Len(key[c]) = 4 /\ key[c][4] = c
      <3>1. PICK f, s, b : f = -Fused(candidates, policy, c) /\ s = Support(candidates, policy, c) /\ b = BestRank(candidates, policy, c)
        OBVIOUS
      <3>2. f \in Int /\ s \in Int /\ b \in Int /\ c \in Int BY <1>2, <1>5, <3>1
      <3>3. key[c] = <<f, s, b, c>> BY <1>4, <3>1
      <3> QED BY <3>2, <3>3
    <2>2. ASSUME NEW x \in chunks, NEW y \in chunks, \A i \in 1..4 : key[x][i] = key[y][i] PROVE x = y
      BY <2>1, <2>2
    <2> QED BY <2>1, <2>2 DEF Keys
  <1>8. SortsBy(ordered, chunks, key) BY <1>2, <1>7, SortedIsSorted
  <1>9. size \in Nat
    <2>1. {limit, policy.final} \in SUBSET Nat /\ {limit, policy.final} # {}
      BY DEF IsRankingPolicy
    <2> QED BY <2>1, LeastIn
  <1> HIDE DEF ordered, size
  <1>10. PICK m \in 0..N : DOMAIN ranking = 1..m /\ \A i \in 1..m : ranking[i] = ordered[i]
    <2>1. IsList(ordered, N, chunks) BY <1>8 DEF SortsBy, IsList
    <2> HIDE DEF N
    <2>2. Starts(Slice(ordered, 0, size), ordered, N) BY <1>2, <1>9, <2>1, SliceOfFirst
    <2> QED BY <1>6, <2>2 DEF Starts
  <1>11. ASSUME NEW i \in 1..m, NEW c \in Retrieved(candidates), Better(candidates, c, ranking[i])
         PROVE  \E j \in 1..(i - 1) : ranking[j] = c
    <2> DEFINE d == ranking[i]
    <2>1. i \in 1..N /\ d = ordered[i] /\ d \in chunks
      <3>1. i \in 1..N BY <1>2, <1>10
      <3> QED BY <1>8, <1>10, <3>1 DEF SortsBy
    <2> HIDE DEF d
    <2>2. Voters(candidates, policy, d) # {} BY <1>3, <2>1
    <2>3. /\ Voters(candidates, policy, d) \subseteq Voters(candidates, policy, c)
          /\ Fused(candidates, policy, d) <= Fused(candidates, policy, c)
          /\ Support(candidates, policy, c) <= Support(candidates, policy, d)
          /\ BestRank(candidates, policy, c) < BestRank(candidates, policy, d)
      <3>1. Better(candidates, c, d) BY <1>11 DEF d
      <3> QED BY <2>2, <3>1, BetterComesFirst
    <2>4. c \in chunks BY <2>2, <2>3 DEF chunks, Fusable
    <2>5. Before(key[c], key[d])
      <3>1. PICK f, s, b : f = -Fused(candidates, policy, c) /\ s = Support(candidates, policy, c) /\ b = BestRank(candidates, policy, c)
        OBVIOUS
      <3>2. PICK g, t, a : g = -Fused(candidates, policy, d) /\ t = Support(candidates, policy, d) /\ a = BestRank(candidates, policy, d)
        OBVIOUS
      <3>3. f \in Int /\ s \in Int /\ b \in Int /\ g \in Int /\ t \in Int /\ a \in Int
        BY <1>5, <2>1, <2>4, <3>1, <3>2
      <3>4. f <= g /\ s <= t /\ b < a BY <1>5, <2>1, <2>3, <2>4, <3>1, <3>2
      <3>5. key[c] = <<f, s, b, c>> /\ key[d] = <<g, t, a, d>>
        BY <1>4, <2>1, <2>4, <3>1, <3>2
      <3>6. Before(<<f, s, b, c>>, <<g, t, a, d>>)
        <4>1. CASE f < g BY <3>3, <4>1 DEF Before
        <4>2. CASE f = g /\ s < t BY <4>2 DEF Before
        <4>3. CASE f = g /\ s = t
          <5>1. 3 \in 1..4 /\ \A j \in 1..(3 - 1) : j = 1 \/ j = 2 OBVIOUS
          <5> QED BY <3>4, <4>3, <5>1 DEF Before
        <4> QED BY <3>3, <3>4, <4>1, <4>2, <4>3
      <3> QED BY <3>5, <3>6
    <2>6. PICK j \in 1..N : ordered[j] = c BY <1>8, <2>4 DEF SortsBy
    <2>7. j < i BY <1>8, <2>1, <2>5, <2>6 DEF SortsBy
    <2>8. j \in 1..(i - 1) /\ j \in 1..m BY <1>2, <1>10, <2>1, <2>6, <2>7
    <2> QED BY <1>10, <2>6, <2>8
  <1> QED BY <1>10, <1>11 DEF FusionRespectsDominance, Better, ranking

---------------------------------------------------------------------------
(* The dense index. *)

\* Every chunk is in one of the batches.
LEMMA BatchIsThere ==
  ASSUME NEW chunks, IsChunks(chunks), NEW size \in Nat \ {0}, NEW c \in DOMAIN chunks
  PROVE  Batches(chunks, size) \in Nat /\ BatchOf(chunks, c, size) \in 1..Batches(chunks, size)
  <1> DEFINE D == DOMAIN chunks
             B == {d \in D : d < c}
             n == Cardinality(D)
             b == Cardinality(B)
  <1>1. n \in Nat /\ b \in Nat /\ b < n
    <2>1. IsFiniteSet(D) /\ c \in Nat BY DEF IsChunks
    <2>2. B \subseteq D /\ c \in D /\ c \notin B BY <2>1
    <2> HIDE DEF B, D
    <2>3. IsFiniteSet(B) /\ Cardinality(B) <= Cardinality(D) /\ Cardinality(B) # Cardinality(D)
      BY <2>1, <2>2, FS_Subset
    <2> QED BY <2>1, <2>3, FS_CardinalityType
  <1>2. Batches(chunks, size) = (n + size - 1) \div size /\ BatchOf(chunks, c, size) = (b \div size) + 1
    BY DEF Batches, BatchOf
  <1> HIDE DEF n, b
  <1>3. (b \div size) + 1 = (b + size) \div size /\ b \div size \in Nat BY <1>1
  <1>4. b + size \in Nat /\ n + size - 1 \in Nat /\ b + size <= n + size - 1 BY <1>1
  <1>5. (b + size) \div size <= (n + size - 1) \div size /\ (n + size - 1) \div size \in Nat
    <2>1. PICK x, y : x = b + size /\ y = n + size - 1 OBVIOUS
    <2>2. x \in Nat /\ y \in Nat /\ x <= y BY <1>4, <2>1
    <2>3. x \div size <= y \div size /\ y \div size \in Nat BY <2>2
    <2> QED BY <2>1, <2>3
  <1> QED BY <1>2, <1>3, <1>5

\* An index that is loaded is that of the chunks of its caller, whatever the provider
\* answered while it was built (DenseIndexBuilder.build, DenseIndexLoader.load).
THEOREM LoadedIndexIsCurrent ==
  ASSUME NEW chunks, IsChunks(chunks), NEW size \in Nat \ {0}, NEW provider, NEW version, NEW wanted, NEW model, NEW now
  PROVE  LoadedIsCurrent(BuildDense(version, chunks, size, provider), wanted, model, now, provider,
                         Batches(chunks, size))
  <1> DEFINE index == BuildDense(version, chunks, size, provider)
             calls == Batches(chunks, size)
             answers == {provider[i + 1] : i \in 1..calls}
             built == [version |-> version, model |-> provider[1].model, records |-> Cardinality(DOMAIN chunks),
                       chunks |-> [c \in DOMAIN chunks |->
                         [hash |-> chunks[c], vector |-> provider[BatchOf(chunks, c, size) + 1].model]]]
  <1> SUFFICES ASSUME Loadable(index, wanted, model, now)
               PROVE  /\ DOMAIN index.chunks = DOMAIN now
                      /\ \A c \in DOMAIN now : index.chunks[c].hash = now[c]
                      /\ \A i, j \in 2..(calls + 1) : provider[i].dimension = provider[j].dimension
                      /\ (\A i \in 2..(calls + 1) : provider[i].model = provider[1].model) =>
                           \A c \in DOMAIN now : index.chunks[c].vector = model
    BY DEF LoadedIsCurrent
  <1>1. index # NoIndex /\ index.model = model
        /\ [c \in DOMAIN index.chunks |-> index.chunks[c].hash] = now
    BY DEF Loadable
  <1>2. index = built /\ \A a, b \in answers : a.dimension = b.dimension
    BY <1>1 DEF BuildDense
  <1> HIDE DEF index
  <1>3. DOMAIN index.chunks = DOMAIN now /\ \A c \in DOMAIN now : index.chunks[c].hash = now[c]
    BY <1>1
  <1>4. ASSUME NEW i \in 2..(calls + 1) PROVE provider[i] \in answers
    <2>1. calls \in Nat
      <3>1. PICK n : n = Cardinality(DOMAIN chunks) OBVIOUS
      <3>2. n \in Nat BY <3>1, FS_CardinalityType DEF IsChunks
      <3>3. n + size - 1 \in Nat BY <3>2
      <3>4. (n + size - 1) \div size \in Nat BY <3>3
      <3> QED BY <3>1, <3>4 DEF Batches
    <2>2. i - 1 \in 1..calls /\ (i - 1) + 1 = i
      <3> HIDE DEF calls
      <3> QED BY <2>1
    <2> QED BY <2>2
  <1>5. ASSUME \A i \in 2..(calls + 1) : provider[i].model = provider[1].model, NEW c \in DOMAIN now
        PROVE  index.chunks[c].vector = model
    <2>1. c \in DOMAIN chunks BY <1>2, <1>3
    <2>2. calls \in Nat /\ BatchOf(chunks, c, size) \in 1..calls BY <2>1, BatchIsThere
    <2>3. BatchOf(chunks, c, size) + 1 \in 2..(calls + 1) BY <2>2
    <2>4. index.chunks[c].vector = provider[BatchOf(chunks, c, size) + 1].model
      BY <1>2, <2>1
    <2>5. model = provider[1].model BY <1>1, <1>2
    <2> QED BY <1>5, <2>3, <2>4, <2>5
  <1> QED BY <1>2, <1>3, <1>4, <1>5

---------------------------------------------------------------------------
(* Selection: blocks in their order, one after the other. *)

\* What a key has at its five places.
LEMMA StableKeyParts ==
  ASSUME NEW blocks, IsRanked(blocks), NEW i \in DOMAIN blocks, NEW second \in BOOLEAN
  PROVE  LET key == StableKey(blocks[i], i, second)
         IN /\ key \in [1..5 -> Int] /\ Len(key) = 5 /\ key[5] = i
            /\ key[1] = IF second THEN 1 ELSE 0
  <1>1. PICK a, b : /\ a = (IF blocks[i].coverage THEN 0 ELSE 1)
                    /\ b = (IF blocks[i].named THEN 0 ELSE 1)
    OBVIOUS
  <1>2. PICK c, d : c = (IF second THEN 1 ELSE 0) /\ d = blocks[i].support OBVIOUS
  <1>3. a \in {0, 1} /\ b \in {0, 1} /\ c \in {0, 1} BY <1>1, <1>2
  <1>4. d \in Int /\ i \in Int BY <1>2 DEF IsRanked
  <1>5. StableKey(blocks[i], i, second) = <<c, a, b, d, i>> BY <1>1, <1>2 DEF StableKey
  <1>6. LET key == <<c, a, b, d, i>>
        IN key \in [1..5 -> Int] /\ Len(key) = 5 /\ key[5] = i /\ key[1] = c
    BY <1>3, <1>4
  <1> QED BY <1>2, <1>5, <1>6

LEMMA FilesFirstSorts ==
  ASSUME NEW blocks, IsRanked(blocks), NEW E \in SUBSET DOMAIN blocks
  PROVE  /\ SortsBy(FilesFirst(blocks, E), E, FileKeys(blocks, E))
         /\ Keys(FileKeys(blocks, E), E, 5)
         /\ \A i \in E : FileKeys(blocks, E)[i][1] = IF Again(blocks, E, i) THEN 1 ELSE 0
  <1> DEFINE key == FileKeys(blocks, E)
  <1>1. ASSUME NEW i \in E
        PROVE  key[i] \in [1..5 -> Int] /\ Len(key[i]) = 5 /\ key[i][5] = i
               /\ key[i][1] = IF Again(blocks, E, i) THEN 1 ELSE 0
    <2>1. key[i] = StableKey(blocks[i], i, Again(blocks, E, i)) BY DEF FileKeys
    <2>2. Again(blocks, E, i) \in BOOLEAN BY DEF Again
    <2> HIDE DEF key
    <2> QED BY <2>1, <2>2, StableKeyParts
  <1> HIDE DEF key
  <1>2. Keys(key, E, 5)
    <2>1. ASSUME NEW x \in E, NEW y \in E, \A i \in 1..5 : key[x][i] = key[y][i] PROVE x = y
      <3>1. key[x][5] = key[y][5] BY <2>1
      <3> QED BY <1>1, <3>1
    <2> QED BY <1>1, <2>1 DEF Keys
  <1>3. IsFiniteSet(E) BY FS_Subset DEF IsRanked
  <1>4. FilesFirst(blocks, E) = SortedBy(E, key) BY DEF FilesFirst, FileKeys, key
  <1> QED BY <1>1, <1>2, <1>3, <1>4, SortedIsSorted DEF key

---------------------------------------------------------------------------
(* A selection under way. *)

LEMMA AdmitAllRuns ==
  ASSUME NEW blocks, NEW order, NEW start, NEW policy, NEW g, Runs(blocks, order, start, policy, g)
  PROVE  \E f : Runs(blocks, order, start, policy, f) /\ AdmitAll(blocks, order, start, policy) = f[Len(order)]
  BY DEF AdmitAll, Runs

LEMMA AdmitAdmits ==
  ASSUME NEW blocks, IsRanked(blocks), NEW D, D = DOMAIN blocks, NEW policy, IsSelectionPolicy(policy),
         NEW s \in SelectionStates(D), NEW i \in D
  PROVE  /\ Admit(s, i, blocks[i], policy) \in SelectionStates(D)
         /\ Admits(s, Admit(s, i, blocks[i], policy), i, blocks[i].tokens, policy)
  <1> DEFINE n == Cardinality(s.selected)
             tokens == blocks[i].tokens
             max == policy.maxEvidence
             budget == policy.budget
             t == Admit(s, i, blocks[i], policy)
  <1>1. /\ n \in Nat /\ tokens \in Nat /\ max \in Nat /\ budget \in Nat
        /\ s.used \in Nat /\ s.selected \subseteq D /\ s.rejected \subseteq D \X Reasons
        /\ s = [selected |-> s.selected, rejected |-> s.rejected, used |-> s.used]
    <2>1. s.used \in Nat /\ s.selected \subseteq D /\ s.rejected \subseteq D \X Reasons
          /\ s = [selected |-> s.selected, rejected |-> s.rejected, used |-> s.used]
      BY DEF SelectionStates
    <2>2. IsFiniteSet(s.selected) BY <2>1, FS_Subset DEF IsRanked
    <2> QED BY <2>1, <2>2, FS_CardinalityType DEF IsRanked, IsSelectionPolicy
  <1> SUFFICES t \in SelectionStates(D) /\ Admits(s, t, i, tokens, policy) OBVIOUS
  <1>2. ASSUME NEW reason \in Reasons, t = [s EXCEPT !.rejected = @ \cup {<<i, reason>>}]
        PROVE  t \in SelectionStates(D) /\ Refuses(s, t, i, reason)
    <2>1. t = [selected |-> s.selected, rejected |-> s.rejected \cup {<<i, reason>>}, used |-> s.used]
      BY <1>1, <1>2
    <2>2. <<i, reason>> \in D \X Reasons OBVIOUS
    <2>3. s.rejected \cup {<<i, reason>>} \subseteq D \X Reasons BY <1>1, <2>2
    <2> HIDE DEF t
    <2>4. t \in SelectionStates(D) BY <1>1, <2>1, <2>3 DEF SelectionStates
    <2> QED BY <2>1, <2>4 DEF Refuses
  <1>3. ASSUME n >= max PROVE t \in SelectionStates(D) /\ Refuses(s, t, i, "evidence_limit_reached")
    <2>1. t = [s EXCEPT !.rejected = @ \cup {<<i, "evidence_limit_reached">>}]
      BY <1>3 DEF Admit
    <2> HIDE DEF t
    <2> QED BY <1>2, <2>1 DEF Reasons
  <1>4. ASSUME n < max, tokens > budget
        PROVE  t \in SelectionStates(D) /\ Refuses(s, t, i, "block_exceeds_token_budget")
    <2>1. t = [s EXCEPT !.rejected = @ \cup {<<i, "block_exceeds_token_budget">>}]
      BY <1>1, <1>4 DEF Admit
    <2> HIDE DEF t
    <2> QED BY <1>2, <2>1 DEF Reasons
  <1>5. ASSUME n < max, tokens <= budget, s.used + tokens > budget
        PROVE  t \in SelectionStates(D) /\ Refuses(s, t, i, "token_budget_exceeded")
    <2>1. t = [s EXCEPT !.rejected = @ \cup {<<i, "token_budget_exceeded">>}]
      BY <1>1, <1>5 DEF Admit
    <2> HIDE DEF t
    <2> QED BY <1>2, <2>1 DEF Reasons
  <1>6. ASSUME n < max, tokens <= budget, s.used + tokens <= budget
        PROVE  t \in SelectionStates(D) /\ Takes(s, t, i, tokens)
    <2>1. t = [s EXCEPT !.selected = @ \cup {i}, !.used = @ + blocks[i].tokens]
      BY <1>1, <1>6 DEF Admit
    <2>2. t = [selected |-> s.selected \cup {i}, rejected |-> s.rejected, used |-> s.used + tokens]
      BY <1>1, <2>1
    <2>3. s.selected \cup {i} \subseteq D /\ s.used + tokens \in Nat BY <1>1
    <2> HIDE DEF t, tokens
    <2>4. t \in SelectionStates(D) BY <1>1, <2>2, <2>3 DEF SelectionStates
    <2> QED BY <2>2, <2>4 DEF Takes
  <1> HIDE DEF t, tokens
  <1> QED BY <1>1, <1>3, <1>4, <1>5, <1>6 DEF Admits

\* Admission goes through the blocks one after the other.
LEMMA RunExists ==
  ASSUME NEW blocks, IsRanked(blocks), NEW policy, IsSelectionPolicy(policy),
         NEW D, D = DOMAIN blocks, NEW N \in Nat, NEW order, IsList(order, N, D), NEW start \in SelectionStates(D)
  PROVE  \E f : IsRun(f, blocks, order, N, start, policy, D) /\ AdmitAll(blocks, order, start, policy) = f[N]
  <1> DEFINE st == [p \in (1..N) \X SelectionStates(D) |-> Admit(p[2], order[p[1]], blocks[order[p[1]]], policy)]
  <1>0. Len(order) = N /\ \A n \in 1..N : order[n] \in D BY DEF IsList
  <1>1. ASSUME NEW s \in SelectionStates(D), NEW i \in D
        PROVE  /\ Admit(s, i, blocks[i], policy) \in SelectionStates(D)
               /\ Admits(s, Admit(s, i, blocks[i], policy), i, blocks[i].tokens, policy)
    BY AdmitAdmits
  <1>2. st \in [(1..N) \X SelectionStates(D) -> SelectionStates(D)] BY <1>0, <1>1
  <1>3. PICK g \in [0..N -> SelectionStates(D)] : Folds(start, st, N, g)
    <2> HIDE DEF st
    <2> QED BY <1>2, FoldExists
  <1>4. Runs(blocks, order, start, policy, g)
    <2>1. g = [n \in 0..N |-> IF n = 0 THEN start ELSE st[<<n, g[n - 1]>>]]
      BY <1>3 DEF Folds
    <2>2. ASSUME NEW n \in 0..N, n # 0
          PROVE  st[<<n, g[n - 1]>>] = Admit(g[n - 1], order[n], blocks[order[n]], policy)
      BY <1>3, <2>2
    <2> HIDE DEF st
    <2>3. ASSUME NEW n \in 0..N
          PROVE  (IF n = 0 THEN start ELSE st[<<n, g[n - 1]>>])
                 = IF n = 0 THEN start ELSE Admit(g[n - 1], order[n], blocks[order[n]], policy)
      BY <2>2
    <2>4. g = [n \in 0..N |-> IF n = 0 THEN start ELSE Admit(g[n - 1], order[n], blocks[order[n]], policy)]
      BY <2>1, <2>3
    <2> QED BY <1>0, <2>4 DEF Runs
  <1>5. PICK f : Runs(blocks, order, start, policy, f) /\ AdmitAll(blocks, order, start, policy) = f[Len(order)]
    BY <1>4, AdmitAllRuns
  <1> DEFINE T == {n \in Nat : n <= N => f[n] \in SelectionStates(D)}
  <1>6. ASSUME NEW n \in 0..N
        PROVE  f[n] = IF n = 0 THEN start ELSE Admit(f[n - 1], order[n], blocks[order[n]], policy)
    BY <1>0, <1>5 DEF Runs
  <1>7. 0 \in T BY <1>6
  <1>8. ASSUME NEW n \in Nat, n \in T PROVE n + 1 \in T
    <2> SUFFICES ASSUME n + 1 <= N PROVE f[n + 1] \in SelectionStates(D) OBVIOUS
    <2>1. f[n] \in SelectionStates(D) /\ order[n + 1] \in D BY <1>0, <1>8
    <2>2. n + 1 \in 0..N /\ (n + 1) - 1 = n /\ n + 1 # 0 OBVIOUS
    <2>3. f[n + 1] = Admit(f[n], order[n + 1], blocks[order[n + 1]], policy) BY <1>6, <2>2
    <2> QED BY <1>1, <2>1, <2>3
  <1>9. \A n \in Nat : n \in T
    <2> HIDE DEF T
    <2> QED BY <1>7, <1>8, SetInduction
  <1>10. \A n \in 0..N : f[n] \in SelectionStates(D) BY <1>9
  <1>11. ASSUME NEW n \in 1..N PROVE Admits(f[n - 1], f[n], order[n], blocks[order[n]].tokens, policy)
    <2>1. n - 1 \in 0..N /\ n \in 0..N /\ n # 0 /\ order[n] \in D BY <1>0
    <2>2. f[n - 1] \in SelectionStates(D) /\ f[n] = Admit(f[n - 1], order[n], blocks[order[n]], policy)
      BY <1>6, <1>10, <2>1
    <2> QED BY <1>1, <2>1, <2>2
  <1>12. f[0] = start BY <1>6
  <1>13. IsRun(f, blocks, order, N, start, policy, D) BY <1>10, <1>11, <1>12 DEF IsRun
  <1> QED BY <1>0, <1>5, <1>13

\* A block that is refused joins the others that are.
LEMMA RefusalAccounts ==
  ASSUME NEW blocks, IsRanked(blocks), NEW D, D = DOMAIN blocks, NEW policy, IsSelectionPolicy(policy),
         NEW s, NEW t, NEW done, AccountsFor(s, blocks, D, done, policy), NEW i \in D, i \notin done,
         NEW reason \in Reasons, Refuses(s, t, i, reason),
         reason = "token_budget_exceeded" => s.used + blocks[i].tokens > policy.budget
  PROVE  AccountsFor(t, blocks, D, done \cup {i}, policy)
  <1> DEFINE tokens == [j \in D |-> blocks[j].tokens]
             new == <<i, reason>>
  <1>1. PICK sel, rej, used : sel = s.selected /\ rej = s.rejected /\ used = s.used
    OBVIOUS
  <1>2. t.selected = sel /\ t.used = used /\ t.rejected = rej \cup {new}
    BY <1>1 DEF Refuses
  <1>3. /\ sel \subseteq D /\ rej \subseteq D \X Reasons
        /\ sel \cup RefusedRanks(rej) = done /\ sel \cap RefusedRanks(rej) = {}
        /\ OneReason(rej)
        /\ used = Total(tokens, sel) /\ used \in Nat /\ used <= policy.budget
        /\ Cardinality(sel) <= policy.maxEvidence
        /\ \A x \in rej : x[2] = "token_budget_exceeded" => used + tokens[x[1]] > policy.budget
    BY <1>1 DEF AccountsFor
  <1>4. new \in D \X Reasons /\ new[1] = i /\ new[2] = reason OBVIOUS
  <1>5. RefusedRanks(rej \cup {new}) = RefusedRanks(rej) \cup {i} BY <1>4 DEF RefusedRanks
  <1>6. \A x \in rej : x[1] \in done BY <1>3 DEF RefusedRanks
  <1>7. OneReason(rej \cup {new}) BY <1>3, <1>4, <1>6 DEF OneReason
  <1>8. ASSUME NEW x \in rej \cup {new}, x[2] = "token_budget_exceeded"
        PROVE  used + tokens[x[1]] > policy.budget
    <2>1. CASE x \in rej BY <1>3, <1>8, <2>1
    <2>2. CASE x = new BY <1>1, <1>4, <1>8, <2>2
    <2> QED BY <2>1, <2>2
  <1>9. sel \cup RefusedRanks(rej \cup {new}) = done \cup {i} /\ sel \cap RefusedRanks(rej \cup {new}) = {}
    BY <1>3, <1>5
  <1>10. rej \cup {new} \subseteq D \X Reasons BY <1>3, <1>4
  <1> HIDE DEF new
  <1> QED BY <1>2, <1>3, <1>7, <1>8, <1>9, <1>10 DEF AccountsFor

\* A block that is taken adds its tokens, which only makes it harder for others to fit.
LEMMA TakingAccounts ==
  ASSUME NEW blocks, IsRanked(blocks), NEW D, D = DOMAIN blocks, NEW policy, IsSelectionPolicy(policy),
         NEW s, NEW t, NEW done, AccountsFor(s, blocks, D, done, policy), NEW i \in D, i \notin done,
         Takes(s, t, i, blocks[i].tokens), Cardinality(s.selected) < policy.maxEvidence,
         s.used + blocks[i].tokens <= policy.budget
  PROVE  AccountsFor(t, blocks, D, done \cup {i}, policy)
  <1> DEFINE tokens == [j \in D |-> blocks[j].tokens]
  <1>1. PICK sel, rej, used : sel = s.selected /\ rej = s.rejected /\ used = s.used
    OBVIOUS
  <1>2. PICK n : n = blocks[i].tokens OBVIOUS
  <1>3. t.selected = sel \cup {i} /\ t.used = used + n /\ t.rejected = rej
    BY <1>1, <1>2 DEF Takes
  <1>4. /\ sel \subseteq D /\ rej \subseteq D \X Reasons
        /\ sel \cup RefusedRanks(rej) = done /\ sel \cap RefusedRanks(rej) = {}
        /\ OneReason(rej)
        /\ used = Total(tokens, sel) /\ used \in Nat /\ used <= policy.budget
        /\ \A x \in rej : x[2] = "token_budget_exceeded" => used + tokens[x[1]] > policy.budget
    BY <1>1 DEF AccountsFor
  <1>5. n \in Nat /\ tokens[i] = n /\ IsFiniteSet(D) /\ (\A j \in D : tokens[j] \in Nat) /\ policy.budget \in Nat
        /\ policy.maxEvidence \in Nat
    BY <1>2 DEF IsRanked, IsSelectionPolicy
  <1> HIDE DEF tokens
  <1>6. IsFiniteSet(sel) /\ Cardinality(sel) \in Nat /\ i \notin sel /\ Weighted(tokens, sel)
    BY <1>4, <1>5, FS_Subset, FS_CardinalityType DEF Weighted
  <1>7. Total(tokens, sel \cup {i}) = used + n
    <2>1. Total(tokens, sel \cup {i}) = Total(tokens, sel) + tokens[i]
      BY <1>5, <1>6, TotalAdd
    <2> QED BY <1>4, <1>5, <2>1
  <1>8. Cardinality(sel \cup {i}) = Cardinality(sel) + 1 BY <1>6, FS_AddElement
  <1>9. Cardinality(sel \cup {i}) <= policy.maxEvidence
    <2>1. Cardinality(sel) < policy.maxEvidence BY <1>1
    <2> QED BY <1>5, <1>6, <1>8, <2>1
  <1>10. used + n \in Nat /\ used + n <= policy.budget BY <1>1, <1>2, <1>4, <1>5
  <1>11. ASSUME NEW x \in rej, x[2] = "token_budget_exceeded" PROVE (used + n) + tokens[x[1]] > policy.budget
    <2>1. used + tokens[x[1]] > policy.budget BY <1>4, <1>11
    <2>2. tokens[x[1]] \in Nat BY <1>4, <1>5
    <2> QED BY <1>4, <1>5, <2>1, <2>2
  <1>12. sel \cup {i} \subseteq D /\ (sel \cup {i}) \cup RefusedRanks(rej) = done \cup {i} /\ (sel \cup {i}) \cap RefusedRanks(rej) = {}
    BY <1>4
  <1> QED BY <1>3, <1>4, <1>7, <1>9, <1>10, <1>11, <1>12 DEF AccountsFor, tokens

\* Whatever the order, after all of it a selection accounts for all of it.
LEMMA RunAccounts ==
  ASSUME NEW blocks, IsRanked(blocks), NEW D, D = DOMAIN blocks, NEW policy, IsSelectionPolicy(policy),
         NEW N \in Nat, NEW order, IsList(order, N, D),
         \A j, k \in 1..N : order[j] = order[k] => j = k,
         NEW start, NEW out, \A k \in 1..N : order[k] \notin out, AccountsFor(start, blocks, D, out, policy),
         NEW f, IsRun(f, blocks, order, N, start, policy, D)
  PROVE  \A n \in 0..N : AccountsFor(f[n], blocks, D, out \cup FirstOf(order, n), policy)
  <1> DEFINE T == {n \in Nat : n <= N => AccountsFor(f[n], blocks, D, out \cup FirstOf(order, n), policy)}
  <1>1. 0 \in T
    <2>1. out \cup FirstOf(order, 0) = out BY DEF FirstOf
    <2> QED BY <2>1 DEF IsRun
  <1>2. ASSUME NEW n \in Nat, n \in T PROVE n + 1 \in T
    <2> SUFFICES ASSUME n + 1 <= N PROVE AccountsFor(f[n + 1], blocks, D, out \cup FirstOf(order, n + 1), policy)
      OBVIOUS
    <2> DEFINE done == out \cup FirstOf(order, n)
               i == order[n + 1]
               s == f[n]
               t == f[n + 1]
    <2>1. AccountsFor(s, blocks, D, done, policy) BY <1>2
    <2>2. i \in D /\ i \notin done /\ done \cup {i} = out \cup FirstOf(order, n + 1)
      BY DEF FirstOf, IsList
    <2>3. Admits(s, t, i, blocks[i].tokens, policy)
      <3>1. n + 1 \in 1..N /\ (n + 1) - 1 = n OBVIOUS
      <3> QED BY <3>1 DEF IsRun
    <2> HIDE DEF done, i, s, t
    <2>4. AccountsFor(t, blocks, D, done \cup {i}, policy)
      <3>1. CASE Refuses(s, t, i, "evidence_limit_reached")
        BY <2>1, <2>2, <3>1, RefusalAccounts DEF Reasons
      <3>2. CASE Refuses(s, t, i, "block_exceeds_token_budget")
        BY <2>1, <2>2, <3>2, RefusalAccounts DEF Reasons
      <3>3. CASE s.used + blocks[i].tokens > policy.budget /\ Refuses(s, t, i, "token_budget_exceeded")
        BY <2>1, <2>2, <3>3, RefusalAccounts DEF Reasons
      <3>4. CASE /\ Cardinality(s.selected) < policy.maxEvidence /\ s.used + blocks[i].tokens <= policy.budget
                 /\ Takes(s, t, i, blocks[i].tokens)
        BY <2>1, <2>2, <3>4, TakingAccounts
      <3> QED BY <2>3, <3>1, <3>2, <3>3, <3>4 DEF Admits
    <2> QED BY <2>2, <2>4 DEF t
  <1>3. \A n \in Nat : n \in T
    <2> HIDE DEF T
    <2> QED BY <1>1, <1>2, SetInduction
  <1> QED BY <1>3

\* What one function gives to different elements differs: as many images as elements.
LEMMA ImagesCount ==
  ASSUME NEW S, IsFiniteSet(S), NEW g, \A x, y \in S : g[x] = g[y] => x = y
  PROVE  IsFiniteSet(ImagesOf(g, S)) /\ Cardinality(ImagesOf(g, S)) = Cardinality(S)
  <1> DEFINE T == ImagesOf(g, S)
             h == [x \in S |-> g[x]]
  <1>1. h \in [S -> T] /\ (\A x, y \in S : h[x] = h[y] => x = y) /\ \A z \in T : \E x \in S : h[x] = z
    BY DEF ImagesOf
  <1> HIDE DEF h, T
  <1>2. ExistsBijection(S, T)
    BY <1>1 DEF ExistsBijection, Bijection, Injection, IsInjective, Surjection
  <1>3. IsFiniteSet(T) /\ Cardinality(T) = Cardinality(S) BY <1>2, FS_Bijection
  <1> QED BY <1>3 DEF T

LEMMA FirstOfCounts ==
  ASSUME NEW D, NEW N \in Nat, NEW order, IsList(order, N, D),
         \A j, k \in 1..N : order[j] = order[k] => j = k, NEW n \in 0..N
  PROVE  IsFiniteSet(FirstOf(order, n)) /\ Cardinality(FirstOf(order, n)) = n
  <1>1. IsFiniteSet(1..n) /\ Cardinality(1..n) = n BY FS_Interval
  <1>2. \A j, k \in 1..n : order[j] = order[k] => j = k OBVIOUS
  <1>3. FirstOf(order, n) = ImagesOf(order, 1..n) BY DEF FirstOf, ImagesOf
  <1> QED BY <1>1, <1>2, <1>3, ImagesCount

\* A set of places that has with each one all before it.
LEMMA BeginningIsInterval ==
  ASSUME NEW N \in Nat, NEW P \in SUBSET (1..N), \A k \in P : \A j \in 1..N : j < k => j \in P
  PROVE  Cardinality(P) \in 0..N /\ P = 1..Cardinality(P)
  <1> DEFINE Q == {n \in Nat : n + 1 \notin P}
  <1>1. N \in Q OBVIOUS
  <1>2. PICK m \in Q : \A n \in Q : m <= n
    <2> HIDE DEF Q
    <2>1. Q \subseteq Nat BY DEF Q
    <2> QED BY <1>1, <2>1, LeastOfNonempty
  <1>3. m \in Nat /\ m + 1 \notin P /\ m <= N BY <1>1, <1>2
  <1>4. ASSUME NEW j \in 1..m PROVE j \in P
    <2>1. j - 1 \in Nat /\ ~(m <= j - 1) /\ (j - 1) + 1 = j BY <1>3
    <2>2. j - 1 \notin Q BY <1>2, <2>1
    <2> QED BY <2>1, <2>2
  <1>5. ASSUME NEW k \in P PROVE k \in 1..m
    <2> SUFFICES ASSUME k > m PROVE FALSE BY <1>3
    <2>1. m + 1 \in 1..N /\ (m + 1 < k \/ m + 1 = k) BY <1>3
    <2> QED BY <1>3, <2>1
  <1>6. P = 1..m BY <1>4, <1>5
  <1>7. Cardinality(1..m) = m BY <1>3, FS_Interval
  <1> QED BY <1>3, <1>6, <1>7

\* While tokens are no limit, every block is taken until there are as many as allowed.
LEMMA AllAreTaken ==
  ASSUME NEW blocks, IsRanked(blocks), NEW D, D = DOMAIN blocks, NEW policy, IsSelectionPolicy(policy),
         NEW N \in Nat, NEW order, IsList(order, N, D),
         \A j, k \in 1..N : order[j] = order[k] => j = k,
         NEW start, start.selected = {}, NEW f, IsRun(f, blocks, order, N, start, policy, D),
         NEW tokens, tokens = TokensOf(blocks, D), policy.budget >= Total(tokens, D),
         CountsTokens(f, N, tokens)
  PROVE  TakesAll(f, order, N, policy.maxEvidence)
  <1> DEFINE max == policy.maxEvidence
             taken(n) == UpTo(order, n, max)
             T == {n \in Nat : n <= N => f[n].selected = taken(n)}
  <1> USE DEF UpTo
  <1>0. max \in Nat /\ policy.budget \in Nat /\ IsFiniteSet(D) /\ \A i \in D : tokens[i] \in Nat
    BY DEF IsSelectionPolicy, IsRanked, TokensOf
  <1>1. 0 \in T
    <2>1. FirstOf(order, 0) = {} BY DEF FirstOf
    <2>2. f[0].selected = {} BY DEF IsRun
    <2>3. taken(0) = FirstOf(order, 0) BY <1>0
    <2> HIDE DEF taken
    <2> QED BY <2>1, <2>2, <2>3
  <1>2. ASSUME NEW n \in Nat, n \in T PROVE n + 1 \in T
    <2> SUFFICES ASSUME n + 1 <= N PROVE f[n + 1].selected = taken(n + 1) OBVIOUS
    <2> DEFINE i == order[n + 1]
               s == f[n]
               t == f[n + 1]
    <2>1. s.selected = taken(n) BY <1>2
    <2>2. i \in D /\ blocks[i].tokens = tokens[i] BY DEF IsList, TokensOf
    <2>3. Admits(s, t, i, tokens[i], policy)
      <3>1. n + 1 \in 1..N /\ (n + 1) - 1 = n OBVIOUS
      <3> QED BY <2>2, <3>1 DEF IsRun
    <2>4. CASE n >= max
      <3>1. s.selected = FirstOf(order, max) /\ Cardinality(s.selected) = max
        <4>1. s.selected = FirstOf(order, max) BY <1>0, <2>1, <2>4
        <4>2. max \in 0..N BY <1>0, <2>4
        <4> QED BY <4>1, <4>2, FirstOfCounts
      <3> HIDE DEF i, s, t
      <3>2. t.selected = s.selected BY <1>0, <2>3, <3>1 DEF Admits, Refuses
      <3>3. taken(n + 1) = FirstOf(order, max) BY <1>0, <2>4
      <3> QED BY <3>1, <3>2, <3>3 DEF t
    <2>5. CASE n < max
      <3>1. s.selected = FirstOf(order, n) /\ Cardinality(s.selected) = n /\ IsFiniteSet(s.selected)
        BY <1>0, <2>1, <2>5, FirstOfCounts
      <3>2. i \notin s.selected /\ s.selected \subseteq D BY <3>1 DEF FirstOf, IsList
      <3>3. s.used = Total(tokens, s.selected)
        <4>1. n \in 0..N OBVIOUS
        <4> QED BY <4>1 DEF CountsTokens
      <3> HIDE DEF i, s, t
      <3>4. s.used + tokens[i] <= policy.budget /\ s.used \in Nat
        <4>1. Weighted(tokens, D) /\ Weighted(tokens, s.selected)
          BY <1>0, <3>2, WeightedPart DEF Weighted
        <4>2. Total(tokens, s.selected \cup {i}) = Total(tokens, s.selected) + tokens[i]
          BY <1>0, <2>2, <3>2, <4>1, TotalAdd
        <4>3. PICK Y : Y = s.selected \cup {i} OBVIOUS
        <4>4. Y \in SUBSET D BY <2>2, <3>2, <4>3
        <4>5. Weighted(tokens, Y) BY <4>1, <4>4, WeightedPart
        <4>6. \A x \in Y : tokens[x] <= tokens[x] BY <1>0, <4>4
        <4>7. Total(tokens, Y) <= Total(tokens, D)
          BY <4>1, <4>4, <4>5, <4>6, TotalMonotone
        <4>8. Total(tokens, D) \in Nat /\ Total(tokens, s.selected) \in Nat
          BY <4>1, TotalType
        <4> QED BY <1>0, <2>2, <3>3, <4>2, <4>3, <4>7, <4>8
      <3>5. Takes(s, t, i, tokens[i])
        <4>1. tokens[i] \in Nat BY <1>0, <2>2
        <4> QED BY <1>0, <2>3, <2>5, <3>1, <3>4, <4>1 DEF Admits
      <3>6. t.selected = FirstOf(order, n) \cup {i} BY <3>1, <3>5 DEF Takes
      <3>7. FirstOf(order, n + 1) = FirstOf(order, n) \cup {i} BY DEF FirstOf, i
      <3>8. taken(n + 1) = FirstOf(order, n + 1) BY <1>0, <2>5
      <3> QED BY <3>6, <3>7, <3>8 DEF t
    <2> QED BY <1>0, <2>4, <2>5
  <1>3. \A n \in Nat : n \in T
    <2> HIDE DEF T
    <2> QED BY <1>1, <1>2, SetInduction
  <1> QED BY <1>3 DEF TakesAll

\* Each file has one of them.
LEMMA NewIsOnePerFile ==
  ASSUME NEW blocks, IsRanked(blocks), NEW E \in SUBSET DOMAIN blocks
  PROVE  /\ FilesOf(blocks, New(blocks, E)) = FilesOf(blocks, E)
         /\ \A i, j \in New(blocks, E) : blocks[i].file = blocks[j].file => i = j
  <1> DEFINE key == [i \in E |-> StableKey(blocks[i], i, FALSE)]
             R == SortOrder(E, key)
             s == SortedBy(E, key)
             N == Cardinality(E)
  <1>1. Keys(key, E, 5)
    <2>1. ASSUME NEW i \in E PROVE key[i] \in [1..5 -> Int] /\ Len(key[i]) = 5 /\ key[i][5] = i
      <3>1. PICK no \in BOOLEAN : no = FALSE OBVIOUS
      <3>2. key[i] = StableKey(blocks[i], i, no) BY <3>1
      <3> HIDE DEF key
      <3> QED BY <3>2, StableKeyParts
    <2> HIDE DEF key
    <2>2. ASSUME NEW x \in E, NEW y \in E, \A i \in 1..5 : key[x][i] = key[y][i] PROVE x = y
      BY <2>1, <2>2
    <2> QED BY <2>1, <2>2 DEF Keys
  <1>2. ASSUME NEW i \in E
        PROVE  Again(blocks, E, i) <=> \E j \in E : blocks[j].file = blocks[i].file /\ Before(key[j], key[i])
    <2>1. \A j \in E : key[j] = StableKey(blocks[j], j, FALSE) OBVIOUS
    <2> HIDE DEF key
    <2> QED BY <2>1 DEF Again
  <1>3. IsFiniteSet(E) /\ N \in Nat
    <2>1. IsFiniteSet(E) BY FS_Subset DEF IsRanked
    <2> QED BY <2>1, FS_CardinalityType
  <1> HIDE DEF key
  <1>4. SortsBy(s, E, key) BY <1>1, <1>3, SortedIsSorted
  <1>5. Orders(R, E) BY <1>1, TuplesAreOrdered
  <1>6. ASSUME NEW i \in E PROVE \E j \in New(blocks, E) : blocks[j].file = blocks[i].file
    <2> DEFINE K == {k \in 1..N : blocks[s[k]].file = blocks[i].file}
    <2>1. \E k \in 1..N : s[k] = i BY <1>4 DEF SortsBy
    <2>2. K \in SUBSET Nat /\ K # {} BY <1>3, <2>1
    <2>3. PICK k \in K : \A n \in K : k <= n
      <3> HIDE DEF K
      <3> QED BY <2>2, LeastOfNonempty
    <2>4. k \in 1..N /\ blocks[s[k]].file = blocks[i].file OBVIOUS
    <2>5. s[k] \in E BY <1>4, <2>4 DEF SortsBy
    <2>6. ASSUME NEW j \in E, blocks[j].file = blocks[s[k]].file, Before(key[j], key[s[k]]) PROVE FALSE
      <3>1. PICK n \in 1..N : s[n] = j BY <1>4 DEF SortsBy
      <3>2. n < k BY <1>4, <2>4, <2>6, <3>1 DEF SortsBy
      <3>3. n \in K BY <2>4, <2>6, <3>1
      <3> QED BY <1>3, <2>3, <2>4, <3>2, <3>3
    <2> HIDE DEF s
    <2> QED BY <1>2, <2>4, <2>5, <2>6 DEF New
  <1>7. ASSUME NEW i \in New(blocks, E), NEW j \in New(blocks, E), blocks[i].file = blocks[j].file PROVE i = j
    <2>1. i \in E /\ j \in E /\ ~Again(blocks, E, i) /\ ~Again(blocks, E, j) BY DEF New
    <2>2. ~Before(key[i], key[j]) /\ ~Before(key[j], key[i]) BY <1>2, <1>7, <2>1
    <2>3. <<i, j>> \notin R /\ <<j, i>> \notin R BY <2>2 DEF SortOrder
    <2> HIDE DEF R
    <2> QED BY <1>5, <2>1, <2>3 DEF Orders, TotalOn
  <1>8. New(blocks, E) \subseteq E BY DEF New
  <1> QED BY <1>6, <1>7, <1>8 DEF FilesOf

\* They come first.
LEMMA NewComesFirst ==
  ASSUME NEW blocks, IsRanked(blocks), NEW E \in SUBSET DOMAIN blocks,
         NEW N, N = Cardinality(E), NEW order, order = FilesFirst(blocks, E)
  PROVE  /\ N \in Nat /\ IsList(order, N, E) /\ FirstOf(order, N) = E
         /\ \A j, k \in 1..N : order[j] = order[k] => j = k
         /\ Cardinality(New(blocks, E)) \in 0..N
         /\ FirstOf(order, Cardinality(New(blocks, E))) = New(blocks, E)
  <1> DEFINE key == FileKeys(blocks, E)
             P == {k \in 1..N : order[k] \in New(blocks, E)}
  <1>1. IsFiniteSet(E) /\ N \in Nat
    <2>1. IsFiniteSet(E) BY FS_Subset DEF IsRanked
    <2> QED BY <2>1, FS_CardinalityType
  <1>2. /\ SortsBy(order, E, key) /\ Keys(key, E, 5)
        /\ \A i \in E : key[i][1] = IF Again(blocks, E, i) THEN 1 ELSE 0
    BY FilesFirstSorts
  <1> HIDE DEF key
  <1>3. /\ order \in [1..N -> E] /\ Len(order) = N
        /\ \A x \in E : \E i \in 1..N : order[i] = x
        /\ \A i, j \in 1..N : i < j <=> Before(key[order[i]], key[order[j]])
    BY <1>2 DEF SortsBy
  <1>4. ASSUME NEW j \in 1..N, NEW k \in 1..N, order[j] = order[k] PROVE j = k
    <2>1. ~Before(key[order[j]], key[order[j]]) BY <1>1, <1>3
    <2>2. ~(j < k) /\ ~(k < j) BY <1>3, <1>4, <2>1
    <2> QED BY <1>1, <2>2
  <1>5. ASSUME NEW k \in P, NEW j \in 1..N, j < k PROVE j \in P
    <2>1. k \in 1..N /\ order[k] \in E /\ ~Again(blocks, E, order[k]) /\ order[j] \in E
      BY <1>3 DEF New
    <2>2. key[order[k]][1] = 0 BY <1>2, <2>1
    <2>3. Before(key[order[j]], key[order[k]]) BY <1>3, <1>5, <2>1
    <2>4. Len(key[order[j]]) = 5 BY <1>2, <2>1 DEF Keys
    <2>5. PICK n \in 1..5 : /\ key[order[j]][n] < key[order[k]][n]
                            /\ \A m \in 1..(n - 1) : key[order[j]][m] = key[order[k]][m]
      BY <2>3, <2>4 DEF Before
    <2>6. key[order[j]][1] # 1
      <3>1. CASE n = 1 BY <2>2, <2>5, <3>1
      <3>2. CASE n # 1
        <4>1. 1 \in 1..(n - 1) BY <3>2
        <4> QED BY <2>2, <2>5, <4>1
      <3> QED BY <3>1, <3>2
    <2>7. ~Again(blocks, E, order[j]) BY <1>2, <2>1, <2>6
    <2> QED BY <2>1, <2>7 DEF New
  <1>6. P \in SUBSET (1..N) /\ IsFiniteSet(P)
    <2>1. IsFiniteSet(1..N) /\ P \subseteq 1..N BY <1>1, FS_Interval
    <2> HIDE DEF P
    <2> QED BY <2>1, FS_Subset
  <1>7. ImagesOf(order, P) = New(blocks, E) BY <1>3 DEF New, ImagesOf
  <1> HIDE DEF P
  <1>8. Cardinality(New(blocks, E)) = Cardinality(P)
    <2>1. \A x, y \in P : order[x] = order[y] => x = y BY <1>4, <1>6
    <2>2. Cardinality(ImagesOf(order, P)) = Cardinality(P) BY <1>6, <2>1, ImagesCount
    <2> QED BY <1>7, <2>2
  <1>9. Cardinality(P) \in 0..N /\ P = 1..Cardinality(P)
    BY <1>1, <1>5, <1>6, BeginningIsInterval
  <1>10. FirstOf(order, Cardinality(P)) = New(blocks, E)
    BY <1>7, <1>9 DEF FirstOf, ImagesOf
  <1>11. FirstOf(order, N) = E BY <1>3 DEF FirstOf
  <1>12. IsList(order, N, E) BY <1>3 DEF IsList
  <1> QED BY <1>1, <1>4, <1>8, <1>9, <1>10, <1>11, <1>12

\* When tokens are no limit, there are as many files as the number of blocks allows.
LEMMA FilesAreMany ==
  ASSUME NEW blocks, IsRanked(blocks), NEW E \in SUBSET DOMAIN blocks, NEW max \in Nat,
         NEW N, N = Cardinality(E), NEW order, order = FilesFirst(blocks, E),
         NEW sel, sel = IF N <= max THEN FirstOf(order, N) ELSE FirstOf(order, max)
  PROVE  Cardinality(FilesOf(blocks, sel)) = Min({max, Cardinality(FilesOf(blocks, E))})
  <1> DEFINE F == Cardinality(New(blocks, E))
             M == IF N <= max THEN N ELSE max
             new == New(blocks, E)
  <1>1. /\ N \in Nat /\ IsList(order, N, E) /\ FirstOf(order, N) = E
        /\ \A j, k \in 1..N : order[j] = order[k] => j = k
        /\ F \in 0..N /\ FirstOf(order, F) = new
    BY NewComesFirst
  <1>2. /\ FilesOf(blocks, new) = FilesOf(blocks, E)
        /\ \A i, j \in new : blocks[i].file = blocks[j].file => i = j
    BY NewIsOnePerFile
  <1>3. IsFiniteSet(new) /\ new \subseteq E
    <2>1. new \subseteq DOMAIN blocks /\ new \subseteq E /\ IsFiniteSet(DOMAIN blocks)
      BY DEF New, IsRanked
    <2> QED BY <2>1, FS_Subset
  <1> HIDE DEF new
  <1>4. ASSUME NEW S \in SUBSET new PROVE Cardinality(FilesOf(blocks, S)) = Cardinality(S)
    <2> DEFINE file == [i \in S |-> blocks[i].file]
    <2>1. IsFiniteSet(S) BY <1>3, FS_Subset
    <2>2. \A x, y \in S : file[x] = file[y] => x = y BY <1>2
    <2>3. ImagesOf(file, S) = FilesOf(blocks, S) BY DEF FilesOf, ImagesOf
    <2> HIDE DEF file
    <2>4. Cardinality(ImagesOf(file, S)) = Cardinality(S) BY <2>1, <2>2, ImagesCount
    <2> QED BY <2>3, <2>4
  <1>5. Cardinality(FilesOf(blocks, E)) = F BY <1>2, <1>4 DEF new
  <1>6. M \in 0..N /\ sel = FirstOf(order, M) BY <1>1
  <1>7. ASSUME NEW a \in Nat, NEW b \in Nat PROVE Min({a, b}) = IF a <= b THEN a ELSE b
    <2>1. PICK T : T = {a, b} OBVIOUS
    <2>2. Min(T) \in T /\ \A x \in T : Min(T) <= x BY <2>1, LeastIn
    <2> QED BY <2>1, <2>2
  <1>8. F \in Nat /\ M \in Nat BY <1>1, <1>6
  <1>9. CASE M <= F
    <2>1. FirstOf(order, M) \subseteq FirstOf(order, F) BY <1>8, <1>9 DEF FirstOf
    <2>2. Cardinality(FilesOf(blocks, sel)) = Cardinality(sel) BY <1>1, <1>4, <1>6, <2>1
    <2>3. Cardinality(sel) = M BY <1>1, <1>6, FirstOfCounts
    <2>4. Min({max, F}) = M
      <3> HIDE DEF F
      <3>1. Min({max, F}) = IF max <= F THEN max ELSE F BY <1>7, <1>8
      <3> QED BY <1>1, <1>8, <1>9, <3>1
    <2> QED BY <1>5, <2>2, <2>3, <2>4
  <1>10. CASE F < M
    <2>1. FirstOf(order, F) \subseteq FirstOf(order, M) /\ FirstOf(order, M) \subseteq E
      <3>1. FirstOf(order, F) \subseteq FirstOf(order, M) BY <1>8, <1>10 DEF FirstOf
      <3>2. FirstOf(order, M) \subseteq FirstOf(order, N) BY <1>1, <1>6 DEF FirstOf
      <3> QED BY <1>1, <3>1, <3>2
    <2>2. new \subseteq sel /\ sel \subseteq E BY <1>1, <1>6, <2>1
    <2>3. FilesOf(blocks, sel) = FilesOf(blocks, E) BY <1>2, <2>2 DEF FilesOf
    <2>4. Min({max, F}) = F
      <3> HIDE DEF F
      <3>1. Min({max, F}) = IF max <= F THEN max ELSE F BY <1>7, <1>8
      <3> QED BY <1>1, <1>8, <1>10, <3>1
    <2> QED BY <1>5, <2>3, <2>4
  <1> QED BY <1>8, <1>9, <1>10

\* What accounts for all blocks counts each once.
LEMMA AccountsAddUp ==
  ASSUME NEW blocks, IsRanked(blocks), NEW D, D = DOMAIN blocks, NEW policy,
         NEW s, AccountsFor(s, blocks, D, D, policy)
  PROVE  Cardinality(s.selected) + Cardinality(s.rejected) = Cardinality(D)
  <1>1. PICK sel, rej : sel = s.selected /\ rej = s.rejected OBVIOUS
  <1>2. /\ sel \subseteq D /\ rej \subseteq D \X Reasons
        /\ sel \cup RefusedRanks(rej) = D /\ sel \cap RefusedRanks(rej) = {} /\ OneReason(rej)
    BY <1>1 DEF AccountsFor
  <1>3. IsFiniteSet(D) BY DEF IsRanked
  <1> DEFINE T == RefusedRanks(rej)
             reason == [i \in T |-> CHOOSE x \in rej : x[1] = i]
  <1>4. IsFiniteSet(sel) /\ IsFiniteSet(T)
    <2>1. T \subseteq D BY <1>2
    <2> HIDE DEF T
    <2> QED BY <1>2, <1>3, <2>1, FS_Subset
  <1>5. ASSUME NEW i \in T PROVE reason[i] \in rej /\ reason[i][1] = i BY DEF RefusedRanks
  <1>6. ASSUME NEW x \in rej PROVE x[1] \in T /\ reason[x[1]] = x
    <2>1. x[1] \in T BY DEF RefusedRanks
    <2> QED BY <1>2, <1>5, <2>1 DEF OneReason
  <1> HIDE DEF T, reason
  <1>7. ImagesOf(reason, T) = rej BY <1>5, <1>6 DEF ImagesOf
  <1>8. \A x, y \in T : reason[x] = reason[y] => x = y BY <1>5
  <1>9. Cardinality(ImagesOf(reason, T)) = Cardinality(T) BY <1>4, <1>8, ImagesCount
  <1>10. Cardinality(sel \cup T) = Cardinality(sel) + Cardinality(T) - Cardinality(sel \cap T)
    BY <1>4, FS_Union
  <1>11. sel \cup T = D /\ sel \cap T = {} /\ Cardinality({}) = 0
    BY <1>2, FS_EmptySet DEF T
  <1>12. Cardinality(sel) \in Nat /\ Cardinality(T) \in Nat BY <1>4, FS_CardinalityType
  <1>13. PICK n, m : n = Cardinality(sel) /\ m = Cardinality(T) OBVIOUS
  <1>14. Cardinality(D) = n + m - 0 BY <1>10, <1>11, <1>13
  <1>15. Cardinality(D) = n + m BY <1>12, <1>13, <1>14
  <1> QED BY <1>1, <1>7, <1>9, <1>13, <1>15

---------------------------------------------------------------------------
(* What a selection begins with and what it ends with. *)

LEMMA SelectIsResult ==
  ASSUME NEW blocks, NEW sources, NEW policy, NEW stale, NEW required
  PROVE  LET s == Select(blocks, sources, policy, stale, required)
             t == Result(blocks, sources, policy, stale)
         IN s.selected = t.selected /\ s.rejected = t.rejected /\ s.used = t.used
  <1> DEFINE s == Select(blocks, sources, policy, stale, required)
             t == Result(blocks, sources, policy, stale)
  <1>1. \E status : s = [selected |-> t.selected, rejected |-> t.rejected, used |-> t.used, status |-> status]
    BY DEF Select, Result, SelectionStart, Eligible
  <1> HIDE DEF s, t
  <1>2. s.selected = t.selected /\ s.rejected = t.rejected /\ s.used = t.used BY <1>1
  <1> QED BY <1>2 DEF s, t

LEMMA FaultIsReason ==
  ASSUME NEW blocks, NEW sources, NEW policy, NEW stale, NEW i \in DOMAIN blocks
  PROVE  LET fault == Faults(blocks, sources, policy, stale)[i]
         IN fault # "none" => fault \in Reasons /\ fault # "token_budget_exceeded"
  <1> DEFINE fault == Fault(blocks[i], sources, policy)
  <1>1. Faults(blocks, sources, policy, stale)[i] = IF stale THEN "stale_index_version" ELSE fault
    BY DEF Faults
  <1>2. fault \in {"unsupported_support_type", "blocked_source", "source_not_in_current_index",
                   "source_missing", "source_hash_changed", "range_invalid", "chunk_hash_changed", "none"}
    BY DEF Fault
  <1> HIDE DEF fault
  <1> QED BY <1>1, <1>2 DEF Reasons

\* What is refused before admission is accounted for.
LEMMA StartAccounts ==
  ASSUME NEW blocks, IsRanked(blocks), NEW D, D = DOMAIN blocks, NEW sources, NEW policy, IsSelectionPolicy(policy),
         NEW stale, NEW E, E = Eligible(blocks, sources, policy, stale), NEW start, start = SelectionStart(blocks, sources, policy, stale)
  PROVE  start \in SelectionStates(D) /\ start.selected = {} /\ AccountsFor(start, blocks, D, D \ E, policy)
  <1> DEFINE fault == Faults(blocks, sources, policy, stale)
             rejected == {<<i, fault[i]>> : i \in D \ E}
             tokens == [i \in D |-> blocks[i].tokens]
  <1>1. start = [selected |-> {}, rejected |-> rejected, used |-> 0] BY DEF SelectionStart
  <1>2. ASSUME NEW i \in D \ E PROVE fault[i] \in Reasons /\ fault[i] # "token_budget_exceeded"
    <2>1. fault[i] # "none" BY DEF Eligible
    <2> QED BY <2>1, FaultIsReason
  <1> HIDE DEF fault
  <1>3. rejected \subseteq D \X Reasons BY <1>2
  <1>4. RefusedRanks(rejected) = D \ E
    <2>1. \A x \in rejected : x[1] \in D \ E OBVIOUS
    <2>2. \A i \in D \ E : <<i, fault[i]>> \in rejected /\ <<i, fault[i]>>[1] = i OBVIOUS
    <2> HIDE DEF rejected
    <2> QED BY <2>1, <2>2 DEF RefusedRanks
  <1>5. OneReason(rejected) BY DEF OneReason
  <1>6. \A x \in rejected : x[2] # "token_budget_exceeded" BY <1>2
  <1>7. Total(tokens, {}) = 0 /\ Cardinality({}) = 0 /\ policy.budget \in Nat /\ policy.maxEvidence \in Nat
    BY TotalOfNone, FS_EmptySet DEF IsSelectionPolicy
  <1> HIDE DEF rejected, tokens
  <1>8. start.selected = {} /\ start.rejected = rejected /\ start.used = 0 BY <1>1
  <1>9. AccountsFor(start, blocks, D, D \ E, policy)
    BY <1>3, <1>4, <1>5, <1>6, <1>7, <1>8 DEF AccountsFor, tokens
  <1>10. start \in SelectionStates(D) BY <1>1, <1>3 DEF SelectionStates
  <1> QED BY <1>8, <1>9, <1>10

\* The budget is kept and used, and no block is left without a reason (EvidenceSelector.select).
THEOREM SelectionIsFair ==
  ASSUME NEW blocks, IsRanked(blocks), NEW policy, IsSelectionPolicy(policy),
         NEW sources, NEW stale \in BOOLEAN, NEW required
  PROVE  SelectionUsesItsBudget(blocks, sources, policy, stale, required)
  <1>1. PICK D, E : D = DOMAIN blocks /\ E = Eligible(blocks, sources, policy, stale)
    OBVIOUS
  <1>2. PICK order, N : order = FilesFirst(blocks, E) /\ N = Cardinality(E) OBVIOUS
  <1>3. PICK start : start = SelectionStart(blocks, sources, policy, stale) OBVIOUS
  <1>4. E \in SUBSET D BY <1>1 DEF Eligible
  <1>5. /\ N \in Nat /\ IsList(order, N, E) /\ FirstOf(order, N) = E
        /\ \A j, k \in 1..N : order[j] = order[k] => j = k
    BY <1>1, <1>2, <1>4, NewComesFirst
  <1>6. IsList(order, N, D) /\ \A k \in 1..N : order[k] \in E BY <1>4, <1>5 DEF IsList
  <1>7. start \in SelectionStates(D) /\ start.selected = {} /\ AccountsFor(start, blocks, D, D \ E, policy)
    BY <1>1, <1>3, StartAccounts
  <1>8. PICK f : IsRun(f, blocks, order, N, start, policy, D) /\ AdmitAll(blocks, order, start, policy) = f[N]
    BY <1>1, <1>5, <1>6, <1>7, RunExists
  <1> DEFINE s == Select(blocks, sources, policy, stale, required)
             t == f[N]
             tokens == [i \in D |-> blocks[i].tokens]
  <1>9. \A n \in 0..N : AccountsFor(f[n], blocks, D, (D \ E) \cup FirstOf(order, n), policy)
    <2>1. PICK out : out = D \ E OBVIOUS
    <2>2. \A k \in 1..N : order[k] \notin out BY <1>6, <2>1
    <2>3. AccountsFor(start, blocks, D, out, policy) BY <1>7, <2>1
    <2>4. \A n \in 0..N : AccountsFor(f[n], blocks, D, out \cup FirstOf(order, n), policy)
      BY <1>1, <1>5, <1>6, <1>8, <2>2, <2>3, RunAccounts
    <2> QED BY <2>1, <2>4
  <1>10. AccountsFor(t, blocks, D, D, policy) BY <1>4, <1>5, <1>9
  <1>11. s.selected = t.selected /\ s.rejected = t.rejected /\ s.used = t.used
    BY <1>1, <1>2, <1>3, <1>8, SelectIsResult DEF Result
  <1>12. Cardinality(t.selected) + Cardinality(t.rejected) = Cardinality(D)
    BY <1>1, <1>10, AccountsAddUp
  <1>13. ASSUME policy.budget >= Total(tokens, D)
         PROVE  Cardinality(FilesOf(blocks, t.selected)) = Min({policy.maxEvidence, Cardinality(FilesOf(blocks, E))})
    <2>1. CountsTokens(f, N, TokensOf(blocks, D))
      BY <1>9 DEF AccountsFor, CountsTokens, TokensOf
    <2>2. TakesAll(f, order, N, policy.maxEvidence)
      <3>1. policy.budget >= Total(TokensOf(blocks, D), D) BY <1>13 DEF TokensOf
      <3> HIDE DEF tokens
      <3> QED BY <1>1, <1>5, <1>6, <1>7, <1>8, <2>1, <3>1, AllAreTaken
    <2>3. PICK sel : sel = t.selected OBVIOUS
    <2>4. sel = IF N <= policy.maxEvidence THEN FirstOf(order, N) ELSE FirstOf(order, policy.maxEvidence)
      BY <1>5, <2>2, <2>3 DEF TakesAll, UpTo
    <2>5. policy.maxEvidence \in Nat /\ E \in SUBSET DOMAIN blocks
      BY <1>1, <1>4 DEF IsSelectionPolicy
    <2> QED BY <1>2, <2>3, <2>4, <2>5, FilesAreMany
  <1>14. E = {i \in DOMAIN blocks : ~stale /\ Fault(blocks[i], sources, policy) = "none"}
    BY <1>1 DEF Eligible, Faults
  <1>15. BudgetIsUsed(s, blocks, E, policy)
    <2> HIDE DEF s, t, tokens
    <2>1. /\ s.used <= policy.budget /\ Cardinality(s.selected) <= policy.maxEvidence
          /\ s.used = Total(tokens, s.selected)
          /\ s.selected \cup {x[1] : x \in s.rejected} = D
          /\ \A x \in s.rejected : x[2] = "token_budget_exceeded" => s.used + tokens[x[1]] > policy.budget
      BY <1>10, <1>11 DEF AccountsFor, RefusedRanks, tokens
    <2>2. policy.budget >= Total(tokens, D) =>
            Cardinality({blocks[i].file : i \in s.selected})
            = Min({policy.maxEvidence, Cardinality({blocks[i].file : i \in E})})
      BY <1>11, <1>13 DEF FilesOf
    <2>3. Cardinality(s.selected) + Cardinality(s.rejected) = Cardinality(D)
      BY <1>11, <1>12
    <2> QED BY <1>1, <2>1, <2>2, <2>3 DEF BudgetIsUsed, tokens
  <1> QED BY <1>14, <1>15 DEF SelectionUsesItsBudget, s

\* Whether a block is taken depends on what was taken and on its tokens, not on what was refused.
LEMMA RefusedDoNotMatter ==
  ASSUME NEW blocks, NEW kept, NEW policy, NEW D, NEW K, NEW N \in Nat, NEW order,
         \A n \in 1..N : blocks[order[n]].tokens = kept[order[n]].tokens,
         NEW start, NEW begin, start.selected = begin.selected, start.used = begin.used,
         NEW f, IsRun(f, blocks, order, N, start, policy, D),
         NEW g, IsRun(g, kept, order, N, begin, policy, K),
         IsSelectionPolicy(policy), IsFiniteSet(D), \A i \in D : blocks[i].tokens \in Nat, \A n \in 1..N : order[n] \in D
  PROVE  f[N].selected = g[N].selected /\ f[N].used = g[N].used
  <1> DEFINE T == {n \in Nat : n <= N => f[n].selected = g[n].selected /\ f[n].used = g[n].used}
  <1>1. 0 \in T BY DEF IsRun
  <1>2. ASSUME NEW n \in Nat, n \in T PROVE n + 1 \in T
    <2> SUFFICES ASSUME n + 1 <= N PROVE f[n + 1].selected = g[n + 1].selected /\ f[n + 1].used = g[n + 1].used
      OBVIOUS
    <2>1. n + 1 \in 1..N /\ (n + 1) - 1 = n /\ n \in 0..N OBVIOUS
    <2> DEFINE i == order[n + 1]
               s == f[n]
               t == f[n + 1]
               u == g[n]
               v == g[n + 1]
               tokens == blocks[i].tokens
    <2>2. Admits(s, t, i, tokens, policy) /\ Admits(u, v, i, tokens, policy)
      BY <2>1 DEF IsRun
    <2>3. s.selected = u.selected /\ s.used = u.used BY <1>2
    <2>4. s.used \in Nat /\ tokens \in Nat /\ policy.budget \in Nat /\ policy.maxEvidence \in Nat
          /\ Cardinality(s.selected) \in Nat
      <3>1. s.used \in Nat /\ s.selected \subseteq D BY <2>1 DEF IsRun, SelectionStates
      <3>2. Cardinality(s.selected) \in Nat BY <3>1, FS_Subset, FS_CardinalityType
      <3> QED BY <2>1, <3>1, <3>2 DEF IsSelectionPolicy
    <2>5. t.selected = v.selected /\ t.used = v.used
      <3> HIDE DEF i, s, t, u, v, tokens
      <3>1. PICK n1, used, sel : n1 = Cardinality(s.selected) /\ used = s.used /\ sel = s.selected
        OBVIOUS
      <3>2. n1 \in Nat /\ used \in Nat /\ n1 = Cardinality(u.selected) /\ used = u.used /\ sel = u.selected
        BY <2>3, <2>4, <3>1
      <3>3. CASE n1 >= policy.maxEvidence
        BY <2>2, <2>4, <3>1, <3>2, <3>3 DEF Admits, Refuses
      <3>4. CASE n1 < policy.maxEvidence /\ (tokens > policy.budget \/ used + tokens > policy.budget)
        <4>1. t.selected = sel /\ t.used = used
          BY <2>2, <2>4, <3>1, <3>2, <3>4 DEF Admits, Refuses
        <4>2. v.selected = sel /\ v.used = used
          BY <2>2, <2>4, <3>2, <3>4 DEF Admits, Refuses
        <4> QED BY <4>1, <4>2
      <3>5. CASE n1 < policy.maxEvidence /\ tokens <= policy.budget /\ used + tokens <= policy.budget
        <4>1. t.selected = sel \cup {i} /\ t.used = used + tokens
          BY <2>2, <2>4, <3>1, <3>2, <3>5 DEF Admits, Takes
        <4>2. v.selected = sel \cup {i} /\ v.used = used + tokens
          BY <2>2, <2>4, <3>2, <3>5 DEF Admits, Takes
        <4> QED BY <4>1, <4>2
      <3> QED BY <2>4, <3>2, <3>3, <3>4, <3>5
    <2> QED BY <2>5
  <1>3. \A n \in Nat : n \in T
    <2> HIDE DEF T
    <2> QED BY <1>1, <1>2, SetInduction
  <1> QED BY <1>3

\* Blocks of a file that the index and the disk disagree on change nothing for the others
\* (EvidenceSelector._validate_candidate).
THEOREM StaleSourcesAreNoLoss ==
  ASSUME NEW blocks, IsRanked(blocks), NEW policy, IsSelectionPolicy(policy), NEW sources, NEW required
  PROVE  StaleSourceIsNoLoss(blocks, sources, policy, required)
  <1> DEFINE fresh == {i \in DOMAIN blocks :
                         LET s == sources[blocks[i].file]
                         IN ~s.blocked /\ s.disk = s.indexed /\ s.disk # Absent}
  <1>1. PICK D, K : D = DOMAIN blocks /\ K = fresh OBVIOUS
  <1>2. PICK kept : kept = Restrict(blocks, K) OBVIOUS
  <1>3. K \in SUBSET D /\ DOMAIN kept = K /\ \A i \in K : kept[i] = blocks[i]
    BY <1>1, <1>2 DEF Restrict
  <1>4. IsRanked(kept) BY <1>1, <1>3, FS_Subset DEF IsRanked
  <1>5. PICK E : E = Eligible(blocks, sources, policy, FALSE) OBVIOUS
  <1>6. \A i \in D : Faults(blocks, sources, policy, FALSE)[i] = Fault(blocks[i], sources, policy)
    BY <1>1 DEF Faults
  <1>7. \A i \in K : Faults(kept, sources, policy, FALSE)[i] = Fault(blocks[i], sources, policy)
    BY <1>3 DEF Faults
  <1>8. ASSUME NEW i \in D, Fault(blocks[i], sources, policy) = "none" PROVE i \in K
    <2> DEFINE s == sources[blocks[i].file]
    <2>1. ~s.blocked /\ s.indexed # Absent /\ s.disk # Absent /\ s.disk = s.indexed
      BY <1>8 DEF Fault
    <2> QED BY <1>1, <2>1
  <1> HIDE DEF fresh
  <1>9. Eligible(kept, sources, policy, FALSE) = E /\ E \in SUBSET K
    BY <1>1, <1>3, <1>5, <1>6, <1>7, <1>8 DEF Eligible
  <1>10. FilesFirst(kept, E) = FilesFirst(blocks, E)
    <2>1. ASSUME NEW i \in E PROVE Again(kept, E, i) <=> Again(blocks, E, i)
      BY <1>3, <1>9 DEF Again
    <2>2. ASSUME NEW i \in E
          PROVE  StableKey(kept[i], i, Again(kept, E, i)) = StableKey(blocks[i], i, Again(blocks, E, i))
      BY <1>3, <1>9, <2>1 DEF Again
    <2>3. [i \in E |-> StableKey(kept[i], i, Again(kept, E, i))] = [i \in E |-> StableKey(blocks[i], i, Again(blocks, E, i))]
      BY <2>2
    <2> QED BY <2>3 DEF FilesFirst
  <1>11. PICK order, N : order = FilesFirst(blocks, E) /\ N = Cardinality(E) OBVIOUS
  <1>12. E \in SUBSET D BY <1>3, <1>9
  <1>13. N \in Nat /\ IsList(order, N, E) BY <1>1, <1>11, <1>12, NewComesFirst
  <1>14. IsList(order, N, D) /\ IsList(order, N, K) /\ \A n \in 1..N : order[n] \in D /\ order[n] \in K
    BY <1>9, <1>12, <1>13 DEF IsList
  <1>15. PICK start, begin : start = SelectionStart(blocks, sources, policy, FALSE) /\ begin = SelectionStart(kept, sources, policy, FALSE)
    OBVIOUS
  <1>16. start \in SelectionStates(D) /\ begin \in SelectionStates(K)
    BY <1>1, <1>3, <1>4, <1>15, StartAccounts
  <1>17. start.selected = begin.selected /\ start.used = begin.used
    BY <1>15 DEF SelectionStart
  <1>18. PICK f : IsRun(f, blocks, order, N, start, policy, D) /\ AdmitAll(blocks, order, start, policy) = f[N]
    BY <1>1, <1>13, <1>14, <1>16, RunExists
  <1>19. PICK g : IsRun(g, kept, order, N, begin, policy, K) /\ AdmitAll(kept, order, begin, policy) = g[N]
    BY <1>3, <1>4, <1>13, <1>14, <1>16, RunExists
  <1>20. f[N].selected = g[N].selected /\ f[N].used = g[N].used
    <2>1. \A n \in 1..N : blocks[order[n]].tokens = kept[order[n]].tokens BY <1>3, <1>14
    <2>2. IsFiniteSet(D) /\ \A i \in D : blocks[i].tokens \in Nat BY <1>1 DEF IsRanked
    <2> QED BY <1>13, <1>14, <1>17, <1>18, <1>19, <2>1, <2>2, RefusedDoNotMatter
  <1>21. Result(blocks, sources, policy, FALSE) = f[N] /\ Result(kept, sources, policy, FALSE) = g[N]
    BY <1>5, <1>9, <1>10, <1>11, <1>15, <1>18, <1>19 DEF Result
  <1> DEFINE s == Select(blocks, sources, policy, FALSE, required)
             t == Select(kept, sources, policy, FALSE, required)
  <1>22. s.selected = f[N].selected /\ s.used = f[N].used /\ t.selected = g[N].selected /\ t.used = g[N].used
    <2>1. PICK stale \in BOOLEAN : stale = FALSE OBVIOUS
    <2>2. s.selected = Result(blocks, sources, policy, stale).selected
          /\ s.used = Result(blocks, sources, policy, stale).used
      BY <2>1, SelectIsResult
    <2>3. t.selected = Result(kept, sources, policy, stale).selected
          /\ t.used = Result(kept, sources, policy, stale).used
      BY <2>1, SelectIsResult
    <2> HIDE DEF s, t
    <2> QED BY <1>21, <2>1, <2>2, <2>3
  <1> HIDE DEF s, t
  <1>23. <<s.selected, s.used>> = <<t.selected, t.used>> BY <1>20, <1>22
  <1>24. kept = Restrict(blocks, fresh) BY <1>1, <1>2
  <1> QED BY <1>23, <1>24 DEF StaleSourceIsNoLoss, s, t, fresh

---------------------------------------------------------------------------
(* Views of the graph: what a traversal reaches. *)

\* The traversal goes on from what it has reached.
LEMMA LayersFollow ==
  ASSUME NEW edges, NEW roots, NEW direction, NEW depth \in Nat
  PROVE  AreLayers(LayersFrom(edges, roots, direction, depth), edges, roots, direction, depth)
  <1> DEFINE S == SUBSET (roots \cup Ends(edges))
             next(V) == V \cup Step(edges, V, direction)
             st == [p \in (1..depth) \X S |-> next(p[2])]
             Is(f) == f = [k \in 0..depth |-> IF k = 0 THEN roots ELSE f[k - 1] \cup Step(edges, f[k - 1], direction)]
  <1>1. ASSUME NEW V \in S PROVE next(V) \in S BY DEF Step, Ends
  <1>2. st \in [(1..depth) \X S -> S] BY <1>1
  <1>3. roots \in S OBVIOUS
  <1>4. PICK f \in [0..depth -> S] : Folds(roots, st, depth, f)
    <2> HIDE DEF S, st
    <2> QED BY <1>2, <1>3, FoldExists
  <1>5. ASSUME NEW k \in 0..depth PROVE f[k] = IF k = 0 THEN roots ELSE next(f[k - 1])
    <2>1. f[k] = IF k = 0 THEN roots ELSE st[<<k, f[k - 1]>>] BY <1>4 DEF Folds
    <2>2. CASE k # 0
      <3>1. k \in 1..depth /\ f[k - 1] \in S BY <1>4, <2>2
      <3>2. st[<<k, f[k - 1]>>] = next(f[k - 1])
        <4> HIDE DEF S, next
        <4> QED BY <3>1
      <3> QED BY <2>1, <2>2, <3>2
    <2> QED BY <2>1, <2>2
  <1>6. Is(f) BY <1>4, <1>5
  <1> DEFINE g == CHOOSE g : Is(g)
  <1>7. Is(g)
    <2> HIDE DEF Is
    <2> QED BY <1>6
  <1>8. LayersFrom(edges, roots, direction, depth) = g BY DEF LayersFrom
  <1> HIDE DEF g
  <1>9. \A k \in 0..depth : g[k] = IF k = 0 THEN roots ELSE g[k - 1] \cup Step(edges, g[k - 1], direction)
    BY <1>7
  <1>10. DOMAIN g = 0..depth BY <1>7
  <1>11. AreLayers(g, edges, roots, direction, depth)
    <2>1. 0 \in 0..depth /\ \A k \in 1..depth : k \in 0..depth /\ k # 0 OBVIOUS
    <2> QED BY <1>9, <1>10, <2>1 DEF AreLayers
  <1> QED BY <1>8, <1>11

LEMMA WalkOfNone ==
  ASSUME NEW kept, NEW roots, NEW direction, NEW n
  PROVE  Walks(kept, roots, direction, 0, n) <=> n \in roots \cap kept.nodes
  <1>1. ASSUME n \in roots \cap kept.nodes PROVE Walks(kept, roots, direction, 0, n)
    <2> DEFINE path == [k \in 0..0 |-> n]
    <2>1. path \in [0..0 -> kept.nodes] /\ path[0] = n BY <1>1
    <2> HIDE DEF path
    <2> QED BY <1>1, <2>1 DEF Walks
  <1> QED BY <1>1 DEF Walks

\* A longer walk is one step more.
LEMMA WalkFurther ==
  ASSUME NEW kept, NEW roots, NEW direction, NEW k \in Nat, NEW n
  PROVE  Walks(kept, roots, direction, k + 1, n) <=>
           n \in kept.nodes /\ \E m \in kept.nodes : /\ Walks(kept, roots, direction, k, m)
                                                    /\ n \in Step(kept.edges, {m}, direction)
  <1> DEFINE St(m) == Step(kept.edges, {m}, direction)
  <1>0. ASSUME NEW j \in Nat, NEW m
        PROVE  Walks(kept, roots, direction, j, m) <=>
                 \E path \in [0..j -> kept.nodes] :
                   /\ path[0] \in roots /\ path[j] = m
                   /\ \A i \in 1..j : path[i] \in St(path[i - 1])
    BY DEF Walks
  <1> HIDE DEF St
  <1>1. ASSUME Walks(kept, roots, direction, k + 1, n)
        PROVE  n \in kept.nodes /\ \E m \in kept.nodes : Walks(kept, roots, direction, k, m) /\ n \in St(m)
    <2>1. PICK path \in [0..(k + 1) -> kept.nodes] :
            /\ path[0] \in roots /\ path[k + 1] = n
            /\ \A i \in 1..(k + 1) : path[i] \in St(path[i - 1])
      BY <1>0, <1>1
    <2> DEFINE before == [i \in 0..k |-> path[i]]
    <2>2. before \in [0..k -> kept.nodes] /\ before[0] = path[0] /\ before[k] = path[k]
      OBVIOUS
    <2>3. ASSUME NEW i \in 1..k PROVE before[i] \in St(before[i - 1])
      <3>1. i \in 1..(k + 1) /\ before[i] = path[i] /\ before[i - 1] = path[i - 1] OBVIOUS
      <3> HIDE DEF before
      <3> QED BY <2>1, <3>1
    <2> HIDE DEF before
    <2>4. Walks(kept, roots, direction, k, path[k]) BY <1>0, <2>1, <2>2, <2>3
    <2>5. n \in St(path[k])
      <3>1. k + 1 \in 1..(k + 1) /\ (k + 1) - 1 = k OBVIOUS
      <3> QED BY <2>1, <3>1
    <2> QED BY <2>1, <2>4, <2>5
  <1>2. ASSUME n \in kept.nodes, NEW m \in kept.nodes, Walks(kept, roots, direction, k, m), n \in St(m)
        PROVE  Walks(kept, roots, direction, k + 1, n)
    <2>1. PICK path \in [0..k -> kept.nodes] :
            /\ path[0] \in roots /\ path[k] = m
            /\ \A i \in 1..k : path[i] \in St(path[i - 1])
      BY <1>0, <1>2
    <2> DEFINE after == [i \in 0..(k + 1) |-> IF i = k + 1 THEN n ELSE path[i]]
    <2>2. after \in [0..(k + 1) -> kept.nodes] /\ after[0] = path[0] /\ after[k + 1] = n
      BY <1>2
    <2>3. ASSUME NEW i \in 1..(k + 1) PROVE after[i] \in St(after[i - 1])
      <3>1. CASE i = k + 1
        <4>1. after[i] = n /\ after[i - 1] = m BY <2>1, <3>1
        <4> HIDE DEF after
        <4> QED BY <1>2, <4>1
      <3>2. CASE i \in 1..k
        <4>1. after[i] = path[i] /\ after[i - 1] = path[i - 1] BY <3>2
        <4> HIDE DEF after
        <4> QED BY <2>1, <3>2, <4>1
      <3> QED BY <3>1, <3>2
    <2> HIDE DEF after
    <2> QED BY <1>0, <2>1, <2>2, <2>3
  <1>3. ASSUME NEW m PROVE St(m) = Step(kept.edges, {m}, direction) BY DEF St
  <1> QED BY <1>1, <1>2, <1>3

\* What is in a layer is at the end of a walk of so many steps or fewer.
LEMMA LayersAreWalks ==
  ASSUME NEW kept, Ends(kept.edges) \subseteq kept.nodes, NEW roots, NEW direction, NEW depth \in Nat,
         NEW f, AreLayers(f, kept.edges, roots \cap kept.nodes, direction, depth)
  PROVE  \A k \in 0..depth : \A n : n \in f[k] <=> \E j \in 0..k : Walks(kept, roots, direction, j, n)
  <1> DEFINE W(j, n) == Walks(kept, roots, direction, j, n)
             T == {k \in Nat : k <= depth => /\ f[k] \subseteq kept.nodes
                                            /\ \A n \in kept.nodes : n \in f[k] <=> \E j \in 0..k : W(j, n)}
  <1>0. ASSUME NEW k \in Nat, NEW n, W(k, n) PROVE n \in kept.nodes BY <1>0 DEF Walks
  <1>1. 0 \in T
    <2>1. f[0] = roots \cap kept.nodes BY DEF AreLayers
    <2>2. ASSUME NEW n PROVE n \in f[0] <=> \E j \in 0..0 : W(j, n)
      <3>1. W(0, n) <=> n \in roots \cap kept.nodes BY WalkOfNone
      <3> HIDE DEF W
      <3> QED BY <2>1, <3>1
    <2> HIDE DEF W
    <2> QED BY <2>1, <2>2
  <1>2. ASSUME NEW k \in Nat, k \in T PROVE k + 1 \in T
    <2> SUFFICES ASSUME k + 1 <= depth
                 PROVE  /\ f[k + 1] \subseteq kept.nodes
                        /\ \A n \in kept.nodes : n \in f[k + 1] <=> \E j \in 0..(k + 1) : W(j, n)
      OBVIOUS
    <2>1. f[k] \subseteq kept.nodes /\ \A n \in kept.nodes : n \in f[k] <=> \E j \in 0..k : W(j, n)
      BY <1>2
    <2>2. f[k + 1] = f[k] \cup Step(kept.edges, f[k], direction)
      <3>1. k + 1 \in 1..depth /\ (k + 1) - 1 = k OBVIOUS
      <3> QED BY <3>1 DEF AreLayers
    <2>3. ASSUME NEW n PROVE n \in Step(kept.edges, f[k], direction) <=> \E m \in f[k] : n \in Step(kept.edges, {m}, direction)
      BY DEF Step
    <2>4. Step(kept.edges, f[k], direction) \subseteq kept.nodes BY DEF Step, Ends
    <2>5. ASSUME NEW j \in Nat, NEW n
          PROVE  W(j + 1, n) <=> n \in kept.nodes /\ \E m \in kept.nodes : W(j, m) /\ n \in Step(kept.edges, {m}, direction)
      BY WalkFurther
    <2> HIDE DEF W
    <2>6. ASSUME NEW n \in kept.nodes, n \in f[k + 1] PROVE \E j \in 0..(k + 1) : W(j, n)
      <3>1. CASE n \in f[k]
        <4>1. PICK j \in 0..k : W(j, n) BY <2>1, <3>1
        <4> QED BY <4>1
      <3>2. CASE n \in Step(kept.edges, f[k], direction)
        <4>1. PICK m \in f[k] : n \in Step(kept.edges, {m}, direction) BY <2>3, <3>2
        <4>2. PICK j \in 0..k : W(j, m) BY <2>1, <4>1
        <4>3. W(j + 1, n)
          <5>1. j \in Nat /\ m \in kept.nodes BY <2>1, <4>1
          <5> QED BY <2>5, <2>6, <4>1, <4>2, <5>1
        <4> QED BY <4>2, <4>3
      <3> QED BY <2>2, <2>6, <3>1, <3>2
    <2>7. ASSUME NEW n \in kept.nodes, NEW j \in 0..(k + 1), W(j, n) PROVE n \in f[k + 1]
      <3>1. CASE j \in 0..k BY <2>1, <2>2, <2>7, <3>1
      <3>2. CASE j = k + 1
        <4>1. PICK m \in kept.nodes : W(k, m) /\ n \in Step(kept.edges, {m}, direction)
          BY <2>5, <2>7, <3>2
        <4>2. m \in f[k] BY <2>1, <4>1
        <4> QED BY <2>2, <2>3, <4>1, <4>2
      <3> QED BY <3>1, <3>2
    <2> QED BY <2>1, <2>2, <2>4, <2>6, <2>7
  <1>3. \A k \in Nat : k \in T
    <2> HIDE DEF T
    <2> QED BY <1>1, <1>2, SetInduction
  <1> HIDE DEF W
  <1>4. ASSUME NEW k \in 0..depth, NEW n PROVE n \in f[k] <=> \E j \in 0..k : W(j, n)
    BY <1>0, <1>3
  <1> QED BY <1>4 DEF W

\* The least of the layers that have a node is the least number of steps to it.
LEMMA LayersAreSteps ==
  ASSUME NEW kept, IsKept(kept), NEW request, IsViewRequest(request), NEW f,
         AreLayers(f, kept.edges, request.roots \cap kept.nodes, request.direction, request.depth)
  PROVE  /\ f[request.depth] = {n \in kept.nodes : StepsTo(kept, request, n) # {}}
         /\ \A n \in f[request.depth] : /\ Min({k \in DOMAIN f : n \in f[k]}) \in Nat
                                        /\ Min({k \in DOMAIN f : n \in f[k]}) = Min(StepsTo(kept, request, n))
  <1> DEFINE depth == request.depth
             W(k, n) == Walks(kept, request.roots, request.direction, k, n)
             steps(n) == StepsTo(kept, request, n)
  <1>0. depth \in Nat BY DEF IsViewRequest
  <1>1. \A k \in 0..depth : \A n : n \in f[k] <=> \E j \in 0..k : W(j, n)
    BY <1>0, LayersAreWalks DEF IsKept
  <1>2. ASSUME NEW n PROVE steps(n) = {k \in 0..depth : W(k, n)} BY DEF StepsTo
  <1>3. ASSUME NEW k \in Nat, NEW n, W(k, n) PROVE n \in kept.nodes BY <1>3 DEF Walks
  <1>4. DOMAIN f = 0..depth BY DEF AreLayers
  <1> HIDE DEF W, steps, depth
  <1>5. ASSUME NEW n PROVE n \in f[depth] <=> n \in kept.nodes /\ steps(n) # {}
    BY <1>0, <1>1, <1>2, <1>3
  <1>6. ASSUME NEW n \in f[depth]
        PROVE  Min({k \in DOMAIN f : n \in f[k]}) \in Nat /\ Min({k \in DOMAIN f : n \in f[k]}) = Min(steps(n))
    <2>1. PICK A : A = {k \in DOMAIN f : n \in f[k]} OBVIOUS
    <2>2. PICK B : B = steps(n) OBVIOUS
    <2>3. A \in SUBSET Nat /\ B \in SUBSET Nat /\ B # {}
      BY <1>0, <1>2, <1>4, <1>5, <2>1, <2>2
    <2>4. B \subseteq A
      <3>1. ASSUME NEW k \in B PROVE k \in A BY <1>0, <1>1, <1>2, <1>4, <2>1, <2>2
      <3> QED BY <3>1
    <2>5. ASSUME NEW k \in A PROVE \E j \in B : j <= k
      <3>1. k \in 0..depth /\ n \in f[k] BY <1>4, <2>1
      <3>2. PICK j \in 0..k : W(j, n) BY <1>1, <3>1
      <3>3. j \in 0..depth /\ j <= k BY <1>0, <3>1
      <3> QED BY <1>2, <2>2, <3>2, <3>3
    <2>6. Min(A) \in A /\ (\A x \in A : Min(A) <= x) /\ Min(A) \in Nat
      BY <2>3, <2>4, LeastIn
    <2>7. Min(B) \in B /\ (\A x \in B : Min(B) <= x) /\ Min(B) \in Nat BY <2>3, LeastIn
    <2>8. PICK j \in B : j <= Min(A) BY <2>5, <2>6
    <2>9. Min(B) <= j /\ Min(A) <= Min(B) /\ j \in Nat BY <2>3, <2>4, <2>6, <2>7
    <2>10. Min(A) = Min(B) BY <2>6, <2>7, <2>8, <2>9
    <2> QED BY <2>1, <2>2, <2>6, <2>10
  <1>7. f[depth] = {n \in kept.nodes : steps(n) # {}} BY <1>5
  <1> QED BY <1>6, <1>7 DEF depth, steps

\* The traversal finds what is within the depth of a root, and its distance.
LEMMA TraversalIsReach ==
  ASSUME NEW kept, IsKept(kept), NEW request, IsViewRequest(request)
  PROVE  TraversesTo(Traversed(kept, request), kept, request)
  <1> DEFINE found == Traversed(kept, request)
  <1>1. CASE request.roots = {}
    <2>1. found = [nodes |-> kept.nodes, edges |-> kept.edges, distance |-> [n \in kept.nodes |-> 0]]
      BY <1>1 DEF Traversed
    <2> HIDE DEF found
    <2>2. Wanted(kept, request) = kept.nodes BY <1>1 DEF Wanted
    <2>3. Between(kept.edges, kept.nodes) = kept.edges BY DEF Between, IsKept, Ends
    <2>4. TraversesTo(found, kept, request) BY <1>1, <2>1, <2>2, <2>3 DEF TraversesTo
    <2> QED BY <2>4 DEF found
  <1>2. CASE request.roots # {}
    <2> DEFINE f == LayersFrom(kept.edges, request.roots \cap kept.nodes, request.direction, request.depth)
               nodes == f[request.depth]
               distance == [n \in nodes |-> Min({k \in DOMAIN f : n \in f[k]})]
    <2>1. found = [nodes |-> nodes, edges |-> Between(kept.edges, nodes), distance |-> distance]
      BY <1>2 DEF Traversed
    <2>2. AreLayers(f, kept.edges, request.roots \cap kept.nodes, request.direction, request.depth)
      BY LayersFollow DEF IsViewRequest
    <2> HIDE DEF f
    <2>3. /\ nodes = {n \in kept.nodes : StepsTo(kept, request, n) # {}}
          /\ \A n \in nodes : distance[n] \in Nat /\ distance[n] = Min(StepsTo(kept, request, n))
      <3>1. /\ nodes = {n \in kept.nodes : StepsTo(kept, request, n) # {}}
            /\ \A n \in nodes : /\ Min({k \in DOMAIN f : n \in f[k]}) \in Nat
                               /\ Min({k \in DOMAIN f : n \in f[k]}) = Min(StepsTo(kept, request, n))
        BY <2>2, LayersAreSteps
      <3> HIDE DEF nodes
      <3>2. \A n \in nodes : distance[n] = Min({k \in DOMAIN f : n \in f[k]}) OBVIOUS
      <3> HIDE DEF distance
      <3> QED BY <3>1, <3>2
    <2> HIDE DEF nodes, distance, found
    <2>4. nodes = Wanted(kept, request) BY <1>2, <2>3 DEF Wanted
    <2>5. TraversesTo(found, kept, request) BY <2>1, <2>3, <2>4 DEF TraversesTo
    <2> QED BY <2>5 DEF found
  <1> QED BY <1>1, <1>2

LEMMA PositionIsThere ==
  ASSUME NEW seq, NEW x \in Range(seq)
  PROVE  Position(seq, x) \in DOMAIN seq /\ seq[Position(seq, x)] = x
  BY DEF Position, Range

\* Sorting by tuples gives each element once, in the order of the first numbers.
LEMMA SortedOnce ==
  ASSUME NEW S, IsFiniteSet(S), NEW key, NEW n \in Nat \ {0}, Keys(key, S, n),
         NEW N, N = Cardinality(S), NEW s, s = SortedBy(S, key)
  PROVE  /\ N \in Nat /\ IsList(s, N, S)
         /\ \A x \in S : \E i \in 1..N : s[i] = x
         /\ \A i, j \in 1..N : s[i] = s[j] => i = j
         /\ \A i, j \in 1..N : i < j => key[s[i]][1] <= key[s[j]][1]
  <1>0. N \in Nat BY FS_CardinalityType
  <1>1. /\ s \in [1..N -> S] /\ Len(s) = N
        /\ \A x \in S : \E i \in 1..N : s[i] = x
        /\ \A i, j \in 1..N : i < j <=> Before(key[s[i]], key[s[j]])
    BY SortedIsSorted DEF SortsBy
  <1>2. ASSUME NEW i \in 1..N, NEW j \in 1..N, s[i] = s[j] PROVE i = j BY <1>0, <1>1, <1>2
  <1>3. ASSUME NEW i \in 1..N, NEW j \in 1..N, i < j PROVE key[s[i]][1] <= key[s[j]][1]
    <2>1. s[i] \in S /\ s[j] \in S BY <1>1
    <2>2. Len(key[s[i]]) = n /\ key[s[i]] \in [1..n -> Int] /\ key[s[j]] \in [1..n -> Int]
      BY <2>1 DEF Keys
    <2>3. PICK m \in 1..n : /\ key[s[i]][m] < key[s[j]][m]
                            /\ \A k \in 1..(m - 1) : key[s[i]][k] = key[s[j]][k]
      BY <1>1, <1>3, <2>2 DEF Before
    <2>4. key[s[i]][1] \in Int /\ key[s[j]][1] \in Int BY <2>2
    <2>5. CASE m = 1 BY <2>3, <2>4, <2>5
    <2>6. CASE m # 1
      <3>1. 1 \in 1..(m - 1) BY <2>6
      <3> QED BY <2>3, <2>4, <3>1
    <2> QED BY <2>5, <2>6
  <1> QED BY <1>0, <1>1, <1>2, <1>3 DEF IsList

LEMMA SliceIsPart ==
  ASSUME NEW S, NEW N \in Nat, NEW seq, IsList(seq, N, S), NEW offset \in Nat, NEW size \in Nat,
         NEW L, L = PartLength(N, offset, size)
  PROVE  /\ L \in Nat /\ (L > 0 => offset + L <= N)
         /\ IsPart(Slice(seq, offset, size), seq, offset, L)
         /\ Slice(seq, offset, size) \in Seq(S)
  <1>1. L \in Nat /\ (L > 0 => offset + L <= N) /\ L <= size BY DEF PartLength
  <1> DEFINE m == Min({Len(seq), offset + size})
  <1>2. m \in Nat /\ m = IF N <= offset + size THEN N ELSE offset + size
    <2>1. PICK T : T = {Len(seq), offset + size} OBVIOUS
    <2>2. T \in SUBSET Nat /\ T # {} /\ N \in T /\ offset + size \in T BY <2>1 DEF IsList
    <2>3. Min(T) \in T /\ \A x \in T : Min(T) <= x BY <2>2, LeastIn
    <2>4. m = Min(T) BY <2>1
    <2> HIDE DEF m
    <2>5. m \in {N, offset + size} /\ m <= N /\ m <= offset + size
      BY <2>1, <2>2, <2>3, <2>4 DEF IsList
    <2> QED BY <2>5
  <1>3. Slice(seq, offset, size) = SubSeq(seq, offset + 1, m) BY DEF Slice
  <1> HIDE DEF m
  <1>4. m <= offset => L = 0 BY <1>2 DEF PartLength
  <1>5. m > offset => L = m - offset BY <1>2 DEF PartLength
  <1> DEFINE p == SubSeq(seq, offset + 1, m)
  <1>6. CASE m <= offset
    <2>1. p = <<>> BY <1>2, <1>6 DEF IsList
    <2> HIDE DEF p
    <2>2. Len(p) = 0 /\ DOMAIN p = 1..0 BY <2>1
    <2>3. IsPart(p, seq, offset, L) BY <1>4, <1>6, <2>2 DEF IsPart
    <2>4. p \in Seq(S) BY <2>1
    <2> QED BY <1>1, <1>3, <2>3, <2>4 DEF p
  <1>7. CASE m > offset
    <2>1. p = [i \in 1..L |-> seq[offset + i]] /\ Len(p) = L
      BY <1>2, <1>5, <1>7 DEF IsList
    <2> HIDE DEF p
    <2>2. IsPart(p, seq, offset, L) BY <2>1 DEF IsPart
    <2>3. \A i \in 1..L : seq[offset + i] \in S
      <3>1. \A i \in 1..L : offset + i \in 1..N BY <1>1
      <3> QED BY <3>1 DEF IsList
    <2>4. p \in Seq(S) BY <1>1, <2>1, <2>3
    <2> QED BY <1>1, <1>3, <2>2, <2>4 DEF p
  <1> QED BY <1>2, <1>6, <1>7

LEMMA NodesAreOrdered ==
  ASSUME NEW g, IsViewGraph(g), NEW nodes, IsFiniteSet(nodes), nodes \subseteq DOMAIN g.node, NEW request,
         NEW found, \A n \in nodes : found.distance[n] \in Nat
  PROVE  NearestFirst(OrderedNodes(g, nodes, found, request), Cardinality(nodes), nodes, found.distance)
  <1> DEFINE type(n) == IF request.roots = {} THEN Position(NodeTypes, g.node[n].type) ELSE 0
             key == [n \in nodes |-> <<found.distance[n], type(n), n>>]
             s == OrderedNodes(g, nodes, found, request)
  <1>1. ASSUME NEW n \in nodes PROVE type(n) \in Int
    <2>1. DOMAIN NodeTypes \subseteq Int BY DEF NodeTypes
    <2>2. g.node[n].type \in Range(NodeTypes) BY DEF IsViewGraph
    <2> QED BY <2>1, <2>2, PositionIsThere
  <1>2. ASSUME NEW n \in nodes PROVE found.distance[n] \in Int /\ n \in Int
    BY DEF IsViewGraph
  <1>3. s = SortedBy(nodes, key) BY DEF OrderedNodes
  <1> HIDE DEF type, s
  <1>4. \A n \in nodes : key[n] = <<found.distance[n], type(n), n>> OBVIOUS
  <1> HIDE DEF key
  <1>5. Keys(key, nodes, 3)
    <2>1. ASSUME NEW n \in nodes PROVE key[n] \in [1..3 -> Int] /\ Len(key[n]) = 3 /\ key[n][3] = n
      <3>1. key[n] = <<found.distance[n], type(n), n>> BY <1>4
      <3> QED BY <1>1, <1>2, <3>1
    <2>2. 3 \in 1..3 OBVIOUS
    <2> QED BY <2>1, <2>2 DEF Keys
  <1>6. PICK N : N = Cardinality(nodes) OBVIOUS
  <1>7. /\ N \in Nat /\ IsList(s, N, nodes)
        /\ \A x \in nodes : \E i \in 1..N : s[i] = x
        /\ \A i, j \in 1..N : s[i] = s[j] => i = j
        /\ \A i, j \in 1..N : i < j => key[s[i]][1] <= key[s[j]][1]
    BY <1>3, <1>5, <1>6, SortedOnce
  <1>8. ASSUME NEW i \in 1..N PROVE key[s[i]][1] = found.distance[s[i]]
    BY <1>4, <1>7 DEF IsList
  <1>9. NearestFirst(s, N, nodes, found.distance) BY <1>7, <1>8 DEF NearestFirst
  <1> QED BY <1>6, <1>9 DEF s

\* A beginning of them leaves out no nearer one.
LEMMA BeginningIsNearest ==
  ASSUME NEW nodes, NEW N, NEW distance, NEW ordered, NearestFirst(ordered, N, nodes, distance),
         NEW size \in Nat, NEW part, part = Slice(ordered, 0, size)
  PROVE  /\ Range(part) \subseteq nodes /\ Len(part) \in 0..N /\ DOMAIN part = 1..Len(part) /\ part \in Seq(nodes)
         /\ Len(part) = N <=> Range(part) = nodes
         /\ \A n \in Range(part), m \in nodes \ Range(part) : distance[n] <= distance[m]
  <1>1. N \in Nat /\ IsList(ordered, N, nodes) BY DEF NearestFirst
  <1>2. PICK L : L = PartLength(N, 0, size) OBVIOUS
  <1>3. L \in Nat /\ (L > 0 => 0 + L <= N) /\ IsPart(part, ordered, 0, L) /\ part \in Seq(nodes)
    BY <1>1, <1>2, SliceIsPart
  <1>4. L \in 0..N /\ Len(part) = L /\ DOMAIN part = 1..L /\ \A i \in 1..L : part[i] = ordered[i] /\ i \in 1..N
    BY <1>1, <1>3 DEF IsPart
  <1>5. Range(part) \subseteq nodes BY <1>4, <1>1 DEF Range, IsList
  <1>6. ASSUME L = N PROVE Range(part) = nodes BY <1>4, <1>5, <1>6 DEF Range, NearestFirst
  <1>7. ASSUME L # N PROVE Range(part) # nodes
    <2>1. N \in 1..N /\ \A i \in 1..L : i # N BY <1>1, <1>4, <1>7
    <2>2. ordered[N] \in nodes BY <1>1, <2>1 DEF IsList
    <2>3. ordered[N] \notin Range(part) BY <1>4, <2>1 DEF Range, NearestFirst
    <2> QED BY <2>2, <2>3
  <1>8. ASSUME NEW n \in Range(part), NEW m \in nodes \ Range(part) PROVE distance[n] <= distance[m]
    <2>1. PICK i \in 1..L : part[i] = n BY <1>4 DEF Range
    <2>2. PICK j \in 1..N : ordered[j] = m BY DEF NearestFirst
    <2>3. j \notin 1..L BY <1>4, <2>2 DEF Range
    <2>4. i < j /\ i \in 1..N /\ ordered[i] = n BY <1>1, <1>4, <2>1, <2>3
    <2> QED BY <2>2, <2>4 DEF NearestFirst
  <1> QED BY <1>3, <1>4, <1>5, <1>6, <1>7, <1>8

\* What a view keeps of a repository's graph.
LEMMA ViewsAreParts ==
  ASSUME NEW g, IsViewGraph(g), NEW kind \in ViewKinds, NEW focus, NEW request, NEW view, view = View(kind, g, focus, request)
  PROVE  view.nodes \subseteq DOMAIN g.node /\ view.edges \subseteq g.edges
  <1>0. ASSUME NEW edges \in SUBSET g.edges PROVE Ends(edges) \subseteq DOMAIN g.node
    BY DEF Ends, IsViewGraph
  <1>1. CASE kind = "all"
    BY <1>1 DEF View, Everything, TypedView, NodesOf, EdgesOf, Between
  <1>6. CASE kind = "project-map"
    BY <1>6 DEF View, ProjectMap, TypedView, NodesOf, EdgesOf, Between
  <1>2. CASE kind = "dependencies"
    <2> DEFINE all == EdgesOf(g, IF DependencyScope(g, request) = "internal" THEN {"imports_internal"} ELSE {"imports"})
               edges == {e \in all : focus = AnyFile \/ \E n \in {e.source, e.target} : g.node[n].file = focus}
    <2>1. edges \in SUBSET g.edges BY DEF EdgesOf
    <2>2. view.nodes = Ends(edges) /\ view.edges = edges BY <1>2 DEF View, Dependencies
    <2> HIDE DEF edges
    <2> QED BY <1>0, <2>1, <2>2
  <1>3. CASE kind = "api-flow"
    <2> DEFINE edges == {e \in EdgesOf(g, {"calls_api", "exposes_endpoint", "contains_call", "calls"}) :
                           focus = NoNode \/ focus \in {e.source, e.target}}
    <2>1. edges \in SUBSET g.edges BY DEF EdgesOf
    <2>2. view.nodes = NodesOf(g, {"endpoint", "api_call", "call_site"}) \cup Ends(edges) /\ view.edges = edges
      BY <1>3 DEF View, ApiFlow
    <2> HIDE DEF edges
    <2> QED BY <1>0, <2>1, <2>2 DEF NodesOf
  <1>4. CASE kind = "function-flow"
    <2> DEFINE edges == EdgesNear(EdgesOf(g, CallTypes), focus, 2)
    <2>1. edges \in SUBSET g.edges BY DEF EdgesOf, EdgesNear
    <2>2. view.nodes = NodesOf(g, {"function", "method"}) \cup Ends(edges) /\ view.edges = edges
      BY <1>4 DEF View, FunctionFlow
    <2> HIDE DEF edges
    <2> QED BY <1>0, <2>1, <2>2 DEF NodesOf
  <1>5. CASE kind = "data-flow"
    <2> DEFINE edges == EdgesOf(g, ValueTypes)
               nodes == {n \in NodesOf(g, {"dfg_node"}) :
                           focus = NoNode \/ n \in LayersFrom(edges, {focus}, "both", 3)[3]}
    <2>1. EdgesNear(edges, focus, 3) \subseteq edges BY DEF EdgesNear
    <2>2. view.nodes = nodes /\ view.edges = Between(EdgesNear(edges, focus, 3), nodes)
      BY <1>5 DEF View, DataFlow
    <2> QED BY <2>1, <2>2 DEF NodesOf, EdgesOf, Between
  <1> QED BY <1>1, <1>2, <1>3, <1>4, <1>5, <1>6 DEF ViewKinds

LEMMA FilteredIsKept ==
  ASSUME NEW g, IsViewGraph(g), NEW view, view.nodes \subseteq DOMAIN g.node, view.edges \subseteq g.edges, NEW request
  PROVE  /\ IsKept(Filtered(g, view, request))
         /\ Filtered(g, view, request).nodes \subseteq DOMAIN g.node
         /\ Filtered(g, view, request).edges \subseteq g.edges
  <1> DEFINE nodes == {n \in view.nodes : request.types = {} \/ g.node[n].type \in request.types}
             edges == Supported(Between(view.edges, nodes), request)
             kept == Filtered(g, view, request)
  <1>1. kept.nodes = nodes /\ kept.edges = edges BY DEF Filtered
  <1> HIDE DEF kept
  <1>2. nodes \subseteq DOMAIN g.node OBVIOUS
  <1>3. edges \subseteq g.edges /\ Ends(edges) \subseteq nodes
    <2> HIDE DEF nodes
    <2> QED BY DEF Supported, Between, Ends
  <1> HIDE DEF nodes, edges
  <1>4. IsFiniteSet(nodes) /\ IsFiniteSet(edges) BY <1>2, <1>3, FS_Subset DEF IsViewGraph
  <1>5. IsKept(kept) BY <1>1, <1>3, <1>4 DEF IsKept
  <1> QED BY <1>1, <1>2, <1>3, <1>5 DEF kept

LEMMA EdgesAreOrdered ==
  ASSUME NEW g, IsViewGraph(g), NEW edges \in SUBSET g.edges
  PROVE  NearestFirst(OrderedEdges(edges), Cardinality(edges), edges, [e \in edges |-> 0])
  <1> DEFINE key == [e \in edges |-> <<Position(EdgeTypes, e.type), e.source, e.target, -e.confidence, e.support>>]
             s == OrderedEdges(edges)
  <1>1. ASSUME NEW e \in edges
        PROVE  /\ Position(EdgeTypes, e.type) \in Int /\ EdgeTypes[Position(EdgeTypes, e.type)] = e.type
               /\ e.source \in Int /\ e.target \in Int /\ e.confidence \in Int /\ e.support \in Int
    BY PositionIsThere DEF IsViewGraph, EdgeTypes
  <1>2. s = SortedBy(edges, key) BY DEF OrderedEdges
  <1>3. \A e \in edges : key[e] = <<Position(EdgeTypes, e.type), e.source, e.target, -e.confidence, e.support>>
    OBVIOUS
  <1> HIDE DEF key, s
  <1>4. ASSUME NEW e \in edges PROVE key[e] \in [1..5 -> Int] /\ Len(key[e]) = 5
    <2>1. key[e] = <<Position(EdgeTypes, e.type), e.source, e.target, -e.confidence, e.support>>
      BY <1>3
    <2> QED BY <1>1, <2>1
  <1>5. ASSUME NEW e \in edges, NEW d \in edges, \A i \in 1..5 : key[e][i] = key[d][i] PROVE e = d
    <2>1. /\ key[e] = <<Position(EdgeTypes, e.type), e.source, e.target, -e.confidence, e.support>>
          /\ key[d] = <<Position(EdgeTypes, d.type), d.source, d.target, -d.confidence, d.support>>
      BY <1>3
    <2>2. /\ key[e][1] = key[d][1] /\ key[e][2] = key[d][2] /\ key[e][3] = key[d][3]
          /\ key[e][4] = key[d][4] /\ key[e][5] = key[d][5]
      BY <1>5
    <2>3. /\ Position(EdgeTypes, e.type) = Position(EdgeTypes, d.type) /\ e.source = d.source /\ e.target = d.target
          /\ -e.confidence = -d.confidence /\ e.support = d.support
      BY <2>1, <2>2
    <2>4. e.type = d.type /\ e.confidence = d.confidence BY <1>1, <2>3
    <2>5. /\ e \in [source : DOMAIN g.node, target : DOMAIN g.node, type : Range(EdgeTypes), confidence : Int, support : Int]
          /\ d \in [source : DOMAIN g.node, target : DOMAIN g.node, type : Range(EdgeTypes), confidence : Int, support : Int]
      BY DEF IsViewGraph
    <2> QED BY <2>3, <2>4, <2>5
  <1>6. Keys(key, edges, 5) BY <1>4, <1>5 DEF Keys
  <1>7. IsFiniteSet(edges) BY FS_Subset DEF IsViewGraph
  <1>8. PICK N : N = Cardinality(edges) OBVIOUS
  <1>9. /\ N \in Nat /\ IsList(s, N, edges)
        /\ \A x \in edges : \E i \in 1..N : s[i] = x
        /\ \A i, j \in 1..N : s[i] = s[j] => i = j
    BY <1>2, <1>6, <1>7, <1>8, SortedOnce
  <1>10. \A i \in 1..N : s[i] \in edges BY <1>9 DEF IsList
  <1>11. NearestFirst(s, N, edges, [e \in edges |-> 0]) BY <1>9, <1>10 DEF NearestFirst
  <1> QED BY <1>8, <1>11 DEF s

LEMMA OneRootIsIt ==
  ASSUME NEW request, IsViewRequest(request), OneRoot(request)
  PROVE  request.roots = {RootOf(request)}
  <1>1. Cardinality(request.roots) = 1 /\ IsFiniteSet(request.roots)
    BY DEF OneRoot, IsViewRequest
  <1>2. request.roots # {} BY <1>1, FS_EmptySet
  <1>3. PICK r \in request.roots : RootOf(request) = r BY <1>2 DEF RootOf
  <1>4. IsFiniteSet({r}) /\ Cardinality({r}) = 1 /\ {r} \subseteq request.roots
    BY <1>3, FS_Singleton
  <1>5. {r} = request.roots BY <1>1, <1>4, FS_Subset
  <1> QED BY <1>3, <1>5

\* The first page has the nearest nodes, the root of a request for neighbours among them.
LEMMA FirstPageIsNearest ==
  ASSUME NEW g, IsViewGraph(g), NEW kept, IsKept(kept), kept.nodes \subseteq DOMAIN g.node,
         NEW request, IsViewRequest(request), OneRoot(request) => request.offset = 0,
         NEW found, TraversesTo(found, kept, request), NEW limit \in Nat \ {0}
  PROVE  Fronts(Included(g, found, request, limit), found.nodes, Cardinality(found.nodes), found.distance)
  <1> DEFINE all == found.nodes
             N == Cardinality(all)
             root == RootOf(request)
             nodes == Included(g, found, request, limit)
  <1>1. all \subseteq DOMAIN g.node /\ IsFiniteSet(all) /\ \A n \in all : found.distance[n] \in Nat
    <2>1. all \subseteq kept.nodes /\ \A n \in all : found.distance[n] \in Nat
      BY DEF TraversesTo, Wanted
    <2> HIDE DEF all
    <2> QED BY <2>1, FS_Subset DEF IsKept
  <1>2. N \in Nat BY <1>1, FS_CardinalityType
  <1>3. CASE ~(OneRoot(request) /\ root \in all)
    <2> DEFINE ordered == OrderedNodes(g, all, found, request)
    <2>1. nodes = Slice(ordered, 0, limit) BY <1>3 DEF Included
    <2>2. NearestFirst(ordered, N, all, found.distance) BY <1>1, NodesAreOrdered
    <2> HIDE DEF ordered, nodes, all, N
    <2>3. /\ Range(nodes) \subseteq all /\ Len(nodes) \in 0..N /\ nodes \in Seq(all)
          /\ Len(nodes) = N <=> Range(nodes) = all
          /\ \A n \in Range(nodes), m \in all \ Range(nodes) : found.distance[n] <= found.distance[m]
      BY <2>1, <2>2, BeginningIsNearest
    <2>4. Fronts(nodes, all, N, found.distance) BY <1>2, <2>3 DEF Fronts
    <2> QED BY <2>4 DEF nodes, all, N
  <1>4. CASE OneRoot(request) /\ root \in all
    <2> DEFINE others == all \ {root}
               ordered == OrderedNodes(g, others, found, request)
               part == Slice(ordered, 0, limit - 1)
    <2>1. nodes = <<root>> \o part BY <1>4 DEF Included
    <2>2. IsFiniteSet(others) /\ Cardinality(others) = N - 1 /\ others \subseteq DOMAIN g.node
      <3> HIDE DEF all
      <3> QED BY <1>1, <1>4, FS_RemoveElement DEF N
    <2> HIDE DEF nodes, all, N
    <2>3. NearestFirst(ordered, N - 1, others, found.distance)
      <3>1. others \subseteq all OBVIOUS
      <3> HIDE DEF others
      <3>2. NearestFirst(ordered, Cardinality(others), others, found.distance)
        BY <1>1, <2>2, <3>1, NodesAreOrdered
      <3> HIDE DEF ordered
      <3> QED BY <2>2, <3>2
    <2> HIDE DEF ordered, part
    <2>4. /\ Range(part) \subseteq others /\ Len(part) \in 0..(N - 1) /\ part \in Seq(others)
          /\ Len(part) = N - 1 <=> Range(part) = others
          /\ \A n \in Range(part), m \in others \ Range(part) : found.distance[n] <= found.distance[m]
      <3>1. limit - 1 \in Nat OBVIOUS
      <3>2. part = Slice(ordered, 0, limit - 1) BY DEF part
      <3> HIDE DEF others
      <3> QED BY <2>3, <3>1, <3>2, BeginningIsNearest
    <2>5. /\ nodes \in Seq(all) /\ Len(nodes) = Len(part) + 1 /\ Range(nodes) = {root} \cup Range(part)
      <3>1. <<root>> \in Seq(all) /\ part \in Seq(all) /\ Len(<<root>>) = 1 BY <1>4, <2>4
      <3>2. Range(<<root>>) = {root} BY DEF Range
      <3>3. nodes \in Seq(all) /\ Range(nodes) = Range(<<root>>) \cup Range(part)
        BY <2>1, <3>1, RangeOfConcat
      <3>4. Len(nodes) = Len(<<root>>) + Len(part) BY <2>1, <3>1
      <3>5. Len(part) \in Nat BY <3>1
      <3> QED BY <3>1, <3>2, <3>3, <3>4, <3>5
    <2>6. Range(nodes) \subseteq all /\ Len(nodes) \in 0..N BY <1>2, <1>4, <2>4, <2>5
    <2>7. Len(nodes) = N <=> Range(nodes) = all BY <1>2, <1>4, <2>4, <2>5
    <2>8. \A m \in all : found.distance[root] <= found.distance[m]
      <3>1. found.distance[root] = Min(StepsTo(kept, request, root)) /\ root \in kept.nodes /\ request.roots = {root}
        BY <1>4, OneRootIsIt DEF TraversesTo, Wanted, all
      <3>2. 0 \in StepsTo(kept, request, root)
        BY <3>1, WalkOfNone DEF IsViewRequest, StepsTo
      <3>3. StepsTo(kept, request, root) \in SUBSET Nat BY DEF StepsTo, IsViewRequest
      <3>4. Min(StepsTo(kept, request, root)) <= 0 BY <3>2, <3>3, LeastIn
      <3>5. found.distance[root] = 0 BY <1>1, <1>4, <3>1, <3>4
      <3> QED BY <1>1, <3>5
    <2>9. \A n \in Range(nodes), m \in all \ Range(nodes) : found.distance[n] <= found.distance[m]
      BY <2>4, <2>5, <2>8
    <2>10. Fronts(nodes, all, N, found.distance)
      BY <1>2, <2>5, <2>6, <2>7, <2>9 DEF Fronts
    <2> QED BY <2>10 DEF nodes, all, N
  <1> QED BY <1>3, <1>4

\* A projection holds the nodes within the depth of a root, the nearer ones first, and
\* says that it is truncated exactly when it leaves something out (_project), in every
\* graph and for every request.
THEOREM ProjectionsAreHonest ==
  ASSUME NEW g, IsViewGraph(g), NEW view, view.nodes \subseteq DOMAIN g.node, view.edges \subseteq g.edges,
         NEW request, IsViewRequest(request), NEW server, IsServer(server)
  PROVE  ProjectionIsHonest(g, view, request, server)
  <1> SUFFICES ASSUME OneRoot(request) => request.offset = 0
               PROVE  HonestProjection(Project(g, view, request, server), Filtered(g, view, request), request)
    BY DEF ProjectionIsHonest
  <1> DEFINE kept == Filtered(g, view, request)
             p == Project(g, view, request, server)
             found == Traversed(kept, request)
             all == found.nodes
             nodes == Included(g, found, request, Min({request.nodes, server.nodes}))
             shown == Range(nodes)
             between == Between(found.edges, shown)
             eligible == OrderedEdges(between)
             edges == Slice(eligible, 0, Min({request.edges, server.edges}))
             root == IF OneRoot(request) /\ request.roots \subseteq all THEN 1 ELSE 0
             ordered == OrderedNodes(g, all, found, request)
             moreNodes == IF OneRoot(request) THEN Len(ordered) - root > request.offset + Len(nodes) - root
                          ELSE Len(ordered) > Len(nodes)
             moreEdges == Len(eligible) > Len(edges)
  <1>1. /\ p.nodes = nodes /\ p.edges = edges /\ p.truncated = (moreNodes \/ moreEdges)
        /\ p.canExpand = ((moreNodes /\ request.nodes < server.nodes) \/ (moreEdges /\ request.edges < server.edges))
    <2> DEFINE cut == moreNodes \/ moreEdges
               more == (moreNodes /\ request.nodes < server.nodes) \/ (moreEdges /\ request.edges < server.edges)
    <2>1. \E available, reason, state, expansion :
            p = [nodes     |-> nodes,
                 edges     |-> edges,
                 available |-> available,
                 truncated |-> cut,
                 reason    |-> reason,
                 state     |-> state,
                 canExpand |-> more,
                 expansion |-> expansion]
      BY Zenon DEF Project
    <2>2. PICK c, m : c = cut /\ m = more OBVIOUS
    <2> HIDE DEF p, nodes, edges, cut, more
    <2>3. \E available, reason, state, expansion :
            p = [nodes |-> nodes, edges |-> edges, available |-> available, truncated |-> c, reason |-> reason,
                 state |-> state, canExpand |-> m, expansion |-> expansion]
      BY <2>1, <2>2, Zenon
    <2>4. p.nodes = nodes /\ p.edges = edges /\ p.truncated = c /\ p.canExpand = m BY <2>3
    <2> QED BY <2>2, <2>4, Zenon DEF cut, more
  <1> HIDE DEF p, moreNodes, moreEdges
  <1>2. IsKept(kept) /\ kept.nodes \subseteq DOMAIN g.node /\ kept.edges \subseteq g.edges
    BY FilteredIsKept
  <1> HIDE DEF kept
  <1>3. TraversesTo(found, kept, request) BY <1>2, TraversalIsReach
  <1> HIDE DEF found
  <1>4. Min({request.nodes, server.nodes}) \in Nat \ {0} /\ Min({request.edges, server.edges}) \in Nat
    <2>1. PICK A : A = {request.nodes, server.nodes} OBVIOUS
    <2>2. PICK B : B = {request.edges, server.edges} OBVIOUS
    <2>3. A \in SUBSET (Nat \ {0}) /\ B \in SUBSET Nat /\ A # {} /\ B # {}
      BY <2>1, <2>2 DEF IsViewRequest, IsServer
    <2>4. Min(A) \in A /\ Min(B) \in B BY <2>3, LeastIn
    <2> QED BY <2>1, <2>2, <2>3, <2>4
  <1>5. PICK N : N = Cardinality(all) OBVIOUS
  <1>6. Fronts(nodes, all, N, found.distance)
    <2>1. PICK limit \in Nat \ {0} : limit = Min({request.nodes, server.nodes}) BY <1>4
    <2> QED BY <1>2, <1>3, <1>5, <2>1, FirstPageIsNearest
  <1>7. Len(ordered) = N /\ N \in Nat
    <2>1. all \subseteq DOMAIN g.node /\ IsFiniteSet(all) /\ \A n \in all : found.distance[n] \in Nat
      <3>1. all \subseteq kept.nodes /\ \A n \in all : found.distance[n] \in Nat
        BY <1>3 DEF TraversesTo, Wanted
      <3> HIDE DEF all
      <3> QED BY <1>2, <3>1, FS_Subset DEF IsKept
    <2> HIDE DEF all
    <2>2. NearestFirst(ordered, Cardinality(all), all, found.distance)
      BY <2>1, NodesAreOrdered
    <2> HIDE DEF ordered
    <2> QED BY <1>5, <2>2 DEF NearestFirst, IsList
  <1> HIDE DEF all, nodes, ordered
  <1>8. moreNodes <=> shown # all
    <2>1. Len(nodes) \in 0..N /\ (Len(nodes) = N <=> shown = all) BY <1>6 DEF Fronts
    <2>2. moreNodes <=> N > Len(nodes)
      <3>1. root \in Int OBVIOUS
      <3> HIDE DEF root
      <3> QED BY <1>7, <2>1, <3>1 DEF moreNodes
    <2> QED BY <1>7, <2>1, <2>2
  <1>9. between = Between(kept.edges, shown) /\ between \in SUBSET g.edges
    <2>1. found.edges = Between(kept.edges, all) /\ shown \subseteq all
      BY <1>3, <1>6 DEF TraversesTo, Fronts, all
    <2> HIDE DEF shown
    <2> QED BY <1>2, <2>1 DEF Between
  <1> HIDE DEF shown, between
  <1>10. Range(edges) \subseteq between /\ (~moreEdges <=> Range(edges) = between)
    <2>1. PICK M : M = Cardinality(between) OBVIOUS
    <2>2. NearestFirst(eligible, M, between, [e \in between |-> 0])
      BY <1>9, <2>1, EdgesAreOrdered
    <2> HIDE DEF eligible
    <2>3. PICK limit \in Nat : limit = Min({request.edges, server.edges}) BY <1>4
    <2>4. edges = Slice(eligible, 0, limit) BY <2>3
    <2> HIDE DEF edges
    <2>5. Range(edges) \subseteq between /\ Len(edges) \in 0..M /\ (Len(edges) = M <=> Range(edges) = between)
      BY <2>2, <2>4, BeginningIsNearest
    <2>6. Len(eligible) = M /\ M \in Nat BY <2>2 DEF NearestFirst, IsList
    <2> QED BY <2>5, <2>6 DEF moreEdges
  <1> HIDE DEF edges
  <1>11. Range(p.nodes) = shown /\ Range(p.edges) = Range(edges) BY <1>1 DEF shown
  <1>12. all = Wanted(kept, request) /\ shown \subseteq all
    BY <1>3, <1>6 DEF TraversesTo, Fronts, all, shown
  <1>13. ASSUME NEW n \in shown, NEW m \in all \ shown, request.roots # {}
         PROVE  Min(StepsTo(kept, request, n)) <= Min(StepsTo(kept, request, m))
    <2>1. found.distance[n] <= found.distance[m] BY <1>6, <1>13 DEF Fronts, shown
    <2>2. found.distance[n] = Min(StepsTo(kept, request, n)) /\ found.distance[m] = Min(StepsTo(kept, request, m))
      BY <1>3, <1>12, <1>13 DEF TraversesTo, all
    <2> QED BY <2>1, <2>2
  <1>14. ~p.truncated <=> shown = all /\ Range(edges) = Between(kept.edges, all)
    BY <1>1, <1>8, <1>9, <1>10
  <1>15. p.canExpand => p.truncated BY <1>1
  <1>16. Range(edges) \subseteq Between(kept.edges, shown) BY <1>9, <1>10
  <1> DEFINE steps(n) == {k \in 0..request.depth :
                            \E path \in [0..k -> kept.nodes] :
                              /\ path[0] \in request.roots /\ path[k] = n
                              /\ \A i \in 1..k : path[i] \in Step(kept.edges, {path[i - 1]}, request.direction)}
             wanted == {n \in kept.nodes : request.roots = {} \/ steps(n) # {}}
  <1>17. \A n : steps(n) = StepsTo(kept, request, n) BY DEF StepsTo, Walks
  <1>18. HonestProjection(p, kept, request) <=>
           /\ Range(p.nodes) \subseteq wanted /\ Range(p.edges) \subseteq Between(kept.edges, Range(p.nodes))
           /\ \A n \in Range(p.nodes), m \in wanted \ Range(p.nodes) : request.roots # {} => Min(steps(n)) <= Min(steps(m))
           /\ ~p.truncated <=> Range(p.nodes) = wanted /\ Range(p.edges) = Between(kept.edges, wanted)
           /\ p.canExpand => p.truncated
    BY DEF HonestProjection
  <1> HIDE DEF steps
  <1>19. wanted = all BY <1>12, <1>17 DEF Wanted
  <1> HIDE DEF wanted
  <1>20. HonestProjection(p, kept, request)
    BY <1>11, <1>12, <1>13, <1>14, <1>15, <1>16, <1>17, <1>18, <1>19
  <1> QED BY <1>20 DEF p, kept

---------------------------------------------------------------------------
(* Views of the graph: pages of neighbours and of seeds. *)

LEMMA PagesAdvance ==
  ASSUME NEW A \in Nat, NEW size \in Nat \ {0}, NEW o \in 0..A
  PROVE  /\ PartLength(A, o, size) \in Nat /\ o + PartLength(A, o, size) <= A
         /\ NextAt(A, size, o) \in {-1} \cup 0..A
         /\ NextAt(A, size, o) # -1 => NextAt(A, size, o) = o + PartLength(A, o, size) /\ NextAt(A, size, o) > o
         /\ NextAt(A, size, o) = -1 => o + PartLength(A, o, size) = A
  BY DEF PartLength, NextAt

LEMMA OffsetsCover ==
  ASSUME NEW A \in Nat, NEW size \in Nat \ {0}, NEW f, Offsets(f, A, size)
  PROVE  \A k \in 0..(A + 1) : /\ f[k] \in {-1} \cup 0..A /\ (f[k] = -1 \/ f[k] >= k)
                               /\ Covered(f, A, size, k) /\ Behind(f, A, size, k)
  <1> DEFINE len(o) == PartLength(A, o, size)
             Good(k) == /\ f[k] \in {-1} \cup 0..A /\ (f[k] = -1 \/ f[k] >= k)
                        /\ Covered(f, A, size, k) /\ Behind(f, A, size, k)
             T == {k \in Nat : k <= A + 1 => Good(k)}
  <1>1. 0 \in T
    <2>1. f[0] = 0 BY DEF Offsets
    <2>2. Covered(f, A, size, 0) /\ Behind(f, A, size, 0) BY <2>1 DEF Covered, Behind
    <2> QED BY <2>1, <2>2
  <1>2. ASSUME NEW k \in Nat, k \in T PROVE k + 1 \in T
    <2> SUFFICES ASSUME k + 1 <= A + 1 PROVE Good(k + 1) OBVIOUS
    <2>1. Good(k) BY <1>2
    <2> DEFINE o == f[k]
               n == f[k + 1]
    <2>2. n = IF o = -1 THEN -1 ELSE NextAt(A, size, o)
      <3>1. k + 1 \in 1..(A + 1) /\ (k + 1) - 1 = k OBVIOUS
      <3> QED BY <3>1 DEF Offsets
    <2>3. CASE o = -1
      <3>1. n = -1 BY <2>2, <2>3
      <3>2. \A i \in 1..A : \E j \in 0..k : f[j] # -1 /\ i \in (f[j] + 1)..(f[j] + len(f[j]))
        BY <2>1, <2>3 DEF Covered
      <3>3. Covered(f, A, size, k + 1)
        <4>1. \A j \in 0..k : j \in 0..(k + 1) OBVIOUS
        <4> HIDE DEF o, n
        <4> QED BY <3>2, <4>1 DEF Covered
      <3>4. Behind(f, A, size, k + 1) BY <3>1 DEF Behind
      <3> QED BY <3>1, <3>3, <3>4
    <2>4. CASE o # -1
      <3>1. o \in 0..A /\ o >= k BY <2>1, <2>4
      <3>2. /\ len(o) \in Nat /\ o + len(o) <= A /\ n \in {-1} \cup 0..A
            /\ n # -1 => n = o + len(o) /\ n > o
            /\ n = -1 => o + len(o) = A
        <4>1. /\ len(o) \in Nat /\ o + len(o) <= A
              /\ NextAt(A, size, o) \in {-1} \cup 0..A
              /\ NextAt(A, size, o) # -1 => NextAt(A, size, o) = o + len(o) /\ NextAt(A, size, o) > o
              /\ NextAt(A, size, o) = -1 => o + len(o) = A
          BY <3>1, PagesAdvance
        <4>2. n = NextAt(A, size, o) BY <2>2, <2>4
        <4> HIDE DEF n, o, len
        <4> QED BY <4>1, <4>2
      <3> HIDE DEF o, n, len
      <3>3. n = -1 \/ n >= k + 1 BY <3>1, <3>2
      <3>4. ASSUME NEW i \in 1..A, n = -1 \/ i <= n
            PROVE  \E j \in 0..(k + 1) : f[j] # -1 /\ i \in (f[j] + 1)..(f[j] + len(f[j]))
        <4>1. CASE i <= o
          <5>1. PICK j \in 0..k : f[j] # -1 /\ i \in (f[j] + 1)..(f[j] + len(f[j]))
            BY <2>1, <4>1 DEF Covered, o, len
          <5> QED BY <5>1
        <4>2. CASE i > o
          <5>1. i \in (o + 1)..(o + len(o)) BY <3>1, <3>2, <3>4, <4>2
          <5>2. k \in 0..(k + 1) /\ f[k] = o BY DEF o
          <5> QED BY <2>4, <5>1, <5>2
        <4> QED BY <3>1, <4>1, <4>2
      <3>5. Covered(f, A, size, k + 1) BY <3>4 DEF Covered, n, len
      <3>6. ASSUME n # -1, NEW j \in 0..k PROVE f[j] \in 0..A /\ f[j] + len(f[j]) <= n
        <4>1. CASE j = k BY <3>1, <3>2, <3>6, <4>1 DEF o
        <4>2. CASE j # k
          <5>1. j \in 0..(k - 1) BY <4>2
          <5>2. f[j] \in 0..A /\ f[j] + len(f[j]) <= o
            BY <2>1, <2>4, <5>1 DEF Behind, o, len
          <5>3. len(f[j]) \in Nat BY <5>2, PagesAdvance DEF len
          <5> QED BY <3>1, <3>2, <3>6, <5>2, <5>3
        <4> QED BY <4>1, <4>2
      <3>7. Behind(f, A, size, k + 1) BY <3>6 DEF Behind, n, len
      <3> QED BY <3>2, <3>3, <3>5, <3>7 DEF n
    <2> QED BY <2>3, <2>4
  <1>3. \A k \in Nat : k \in T
    <2> HIDE DEF T
    <2> QED BY <1>1, <1>2, SetInduction
  <1> QED BY <1>3

LEMMA OffsetsFollow ==
  ASSUME NEW A \in Nat, NEW size \in Nat \ {0}, NEW at, NEW others, NEW root, ArePages(at, others, A, size, root)
  PROVE  /\ \E f : FollowsNext(f, at, A)
         /\ \A f : FollowsNext(f, at, A) => Offsets(f, A, size)
  <1> DEFINE S == {-1} \cup 0..A
             next(o) == IF o = -1 THEN -1 ELSE at[o].expansion.next
             st == [p \in (1..(A + 1)) \X S |-> next(p[2])]
  <1>1. ASSUME NEW o \in S PROVE next(o) \in S /\ next(o) = IF o = -1 THEN -1 ELSE NextAt(A, size, o)
    <2>1. CASE o # -1 BY <2>1, PagesAdvance DEF ArePages
    <2> QED BY <2>1
  <1> HIDE DEF next
  <1>2. \E f : FollowsNext(f, at, A)
    <2>1. st \in [(1..(A + 1)) \X S -> S] /\ 0 \in S /\ A + 1 \in Nat BY <1>1
    <2>2. PICK f \in [0..(A + 1) -> S] : Folds(0, st, A + 1, f)
      <3> HIDE DEF S, st
      <3> QED BY <2>1, FoldExists
    <2>3. ASSUME NEW k \in 0..(A + 1), k # 0 PROVE st[<<k, f[k - 1]>>] = next(f[k - 1])
      <3>1. k \in 1..(A + 1) /\ f[k - 1] \in S BY <2>2, <2>3
      <3> HIDE DEF S
      <3> QED BY <3>1
    <2> HIDE DEF st, S
    <2>4. f = [k \in 0..(A + 1) |-> IF k = 0 THEN 0 ELSE next(f[k - 1])]
      BY <2>2, <2>3 DEF Folds
    <2>5. FollowsNext(f, at, A) BY <2>4 DEF FollowsNext, next
    <2> QED BY <2>5
  <1>3. ASSUME NEW f, FollowsNext(f, at, A) PROVE Offsets(f, A, size)
    <2>1. \A k \in 0..(A + 1) : f[k] = IF k = 0 THEN 0 ELSE next(f[k - 1])
      BY <1>3 DEF FollowsNext, next
    <2>2. DOMAIN f = 0..(A + 1) BY <1>3 DEF FollowsNext
    <2> DEFINE T == {k \in Nat : k <= A + 1 => f[k] \in S}
    <2>3. 0 \in T BY <2>1
    <2>4. ASSUME NEW k \in Nat, k \in T PROVE k + 1 \in T
      <3> SUFFICES ASSUME k + 1 <= A + 1 PROVE f[k + 1] \in S OBVIOUS
      <3>1. f[k] \in S /\ k + 1 \in 0..(A + 1) /\ k + 1 # 0 /\ (k + 1) - 1 = k BY <2>4
      <3>2. f[k + 1] = next(f[k]) BY <2>1, <3>1
      <3> HIDE DEF S
      <3> QED BY <1>1, <3>1, <3>2
    <2>5. \A k \in Nat : k \in T
      <3> HIDE DEF T
      <3> QED BY <2>3, <2>4, SetInduction
    <2>6. ASSUME NEW k \in 1..(A + 1) PROVE f[k] = IF f[k - 1] = -1 THEN -1 ELSE NextAt(A, size, f[k - 1])
      <3>1. k - 1 \in Nat /\ k - 1 <= A + 1 /\ k \in 0..(A + 1) /\ k # 0 OBVIOUS
      <3>2. f[k - 1] \in S BY <2>5, <3>1
      <3>3. f[k] = next(f[k - 1]) BY <2>1, <3>1
      <3> HIDE DEF S
      <3> QED BY <1>1, <3>2, <3>3
    <2>7. f[0] = 0 BY <2>1
    <2> QED BY <2>2, <2>6, <2>7 DEF Offsets
  <1> QED BY <1>2, <1>3

\* Pages that follow each other have everything once.
LEMMA PagesHaveAll ==
  ASSUME NEW all, NEW A \in Nat, A = Cardinality(all), NEW size \in Nat \ {0}, NEW at, NEW root, NEW others,
         IsList(others, A, all), \A n \in all : \E i \in 1..A : others[i] = n,
         \A i, j \in 1..A : others[i] = others[j] => i = j, ArePages(at, others, A, size, root)
  PROVE  PagesCover(at, all, root)
  <1> DEFINE page(o) == Range(at[o].nodes) \ {root}
             f == CHOOSE f : FollowsNext(f, at, A)
             used == {f[k] : k \in DOMAIN f} \ {-1}
             len(o) == PartLength(A, o, size)
  <1>1. PagesCover(at, all, root) <=>
          /\ UNION {page(o) : o \in used} = all
          /\ \A o, p \in used : o # p => page(o) \cap page(p) = {}
          /\ f[A + 1] = -1
    BY DEF PagesCover, FollowsNext
  <1>2. Offsets(f, A, size) BY OffsetsFollow
  <1> HIDE DEF f
  <1>3. ASSUME NEW k \in 0..(A + 1)
        PROVE  /\ f[k] \in {-1} \cup 0..A /\ (f[k] = -1 \/ f[k] >= k)
               /\ Covered(f, A, size, k) /\ Behind(f, A, size, k)
    BY <1>2, OffsetsCover
  <1>4. DOMAIN f = 0..(A + 1) BY <1>2 DEF Offsets
  <1>5. ASSUME NEW o \in used PROVE o \in 0..A /\ \E k \in 0..(A + 1) : f[k] = o
    BY <1>3, <1>4
  <1>6. ASSUME NEW o \in 0..A
        PROVE  /\ \A n : n \in page(o) <=> \E i \in (o + 1)..(o + len(o)) : others[i] = n
               /\ len(o) \in Nat /\ o + len(o) <= A
    <2>1. page(o) = {others[i] : i \in (o + 1)..(o + len(o))} BY DEF ArePages, PageAt
    <2>2. len(o) \in Nat /\ o + len(o) <= A BY PagesAdvance
    <2> HIDE DEF page, len
    <2> QED BY <2>1, <2>2
  <1>7. f[A + 1] = -1 BY <1>3
  <1> HIDE DEF page, len
  <1>8. ASSUME NEW o \in used PROVE page(o) \subseteq all
    <2>1. o \in 0..A BY <1>5
    <2>2. len(o) \in Nat /\ o + len(o) <= A /\ \A n : n \in page(o) <=> \E i \in (o + 1)..(o + len(o)) : others[i] = n
      BY <1>6, <2>1
    <2>3. \A i \in (o + 1)..(o + len(o)) : i \in 1..A BY <2>1, <2>2
    <2>4. \A i \in 1..A : others[i] \in all BY DEF IsList
    <2> QED BY <2>2, <2>3, <2>4
  <1>9. ASSUME NEW n \in all PROVE \E o \in used : n \in page(o)
    <2>1. PICK i \in 1..A : others[i] = n OBVIOUS
    <2>2. PICK j \in 0..(A + 1) : f[j] # -1 /\ i \in (f[j] + 1)..(f[j] + len(f[j]))
      BY <1>3, <1>7 DEF Covered, len
    <2>3. f[j] \in used BY <1>4, <2>2
    <2>4. f[j] \in 0..A BY <1>5, <2>3
    <2>5. n \in page(f[j]) BY <1>6, <2>1, <2>2, <2>4
    <2> QED BY <2>3, <2>5
  <1>10. ASSUME NEW j \in 0..(A + 1), NEW k \in 0..(A + 1), j < k, f[j] # -1, f[k] # -1
         PROVE  page(f[j]) \cap page(f[k]) = {}
    <2>1. f[j] \in 0..A /\ f[k] \in 0..A BY <1>3, <1>10
    <2>2. f[j] + len(f[j]) <= f[k] BY <1>3, <1>10 DEF Behind, len
    <2>3. SUFFICES ASSUME NEW n \in page(f[j]), n \in page(f[k]) PROVE FALSE OBVIOUS
    <2>4. PICK a \in (f[j] + 1)..(f[j] + len(f[j])) : others[a] = n BY <1>6, <2>1, <2>3
    <2>5. PICK b \in (f[k] + 1)..(f[k] + len(f[k])) : others[b] = n BY <1>6, <2>1, <2>3
    <2>6. len(f[j]) \in Nat /\ len(f[k]) \in Nat /\ f[j] + len(f[j]) <= A /\ f[k] + len(f[k]) <= A
      BY <1>6, <2>1
    <2>7. a \in 1..A /\ b \in 1..A /\ a < b BY <2>1, <2>2, <2>6
    <2> QED BY <2>4, <2>5, <2>7
  <1>11. ASSUME NEW o \in used, NEW p \in used, o # p PROVE page(o) \cap page(p) = {}
    <2>1. PICK j \in 0..(A + 1) : f[j] = o BY <1>5
    <2>2. PICK k \in 0..(A + 1) : f[k] = p BY <1>5
    <2>3. o # -1 /\ p # -1 /\ (j < k \/ k < j) BY <1>11, <2>1, <2>2
    <2> QED BY <1>10, <2>1, <2>2, <2>3
  <1>12. UNION {page(o) : o \in used} = all BY <1>8, <1>9
  <1> HIDE DEF used
  <1> QED BY <1>1, <1>7, <1>11, <1>12

LEMMA OffsetsAreRequests ==
  ASSUME NEW request, IsViewRequest(request), OneRoot(request), NEW o \in Nat, NEW r, r = AtOffset(request, o)
  PROVE  /\ IsViewRequest(r) /\ OneRoot(r) /\ RootOf(r) = RootOf(request) /\ r.depth = 1 /\ r.offset = o
         /\ AsksAlike(r, request)
  <1>1. r = [request EXCEPT !.depth = 1, !.offset = o]
    BY DEF AtOffset, OneStep, OneRoot, IsViewRequest
  <1>2. IsViewRequest(r) /\ r.depth = 1 /\ r.offset = o /\ r.mode = request.mode /\ AsksAlike(r, request)
    <2> DEFINE T == [version : Nat, roots : SUBSET Nat, types : SUBSET STRING, links : SUBSET STRING,
                     direction : {"incoming", "outgoing", "both"}, depth : Nat, nodes : Nat \ {0}, edges : Nat,
                     confidence : Int, support : SUBSET Int, mode : {"full", "seeds", "neighbors"},
                     scope : {"adaptive", "internal", "detected"}, seeds : Nat \ {0}, offset : Nat]
    <2>1. request \in T /\ IsFiniteSet(request.roots) BY DEF IsViewRequest
    <2>2. r \in T
      <3>1. r = [version |-> request.version, roots |-> request.roots, types |-> request.types, links |-> request.links,
                 direction |-> request.direction, depth |-> 1, nodes |-> request.nodes, edges |-> request.edges,
                 confidence |-> request.confidence, support |-> request.support, mode |-> request.mode,
                 scope |-> request.scope, seeds |-> request.seeds, offset |-> o]
        BY <1>1, <2>1
      <3>2. 1 \in Nat /\ o \in Nat OBVIOUS
      <3>3. /\ request.version \in Nat /\ request.roots \in SUBSET Nat /\ request.types \in SUBSET STRING
            /\ request.links \in SUBSET STRING /\ request.direction \in {"incoming", "outgoing", "both"}
            /\ request.nodes \in Nat \ {0} /\ request.edges \in Nat /\ request.confidence \in Int
            /\ request.support \in SUBSET Int /\ request.mode \in {"full", "seeds", "neighbors"}
            /\ request.scope \in {"adaptive", "internal", "detected"} /\ request.seeds \in Nat \ {0}
        BY <2>1
      <3> HIDE DEF IsViewRequest
      <3> QED BY <3>1, <3>2, <3>3
    <2>3. r.depth = 1 /\ r.offset = o /\ r.mode = request.mode /\ AsksAlike(r, request)
      BY <1>1, <2>1 DEF AsksAlike
    <2> HIDE DEF T
    <2>4. IsViewRequest(r) BY <2>1, <2>2, <2>3 DEF IsViewRequest, T, AsksAlike
    <2> QED BY <2>3, <2>4
  <1>3. OneRoot(r) /\ RootOf(r) = RootOf(request) BY <1>2 DEF OneRoot, RootOf, AsksAlike
  <1> QED BY <1>2, <1>3

\* They keep the same part of a view, and order its nodes in the same way.
LEMMA OffsetsAgree ==
  ASSUME NEW request, IsViewRequest(request), OneRoot(request), NEW o \in Nat, NEW r, r = AtOffset(request, o),
         NEW q, q = AtOffset(request, 0)
  PROVE  /\ \A g, view : Filtered(g, view, r) = Filtered(g, view, request)
         /\ \A kept : Traversed(kept, r) = Traversed(kept, q)
         /\ \A g, nodes, found : OrderedNodes(g, nodes, found, r) = OrderedNodes(g, nodes, found, q)
  <1>1. /\ r.depth = 1 /\ r.roots = request.roots /\ r.types = request.types /\ r.links = request.links
        /\ r.direction = request.direction /\ r.confidence = request.confidence /\ r.support = request.support
    BY OffsetsAreRequests DEF AsksAlike
  <1>2. q.depth = 1 /\ q.roots = request.roots /\ q.direction = request.direction
    BY OffsetsAreRequests DEF AsksAlike
  <1>3. ASSUME NEW g, NEW view PROVE Filtered(g, view, r) = Filtered(g, view, request)
    BY <1>1, Zenon DEF Filtered, Supported
  <1>4. ASSUME NEW kept PROVE Traversed(kept, r) = Traversed(kept, q)
    <2>1. r.roots = q.roots /\ r.direction = q.direction /\ r.depth = q.depth
      BY <1>1, <1>2
    <2> QED BY <2>1, Zenon DEF Traversed
  <1>5. ASSUME NEW g, NEW nodes, NEW found PROVE OrderedNodes(g, nodes, found, r) = OrderedNodes(g, nodes, found, q)
    <2>1. r.roots = q.roots BY <1>1, <1>2
    <2> QED BY <2>1, Zenon DEF OrderedNodes
  <1> QED BY <1>3, <1>4, <1>5

\* One step finds the root and its neighbours.
LEMMA OneStepFinds ==
  ASSUME NEW kept, NEW request, IsViewRequest(request), OneRoot(request), RootOf(request) \in kept.nodes, request.depth = 1
  PROVE  Traversed(kept, request).nodes
           = {RootOf(request)} \cup Step(kept.edges, {RootOf(request)}, request.direction)
  <1> DEFINE root == RootOf(request)
             roots == request.roots \cap kept.nodes
             layers == LayersFrom(kept.edges, roots, request.direction, request.depth)
  <1>1. request.roots = {root} /\ request.roots # {} BY OneRootIsIt
  <1>2. Traversed(kept, request).nodes = layers[request.depth] BY <1>1 DEF Traversed
  <1>3. roots = {root} BY <1>1
  <1>4. AreLayers(layers, kept.edges, roots, request.direction, 1) BY LayersFollow
  <1> HIDE DEF layers, roots, root
  <1>5. layers[0] = roots /\ layers[1] = layers[0] \cup Step(kept.edges, layers[0], request.direction)
    BY <1>4 DEF AreLayers
  <1> QED BY <1>2, <1>3, <1>5 DEF root

\* The root and so many of the others from an offset.
LEMMA PageIsPart ==
  ASSUME NEW all, NEW A \in Nat, NEW others, ListsOnce(others, A, all),
         NEW root, root \notin all, NEW size \in Nat, NEW o \in 0..A
  PROVE  IsPageOf(RootFirst(root, others, o, size), others, all, A, size, o, root)
  <1> DEFINE L == PartLength(A, o, size)
             part == Slice(others, o, size)
             nodes == RootFirst(root, others, o, size)
  <1>0. IsList(others, A, all) /\ \A i, j \in 1..A : others[i] = others[j] => i = j
    BY DEF ListsOnce
  <1>1. /\ L \in Nat /\ (L > 0 => o + L <= A) /\ Len(part) = L /\ DOMAIN part = 1..L
        /\ \A i \in 1..L : part[i] = others[o + i]
        /\ part \in Seq(all)
    <2>1. o \in Nat OBVIOUS
    <2> HIDE DEF part
    <2>2. IsPart(part, others, o, L) /\ L \in Nat /\ (L > 0 => o + L <= A) /\ part \in Seq(all)
      <3> HIDE DEF L
      <3> QED BY <1>0, <2>1, SliceIsPart DEF part, L
    <2> HIDE DEF L
    <2> QED BY <2>2 DEF IsPart
  <1>2. nodes = <<root>> \o part BY DEF RootFirst
  <1> HIDE DEF nodes, part, L
  <1>3. \A n : n \in PageAt(others, A, size, o) <=> \E i \in (o + 1)..(o + L) : others[i] = n
    BY DEF PageAt, L
  <1>4. \A n : n \in Range(part) <=> \E i \in 1..L : others[o + i] = n BY <1>1 DEF Range
  <1>5. Range(part) = PageAt(others, A, size, o)
    <2>1. ASSUME NEW n \in Range(part) PROVE n \in PageAt(others, A, size, o)
      <3>1. PICK i \in 1..L : others[o + i] = n BY <1>4
      <3>2. o + i \in (o + 1)..(o + L) BY <1>1
      <3> QED BY <1>3, <3>1, <3>2
    <2>2. ASSUME NEW n \in PageAt(others, A, size, o) PROVE n \in Range(part)
      <3>1. PICK i \in (o + 1)..(o + L) : others[i] = n BY <1>3
      <3>2. i - o \in 1..L /\ o + (i - o) = i BY <1>1
      <3>3. others[o + (i - o)] = n BY <3>1, <3>2
      <3> QED BY <1>4, <3>2, <3>3
    <2> QED BY <2>1, <2>2
  <1>6. Range(part) \subseteq all BY <1>1 DEF Range
  <1>7. Range(nodes) = {root} \cup Range(part)
    <2>1. PICK S : S = {root} \cup all OBVIOUS
    <2>2. <<root>> \in Seq(S) /\ part \in Seq(S) BY <1>1, <2>1
    <2>3. Range(<<root>>) = {root}
      <3>1. DOMAIN <<root>> = {1} /\ <<root>>[1] = root OBVIOUS
      <3> QED BY <3>1 DEF Range
    <2>4. Range(<<root>> \o part) = Range(<<root>>) \cup Range(part)
      <3>1. PICK u : u = <<root>> OBVIOUS
      <3>2. u \in Seq(S) BY <2>2, <3>1
      <3>3. Range(u \o part) = Range(u) \cup Range(part) BY <2>2, <3>2, RangeOfConcat
      <3> QED BY <3>1, <3>3
    <2> HIDE DEF Slice
    <2> QED BY <1>2, <2>3, <2>4
  <1>8. Range(nodes) \ {root} = Range(part) BY <1>6, <1>7
  <1>9. Cardinality(Range(part)) = L
    <2>1. IsFiniteSet(1..L) /\ Cardinality(1..L) = L BY <1>1, FS_Interval
    <2>2. ASSUME NEW i \in 1..L, NEW j \in 1..L, part[i] = part[j] PROVE i = j
      <3>1. o + i \in 1..A /\ o + j \in 1..A BY <1>1
      <3>2. others[o + i] = others[o + j] BY <1>1, <2>2
      <3>3. o + i = o + j BY <1>0, <3>1, <3>2
      <3> QED BY <3>3
    <2>3. Range(part) = ImagesOf(part, 1..L) BY <1>1 DEF Range, ImagesOf
    <2>4. \A i, j \in 1..L : part[i] = part[j] => i = j BY <2>2
    <2>5. Cardinality(ImagesOf(part, 1..L)) = Cardinality(1..L) BY <2>1, <2>4, ImagesCount
    <2> QED BY <2>1, <2>3, <2>5
  <1>10. IsPageOf(nodes, others, all, A, size, o, root)
    BY <1>1, <1>5, <1>6, <1>8, <1>9 DEF IsPageOf, L
  <1> QED BY <1>10 DEF nodes

\* The next page begins behind the neighbours that a page has, if there are more.
LEMMA ExpansionIsNext ==
  ASSUME NEW kept, NEW r, NEW all, all = Step(kept.edges, {RootOf(r)}, r.direction), NEW A \in Nat, A = Cardinality(all),
         NEW size \in Nat \ {0}, NEW o \in 0..A, r.offset = o, NEW others, NEW nodes,
         IsPageOf(nodes, others, all, A, size, o, RootOf(r))
  PROVE  Expansion(kept, r, Range(nodes)).next = NextAt(A, size, o)
  <1> DEFINE L == PartLength(A, o, size)
             remaining == Max({0, A - o - L})
             shown == Range(nodes)
  <1>0. shown \ {RootOf(r)} \subseteq all /\ Cardinality(shown \ {RootOf(r)}) = L /\ L \in Nat
    BY DEF IsPageOf
  <1> HIDE DEF shown
  <1>1. (shown \ {RootOf(r)}) \cap all = shown \ {RootOf(r)}
    <2> HIDE DEF L
    <2> QED BY <1>0
  <1>2. Expansion(kept, r, shown).next = IF remaining > 0 THEN o + L ELSE -1
    BY <1>0, <1>1 DEF Expansion
  <1> HIDE DEF L
  <1>3. PICK d \in Int : d = A - o - L BY <1>0
  <1>4. Max({0, d}) = IF 0 >= d THEN 0 ELSE d
    <2>1. 0 \in Int /\ d \in Int OBVIOUS
    <2> QED BY <2>1, LeastOfTwo
  <1>5. remaining = Max({0, d}) BY <1>3
  <1> HIDE DEF remaining
  <1>6. NextAt(A, size, o) = IF o + L < A THEN o + L ELSE -1 BY DEF NextAt, L
  <1> QED BY <1>0, <1>2, <1>3, <1>4, <1>5, <1>6 DEF shown

\* What a projection for a root shows of it and of its neighbours.
LEMMA ProjectsRoot ==
  ASSUME NEW g, NEW view, NEW r, OneRoot(r), NEW server, NEW kept, kept = Filtered(g, view, r),
         NEW found, found = Traversed(kept, r), NEW root, root = RootOf(r),
         NEW nodes, nodes = Included(g, found, r, Min({r.nodes, server.nodes})),
         NEW p, p = Project(g, view, r, server)
  PROVE  p.nodes = nodes /\ p.expansion.next = Expansion(kept, r, Range(nodes)).next
  <1> DEFINE ex == IF OneRoot(r) THEN Expansion(kept, r, Range(nodes)) ELSE [remaining |-> 0, next |-> -1, leaf |-> TRUE]
  <1>1. \E edges, available, truncated, reason, state, more :
          p = [nodes     |-> nodes,
               edges     |-> edges,
               available |-> available,
               truncated |-> truncated,
               reason    |-> reason,
               state     |-> state,
               canExpand |-> more,
               expansion |-> ex]
    BY Zenon DEF Project
  <1>2. ex = Expansion(kept, r, Range(nodes)) OBVIOUS
  <1> HIDE DEF ex
  <1>3. p.nodes = nodes /\ p.expansion = ex BY <1>1
  <1> QED BY <1>2, <1>3

LEMMA IncludesRoot ==
  ASSUME NEW g, NEW found, NEW r, OneRoot(r), NEW root, root = RootOf(r), NEW all, root \notin all,
         found.nodes = {root} \cup all, NEW limit
  PROVE  Included(g, found, r, limit) = RootFirst(root, OrderedNodes(g, all, found, r), r.offset, limit - 1)
  <1>1. found.nodes \ {root} = all /\ root \in found.nodes OBVIOUS
  <1> QED BY <1>1, Zenon DEF Included, RootFirst

\* Following the next offset from page to page loads every neighbour of a node once and
\* ends (_project, _expansion_metadata), in every graph and for every request.
THEOREM PagesLeadToNeighbours ==
  ASSUME NEW g, IsViewGraph(g), NEW view, view.nodes \subseteq DOMAIN g.node, view.edges \subseteq g.edges,
         NEW request, IsViewRequest(request), NEW server, IsServer(server)
  PROVE  PagesCoverNeighbours(g, view, request, server)
  <1> DEFINE kept == Filtered(g, view, request)
             root == RootOf(request)
             all == Step(kept.edges, {root}, request.direction)
             A == Cardinality(all)
             at == [o \in 0..A |-> Project(g, view, [OneStep(request) EXCEPT !.offset = o], server)]
             limit == Min({request.nodes, server.nodes})
             q == AtOffset(request, 0)
             found == Traversed(kept, q)
             others == OrderedNodes(g, all, found, q)
  <1>0. SUFFICES ASSUME OneRoot(request), root \in kept.nodes, root \notin all, limit > 1
                 PROVE  PagesCover(at, all, root)
    BY DEF PagesCoverNeighbours
  <1>1. \A o \in 0..A : at[o] = Project(g, view, AtOffset(request, o), server)
    BY DEF AtOffset
  <1> HIDE DEF at
  <1>2. IsKept(kept) /\ kept.nodes \subseteq DOMAIN g.node /\ kept.edges \subseteq g.edges
    BY FilteredIsKept
  <1>3. IsViewRequest(q) /\ OneRoot(q) /\ RootOf(q) = root /\ q.depth = 1 /\ q.direction = request.direction
    BY <1>0, OffsetsAreRequests DEF AsksAlike
  <1> HIDE DEF kept, q, root
  <1>4. found.nodes = {root} \cup all BY <1>0, <1>3, OneStepFinds
  <1>5. TraversesTo(found, kept, q) BY <1>2, <1>3, TraversalIsReach
  <1> HIDE DEF found
  <1>6. found.nodes \subseteq kept.nodes /\ \A n \in found.nodes : found.distance[n] \in Nat
    BY <1>5 DEF TraversesTo, Wanted
  <1>7. all \subseteq kept.nodes /\ \A n \in all : found.distance[n] \in Nat
    <2> HIDE DEF all
    <2> QED BY <1>4, <1>6
  <1> HIDE DEF all
  <1>8. IsFiniteSet(all) /\ A \in Nat
    BY <1>2, <1>7, FS_Subset, FS_CardinalityType DEF IsKept
  <1>9. NearestFirst(others, A, all, found.distance) BY <1>2, <1>7, <1>8, NodesAreOrdered
  <1>10. limit \in Nat
    <2>1. PICK T : T = {request.nodes, server.nodes} OBVIOUS
    <2>2. T \in SUBSET Nat /\ T # {} BY <2>1 DEF IsViewRequest, IsServer
    <2>3. Min(T) \in Nat BY <2>2, LeastIn
    <2> QED BY <2>1, <2>3
  <1> HIDE DEF others, A, limit
  <1>11. PICK size \in Nat \ {0} : size + 1 = limit BY <1>0, <1>10
  <1>12. /\ IsList(others, A, all) /\ \A n \in all : \E i \in 1..A : others[i] = n
         /\ \A i, j \in 1..A : others[i] = others[j] => i = j
    BY <1>9 DEF NearestFirst
  <1>13. ASSUME NEW o \in 0..A
         PROVE  Range(at[o].nodes) \ {root} = PageAt(others, A, size, o) /\ at[o].expansion.next = NextAt(A, size, o)
    <2>1. PICK r : r = AtOffset(request, o) OBVIOUS
    <2>2. PICK nodes : nodes = Included(g, found, r, limit) OBVIOUS
    <2>3. /\ OneRoot(r) /\ RootOf(r) = root /\ r.offset = o /\ r.direction = request.direction /\ r.nodes = request.nodes
      BY <1>0, <2>1, OffsetsAreRequests DEF root, AsksAlike
    <2>4. Filtered(g, view, r) = kept /\ Traversed(kept, r) = found /\ OrderedNodes(g, all, found, r) = others
      BY <1>0, <2>1, OffsetsAgree DEF kept, found, others, q
    <2>5. nodes = RootFirst(root, others, o, size)
      <3>1. limit - 1 = size BY <1>11
      <3>2. root \notin all BY <1>0
      <3>3. Included(g, found, r, limit) = RootFirst(root, OrderedNodes(g, all, found, r), r.offset, limit - 1)
        BY ONLY <1>4, <2>3, <3>2, IncludesRoot
      <3> QED BY <2>2, <2>3, <2>4, <3>1, <3>3
    <2>6. at[o].nodes = nodes /\ at[o].expansion.next = Expansion(kept, r, Range(nodes)).next
      <3>1. nodes = Included(g, found, r, Min({r.nodes, server.nodes}))
        BY <2>2, <2>3 DEF limit
      <3>2. at[o] = Project(g, view, r, server) BY <1>1, <2>1
      <3>3. PICK p : p = Project(g, view, r, server) OBVIOUS
      <3>4. p.nodes = nodes /\ p.expansion.next = Expansion(kept, r, Range(nodes)).next
        BY <2>3, <2>4, <3>1, <3>3, ProjectsRoot
      <3> QED BY <3>2, <3>3, <3>4
    <2>7. IsPageOf(nodes, others, all, A, size, o, root)
      BY <1>0, <1>8, <1>12, <2>5, PageIsPart DEF ListsOnce
    <2>8. Expansion(kept, r, Range(nodes)).next = NextAt(A, size, o)
      <3>1. all = Step(kept.edges, {RootOf(r)}, r.direction) /\ A = Cardinality(all)
        BY <2>3 DEF all, A
      <3>2. A \in Nat /\ r.offset = o /\ IsPageOf(nodes, others, all, A, size, o, RootOf(r))
        BY <1>8, <2>3, <2>7
      <3> HIDE DEF all, A
      <3>3. \A s \in Nat \ {0} : IsPageOf(nodes, others, all, A, s, o, RootOf(r)) => Expansion(kept, r, Range(nodes)).next = NextAt(A, s, o)
        BY ONLY <3>1, <3>2, o \in 0..A, ExpansionIsNext
      <3> QED BY <3>2, <3>3
    <2> QED BY <2>6, <2>7, <2>8 DEF IsPageOf
  <1>14. ArePages(at, others, A, size, root) BY <1>13 DEF ArePages
  <1>15. A = Cardinality(all) BY DEF A
  <1> QED BY <1>8, <1>12, <1>14, <1>15, PagesHaveAll

LEMMA ConcatIs ==
  ASSUME NEW S, NEW s \in Seq(S), NEW t \in Seq(S)
  PROVE  /\ s \o t \in Seq(S) /\ Len(s \o t) = Len(s) + Len(t)
         /\ \A i \in 1..(Len(s) + Len(t)) : (s \o t)[i] = IF i <= Len(s) THEN s[i] ELSE t[i - Len(s)]
  OBVIOUS

LEMMA TimesAdvance ==
  ASSUME NEW k \in Nat, NEW s \in Nat \ {0}
  PROVE  k * s \in Nat /\ (k + 1) * s = k * s + s /\ k * s >= k
  OBVIOUS

LEMMA PagesAddUp ==
  ASSUME NEW N \in Nat, NEW size \in Nat \ {0}, NEW k \in Nat
  PROVE  /\ OnPages(N, size, k) \in 0..N /\ PartLength(N, k * size, size) \in Nat
         /\ OnPages(N, size, k + 1) = OnPages(N, size, k) + PartLength(N, k * size, size)
         /\ PartLength(N, k * size, size) > 0 => OnPages(N, size, k) = k * size
         /\ OnPages(N, size, 0) = 0
         /\ N <= k => OnPages(N, size, k) = N
  <1>1. k * size \in Nat /\ (k + 1) * size = k * size + size /\ k * size >= k
    BY TimesAdvance
  <1>2. PICK o \in Nat : o = k * size BY <1>1
  <1>3. PICK n \in Nat : n = (k + 1) * size BY <1>1
  <1>4. 0 * size = 0 OBVIOUS
  <1>5. n = o + size /\ o >= k BY <1>1, <1>2, <1>3
  <1>6. OnPages(N, size, k) = IF N <= o THEN N ELSE o BY <1>2 DEF OnPages
  <1>7. OnPages(N, size, k + 1) = IF N <= n THEN N ELSE n BY <1>3 DEF OnPages
  <1>8. PartLength(N, o, size) = IF N <= o THEN 0 ELSE IF N - o <= size THEN N - o ELSE size
    BY DEF PartLength
  <1>9. OnPages(N, size, 0) = 0 BY <1>4 DEF OnPages
  <1> QED BY <1>2, <1>5, <1>6, <1>7, <1>8, <1>9

\* A page of a ranking.
LEMMA SeedPageIsPart ==
  ASSUME NEW S, NEW N \in Nat, NEW ranked, IsList(ranked, N, S), NEW request, IsViewRequest(request),
         NEW server, IsServer(server), NEW size, size = SeedLimit(request, server), NEW k \in Nat,
         NEW p, p = SeedPageAt(ranked, request, server, k)
  PROVE  SeedPageFits(p, ranked, S, N, size, k)
  <1>1. size \in Nat \ {0}
    <2>1. PICK T : T = {request.seeds, request.nodes, server.nodes} OBVIOUS
    <2>2. T \in SUBSET (Nat \ {0}) /\ T # {} BY <2>1 DEF IsViewRequest, IsServer
    <2>3. Min(T) \in T BY <2>2, LeastIn
    <2> QED BY <2>1, <2>2, <2>3 DEF SeedLimit
  <1>2. PICK o \in Nat : o = k * size BY <1>1, TimesAdvance
  <1>3. PICK r : r = [request EXCEPT !.offset = o] OBVIOUS
  <1>4. r.offset = o /\ r.seeds = request.seeds /\ r.nodes = request.nodes
    BY <1>3 DEF IsViewRequest
  <1>5. SeedLimit(r, server) = size BY <1>4 DEF SeedLimit
  <1> DEFINE part == Slice(ranked, o, size)
             L == PartLength(N, o, size)
  <1>6. p.seeds = part /\ p.additional = Max({0, Len(ranked) - o - Len(part)})
    <2>1. p = SeedPage(ranked, r, server) BY <1>2, <1>3 DEF SeedPageAt
    <2> HIDE DEF part
    <2>2. p = [seeds |-> part, additional |-> Max({0, Len(ranked) - o - Len(part)})]
      BY <1>4, <1>5, <2>1, Zenon DEF SeedPage, part
    <2> QED BY <2>2
  <1>7. L \in Nat /\ IsPart(part, ranked, o, L) /\ part \in Seq(S)
    <2> HIDE DEF part, L
    <2>1. size \in Nat BY <1>1
    <2> QED BY <2>1, SliceIsPart DEF part, L
  <1>8. p.additional = N - OnPages(N, size, k + 1)
    <2> HIDE DEF part
    <2>1. Len(part) = L /\ Len(ranked) = N BY <1>7 DEF IsPart, IsList
    <2> HIDE DEF L
    <2>2. PICK d \in Int : d = N - o - L BY <1>7
    <2>3. Max({0, d}) = IF 0 >= d THEN 0 ELSE d
      <3>1. 0 \in Int /\ d \in Int OBVIOUS
      <3> QED BY <3>1, LeastOfTwo
    <2>4. p.additional = Max({0, d}) BY <1>6, <2>1, <2>2
    <2>5. PICK u, v : u = OnPages(N, size, k) /\ v = OnPages(N, size, k + 1) OBVIOUS
    <2>6. u \in 0..N /\ v = u + L /\ (L > 0 => u = o)
      <3>1. /\ OnPages(N, size, k) \in 0..N
            /\ OnPages(N, size, k + 1) = OnPages(N, size, k) + PartLength(N, k * size, size)
            /\ PartLength(N, k * size, size) > 0 => OnPages(N, size, k) = k * size
        BY <1>1, PagesAddUp
      <3> QED BY <1>2, <2>5, <3>1 DEF L
    <2>7. v = IF N <= o + size THEN N ELSE o + size
      BY <1>1, <1>2, <2>5, TimesAdvance DEF OnPages
    <2>8. L = IF N <= o THEN 0 ELSE IF N - o <= size THEN N - o ELSE size
      BY DEF L, PartLength
    <2> QED BY <1>1, <2>2, <2>3, <2>4, <2>5, <2>7, <2>8
  <1> QED BY <1>1, <1>2, <1>6, <1>7, <1>8 DEF SeedPageFits

LEMMA ReadingEnds ==
  ASSUME NEW S, NEW N \in Nat, NEW ranked, IsList(ranked, N, S), NEW request, IsViewRequest(request),
         NEW server, IsServer(server), NEW size, size = SeedLimit(request, server)
  PROVE  /\ \E f : ReadsPages(f, ranked, N, size, request, server)
         /\ \A f : ReadsPages(f, ranked, N, size, request, server) => f[N + 1] = ranked
  <1> DEFINE seeds(k) == SeedPage(ranked, [request EXCEPT !.offset = k * size], server).seeds
  <1>1. ASSUME NEW k \in Nat
        PROVE  /\ seeds(k) \in Seq(S) /\ IsPart(seeds(k), ranked, k * size, PartLength(N, k * size, size))
               /\ size \in Nat \ {0}
    <2>1. PICK p : p = SeedPageAt(ranked, request, server, k) OBVIOUS
    <2>2. SeedPageFits(p, ranked, S, N, size, k) BY <2>1, SeedPageIsPart
    <2> QED BY <2>1, <2>2 DEF SeedPageAt, SeedPageFits
  <1>2. \A f : ReadsPages(f, ranked, N, size, request, server) <=>
                 f = [k \in 0..(N + 1) |-> IF k = 0 THEN <<>> ELSE f[k - 1] \o seeds(k - 1)]
    BY DEF ReadsPages
  <1> HIDE DEF seeds
  <1>3. size \in Nat \ {0} BY <1>1
  <1>4. \E f : ReadsPages(f, ranked, N, size, request, server)
    <2> DEFINE Z == Seq(S)
               st == [p \in (1..(N + 1)) \X Z |-> p[2] \o seeds(p[1] - 1)]
    <2>1. ASSUME NEW s \in Z, NEW k \in 1..(N + 1) PROVE s \o seeds(k - 1) \in Z BY <1>1
    <2>2. <<>> \in Z OBVIOUS
    <2> HIDE DEF Z
    <2>3. st \in [(1..(N + 1)) \X Z -> Z] BY <2>1
    <2>4. \A k \in 1..(N + 1), s \in Z : st[<<k, s>>] = s \o seeds(k - 1) OBVIOUS
    <2> HIDE DEF st
    <2>5. PICK f \in [0..(N + 1) -> Z] : Folds(<<>>, st, N + 1, f)
      <3>1. N + 1 \in Nat OBVIOUS
      <3> QED BY <2>2, <2>3, <3>1, FoldExists
    <2>6. ASSUME NEW k \in 0..(N + 1), k # 0 PROVE st[<<k, f[k - 1]>>] = f[k - 1] \o seeds(k - 1)
      <3>1. k \in 1..(N + 1) /\ f[k - 1] \in Z BY <2>5, <2>6
      <3> QED BY <2>4, <3>1
    <2>7. f = [k \in 0..(N + 1) |-> IF k = 0 THEN <<>> ELSE f[k - 1] \o seeds(k - 1)]
      BY <2>5, <2>6 DEF Folds
    <2> QED BY <1>2, <2>7
  <1>5. ASSUME NEW f, ReadsPages(f, ranked, N, size, request, server) PROVE f[N + 1] = ranked
    <2>1. \A k \in 0..(N + 1) : f[k] = IF k = 0 THEN <<>> ELSE f[k - 1] \o seeds(k - 1)
      BY <1>2, <1>5
    <2> DEFINE Reads(k) == /\ f[k] \in Seq(S) /\ Len(f[k]) = OnPages(N, size, k)
                           /\ \A i \in 1..OnPages(N, size, k) : f[k][i] = ranked[i]
               T == {k \in Nat : k <= N + 1 => Reads(k)}
    <2>2. 0 \in T
      <3>1. OnPages(N, size, 0) = 0 BY <1>3, PagesAddUp
      <3>2. f[0] = <<>> BY <2>1
      <3>3. <<>> \in Seq(S) /\ Len(<<>>) = 0 OBVIOUS
      <3>4. Reads(0) BY <3>1, <3>2, <3>3
      <3> QED BY <3>4
    <2>3. ASSUME NEW k \in Nat, k \in T PROVE k + 1 \in T
      <3> SUFFICES ASSUME k + 1 <= N + 1 PROVE Reads(k + 1) OBVIOUS
      <3>1. Reads(k) BY <2>3
      <3>2. PICK a, b, c : a = f[k] /\ b = seeds(k) /\ c = f[k + 1] OBVIOUS
      <3>3. c = a \o b
        <4>1. k + 1 \in 0..(N + 1) /\ k + 1 # 0 /\ (k + 1) - 1 = k OBVIOUS
        <4> QED BY <2>1, <3>2, <4>1
      <3>4. PICK L, o, u, v : L = PartLength(N, k * size, size) /\ o = k * size /\ u = OnPages(N, size, k) /\ v = OnPages(N, size, k + 1)
        OBVIOUS
      <3>5. b \in Seq(S) /\ Len(b) = L /\ \A i \in 1..L : b[i] = ranked[o + i]
        BY <1>1, <3>2, <3>4 DEF IsPart
      <3>6. a \in Seq(S) /\ Len(a) = u /\ \A i \in 1..u : a[i] = ranked[i]
        BY <3>1, <3>2, <3>4
      <3>7. u \in 0..N /\ L \in Nat /\ v = u + L /\ (L > 0 => u = o)
        BY <1>3, <3>4, PagesAddUp
      <3>8. c \in Seq(S) /\ Len(c) = v /\ \A i \in 1..v : c[i] = IF i <= u THEN a[i] ELSE b[i - u]
        <4>1. /\ c \in Seq(S) /\ Len(c) = Len(a) + Len(b)
              /\ \A i \in 1..(Len(a) + Len(b)) : c[i] = IF i <= Len(a) THEN a[i] ELSE b[i - Len(a)]
          BY <3>3, <3>5, <3>6, ConcatIs
        <4>2. Len(a) = u /\ Len(b) = L /\ Len(a) + Len(b) = v BY <3>5, <3>6, <3>7
        <4> QED BY <4>1, <4>2
      <3>9. ASSUME NEW i \in 1..v PROVE c[i] = ranked[i]
        <4>1. CASE i <= u BY <3>6, <3>7, <3>8, <4>1
        <4>2. CASE i > u
          <5>1. i - u \in 1..L /\ o + (i - u) = i BY <3>7, <4>2
          <5>2. c[i] = b[i - u] BY <3>7, <3>8, <4>2
          <5>3. b[i - u] = ranked[o + (i - u)] BY <3>5, <5>1
          <5> QED BY <5>1, <5>2, <5>3
        <4> QED BY <3>7, <4>1, <4>2
      <3> QED BY <3>2, <3>4, <3>8, <3>9
    <2>4. \A k \in Nat : k \in T
      <3> HIDE DEF T
      <3> QED BY <2>2, <2>3, SetInduction
    <2>5. Reads(N + 1) BY <2>4
    <2>6. OnPages(N, size, N + 1) = N BY <1>3, PagesAddUp
    <2>7. PICK s : s = f[N + 1] OBVIOUS
    <2>8. s \in Seq(S) /\ Len(s) = N /\ \A i \in 1..N : s[i] = ranked[i]
      BY <2>5, <2>6, <2>7
    <2>9. ranked \in Seq(S) /\ Len(ranked) = N BY DEF IsList
    <2>10. s = ranked BY <2>8, <2>9
    <2> QED BY <2>7, <2>10
  <1> QED BY <1>4, <1>5

\* The pages of a ranking are the ranking, and each counts what is left behind it.
LEMMA SeedPagesAreParts ==
  ASSUME NEW S, NEW N \in Nat, NEW ranked, IsList(ranked, N, S), NEW request, IsViewRequest(request),
         NEW server, IsServer(server)
  PROVE  SeedPagesPartition(ranked, request, server)
  <1> DEFINE size == SeedLimit(request, server)
             page(i) == SeedPage(ranked, [request EXCEPT !.offset = i * size], server)
             f == CHOOSE f : ReadsPages(f, ranked, N, size, request, server)
  <1>1. Len(ranked) = N BY DEF IsList
  <1>2. SeedPagesPartition(ranked, request, server) <=>
          /\ f[N + 1] = ranked
          /\ \A i \in 0..N : page(i).additional = N - Min({N, (i + 1) * size})
    BY <1>1 DEF SeedPagesPartition, ReadsPages
  <1> HIDE DEF size
  <1>3. f[N + 1] = ranked BY ReadingEnds DEF size
  <1>4. ASSUME NEW i \in 0..N PROVE page(i).additional = N - Min({N, (i + 1) * size})
    <2>1. PICK p : p = page(i) OBVIOUS
    <2>2. p.additional = N - OnPages(N, size, i + 1) /\ size \in Nat \ {0}
      <3>1. PICK s : s = SeedLimit(request, server) OBVIOUS
      <3>2. i \in Nat /\ p = SeedPageAt(ranked, request, server, i)
        BY <2>1, <3>1 DEF size, SeedPageAt
      <3> HIDE DEF page
      <3>3. SeedPageFits(p, ranked, S, N, s, i) BY <3>1, <3>2, SeedPageIsPart
      <3> QED BY <3>1, <3>3 DEF size, SeedPageFits
    <2>3. PICK n \in Int : n = (i + 1) * size BY <2>2
    <2>4. Min({N, n}) = IF N <= n THEN N ELSE n BY LeastOfTwo
    <2>5. OnPages(N, size, i + 1) = IF N <= n THEN N ELSE n BY <2>3 DEF OnPages
    <2> HIDE DEF page
    <2> QED BY <2>1, <2>2, <2>3, <2>4, <2>5
  <1> HIDE DEF f, page
  <1> QED BY <1>2, <1>3, <1>4

LEMMA DegreesAreNumbers ==
  ASSUME NEW edges, IsFiniteSet(edges), NEW n
  PROVE  In(edges, n) \in Nat /\ Out(edges, n) \in Nat /\ Degree(edges, n) \in Nat
  <1>1. {e \in edges : e.target = n} \subseteq edges /\ {e \in edges : e.source = n} \subseteq edges
    OBVIOUS
  <1>2. IsFiniteSet({e \in edges : e.target = n}) /\ IsFiniteSet({e \in edges : e.source = n})
    BY <1>1, FS_Subset
  <1>3. In(edges, n) \in Nat /\ Out(edges, n) \in Nat
    BY <1>2, FS_CardinalityType DEF In, Out
  <1> QED BY <1>3 DEF Degree

\* Pairs and triples that end in the number of a node are keys.
LEMMA PairsAreKeys ==
  ASSUME NEW S \in SUBSET Int, NEW key, NEW a, \A n \in S : a[n] \in Int /\ key[n] = <<a[n], n>>
  PROVE  Keys(key, S, 2)
  <1>1. ASSUME NEW n \in S PROVE key[n] \in [1..2 -> Int] /\ Len(key[n]) = 2 /\ key[n][2] = n
    <2>1. key[n] = <<a[n], n>> /\ a[n] \in Int /\ n \in Int OBVIOUS
    <2> QED BY <2>1
  <1>2. 2 \in 1..2 OBVIOUS
  <1> QED BY <1>1, <1>2 DEF Keys

LEMMA TriplesAreKeys ==
  ASSUME NEW S \in SUBSET Int, NEW key, NEW a, NEW b, \A n \in S : a[n] \in Int /\ b[n] \in Int /\ key[n] = <<a[n], b[n], n>>
  PROVE  Keys(key, S, 3)
  <1>1. ASSUME NEW n \in S PROVE key[n] \in [1..3 -> Int] /\ Len(key[n]) = 3 /\ key[n][3] = n
    <2>1. key[n] = <<a[n], b[n], n>> /\ a[n] \in Int /\ b[n] \in Int /\ n \in Int OBVIOUS
    <2> QED BY <2>1
  <1>2. 3 \in 1..3 OBVIOUS
  <1> QED BY <1>1, <1>2 DEF Keys

LEMMA SortedRanks ==
  ASSUME NEW S, IsFiniteSet(S), NEW key, NEW n \in Nat \ {0}, Keys(key, S, n)
  PROVE  ListsAll(SortedBy(S, key), S)
  BY SortedOnce DEF ListsAll

\* Every ranking is a list of nodes.
LEMMA RankingsAreLists ==
  ASSUME NEW g, IsViewGraph(g), NEW request, NEW ranked \in Rankings(g, request)
  PROVE  \E S : ListsAll(ranked, S)
  <1> DEFINE view == Everything(g)
  <1>1. view.nodes \subseteq DOMAIN g.node /\ view.edges \subseteq g.edges
    <2>1. view = View("all", g, AnyFile, request) /\ "all" \in ViewKinds
      BY DEF View, ViewKinds
    <2> HIDE DEF view
    <2> QED BY <2>1, ViewsAreParts
  <1> HIDE DEF view
  <1>2. ASSUME NEW S, S \subseteq view.nodes PROVE IsFiniteSet(S) /\ S \in SUBSET Int
    BY <1>1, <1>2, FS_Subset DEF IsViewGraph
  <1>3. CASE ranked = EntryRanking(g, view, request)
    <2> DEFINE asked == request.types \cap {"endpoint", "api_call"}
               S == {n \in view.nodes : g.node[n].type \in IF asked = {} THEN {"endpoint", "api_call"} ELSE asked}
               linked(n, type) == \E e \in Supported(view.edges, request) : e.source = n /\ e.type = type
               priority(n) == IF g.node[n].type = "endpoint"
                              THEN IF linked(n, "exposes_endpoint") THEN 0 ELSE 2
                              ELSE IF linked(n, "calls_api") THEN 1 ELSE 3
               key == [n \in S |-> <<priority(n), n>>]
               a == [n \in S |-> priority(n)]
    <2>1. ranked = SortedBy(S, key) BY <1>3 DEF EntryRanking
    <2>2. S \subseteq view.nodes OBVIOUS
    <2>3. \A n : priority(n) \in Int
      <3> HIDE DEF linked
      <3> QED OBVIOUS
    <2> HIDE DEF S, priority
    <2>4. \A n \in S : a[n] \in Int /\ key[n] = <<a[n], n>> BY <2>3
    <2> HIDE DEF key, a
    <2>5. IsFiniteSet(S) /\ Keys(key, S, 2) BY <1>2, <2>2, <2>4, PairsAreKeys
    <2>6. ListsAll(SortedBy(S, key), S) BY <2>5, SortedRanks
    <2> QED BY <2>1, <2>6
  <1>4. CASE ranked = CallableRanking(g, view, request)
    <2> DEFINE edges == Supported(view.edges, request)
               S == {n \in view.nodes : g.node[n].type \in {"function", "method"}}
               recursive(n) == \E e \in edges : e.source = n /\ e.target = n
               score(n) == (IF g.node[n].file \in g.handlers THEN 10 ELSE 0) + (IF recursive(n) THEN 8 ELSE 0)
                           + 2 * In(edges, n) + Out(edges, n)
               key == [n \in S |-> <<-score(n), n>>]
               a == [n \in S |-> -score(n)]
    <2>1. ranked = SortedBy(S, key) BY <1>4 DEF CallableRanking
    <2>2. S \subseteq view.nodes OBVIOUS
    <2>3. IsFiniteSet(edges)
      <3>1. edges \subseteq g.edges BY <1>1 DEF Supported
      <3> HIDE DEF edges
      <3> QED BY <3>1, FS_Subset DEF IsViewGraph
    <2>4. ASSUME NEW n PROVE -score(n) \in Int
      <3> HIDE DEF edges
      <3>1. In(edges, n) \in Nat /\ Out(edges, n) \in Nat BY <2>3, DegreesAreNumbers
      <3> HIDE DEF recursive
      <3> QED BY <3>1
    <2> HIDE DEF S, score
    <2>5. \A n \in S : a[n] \in Int /\ key[n] = <<a[n], n>> BY <2>4
    <2> HIDE DEF key, a
    <2>6. IsFiniteSet(S) /\ Keys(key, S, 2) BY <1>2, <2>2, <2>5, PairsAreKeys
    <2>7. ListsAll(SortedBy(S, key), S) BY <2>6, SortedRanks
    <2> QED BY <2>1, <2>7
  <1>5. CASE ranked = ValueRanking(g, view, request)
    <2> DEFINE kept == Filtered(g, view, request)
               S == kept.nodes \cap request.roots
               priority(n) == CASE g.node[n].role = "parameter" -> 0 [] g.node[n].role = "definition" -> 1
                                [] g.node[n].role = "use" -> 2 [] OTHER -> 3
               key == [n \in S |-> <<priority(n), -Degree(kept.edges, n), n>>]
               a == [n \in S |-> priority(n)]
               b == [n \in S |-> -Degree(kept.edges, n)]
    <2>1. ranked = SortedBy(S, key) BY <1>5 DEF ValueRanking
    <2>2. kept.nodes \subseteq DOMAIN g.node /\ IsFiniteSet(kept.edges)
      BY <1>1, FilteredIsKept DEF IsKept
    <2> HIDE DEF kept
    <2>3. IsFiniteSet(S) /\ S \in SUBSET Int
      <3>1. S \subseteq DOMAIN g.node BY <2>2
      <3> HIDE DEF S
      <3>2. DOMAIN g.node \subseteq Nat /\ IsFiniteSet(DOMAIN g.node) BY DEF IsViewGraph
      <3> QED BY <3>1, <3>2, FS_Subset
    <2>4. \A n : priority(n) \in Int OBVIOUS
    <2>5. \A n : -Degree(kept.edges, n) \in Int BY <2>2, DegreesAreNumbers
    <2> HIDE DEF S, priority
    <2>6. \A n \in S : a[n] \in Int /\ b[n] \in Int /\ key[n] = <<a[n], b[n], n>>
      BY <2>4, <2>5
    <2> HIDE DEF key, a, b
    <2>7. Keys(key, S, 3) BY <2>3, <2>6, TriplesAreKeys
    <2>8. ListsAll(SortedBy(S, key), S) BY <2>3, <2>7, SortedRanks
    <2> QED BY <2>1, <2>8
  <1> QED BY <1>3, <1>4, <1>5 DEF Rankings, view

\* The pages of every ranking are the ranking (get_seeds), in every graph and for every
\* request.
THEOREM SeedPagesAreWhole ==
  ASSUME NEW g, IsViewGraph(g), NEW request, IsViewRequest(request), NEW server, IsServer(server),
         NEW ranked \in Rankings(g, request)
  PROVE  SeedPagesPartition(ranked, request, server)
  <1>1. PICK S : ListsAll(ranked, S) BY RankingsAreLists
  <1>2. PICK N \in Nat : IsList(ranked, N, S) BY <1>1 DEF ListsAll
  <1> QED BY <1>2, SeedPagesAreParts

\* What has the smaller key comes first.
LEMMA FavouredComesFirst ==
  ASSUME NEW E, IsFiniteSet(E), NEW N, N = Cardinality(E), NEW key, NEW n \in Nat \ {0}, Keys(key, E, n),
         NEW V \in SUBSET E, \A i \in E : key[i][1] = IF i \in V THEN 0 ELSE 1,
         NEW order, order = SortedBy(E, key)
  PROVE  FavouredFirst(order, N, E, V)
  <1> DEFINE P == {k \in 1..N : order[k] \in V}
  <1>1. /\ N \in Nat /\ IsList(order, N, E)
        /\ \A x \in E : \E i \in 1..N : order[i] = x
        /\ \A i, j \in 1..N : order[i] = order[j] => i = j
        /\ \A i, j \in 1..N : i < j => key[order[i]][1] <= key[order[j]][1]
    BY SortedOnce
  <1>2. \A i \in 1..N : order[i] \in E BY <1>1 DEF IsList
  <1>3. ASSUME NEW k \in P, NEW j \in 1..N, j < k PROVE j \in P
    <2>1. key[order[j]][1] <= key[order[k]][1] /\ key[order[k]][1] = 0 BY <1>1, <1>2, <1>3
    <2>2. key[order[j]][1] # 1 BY <2>1
    <2> QED BY <1>2, <2>2
  <1>4. P \in SUBSET (1..N) /\ IsFiniteSet(P)
    <2>1. IsFiniteSet(1..N) /\ P \subseteq 1..N BY <1>1, FS_Interval
    <2> HIDE DEF P
    <2> QED BY <2>1, FS_Subset
  <1>5. ImagesOf(order, P) = V BY <1>1 DEF ImagesOf
  <1> HIDE DEF P
  <1>6. Cardinality(V) = Cardinality(P)
    <2>1. \A x, y \in P : order[x] = order[y] => x = y BY <1>1, <1>4
    <2>2. Cardinality(ImagesOf(order, P)) = Cardinality(P) BY <1>4, <2>1, ImagesCount
    <2> QED BY <1>5, <2>2
  <1>7. Cardinality(P) \in 0..N /\ P = 1..Cardinality(P)
    BY <1>1, <1>3, <1>4, BeginningIsInterval
  <1>8. FirstOf(order, Cardinality(P)) = V BY <1>5, <1>7 DEF FirstOf, ImagesOf
  <1>9. FirstOf(order, N) = E BY <1>1, <1>2 DEF FirstOf
  <1> QED BY <1>1, <1>6, <1>7, <1>8, <1>9 DEF FavouredFirst

\* The nodes worth starting from are a list, each of them once.
LEMMA StartingPointsAreRanked ==
  ASSUME NEW g, IsViewGraph(g), NEW kept, IsKept(kept), kept.nodes \subseteq DOMAIN g.node
  PROVE  \E S, N : /\ N \in Nat /\ IsList(StartingPoints(g, kept), N, S)
                   /\ \A i, j \in 1..N : StartingPoints(g, kept)[i] = StartingPoints(g, kept)[j] => i = j
                   /\ S \subseteq DOMAIN g.node
  <1> DEFINE threshold == DegreeThreshold(kept)
             enough    == IF Cardinality(kept.nodes) <= 3 THEN Max({1, threshold}) ELSE Max({2, threshold})
             strong(n) == g.node[n].entrypoint \/ g.node[n].file \in g.handlers
             score(n)  == (IF g.node[n].entrypoint THEN 8 ELSE 0)
                          + (IF g.node[n].file \in g.handlers THEN 6 ELSE 0)
                          + (IF In(kept.edges, n) > 0 /\ Out(kept.edges, n) > 0 THEN 4 ELSE 0)
                          + 2 * In(kept.edges, n) + Out(kept.edges, n)
             S   == {n \in kept.nodes : strong(n) \/ Degree(kept.edges, n) >= enough}
             key == [n \in S |-> <<-score(n), g.node[n].region, n>>]
             a   == [n \in S |-> -score(n)]
             b   == [n \in S |-> g.node[n].region]
             s   == StartingPoints(g, kept)
  <1>1. s = SortedBy(S, key) BY DEF StartingPoints
  <1>2. S \subseteq kept.nodes OBVIOUS
  <1> HIDE DEF S, s
  <1>3. S \subseteq DOMAIN g.node /\ IsFiniteSet(S) /\ S \in SUBSET Int
    BY <1>2, FS_Subset DEF IsKept, IsViewGraph
  <1>4. ASSUME NEW n PROVE -score(n) \in Int BY DegreesAreNumbers DEF IsKept
  <1>5. \A n \in S : g.node[n].region \in Int BY <1>3 DEF IsViewGraph
  <1> HIDE DEF score
  <1>6. \A n \in S : a[n] \in Int /\ b[n] \in Int /\ key[n] = <<a[n], b[n], n>>
    BY <1>4, <1>5
  <1> HIDE DEF key, a, b
  <1>7. Keys(key, S, 3) BY <1>3, <1>6, TriplesAreKeys
  <1>8. PICK N : N = Cardinality(S) OBVIOUS
  <1>9. N \in Nat /\ IsList(s, N, S) /\ \A i, j \in 1..N : s[i] = s[j] => i = j
    BY <1>1, <1>3, <1>7, <1>8, SortedOnce
  <1> QED BY <1>3, <1>9 DEF s

\* The first nodes of the regions: one of each.
LEMMA NewRegionsAreOneEach ==
  ASSUME NEW g, NEW ranked, NEW N \in Nat
  PROVE  /\ RegionsOf(g, ranked, NewRegions(g, ranked, N)) = RegionsOf(g, ranked, 1..N)
         /\ \A i, j \in NewRegions(g, ranked, N) : g.node[ranked[i]].region = g.node[ranked[j]].region => i = j
  <1> DEFINE region(i) == g.node[ranked[i]].region
             new == NewRegions(g, ranked, N)
  <1>1. \A i : i \in new <=> i \in 1..N /\ ~\E j \in 1..(i - 1) : region(j) = region(i)
    BY DEF NewRegions, RegionAgain
  <1> HIDE DEF new, region
  <1>2. ASSUME NEW i \in new, NEW j \in new, region(i) = region(j) PROVE i = j
    BY <1>1, <1>2
  <1>3. ASSUME NEW i \in 1..N PROVE \E j \in new : region(j) = region(i)
    <2> DEFINE K == {k \in 1..N : region(k) = region(i)}
    <2>1. K \in SUBSET Nat /\ K # {} OBVIOUS
    <2>2. PICK k \in K : \A m \in K : k <= m
      <3> HIDE DEF K
      <3> QED BY <2>1, LeastIn
    <2>3. k \in 1..N /\ region(k) = region(i) OBVIOUS
    <2>4. ASSUME NEW m \in 1..(k - 1), region(m) = region(k) PROVE FALSE
      BY <2>2, <2>3, <2>4
    <2> QED BY <1>1, <2>3, <2>4
  <1>4. new \subseteq 1..N BY <1>1
  <1>5. RegionsOf(g, ranked, new) = RegionsOf(g, ranked, 1..N)
    BY <1>3, <1>4 DEF RegionsOf, region
  <1> QED BY <1>2, <1>5 DEF new, region

\* So many of the regions, if the first of each come first.
LEMMA RegionsAreMany ==
  ASSUME NEW g, NEW ranked, NEW N \in Nat, NEW E, E = 1..N, NEW size \in Nat,
         NEW order, IsList(order, N, E), FirstOf(order, N) = E, \A j, k \in 1..N : order[j] = order[k] => j = k,
         NEW new, new = NewRegions(g, ranked, N), NEW F \in 0..N, F = Cardinality(new), FirstOf(order, F) = new,
         NEW L, L = IF N <= size THEN N ELSE size
  PROVE  Cardinality(RegionsOf(g, ranked, FirstOf(order, L))) = Min({size, Cardinality(RegionsOf(g, ranked, E))})
  <1>1. /\ RegionsOf(g, ranked, new) = RegionsOf(g, ranked, E)
        /\ \A i, j \in new : g.node[ranked[i]].region = g.node[ranked[j]].region => i = j
    BY NewRegionsAreOneEach
  <1>2. IsFiniteSet(new) /\ new \subseteq E
    <2>1. new \subseteq E /\ IsFiniteSet(E) BY FS_Interval DEF NewRegions
    <2> QED BY <2>1, FS_Subset
  <1>3. ASSUME NEW I \in SUBSET new PROVE Cardinality(RegionsOf(g, ranked, I)) = Cardinality(I)
    <2> DEFINE region == [i \in I |-> g.node[ranked[i]].region]
    <2>1. IsFiniteSet(I) BY <1>2, FS_Subset
    <2>2. \A i, j \in I : region[i] = region[j] => i = j BY <1>1
    <2>3. ImagesOf(region, I) = RegionsOf(g, ranked, I) BY DEF ImagesOf, RegionsOf
    <2> HIDE DEF region
    <2>4. Cardinality(ImagesOf(region, I)) = Cardinality(I) BY <2>1, <2>2, ImagesCount
    <2> QED BY <2>3, <2>4
  <1>4. Cardinality(RegionsOf(g, ranked, E)) = F BY <1>1, <1>3
  <1>5. L \in 0..N /\ L \in Nat /\ F \in Nat OBVIOUS
  <1>6. Min({size, F}) = IF size <= F THEN size ELSE F BY LeastOfTwo
  <1>7. CASE L <= F
    <2>1. FirstOf(order, L) \subseteq FirstOf(order, F) BY <1>5, <1>7 DEF FirstOf
    <2>2. FirstOf(order, L) \in SUBSET new BY <2>1
    <2>3. Cardinality(RegionsOf(g, ranked, FirstOf(order, L))) = Cardinality(FirstOf(order, L))
      BY <1>3, <2>2
    <2>4. Cardinality(FirstOf(order, L)) = L BY <1>5, FirstOfCounts
    <2>5. L = Min({size, F}) BY <1>5, <1>6, <1>7
    <2> QED BY <1>4, <2>3, <2>4, <2>5
  <1>8. CASE F < L
    <2>1. FirstOf(order, F) \subseteq FirstOf(order, L) /\ FirstOf(order, L) \subseteq FirstOf(order, N)
      BY <1>5, <1>8 DEF FirstOf
    <2>2. new \subseteq FirstOf(order, L) /\ FirstOf(order, L) \subseteq E BY <2>1
    <2>3. RegionsOf(g, ranked, FirstOf(order, L)) = RegionsOf(g, ranked, E)
      <3>1. \A I, J : I \subseteq J => RegionsOf(g, ranked, I) \subseteq RegionsOf(g, ranked, J)
        BY DEF RegionsOf
      <3>2. /\ RegionsOf(g, ranked, new) \subseteq RegionsOf(g, ranked, FirstOf(order, L))
            /\ RegionsOf(g, ranked, FirstOf(order, L)) \subseteq RegionsOf(g, ranked, E)
        BY <2>2, <3>1
      <3> QED BY <1>1, <3>2
    <2>4. Min({size, F}) = F BY <1>5, <1>6, <1>8
    <2> QED BY <1>4, <2>3, <2>4
  <1> QED BY <1>5, <1>7, <1>8

\* Seeds show as many regions as fit, each of its nodes once (_dependency_seeds), in every
\* graph and for every request.
THEOREM SeedsSpan ==
  ASSUME NEW g, IsViewGraph(g), NEW view, view.nodes \subseteq DOMAIN g.node, view.edges \subseteq g.edges,
         NEW request, IsViewRequest(request), NEW server, IsServer(server)
  PROVE  SeedsSpanRegions(g, view, request, server)
  <1> DEFINE kept == Filtered(g, view, request)
             seeds == DependencySeeds(g, kept, request, server)
             ranked == StartingPoints(g, kept)
             size == SeedLimit(request, server)
             regions(seq) == {g.node[n].region : n \in Range(seq)}
  <1>1. SeedsSpanRegions(g, view, request, server) <=>
          /\ Cardinality(regions(seeds)) = Min({size, Cardinality(regions(ranked))})
          /\ Cardinality(Range(seeds)) = Len(seeds)
          /\ Len(seeds) = Min({size, Len(ranked)})
    BY DEF SeedsSpanRegions
  <1>2. IsKept(kept) /\ kept.nodes \subseteq DOMAIN g.node BY FilteredIsKept
  <1> HIDE DEF kept
  <1>3. PICK S, N : /\ N \in Nat /\ IsList(ranked, N, S)
                    /\ \A i, j \in 1..N : ranked[i] = ranked[j] => i = j
    BY <1>2, StartingPointsAreRanked
  <1>4. DOMAIN ranked = 1..N /\ Len(ranked) = N /\ \A i \in 1..N : ranked[i] \in S
    BY <1>3 DEF IsList
  <1>5. size \in Nat \ {0}
    <2>1. PICK T : T = {request.seeds, request.nodes, server.nodes} OBVIOUS
    <2>2. T \in SUBSET (Nat \ {0}) /\ T # {} BY <2>1 DEF IsViewRequest, IsServer
    <2>3. Min(T) \in T BY <2>2, LeastIn
    <2> QED BY <2>1, <2>2, <2>3 DEF SeedLimit
  <1> DEFINE E == 1..N
             again(i) == \E j \in 1..(i - 1) : g.node[ranked[j]].region = g.node[ranked[i]].region
             key == [i \in E |-> <<IF again(i) THEN 1 ELSE 0, i>>]
             order == SortedBy(E, key)
             listed == [i \in DOMAIN order |-> ranked[order[i]]]
             new == NewRegions(g, ranked, N)
             L == IF N <= size THEN N ELSE size
  <1>6. seeds = Slice(listed, 0, size) BY <1>4 DEF DependencySeeds
  <1> HIDE DEF ranked, size, seeds
  <1>7. \A i : i \in new <=> i \in E /\ ~again(i) BY DEF NewRegions, RegionAgain
  <1> HIDE DEF again, new
  <1>8. IsFiniteSet(E) /\ Cardinality(E) = N /\ E \in SUBSET Int BY <1>3, FS_Interval
  <1>9. /\ Keys(key, E, 2) /\ \A i \in E : key[i][1] = IF i \in new THEN 0 ELSE 1
    <2> DEFINE a == [i \in E |-> IF again(i) THEN 1 ELSE 0]
    <2>1. \A i \in E : a[i] \in Int /\ key[i] = <<a[i], i>> OBVIOUS
    <2>2. \A i \in E : key[i][1] = IF i \in new THEN 0 ELSE 1 BY <1>7
    <2> HIDE DEF a, key, E
    <2>3. Keys(key, E, 2) BY <1>8, <2>1, PairsAreKeys
    <2> QED BY <2>2, <2>3
  <1>10. new \in SUBSET E BY <1>7
  <1> HIDE DEF key
  <1>11. /\ IsList(order, N, E) /\ FirstOf(order, N) = E
         /\ \A j, k \in 1..N : order[j] = order[k] => j = k
         /\ Cardinality(new) \in 0..N /\ FirstOf(order, Cardinality(new)) = new
    <2> HIDE DEF E
    <2>1. 2 \in Nat \ {0} OBVIOUS
    <2> HIDE DEF order
    <2>2. order = SortedBy(E, key) /\ N = Cardinality(E) BY <1>8 DEF order
    <2>3. FavouredFirst(order, N, E, new)
      BY <1>8, <1>9, <1>10, <2>1, <2>2, FavouredComesFirst
    <2> QED BY <2>3 DEF FavouredFirst
  <1> HIDE DEF order
  <1>12. IsList(listed, N, S) /\ \A i \in 1..N : listed[i] = ranked[order[i]] /\ order[i] \in 1..N
    BY <1>3, <1>4, <1>11 DEF IsList
  <1> HIDE DEF listed
  <1>13. L = PartLength(N, 0, size) /\ L \in 0..N BY <1>3, <1>5 DEF PartLength
  <1> HIDE DEF L
  <1>14. Len(seeds) = L /\ DOMAIN seeds = 1..L /\ \A i \in 1..L : seeds[i] = listed[i]
    <2>1. 0 \in Nat /\ size \in Nat BY <1>5
    <2>2. IsPart(seeds, listed, 0, L) BY <1>3, <1>6, <1>12, <1>13, <2>1, SliceIsPart
    <2>3. \A i \in 1..L : 0 + i = i OBVIOUS
    <2> QED BY <2>2, <2>3 DEF IsPart
  <1>15. \A i \in 1..L : i \in 1..N /\ seeds[i] = ranked[order[i]]
    BY <1>3, <1>12, <1>13, <1>14
  <1>16. Cardinality(Range(seeds)) = L
    <2>1. \A i, j \in 1..L : seeds[i] = seeds[j] => i = j
      <3>1. ASSUME NEW i \in 1..L, NEW j \in 1..L, seeds[i] = seeds[j] PROVE i = j
        <4>1. order[i] \in 1..N /\ order[j] \in 1..N /\ ranked[order[i]] = ranked[order[j]] /\ i \in 1..N /\ j \in 1..N
          BY <1>12, <1>15, <3>1
        <4>2. order[i] = order[j] BY <1>3, <4>1
        <4> QED BY <1>11, <4>1, <4>2
      <3> QED BY <3>1
    <2>2. IsFiniteSet(1..L) /\ Cardinality(1..L) = L BY <1>13, FS_Interval
    <2>3. Range(seeds) = ImagesOf(seeds, 1..L) BY <1>14 DEF Range, ImagesOf
    <2>4. Cardinality(ImagesOf(seeds, 1..L)) = Cardinality(1..L)
      BY <2>1, <2>2, ImagesCount
    <2> QED BY <2>2, <2>3, <2>4
  <1>17. regions(seeds) = RegionsOf(g, ranked, FirstOf(order, L))
    BY <1>14, <1>15 DEF Range, FirstOf, RegionsOf
  <1>18. regions(ranked) = RegionsOf(g, ranked, E) BY <1>4 DEF Range, RegionsOf
  <1>19. Cardinality(RegionsOf(g, ranked, FirstOf(order, L))) = Min({size, Cardinality(RegionsOf(g, ranked, E))})
    <2>1. PICK F \in 0..N : F = Cardinality(new) BY <1>11
    <2>2. FirstOf(order, F) = new BY <1>11, <2>1
    <2>3. L = IF N <= size THEN N ELSE size BY DEF L
    <2>4. E = 1..N /\ size \in Nat /\ new = NewRegions(g, ranked, N) BY <1>5 DEF new
    <2> HIDE DEF E
    <2> QED BY <1>3, <1>11, <2>1, <2>2, <2>3, <2>4, RegionsAreMany
  <1>20. L = Min({size, N}) BY <1>3, <1>5, LeastOfTwo DEF L
  <1> HIDE DEF regions
  <1> QED BY <1>1, <1>4, <1>14, <1>16, <1>17, <1>18, <1>19, <1>20

---------------------------------------------------------------------------
(* Impact: what a report shows. *)

\* Places of hits can be sorted by merit, the nearest first.
LEMMA MeritsSort ==
  ASSUME NEW g, NEW hits \in Seq(Entries(g)), NEW items, items \subseteq DOMAIN hits
  PROVE  LET s == SortedBy(items, Merits(hits))
             N == Cardinality(items)
         IN /\ N \in Nat /\ IsList(s, N, items) /\ \A x \in items : \E i \in 1..N : s[i] = x
            /\ \A i, j \in 1..N : s[i] = s[j] => i = j
            /\ \A i, j \in 1..N : i < j => hits[s[i]].depth <= hits[s[j]].depth
            /\ \A i, j \in 1..N : i < j <=> Before(Merits(hits)[s[i]], Merits(hits)[s[j]])
  <1> DEFINE key == Merits(hits)
             s == SortedBy(items, key)
             N == Cardinality(items)
  <1>1. Len(hits) \in Nat /\ DOMAIN hits = 1..Len(hits) OBVIOUS
  <1>2. IsFiniteSet(items) BY <1>1, IntervalIsFinite, FS_Subset
  <1>3. ASSUME NEW x \in items
        PROVE  /\ key[x] \in [1..3 -> Int] /\ Len(key[x]) = 3
               /\ key[x][1] = hits[x].depth /\ key[x][3] = x
    <2>1. x \in DOMAIN hits /\ x \in Int /\ hits[x] \in Entries(g) BY <1>1
    <2>2. hits[x].depth \in Int /\ hits[x].confidence \in Int BY <2>1 DEF Entries
    <2>3. key[x] = <<hits[x].depth, -hits[x].confidence, x>> BY <2>1 DEF Merits
    <2> QED BY <2>1, <2>2, <2>3
  <1> HIDE DEF key
  <1>4. Keys(key, items, 3) BY <1>3 DEF Keys
  <1>5. SortsBy(s, items, key) BY <1>2, <1>4, SortedIsSorted
  <1>6. /\ N \in Nat /\ IsList(s, N, items)
        /\ \A x \in items : \E i \in 1..N : s[i] = x
        /\ \A i, j \in 1..N : s[i] = s[j] => i = j
        /\ \A i, j \in 1..N : i < j => key[s[i]][1] <= key[s[j]][1]
    BY <1>2, <1>4, SortedOnce
  <1> HIDE DEF s, N
  <1>7. \A i, j \in 1..N : i < j => hits[s[i]].depth <= hits[s[j]].depth
    BY <1>3, <1>6 DEF IsList
  <1> QED BY <1>5, <1>6, <1>7 DEF SortsBy, key, s, N

\* The first hit of each thing is the nearest one of it (_unique_items).
LEMMA UniqueRepresents ==
  ASSUME NEW g, NEW hits \in Seq(Entries(g)), NEW about, about \subseteq DOMAIN hits, NEW thing
  PROVE  Represents(Unique(hits, about, thing), about, hits, thing)
  <1> DEFINE key == Merits(hits)
             like(i) == {j \in about : thing[hits[j].node] = thing[hits[i].node]}
             s(i) == SortedBy(like(i), key)
             N(i) == Cardinality(like(i))
             items == Unique(hits, about, thing)
  <1>1. ASSUME NEW i \in about
        PROVE  /\ N(i) \in Nat /\ IsList(s(i), N(i), like(i)) /\ \A x \in like(i) : \E k \in 1..N(i) : s(i)[k] = x
               /\ \A k, m \in 1..N(i) : k < m => hits[s(i)[k]].depth <= hits[s(i)[m]].depth
               /\ \A k, m \in 1..N(i) : k < m <=> Before(key[s(i)[k]], key[s(i)[m]])
    <2>1. like(i) \subseteq DOMAIN hits OBVIOUS
    <2> HIDE DEF like
    <2> QED BY <2>1, MeritsSort
  <1>2. \A i : i \in items <=> i \in about /\ \A j \in like(i) : ~Before(key[j], key[i])
    BY DEF Unique
  <1>3. \A i \in about : i \in like(i) /\ like(i) \subseteq about /\ \A j \in like(i) : like(j) = like(i) /\ s(j) = s(i)
    OBVIOUS
  <1>4. \A i, j \in about : thing[hits[i].node] = thing[hits[j].node] <=> i \in like(j)
    OBVIOUS
  <1> HIDE DEF key, like, items
  <1>5. ASSUME NEW i \in items, NEW j \in items, j \in like(i) PROVE i = j
    <2>0. i \in about /\ j \in about BY <1>2
    <2>1. PICK k \in 1..N(i), m \in 1..N(i) : s(i)[k] = i /\ s(i)[m] = j
      BY <1>1, <1>3, <1>5, <2>0
    <2>2. ~Before(key[j], key[i]) /\ ~Before(key[i], key[j]) BY <1>2, <1>3, <1>5, <2>0
    <2>3. k \in Int /\ m \in Int /\ ~(k < m) /\ ~(m < k) BY <1>1, <2>0, <2>1, <2>2
    <2> QED BY <2>1, <2>3
  <1>6. ASSUME NEW i \in about PROVE \E j \in items : j \in like(i) /\ hits[j].depth <= hits[i].depth
    <2>1. PICK m \in 1..N(i) : s(i)[m] = i BY <1>1, <1>3
    <2>2. N(i) \in Nat /\ 1 \in 1..N(i) /\ m \in Nat BY <1>1, <2>1
    <2> DEFINE j == s(i)[1]
    <2>3. j \in like(i) /\ j \in about /\ like(j) = like(i) BY <1>1, <1>3, <2>2 DEF IsList
    <2>4. ASSUME NEW x \in like(j) PROVE ~Before(key[x], key[j])
      <3>1. PICK k \in 1..N(i) : s(i)[k] = x BY <1>1, <2>3
      <3>2. ~(k < 1) BY <2>2
      <3> QED BY <1>1, <2>2, <3>1, <3>2
    <2>5. j \in items BY <1>2, <2>3, <2>4
    <2>6. hits[j].depth <= hits[i].depth
      <3>1. hits[i].depth \in Int
        <4>1. hits[i] \in Entries(g) OBVIOUS
        <4> QED BY <4>1 DEF Entries
      <3>2. CASE m = 1 BY <2>1, <3>1, <3>2
      <3>3. CASE m # 1 BY <1>1, <2>1, <2>2, <3>3
      <3> QED BY <3>2, <3>3
    <2> QED BY <2>3, <2>5, <2>6
  <1>7. items \subseteq about BY <1>2
  <1>8. \A i, j \in items : thing[hits[i].node] = thing[hits[j].node] => i = j
    BY <1>4, <1>5, <1>7
  <1>9. \A i \in about : \E j \in items : thing[hits[j].node] = thing[hits[i].node] /\ hits[j].depth <= hits[i].depth
    BY <1>4, <1>6, <1>7
  <1> QED BY <1>7, <1>8, <1>9 DEF Represents, items

\* The beginning of such a list is what a response may show.
LEMMA FirstAreNearest ==
  ASSUME NEW g, NEW hits \in Seq(Entries(g)), NEW about, about \subseteq DOMAIN hits, NEW thing,
         NEW items, Represents(items, about, hits, thing), NEW nodes, NEW distance,
         HitsAreAbout(hits, about, nodes, distance), NEW cap \in Nat
  PROVE  ShowsNearest(HitsAt(hits, Slice(SortedBy(items, Merits(hits)), 0, cap)), nodes, thing, distance, cap)
  <1> DEFINE s == SortedBy(items, Merits(hits))
             N == Cardinality(items)
             p == Slice(s, 0, cap)
             L == PartLength(N, 0, cap)
             shown == HitsAt(hits, p)
  <1>1. items \subseteq about BY DEF Represents
  <1>2. /\ N \in Nat /\ IsList(s, N, items) /\ \A x \in items : \E i \in 1..N : s[i] = x
        /\ \A i, j \in 1..N : s[i] = s[j] => i = j
        /\ \A i, j \in 1..N : i < j => hits[s[i]].depth <= hits[s[j]].depth
    BY <1>1, MeritsSort
  <1> HIDE DEF s, N
  <1>3. L \in Nat /\ L <= cap /\ L <= N /\ (L = N \/ L = cap) BY <1>2 DEF PartLength
  <1>4. IsPart(p, s, 0, L) BY <1>2, SliceIsPart
  <1> HIDE DEF p, L
  <1>5. DOMAIN p = 1..L /\ \A i \in 1..L : p[i] = s[i] BY <1>3, <1>4 DEF IsPart
  <1>6. DOMAIN shown = 1..L /\ Len(shown) = L /\ \A i \in 1..L : shown[i] = hits[s[i]]
    <2>1. shown = [i \in 1..L |-> hits[p[i]]] BY <1>5 DEF HitsAt
    <2> HIDE DEF shown
    <2> QED BY <1>3, <1>5, <2>1
  <1> HIDE DEF shown
  <1>7. ASSUME NEW i \in 1..L PROVE i \in 1..N /\ s[i] \in items /\ s[i] \in about
    BY <1>1, <1>2, <1>3 DEF IsList
  <1>8. \A i \in 1..L : shown[i].node \in nodes /\ shown[i].depth = distance[shown[i].node]
    BY <1>6, <1>7 DEF HitsAreAbout
  <1>9. \A i, j \in 1..L : thing[shown[i].node] = thing[shown[j].node] => i = j
    BY <1>2, <1>6, <1>7 DEF Represents
  <1>10. ASSUME NEW n \in nodes
         PROVE  \/ \E i \in 1..L : thing[shown[i].node] = thing[n] /\ shown[i].depth <= distance[n]
                \/ L = cap /\ \A i \in 1..L : shown[i].depth <= distance[n]
    <2>1. PICK a \in about : hits[a].node = n /\ hits[a].depth = distance[n]
      BY DEF HitsAreAbout
    <2>2. PICK b \in items : thing[hits[b].node] = thing[n] /\ hits[b].depth <= distance[n]
      BY <2>1 DEF Represents
    <2>3. PICK m \in 1..N : s[m] = b BY <1>2
    <2>4. CASE m <= L BY <1>2, <1>3, <1>6, <2>2, <2>3, <2>4
    <2>5. CASE ~(m <= L)
      <3>1. m \in Nat /\ L = cap BY <1>2, <1>3, <2>5
      <3>2. ASSUME NEW i \in 1..L PROVE shown[i].depth <= distance[n]
        <4>1. hits[s[i]].depth <= hits[b].depth BY <1>2, <1>3, <1>7, <2>3, <2>5, <3>1
        <4>2. hits[s[i]] \in Entries(g) /\ hits[b] \in Entries(g) /\ hits[a] \in Entries(g)
          BY <1>1, <1>7
        <4>3. \A h \in Entries(g) : h.depth \in Int BY DEF Entries
        <4>4. hits[s[i]].depth \in Int /\ hits[b].depth \in Int /\ distance[n] \in Int
          BY <2>1, <4>2, <4>3
        <4> QED BY <1>6, <2>2, <4>1, <4>4
      <3> QED BY <3>1, <3>2
    <2> QED BY <2>4, <2>5
  <1> QED BY <1>3, <1>6, <1>8, <1>9, <1>10 DEF ShowsNearest, shown, p, s

\* For every finite closed graph, every target, every depth that is asked for and all caps.
LEMMA ReportsAreDistances ==
  ASSUME NEW g, IsGraph(g), NEW type, NEW ref, NEW depth \in Int,
         NEW caps, caps \in [Lists -> Nat]
  PROVE  ReportIsDistance(g, type, ref, depth, caps)
  <1> DEFINE roots == Roots(g, type, ref)
             limit == BoundedDepth(depth)
             hits == Hits(g, roots, limit)
             found == Analyze(g, type, ref, depth, caps)
             step(S) == Further(g, S)
             Within(w) == w = [k \in 0..limit |-> IF k = 0 THEN roots ELSE step(w[k - 1])]
             within == CHOOSE w : Within(w)
             W(k) == Near(g, roots, k)
             near == within[limit] \ roots
             distance == [n \in near |-> Min({k \in DOMAIN within : n \in within[k]})]
             root == Min(roots)
             shown(list) == Shown(g, list, root, hits, caps[list])
             about(list) == AboutNodes(g, list, root, near, distance)
             level == RiskLevel(RiskScore(g, hits))
  <1>1. roots \in SUBSET DOMAIN g.node BY DEF Roots
  <1>2. limit \in 1..4 /\ limit \in Nat BY DepthIsBounded
  <1>3. ReportIsDistance(g, type, ref, depth, caps) <=>
          /\ \A list \in Lists : ShowsNearest(found.shown[list], about(list), Thing(g, list), distance, caps[list])
          /\ found.level = "unknown" <=> near = {}
    BY DEF ReportIsDistance, Further, AboutNodes
  <1>4. /\ roots = {} => (\A list \in Lists : found.shown[list] = <<>>) /\ found.level = "unknown"
        /\ roots # {} => (\A list \in Lists : found.shown[list] = shown(list)) /\ found.level = level
    BY DEF Analyze
  <1> HIDE DEF roots, limit
  <1>5. FoundNear(g, roots, limit, hits) BY <1>1, <1>2, HitsAreNear
  <1> HIDE DEF hits, found, step, shown, root
  <1>6. /\ W(0) = roots
        /\ \A k \in Nat : W(k + 1) = step(W(k))
        /\ \A m, n \in Nat : m <= n => W(m) \subseteq W(n)
    <2> HIDE DEF W
    <2>1. /\ W(0) = roots
          /\ \A k \in Nat : W(k + 1) = Further(g, W(k))
          /\ \A m, n \in Nat : m <= n => W(m) \subseteq W(n)
      BY <1>1, NearEquations DEF W
    <2> QED BY <2>1 DEF step
  <1> HIDE DEF W
  <1>7. DOMAIN within = 0..limit /\ \A k \in 0..limit : within[k] = W(k)
    <2>1. Within([k \in 0..limit |-> W(k)])
      <3> DEFINE w == [k \in 0..limit |-> W(k)]
      <3>1. ASSUME NEW k \in 0..limit, k # 0 PROVE w[k] = step(w[k - 1])
        BY <1>2, <1>6, <3>1
      <3>2. ASSUME NEW k \in 0..limit PROVE w[k] = IF k = 0 THEN roots ELSE step(w[k - 1])
        BY <1>6, <3>1
      <3>3. w = [k \in 0..limit |-> w[k]] OBVIOUS
      <3> HIDE DEF w
      <3>4. w = [k \in 0..limit |-> IF k = 0 THEN roots ELSE step(w[k - 1])] BY <3>2, <3>3
      <3> QED BY <3>4 DEF w
    <2>2. Within(within)
      <3> HIDE DEF Within
      <3> QED BY <2>1
    <2> HIDE DEF within
    <2> DEFINE T == {k \in Nat : k <= limit => within[k] = W(k)}
    <2>3. 0 \in T BY <1>2, <1>6, <2>2
    <2>4. ASSUME NEW k \in Nat, k \in T PROVE k + 1 \in T
      <3> SUFFICES ASSUME k + 1 <= limit PROVE within[k + 1] = W(k + 1) OBVIOUS
      <3>1. k + 1 \in 0..limit /\ k + 1 # 0 /\ (k + 1) - 1 = k /\ k <= limit BY <1>2
      <3>2. within[k + 1] = step(within[k]) BY <2>2, <3>1
      <3> QED BY <1>6, <2>4, <3>1, <3>2
    <2>5. \A k \in Nat : k \in T
      <3> HIDE DEF T
      <3> QED BY <2>3, <2>4, SetInduction
    <2>6. DOMAIN within = 0..limit BY <2>2
    <2> QED BY <1>2, <2>5, <2>6
  <1> HIDE DEF within
  <1>8. CASE roots = {}
    <2> DEFINE T == {k \in Nat : W(k) = {}}
    <2>1. 0 \in T BY <1>6, <1>8
    <2>2. ASSUME NEW k \in Nat, k \in T PROVE k + 1 \in T BY <1>6, <2>2 DEF step, Further
    <2>3. limit \in T
      <3> HIDE DEF T
      <3> QED BY <1>2, <2>1, <2>2, SetInduction
    <2>4. within[limit] = {} BY <1>2, <1>7, <2>3
    <2>5. near = {} /\ \A list : about(list) = {} BY <2>4 DEF AboutNodes
    <2>6. <<>> \in Seq({}) /\ Len(<<>>) = 0 /\ DOMAIN <<>> = {} OBVIOUS
    <2> HIDE DEF distance, about, near
    <2>7. \A list \in Lists : ShowsNearest(<<>>, about(list), Thing(g, list), distance, caps[list])
      BY <2>5, <2>6 DEF ShowsNearest
    <2> QED BY <1>3, <1>4, <1>8, <2>5, <2>7
  <1>9. CASE roots # {}
    <2>2. hits \in Seq(Entries(g)) /\ Len(hits) \in Nat /\ DOMAIN hits = 1..Len(hits)
      BY <1>5 DEF FoundNear
    <2>3. ASSUME NEW i \in DOMAIN hits
          PROVE  /\ hits[i].depth \in 1..limit
                 /\ \A k \in 0..limit : hits[i].node \in W(k) <=> hits[i].depth <= k
                 /\ hits[i].node \notin roots
      <3> DEFINE h == hits[i]
      <3>1. h \in Entries(g) /\ h \in Range(hits) BY <2>2 DEF Range
      <3>2. Exact(g, roots, h) /\ 1 <= h.depth /\ h.depth <= limit
        BY <1>5, <3>1 DEF FoundNear
      <3> HIDE DEF h
      <3>3. h.depth \in Nat BY <3>1 DEF Entries
      <3>4. h.node \in W(h.depth) /\ \A k \in Nat : k < h.depth => h.node \notin W(k)
        BY <3>2 DEF Exact, W
      <3>5. \A k \in 0..limit : h.node \in W(k) <=> h.depth <= k
        <4> SUFFICES ASSUME NEW k \in 0..limit PROVE h.node \in W(k) <=> h.depth <= k
          OBVIOUS
        <4>1. k \in Nat BY <1>2
        <4>2. CASE h.depth <= k BY <1>6, <3>3, <3>4, <4>1, <4>2
        <4>3. CASE ~ (h.depth <= k) BY <3>3, <3>4, <4>1, <4>3
        <4> QED BY <4>2, <4>3
      <3>6. h.depth \in 1..limit /\ h.node \notin W(0) BY <1>2, <3>2, <3>3, <3>5
      <3> QED BY <1>6, <3>5, <3>6 DEF h
    <2>4. {hits[i].node : i \in DOMAIN hits} = near
      <3>1. within[limit] = W(limit) BY <1>2, <1>7
      <3>2. ASSUME NEW i \in DOMAIN hits PROVE hits[i].node \in W(limit) \ roots
        BY <1>2, <2>3
      <3>3. ASSUME NEW y \in W(limit), y \notin roots PROVE \E i \in DOMAIN hits : hits[i].node = y
        <4>1. PICK h \in Range(hits) : h.node = y BY <1>5, <3>3 DEF FoundNear, W
        <4> QED BY <4>1 DEF Range
      <3> QED BY <3>1, <3>2, <3>3
    <2>5. \A i, j \in DOMAIN hits : hits[i].node = hits[j].node => i = j
      BY <1>5, <2>2 DEF FoundNear
    <2>6. ASSUME NEW i \in DOMAIN hits PROVE hits[i].depth = distance[hits[i].node]
      <3> DEFINE K == {k \in DOMAIN within : hits[i].node \in within[k]}
                 c == hits[i].depth
      <3>1. c \in Nat /\ c \in 0..limit /\ \A k \in 0..limit : hits[i].node \in W(k) <=> c <= k
        BY <1>2, <2>3
      <3>2. K \subseteq 0..limit /\ \A k \in 0..limit : k \in K <=> c <= k BY <1>7, <3>1
      <3>3. distance[hits[i].node] = Min(K) BY <2>4
      <3> HIDE DEF K, c, distance
      <3>4. c \in K /\ \A k \in K : c <= k BY <3>1, <3>2
      <3>5. Min(K) \in K /\ \A k \in K : Min(K) <= k BY <3>4 DEF Min
      <3>6. Min(K) \in Nat
        <4>1. Min(K) \in 0..limit BY <3>2, <3>5
        <4> QED BY <1>2, <4>1
      <3>7. c = Min(K) BY <3>1, <3>4, <3>5, <3>6
      <3> QED BY <3>3, <3>7 DEF c
    <2>7. level = "unknown" <=> hits = <<>> BY <2>2, RiskIsOfHits
    <2> HIDE DEF distance, level, near
    <2>8. near = {} <=> hits = <<>>
      <3>1. near = {} <=> 1..Len(hits) = {} BY <2>2, <2>4
      <3>2. hits # <<>> => 1 \in 1..Len(hits) BY <2>2
      <3> QED BY <2>2, <3>1, <3>2
    <2>9. ASSUME NEW list \in Lists
          PROVE  ShowsNearest(shown(list), about(list), Thing(g, list), distance, caps[list])
      <3> DEFINE mine == AboutHits(g, list, root, hits)
                 thing == Thing(g, list)
                 items == IF list \in {"direct", "indirect"} THEN mine ELSE Unique(hits, mine, thing)
      <3>1. mine \subseteq DOMAIN hits BY DEF AboutHits
      <3>2. HitsAreAbout(hits, mine, about(list), distance)
        <4>1. \A h, k : h.node = k.node /\ h.depth = k.depth => Listed(g, list, root, h) = Listed(g, list, root, k)
          BY DEF Listed
        <4>2. ASSUME NEW i \in DOMAIN hits
              PROVE  /\ hits[i].node \in near /\ hits[i].depth = distance[hits[i].node]
                     /\ i \in mine <=> hits[i].node \in about(list)
          <5>1. hits[i].node \in near /\ hits[i].depth = distance[hits[i].node]
            BY <2>4, <2>6
          <5> DEFINE k == [node |-> hits[i].node, depth |-> distance[hits[i].node]]
          <5>2. k.node = hits[i].node /\ k.depth = hits[i].depth BY <5>1
          <5>3. Listed(g, list, root, hits[i]) = Listed(g, list, root, k) BY <4>1, <5>2
          <5> QED BY <5>1, <5>3 DEF AboutHits, AboutNodes
        <4>3. \A n \in about(list) : \E i \in DOMAIN hits : hits[i].node = n
          BY <2>4 DEF AboutNodes
        <4> HIDE DEF mine, about
        <4> QED BY <3>1, <4>2, <4>3 DEF HitsAreAbout
      <3>3. Represents(items, mine, hits, thing)
        <4>1. CASE list \in {"direct", "indirect"}
          <5>1. \A n \in DOMAIN g.node : thing[n] = n BY <4>1 DEF Thing
          <5>2. \A i \in DOMAIN hits : hits[i].node \in DOMAIN g.node /\ hits[i].depth \in Nat
            <6>1. \A h \in Entries(g) : h.node \in DOMAIN g.node /\ h.depth \in Nat
              BY DEF Entries
            <6> QED BY <2>2, <6>1
          <5>3. items = mine BY <4>1
          <5> HIDE DEF items, mine, thing
          <5> QED BY <2>5, <3>1, <5>1, <5>2, <5>3 DEF Represents
        <4>2. CASE list \notin {"direct", "indirect"}
          <5>1. items = Unique(hits, mine, thing) BY <4>2
          <5> HIDE DEF items, mine, thing
          <5> QED BY <2>2, <3>1, <5>1, UniqueRepresents
        <4> QED BY <4>1, <4>2
      <3>4. shown(list) = HitsAt(hits, Slice(SortedBy(items, Merits(hits)), 0, caps[list]))
        BY DEF shown, Shown, HitsAt, AboutHits
      <3> HIDE DEF mine, items, thing, about
      <3>5. ShowsNearest(shown(list), about(list), thing, distance, caps[list])
        BY <2>2, <3>1, <3>2, <3>3, <3>4, FirstAreNearest
      <3> QED BY <3>5 DEF thing
    <2> HIDE DEF about
    <2> QED BY <1>3, <1>4, <1>9, <2>7, <2>8, <2>9
  <1> QED BY <1>8, <1>9

---------------------------------------------------------------------------
(* The algorithms on the inputs that they are given. *)

LEMMA AppendedIsSequence ==
  ASSUME NEW s, s \in Seq(Range(s)), NEW x
  PROVE  LET t == Append(s, x)
         IN /\ t \in Seq(Range(t)) /\ Len(t) = Len(s) + 1
            /\ t[Len(s) + 1] = x /\ \A i \in 1..Len(s) : t[i] = s[i]
  <1> DEFINE t == Append(s, x)
             S == Range(s) \cup {x}
  <1>1. s \in Seq(S) OBVIOUS
  <1> HIDE DEF S
  <1>2. x \in S BY DEF S
  <1>3. /\ t \in Seq(S) /\ Len(t) = Len(s) + 1
        /\ t[Len(s) + 1] = x /\ \A i \in 1..Len(s) : t[i] = s[i]
    BY <1>1, <1>2
  <1> HIDE DEF t
  <1>4. t \in Seq(Range(t)) BY <1>3 DEF Range
  <1> QED BY <1>3, <1>4 DEF t

LEMMA JoiningAreUnderWay ==
  ASSUME NEW open, NEW o \in Joining(open)
  PROVE  UnderWay(o)
  <1>1. o \in UNION {{[of |-> t, holds |-> n] : n \in 1..(Len(t.rows) - 1)} : t \in Transactions}
    BY DEF Joining
  <1>2. PICK t \in Transactions : o \in {[of |-> t, holds |-> n] : n \in 1..(Len(t.rows) - 1)}
    BY <1>1
  <1> QED BY <1>2 DEF UnderWay

LEMMA GivenInvHolds == Spec => []GivenInv
  <1>1. Init => GivenInv
    <2> SUFFICES ASSUME Init PROVE GivenInv OBVIOUS
    <2>1. given = <<>> /\ Len(given) = 0 /\ algorithm \in DOMAIN Families \cup {"lock"}
      BY DEF Init
    <2>2. given \in Seq(Range(given)) BY <2>1
    <2>3. algorithm # "lock" => Len(Families[algorithm]) \in Nat
      BY <2>1, FamiliesAssumption DEF FamiliesAssumption
    <2> QED BY <2>1, <2>2, <2>3 DEF GivenInv
  <1>2. GivenInv /\ [Next]_vars => GivenInv'
    <2> SUFFICES ASSUME GivenInv, [Next]_vars PROVE GivenInv' OBVIOUS
    <2>1. CASE Next
      <3>1. algorithm' = algorithm /\ Len(given) < Len(Inputs) BY <2>1 DEF Next, Give
      <3>2. PICK x \in Inputs[Len(given) + 1] : given' = Append(given, x)
        BY <2>1 DEF Next, Give
      <3>3. given \in Seq(Range(given)) /\ Len(given) \in Nat BY DEF GivenInv
      <3>4. /\ given' \in Seq(Range(given')) /\ Len(given') = Len(given) + 1
            /\ given'[Len(given) + 1] = x /\ \A i \in 1..Len(given) : given'[i] = given[i]
        BY <3>2, <3>3, AppendedIsSequence
      <3>5. CASE algorithm = "lock"
        <4>1. Inputs = [i \in 1..MaxOpen |-> Joining(given)] /\ MaxOpen \in Nat
          BY <3>5, FamiliesAssumption DEF Inputs, FamiliesAssumption
        <4>2. Len(given) + 1 \in 1..MaxOpen BY <3>1, <3>3, <4>1
        <4>3. x \in Joining(given) BY <3>2, <4>1, <4>2
        <4>4. UnderWay(x) BY <4>3, JoiningAreUnderWay
        <4>5. \A i \in 1..Len(given') : UnderWay(given'[i])
          BY <3>3, <3>4, <3>5, <4>4 DEF GivenInv
        <4> QED BY <3>1, <3>4, <3>5, <4>5 DEF GivenInv
      <3>6. CASE algorithm # "lock"
        BY <3>1, <3>2, <3>3, <3>4, <3>6, FamiliesAssumption DEF Inputs, FamiliesAssumption, GivenInv
      <3> QED BY <3>5, <3>6
    <2>2. CASE UNCHANGED vars BY <2>2 DEF vars, GivenInv
    <2> QED BY <2>1, <2>2
  <1> QED BY <1>1, <1>2, PTL DEF Spec

\* The complete input of an algorithm has one element of each family.
LEMMA CompleteIsGiven ==
  ASSUME GivenInv, NEW name, name # "lock", Complete(name)
  PROVE  /\ name \in DOMAIN Families /\ Len(given) = Len(Families[name])
         /\ \A i \in 1..Len(Families[name]) : given[i] \in Families[name][i]
  BY DEF GivenInv, Complete, Inputs

---------------------------------------------------------------------------
\* Any number of transactions that overlap, each after any of its rows (JobStateStore,
\* ProductionRepositoryStore).
THEOREM WorkersNeverWaitInCircle == Spec => []OnlyActivationDeadlocks
  <1>1. GivenInv => OnlyActivationDeadlocks
    <2> SUFFICES ASSUME GivenInv, algorithm = "lock" PROVE CirclesNeedActivation(Range(given))
      BY DEF OnlyActivationDeadlocks
    <2>1. \A o \in Range(given) : UnderWay(o) BY DEF GivenInv, Range
    <2> QED BY <2>1, WorkersNeverDeadlock
  <1> QED BY <1>1, GivenInvHolds, PTL

\* Any two snapshots and any depth that reaches as far as the previous one has files
\* (IncrementalPlanner.plan, compare).
THEOREM PlansAlwaysAgree == Spec => []PlansAreEquivalent
  <1>1. GivenInv => PlansAreEquivalent
    <2> SUFFICES ASSUME GivenInv, Complete("plan") PROVE IncrementalEqualsFull(given[1], given[2], given[3])
      BY DEF PlansAreEquivalent
    <2>1. /\ "plan" \in DOMAIN Families /\ Len(Families["plan"]) = 3
          /\ \A s \in Families["plan"][1] \cup Families["plan"][2] : IsSnapshot(s)
          /\ \A limits \in Families["plan"][3] : limits.depth \in Nat
      BY CompleteIsGiven, FamiliesAssumption DEF FamiliesAssumption
    <2>2. \A i \in 1..3 : given[i] \in Families["plan"][i] BY <2>1, CompleteIsGiven
    <2>3. IsSnapshot(given[1]) /\ IsSnapshot(given[2]) /\ given[3].depth \in Nat
      BY <2>1, <2>2
    <2> QED BY <2>3, IncrementalBuildIsFull
  <1> QED BY <1>1, GivenInvHolds, PTL

\* Any specs of finitely many capabilities, with any evidence
\* (CapabilityReadinessCalculator, CandidateValidator).
THEOREM ReadinessIsAlwaysSound == Spec => []ReadinessIsSound
  <1>1. GivenInv => ReadinessIsSound
    <2> SUFFICES ASSUME GivenInv, algorithm = "ready" PROVE ReadinessIsSound
      BY DEF ReadinessIsSound, Complete
    <2>1. /\ "ready" \in DOMAIN Families /\ Len(Families["ready"]) = 3
          /\ \A specs \in Families["ready"][1] : IsFiniteSet(DOMAIN specs)
      BY FamiliesAssumption DEF FamiliesAssumption, GivenInv
    <2>2. ASSUME Len(given) >= 1 PROVE IsFiniteSet(DOMAIN given[1])
      BY <2>1, <2>2 DEF GivenInv
    <2>3. ASSUME Len(given) = 1 PROVE AcceptedIsOrderable(given[1])
      BY <2>2, <2>3, AcceptedAreOrderable
    <2>4. ASSUME Complete("ready"), Accepted(given[1])
          PROVE  /\ NoBetterThanItsGround(given[1], given[2])
                 /\ ReportMatchesValidator(given[1], given[2], given[3][1], given[3][2])
      <3>1. Len(given) = 3 BY <2>1, <2>4, CompleteIsGiven
      <3>2. IsFiniteSet(DOMAIN given[1]) BY <2>2, <3>1
      <3> QED BY <2>4, <3>2, ReadinessIsGrounded, ReportsMatchValidator
    <2> QED BY <2>3, <2>4 DEF ReadinessIsSound
  <1> QED BY <1>1, GivenInvHolds, PTL

\* Whatever a repository holds, and whatever was indexed, interrupted and asked before the
\* upgrade (GraphService.build_graph, CPGEmitter.apply, migrate_supported_legacy_sqlite).
THEOREM RecordsAreAlwaysWhole == Spec => []RecordsAreWhole
  <1>1. GivenInv => RecordsAreWhole
    <2> SUFFICES ASSUME GivenInv PROVE RecordsAreWhole OBVIOUS
    <2>1. ASSUME Complete("code")
          PROVE  NothingDangles(given[1]) /\ ResolvedReferencesAreDrawn(given[1])
      <3>1. /\ "code" \in DOMAIN Families /\ Len(Families["code"]) = 1
            /\ \A repository \in Families["code"][1] : IsRepository(repository) /\ IsParsed(repository)
        BY <2>1, CompleteIsGiven, FamiliesAssumption DEF FamiliesAssumption
      <3>2. given[1] \in Families["code"][1] BY <2>1, <3>1, CompleteIsGiven
      <3> QED BY <3>1, <3>2, GraphsAreClosed, ReferencesAreDrawn
    <2>2. ASSUME Complete("upgrade")
          PROVE  LET db == LegacyDatabase(given)
                 IN UpgradeIsWhole(db) /\ UpgradeKeepsIndex(db) /\ OnlyOldEvidenceRefuses(db)
      <3>1. /\ "upgrade" \in DOMAIN Families /\ Len(Families["upgrade"]) > 0 /\ Len(Families["upgrade"]) \in Nat
            /\ \A r \in 1..Len(Families["upgrade"]) : Families["upgrade"][r] \subseteq Seq(LocalEvents)
        BY <2>2, CompleteIsGiven, FamiliesAssumption DEF FamiliesAssumption
      <3>2. Len(given) = Len(Families["upgrade"])
            /\ \A r \in 1..Len(Families["upgrade"]) : given[r] \in Families["upgrade"][r]
        BY <2>2, CompleteIsGiven
      <3>3. DOMAIN given = 1..Len(given) BY DEF GivenInv
      <3>4. IsLegacy(LegacyDatabase(given)) /\ IsLeft(LegacyDatabase(given))
        BY <3>1, <3>2, <3>3, LegacyDatabaseIsLeft
      <3> QED BY <3>4, UpgradesAreWhole, LeftIsKept, LeftIsRefusedForEvidence
    <2> QED BY <2>1, <2>2 DEF RecordsAreWhole
  <1> QED BY <1>1, GivenInvHolds, PTL

\* For any graph, target, depth and caps of the lists (analyze, _traverse, _risk_score).
THEOREM ImpactIsAlwaysDistance == Spec => []ImpactIsDistance
  <1>1. GivenInv => ImpactIsDistance
    <2> SUFFICES ASSUME GivenInv, Complete("impact")
                 PROVE  ReportIsDistance(given[1], given[2][1], given[2][2], given[3], given[4])
      BY DEF ImpactIsDistance
    <2>1. /\ "impact" \in DOMAIN Families /\ Len(Families["impact"]) = 4
          /\ \A g \in Families["impact"][1] : IsGraph(g)
          /\ Families["impact"][3] \subseteq Int
          /\ Families["impact"][4] \subseteq [Lists -> Nat]
      BY CompleteIsGiven, FamiliesAssumption DEF FamiliesAssumption
    <2>2. \A i \in 1..4 : given[i] \in Families["impact"][i] BY <2>1, CompleteIsGiven
    <2>3. IsGraph(given[1]) /\ given[3] \in Int /\ given[4] \in [Lists -> Nat]
      BY <2>1, <2>2
    <2> QED BY <2>3, ReportsAreDistances
  <1> QED BY <1>1, GivenInvHolds, PTL

\* Whatever the retrievers find, the limits of ranking and selection are and the files on
\* disk have become, and whichever models the embedding provider answers with
\* (retrieve_candidates, ReciprocalRankRanker.rank, EvidenceSelector.select, DenseIndexLoader.load).
THEOREM EvidenceIsAlwaysFair == Spec => []EvidenceIsFair
  <1>1. GivenInv => EvidenceIsFair
    <2> SUFFICES ASSUME GivenInv PROVE EvidenceIsFair OBVIOUS
    <2>1. ASSUME Complete("rank")
          PROVE  LET candidates == Candidates(given[1], given[2], given[3])
                 IN EachRetrieverRanksOnce(candidates) /\ FusionRespectsDominance(candidates, given[4], given[5])
      <3>1. /\ "rank" \in DOMAIN Families /\ Len(Families["rank"]) = 5
            /\ \A index \in Families["rank"][1], found \in Families["rank"][2] : IsFound(index, found)
            /\ \A policy \in Families["rank"][4] : IsRankingPolicy(policy)
            /\ Families["rank"][5] \subseteq Nat
        BY <2>1, CompleteIsGiven, FamiliesAssumption DEF FamiliesAssumption
      <3>2. \A i \in 1..5 : given[i] \in Families["rank"][i]
        BY <2>1, <3>1, CompleteIsGiven
      <3>3. IsFound(given[1], given[2]) /\ IsRankingPolicy(given[4]) /\ given[5] \in Nat
        BY <3>1, <3>2
      <3>4. IsFiniteSet(DOMAIN given[1].files) /\ DOMAIN given[1].files \subseteq Nat
        BY <3>3 DEF IsFound
      <3> QED BY <3>3, <3>4, RetrieversRankOnce, FusionIsFair
    <2>2. ASSUME Complete("select")
          PROVE  /\ SelectionUsesItsBudget(given[1], given[3], given[2], given[4].stale, given[4].required)
                 /\ StaleSourceIsNoLoss(given[1], given[3], given[2], given[4].required)
      BY <2>2, CompleteIsGiven, FamiliesAssumption, SelectionIsFair, StaleSourcesAreNoLoss DEF FamiliesAssumption
    <2>3. ASSUME Complete("dense")
          PROVE  LoadedIsCurrent(BuildDense(1, given[1], given[4], given[2]), given[5].version, given[5].model,
                                 given[3], given[2], Batches(given[1], given[4]))
      <3>1. /\ "dense" \in DOMAIN Families /\ Len(Families["dense"]) = 5
            /\ \A chunks \in Families["dense"][1] : IsChunks(chunks)
            /\ Families["dense"][4] \subseteq Nat \ {0}
        BY <2>3, CompleteIsGiven, FamiliesAssumption DEF FamiliesAssumption
      <3>2. \A i \in 1..5 : given[i] \in Families["dense"][i]
        BY <2>3, <3>1, CompleteIsGiven
      <3>3. IsChunks(given[1]) /\ given[4] \in Nat \ {0} BY <3>1, <3>2
      <3> QED BY <3>3, LoadedIndexIsCurrent
    <2> QED BY <2>1, <2>2, <2>3 DEF EvidenceIsFair
  <1> QED BY <1>1, GivenInvHolds, PTL

\* Whatever graph a repository has, whatever is asked of it and whatever the limits of the
\* service are (_project, _expansion_metadata, get_seeds).
THEOREM ViewsAreAlwaysHonest == Spec => []ViewsAreHonest
  <1>1. GivenInv => ViewsAreHonest
    <2> SUFFICES ASSUME GivenInv PROVE ViewsAreHonest OBVIOUS
    <2>1. ASSUME NEW name \in {"view", "page", "seed", "order"}, Complete(name)
          PROVE  /\ IsServer(given[1]) /\ IsViewRequest(given[3])
                 /\ IF name = "view" THEN given[2].kind \in ViewKinds /\ IsViewGraph(given[2].graph) ELSE IsViewGraph(given[2])
      <3>1. name # "lock" BY <2>1
      <3>2. name \in DOMAIN Families BY <2>1, <3>1, CompleteIsGiven
      <3>3. /\ Len(Families[name]) = 3
            /\ \A server \in Families[name][1] : IsServer(server)
            /\ \A x \in Families[name][2] :
                 IF name = "view" THEN x.kind \in ViewKinds /\ IsViewGraph(x.graph) ELSE IsViewGraph(x)
            /\ \A request \in Families[name][3] : IsViewRequest(request)
        BY <3>2, FamiliesAssumption, Zenon DEF FamiliesAssumption
      <3>4. \A i \in 1..3 : given[i] \in Families[name][i]
        BY <2>1, <3>1, <3>3, CompleteIsGiven
      <3>5. given[1] \in Families[name][1] /\ given[2] \in Families[name][2] /\ given[3] \in Families[name][3]
        BY <3>4
      <3> QED BY <3>3, <3>5, Zenon
    <2>2. ASSUME NEW g, IsViewGraph(g)
          PROVE  Everything(g).nodes \subseteq DOMAIN g.node /\ Everything(g).edges \subseteq g.edges
      BY <2>2, ViewsAreParts DEF View, ViewKinds
    <2>3. ASSUME Complete("view")
          PROVE  LET subject == given[2]
                     view    == View(subject.kind, subject.graph, subject.focus, given[3])
                 IN ProjectionIsHonest(subject.graph, view, given[3], given[1])
      <3>1. PICK g, kind, focus : g = given[2].graph /\ kind = given[2].kind /\ focus = given[2].focus
        OBVIOUS
      <3>2. IsServer(given[1]) /\ IsViewRequest(given[3]) /\ kind \in ViewKinds /\ IsViewGraph(g)
        BY <2>1, <2>3, <3>1
      <3>3. PICK view : view = View(kind, g, focus, given[3]) OBVIOUS
      <3>4. view.nodes \subseteq DOMAIN g.node /\ view.edges \subseteq g.edges
        BY <3>2, <3>3, ViewsAreParts
      <3>5. ProjectionIsHonest(g, view, given[3], given[1])
        BY <3>2, <3>4, ProjectionsAreHonest
      <3> QED BY <3>1, <3>3, <3>5
    <2>4. ASSUME Complete("page") PROVE PagesCoverNeighbours(given[2], Everything(given[2]), given[3], given[1])
      BY <2>1, <2>2, <2>4, PagesLeadToNeighbours
    <2>5. ASSUME Complete("order"), NEW ranked \in Rankings(given[2], given[3])
          PROVE  SeedPagesPartition(ranked, given[3], given[1])
      BY <2>1, <2>5, SeedPagesAreWhole
    <2>6. ASSUME Complete("seed") PROVE SeedsSpanRegions(given[2], Everything(given[2]), given[3], given[1])
      BY <2>1, <2>2, <2>6, SeedsSpan
    <2> QED BY <2>3, <2>4, <2>5, <2>6 DEF ViewsAreHonest
  <1> QED BY <1>1, GivenInvHolds, PTL
=============================================================================
