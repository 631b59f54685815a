------------------------------ MODULE SumTheorems ------------------------------
(***************************************************************************)
(* What the sums over the reservations, nodes and pods amount to: the fold *)
(* that computes SumFunction takes the elements in an order of its own,    *)
(* and the sum does not depend on it.                                      *)
(***************************************************************************)
EXTENDS FiniteSetTheorems, TLAPS

(* Induction over the subsets of a finite set: P are those it is true of.  *)
LEMMA SubsetInduction ==
  ASSUME NEW S, IsFiniteSet(S), NEW P,
         \A s \in SUBSET S : (\A t \in SUBSET s : t # s => t \in P) => s \in P
  PROVE  \A s \in SUBSET S : s \in P
<1> SUFFICES ASSUME NEW x \in SUBSET S, x \notin P
             PROVE  FALSE
  OBVIOUS
<1> DEFINE Others == {s \in SUBSET S : s \notin P}
<1>1. IsWellFoundedOn(StrictSubsetOrdering(S), SUBSET S)
  <2>1. FiniteSubsetsOf(S) = SUBSET S
    BY FS_FiniteSubsetsOfFinite
  <2>2. IsWellFoundedOn(StrictSubsetOrdering(S), FiniteSubsetsOf(S))
    BY FS_StrictSubsetOrderingWellFounded
  <2> QED
    BY <2>1, <2>2
<1>2. Others \subseteq SUBSET S /\ Others # {}
  OBVIOUS
<1> HIDE DEF Others
<1>3. PICK s \in Others : \A t \in Others : ~ (<<t, s>> \in StrictSubsetOrdering(S))
  BY <1>1, <1>2, WFMin
<1>4. s \in SUBSET S /\ s \notin P
  BY DEF Others
<1>5. ASSUME NEW t \in SUBSET s, t # s
      PROVE  t \in P
  <2>1. <<t, s>> \in StrictSubsetOrdering(S)
    BY <1>4, <1>5 DEF StrictSubsetOrdering
  <2> QED
    BY <1>3, <1>4, <2>1 DEF Others
<1> QED
  BY <1>4, <1>5

-----------------------------------------------------------------------------
(* The fold.                                                               *)

Some(s) == CHOOSE x \in s : TRUE

Iterated(g, f, S) ==
  g = [s \in SUBSET S |-> IF s = {} THEN 0 ELSE f[Some(s)] + g[s \ {Some(s)}]]

Iteration(f, S) == CHOOSE g : Iterated(g, f, S)

LEMMA SomeIsIn == \A s : s # {} => Some(s) \in s
  BY DEF Some

LEMMA SumIsIteration ==
  ASSUME NEW f, NEW S
  PROVE  SumFunctionOnSet(f, S) = Iteration(f, S)[S]
  BY DEF SumFunctionOnSet, FoldFunctionOnSet, MapThenFoldSet, Iteration, Iterated, Some

(* Two iterations agree where both are defined.                            *)
LEMMA IterationsAgree ==
  ASSUME NEW f, NEW S, IsFiniteSet(S), NEW T, S \subseteq T,
         NEW g, Iterated(g, f, S), NEW h, Iterated(h, f, T)
  PROVE  g[S] = h[S]
<1> DEFINE P == {s \in SUBSET S : g[s] = h[s]}
<1>1. ASSUME NEW s \in SUBSET S, \A t \in SUBSET s : t # s => t \in P
      PROVE  s \in P
  <2>1. /\ g[s] = IF s = {} THEN 0 ELSE f[Some(s)] + g[s \ {Some(s)}]
        /\ h[s] = IF s = {} THEN 0 ELSE f[Some(s)] + h[s \ {Some(s)}]
    BY DEF Iterated
  <2>2. s # {} => s \ {Some(s)} \in P
    BY <1>1, SomeIsIn
  <2> QED
    BY <2>1, <2>2
<1> HIDE DEF P
<1>2. S \in P
  BY <1>1, SubsetInduction
<1> QED
  BY <1>2 DEF P

(* It exists.                                                              *)
LEMMA IterationExists ==
  ASSUME NEW f, NEW S, IsFiniteSet(S)
  PROVE  Iterated(Iteration(f, S), f, S)
<1> DEFINE P == {s \in SUBSET S : Iterated(Iteration(f, s), f, s)}
<1>1. ASSUME NEW s \in SUBSET S, \A t \in SUBSET s : t # s => t \in P
      PROVE  s \in P
  <2> DEFINE v(t) == Iteration(f, t)[t]
             h == [t \in SUBSET s |-> IF t = {} THEN 0 ELSE f[Some(t)] + v(t \ {Some(t)})]
  <2>1. ASSUME NEW t \in SUBSET s, t # {}
        PROVE  h[t \ {Some(t)}] = v(t \ {Some(t)})
    <3> DEFINE u == t \ {Some(t)}
    <3>1. u \in SUBSET s /\ u # s
      BY <2>1, SomeIsIn
    <3>2. Iterated(Iteration(f, u), f, u)
      BY <1>1, <3>1
    <3>3. CASE u = {}
      <4>1. h[u] = 0
        BY <3>1, <3>3
      <4>2. Iteration(f, u)[u] = 0
        BY <3>2, <3>3 DEF Iterated
      <4> QED
        BY <4>1, <4>2
    <3>4. ASSUME u # {}
          PROVE  h[u] = v(u)
      <4> DEFINE x == u \ {Some(u)}
      <4>1. x \subseteq u /\ x \in SUBSET s /\ x # s
        BY <3>1, <3>4, SomeIsIn
      <4>2. Iterated(Iteration(f, x), f, x)
        BY <1>1, <4>1
      <4>3. IsFiniteSet(x)
        BY <4>1, FS_Subset
      <4>4. v(x) = Iteration(f, u)[x]
        BY <3>2, <4>1, <4>2, <4>3, IterationsAgree
      <4>5. Iteration(f, u)[u] = f[Some(u)] + Iteration(f, u)[x]
        <5> HIDE DEF u
        <5> QED
          BY <3>2, <3>4 DEF Iterated
      <4>6. h[u] = f[Some(u)] + v(x)
        <5> HIDE DEF u, v
        <5> QED
          BY <3>1, <3>4
      <4> QED
        BY <4>4, <4>5, <4>6
    <3> QED
      BY <3>3, <3>4
  <2>2. Iterated(h, f, s)
    <3> DEFINE next(g) == [t \in SUBSET s |-> IF t = {} THEN 0 ELSE f[Some(t)] + g[t \ {Some(t)}]]
    <3>1. \A t \in SUBSET s : h[t] = next(h)[t]
      <4> HIDE DEF v
      <4> QED
        BY <2>1
    <3>2. h = next(h)
      BY <3>1
    <3> QED
      BY <3>2 DEF Iterated
  <2> HIDE DEF h
  <2>3. Iterated(Iteration(f, s), f, s)
    BY <2>2 DEF Iteration
  <2> QED
    BY <2>3
<1> HIDE DEF P
<1>2. S \in P
  BY <1>1, SubsetInduction
<1> QED
  BY <1>2 DEF P

-----------------------------------------------------------------------------
(* Sums over subsets of a finite set.                                      *)

LEMMA SumUnfolds ==
  ASSUME NEW f, NEW S, IsFiniteSet(S)
  PROVE  SumFunctionOnSet(f, S) =
           IF S = {} THEN 0 ELSE f[Some(S)] + SumFunctionOnSet(f, S \ {Some(S)})
<1> DEFINE x == S \ {Some(S)}
<1>1. /\ Iterated(Iteration(f, S), f, S)
      /\ IsFiniteSet(x) /\ x \subseteq S
  BY IterationExists, FS_Subset
<1>2. Iterated(Iteration(f, x), f, x)
  BY <1>1, IterationExists
<1>3. Iteration(f, S)[S] = IF S = {} THEN 0 ELSE f[Some(S)] + Iteration(f, S)[x]
  BY <1>1 DEF Iterated
<1>4. Iteration(f, S)[x] = Iteration(f, x)[x]
  <2>1. Iterated(Iteration(f, S), f, S)
    BY <1>1
  <2> HIDE DEF x
  <2> DEFINE g == Iteration(f, x)
             h == Iteration(f, S)
  <2>2. Iterated(g, f, x) /\ Iterated(h, f, S)
    BY <1>2, <2>1
  <2> HIDE DEF g, h
  <2>3. g[x] = h[x]
    BY <1>1, <2>2, IterationsAgree
  <2> QED
    BY <2>3 DEF g, h
<1> QED
  BY <1>3, <1>4, SumIsIteration

LEMMA SumOverNone == ASSUME NEW f PROVE SumFunctionOnSet(f, {}) = 0
  BY SumUnfolds, FS_EmptySet

LEMMA SumIsInt ==
  ASSUME NEW f, NEW S, IsFiniteSet(S), \A x \in S : f[x] \in Int
  PROVE  SumFunctionOnSet(f, S) \in Int
<1> DEFINE P == {s \in SUBSET S : SumFunctionOnSet(f, s) \in Int}
<1>1. ASSUME NEW s \in SUBSET S, \A t \in SUBSET s : t # s => t \in P
      PROVE  s \in P
  <2>1. IsFiniteSet(s)
    BY FS_Subset
  <2>2. CASE s = {}
    BY <2>2, SumOverNone
  <2>3. CASE s # {}
    <3>1. f[Some(s)] \in Int /\ SumFunctionOnSet(f, s \ {Some(s)}) \in Int
      BY <1>1, <2>3, SomeIsIn
    <3>2. SumFunctionOnSet(f, s) = f[Some(s)] + SumFunctionOnSet(f, s \ {Some(s)})
      BY <2>1, <2>3, SumUnfolds
    <3> QED
      BY <3>1, <3>2
  <2> QED
    BY <2>2, <2>3
<1> HIDE DEF P
<1>2. S \in P
  BY <1>1, SubsetInduction
<1> QED
  BY <1>2 DEF P

(* Any element may be taken out first.                                     *)
LEMMA SumWithout ==
  ASSUME NEW f, NEW S, IsFiniteSet(S), \A y \in S : f[y] \in Int, NEW x \in S
  PROVE  SumFunctionOnSet(f, S) = f[x] + SumFunctionOnSet(f, S \ {x})
<1> DEFINE Sum(s) == SumFunctionOnSet(f, s)
           P == {s \in SUBSET S : \A y \in s : Sum(s) = f[y] + Sum(s \ {y})}
<1>1. \A s \in SUBSET S : Sum(s) \in Int
  BY FS_Subset, SumIsInt
<1>2. ASSUME NEW s \in SUBSET S, \A t \in SUBSET s : t # s => t \in P
      PROVE  s \in P
  <2> SUFFICES ASSUME NEW y \in s
               PROVE  Sum(s) = f[y] + Sum(s \ {y})
    OBVIOUS
  <2> DEFINE c == Some(s)
  <2>1. c \in s
    BY SomeIsIn
  <2>2. Sum(s) = f[c] + Sum(s \ {c})
    <3>1. IsFiniteSet(s)
      BY FS_Subset
    <3> QED
      BY <3>1, SumUnfolds
  <2>3. CASE y = c
    <3> HIDE DEF c, Sum
    <3> QED
      BY <2>2, <2>3
  <2>4. CASE y # c
    <3> HIDE DEF c
    <3>1. s \ {c} \in P /\ s \ {y} \in P
      BY <1>2, <2>1
    <3>2. Sum(s \ {c}) = f[y] + Sum((s \ {c}) \ {y})
      BY <2>4, <3>1
    <3>3. Sum(s \ {y}) = f[c] + Sum((s \ {y}) \ {c})
      BY <2>1, <2>4, <3>1
    <3>4. (s \ {c}) \ {y} = (s \ {y}) \ {c}
      OBVIOUS
    <3> DEFINE rest == Sum((s \ {c}) \ {y})
    <3>5. f[y] \in Int /\ f[c] \in Int /\ rest \in Int
      BY <1>1, <2>1
    <3>6. Sum(s \ {c}) = f[y] + rest
      BY <3>2
    <3>7. Sum(s \ {y}) = f[c] + rest
      BY <3>3, <3>4
    <3> HIDE DEF rest, Sum
    <3>8. f[c] + (f[y] + rest) = f[y] + (f[c] + rest)
      BY <3>5
    <3> QED
      BY <2>2, <3>6, <3>7, <3>8
  <2> QED
    BY <2>3, <2>4
<1> HIDE DEF P
<1>3. S \in P
  BY <1>2, SubsetInduction
<1> QED
  BY <1>3 DEF P

(* Termwise comparison.                                                    *)
LEMMA SumIsMonotonic ==
  ASSUME NEW f, NEW g, NEW S, IsFiniteSet(S),
         \A x \in S : f[x] \in Int /\ g[x] \in Int /\ f[x] <= g[x]
  PROVE  SumFunctionOnSet(f, S) <= SumFunctionOnSet(g, S)
<1> DEFINE F(s) == SumFunctionOnSet(f, s)
           G(s) == SumFunctionOnSet(g, s)
           P == {s \in SUBSET S : F(s) <= G(s)}
<1>1. \A s \in SUBSET S : F(s) \in Int /\ G(s) \in Int /\ IsFiniteSet(s)
  BY FS_Subset, SumIsInt
<1>2. ASSUME NEW s \in SUBSET S, \A t \in SUBSET s : t # s => t \in P
      PROVE  s \in P
  <2>1. CASE s = {}
    <3>1. F({}) = 0 /\ G({}) = 0
      BY SumOverNone
    <3> QED
      BY <2>1, <3>1
  <2>2. ASSUME s # {}
        PROVE  s \in P
    <3> DEFINE c == Some(s)
    <3>1. c \in s
      BY <2>2, SomeIsIn
    <3>2. F(s) = f[c] + F(s \ {c}) /\ G(s) = g[c] + G(s \ {c})
      BY <1>1, <2>2, SumUnfolds
    <3> HIDE DEF c
    <3>3. F(s \ {c}) <= G(s \ {c})
      BY <1>2, <3>1
    <3>4. /\ f[c] \in Int /\ g[c] \in Int /\ f[c] <= g[c]
          /\ F(s \ {c}) \in Int /\ G(s \ {c}) \in Int
      BY <1>1, <3>1
    <3> HIDE DEF F, G
    <3>5. F(s) <= G(s)
      BY <3>2, <3>3, <3>4
    <3> QED
      BY <3>5 DEF P
  <2> QED
    BY <2>1, <2>2
<1> HIDE DEF P
<1>3. S \in P
  BY <1>2, SubsetInduction
<1> QED
  BY <1>3 DEF P

(* A change of one term.                                                   *)
LEMMA SumChanges ==
  ASSUME NEW f, NEW g, NEW S, IsFiniteSet(S), NEW x \in S,
         \A y \in S : f[y] \in Int /\ g[y] \in Int /\ (y # x => g[y] = f[y])
  PROVE  SumFunctionOnSet(g, S) = SumFunctionOnSet(f, S) + (g[x] - f[x])
<1> DEFINE T == S \ {x}
<1>1. IsFiniteSet(T) /\ T \subseteq S
  BY FS_Subset
<1>2. \A y \in T : f[y] \in Int /\ g[y] \in Int /\ f[y] <= g[y] /\ g[y] <= f[y]
  OBVIOUS
<1> HIDE DEF T
<1>3. /\ SumFunctionOnSet(f, T) <= SumFunctionOnSet(g, T)
      /\ SumFunctionOnSet(g, T) <= SumFunctionOnSet(f, T)
  BY <1>1, <1>2, SumIsMonotonic
<1>4. SumFunctionOnSet(f, T) \in Int /\ SumFunctionOnSet(g, T) \in Int
  BY <1>1, <1>2, SumIsInt
<1>5. /\ SumFunctionOnSet(f, S) = f[x] + SumFunctionOnSet(f, T)
      /\ SumFunctionOnSet(g, S) = g[x] + SumFunctionOnSet(g, T)
  BY SumWithout DEF T
<1>6. f[x] \in Int /\ g[x] \in Int
  OBVIOUS
<1> QED
  BY <1>3, <1>4, <1>5, <1>6

(* Terms that are equal.                                                   *)
LEMMA SumsAreEqual ==
  ASSUME NEW f, NEW g, NEW S, IsFiniteSet(S), \A y \in S : f[y] \in Int /\ g[y] = f[y]
  PROVE  SumFunctionOnSet(g, S) = SumFunctionOnSet(f, S)
<1>1. \A y \in S : f[y] \in Int /\ g[y] \in Int /\ f[y] <= g[y] /\ g[y] <= f[y]
  OBVIOUS
<1>2. /\ SumFunctionOnSet(f, S) <= SumFunctionOnSet(g, S)
      /\ SumFunctionOnSet(g, S) <= SumFunctionOnSet(f, S)
  BY <1>1, SumIsMonotonic
<1>3. SumFunctionOnSet(f, S) \in Int /\ SumFunctionOnSet(g, S) \in Int
  BY <1>1, SumIsInt
<1> QED
  BY <1>2, <1>3

(* Terms that are zero may be left out.                                    *)
LEMMA SumOfTheRest ==
  ASSUME NEW f, NEW g, NEW T, IsFiniteSet(T), NEW S \in SUBSET T,
         \A y \in S : f[y] \in Int /\ g[y] = f[y],
         \A y \in T \ S : g[y] = 0
  PROVE  SumFunctionOnSet(f, S) = SumFunctionOnSet(g, T)
<1> DEFINE F(s) == SumFunctionOnSet(f, s)
           G(s) == SumFunctionOnSet(g, s)
           P == {s \in SUBSET T : F(s \cap S) = G(s)}
<1>1. \A s \in SUBSET T : /\ IsFiniteSet(s) /\ IsFiniteSet(s \cap S)
                          /\ G(s) \in Int
  <2>1. \A s \in SUBSET T : IsFiniteSet(s)
    BY FS_Subset
  <2>2. \A y \in T : g[y] \in Int
    OBVIOUS
  <2>3. ASSUME NEW s \in SUBSET T
        PROVE  G(s) \in Int
    BY <2>1, <2>2, SumIsInt
  <2>4. \A s \in SUBSET T : s \cap S \in SUBSET T
    OBVIOUS
  <2> HIDE DEF G
  <2> QED
    BY <2>1, <2>3, <2>4
<1>2. ASSUME NEW s \in SUBSET T, \A t \in SUBSET s : t # s => t \in P
      PROVE  s \in P
  <2>1. CASE s = {}
    <3>1. F({}) = 0 /\ G({}) = 0 /\ s \cap S = {}
      BY <2>1, SumOverNone
    <3> QED
      BY <2>1, <3>1
  <2>2. ASSUME s # {}
        PROVE  s \in P
    <3> DEFINE c == Some(s)
    <3>1. c \in s
      BY <2>2, SomeIsIn
    <3>2. G(s) = g[c] + G(s \ {c})
      BY <1>1, <2>2, SumUnfolds
    <3> HIDE DEF c
    <3>3. F((s \ {c}) \cap S) = G(s \ {c})
      BY <1>2, <3>1
    <3>4. G(s \ {c}) \in Int
      BY <1>1
    <3>5. CASE c \in S
      <4>1. (s \ {c}) \cap S = (s \cap S) \ {c}
        OBVIOUS
      <4>2. F(s \cap S) = f[c] + F((s \cap S) \ {c})
        <5>1. \A y \in s \cap S : f[y] \in Int
          OBVIOUS
        <5>2. c \in s \cap S
          BY <3>1, <3>5
        <5> QED
          BY <1>1, <5>1, <5>2, SumWithout
      <4>3. g[c] = f[c]
        BY <3>5
      <4>4. F((s \cap S) \ {c}) = G(s \ {c})
        BY <3>3, <4>1
      <4> HIDE DEF F, G
      <4>5. F(s \cap S) = G(s)
        BY <3>2, <4>2, <4>3, <4>4
      <4> QED
        BY <4>5 DEF P
    <3>6. CASE c \notin S
      <4>1. (s \ {c}) \cap S = s \cap S
        BY <3>6
      <4>2. g[c] = 0
        BY <3>1, <3>6
      <4>3. F(s \cap S) = G(s \ {c})
        BY <3>3, <4>1
      <4> HIDE DEF F, G
      <4>4. G(s) = G(s \ {c})
        BY <3>2, <3>4, <4>2
      <4> QED
        BY <4>3, <4>4 DEF P
    <3> QED
      BY <3>5, <3>6
  <2> QED
    BY <2>1, <2>2
<1> HIDE DEF P
<1>3. T \in P
  BY <1>2, SubsetInduction
<1>4. T \cap S = S
  OBVIOUS
<1> QED
  BY <1>3, <1>4 DEF P

(* The sum of a function that is written as one.                           *)
LEMMA SumOfFunction ==
  ASSUME NEW f, NEW S, DOMAIN f = S
  PROVE  SumFunction(f) = SumFunctionOnSet(f, S)
  BY DEF SumFunction


-----------------------------------------------------------------------------
(* Among finitely many integers one is the largest.                        *)
LEMMA LargestExists ==
  ASSUME NEW g, NEW S, IsFiniteSet(S), \A i \in S : g[i] \in Int, NEW a \in Int
  PROVE  \E m \in {a} \cup {g[i] : i \in S} : \A y \in {a} \cup {g[i] : i \in S} : m >= y
<1> DEFINE Among(s) == {a} \cup {g[i] : i \in s}
           P == {s \in SUBSET S : \E m \in Among(s) : \A y \in Among(s) : m >= y}
<1>1. ASSUME NEW s \in SUBSET S, \A t \in SUBSET s : t # s => t \in P
      PROVE  s \in P
  <2>1. CASE s = {}
    <3>1. Among(s) = {a} /\ a >= a
      BY <2>1
    <3> QED
      BY <3>1
  <2>2. CASE s # {}
    <3> DEFINE c == Some(s)
               t == s \ {c}
    <3>1. c \in s /\ t \in SUBSET s /\ t # s
      BY <2>2, SomeIsIn
    <3>2. /\ g[c] \in Int /\ Among(t) \subseteq Int
          /\ Among(s) = Among(t) \cup {g[c]}
      BY <3>1
    <3>3. PICK m \in Among(t) : \A y \in Among(t) : m >= y
      BY <1>1, <3>1
    <3> HIDE DEF Among, c, t
    <3>4. CASE m >= g[c]
      <4>1. m \in Among(s) /\ \A y \in Among(s) : m >= y
        BY <3>2, <3>3, <3>4
      <4> QED
        BY <4>1 DEF Among
    <3>5. CASE ~ (m >= g[c])
      <4>1. \A y \in Among(t) : g[c] >= y
        BY <3>2, <3>3, <3>5
      <4>2. g[c] \in Among(s) /\ \A y \in Among(s) : g[c] >= y
        BY <3>2, <4>1
      <4> QED
        BY <4>2 DEF Among
    <3> QED
      BY <3>4, <3>5
  <2> QED
    BY <2>1, <2>2
<1> HIDE DEF P
<1>2. \A s \in SUBSET S : s \in P
  BY <1>1, SubsetInduction
<1> QED
  BY <1>2 DEF P
=============================================================================
