--------------------------------- MODULE Sums ---------------------------------
(***************************************************************************)
(* Facts about sums of integers over finite sets, SumFunctionOnSet of      *)
(* Functions, and the two principles of induction they rest on.  Both are  *)
(* stated for sets, of numbers and of subsets, so that they can be cited   *)
(* with a set for the predicate.                                           *)
(***************************************************************************)
EXTENDS Functions, FiniteSetTheorems, TLAPS

\* A set of natural numbers that is not empty has a least element.
LEMMA LeastElement ==
    ASSUME NEW X \in SUBSET Nat, X # {}
    PROVE  \E n \in X : \A m \in X : n <= m
<1>1. IsWellFoundedOn(OpToRel(<, Nat), Nat)
  BY NatLessThanWellFounded
<1>2. PICK n \in X : \A m \in X : <<m, n>> \notin OpToRel(<, Nat)
  <2> DEFINE R == OpToRel(<, Nat)
  <2>1. IsWellFoundedOn(R, Nat)
    BY <1>1
  <2> HIDE DEF R
  <2>2. \E n \in X : \A m \in X : ~(<<m, n>> \in R)
    BY <2>1, WFMin
  <2> QED
    BY <2>2 DEF R
<1>3. \A m \in X : ~(m < n)
  BY <1>2 DEF OpToRel
<1> QED
  BY <1>3

\* Induction over the natural numbers.
LEMMA Induction ==
    ASSUME NEW X, 0 \in X, \A n \in Nat : n \in X => n + 1 \in X
    PROVE  Nat \subseteq X
<1>1. SUFFICES ASSUME Nat \ X # {} PROVE FALSE
  OBVIOUS
<1>2. PICK n \in Nat \ X : \A m \in Nat \ X : n <= m
  BY <1>1, LeastElement
<1>3. n - 1 \in Nat /\ n - 1 \notin Nat \ X
  BY <1>2
<1> QED
  BY <1>2, <1>3

\* Induction over the subsets of a finite set, by their size.
LEMMA SubsetInduction ==
    ASSUME NEW S, IsFiniteSet(S), NEW F,
           \A T \in SUBSET S : (\A x \in T : T \ {x} \in F) => T \in F
    PROVE  SUBSET S \subseteq F
<1> DEFINE X == {n \in Nat : \A T \in SUBSET S : Cardinality(T) = n => T \in F}
<1>1. \A T \in SUBSET S : IsFiniteSet(T) /\ Cardinality(T) \in Nat
  BY FS_Subset, FS_CardinalityType
<1>2. 0 \in X
  BY <1>1, FS_EmptySet
<1>3. ASSUME NEW n \in Nat, n \in X PROVE n + 1 \in X
  <2> SUFFICES ASSUME NEW T \in SUBSET S, Cardinality(T) = n + 1 PROVE T \in F
    OBVIOUS
  <2>1. ASSUME NEW x \in T PROVE T \ {x} \in F
    <3>1. Cardinality(T \ {x}) = n
      BY <1>1, FS_RemoveElement
    <3> QED
      BY <3>1, <1>3
  <2> QED
    BY <2>1
<1>4. Nat \subseteq X
  <2> HIDE DEF X
  <2> QED
    BY <1>2, <1>3, Induction
<1> QED
  BY <1>1, <1>4

-----------------------------------------------------------------------------
(* The sums of all subsets of a set, as one function.                      *)

Additive(g, f, S) ==
    /\ g \in [SUBSET S -> Int]
    /\ g[{}] = 0
    /\ \A T \in SUBSET S : \A x \in T : g[T] = f[x] + g[T \ {x}]

LEMMA AdditiveExtends ==
    ASSUME NEW S, NEW f, NEW x, x \notin S, \A y \in S \cup {x} : f[y] \in Int,
           NEW g, Additive(g, f, S)
    PROVE  Additive([T \in SUBSET (S \cup {x}) |->
                        IF x \in T THEN f[x] + g[T \ {x}] ELSE g[T]], f, S \cup {x})
<1> DEFINE h == [T \in SUBSET (S \cup {x}) |->
                    IF x \in T THEN f[x] + g[T \ {x}] ELSE g[T]]
<1>1. \A T \in SUBSET (S \cup {x}) : T \ {x} \in SUBSET S /\ (x \notin T => T \in SUBSET S)
  OBVIOUS
<1>2. \A T \in SUBSET S : g[T] \in Int
  BY DEF Additive
<1>3. h \in [SUBSET (S \cup {x}) -> Int]
  BY <1>1, <1>2
<1>4. h[{}] = 0
  BY DEF Additive
<1>5. ASSUME NEW T \in SUBSET (S \cup {x}), NEW y \in T
      PROVE  h[T] = f[y] + h[T \ {y}]
  <2>1. CASE y = x
    BY <2>1, <1>1
  <2>2. CASE y # x /\ x \in T
    <3>1. g[T \ {x}] = f[y] + g[(T \ {x}) \ {y}]
      BY <2>2, <1>1 DEF Additive
    <3>2. (T \ {x}) \ {y} = (T \ {y}) \ {x}
      OBVIOUS
    <3>3. h[T] = f[x] + (f[y] + g[(T \ {y}) \ {x}])
      BY <2>2, <3>1, <3>2
    <3>4. h[T \ {y}] = f[x] + g[(T \ {y}) \ {x}]
      BY <2>2
    <3>5. g[(T \ {y}) \ {x}] \in Int /\ g[T \ {x}] \in Int
      BY <1>1, <1>2
    <3>6. f[x] \in Int /\ f[y] \in Int
      OBVIOUS
    <3> QED
      BY <3>3, <3>4, <3>5, <3>6
  <2>3. CASE x \notin T
    BY <2>3, <1>1 DEF Additive
  <2> QED
    BY <2>1, <2>2, <2>3
<1> QED
  BY <1>3, <1>4, <1>5 DEF Additive

LEMMA AdditiveExists ==
    ASSUME NEW S, IsFiniteSet(S), NEW f, \A x \in S : f[x] \in Int
    PROVE  \E g : Additive(g, f, S)
<1> DEFINE F == {T \in SUBSET S : \E g : Additive(g, f, T)}
<1>1. ASSUME NEW T \in SUBSET S, \A x \in T : T \ {x} \in F
      PROVE  T \in F
  <2>1. CASE T = {}
    <3>1. Additive([U \in SUBSET {} |-> 0], f, {})
      BY DEF Additive
    <3> QED
      BY <2>1, <3>1
  <2>2. CASE T # {}
    <3>1. PICK x \in T : TRUE
      BY <2>2
    <3>2. PICK g : Additive(g, f, T \ {x})
      BY <1>1, <3>1
    <3>3. (T \ {x}) \cup {x} = T /\ x \notin T \ {x}
      BY <3>1
    <3>4. \E h : Additive(h, f, (T \ {x}) \cup {x})
      BY <3>2, <3>3, AdditiveExtends
    <3> QED
      BY <3>3, <3>4
  <2> QED
    BY <2>1, <2>2
<1>2. SUBSET S \subseteq F
  <2> HIDE DEF F
  <2> QED
    BY <1>1, SubsetInduction
<1> QED
  BY <1>2

\* The sum over a set does not depend on the order in which it is taken.
LEMMA SumIsAdditive ==
    ASSUME NEW S, IsFiniteSet(S), NEW f, NEW g, Additive(g, f, S)
    PROVE  SumFunctionOnSet(f, S) = g[S]
<1> DEFINE first(T) == CHOOSE x \in T : TRUE
           Step(h) == [T \in SUBSET S |->
                          IF T = {} THEN 0 ELSE f[first(T)] + h[T \ {first(T)}]]
           iter == CHOOSE h : h = Step(h)
<1>1. SumFunctionOnSet(f, S) = iter[S]
  BY DEF SumFunctionOnSet, FoldFunctionOnSet, MapThenFoldSet
<1>2. \A T \in SUBSET S : T # {} => first(T) \in T
  OBVIOUS
<1>3. g = Step(g)
  BY <1>2 DEF Additive
<1>4. iter = Step(iter)
  <2> HIDE DEF Step
  <2> QED
    BY <1>3
<1> HIDE DEF iter
<1> DEFINE F == {T \in SUBSET S : iter[T] = g[T]}
<1>5. ASSUME NEW T \in SUBSET S, \A x \in T : T \ {x} \in F
      PROVE  T \in F
  <2>1. CASE T = {}
    BY <1>4, <2>1 DEF Additive
  <2>2. CASE T # {}
    <3>1. iter[T] = f[first(T)] + iter[T \ {first(T)}]
      BY <1>4, <2>2
    <3>2. g[T] = f[first(T)] + g[T \ {first(T)}]
      BY <1>2, <2>2 DEF Additive
    <3>3. iter[T \ {first(T)}] = g[T \ {first(T)}]
      BY <1>2, <1>5, <2>2
    <3> QED
      BY <3>1, <3>2, <3>3
  <2> QED
    BY <2>1, <2>2
<1>6. SUBSET S \subseteq F
  <2> HIDE DEF F
  <2> QED
    BY <1>5, SubsetInduction
<1> QED
  BY <1>1, <1>6

-----------------------------------------------------------------------------
(* What is used of sums.                                                   *)

LEMMA SumType ==
    ASSUME NEW S, IsFiniteSet(S), NEW f, \A x \in S : f[x] \in Int
    PROVE  SumFunctionOnSet(f, S) \in Int
<1>1. PICK g : Additive(g, f, S)
  BY AdditiveExists
<1>2. SumFunctionOnSet(f, S) = g[S]
  BY <1>1, SumIsAdditive
<1> QED
  BY <1>1, <1>2 DEF Additive

\* A sum grows by what is added.
LEMMA SumAdd ==
    ASSUME NEW S, IsFiniteSet(S), NEW x, x \notin S,
           NEW f, \A y \in S \cup {x} : f[y] \in Int
    PROVE  SumFunctionOnSet(f, S \cup {x}) = f[x] + SumFunctionOnSet(f, S)
<1>1. PICK g : Additive(g, f, S \cup {x})
  BY FS_AddElement, AdditiveExists
<1>2. IsFiniteSet(S \cup {x})
  BY FS_AddElement
<1>3. SumFunctionOnSet(f, S \cup {x}) = g[S \cup {x}]
  BY <1>1, <1>2, SumIsAdditive
<1> DEFINE h == [T \in SUBSET S |-> g[T]]
<1>4. Additive(h, f, S)
  BY <1>1 DEF Additive
<1>5. SumFunctionOnSet(f, S) = h[S]
  <2> HIDE DEF h
  <2> QED
    BY <1>4, SumIsAdditive
<1>6. g[S \cup {x}] = f[x] + g[(S \cup {x}) \ {x}] /\ (S \cup {x}) \ {x} = S
  BY <1>1 DEF Additive
<1> QED
  BY <1>3, <1>5, <1>6

\* It depends only on the values that are added up.
LEMMA SumCongruence ==
    ASSUME NEW S, IsFiniteSet(S), NEW f, NEW g,
           \A x \in S : f[x] \in Int /\ g[x] = f[x]
    PROVE  SumFunctionOnSet(g, S) = SumFunctionOnSet(f, S)
<1>1. PICK h : Additive(h, f, S)
  BY AdditiveExists
<1>2. Additive(h, g, S)
  BY <1>1 DEF Additive
<1> QED
  BY <1>1, <1>2, SumIsAdditive

\* It follows the change of a single value.
LEMMA SumChange ==
    ASSUME NEW S, IsFiniteSet(S), NEW f, NEW g, NEW x \in S,
           \A y \in S : f[y] \in Int /\ g[y] \in Int,
           \A y \in S \ {x} : g[y] = f[y]
    PROVE  SumFunctionOnSet(g, S) = SumFunctionOnSet(f, S) + (g[x] - f[x])
<1> DEFINE T == S \ {x}
<1>1. IsFiniteSet(T) /\ x \notin T /\ T \cup {x} = S
  BY FS_RemoveElement
<1>2. SumFunctionOnSet(g, T) = SumFunctionOnSet(f, T) /\ SumFunctionOnSet(f, T) \in Int
  BY <1>1, SumCongruence, SumType
<1>3. SumFunctionOnSet(f, S) = f[x] + SumFunctionOnSet(f, T)
  BY <1>1, SumAdd
<1>4. SumFunctionOnSet(g, S) = g[x] + SumFunctionOnSet(g, T)
  BY <1>1, SumAdd
<1> QED
  BY <1>2, <1>3, <1>4

\* The sum of no values, or of zeros, is zero.
LEMMA SumZero ==
    ASSUME NEW S, IsFiniteSet(S), NEW f, \A x \in S : f[x] = 0
    PROVE  SumFunctionOnSet(f, S) = 0
<1>1. Additive([T \in SUBSET S |-> 0], f, S)
  BY DEF Additive
<1> QED
  BY <1>1, SumIsAdditive
=============================================================================
