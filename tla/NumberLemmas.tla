--------------------------- MODULE NumberLemmas ----------------------------
(***************************************************************************)
(* What the proofs need of numbers: sums of a function over a finite set,  *)
(* SumFunctionOnSet of the community modules, which the models add amounts *)
(* up with; recursive functions on the natural numbers; powers; and the    *)
(* fractions of module Fractions.  The inductions the lemmas need are on   *)
(* sets, not on predicates: a set of subsets of a finite set S that has    *)
(* every subset whose strict subsets it has contains S, and a set of       *)
(* natural numbers that has 0 and the next of each contains them all.      *)
(***************************************************************************)
EXTENDS Fractions, FiniteSetTheorems, NaturalsInduction, TLAPS

LEMMA StrictSubsetInduction ==
  ASSUME NEW S, IsFiniteSet(S), NEW Good,
         \A T \in SUBSET S : (\A U \in SUBSET T : U # T => U \in Good) => T \in Good
  PROVE  S \in Good
<1> DEFINE Bad == (SUBSET S) \ Good
<1>1. SUFFICES ASSUME S \notin Good PROVE FALSE
  OBVIOUS
<1>2. FiniteSubsetsOf(S) = SUBSET S /\ IsWellFoundedOn(StrictSubsetOrdering(S), SUBSET S)
  BY FS_FiniteSubsetsOfFinite, FS_StrictSubsetOrderingWellFounded
<1>3. Bad \subseteq SUBSET S /\ Bad # {}
  BY <1>1
<1> HIDE DEF Bad
<1>4. PICK T \in Bad : \A U \in Bad : <<U, T>> \notin StrictSubsetOrdering(S)
  BY <1>2, <1>3, WFMin
<1> USE DEF Bad
<1>5. \A U \in SUBSET T : U # T => <<U, T>> \in StrictSubsetOrdering(S)
  BY <1>4 DEF StrictSubsetOrdering
<1>6. ASSUME NEW U \in SUBSET T, U # T
      PROVE  U \in Good
  <2>1. T \subseteq S /\ U \subseteq S
    BY <1>3
  <2>. QED
    BY <2>1, <1>4, <1>5, <1>6
<1>. QED
  BY <1>4, <1>6

----------------------------------------------------------------------------
(* The recursion that SumFunctionOnSet stands for.                         *)

pick(s) == CHOOSE x \in s : TRUE

\* g sums f over every subset of S.
Sums(g, f, S) ==
  g = [s \in SUBSET S |-> IF s = {} THEN 0 ELSE f[pick(s)] + g[s \ {pick(s)}]]

LEMMA SumDef ==
  ASSUME NEW f, NEW S
  PROVE  SumFunctionOnSet(f, S) = (CHOOSE g : Sums(g, f, S))[S]
BY DEF SumFunctionOnSet, FoldFunctionOnSet, MapThenFoldSet, Sums, pick

LEMMA PickIn ==
  ASSUME NEW s, s # {}
  PROVE  pick(s) \in s
BY DEF pick

\* Two functions that sum f over all subsets of a finite set agree.
LEMMA SumsUnique ==
  ASSUME NEW S, IsFiniteSet(S), NEW f, NEW g, NEW h, NEW R, S \subseteq R,
         Sums(g, f, S), Sums(h, f, R)
  PROVE  g[S] = h[S]
<1> DEFINE Good == {T \in SUBSET S : g[T] = h[T]}
<1>1. ASSUME NEW T \in SUBSET S, \A U \in SUBSET T : U # T => U \in Good
      PROVE  T \in Good
  <2>1. CASE T = {}
    BY <2>1 DEF Sums
  <2>2. CASE T # {}
    <3>1. pick(T) \in T
      BY <2>2, PickIn
    <3>2. T \ {pick(T)} \in Good
      BY <1>1, <3>1
    <3>3. g[T] = f[pick(T)] + g[T \ {pick(T)}]
      BY <2>2 DEF Sums
    <3>4. h[T] = f[pick(T)] + h[T \ {pick(T)}]
      BY <2>2, T \in SUBSET R DEF Sums
    <3>. QED
      BY <3>2, <3>3, <3>4
  <2>. QED
    BY <2>1, <2>2
<1>2. S \in Good
  <2> HIDE DEF Good
  <2>. QED
    BY <1>1, StrictSubsetInduction
<1>. QED
  BY <1>2

\* The recursion has a solution for every finite set: the sums of the strict subsets make one.
LEMMA SumsExist ==
  ASSUME NEW f, NEW S, IsFiniteSet(S)
  PROVE  \E g : Sums(g, f, S)
<1> DEFINE Good == {T \in SUBSET S : \E g : Sums(g, f, T)}
<1>1. ASSUME NEW T \in SUBSET S, \A U \in SUBSET T : U # T => U \in Good
      PROVE  T \in Good
  <2> DEFINE sum(U) == (CHOOSE g : Sums(g, f, U))[U]
             whole == [s \in SUBSET T |-> IF s = {} THEN 0 ELSE f[pick(s)] + sum(s \ {pick(s)})]
  <2>1. ASSUME NEW U \in SUBSET T, U # T
        PROVE  /\ U = {} => sum(U) = 0
               /\ U # {} => sum(U) = f[pick(U)] + sum(U \ {pick(U)})
    <3> DEFINE g == CHOOSE x : Sums(x, f, U)
    <3>1. \E x : Sums(x, f, U)
      BY <1>1, <2>1
    <3>2. Sums(g, f, U)
      BY <3>1
    <3>3. sum(U) = g[U]
      OBVIOUS
    <3>4. CASE U = {}
      BY <3>2, <3>3, <3>4 DEF Sums
    <3>5. CASE U # {}
      <4> DEFINE V == U \ {pick(U)}
                 h == CHOOSE x : Sums(x, f, V)
      <4>1. pick(U) \in U
        BY <3>5, PickIn
      <4>2. V \in SUBSET T /\ V # T /\ V \subseteq U /\ IsFiniteSet(V)
        BY <4>1, FS_Subset
      <4>3. \E x : Sums(x, f, V)
        BY <1>1, <4>2
      <4>4. Sums(h, f, V)
        BY <4>3
      <4>5. h[V] = g[V]
        <5> HIDE DEF V, g, h
        <5>. QED
          BY <3>2, <4>2, <4>4, SumsUnique
      <4>6. sum(V) = h[V]
        OBVIOUS
      <4>7. g[U] = f[pick(U)] + g[V]
        <5> HIDE DEF g
        <5>. QED
          BY <3>2, <3>5 DEF Sums
      <4>. QED
        <5> HIDE DEF V, g, h, sum
        <5>. QED
          BY <3>3, <3>5, <4>5, <4>6, <4>7 DEF V
    <3>. QED
      BY <3>4, <3>5
  <2> HIDE DEF sum
  <2>2. ASSUME NEW s \in SUBSET T, s # {}
        PROVE  whole[s \ {pick(s)}] = sum(s \ {pick(s)})
    <3>1. pick(s) \in s
      BY <2>2, PickIn
    <3>2. s \ {pick(s)} \in SUBSET T /\ s \ {pick(s)} # T
      BY <3>1
    <3>. QED
      BY <3>2, <2>1
  <2>3. Sums(whole, f, T)
    <3>1. whole = [s \in SUBSET T |-> IF s = {} THEN 0 ELSE f[pick(s)] + whole[s \ {pick(s)}]]
      BY <2>2
    <3>. QED
      BY <3>1 DEF Sums
  <2>. QED
    BY <2>3
<1>2. S \in Good
  <2> HIDE DEF Good
  <2>. QED
    BY <1>1, StrictSubsetInduction
<1>. QED
  BY <1>2

\* What SumFunctionOnSet computes, taking away the element the recursion picks.
LEMMA SumPicked ==
  ASSUME NEW f, NEW S, IsFiniteSet(S)
  PROVE  /\ S = {} => SumFunctionOnSet(f, S) = 0
         /\ S # {} => SumFunctionOnSet(f, S) = f[pick(S)] + SumFunctionOnSet(f, S \ {pick(S)})
<1> DEFINE g == CHOOSE x : Sums(x, f, S)
           V == S \ {pick(S)}
           h == CHOOSE x : Sums(x, f, V)
<1>1. Sums(g, f, S)
  BY SumsExist
<1>2. IsFiniteSet(V) /\ V \subseteq S
  BY FS_Subset
<1>3. Sums(h, f, V)
  <2> HIDE DEF V
  <2>. QED
    BY <1>2, SumsExist
<1>4. SumFunctionOnSet(f, S) = g[S] /\ SumFunctionOnSet(f, V) = h[V]
  BY SumDef
<1> HIDE DEF g, h
<1>5. h[V] = g[V]
  <2> HIDE DEF V
  <2>. QED
    BY <1>1, <1>2, <1>3, SumsUnique
<1>6. S = {} => g[S] = 0
  BY <1>1 DEF Sums
<1>7. S # {} => g[S] = f[pick(S)] + g[V]
  BY <1>1 DEF Sums
<1>. QED
  BY <1>4, <1>5, <1>6, <1>7
----------------------------------------------------------------------------
(* Sums of integers.                                                       *)

IntOn(f, S) == \A x \in S : f[x] \in Int

LEMMA SumEmpty ==
  ASSUME NEW f
  PROVE  SumFunctionOnSet(f, {}) = 0
BY SumPicked, FS_EmptySet

LEMMA SumType ==
  ASSUME NEW f, NEW S, IsFiniteSet(S), IntOn(f, S)
  PROVE  SumFunctionOnSet(f, S) \in Int
<1> DEFINE Good == {T \in SUBSET S : SumFunctionOnSet(f, T) \in Int}
<1>1. ASSUME NEW T \in SUBSET S, \A U \in SUBSET T : U # T => U \in Good
      PROVE  T \in Good
  <2>1. IsFiniteSet(T)
    BY FS_Subset
  <2>2. CASE T = {}
    BY <2>2, SumEmpty
  <2>3. CASE T # {}
    <3>1. pick(T) \in T
      BY <2>3, PickIn
    <3>2. T \ {pick(T)} \in Good /\ f[pick(T)] \in Int
      BY <1>1, <3>1 DEF IntOn
    <3>3. SumFunctionOnSet(f, T) = f[pick(T)] + SumFunctionOnSet(f, T \ {pick(T)})
      BY <2>1, <2>3, SumPicked
    <3>. QED
      BY <3>2, <3>3
  <2>. QED
    BY <2>2, <2>3
<1>2. S \in Good
  <2> HIDE DEF Good
  <2>. QED
    BY <1>1, StrictSubsetInduction
<1>. QED
  BY <1>2

\* The order in which a sum is taken does not matter.
LEMMA SumRemove ==
  ASSUME NEW f, NEW S, IsFiniteSet(S), IntOn(f, S), NEW x \in S
  PROVE  SumFunctionOnSet(f, S) = f[x] + SumFunctionOnSet(f, S \ {x})
<1> DEFINE sum(T) == SumFunctionOnSet(f, T)
           Good == {T \in SUBSET S : \A y \in T : sum(T) = f[y] + sum(T \ {y})}
<1>1. ASSUME NEW T \in SUBSET S, \A U \in SUBSET T : U # T => U \in Good
      PROVE  T \in Good
  <2>1. SUFFICES ASSUME NEW y \in T PROVE sum(T) = f[y] + sum(T \ {y})
    OBVIOUS
  <2> DEFINE p == pick(T)
             R == (T \ {y}) \ {p}
  <2>2. IsFiniteSet(T) /\ p \in T
    BY FS_Subset, PickIn
  <2>3. sum(T) = f[p] + sum(T \ {p})
    BY <2>2, SumPicked
  <2>4. CASE p = y
    BY <2>3, <2>4
  <2>5. CASE p # y
    <3> HIDE DEF p
    <3>1. T \ {p} \in Good /\ T \ {y} \in Good
      BY <1>1, <2>2
    <3>2. sum(T \ {p}) = f[y] + sum(R)
      <4>1. (T \ {p}) \ {y} = R
        OBVIOUS
      <4>. QED
        BY <3>1, <4>1, <2>5
    <3>3. sum(T \ {y}) = f[p] + sum(R)
      BY <3>1, <2>5, <2>2
    <3>4. f[y] \in Int /\ f[p] \in Int /\ sum(R) \in Int
      <4>1. IsFiniteSet(R) /\ IntOn(f, R)
        BY <2>2, FS_Subset DEF IntOn
      <4>. QED
        BY <2>2, <4>1, SumType DEF IntOn
    <3> HIDE DEF R, sum
    <3>. QED
      BY <2>3, <3>2, <3>3, <3>4
  <2>. QED
    BY <2>4, <2>5
<1>2. S \in Good
  <2> HIDE DEF Good
  <2>. QED
    BY <1>1, StrictSubsetInduction
<1>. QED
  BY <1>2

\* Induction with one element less at a time.
LEMMA RemoveInduction ==
  ASSUME NEW S, IsFiniteSet(S), NEW Good, {} \in Good,
         \A T \in SUBSET S : \A x \in T : T \ {x} \in Good => T \in Good
  PROVE  S \in Good
<1>1. ASSUME NEW T \in SUBSET S, \A U \in SUBSET T : U # T => U \in Good
      PROVE  T \in Good
  <2>1. CASE T = {}
    BY <2>1
  <2>2. CASE T # {}
    <3>1. PICK x \in T : TRUE
      BY <2>2
    <3>2. T \ {x} \in Good
      BY <1>1, <3>1
    <3>. QED
      BY <3>2
  <2>. QED
    BY <2>1, <2>2
<1>. QED
  BY <1>1, StrictSubsetInduction

\* Functions that agree on a set have the same sum over it.
LEMMA SumEqual ==
  ASSUME NEW S, IsFiniteSet(S), NEW f, NEW g, IntOn(f, S), \A x \in S : f[x] = g[x]
  PROVE  SumFunctionOnSet(f, S) = SumFunctionOnSet(g, S)
<1> DEFINE Good == {T \in SUBSET S : SumFunctionOnSet(f, T) = SumFunctionOnSet(g, T)}
<1>1. {} \in Good
  BY SumEmpty
<1>2. ASSUME NEW T \in SUBSET S, NEW x \in T, T \ {x} \in Good
      PROVE  T \in Good
  <2>1. IsFiniteSet(T) /\ IntOn(f, T) /\ IntOn(g, T)
    BY FS_Subset DEF IntOn
  <2>. QED
    BY <1>2, <2>1, SumRemove
<1>3. S \in Good
  <2> HIDE DEF Good
  <2>. QED
    BY <1>1, <1>2, RemoveInduction
<1>. QED
  BY <1>3

\* A sum over the image of a set under an injection, and that the image is finite.
LEMMA SumImage ==
  ASSUME NEW S, IsFiniteSet(S), NEW h, NEW R, NEW f, NEW g, IntOn(f, S),
         \A x \in S : h[x] \in R,
         \A y \in R : \E x \in S : y = h[x],
         \A x \in S : g[h[x]] = f[x],
         \A x, y \in S : h[x] = h[y] => x = y
  PROVE  IsFiniteSet(R) /\ SumFunctionOnSet(g, R) = SumFunctionOnSet(f, S)
<1> DEFINE Image(T) == {h[x] : x \in T}
           Good == {T \in SUBSET S : /\ IsFiniteSet(Image(T))
                                     /\ SumFunctionOnSet(g, Image(T)) = SumFunctionOnSet(f, T)}
<1>1. {} \in Good
  <2>1. Image({}) = {}
    OBVIOUS
  <2>. QED
    BY <2>1, SumEmpty, FS_EmptySet
<1>2. ASSUME NEW T \in SUBSET S, NEW x \in T, T \ {x} \in Good
      PROVE  T \in Good
  <2>1. Image(T) \ {h[x]} = Image(T \ {x})
    OBVIOUS
  <2>2. Image(T) = Image(T \ {x}) \cup {h[x]}
    OBVIOUS
  <2>3. IsFiniteSet(Image(T))
    <3>1. IsFiniteSet(Image(T \ {x}))
      BY <1>2
    <3> HIDE DEF Image
    <3>2. IsFiniteSet(Image(T \ {x}) \cup {h[x]})
      BY <3>1, FS_AddElement
    <3>. QED
      BY <2>2, <3>2
  <2>4. IntOn(g, Image(T)) /\ h[x] \in Image(T)
    BY DEF IntOn
  <2>5. SumFunctionOnSet(g, Image(T)) = g[h[x]] + SumFunctionOnSet(g, Image(T \ {x}))
    <3> HIDE DEF Image
    <3>. QED
      BY <2>1, <2>3, <2>4, SumRemove
  <2>6. SumFunctionOnSet(f, T) = f[x] + SumFunctionOnSet(f, T \ {x})
    <3>1. IsFiniteSet(T) /\ IntOn(f, T)
      BY FS_Subset DEF IntOn
    <3>. QED
      BY <3>1, SumRemove
  <2>7. g[h[x]] = f[x]
    OBVIOUS
  <2> HIDE DEF Image
  <2>. QED
    BY <1>2, <2>3, <2>5, <2>6, <2>7
<1>3. S \in Good
  <2> HIDE DEF Good
  <2>. QED
    BY <1>1, <1>2, RemoveInduction
<1>4. Image(S) = R
  OBVIOUS
<1>. QED
  BY <1>3, <1>4

\* One more element.
LEMMA SumAdd ==
  ASSUME NEW S, IsFiniteSet(S), NEW f, NEW x, x \notin S, IntOn(f, S), f[x] \in Int
  PROVE  SumFunctionOnSet(f, S \cup {x}) = f[x] + SumFunctionOnSet(f, S)
<1> DEFINE T == S \cup {x}
<1>1. IsFiniteSet(T) /\ IntOn(f, T) /\ x \in T /\ T \ {x} = S
  BY FS_AddElement DEF IntOn
<1> HIDE DEF T
<1>2. SumFunctionOnSet(f, T) = f[x] + SumFunctionOnSet(f, T \ {x})
  BY <1>1, SumRemove
<1>. QED
  BY <1>1, <1>2 DEF T

\* Elements that count for nothing may be left out.
LEMMA SumNonzero ==
  ASSUME NEW S, IsFiniteSet(S), NEW f, IntOn(f, S), NEW R \in SUBSET S,
         \A x \in S \ R : f[x] = 0
  PROVE  SumFunctionOnSet(f, S) = SumFunctionOnSet(f, R)
<1> DEFINE Good == {T \in SUBSET S : SumFunctionOnSet(f, T) = SumFunctionOnSet(f, T \cap R)}
<1>1. {} \in Good
  <2>1. {} \cap R = {}
    OBVIOUS
  <2>. QED
    BY <2>1
<1>2. ASSUME NEW T \in SUBSET S, NEW x \in T, T \ {x} \in Good
      PROVE  T \in Good
  <2>1. /\ IsFiniteSet(T) /\ IntOn(f, T) /\ IsFiniteSet(T \ {x}) /\ IntOn(f, T \ {x})
        /\ IsFiniteSet(T \cap R) /\ IntOn(f, T \cap R)
    BY FS_Subset DEF IntOn
  <2>2. SumFunctionOnSet(f, T) = f[x] + SumFunctionOnSet(f, T \ {x})
    BY <2>1, SumRemove
  <2>3. SumFunctionOnSet(f, T \ {x}) \in Int /\ f[x] \in Int
    BY <2>1, SumType DEF IntOn
  <2>4. CASE x \in R
    <3>1. (T \cap R) \ {x} = (T \ {x}) \cap R
      OBVIOUS
    <3>2. SumFunctionOnSet(f, T \cap R) = f[x] + SumFunctionOnSet(f, (T \cap R) \ {x})
      BY <2>1, <2>4, SumRemove
    <3>. QED
      BY <1>2, <2>2, <3>1, <3>2
  <2>5. CASE x \notin R
    <3>1. T \cap R = (T \ {x}) \cap R /\ f[x] = 0
      BY <2>5
    <3>2. SumFunctionOnSet(f, T \ {x}) = SumFunctionOnSet(f, (T \ {x}) \cap R)
      BY <1>2
    <3>3. SumFunctionOnSet(f, T) = SumFunctionOnSet(f, T \ {x})
      BY <2>2, <2>3, <3>1
    <3>. QED
      BY <3>1, <3>2, <3>3
  <2>. QED
    BY <2>4, <2>5
<1>3. S \in Good
  <2> HIDE DEF Good
  <2>. QED
    BY <1>1, <1>2, RemoveInduction
<1>4. S \cap R = R
  OBVIOUS
<1>. QED
  BY <1>3, <1>4

\* Each value is at most c more than another function's.
LEMMA SumAtMost ==
  ASSUME NEW S, IsFiniteSet(S), NEW f, NEW g, IntOn(f, S), IntOn(g, S), NEW c \in Int,
         \A x \in S : f[x] <= g[x] + c
  PROVE  SumFunctionOnSet(f, S) <= SumFunctionOnSet(g, S) + c * Cardinality(S)
<1> DEFINE Good ==
      {T \in SUBSET S : SumFunctionOnSet(f, T) <= SumFunctionOnSet(g, T) + c * Cardinality(T)}
<1>1. {} \in Good
  BY SumEmpty, FS_EmptySet
<1>2. ASSUME NEW T \in SUBSET S, NEW x \in T, T \ {x} \in Good
      PROVE  T \in Good
  <2> DEFINE U == T \ {x}
             n == Cardinality(U)
  <2>1. IsFiniteSet(T) /\ IntOn(f, T) /\ IntOn(g, T) /\ IsFiniteSet(U) /\ IntOn(f, U) /\ IntOn(g, U)
    BY FS_Subset DEF IntOn
  <2>2. /\ SumFunctionOnSet(f, T) = f[x] + SumFunctionOnSet(f, U)
        /\ SumFunctionOnSet(g, T) = g[x] + SumFunctionOnSet(g, U)
    BY <2>1, SumRemove
  <2>3. n \in Nat /\ Cardinality(T) = n + 1
    <3>1. n \in Nat /\ Cardinality(T) \in Nat
      BY <2>1, FS_CardinalityType
    <3>2. n = Cardinality(T) - 1
      BY <2>1, FS_RemoveElement
    <3>. QED
      BY <3>1, <3>2
  <2>4. /\ SumFunctionOnSet(f, U) \in Int /\ SumFunctionOnSet(g, U) \in Int
        /\ f[x] \in Int /\ g[x] \in Int /\ f[x] <= g[x] + c
    BY <2>1, SumType DEF IntOn
  <2>5. SumFunctionOnSet(f, U) <= SumFunctionOnSet(g, U) + c * n
    BY <1>2
  <2>6. c * (n + 1) = c * n + c /\ c * n \in Int
    BY <2>3
  <2> HIDE DEF U, n
  <2>7. SumFunctionOnSet(f, T) <= SumFunctionOnSet(g, T) + c * Cardinality(T)
    BY <2>2, <2>3, <2>4, <2>5, <2>6
  <2>. QED
    BY <2>7
<1>3. S \in Good
  <2> HIDE DEF Good
  <2>. QED
    BY <1>1, <1>2, RemoveInduction
<1>. QED
  BY <1>3

\* A common factor.
LEMMA SumScaled ==
  ASSUME NEW S, IsFiniteSet(S), NEW f, NEW g, IntOn(f, S), NEW c \in Int,
         \A x \in S : g[x] = c * f[x]
  PROVE  SumFunctionOnSet(g, S) = c * SumFunctionOnSet(f, S)
<1> DEFINE Good == {T \in SUBSET S : SumFunctionOnSet(g, T) = c * SumFunctionOnSet(f, T)}
<1>1. {} \in Good
  BY SumEmpty
<1>2. ASSUME NEW T \in SUBSET S, NEW x \in T, T \ {x} \in Good
      PROVE  T \in Good
  <2> DEFINE U == T \ {x}
  <2>1. IsFiniteSet(T) /\ IntOn(f, T) /\ IntOn(g, T) /\ IsFiniteSet(U) /\ IntOn(f, U)
    BY FS_Subset DEF IntOn
  <2>2. /\ SumFunctionOnSet(f, T) = f[x] + SumFunctionOnSet(f, U)
        /\ SumFunctionOnSet(g, T) = g[x] + SumFunctionOnSet(g, U)
    BY <2>1, SumRemove
  <2>3. SumFunctionOnSet(f, U) \in Int /\ f[x] \in Int /\ g[x] = c * f[x]
    BY <2>1, SumType DEF IntOn
  <2>4. SumFunctionOnSet(g, U) = c * SumFunctionOnSet(f, U)
    BY <1>2
  <2> HIDE DEF U
  <2>5. SumFunctionOnSet(g, T) = c * SumFunctionOnSet(f, T)
    BY <2>2, <2>3, <2>4
  <2>. QED
    BY <2>5
<1>3. S \in Good
  <2> HIDE DEF Good
  <2>. QED
    BY <1>1, <1>2, RemoveInduction
<1>. QED
  BY <1>3

\* Nothing negative, nothing less than zero.
LEMMA SumNonnegative ==
  ASSUME NEW S, IsFiniteSet(S), NEW f, IntOn(f, S), \A x \in S : f[x] >= 0
  PROVE  SumFunctionOnSet(f, S) >= 0
<1> DEFINE zero == [x \in S |-> 0]
<1>1. SumFunctionOnSet(zero, S) = 0
  <2>1. IntOn(zero, S) /\ \A x \in S \ {} : zero[x] = 0
    BY DEF IntOn
  <2> HIDE DEF zero
  <2>. QED
    BY <2>1, SumNonzero, SumEmpty
<1>2. IntOn(zero, S) /\ \A x \in S : zero[x] <= f[x] + 0
  BY DEF IntOn
<1> HIDE DEF zero
<1>3. SumFunctionOnSet(zero, S) <= SumFunctionOnSet(f, S) + 0 * Cardinality(S)
  BY <1>2, SumAtMost
<1>4. Cardinality(S) \in Nat /\ SumFunctionOnSet(f, S) \in Int
  BY SumType, FS_CardinalityType
<1>. QED
  BY <1>1, <1>3, <1>4

----------------------------------------------------------------------------
(* Recursive functions on the natural numbers.                             *)

\* Induction on the natural numbers, for a set.
LEMMA NatSetInduction ==
  ASSUME NEW Good, 0 \in Good, \A n \in Nat : n \in Good => n + 1 \in Good
  PROVE  \A n \in Nat : n \in Good
<1> DEFINE Bad == Nat \ Good
<1>1. SUFFICES ASSUME Bad # {} PROVE FALSE
  OBVIOUS
<1>2. Bad \subseteq Nat
  OBVIOUS
<1> HIDE DEF Bad
<1>3. PICK n \in Bad : \A m \in Bad : <<m, n>> \notin OpToRel(<, Nat)
  BY <1>1, <1>2, NatLessThanWellFounded, WFMin
<1>4. \A m \in Bad : ~(m < n)
  BY <1>2, <1>3 DEF OpToRel
<1> USE DEF Bad
<1>5. n # 0 /\ n - 1 \in Nat
  OBVIOUS
<1>6. n - 1 \in Good
  BY <1>4, <1>5
<1>7. (n - 1) + 1 \in Good
  BY <1>5, <1>6
<1>. QED
  BY <1>7

\* f lists what step makes of s0, of that, and so on.
Iterates(f, S, s0, step) ==
  f \in [Nat -> S] /\ f[0] = s0 /\ \A n \in Nat : f[n + 1] = step[f[n]]

\* There is such a list for every step.
LEMMA Recursion ==
  ASSUME NEW S, NEW s0 \in S, NEW step \in [S -> S]
  PROVE  \E f : Iterates(f, S, s0, step)
<1> DEFINE Upto(g, n) == g \in [0..n -> S] /\ g[0] = s0 /\ \A k \in 0..n : k # n => g[k + 1] = step[g[k]]
           Good == {n \in Nat : \E g : Upto(g, n)}
           G(n) == CHOOSE g : Upto(g, n)
           f == [n \in Nat |-> G(n)[n]]
<1>1. \A n \in Nat : n \in Good
  <2>1. 0 \in Good
    <3>1. Upto([k \in 0..0 |-> s0], 0)
      OBVIOUS
    <3>. QED
      BY <3>1
  <2>2. ASSUME NEW n \in Nat, n \in Good
        PROVE  n + 1 \in Good
    <3>1. PICK g : Upto(g, n)
      BY <2>2
    <3> DEFINE h == [k \in 0..(n + 1) |-> IF k = n + 1 THEN step[g[n]] ELSE g[k]]
    <3>2. n \in 0..n /\ g[n] \in S /\ step[g[n]] \in S
      BY <3>1
    <3>3. h \in [0..(n + 1) -> S]
      <4>1. \A k \in 0..(n + 1) : k # n + 1 => k \in 0..n
        OBVIOUS
      <4>. QED
        BY <3>1, <3>2, <4>1
    <3>4. h[0] = s0
      BY <3>1
    <3>5. ASSUME NEW k \in 0..(n + 1), k # n + 1
          PROVE  h[k + 1] = step[h[k]]
      <4>1. k \in 0..n /\ h[k] = g[k] /\ k + 1 \in 0..(n + 1)
        BY <3>5
      <4>2. CASE k = n
        BY <4>1, <4>2
      <4>3. CASE k # n
        <5>1. h[k + 1] = g[k + 1]
          BY <4>1, <4>3
        <5>. QED
          BY <3>1, <4>1, <4>3, <5>1
      <4>. QED
        BY <4>2, <4>3
    <3>. QED
      BY <3>3, <3>4, <3>5
  <2> HIDE DEF Good
  <2>. QED
    BY <2>1, <2>2, NatSetInduction
<1>2. \A n \in Nat : Upto(G(n), n)
  BY <1>1
<1>3. ASSUME NEW n \in Nat, NEW g, NEW h, Upto(g, n), Upto(h, n + 1)
      PROVE  g[n] = h[n]
  <2> DEFINE Agree == {k \in Nat : k <= n => g[k] = h[k]}
  <2>1. 0 \in Agree
    BY <1>3
  <2>2. ASSUME NEW k \in Nat, k \in Agree
        PROVE  k + 1 \in Agree
    BY <1>3, <2>2
  <2>3. \A k \in Nat : k \in Agree
    <3> HIDE DEF Agree
    <3>. QED
      BY <2>1, <2>2, NatSetInduction
  <2>. QED
    BY <2>3
<1> HIDE DEF G
<1>4. f \in [Nat -> S]
  <2>1. \A n \in Nat : n \in 0..n
    OBVIOUS
  <2>. QED
    BY <1>2, <2>1
<1>5. f[0] = s0
  BY <1>2
<1>6. ASSUME NEW n \in Nat
      PROVE  f[n + 1] = step[f[n]]
  <2>1. Upto(G(n), n) /\ Upto(G(n + 1), n + 1)
    BY <1>2
  <2>2. G(n)[n] = G(n + 1)[n]
    <3> HIDE DEF Upto
    <3>. QED
      BY <1>3, <2>1
  <2>3. n \in 0..(n + 1) /\ n # n + 1
    OBVIOUS
  <2>4. G(n + 1)[n + 1] = step[G(n + 1)[n]]
    BY <2>1, <2>3
  <2>. QED
    BY <2>2, <2>4
<1> HIDE DEF f
<1>. QED
  BY <1>4, <1>5, <1>6 DEF Iterates

----------------------------------------------------------------------------
(* Powers.                                                                 *)

\* The recursion of Power has a solution.
LEMMA PowerIs ==
  ASSUME NEW b \in Int
  PROVE  /\ Power(b, 0) = 1
         /\ \A n \in Nat : Power(b, n) \in Int /\ Power(b, n + 1) = b * Power(b, n)
<1> DEFINE Solves(p) == p = [k \in Nat |-> IF k = 0 THEN 1 ELSE b * p[k - 1]]
           step == [x \in Int |-> b * x]
           q == CHOOSE p : Solves(p)
<1>1. \E p : Solves(p)
  <2>1. step \in [Int -> Int] /\ 1 \in Int
    OBVIOUS
  <2> HIDE DEF step, Solves, q
  <2>a. \E p : Iterates(p, Int, 1, step)
    BY <2>1, Recursion
  <2>2. PICK p : Iterates(p, Int, 1, step)
    BY <2>a
  <2>b. p \in [Nat -> Int] /\ p[0] = 1 /\ \A n \in Nat : p[n + 1] = step[p[n]]
    BY <2>2 DEF Iterates
  <2> USE DEF step, Solves
  <2>3. ASSUME NEW k \in Nat
        PROVE  p[k] = IF k = 0 THEN 1 ELSE b * p[k - 1]
    <3>1. CASE k = 0
      BY <2>b, <3>1
    <3>2. CASE k # 0
      <4>1. k - 1 \in Nat /\ (k - 1) + 1 = k
        BY <3>2
      <4>2. p[(k - 1) + 1] = step[p[k - 1]] /\ p[k - 1] \in Int
        BY <2>b, <4>1
      <4>. QED
        BY <3>2, <4>1, <4>2
    <3>. QED
      BY <3>1, <3>2
  <2>4. Solves(p)
    <3>1. p = [k \in Nat |-> p[k]]
      BY <2>b
    <3>. QED
      BY <2>3, <3>1
  <2>. QED
    BY <2>4
<1>2. Solves(q)
  BY <1>1
<1>3. \A n : Power(b, n) = q[n]
  BY DEF Power
<1> HIDE DEF q
<1>4. \A k \in Nat : q[k] = IF k = 0 THEN 1 ELSE b * q[k - 1]
  BY <1>2
<1>5. q[0] = 1 /\ \A n \in Nat : q[n + 1] = b * q[n]
  <2>1. \A n \in Nat : n + 1 \in Nat /\ n + 1 # 0 /\ (n + 1) - 1 = n
    OBVIOUS
  <2>. QED
    BY <1>4, <2>1
<1> DEFINE Good == {n \in Nat : q[n] \in Int}
<1>6. \A n \in Nat : n \in Good
  <2>1. 0 \in Good /\ \A n \in Nat : n \in Good => n + 1 \in Good
    BY <1>5
  <2> HIDE DEF Good
  <2>. QED
    BY <2>1, NatSetInduction
<1>. QED
  BY <1>3, <1>5, <1>6

----------------------------------------------------------------------------
(* Fractions: Euclid's algorithm ends with a common divisor, so reducing a *)
(* fraction keeps its value.                                               *)

\* c divides n.
Divides(c, n) == \E k \in Int : n = c * k

\* c is a common divisor of m and n, and every other divides it.
CommonDivisors(m, n) == {c \in Nat \ {0} : Divides(c, m) /\ Divides(c, n)}
Greatest(c, D) == c \in D /\ \A d \in D : Divides(d, c)

\* A divisor is at most what it divides.
LEMMA DivisorSmaller ==
  ASSUME NEW c \in Nat \ {0}, NEW n \in Nat \ {0}, Divides(c, n)
  PROVE  c <= n
<1>1. PICK k \in Int : n = c * k
  BY DEF Divides
<1>2. k >= 1
  BY <1>1
<1>3. \A x \in Nat \ {0} : \A y \in Int : y >= 1 => x * y >= x
  OBVIOUS
<1>. QED
  BY <1>1, <1>2, <1>3

\* What division leaves.
LEMMA DivModFacts ==
  ASSUME NEW m \in Nat, NEW n \in Nat \ {0}
  PROVE  m = n * (m \div n) + (m % n) /\ m % n \in Nat /\ m % n < n /\ m \div n \in Nat
  OBVIOUS

\* A step of Euclid's algorithm keeps the common divisors.
LEMMA SameDivisors ==
  ASSUME NEW m \in Nat, NEW n \in Nat \ {0}
  PROVE  CommonDivisors(n, m % n) = CommonDivisors(m, n)
<1> DEFINE q == m \div n
           r == m % n
<1>1. m = n * q + r /\ q \in Nat /\ r \in Nat
  BY DivModFacts
<1> HIDE DEF q, r
<1>2. ASSUME NEW c \in Nat \ {0}, Divides(c, n)
      PROVE  Divides(c, m) <=> Divides(c, r)
  <2>1. PICK k \in Int : n = c * k
    BY <1>2 DEF Divides
  <2>2. ASSUME NEW j \in Int, m = c * j
        PROVE  Divides(c, r)
    <3>1. r = c * (j - k * q) /\ j - k * q \in Int
      BY <1>1, <2>1, <2>2
    <3>. QED
      BY <3>1 DEF Divides
  <2>3. ASSUME NEW j \in Int, r = c * j
        PROVE  Divides(c, m)
    <3>1. m = c * (j + k * q) /\ j + k * q \in Int
      BY <1>1, <2>1, <2>3
    <3>. QED
      BY <3>1 DEF Divides
  <2>. QED
    BY <2>2, <2>3 DEF Divides
<1>. QED
  BY <1>2 DEF CommonDivisors, r

\* The recursion of gcd has a solution.
LEMMA GcdIs ==
  \A m, n \in Nat : gcd[<<m, n>>] = IF n = 0 THEN m ELSE gcd[<<n, m % n>>]
<1> DEFINE Solves(g) == g = [p \in Nat \X Nat |-> IF p[2] = 0 THEN p[1] ELSE g[<<p[2], p[1] % p[2]>>]]
           G(m, n) == IF n = 0 THEN m ELSE CHOOSE c : Greatest(c, CommonDivisors(m, n))
           h == [p \in Nat \X Nat |-> G(p[1], p[2])]
<1>1. ASSUME NEW m \in Nat, NEW n \in Nat \ {0}
      PROVE  G(m, n) = G(n, m % n)
  <2>1. CASE m % n = 0
    <3>1. n \in CommonDivisors(m, n)
      <4>1. m = n * (m \div n) /\ m \div n \in Int
        BY <2>1, DivModFacts
      <4>2. n = n * 1
        OBVIOUS
      <4>. QED
        BY <4>1, <4>2 DEF CommonDivisors, Divides
    <3>2. \A d \in CommonDivisors(m, n) : Divides(d, n)
      BY DEF CommonDivisors
    <3>3. Greatest(n, CommonDivisors(m, n))
      BY <3>1, <3>2 DEF Greatest
    <3>4. ASSUME NEW c, Greatest(c, CommonDivisors(m, n))
          PROVE  c = n
      <4>1. c \in Nat \ {0} /\ Divides(c, n) /\ Divides(n, c)
        BY <3>1, <3>4 DEF Greatest, CommonDivisors
      <4>2. c <= n /\ n <= c
        BY <4>1, DivisorSmaller
      <4>. QED
        BY <4>1, <4>2
    <3>5. (CHOOSE c : Greatest(c, CommonDivisors(m, n))) = n
      BY <3>3, <3>4
    <3>. QED
      BY <2>1, <3>5
  <2>2. CASE m % n # 0
    <3>1. CommonDivisors(n, m % n) = CommonDivisors(m, n)
      BY SameDivisors
    <3>. QED
      BY <2>2, <3>1
  <2>. QED
    BY <2>1, <2>2
<1>2. \A m \in Nat : G(m, 0) = m
  OBVIOUS
<1> HIDE DEF G
<1>3. Solves(h)
  <2>1. \A m, n \in Nat : h[<<m, n>>] = G(m, n)
    OBVIOUS
  <2>2. ASSUME NEW p \in Nat \X Nat
        PROVE  h[p] = IF p[2] = 0 THEN p[1] ELSE h[<<p[2], p[1] % p[2]>>]
    <3>1. p[1] \in Nat /\ p[2] \in Nat /\ h[p] = G(p[1], p[2])
      OBVIOUS
    <3> HIDE DEF h
    <3>2. CASE p[2] = 0
      BY <1>2, <3>1, <3>2
    <3>3. CASE p[2] # 0
      <4>1. p[1] % p[2] \in Nat
        BY <3>1, <3>3, DivModFacts
      <4>2. h[<<p[2], p[1] % p[2]>>] = G(p[2], p[1] % p[2])
        BY <2>1, <3>1, <4>1
      <4>3. G(p[1], p[2]) = G(p[2], p[1] % p[2])
        BY <1>1, <3>1, <3>3
      <4>. QED
        BY <3>1, <3>3, <4>2, <4>3
    <3>. QED
      BY <3>2, <3>3
  <2>3. h = [p \in Nat \X Nat |-> h[p]]
    OBVIOUS
  <2> HIDE DEF h
  <2>. QED
    BY <2>2, <2>3
<1> HIDE DEF h
<1>4. gcd = CHOOSE g : Solves(g)
  BY DEF gcd
<1> HIDE DEF Solves
<1>5. Solves(gcd)
  BY <1>3, <1>4
<1>6. ASSUME NEW m \in Nat, NEW n \in Nat
      PROVE  gcd[<<m, n>>] = IF n = 0 THEN m ELSE gcd[<<n, m % n>>]
  <2>1. gcd = [p \in Nat \X Nat |-> IF p[2] = 0 THEN p[1] ELSE gcd[<<p[2], p[1] % p[2]>>]]
    BY <1>5 DEF Solves
  <2> DEFINE g == gcd
  <2> HIDE DEF g
  <2>2. g = [p \in Nat \X Nat |-> IF p[2] = 0 THEN p[1] ELSE g[<<p[2], p[1] % p[2]>>]]
    BY <2>1 DEF g
  <2>3. g[<<m, n>>] = IF n = 0 THEN m ELSE g[<<n, m % n>>]
    BY <2>2
  <2>. QED
    BY <2>3 DEF g
<1>. QED
  BY <1>6

\* What gcd ends with divides both.
LEMMA GcdDivides ==
  ASSUME NEW m \in Nat, NEW n \in Nat, m # 0 \/ n # 0
  PROVE  gcd[<<m, n>>] \in CommonDivisors(m, n)
<1> DEFINE Good == {b \in Nat : \A k, l \in Nat : k <= b /\ (l # 0 \/ k # 0)
                                   => gcd[<<l, k>>] \in CommonDivisors(l, k)}
<1>0. ASSUME NEW l \in Nat \ {0}
      PROVE  gcd[<<l, 0>>] \in CommonDivisors(l, 0)
  <2>1. gcd[<<l, 0>>] = l
    BY GcdIs
  <2>2. 0 = l * 0 /\ l = l * 1
    OBVIOUS
  <2>. QED
    BY <2>1, <2>2 DEF CommonDivisors, Divides
<1>1. 0 \in Good
  BY <1>0
<1>2. ASSUME NEW b \in Nat, b \in Good
      PROVE  b + 1 \in Good
  <2>1. ASSUME NEW k \in Nat, NEW l \in Nat, k <= b + 1, k # 0
        PROVE  gcd[<<l, k>>] \in CommonDivisors(l, k)
    <3>1. l % k \in Nat /\ l % k <= b
      BY <2>1, DivModFacts
    <3>2. gcd[<<k, l % k>>] \in CommonDivisors(k, l % k)
      BY <1>2, <2>1, <3>1
    <3>3. gcd[<<l, k>>] = gcd[<<k, l % k>>]
      BY <2>1, GcdIs
    <3>. QED
      BY <2>1, <3>2, <3>3, SameDivisors
  <2>2. ASSUME NEW k \in Nat, NEW l \in Nat, k <= b + 1, l # 0 \/ k # 0
        PROVE  gcd[<<l, k>>] \in CommonDivisors(l, k)
    BY <1>0, <2>1, <2>2
  <2>. QED
    BY <2>2
<1>3. \A b \in Nat : b \in Good
  <2> HIDE DEF Good
  <2>. QED
    BY <1>1, <1>2, NatSetInduction
<1>4. n \in Good
  BY <1>3
<1>. QED
  BY <1>4

\* A fraction: an integer over a positive one.
Fraction == [n: Int, d: Nat \ {0}]

\* The fraction x is a / b.
Is(x, a, b) == x.n * b = a * x.d

\* Frac(a, b) is a / b.
LEMMA FracIs ==
  ASSUME NEW a \in Int, NEW b \in Nat \ {0}
  PROVE  Frac(a, b) \in Fraction /\ Is(Frac(a, b), a, b)
<1> DEFINE abs == IF a < 0 THEN -a ELSE a
           c == gcd[<<abs, b>>]
<1>1. abs \in Nat
  OBVIOUS
<1>2. c \in CommonDivisors(abs, b)
  BY <1>1, GcdDivides
<1>3. Frac(a, b) = [n |-> a \div c, d |-> b \div c]
  BY DEF Frac, Reduced
<1> HIDE DEF c
<1>4. c \in Nat \ {0} /\ Divides(c, abs) /\ Divides(c, b)
  BY <1>2 DEF CommonDivisors
<1>5. PICK j \in Int : abs = c * j
  BY <1>4 DEF Divides
<1>6. PICK k \in Int : b = c * k
  BY <1>4 DEF Divides
<1>7. PICK i \in Int : a = c * i
  <2>1. CASE a < 0
    <3>1. a = c * (-j) /\ -j \in Int
      BY <1>4, <1>5, <2>1
    <3>. QED
      BY <3>1
  <2>2. CASE ~(a < 0)
    BY <1>5, <2>2
  <2>. QED
    BY <2>1, <2>2
<1>8. \A x \in Int : \A y \in Nat \ {0} : (y * x) \div y = x
  OBVIOUS
<1>9. Frac(a, b) = [n |-> i, d |-> k]
  BY <1>3, <1>4, <1>6, <1>7, <1>8
<1>10. k > 0
  BY <1>4, <1>6
<1>11. i * b = a * k
  BY <1>4, <1>6, <1>7
<1>. QED
  BY <1>9, <1>10, <1>11 DEF Fraction, Is

----------------------------------------------------------------------------
(* What is done with fractions, whatever the terms.                        *)

\* A positive factor on both sides.
LEMMA CancelFactor ==
  ASSUME NEW k \in Nat \ {0}, NEW x \in Int, NEW y \in Int
  PROVE  (x * k <= y * k <=> x <= y) /\ (x * k = y * k <=> x = y)
  OBVIOUS

\* Comparing two fractions is comparing what they are.
LEMMA CompareIs ==
  ASSUME NEW x \in Fraction, NEW y \in Fraction, NEW a \in Int, NEW b \in Nat \ {0},
         NEW c \in Int, NEW d \in Nat \ {0}, Is(x, a, b), Is(y, c, d)
  PROVE  /\ Same(x, y) <=> a * d = c * b
         /\ Leq(x, y) <=> a * d <= c * b
<1> DEFINE l == x.n * y.d
           r == y.n * x.d
           k == b * d
           e == x.d * y.d
<1>1. /\ x.n \in Int /\ x.d \in Nat \ {0} /\ y.n \in Int /\ y.d \in Nat \ {0}
      /\ x.n * b = a * x.d /\ y.n * d = c * y.d
  BY DEF Fraction, Is
<1>2. l \in Int /\ r \in Int /\ k \in Nat \ {0} /\ e \in Nat \ {0} /\ a * d \in Int /\ c * b \in Int
  BY <1>1
<1>3. l * k = (a * d) * e
  <2>1. l * k = (x.n * b) * (y.d * d)
    BY <1>1
  <2>2. (a * x.d) * (y.d * d) = (a * d) * e
    BY <1>1
  <2>. QED
    BY <1>1, <2>1, <2>2
<1>4. r * k = (c * b) * e
  <2>1. r * k = (y.n * d) * (x.d * b)
    BY <1>1
  <2>2. (c * y.d) * (x.d * b) = (c * b) * e
    BY <1>1
  <2>. QED
    BY <1>1, <2>1, <2>2
<1>5. (Same(x, y) <=> l = r) /\ (Leq(x, y) <=> l <= r)
  BY DEF Same, Leq
<1> HIDE DEF l, r, k, e
<1>6. (l = r <=> l * k = r * k) /\ (l <= r <=> l * k <= r * k)
  BY <1>2, CancelFactor
<1>7. /\ a * d = c * b <=> (a * d) * e = (c * b) * e
      /\ a * d <= c * b <=> (a * d) * e <= (c * b) * e
  BY <1>2, CancelFactor
<1>. QED
  BY <1>3, <1>4, <1>5, <1>6, <1>7

\* What a fraction is in other terms.
LEMMA IsScaled ==
  ASSUME NEW x \in Fraction, NEW a \in Int, NEW b \in Nat \ {0}, NEW k \in Nat \ {0}
  PROVE  Is(x, a, b) <=> Is(x, a * k, b * k)
<1>1. x.n \in Int /\ x.d \in Nat \ {0}
  BY DEF Fraction
<1>2. x.n * (b * k) = (x.n * b) * k /\ (a * k) * x.d = (a * x.d) * k
  BY <1>1
<1>3. x.n * b \in Int /\ a * x.d \in Int
  BY <1>1
<1>4. x.n * b = a * x.d <=> (x.n * b) * k = (a * x.d) * k
  BY <1>3, CancelFactor
<1>. QED
  BY <1>2, <1>4 DEF Is

\* The product of fractions.
LEMMA TimesIs ==
  ASSUME NEW x \in Fraction, NEW y \in Fraction, NEW a \in Int, NEW b \in Nat \ {0},
         NEW c \in Int, NEW d \in Nat \ {0}, Is(x, a, b), Is(y, c, d)
  PROVE  Times(x, y) \in Fraction /\ Is(Times(x, y), a * c, b * d)
<1> DEFINE z == Times(x, y)
           p == x.n * y.n
           q == x.d * y.d
<1>1. /\ x.n \in Int /\ x.d \in Nat \ {0} /\ y.n \in Int /\ y.d \in Nat \ {0}
      /\ x.n * b = a * x.d /\ y.n * d = c * y.d
  BY DEF Fraction, Is
<1>2. p \in Int /\ q \in Nat \ {0} /\ b * d \in Nat \ {0} /\ a * c \in Int
  BY <1>1
<1>3. z = Frac(p, q)
  BY DEF Times
<1>4. p * (b * d) = (a * c) * q
  <2>1. p * (b * d) = (x.n * b) * (y.n * d)
    BY <1>1
  <2>2. (a * x.d) * (c * y.d) = (a * c) * q
    BY <1>1
  <2>. QED
    BY <1>1, <2>1, <2>2
<1> HIDE DEF z, p, q
<1>5. z \in Fraction /\ z.n * q = p * z.d
  BY <1>2, <1>3, FracIs DEF Is
<1>6. z.n \in Int /\ z.d \in Nat \ {0}
  BY <1>5 DEF Fraction
<1>7. (z.n * (b * d)) * q = ((a * c) * z.d) * q
  <2>1. (z.n * (b * d)) * q = (z.n * q) * (b * d)
    BY <1>2, <1>6
  <2>2. (p * z.d) * (b * d) = (p * (b * d)) * z.d
    BY <1>2, <1>6
  <2>3. ((a * c) * q) * z.d = ((a * c) * z.d) * q
    BY <1>2, <1>6
  <2>. QED
    BY <1>4, <1>5, <2>1, <2>2, <2>3
<1>8. z.n * (b * d) = (a * c) * z.d
  <2>1. z.n * (b * d) \in Int /\ (a * c) * z.d \in Int
    BY <1>2, <1>6
  <2>. QED
    BY <1>2, <1>7, <2>1, CancelFactor
<1>. QED
  BY <1>5, <1>8 DEF Is, z

\* The sum of two fractions.
LEMMA PlusIs ==
  ASSUME NEW x \in Fraction, NEW y \in Fraction, NEW a \in Int, NEW b \in Nat \ {0},
         NEW c \in Int, NEW d \in Nat \ {0}, Is(x, a, b), Is(y, c, d)
  PROVE  Plus(x, y) \in Fraction /\ Is(Plus(x, y), a * d + c * b, b * d)
<1> DEFINE z == Plus(x, y)
           p == x.n * y.d + y.n * x.d
           q == x.d * y.d
           s == a * d + c * b
           t == b * d
<1>1. /\ x.n \in Int /\ x.d \in Nat \ {0} /\ y.n \in Int /\ y.d \in Nat \ {0}
      /\ x.n * b = a * x.d /\ y.n * d = c * y.d
  BY DEF Fraction, Is
<1>2. p \in Int /\ q \in Nat \ {0} /\ t \in Nat \ {0} /\ s \in Int
  BY <1>1
<1>3. z = Frac(p, q)
  BY DEF Plus
<1>4. p * t = s * q
  <2>a. \A e, f, g \in Int : (e + f) * g = e * g + f * g
    OBVIOUS
  <2>b. /\ (x.n * y.d) * t = (x.n * b) * (y.d * d)
        /\ (y.n * x.d) * t = (y.n * d) * (x.d * b)
    BY <1>1
  <2>1. p * t = (x.n * b) * (y.d * d) + (y.n * d) * (x.d * b)
    <3>1. x.n * y.d \in Int /\ y.n * x.d \in Int /\ t \in Int
      BY <1>1
    <3> HIDE DEF t
    <3>. QED
      BY <2>a, <2>b, <3>1
  <2>2. (a * x.d) * (y.d * d) + (c * y.d) * (x.d * b) = s * q
    BY <1>1
  <2>. QED
    BY <1>1, <2>1, <2>2
<1> HIDE DEF z, p, q, s, t
<1>5. z \in Fraction /\ z.n * q = p * z.d
  BY <1>2, <1>3, FracIs DEF Is
<1>6. z.n \in Int /\ z.d \in Nat \ {0}
  BY <1>5 DEF Fraction
<1>7. (z.n * t) * q = (s * z.d) * q
  <2>1. (z.n * t) * q = (z.n * q) * t
    BY <1>2, <1>6
  <2>2. (p * z.d) * t = (p * t) * z.d
    BY <1>2, <1>6
  <2>3. (s * q) * z.d = (s * z.d) * q
    BY <1>2, <1>6
  <2>. QED
    BY <1>4, <1>5, <2>1, <2>2, <2>3
<1>8. z.n * t = s * z.d
  <2> DEFINE u == z.n * t
             v == s * z.d
  <2>1. u \in Int /\ v \in Int
    BY <1>2, <1>6
  <2>2. u * q = v * q
    BY <1>7
  <2> HIDE DEF u, v
  <2>3. u = v
    BY <1>2, <2>1, <2>2, CancelFactor
  <2>. QED
    BY <2>3 DEF u, v
<1>. QED
  BY <1>5, <1>8 DEF Is, z, s, t

\* The quotient of fractions, 0 for a divisor of 0.
LEMMA RatioIs ==
  ASSUME NEW x \in Fraction, NEW y \in Fraction, NEW a \in Int, NEW b \in Nat \ {0},
         NEW c \in Int, NEW d \in Nat \ {0}, Is(x, a, b), Is(y, c, d)
  PROVE  /\ Ratio(x, y) \in Fraction
         /\ c > 0 => Is(Ratio(x, y), a * d, b * c)
         /\ c = 0 => Is(Ratio(x, y), 0, 1)
<1>1. /\ x.n \in Int /\ x.d \in Nat \ {0} /\ y.n \in Int /\ y.d \in Nat \ {0}
      /\ x.n * b = a * x.d /\ y.n * d = c * y.d
  BY DEF Fraction, Is
<1>2. (y.n > 0 <=> c > 0) /\ (y.n = 0 <=> c = 0)
  <2>1. \A e \in Int : \A k \in Nat \ {0} : (e * k > 0 <=> e > 0) /\ (e * k = 0 <=> e = 0)
    OBVIOUS
  <2>. QED
    BY <1>1, <2>1
<1>3. CASE y.n > 0
  <2> DEFINE v == [n |-> y.d, d |-> y.n]
  <2>1. v \in Fraction /\ d \in Int /\ c \in Nat \ {0}
    BY <1>1, <1>2, <1>3 DEF Fraction
  <2>2. Is(v, d, c)
    BY <1>1 DEF Is
  <2>3. Ratio(x, y) = Times(x, v)
    <3>1. Ratio(x, y) = Frac(x.n * y.d, x.d * y.n)
      BY <1>1, <1>3 DEF Ratio
    <3>2. v.n = y.d /\ v.d = y.n
      OBVIOUS
    <3>. QED
      BY <3>1, <3>2 DEF Times
  <2> HIDE DEF v
  <2>4. Times(x, v) \in Fraction /\ Is(Times(x, v), a * d, b * c)
    BY <2>1, <2>2, TimesIs
  <2>. QED
    BY <1>2, <1>3, <2>3, <2>4
<1>4. CASE y.n < 0
  <2>1. Ratio(x, y) = Frac(-(x.n * y.d), x.d * (-y.n))
    BY <1>1, <1>4 DEF Ratio
  <2>2. -(x.n * y.d) \in Int /\ x.d * (-y.n) \in Nat \ {0}
    BY <1>1, <1>4
  <2>3. Ratio(x, y) \in Fraction
    BY <2>1, <2>2, FracIs
  <2>. QED
    BY <1>1, <1>2, <1>4, <2>3
<1>5. CASE y.n = 0
  <2>1. Ratio(x, y) = Frac(0, 1)
    BY <1>1, <1>5 DEF Ratio
  <2>. QED
    BY <1>2, <1>5, <2>1, FracIs
<1>. QED
  BY <1>1, <1>3, <1>4, <1>5

\* The value of a fraction, in its own terms.
LEMMA IsItself ==
  ASSUME NEW x \in Fraction
  PROVE  x.n \in Int /\ x.d \in Nat \ {0} /\ Is(x, x.n, x.d)
  BY DEF Fraction, Is

\* Two ways to write the same fraction.
LEMMA IsUnique ==
  ASSUME NEW x \in Fraction, NEW a \in Int, NEW b \in Nat \ {0}, NEW c \in Int, NEW d \in Nat \ {0},
         Is(x, a, b)
  PROVE  Is(x, c, d) <=> a * d = c * b
<1>1. x.n \in Int /\ x.d \in Nat \ {0} /\ x.n * b = a * x.d
  BY DEF Fraction, Is
<1> DEFINE l == x.n * d
           r == c * x.d
<1>2. l \in Int /\ r \in Int /\ a * d \in Int /\ c * b \in Int
  BY <1>1
<1>3. l * b = (a * d) * x.d
  <2>1. l * b = (x.n * b) * d
    BY <1>1
  <2>2. (a * x.d) * d = (a * d) * x.d
    BY <1>1
  <2>. QED
    BY <1>1, <2>1, <2>2
<1>4. r * b = (c * b) * x.d
  BY <1>1
<1>5. Is(x, c, d) <=> l = r
  BY DEF Is
<1> HIDE DEF l, r
<1>6. l = r <=> l * b = r * b
  BY <1>2, CancelFactor
<1>7. (a * d) * x.d = (c * b) * x.d <=> a * d = c * b
  BY <1>1, <1>2, CancelFactor
<1>. QED
  BY <1>3, <1>4, <1>5, <1>6, <1>7

----------------------------------------------------------------------------
(* The sum of fractions is that of their numerators over a common          *)
(* denominator.                                                            *)

\* SumFrac, on a set.
FracsOnSet(f, S) == FoldFunctionOnSet(Plus, Frac(0, 1), f, S)

\* SumFrac is the sum on the domain.
LEMMA SumFracIs ==
  ASSUME NEW f
  PROVE  SumFrac(f) = FracsOnSet(f, DOMAIN f)
  BY DEF SumFrac, FoldFunction, FracsOnSet

\* g sums f over every subset of S.
FracSums(g, f, S) ==
  g = [s \in SUBSET S |-> IF s = {} THEN Frac(0, 1) ELSE Plus(f[pick(s)], g[s \ {pick(s)}])]

\* The sum by its recursion.
LEMMA FracSumDef ==
  ASSUME NEW f, NEW S
  PROVE  FracsOnSet(f, S) = (CHOOSE g : FracSums(g, f, S))[S]
BY DEF FracsOnSet, FoldFunctionOnSet, MapThenFoldSet, FracSums, pick

\* Two functions that sum f over all subsets of a finite set agree.
LEMMA FracSumsUnique ==
  ASSUME NEW S, IsFiniteSet(S), NEW f, NEW g, NEW h, NEW R, S \subseteq R,
         FracSums(g, f, S), FracSums(h, f, R)
  PROVE  g[S] = h[S]
<1> DEFINE Good == {T \in SUBSET S : g[T] = h[T]}
<1>1. ASSUME NEW T \in SUBSET S, \A U \in SUBSET T : U # T => U \in Good
      PROVE  T \in Good
  <2>1. CASE T = {}
    BY <2>1 DEF FracSums
  <2>2. CASE T # {}
    <3>1. pick(T) \in T
      BY <2>2, PickIn
    <3>2. T \ {pick(T)} \in Good
      BY <1>1, <3>1
    <3>3. g[T] = Plus(f[pick(T)], g[T \ {pick(T)}])
      BY <2>2 DEF FracSums
    <3>4. h[T] = Plus(f[pick(T)], h[T \ {pick(T)}])
      BY <2>2, T \in SUBSET R DEF FracSums
    <3>. QED
      BY <3>2, <3>3, <3>4
  <2>. QED
    BY <2>1, <2>2
<1>2. S \in Good
  <2> HIDE DEF Good
  <2>. QED
    BY <1>1, StrictSubsetInduction
<1>. QED
  BY <1>2

\* The recursion has a solution for every finite set: the sums of the strict subsets make one.
LEMMA FracSumsExist ==
  ASSUME NEW f, NEW S, IsFiniteSet(S)
  PROVE  \E g : FracSums(g, f, S)
<1> DEFINE Good == {T \in SUBSET S : \E g : FracSums(g, f, T)}
<1>1. ASSUME NEW T \in SUBSET S, \A U \in SUBSET T : U # T => U \in Good
      PROVE  T \in Good
  <2> DEFINE sum(U) == (CHOOSE g : FracSums(g, f, U))[U]
             whole == [s \in SUBSET T |-> IF s = {} THEN Frac(0, 1) ELSE Plus(f[pick(s)], sum(s \ {pick(s)}))]
  <2>1. ASSUME NEW U \in SUBSET T, U # T
        PROVE  /\ U = {} => sum(U) = Frac(0, 1)
               /\ U # {} => sum(U) = Plus(f[pick(U)], sum(U \ {pick(U)}))
    <3> DEFINE g == CHOOSE x : FracSums(x, f, U)
    <3>1. \E x : FracSums(x, f, U)
      BY <1>1, <2>1
    <3>2. FracSums(g, f, U)
      BY <3>1
    <3>3. sum(U) = g[U]
      OBVIOUS
    <3>4. CASE U = {}
      BY <3>2, <3>3, <3>4 DEF FracSums
    <3>5. CASE U # {}
      <4> DEFINE V == U \ {pick(U)}
                 h == CHOOSE x : FracSums(x, f, V)
      <4>1. pick(U) \in U
        BY <3>5, PickIn
      <4>2. V \in SUBSET T /\ V # T /\ V \subseteq U /\ IsFiniteSet(V)
        BY <4>1, FS_Subset
      <4>3. \E x : FracSums(x, f, V)
        BY <1>1, <4>2
      <4>4. FracSums(h, f, V)
        BY <4>3
      <4>5. h[V] = g[V]
        <5> HIDE DEF V, g, h
        <5>. QED
          BY <3>2, <4>2, <4>4, FracSumsUnique
      <4>6. sum(V) = h[V]
        OBVIOUS
      <4>7. g[U] = Plus(f[pick(U)], g[V])
        <5> HIDE DEF g
        <5>. QED
          BY <3>2, <3>5 DEF FracSums
      <4>. QED
        <5> HIDE DEF V, g, h, sum
        <5>. QED
          BY <3>3, <3>5, <4>5, <4>6, <4>7 DEF V
    <3>. QED
      BY <3>4, <3>5
  <2> HIDE DEF sum
  <2>2. ASSUME NEW s \in SUBSET T, s # {}
        PROVE  whole[s \ {pick(s)}] = sum(s \ {pick(s)})
    <3>1. pick(s) \in s
      BY <2>2, PickIn
    <3>2. s \ {pick(s)} \in SUBSET T /\ s \ {pick(s)} # T
      BY <3>1
    <3>. QED
      BY <3>2, <2>1
  <2>3. FracSums(whole, f, T)
    <3>1. whole = [s \in SUBSET T |-> IF s = {} THEN Frac(0, 1) ELSE Plus(f[pick(s)], whole[s \ {pick(s)}])]
      BY <2>2
    <3>. QED
      BY <3>1 DEF FracSums
  <2>. QED
    BY <2>3
<1>2. S \in Good
  <2> HIDE DEF Good
  <2>. QED
    BY <1>1, StrictSubsetInduction
<1>. QED
  BY <1>2

\* What FracsOnSet computes, taking away the element the recursion picks.
LEMMA FracSumPicked ==
  ASSUME NEW f, NEW S, IsFiniteSet(S)
  PROVE  /\ S = {} => FracsOnSet(f, S) = Frac(0, 1)
         /\ S # {} => FracsOnSet(f, S) = Plus(f[pick(S)], FracsOnSet(f, S \ {pick(S)}))
<1> DEFINE g == CHOOSE x : FracSums(x, f, S)
           V == S \ {pick(S)}
           h == CHOOSE x : FracSums(x, f, V)
<1>1. FracSums(g, f, S)
  BY FracSumsExist
<1>2. IsFiniteSet(V) /\ V \subseteq S
  BY FS_Subset
<1>3. FracSums(h, f, V)
  <2> HIDE DEF V
  <2>. QED
    BY <1>2, FracSumsExist
<1>4. FracsOnSet(f, S) = g[S] /\ FracsOnSet(f, V) = h[V]
  BY FracSumDef
<1> HIDE DEF g, h
<1>5. h[V] = g[V]
  <2> HIDE DEF V
  <2>. QED
    BY <1>1, <1>2, <1>3, FracSumsUnique
<1>6. S = {} => g[S] = Frac(0, 1)
  BY <1>1 DEF FracSums
<1>7. S # {} => g[S] = Plus(f[pick(S)], g[V])
  BY <1>1 DEF FracSums
<1>. QED
  BY <1>4, <1>5, <1>6, <1>7

\* f has fractions on S.
FracOn(f, S) == \A x \in S : f[x] \in Fraction

\* a has the numerators of f over D.
Terms(f, a, D, S) == \A x \in S : Is(f[x], a[x], D)

\* The sum of fractions over one denominator is that of the numerators.
LEMMA FracSumIs ==
  ASSUME NEW S, IsFiniteSet(S), NEW f, FracOn(f, S), NEW a, IntOn(a, S), NEW D \in Nat \ {0},
         Terms(f, a, D, S)
  PROVE  FracsOnSet(f, S) \in Fraction /\ Is(FracsOnSet(f, S), SumFunctionOnSet(a, S), D)
<1> DEFINE Fits(T) == FracsOnSet(f, T) \in Fraction /\ Is(FracsOnSet(f, T), SumFunctionOnSet(a, T), D)
           Good == {T \in SUBSET S : Fits(T)}
<1>1. ASSUME NEW T \in SUBSET S, \A U \in SUBSET T : U # T => U \in Good
      PROVE  T \in Good
  <2>1. IsFiniteSet(T) /\ IntOn(a, T)
    BY FS_Subset DEF IntOn
  <2>2. CASE T = {}
    <3>1. FracsOnSet(f, T) = Frac(0, 1) /\ SumFunctionOnSet(a, T) = 0
      BY <2>1, <2>2, FracSumPicked, SumPicked
    <3>2. Frac(0, 1) \in Fraction /\ Is(Frac(0, 1), 0, 1)
      BY FracIs
    <3>3. Is(Frac(0, 1), 0, D)
      <4>1. Is(Frac(0, 1), 0 * D, 1 * D)
        BY <3>2, IsScaled
      <4>. QED
        BY <4>1
    <3>. QED
      BY <3>1, <3>2, <3>3
  <2>3. CASE T # {}
    <3> DEFINE p == pick(T)
               V == T \ {p}
               sum == SumFunctionOnSet(a, V)
    <3>1. p \in T
      BY <2>3, PickIn
    <3>2. V \in Good /\ IsFiniteSet(V) /\ IntOn(a, V)
      BY <1>1, <2>1, <3>1, FS_Subset DEF IntOn
    <3>3. Fits(V)
      BY <3>2
    <3>4. FracsOnSet(f, T) = Plus(f[p], FracsOnSet(f, V)) /\ SumFunctionOnSet(a, T) = a[p] + sum
      BY <2>1, <2>3, FracSumPicked, SumPicked
    <3>5. f[p] \in Fraction /\ Is(f[p], a[p], D) /\ a[p] \in Int /\ p \in S
      BY <3>1 DEF FracOn, Terms, IntOn
    <3> HIDE DEF p
    <3>6. sum \in Int
      BY <3>2, SumType
    <3> HIDE DEF V, sum
    <3> DEFINE x == FracsOnSet(f, T)
    <3>7. x \in Fraction /\ Is(x, a[p] * D + sum * D, D * D)
      <4>1. FracsOnSet(f, V) \in Fraction /\ Is(FracsOnSet(f, V), sum, D)
        BY <3>3 DEF sum
      <4>2. Plus(f[p], FracsOnSet(f, V)) \in Fraction
            /\ Is(Plus(f[p], FracsOnSet(f, V)), a[p] * D + sum * D, D * D)
        BY <3>5, <3>6, <4>1, PlusIs
      <4>. QED
        BY <3>4, <4>2
    <3>8. a[p] * D + sum * D = (a[p] + sum) * D /\ a[p] + sum \in Int
      BY <3>5, <3>6
    <3> HIDE DEF x
    <3>9. Is(x, a[p] + sum, D)
      <4> DEFINE b == a[p] + sum
      <4>1. Is(x, b * D, D * D) /\ b \in Int
        BY <3>7, <3>8
      <4> HIDE DEF b
      <4>2. Is(x, b, D)
        BY <3>7, <4>1, IsScaled
      <4>. QED
        BY <4>2 DEF b
    <3>. QED
      BY <3>4, <3>7, <3>9 DEF x
  <2>. QED
    BY <2>2, <2>3
<1>2. S \in Good
  <2> HIDE DEF Good
  <2>. QED
    BY <1>1, StrictSubsetInduction
<1>. QED
  BY <1>2

\* Fractions of a finite set have a common denominator.
LEMMA CommonDenominator ==
  ASSUME NEW S, IsFiniteSet(S), NEW f, FracOn(f, S)
  PROVE  \E D \in Nat \ {0} : \E a \in [S -> Int] : Terms(f, a, D, S)
<1> DEFINE Good == {T \in SUBSET S : \E D \in Nat \ {0} : \E a \in [T -> Int] : Terms(f, a, D, T)}
<1>1. {} \in Good
  <2> DEFINE e == [x \in {} |-> 0]
  <2>1. Terms(f, e, 1, {}) /\ e \in [{} -> Int] /\ 1 \in Nat \ {0}
    BY DEF Terms
  <2> HIDE DEF e
  <2>. QED
    BY <2>1
<1>2. ASSUME NEW T \in SUBSET S, NEW x \in T, T \ {x} \in Good
      PROVE  T \in Good
  <2>1. PICK D \in Nat \ {0} : \E a \in [T \ {x} -> Int] : Terms(f, a, D, T \ {x})
    BY <1>2
  <2>2. PICK a \in [T \ {x} -> Int] : Terms(f, a, D, T \ {x})
    BY <2>1
  <2>3. f[x] \in Fraction
    BY DEF FracOn
  <2> DEFINE n == f[x].n
             d == f[x].d
             b == [y \in T |-> IF y = x THEN n * D ELSE a[y] * d]
  <2>4. n \in Int /\ d \in Nat \ {0} /\ Is(f[x], n, d)
    BY <2>3, IsItself
  <2> HIDE DEF n, d
  <2>5. b \in [T -> Int] /\ D * d \in Nat \ {0}
    BY <2>4
  <2>6. ASSUME NEW y \in T
        PROVE  Is(f[y], b[y], D * d)
    <3>1. CASE y = x
      <4>1. Is(f[x], n * D, d * D)
        BY <2>3, <2>4, IsScaled
      <4>2. d * D = D * d
        BY <2>4
      <4>. QED
        BY <3>1, <4>1, <4>2
    <3>2. CASE y # x
      <4>1. f[y] \in Fraction /\ Is(f[y], a[y], D) /\ a[y] \in Int
        BY <2>2, <3>2 DEF Terms, FracOn
      <4>2. Is(f[y], a[y] * d, D * d)
        BY <2>4, <4>1, IsScaled
      <4>. QED
        BY <3>2, <4>2
    <3>. QED
      BY <3>1, <3>2
  <2> HIDE DEF b
  <2>7. Terms(f, b, D * d, T)
    BY <2>6 DEF Terms
  <2>. QED
    BY <2>5, <2>7
<1>3. S \in Good
  <2> HIDE DEF Good
  <2>. QED
    BY <1>1, <1>2, RemoveInduction
<1>. QED
  BY <1>3

----------------------------------------------------------------------------
(* More of powers.                                                         *)

\* Powers of an integer, and their recursion.
LEMMA PowerType ==
  ASSUME NEW b \in Int, NEW n \in Nat
  PROVE  Power(b, n) \in Int /\ Power(b, n + 1) = b * Power(b, n) /\ Power(b, 0) = 1
  BY PowerIs

\* Powers of a positive integer are positive.
LEMMA PowerPositive ==
  ASSUME NEW b \in Nat \ {0}, NEW n \in Nat
  PROVE  Power(b, n) \in Nat \ {0}
<1> DEFINE Good == {k \in Nat : Power(b, k) \in Nat \ {0}}
<1>1. 0 \in Good
  BY PowerType
<1>2. ASSUME NEW k \in Nat, k \in Good
      PROVE  k + 1 \in Good
  <2>1. Power(b, k + 1) = b * Power(b, k) /\ Power(b, k) \in Nat \ {0}
    BY <1>2, PowerType
  <2>2. \A x, y \in Nat \ {0} : x * y \in Nat \ {0}
    OBVIOUS
  <2>. QED
    BY <2>1, <2>2
<1>3. \A k \in Nat : k \in Good
  <2> HIDE DEF Good
  <2>. QED
    BY <1>1, <1>2, NatSetInduction
<1>. QED
  BY <1>3

\* Powers of one base multiply.
LEMMA PowerProduct ==
  ASSUME NEW b \in Int, NEW m \in Nat, NEW n \in Nat
  PROVE  Power(b, m + n) = Power(b, m) * Power(b, n)
<1> DEFINE Good == {k \in Nat : Power(b, m + k) = Power(b, m) * Power(b, k)}
<1>1. 0 \in Good
  <2>1. Power(b, m) \in Int /\ Power(b, 0) = 1 /\ m + 0 = m
    BY PowerType
  <2>. QED
    BY <2>1
<1>2. ASSUME NEW k \in Nat, k \in Good
      PROVE  k + 1 \in Good
  <2> DEFINE p == Power(b, m)
             q == Power(b, k)
  <2>1. Power(b, m + (k + 1)) = b * Power(b, m + k)
    <3>1. m + (k + 1) = (m + k) + 1 /\ m + k \in Nat
      OBVIOUS
    <3>. QED
      BY <3>1, PowerType
  <2>2. p \in Int /\ q \in Int /\ Power(b, k + 1) = b * q /\ Power(b, m + k) = p * q
    BY <1>2, PowerType
  <2> HIDE DEF p, q
  <2>3. b * (p * q) = p * (b * q)
    BY <2>2
  <2>. QED
    BY <2>1, <2>2, <2>3 DEF p
<1>3. \A k \in Nat : k \in Good
  <2> HIDE DEF Good
  <2>. QED
    BY <1>1, <1>2, NatSetInduction
<1>. QED
  BY <1>3

\* Powers grow with the base.
LEMMA PowerMonotone ==
  ASSUME NEW u \in Nat \ {0}, NEW v \in Nat \ {0}, u <= v, NEW n \in Nat
  PROVE  Power(u, n) <= Power(v, n)
<1> DEFINE Good == {k \in Nat : Power(u, k) <= Power(v, k)}
<1>1. 0 \in Good
  BY PowerType
<1>2. ASSUME NEW k \in Nat, k \in Good
      PROVE  k + 1 \in Good
  <2> DEFINE p == Power(u, k)
             q == Power(v, k)
  <2>1. p \in Nat \ {0} /\ q \in Nat \ {0} /\ p <= q
    BY <1>2, PowerPositive
  <2>2. Power(u, k + 1) = u * p /\ Power(v, k + 1) = v * q
    BY PowerType
  <2> HIDE DEF p, q
  <2>3. u * p <= v * p /\ v * p <= v * q
    BY <2>1
  <2>4. u * p <= v * q
    <3>1. u * p \in Int /\ v * p \in Int /\ v * q \in Int
      BY <2>1
    <3>. QED
      BY <2>3, <3>1
  <2>. QED
    BY <2>2, <2>4
<1>3. \A k \in Nat : k \in Good
  <2> HIDE DEF Good
  <2>. QED
    BY <1>1, <1>2, NatSetInduction
<1>. QED
  BY <1>3

\* A higher base gains less from a smaller exponent.
LEMMA PowerCrossed ==
  ASSUME NEW u \in Nat \ {0}, NEW v \in Nat \ {0}, u <= v, NEW n \in Nat, NEW e \in 0..n
  PROVE  Power(v, e) * Power(u, n) <= Power(u, e) * Power(v, n)
<1> DEFINE k == n - e
           ue == Power(u, e)
           ve == Power(v, e)
           uk == Power(u, k)
           vk == Power(v, k)
<1>1. k \in Nat /\ e \in Nat /\ e + k = n
  OBVIOUS
<1> HIDE DEF k
<1>2. Power(u, n) = ue * uk /\ Power(v, n) = ve * vk
  <2>1. Power(u, e + k) = ue * uk
    BY <1>1, PowerProduct
  <2>2. Power(v, e + k) = ve * vk
    BY <1>1, PowerProduct
  <2>. QED
    BY <1>1, <2>1, <2>2
<1>3. uk <= vk /\ uk \in Nat \ {0} /\ vk \in Nat \ {0} /\ ue \in Nat \ {0} /\ ve \in Nat \ {0}
  BY <1>1, PowerMonotone, PowerPositive
<1> HIDE DEF ue, ve, uk, vk
<1>4. ve * (ue * uk) = (ue * ve) * uk /\ ue * (ve * vk) = (ue * ve) * vk
  BY <1>3
<1>5. \A a, b, c \in Nat : a <= b => c * a <= c * b
  OBVIOUS
<1>6. ue * ve \in Nat
  BY <1>3
<1>7. (ue * ve) * uk <= (ue * ve) * vk
  BY <1>3, <1>5, <1>6
<1>. QED
  BY <1>2, <1>4, <1>7 DEF ue, ve

----------------------------------------------------------------------------
(* More of sums.                                                           *)

\* The sum of sums.
LEMMA SumPlus ==
  ASSUME NEW S, IsFiniteSet(S), NEW f, NEW g, NEW h, IntOn(g, S), IntOn(h, S),
         \A x \in S : f[x] = g[x] + h[x]
  PROVE  SumFunctionOnSet(f, S) = SumFunctionOnSet(g, S) + SumFunctionOnSet(h, S)
<1> DEFINE Good == {T \in SUBSET S : SumFunctionOnSet(f, T) = SumFunctionOnSet(g, T) + SumFunctionOnSet(h, T)}
<1>1. {} \in Good
  BY SumEmpty
<1>2. ASSUME NEW T \in SUBSET S, NEW x \in T, T \ {x} \in Good
      PROVE  T \in Good
  <2> DEFINE V == T \ {x}
  <2>1. /\ IsFiniteSet(T) /\ IntOn(f, T) /\ IntOn(g, T) /\ IntOn(h, T)
        /\ IsFiniteSet(V) /\ IntOn(f, V) /\ IntOn(g, V) /\ IntOn(h, V)
    BY FS_Subset DEF IntOn
  <2>2. /\ SumFunctionOnSet(f, T) = f[x] + SumFunctionOnSet(f, V)
        /\ SumFunctionOnSet(g, T) = g[x] + SumFunctionOnSet(g, V)
        /\ SumFunctionOnSet(h, T) = h[x] + SumFunctionOnSet(h, V)
    BY <2>1, SumRemove
  <2>3. SumFunctionOnSet(f, V) = SumFunctionOnSet(g, V) + SumFunctionOnSet(h, V)
    BY <1>2
  <2> HIDE DEF V
  <2>4. SumFunctionOnSet(g, V) \in Int /\ SumFunctionOnSet(h, V) \in Int
    BY <2>1, SumType
  <2>5. f[x] = g[x] + h[x] /\ g[x] \in Int /\ h[x] \in Int
    BY <2>1 DEF IntOn
  <2>6. \A a, b, c, d \in Int : (a + b) + (c + d) = (a + c) + (b + d)
    OBVIOUS
  <2>. QED
    BY <2>2, <2>3, <2>4, <2>5, <2>6
<1>3. S \in Good
  <2> HIDE DEF Good
  <2>. QED
    BY <1>1, <1>2, RemoveInduction
<1>. QED
  BY <1>3

\* The sum over one element.
LEMMA SumSingle ==
  ASSUME NEW x, NEW f, f[x] \in Int
  PROVE  SumFunctionOnSet(f, {x}) = f[x]
<1>1. IsFiniteSet({x}) /\ IntOn(f, {x}) /\ {x} \ {x} = {}
  BY FS_Singleton DEF IntOn
<1>2. SumFunctionOnSet(f, {x}) = f[x] + SumFunctionOnSet(f, {x} \ {x})
  BY <1>1, SumRemove
<1>. QED
  BY <1>1, <1>2, SumEmpty

\* What is nowhere larger does not sum to more.
LEMMA SumLeq ==
  ASSUME NEW S, IsFiniteSet(S), NEW f, NEW g, IntOn(f, S), IntOn(g, S), \A x \in S : f[x] <= g[x]
  PROVE  SumFunctionOnSet(f, S) <= SumFunctionOnSet(g, S)
<1>1. \A x \in S : f[x] <= g[x] + 0
  BY DEF IntOn
<1>2. SumFunctionOnSet(f, S) <= SumFunctionOnSet(g, S) + 0 * Cardinality(S)
  BY <1>1, SumAtMost
<1>3. SumFunctionOnSet(g, S) \in Int /\ Cardinality(S) \in Nat
  BY SumType, FS_CardinalityType
<1>. QED
  BY <1>2, <1>3

\* A part of a sum of what is not negative.
LEMMA SumPart ==
  ASSUME NEW S, IsFiniteSet(S), NEW f, IntOn(f, S), \A x \in S : f[x] >= 0, NEW R \in SUBSET S
  PROVE  SumFunctionOnSet(f, R) <= SumFunctionOnSet(f, S)
<1> DEFINE g == [x \in S |-> IF x \in R THEN f[x] ELSE 0]
<1>1. IntOn(g, S) /\ (\A x \in S : g[x] <= f[x]) /\ (\A x \in S \ R : g[x] = 0)
  BY DEF IntOn
<1>2. IsFiniteSet(R) /\ IntOn(f, R) /\ \A x \in R : f[x] = g[x]
  BY FS_Subset DEF IntOn
<1> HIDE DEF g
<1>3. SumFunctionOnSet(g, S) = SumFunctionOnSet(g, R)
  BY <1>1, SumNonzero
<1>4. SumFunctionOnSet(f, R) = SumFunctionOnSet(g, R)
  BY <1>2, SumEqual
<1>5. SumFunctionOnSet(g, S) <= SumFunctionOnSet(f, S)
  BY <1>1, SumLeq
<1>. QED
  BY <1>3, <1>4, <1>5

\* SumFunction is the sum on the domain.
LEMMA SigmaSum ==
  ASSUME NEW S, NEW f, DOMAIN f = S
  PROVE  SumFunction(f) = SumFunctionOnSet(f, S)
  BY DEF SumFunction

\* Intervals are finite.
LEMMA IntervalFinite ==
  ASSUME NEW a \in Int, NEW b \in Int
  PROVE  IsFiniteSet(a..b)
  BY FS_Interval

----------------------------------------------------------------------------
(* Geometric progressions, and an inequality.                              *)

\* The sum of a geometric progression: (u - b) times it is u^n - b^n.
Geometric(b, u, n) == SumFunctionOnSet([t \in 1..n |-> Power(b, t - 1) * Power(u, n - t)], 1..n)

\* The terms of a progression are positive.
LEMMA GeometricTerm ==
  ASSUME NEW b \in Nat \ {0}, NEW u \in Nat \ {0}, NEW n \in Nat, NEW t \in 1..n
  PROVE  Power(b, t - 1) \in Nat \ {0} /\ Power(u, n - t) \in Nat \ {0}
         /\ Power(b, t - 1) * Power(u, n - t) \in Nat \ {0}
<1>1. t - 1 \in Nat /\ n - t \in Nat
  OBVIOUS
<1>2. Power(b, t - 1) \in Nat \ {0} /\ Power(u, n - t) \in Nat \ {0}
  BY <1>1, PowerPositive
<1>3. \A x, y \in Nat \ {0} : x * y \in Nat \ {0}
  OBVIOUS
<1>. QED
  BY <1>2, <1>3

\* A progression with one more term.
LEMMA GeometricNext ==
  ASSUME NEW b \in Nat \ {0}, NEW u \in Nat \ {0}, NEW n \in Nat
  PROVE  /\ Geometric(b, u, n) \in Int
         /\ Geometric(b, u, n + 1) = Power(b, n) + u * Geometric(b, u, n)
<1> DEFINE S == 1..n
           T == 1..(n + 1)
           f == [t \in T |-> Power(b, t - 1) * Power(u, n + 1 - t)]
           g == [t \in S |-> Power(b, t - 1) * Power(u, n - t)]
<1>1. IsFiniteSet(S) /\ IsFiniteSet(T) /\ n + 1 \in T /\ T \ {n + 1} = S
  BY IntervalFinite
<1>2. IntOn(g, S) /\ IntOn(f, T) /\ IntOn(f, S)
  <2>1. \A t \in S : g[t] \in Int
    BY GeometricTerm
  <2>2. \A t \in T : f[t] \in Int
    <3>1. SUFFICES ASSUME NEW t \in T
                   PROVE  Power(b, t - 1) * Power(u, n + 1 - t) \in Int
      OBVIOUS
    <3> DEFINE k == n + 1
    <3>2. k \in Nat /\ t \in 1..k
      OBVIOUS
    <3> HIDE DEF k
    <3>3. Power(b, t - 1) * Power(u, k - t) \in Nat \ {0}
      BY <3>2, GeometricTerm
    <3>. QED
      BY <3>3 DEF k
  <2>. QED
    BY <1>1, <2>1, <2>2 DEF IntOn
<1>3. \A t \in S : f[t] = u * g[t]
  <2>1. SUFFICES ASSUME NEW t \in S
                 PROVE  f[t] = u * g[t]
    OBVIOUS
  <2>2. n - t \in Nat /\ n + 1 - t = (n - t) + 1 /\ t \in T
    OBVIOUS
  <2> DEFINE p == Power(b, t - 1)
             q == Power(u, n - t)
  <2>3. Power(u, n + 1 - t) = u * q /\ q \in Int /\ p \in Int
    BY <2>2, PowerType, GeometricTerm
  <2>4. f[t] = p * (u * q) /\ g[t] = p * q
    BY <2>2, <2>3
  <2> HIDE DEF p, q, f, g
  <2>. QED
    BY <2>3, <2>4
<1>4. f[n + 1] = Power(b, n)
  <2>1. (n + 1) - 1 = n /\ n + 1 - (n + 1) = 0
    OBVIOUS
  <2>2. Power(u, 0) = 1 /\ Power(b, n) \in Int
    BY PowerType
  <2>3. f[n + 1] = Power(b, n) * Power(u, 0)
    BY <1>1, <2>1
  <2>. QED
    BY <2>2, <2>3
<1>5. Geometric(b, u, n) = SumFunctionOnSet(g, S) /\ Geometric(b, u, n + 1) = SumFunctionOnSet(f, T)
  BY DEF Geometric
<1> HIDE DEF f, g, S, T
<1>6. SumFunctionOnSet(f, T) = f[n + 1] + SumFunctionOnSet(f, T \ {n + 1})
  BY <1>1, <1>2, SumRemove
<1>7. SumFunctionOnSet(f, S) = u * SumFunctionOnSet(g, S)
  BY <1>1, <1>2, <1>3, SumScaled
<1>8. SumFunctionOnSet(g, S) \in Int
  BY <1>1, <1>2, SumType
<1>. QED
  BY <1>1, <1>4, <1>5, <1>6, <1>7, <1>8

\* The closed form of a progression.
LEMMA GeometricIs ==
  ASSUME NEW b \in Nat \ {0}, NEW u \in Nat \ {0}, NEW n \in Nat
  PROVE  /\ Geometric(b, u, n) \in Int
         /\ n > 0 => Geometric(b, u, n) > 0
         /\ (u - b) * Geometric(b, u, n) = Power(u, n) - Power(b, n)
<1> DEFINE G(k) == Geometric(b, u, k)
           Fits(k) == G(k) >= 0 /\ (k > 0 => G(k) > 0) /\ (u - b) * G(k) = Power(u, k) - Power(b, k)
           Good == {k \in Nat : Fits(k)}
<1>1. 0 \in Good
  <2>1. G(0) = 0
    <3>1. 1..0 = {}
      OBVIOUS
    <3>. QED
      BY <3>1, SumEmpty DEF Geometric
  <2>2. Power(u, 0) = 1 /\ Power(b, 0) = 1
    BY PowerType
  <2> HIDE DEF G
  <2>. QED
    BY <2>1, <2>2
<1>2. ASSUME NEW k \in Nat, k \in Good
      PROVE  k + 1 \in Good
  <2> DEFINE g == G(k)
             p == Power(u, k)
             q == Power(b, k)
  <2>1. g \in Int /\ g >= 0 /\ (u - b) * g = p - q
    BY <1>2, GeometricNext
  <2>2. G(k + 1) = q + u * g
    BY GeometricNext
  <2>3. p \in Nat \ {0} /\ q \in Nat \ {0} /\ Power(u, k + 1) = u * p /\ Power(b, k + 1) = b * q
    <3>1. p \in Nat \ {0} /\ q \in Nat \ {0}
      BY PowerPositive
    <3>2. Power(u, k + 1) = u * Power(u, k)
      BY PowerType
    <3>3. Power(b, k + 1) = b * Power(b, k)
      BY PowerType
    <3>. QED
      BY <3>1, <3>2, <3>3
  <2> HIDE DEF g, p, q, G
  <2>4. u * g >= 0
    BY <2>1
  <2>5. G(k + 1) > 0
    BY <2>2, <2>3, <2>4, <2>1
  <2>6. (u - b) * (q + u * g) = u * p - b * q
    <3>1. (u - b) * (q + u * g) = (u - b) * q + u * ((u - b) * g)
      BY <2>1, <2>3
    <3>2. (u - b) * q + u * (p - q) = u * p - b * q
      BY <2>3
    <3>. QED
      BY <2>1, <3>1, <3>2
  <2>7. (u - b) * G(k + 1) = Power(u, k + 1) - Power(b, k + 1)
    BY <2>2, <2>3, <2>6
  <2>8. G(k + 1) \in Int
    BY <2>1, <2>2, <2>3
  <2>9. Fits(k + 1)
    BY <2>5, <2>7, <2>8
  <2> HIDE DEF Fits
  <2>. QED
    BY <2>9
<1>3. \A k \in Nat : k \in Good
  <2> HIDE DEF Good
  <2>. QED
    BY <1>1, <1>2, NatSetInduction
<1>. QED
  BY <1>3, GeometricNext

\* The square of a weighted sum is at most the sum of the weights times that of the weighted squares.
LEMMA CauchySchwarz ==
  ASSUME NEW S, IsFiniteSet(S), NEW t, IntOn(t, S), NEW w, IntOn(w, S), \A x \in S : w[x] >= 0,
         NEW m, NEW q, \A x \in S : m[x] = t[x] * w[x] /\ q[x] = t[x] * t[x] * w[x]
  PROVE  SumFunctionOnSet(m, S) * SumFunctionOnSet(m, S)
           <= SumFunctionOnSet(w, S) * SumFunctionOnSet(q, S)
<1> DEFINE W == SumFunctionOnSet(w, S)
           M == SumFunctionOnSet(m, S)
           Q == SumFunctionOnSet(q, S)
           s == [x \in S |-> w[x] * ((t[x] * W - M) * (t[x] * W - M))]
           a == [x \in S |-> (W * W) * q[x]]
           b == [x \in S |-> (-2 * W * M) * m[x]]
           c == [x \in S |-> (M * M) * w[x]]
           ab == [x \in S |-> a[x] + b[x]]
<1>1. IntOn(m, S) /\ IntOn(q, S)
  BY DEF IntOn
<1>2. W \in Int /\ M \in Int /\ Q \in Int /\ W >= 0
  BY <1>1, SumType, SumNonnegative
<1> HIDE DEF W, M, Q
<1>3. \A x \in S : w[x] \in Int /\ t[x] \in Int /\ m[x] \in Int /\ q[x] \in Int
  BY <1>1 DEF IntOn
<1>4. W * W \in Int /\ -2 * W * M \in Int /\ M * M \in Int
  BY <1>2
<1>5. IntOn(a, S) /\ IntOn(b, S) /\ IntOn(c, S) /\ IntOn(ab, S)
  <2>1. \A x \in S : a[x] \in Int /\ b[x] \in Int /\ c[x] \in Int
    BY <1>3, <1>4
  <2>. QED
    BY <2>1 DEF IntOn
<1>6. \A x \in S : s[x] = ab[x] + c[x] /\ s[x] >= 0 /\ s[x] \in Int
  <2>1. ASSUME NEW i \in Int, NEW v \in Int
        PROVE  v * ((i * W - M) * (i * W - M)) = (W * W) * (i * i * v) + (-2 * W * M) * (i * v) + (M * M) * v
    BY <1>2
  <2>2. ASSUME NEW v \in Int, NEW k \in Int, v >= 0
        PROVE  v * (k * k) >= 0 /\ v * (k * k) \in Int
    <3>1. k * k >= 0 /\ k * k \in Int
      OBVIOUS
    <3>. QED
      BY <2>2, <3>1
  <2>3. SUFFICES ASSUME NEW x \in S
                 PROVE  s[x] = ab[x] + c[x] /\ s[x] >= 0 /\ s[x] \in Int
    OBVIOUS
  <2>4. w[x] \in Int /\ t[x] \in Int /\ w[x] >= 0 /\ t[x] * W - M \in Int
    BY <1>2, <1>3
  <2>5. s[x] = w[x] * ((t[x] * W - M) * (t[x] * W - M))
    OBVIOUS
  <2>6. ab[x] + c[x] = (W * W) * (t[x] * t[x] * w[x]) + (-2 * W * M) * (t[x] * w[x]) + (M * M) * w[x]
    OBVIOUS
  <2> HIDE DEF s, ab, c
  <2>. QED
    BY <2>1, <2>2, <2>4, <2>5, <2>6
<1>7. SumFunctionOnSet(a, S) = (W * W) * Q
  BY <1>1, <1>4, SumScaled DEF Q
<1>8. SumFunctionOnSet(b, S) = (-2 * W * M) * M
  <2> DEFINE k == -2 * W * M
  <2>1. k \in Int /\ \A x \in S : b[x] = k * m[x]
    BY <1>4
  <2> HIDE DEF k, b
  <2>2. SumFunctionOnSet(b, S) = k * SumFunctionOnSet(m, S)
    BY <1>1, <2>1, SumScaled
  <2>. QED
    BY <2>2 DEF k, M
<1>9. SumFunctionOnSet(c, S) = (M * M) * W
  <2> DEFINE k == M * M
  <2>1. k \in Int /\ \A x \in S : c[x] = k * w[x]
    BY <1>4
  <2> HIDE DEF k, c
  <2>2. SumFunctionOnSet(c, S) = k * SumFunctionOnSet(w, S)
    BY <2>1, SumScaled
  <2>. QED
    BY <2>2 DEF k, W
<1>10. SumFunctionOnSet(s, S) >= 0
  <2> HIDE DEF s
  <2>1. IntOn(s, S)
    BY <1>6 DEF IntOn
  <2>. QED
    BY <1>6, <2>1, SumNonnegative
<1>11. SumFunctionOnSet(s, S) = SumFunctionOnSet(ab, S) + SumFunctionOnSet(c, S)
  <2> HIDE DEF s, ab, c
  <2>. QED
    BY <1>5, <1>6, SumPlus
<1>12. SumFunctionOnSet(ab, S) = SumFunctionOnSet(a, S) + SumFunctionOnSet(b, S)
  <2>1. \A x \in S : ab[x] = a[x] + b[x]
    OBVIOUS
  <2> HIDE DEF ab, a, b
  <2>. QED
    BY <1>5, <2>1, SumPlus
<1>13. W * (W * Q - M * M) >= 0
  <2>1. (W * W) * Q + (-2 * W * M) * M + (M * M) * W = W * (W * Q - M * M)
    BY <1>2
  <2>. QED
    BY <1>7, <1>8, <1>9, <1>10, <1>11, <1>12, <2>1
<1>14. CASE W > 0
  <2>1. \A x \in Int : \A y \in Int : x > 0 /\ x * y >= 0 => y >= 0
    OBVIOUS
  <2>2. W * Q - M * M \in Int
    BY <1>2
  <2>3. W * Q - M * M >= 0
    BY <1>2, <1>13, <1>14, <2>1, <2>2
  <2>4. W * Q \in Int /\ M * M \in Int
    BY <1>2
  <2>5. M * M <= W * Q
    BY <2>3, <2>4
  <2>. QED
    BY <2>5 DEF W, M, Q
<1>15. CASE W = 0
  <2>1. \A x \in S : w[x] = 0
    <3>1. SUFFICES ASSUME NEW x \in S
                   PROVE  w[x] <= 0
      BY <1>3
    <3>2. SumFunctionOnSet(w, {x}) <= SumFunctionOnSet(w, S)
      BY SumPart
    <3>3. SumFunctionOnSet(w, {x}) = w[x]
      BY <1>3, SumSingle
    <3>. QED
      BY <1>15, <3>2, <3>3 DEF W
  <2>2. \A x \in S : m[x] = 0 * w[x] /\ q[x] = 0 * w[x]
    BY <1>3, <2>1
  <2>3. M = 0 * W /\ Q = 0 * W
    BY <2>2, SumScaled DEF M, Q, W
  <2>. QED
    BY <1>15, <2>3 DEF W, M, Q
<1>. QED
  BY <1>2, <1>14, <1>15

----------------------------------------------------------------------------
(* Products, quotients and the order of fractions.                         *)

\* Products of natural numbers.
LEMMA NatProducts ==
  /\ \A i, j \in Nat : i * j \in Nat
  /\ \A i, j \in Nat \ {0} : i * j \in Nat \ {0}
  /\ \A i, j, k \in Nat : j <= k => i * j <= i * k
  OBVIOUS

\* A fraction of two that have a denominator in common.
LEMMA RatioOver ==
  ASSUME NEW x \in Fraction, NEW y \in Fraction, NEW a \in Int, NEW b \in Nat, NEW d \in Nat \ {0},
         Is(x, a, d), Is(y, b, d)
  PROVE  /\ Ratio(x, y) \in Fraction
         /\ b > 0 => Is(Ratio(x, y), a, b)
         /\ b = 0 => Is(Ratio(x, y), 0, 1)
<1> DEFINE z == Ratio(x, y)
<1>1. z \in Fraction /\ (b > 0 => Is(z, a * d, d * b)) /\ (b = 0 => Is(z, 0, 1))
  BY RatioIs
<1> HIDE DEF z
<1>2. ASSUME b > 0
      PROVE  Is(z, a, b)
  <2>1. d * b = b * d /\ b \in Nat \ {0}
    BY <1>2
  <2>2. Is(z, a * d, b * d)
    BY <1>1, <1>2, <2>1
  <2>. QED
    BY <1>1, <2>1, <2>2, IsScaled
<1>. QED
  BY <1>1, <1>2 DEF z

\* A fraction has the sign of its numerator, in all terms.
LEMMA Sign ==
  ASSUME NEW x \in Fraction, NEW a \in Int, NEW b \in Nat \ {0}, Is(x, a, b)
  PROVE  x.n >= 0 <=> a >= 0
<1> DEFINE i == x.n
           d == x.d
<1>1. i \in Int /\ d \in Nat \ {0} /\ i * b = a * d
  BY DEF Fraction, Is
<1> HIDE DEF i, d
<1>2. \A j \in Int, k \in Nat \ {0} : j * k >= 0 <=> j >= 0
  OBVIOUS
<1>3. (i * b >= 0 <=> i >= 0) /\ (a * d >= 0 <=> a >= 0)
  BY <1>1, <1>2
<1>. QED
  BY <1>1, <1>3 DEF i

\* What is scaled alike compares alike.
LEMMA TimesMonotone ==
  ASSUME NEW x \in Fraction, NEW y \in Fraction, NEW s \in Fraction, s.n >= 0, Leq(x, y)
  PROVE  Leq(Times(x, s), Times(y, s))
<1> DEFINE a == x.n
           b == x.d
           c == y.n
           d == y.d
           i == s.n
           j == s.d
           v == Times(x, s)
           w == Times(y, s)
<1>1. a \in Int /\ b \in Nat \ {0} /\ Is(x, a, b)
  BY IsItself
<1>2. c \in Int /\ d \in Nat \ {0} /\ Is(y, c, d)
  BY IsItself
<1>3. i \in Nat /\ j \in Nat \ {0} /\ Is(s, i, j)
  <2>1. i \in Int /\ j \in Nat \ {0} /\ Is(s, i, j)
    BY IsItself
  <2>. QED
    BY <2>1
<1>4. a * d <= c * b
  BY DEF Leq
<1> DEFINE k == a * i
           l == b * j
           m == c * i
           n == d * j
<1> HIDE DEF a, b, c, d, i, j, v, w
<1>5. v \in Fraction /\ Is(v, k, l)
  BY <1>1, <1>3, TimesIs DEF v
<1>6. w \in Fraction /\ Is(w, m, n)
  BY <1>2, <1>3, TimesIs DEF w
<1>7. k \in Int /\ m \in Int /\ l \in Nat \ {0} /\ n \in Nat \ {0}
  BY <1>1, <1>2, <1>3, NatProducts
<1>8. k * n <= m * l
  <2> DEFINE o == i * j
             p == a * d
             q == c * b
  <2>1. k * n = p * o /\ m * l = q * o
    BY <1>1, <1>2, <1>3
  <2>2. o \in Nat /\ p \in Int /\ q \in Int /\ p <= q
    BY <1>1, <1>2, <1>3, <1>4, NatProducts
  <2> HIDE DEF o, p, q, k, l, m, n
  <2>3. \A e, f \in Int, g \in Nat : e <= f => e * g <= f * g
    OBVIOUS
  <2>. QED
    BY <2>1, <2>2, <2>3
<1> HIDE DEF k, l, m, n
<1>9. Leq(v, w)
  BY <1>5, <1>6, <1>7, <1>8, CompareIs
<1>. QED
  BY <1>9 DEF v, w

\* A fraction is at most itself.
LEMMA LeqItself ==
  ASSUME NEW x
  PROVE  x \in Fraction => Leq(x, x)
  BY DEF Leq, Fraction

\* Whole numbers compare as they are.
LEMMA WholeLeq ==
  ASSUME NEW i \in Int, NEW j \in Int, i <= j
  PROVE  Leq(Frac(i, 1), Frac(j, 1))
<1> DEFINE x == Frac(i, 1)
           y == Frac(j, 1)
<1>1. x \in Fraction /\ Is(x, i, 1)
  BY FracIs
<1>2. y \in Fraction /\ Is(y, j, 1)
  BY FracIs
<1> HIDE DEF x, y
<1>3. Leq(x, y) <=> i * 1 <= j * 1
  BY <1>1, <1>2, CompareIs
<1>. QED
  BY <1>3 DEF x, y

=============================================================================
