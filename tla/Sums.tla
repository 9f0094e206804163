-------------------------------- MODULE Sums --------------------------------
(***************************************************************************)
(* What SumFunctionOnSet and SumFunction of the community modules compute, *)
(* for every finite set: the facts about totals that the figures and the   *)
(* ledger rest on.                                                         *)
(*                                                                         *)
(* Induction is over sets of numbers and of subsets: the least number that *)
(* is not in a set (WFMin) is where an inductive argument would fail.      *)
(***************************************************************************)
EXTENDS Integers, Functions, FiniteSetTheorems, TLAPS

-----------------------------------------------------------------------------
(* Induction.                                                              *)

\* A set of natural numbers that is not empty has a least element.
LEMMA LeastNumber ==
    ASSUME NEW T, T \subseteq Nat, T # {}
    PROVE  \E n \in T : \A m \in T : n <= m
<1> DEFINE R == OpToRel(<, Nat)
<1>1. IsWellFoundedOn(R, Nat)
  BY NatLessThanWellFounded, Zenon
<1>2. \A m, n \in Nat : m < n => <<m, n>> \in R
  BY DEF OpToRel
<1> HIDE DEF R
<1>3. PICK n \in T : \A m \in T : ~(<<m, n>> \in R)
  BY <1>1, WFMin
<1>4. ASSUME NEW m \in T
      PROVE  n <= m
  <2>1. m \in Nat /\ n \in Nat
    OBVIOUS
  <2>2. ~(m < n)
    BY <1>2, <1>3, <2>1
  <2>3. QED
    BY <2>1, <2>2
<1>5. QED
  BY <1>4

\* What every number has that comes after others that have it, all have.
LEMMA NumberInduction ==
    ASSUME NEW P, \A n \in Nat : (\A m \in Nat : m < n => m \in P) => n \in P
    PROVE  Nat \subseteq P
<1> DEFINE T == Nat \ P
<1>1. SUFFICES ASSUME T # {}
               PROVE  FALSE
  OBVIOUS
<1>2. T \subseteq Nat
  OBVIOUS
<1>3. PICK n \in T : \A m \in T : n <= m
  <2> HIDE DEF T
  <2>1. QED
    BY <1>1, <1>2, LeastNumber
<1>4. \A m \in Nat : m < n => m \in P
  BY <1>3
<1>5. QED
  BY <1>3, <1>4

\* What every subset of a finite set has whose own parts have it, all have.
LEMMA SubsetInduction ==
    ASSUME NEW S, IsFiniteSet(S), NEW P,
           \A T \in SUBSET S : (\A U \in SUBSET T : U # T => U \in P) => T \in P
    PROVE  SUBSET S \subseteq P
<1> DEFINE R == StrictSubsetOrdering(S)
           B == (SUBSET S) \ P
<1>1. IsWellFoundedOn(R, SUBSET S)
  BY FS_StrictSubsetOrderingWellFounded, FS_FiniteSubsetsOfFinite, Zenon
<1>2. \A T \in SUBSET S : \A U \in SUBSET T : U # T => <<U, T>> \in R
  BY DEF StrictSubsetOrdering
<1>3. SUFFICES ASSUME B # {}
               PROVE  FALSE
  OBVIOUS
<1>4. PICK T \in B : \A U \in B : ~(<<U, T>> \in R)
  <2>1. B \subseteq SUBSET S
    OBVIOUS
  <2> HIDE DEF B, R
  <2>2. QED
    BY <1>1, <1>3, <2>1, WFMin
<1> HIDE DEF R
<1>5. T \in SUBSET S /\ T \notin P
  OBVIOUS
<1>6. ASSUME NEW U \in SUBSET T, U # T
      PROVE  U \in P
  <2>1. <<U, T>> \in R
    BY <1>2, <1>5, <1>6
  <2>2. U \notin B
    BY <1>4, <2>1
  <2>3. QED
    BY <1>5, <2>2
<1>7. QED
  BY <1>5, <1>6

-----------------------------------------------------------------------------
(* The recursion.                                                          *)

Chosen(s) == CHOOSE x \in s : TRUE

Adds(g, f, S) ==
    g = [s \in SUBSET S |-> IF s = {} THEN 0 ELSE f[Chosen(s)] + g[s \ {Chosen(s)}]]

LEMMA SumIsRecursive ==
    ASSUME NEW f, NEW S
    PROVE  SumFunctionOnSet(f, S) = (CHOOSE g : Adds(g, f, S))[S]
BY Zenon DEF SumFunctionOnSet, FoldFunctionOnSet, MapThenFoldSet, Adds, Chosen

\* There is such a function: on the subsets of n elements it is made of the one
\* on smaller subsets.
LEMMA SumExists ==
    ASSUME NEW f, NEW S, IsFiniteSet(S)
    PROVE  \E g : Adds(g, f, S)
<1> DEFINE Level(n) == {s \in SUBSET S : Cardinality(s) <= n}
           Step(g, s) == IF s = {} THEN 0 ELSE f[Chosen(s)] + g[s \ {Chosen(s)}]
           N == {n \in Nat : \E g : g = [s \in Level(n) |-> Step(g, s)]}
<1>1. ASSUME NEW n \in Nat, NEW s \in Level(n), s # {}
      PROVE  n > 0 /\ s \ {Chosen(s)} \in Level(n - 1)
  <2>1. Chosen(s) \in s
    BY <1>1 DEF Chosen
  <2>2. IsFiniteSet(s) /\ Cardinality(s) \in Nat
    BY FS_Subset, FS_CardinalityType
  <2>3. Cardinality(s \ {Chosen(s)}) = Cardinality(s) - 1
    BY <2>1, <2>2, FS_RemoveElement
  <2>4. Cardinality(s \ {Chosen(s)}) \in Nat
    BY <2>2, FS_Subset, FS_CardinalityType
  <2>5. QED
    BY <2>2, <2>3, <2>4
<1>2. ASSUME NEW n \in Nat, \A m \in Nat : m < n => m \in N
      PROVE  n \in N
  <2>1. CASE n = 0
    <3> DEFINE g == [s \in Level(n) |-> 0]
    <3>1. ASSUME NEW s \in Level(n), s # {}
          PROVE  FALSE
      <4>1. n > 0
        BY <1>1, <3>1
      <4>2. QED
        BY <2>1, <4>1
    <3>2. g = [s \in Level(n) |-> Step(g, s)]
      BY <3>1
    <3>3. QED
      BY <3>2
  <2>2. CASE n # 0
    <3>1. n - 1 \in N /\ n - 1 \in Nat
      <4> HIDE DEF N
      <4>1. n - 1 \in Nat /\ n - 1 < n
        BY <2>2
      <4>2. QED
        BY <1>2, <4>1
    <3>2. PICK g : g = [s \in Level(n - 1) |-> Step(g, s)]
      BY <3>1
    <3> DEFINE h == [s \in Level(n) |-> Step(g, s)]
    <3>3. ASSUME NEW s \in Level(n - 1)
          PROVE  s \in Level(n) /\ h[s] = g[s]
      <4>1. s \in Level(n)
        BY <3>1, FS_Subset, FS_CardinalityType
      <4>2. g[s] = Step(g, s)
        BY <3>2
      <4>3. QED
        BY <4>1, <4>2
    <3>4. ASSUME NEW s \in Level(n)
          PROVE  Step(g, s) = Step(h, s)
      BY <1>1, <3>3
    <3>5. h = [s \in Level(n) |-> Step(h, s)]
      BY <3>4
    <3>6. QED
      BY <3>5
  <2>3. QED
    BY <2>1, <2>2
<1>3. Nat \subseteq N
  <2> HIDE DEF N
  <2>1. QED
    BY <1>2, NumberInduction
<1>4. Level(Cardinality(S)) = SUBSET S
  BY FS_Subset, FS_CardinalityType
<1>5. Cardinality(S) \in N
  BY <1>3, FS_CardinalityType
<1>6. QED
  BY <1>4, <1>5 DEF Adds

LEMMA ChosenIsThere ==
    ASSUME NEW s, s # {}
    PROVE  Chosen(s) \in s
BY DEF Chosen

\* And only one: on the subsets they share, two of them agree.
LEMMA SumIsOne ==
    ASSUME NEW f, NEW S, IsFiniteSet(S), NEW T \in SUBSET S,
           NEW g, NEW h, Adds(g, f, S), Adds(h, f, T)
    PROVE  g[T] = h[T]
<1> DEFINE P == {U \in SUBSET T : g[U] = h[U]}
<1>1. ASSUME NEW U \in SUBSET T, \A V \in SUBSET U : V # U => V \in P
      PROVE  U \in P
  <2> DEFINE V == U \ {Chosen(U)}
  <2>1. CASE U = {}
    BY <2>1 DEF Adds
  <2>2. CASE U # {}
    <3>1. V \in SUBSET U /\ V # U
      BY <2>2, ChosenIsThere
    <3>2. g[V] = h[V]
      BY <1>1, <3>1
    <3>3. g[U] = f[Chosen(U)] + g[V] /\ h[U] = f[Chosen(U)] + h[V]
      BY <2>2 DEF Adds
    <3>4. QED
      BY <3>2, <3>3
  <2>3. QED
    BY <2>1, <2>2
<1>2. IsFiniteSet(T)
  BY FS_Subset
<1>3. SUBSET T \subseteq P
  <2> HIDE DEF P
  <2>1. QED
    BY <1>1, <1>2, SubsetInduction
<1>4. QED
  BY <1>3

LEMMA SumAdds ==
    ASSUME NEW f, NEW S, IsFiniteSet(S)
    PROVE  \E g : /\ Adds(g, f, S)
                  /\ \A T \in SUBSET S : SumFunctionOnSet(f, T) = g[T]
<1>1. PICK g : Adds(g, f, S)
  BY SumExists
<1>2. ASSUME NEW T \in SUBSET S
      PROVE  SumFunctionOnSet(f, T) = g[T]
  <2> DEFINE h == CHOOSE k : Adds(k, f, T)
  <2>1. Adds(h, f, T)
    BY SumExists, FS_Subset
  <2>2. SumFunctionOnSet(f, T) = h[T]
    BY SumIsRecursive
  <2> HIDE DEF h
  <2>3. QED
    BY <1>1, <2>1, <2>2, SumIsOne
<1>3. QED
  BY <1>1, <1>2

-----------------------------------------------------------------------------
(* What it computes.                                                       *)

LEMMA SumEmpty ==
    ASSUME NEW f
    PROVE  SumFunctionOnSet(f, {}) = 0
<1>1. PICK g : /\ Adds(g, f, {})
               /\ \A T \in SUBSET {} : SumFunctionOnSet(f, T) = g[T]
  BY SumAdds, FS_EmptySet
<1>2. QED
  BY <1>1 DEF Adds

LEMMA SumChosen ==
    ASSUME NEW f, NEW S, IsFiniteSet(S), S # {}
    PROVE  SumFunctionOnSet(f, S)
              = f[Chosen(S)] + SumFunctionOnSet(f, S \ {Chosen(S)})
<1>1. PICK g : /\ Adds(g, f, S)
               /\ \A T \in SUBSET S : SumFunctionOnSet(f, T) = g[T]
  BY SumAdds
<1>2. g[S] = f[Chosen(S)] + g[S \ {Chosen(S)}]
  BY <1>1 DEF Adds
<1>3. S \ {Chosen(S)} \in SUBSET S /\ S \in SUBSET S
  OBVIOUS
<1>4. QED
  BY <1>1, <1>2, <1>3

LEMMA SumType ==
    ASSUME NEW f, NEW S, IsFiniteSet(S), \A x \in S : f[x] \in Int
    PROVE  SumFunctionOnSet(f, S) \in Int
<1> DEFINE P == {T \in SUBSET S : SumFunctionOnSet(f, T) \in Int}
<1>1. ASSUME NEW T \in SUBSET S, \A U \in SUBSET T : U # T => U \in P
      PROVE  T \in P
  <2>1. CASE T = {}
    BY <2>1, SumEmpty
  <2>2. CASE T # {}
    <3>1. Chosen(T) \in T
      BY <2>2, ChosenIsThere
    <3>2. T \ {Chosen(T)} \in P
      BY <1>1, <3>1
    <3>3. SumFunctionOnSet(f, T) = f[Chosen(T)] + SumFunctionOnSet(f, T \ {Chosen(T)})
      BY <2>2, FS_Subset, SumChosen
    <3>4. QED
      BY <3>1, <3>2, <3>3
  <2>3. QED
    BY <2>1, <2>2
<1>2. SUBSET S \subseteq P
  <2> HIDE DEF P
  <2>1. QED
    BY <1>1, SubsetInduction
<1>3. QED
  BY <1>2

\* Any element may be taken out, whichever the recursion chooses.
LEMMA SumRemove ==
    ASSUME NEW f, NEW S, IsFiniteSet(S), \A x \in S : f[x] \in Int, NEW a \in S
    PROVE  SumFunctionOnSet(f, S) = f[a] + SumFunctionOnSet(f, S \ {a})
<1> DEFINE Total(T) == SumFunctionOnSet(f, T)
           P == {T \in SUBSET S : \A x \in T : Total(T) = f[x] + Total(T \ {x})}
<1>1. ASSUME NEW T \in SUBSET S
      PROVE  /\ Total(T) \in Int
             /\ T # {} => Chosen(T) \in T /\ Total(T) = f[Chosen(T)] + Total(T \ {Chosen(T)})
  BY FS_Subset, SumType, SumChosen, ChosenIsThere
<1> HIDE DEF Total
<1>2. ASSUME NEW T \in SUBSET S, \A U \in SUBSET T : U # T => U \in P
      PROVE  T \in P
  <2> SUFFICES ASSUME NEW x \in T
               PROVE  Total(T) = f[x] + Total(T \ {x})
    OBVIOUS
  <2> DEFINE c == Chosen(T)
             R == (T \ {c}) \ {x}
  <2>1. c \in T /\ Total(T) = f[c] + Total(T \ {c})
    BY <1>1
  <2>2. CASE x = c
    BY <2>1, <2>2
  <2>3. CASE x # c
    <3>1. T \ {c} \in P /\ x \in T \ {c}
      BY <1>2, <2>1, <2>3
    <3>2. Total(T \ {c}) = f[x] + Total(R)
      BY <3>1
    <3>3. T \ {x} \in P /\ c \in T \ {x} /\ R = (T \ {x}) \ {c}
      BY <1>2, <2>1, <2>3
    <3>4. Total(T \ {x}) = f[c] + Total(R)
      BY <3>3
    <3>5. f[x] \in Int /\ f[c] \in Int /\ Total(R) \in Int
      BY <1>1, <2>1
    <3> HIDE DEF c, R
    <3>6. QED
      BY <2>1, <3>2, <3>4, <3>5
  <2>4. QED
    BY <2>2, <2>3
<1>3. SUBSET S \subseteq P
  <2> HIDE DEF P
  <2>1. QED
    BY <1>2, SubsetInduction
<1>4. QED
  BY <1>3 DEF Total

-----------------------------------------------------------------------------
(* Totals compared and put together.                                       *)

\* What is nowhere more adds up to no more.
LEMMA SumAtMost ==
    ASSUME NEW S, IsFiniteSet(S), NEW f, NEW g,
           \A x \in S : f[x] \in Int /\ g[x] \in Int /\ f[x] <= g[x]
    PROVE  SumFunctionOnSet(f, S) <= SumFunctionOnSet(g, S)
<1> DEFINE P == {T \in SUBSET S : SumFunctionOnSet(f, T) <= SumFunctionOnSet(g, T)}
<1>1. ASSUME NEW T \in SUBSET S, \A U \in SUBSET T : U # T => U \in P
      PROVE  T \in P
  <2>1. CASE T = {}
    BY <2>1, SumEmpty
  <2>2. CASE T # {}
    <3>1. PICK x \in T : TRUE
      BY <2>2
    <3> DEFINE U == T \ {x}
    <3>2. U \in P /\ IsFiniteSet(T) /\ IsFiniteSet(U)
      BY <1>1, FS_Subset
    <3>3. /\ SumFunctionOnSet(f, T) = f[x] + SumFunctionOnSet(f, U)
          /\ SumFunctionOnSet(g, T) = g[x] + SumFunctionOnSet(g, U)
      BY <3>2, SumRemove
    <3>4. SumFunctionOnSet(f, U) \in Int /\ SumFunctionOnSet(g, U) \in Int
      BY <3>2, SumType
    <3>5. QED
      BY <3>2, <3>3, <3>4
  <2>3. QED
    BY <2>1, <2>2
<1>2. SUBSET S \subseteq P
  <2> HIDE DEF P
  <2>1. QED
    BY <1>1, SubsetInduction
<1>3. QED
  BY <1>2

LEMMA SumSame ==
    ASSUME NEW S, IsFiniteSet(S), NEW f, NEW g,
           \A x \in S : f[x] \in Int /\ f[x] = g[x]
    PROVE  SumFunctionOnSet(f, S) = SumFunctionOnSet(g, S)
<1>1. \A x \in S : f[x] \in Int /\ g[x] \in Int /\ f[x] <= g[x] /\ g[x] <= f[x]
  OBVIOUS
<1>2. SumFunctionOnSet(f, S) <= SumFunctionOnSet(g, S)
  BY <1>1, SumAtMost
<1>3. SumFunctionOnSet(g, S) <= SumFunctionOnSet(f, S)
  BY <1>1, SumAtMost
<1>4. SumFunctionOnSet(f, S) \in Int /\ SumFunctionOnSet(g, S) \in Int
  BY <1>1, SumType
<1>5. QED
  BY <1>2, <1>3, <1>4

LEMMA SumPlus ==
    ASSUME NEW S, IsFiniteSet(S), NEW f, NEW g, NEW h,
           \A x \in S : f[x] \in Int /\ g[x] \in Int /\ h[x] = f[x] + g[x]
    PROVE  SumFunctionOnSet(h, S) = SumFunctionOnSet(f, S) + SumFunctionOnSet(g, S)
<1> DEFINE P == {T \in SUBSET S : SumFunctionOnSet(h, T)
                                    = SumFunctionOnSet(f, T) + SumFunctionOnSet(g, T)}
<1>1. ASSUME NEW T \in SUBSET S, \A U \in SUBSET T : U # T => U \in P
      PROVE  T \in P
  <2>1. CASE T = {}
    BY <2>1, SumEmpty
  <2>2. CASE T # {}
    <3>1. PICK x \in T : TRUE
      BY <2>2
    <3> DEFINE U == T \ {x}
    <3>2. U \in P /\ IsFiniteSet(T) /\ IsFiniteSet(U)
      BY <1>1, FS_Subset
    <3>3. \A y \in T : h[y] \in Int
      OBVIOUS
    <3>4. /\ SumFunctionOnSet(f, T) = f[x] + SumFunctionOnSet(f, U)
          /\ SumFunctionOnSet(g, T) = g[x] + SumFunctionOnSet(g, U)
          /\ SumFunctionOnSet(h, T) = h[x] + SumFunctionOnSet(h, U)
      BY <3>2, <3>3, SumRemove
    <3>5. SumFunctionOnSet(f, U) \in Int /\ SumFunctionOnSet(g, U) \in Int
      BY <3>2, SumType
    <3>6. QED
      BY <3>2, <3>4, <3>5
  <2>3. QED
    BY <2>1, <2>2
<1>2. SUBSET S \subseteq P
  <2> HIDE DEF P
  <2>1. QED
    BY <1>1, SubsetInduction
<1>3. QED
  BY <1>2

LEMMA SumZero ==
    ASSUME NEW S, IsFiniteSet(S), NEW f, \A x \in S : f[x] = 0
    PROVE  SumFunctionOnSet(f, S) = 0
<1>1. SumFunctionOnSet(f, S) = SumFunctionOnSet(f, S) + SumFunctionOnSet(f, S)
  BY SumPlus
<1>2. SumFunctionOnSet(f, S) \in Int
  BY SumType
<1>3. \A n \in Int : n = n + n => n = 0
  OBVIOUS
<1>4. QED
  BY <1>1, <1>2, <1>3

LEMMA SumUnion ==
    ASSUME NEW S, IsFiniteSet(S), NEW f, \A x \in S : f[x] \in Int,
           NEW T \in SUBSET S
    PROVE  SumFunctionOnSet(f, S) = SumFunctionOnSet(f, T) + SumFunctionOnSet(f, S \ T)
<1> DEFINE R == S \ T
           P == {U \in SUBSET T : SumFunctionOnSet(f, U \cup R)
                                    = SumFunctionOnSet(f, U) + SumFunctionOnSet(f, R)}
<1>1. IsFiniteSet(R) /\ IsFiniteSet(T) /\ SumFunctionOnSet(f, R) \in Int
  BY FS_Subset, SumType
<1>2. ASSUME NEW U \in SUBSET T, \A V \in SUBSET U : V # U => V \in P
      PROVE  U \in P
  <2>1. CASE U = {}
    <3>1. {} \cup R = R
      OBVIOUS
    <3>2. QED
      BY <1>1, <2>1, <3>1, SumEmpty
  <2>2. CASE U # {}
    <3>1. PICK x \in U : TRUE
      BY <2>2
    <3> DEFINE V == U \ {x}
    <3>2. V \in P /\ IsFiniteSet(U) /\ IsFiniteSet(V) /\ IsFiniteSet(U \cup R)
      BY <1>1, <1>2, FS_Subset
    <3>3. (U \cup R) \ {x} = V \cup R
      OBVIOUS
    <3>4. SumFunctionOnSet(f, U \cup R) = f[x] + SumFunctionOnSet(f, V \cup R)
      BY <3>2, <3>3, SumRemove
    <3>5. SumFunctionOnSet(f, U) = f[x] + SumFunctionOnSet(f, V)
      BY <3>2, SumRemove
    <3>6. f[x] \in Int /\ SumFunctionOnSet(f, V) \in Int
      BY <3>2, SumType
    <3>7. QED
      BY <1>1, <3>2, <3>4, <3>5, <3>6
  <2>3. QED
    BY <2>1, <2>2
<1>3. SUBSET T \subseteq P
  <2> HIDE DEF P
  <2>1. QED
    BY <1>1, <1>2, SubsetInduction
<1>4. T \cup R = S
  OBVIOUS
<1>5. QED
  BY <1>3, <1>4

\* What is zero need not be counted.
LEMMA SumWithout ==
    ASSUME NEW S, IsFiniteSet(S), NEW f, \A x \in S : f[x] \in Int,
           NEW T \in SUBSET S, \A x \in S \ T : f[x] = 0
    PROVE  SumFunctionOnSet(f, S) = SumFunctionOnSet(f, T)
<1>1. IsFiniteSet(S \ T)
  BY FS_Subset
<1>2. SumFunctionOnSet(f, S \ T) = 0
  BY <1>1, SumZero
<1>3. SumFunctionOnSet(f, T) \in Int
  BY FS_Subset, SumType
<1>4. QED
  BY <1>2, <1>3, SumUnion

\* Counted class by class, where k[x] is the class of x and part[c] what is in
\* class c, it is the same.
LEMMA SumByClass ==
    ASSUME NEW S, IsFiniteSet(S), NEW f, \A x \in S : f[x] \in Int,
           NEW C, IsFiniteSet(C), NEW k, \A x \in S : k[x] \in C,
           NEW part, \A c \in C : \A x : x \in part[c] <=> x \in S /\ k[x] = c,
           NEW g, \A c \in C : g[c] = SumFunctionOnSet(f, part[c])
    PROVE  SumFunctionOnSet(f, S) = SumFunctionOnSet(g, C)
<1> DEFINE In(D) == {x \in S : k[x] \in D}
           P == {D \in SUBSET C : SumFunctionOnSet(f, In(D)) = SumFunctionOnSet(g, D)}
<1>1. ASSUME NEW D \in SUBSET C, \A E \in SUBSET D : E # D => E \in P
      PROVE  D \in P
  <2>1. CASE D = {}
    <3>1. In(D) = {}
      BY <2>1
    <3>2. QED
      BY <2>1, <3>1, SumEmpty
  <2>2. CASE D # {}
    <3>1. PICK c \in D : TRUE
      BY <2>2
    <3> DEFINE E == D \ {c}
               X == part[c]
    <3>2. E \in P /\ IsFiniteSet(D) /\ IsFiniteSet(E) /\ IsFiniteSet(In(D))
      BY <1>1, FS_Subset
    <3>3. In(D) \ X = In(E) /\ X \in SUBSET In(D)
      OBVIOUS
    <3>4. \A x \in In(D) : f[x] \in Int
      OBVIOUS
    <3>5. SumFunctionOnSet(f, In(D)) = SumFunctionOnSet(f, X) + SumFunctionOnSet(f, In(E))
      <4> DEFINE Y == In(D)
      <4>1. IsFiniteSet(Y) /\ X \in SUBSET Y /\ Y \ X = In(E)
        BY <3>2, <3>3
      <4>2. \A x \in Y : f[x] \in Int
        BY <3>4
      <4> HIDE DEF Y, X
      <4>3. SumFunctionOnSet(f, Y) = SumFunctionOnSet(f, X) + SumFunctionOnSet(f, Y \ X)
        BY <4>1, <4>2, SumUnion
      <4>4. QED
        BY <4>1, <4>3 DEF Y
    <3>6. \A d \in D : g[d] \in Int
      <4>1. ASSUME NEW d \in D
            PROVE  SumFunctionOnSet(f, part[d]) \in Int
        <5>1. part[d] \subseteq S
          OBVIOUS
        <5>2. QED
          BY <5>1, FS_Subset, SumType
      <4>2. QED
        BY <4>1
    <3>7. SumFunctionOnSet(g, D) = g[c] + SumFunctionOnSet(g, E)
      BY <3>2, <3>6, SumRemove
    <3>8. QED
      BY <3>2, <3>5, <3>7
  <2>3. QED
    BY <2>1, <2>2
<1>2. SUBSET C \subseteq P
  <2> HIDE DEF P
  <2>1. QED
    BY <1>1, SubsetInduction
<1>3. In(C) = S
  OBVIOUS
<1>4. QED
  BY <1>2, <1>3

\* SumFunction is over all there is.
LEMMA SumOfDomain ==
    ASSUME NEW f
    PROVE  SumFunction(f) = SumFunctionOnSet(f, DOMAIN f)
BY DEF SumFunction

\* Of what is nowhere negative, a part adds up to no more than the whole.
LEMMA SumOfPart ==
    ASSUME NEW S, IsFiniteSet(S), NEW f, \A x \in S : f[x] \in Int /\ f[x] >= 0,
           NEW T \in SUBSET S
    PROVE  SumFunctionOnSet(f, T) <= SumFunctionOnSet(f, S)
<1> DEFINE zero == [x \in S |-> 0]
           rest == S \ T
<1>1. IsFiniteSet(rest) /\ rest \subseteq S
  BY FS_Subset
<1>2. \A x \in rest : zero[x] = 0 /\ zero[x] \in Int /\ f[x] \in Int /\ zero[x] <= f[x]
  OBVIOUS
<1>3. SumFunctionOnSet(f, T) \in Int
  BY FS_Subset, SumType
<1>4. SumFunctionOnSet(f, S) = SumFunctionOnSet(f, T) + SumFunctionOnSet(f, rest)
  BY SumUnion
<1> HIDE DEF zero, rest
<1>5. SumFunctionOnSet(zero, rest) = 0
  BY <1>1, <1>2, SumZero
<1>6. SumFunctionOnSet(zero, rest) <= SumFunctionOnSet(f, rest)
  BY <1>1, <1>2, SumAtMost
<1>7. SumFunctionOnSet(f, rest) \in Int
  BY <1>1, <1>2, SumType
<1>8. QED
  BY <1>3, <1>4, <1>5, <1>6, <1>7

=============================================================================
