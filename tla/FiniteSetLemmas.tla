-------------------------- MODULE FiniteSetLemmas --------------------------
(***************************************************************************)
(* What the proofs need to know of finite sets beyond FiniteSetTheorems:   *)
(* least elements, and sums.                                               *)
(*                                                                         *)
(* The models add sizes with MapThenSumSet, which takes the elements of a  *)
(* set away one at a time, in an order of its own; what matters is that    *)
(* the order does not.                                                     *)
(*                                                                         *)
(* IsSum says what the recursive function inside MapThenSumSet computes.   *)
(* That there is such a function for every finite set is shown first, by   *)
(* the number of elements, then that there is only one, and then what is   *)
(* usual of sums.  Each induction takes a counterexample that is least.    *)
(***************************************************************************)
EXTENDS Integers, FiniteSets, FiniteSetTheorems, WellFoundedInduction, TLAPS

\* The element that is taken away next.
Next1(T) == CHOOSE x \in T : TRUE

\* g[T] is the sum of f over T, for every T within S.
IsSum(g, f, S) ==
  \A T \in SUBSET S : g[T] = IF T = {} THEN 0 ELSE f[Next1(T)] + g[T \ {Next1(T)}]

\* The same, as a recursive function is defined.
AddsUp(g, f, S) ==
  g = [T \in SUBSET S |-> IF T = {} THEN 0 ELSE f[Next1(T)] + g[T \ {Next1(T)}]]

\* The sum of f over S.
Sum(f, S) ==
  LET g[T \in SUBSET S] == IF T = {} THEN 0 ELSE f[Next1(T)] + g[T \ {Next1(T)}]
  IN  g[S]

Summable(f, S) == IsFiniteSet(S) /\ \A x \in S : f[x] \in Int

-----------------------------------------------------------------------------
(* Least elements.                                                         *)

\* A set of natural numbers that is not empty has a least element.
LEMMA LeastNumber ==
  ASSUME NEW S \in SUBSET Nat, S # {}
  PROVE  \E r \in S : \A s \in S : r =< s
<1> DEFINE R == {r \in Nat \X Nat : r[1] < r[2]}
<1>1. IsWellFoundedOn(R, Nat)
  BY NatLessThanWellFounded DEF OpToRel
<1>2. \A x, y \in Nat : y < x => <<y, x>> \in R
  OBVIOUS
<1>3. PICK x \in S : \A y \in S : ~ (<<y, x>> \in R)
  <2> HIDE DEF R
  <2> QED BY <1>1, WFMin
<1> HIDE DEF R
<1>4. ASSUME NEW y \in S PROVE x =< y
  <2>1. x \in Nat /\ y \in Nat /\ ~ (<<y, x>> \in R)
    BY <1>3
  <2>2. ~ (y < x)
    BY <2>1, <1>2
  <2>3. QED
    BY <2>1, <2>2
<1>5. QED
  BY <1>4

\* A set of finite sets that is not empty has one that contains no other.
LEMMA LeastSubset ==
  ASSUME NEW S, IsFiniteSet(S), NEW N \in SUBSET (SUBSET S), N # {}
  PROVE  \E T \in N : \A U \in N : U \subseteq T => U = T
<1>1. IsWellFoundedOn(StrictSubsetOrdering(S), SUBSET S)
  BY FS_FiniteSubsetsOfFinite, FS_StrictSubsetOrderingWellFounded
<1>2. PICK T \in N : \A U \in N : ~(<<U, T>> \in StrictSubsetOrdering(S))
  BY <1>1, WFMin
<1>3. QED
  BY <1>2 DEF StrictSubsetOrdering

\* What is taken away was there, and what is left has one element less.
LEMMA Next1InSet ==
  ASSUME NEW T, T # {}
  PROVE  Next1(T) \in T
BY DEF Next1

-----------------------------------------------------------------------------
(* Existence.                                                              *)

\* The subsets of S with at most n elements.
Small(S, n) == {T \in SUBSET S : Cardinality(T) =< n}

SumOfSmall(h, f, S, n) ==
  h \in [Small(S, n) -> Int] /\
  \A T \in Small(S, n) : h[T] = IF T = {} THEN 0 ELSE f[Next1(T)] + h[T \ {Next1(T)}]

LEMMA SmallSets ==
  ASSUME NEW S, IsFiniteSet(S), NEW n \in Nat
  PROVE  /\ Small(S, 0) = {{}}
         /\ \A T \in Small(S, n + 1) : T # {} => T \ {Next1(T)} \in Small(S, n)
         /\ Small(S, n) \subseteq Small(S, n + 1)
         /\ \A T \in Small(S, n) : T # {} => T \ {Next1(T)} \in Small(S, n)
<1>1. \A T \in SUBSET S : IsFiniteSet(T) /\ Cardinality(T) \in Nat
  BY FS_Subset, FS_CardinalityType
<1>2. ASSUME NEW T \in SUBSET S, T # {}
      PROVE  T \ {Next1(T)} \in SUBSET S /\ Cardinality(T \ {Next1(T)}) = Cardinality(T) - 1
  BY <1>1, <1>2, Next1InSet, FS_RemoveElement
<1>3. \A T \in SUBSET S : Cardinality(T) =< 0 => T = {}
  BY <1>1, FS_EmptySet
<1>4. Cardinality({}) = 0
  BY FS_EmptySet
<1>5. Small(S, 0) = {{}}
  BY <1>3, <1>4 DEF Small
<1>6. \A T \in Small(S, n + 1) : T # {} => T \ {Next1(T)} \in Small(S, n)
  BY <1>1, <1>2 DEF Small
<1>7. Small(S, n) \subseteq Small(S, n + 1)
  BY <1>1 DEF Small
<1>8. \A T \in Small(S, n) : T # {} => T \ {Next1(T)} \in Small(S, n)
  BY <1>1, <1>2 DEF Small
<1>9. QED
  BY <1>5, <1>6, <1>7, <1>8

\* From the sums over sets of n elements to those over n + 1.
LEMMA OneMore ==
  ASSUME NEW S, NEW f, Summable(f, S), NEW n \in Nat, NEW h, SumOfSmall(h, f, S, n)
  PROVE  \E g : SumOfSmall(g, f, S, n + 1)
<1> DEFINE g == [T \in Small(S, n + 1) |->
                   IF T = {} THEN 0 ELSE f[Next1(T)] + h[T \ {Next1(T)}]]
<1>1. \A T \in Small(S, n + 1) : T # {} => Next1(T) \in S /\ f[Next1(T)] \in Int
  BY Next1InSet DEF Summable, Small
<1>2. \A T \in Small(S, n + 1) : T # {} => T \ {Next1(T)} \in Small(S, n)
  BY SmallSets DEF Summable
<1>3. g \in [Small(S, n + 1) -> Int]
  BY <1>1, <1>2 DEF SumOfSmall
<1>4. ASSUME NEW T \in Small(S, n) PROVE g[T] = h[T]
  <2>1. T \in Small(S, n + 1)
    BY SmallSets DEF Summable
  <2>2. QED
    BY <2>1 DEF SumOfSmall
<1>5. ASSUME NEW T \in Small(S, n + 1)
      PROVE  g[T] = IF T = {} THEN 0 ELSE f[Next1(T)] + g[T \ {Next1(T)}]
  BY <1>2, <1>4
<1>6. SumOfSmall(g, f, S, n + 1)
  BY <1>3, <1>5 DEF SumOfSmall
<1>7. QED
  BY <1>6

\* The subsets of every size have sums.
LEMMA SmallSums ==
  ASSUME NEW S, NEW f, Summable(f, S), NEW n \in Nat
  PROVE  \E h : SumOfSmall(h, f, S, n)
<1> DEFINE N == {m \in Nat : ~ \E h : SumOfSmall(h, f, S, m)}
<1> SUFFICES ASSUME N # {} PROVE FALSE
  OBVIOUS
<1>1. PICK m \in N : \A k \in N : m =< k
  BY LeastNumber
<1>2. m # 0
  <2> DEFINE h == [T \in Small(S, 0) |-> 0]
  <2>1. Small(S, 0) = {{}}
    BY SmallSets DEF Summable
  <2>2. SumOfSmall(h, f, S, 0)
    BY <2>1 DEF SumOfSmall
  <2>3. QED
    BY <2>2, <1>1
<1>3. m - 1 \in Nat /\ m - 1 \notin N /\ (m - 1) + 1 = m
  BY <1>1, <1>2
<1>4. PICK h : SumOfSmall(h, f, S, m - 1)
  BY <1>3
<1>5. \E g : SumOfSmall(g, f, S, (m - 1) + 1)
  BY <1>3, <1>4, OneMore
<1>6. QED
  BY <1>1, <1>3, <1>5

\* There is a function that gives the sum over each subset.
LEMMA SumsExist ==
  ASSUME NEW S, NEW f, Summable(f, S)
  PROVE  \E g : AddsUp(g, f, S)
<1> DEFINE n == Cardinality(S)
<1>1. IsFiniteSet(S) /\ n \in Nat
  BY FS_CardinalityType DEF Summable
<1>2. Small(S, n) = SUBSET S
  BY <1>1, FS_Subset DEF Small
<1>3. PICK h : SumOfSmall(h, f, S, n)
  BY <1>1, SmallSums
<1>4. AddsUp(h, f, S)
  BY <1>2, <1>3 DEF SumOfSmall, AddsUp
<1>5. QED
  BY <1>4

\* Sum is such a function.
LEMMA SumIsSum ==
  ASSUME NEW S, NEW f, Summable(f, S)
  PROVE  \E g : IsSum(g, f, S) /\ Sum(f, S) = g[S]
<1> DEFINE g == CHOOSE h : AddsUp(h, f, S)
<1>1. AddsUp(g, f, S)
  BY SumsExist, Zenon
<1>2. Sum(f, S) = g[S]
  BY Zenon DEF Sum, AddsUp
<1> HIDE DEF g
<1>3. IsSum(g, f, S)
  BY <1>1 DEF IsSum, AddsUp
<1>4. QED
  BY <1>2, <1>3

-----------------------------------------------------------------------------
(* Uniqueness: the order does not matter.                                  *)

\* A sum is an integer, and the same whatever larger set it is a part of.
LEMMA SumsAgree ==
  ASSUME NEW S, NEW R, NEW f, NEW g, NEW h, Summable(f, S), S \subseteq R,
         IsSum(g, f, S), IsSum(h, f, R), NEW T \in SUBSET S
  PROVE  g[T] \in Int /\ g[T] = h[T]
<1> DEFINE N == {U \in SUBSET S : ~(g[U] \in Int /\ g[U] = h[U])}
<1> SUFFICES ASSUME N # {} PROVE FALSE
  OBVIOUS
<1>0. N \subseteq SUBSET S /\ IsFiniteSet(S)
  BY DEF Summable
<1>1. PICK U \in N : \A V \in N : V \subseteq U => V = U
  <2> HIDE DEF N
  <2> QED BY <1>0, LeastSubset
<1>2. U \in SUBSET R /\ U \in SUBSET S
  BY <1>1
<1>3. CASE U = {}
  <2>1. g[U] = 0 /\ h[U] = 0
    BY <1>2, <1>3 DEF IsSum
  <2>2. QED
    BY <1>1, <2>1
<1>4. CASE U # {}
  <2> DEFINE x == Next1(U)
  <2>1. x \in U /\ x \in S
    BY <1>2, <1>4, Next1InSet
  <2>2. g[U \ {x}] \in Int /\ g[U \ {x}] = h[U \ {x}]
    <3>1. U \ {x} \in SUBSET S /\ U \ {x} \subseteq U /\ U \ {x} # U
      BY <1>2, <2>1
    <3>2. U \ {x} \notin N
      BY <1>1, <3>1
    <3>3. QED
      BY <3>1, <3>2
  <2>3. g[U] = f[x] + g[U \ {x}] /\ h[U] = f[x] + h[U \ {x}] /\ f[x] \in Int
    BY <1>2, <1>4, <2>1 DEF IsSum, Summable
  <2>4. QED
    BY <1>1, <2>2, <2>3
<1>5. QED
  BY <1>3, <1>4

\* Every function that adds up gives Sum.
LEMMA SumIs ==
  ASSUME NEW S, NEW f, NEW g, Summable(f, S), IsSum(g, f, S), NEW T \in SUBSET S
  PROVE  Sum(f, T) = g[T] /\ g[T] \in Int
<1>1. Summable(f, T)
  BY FS_Subset DEF Summable
<1>2. PICK h : IsSum(h, f, T) /\ Sum(f, T) = h[T]
  BY <1>1, SumIsSum
<1>3. QED
  BY <1>1, <1>2, SumsAgree

LEMMA SumType ==
  ASSUME NEW S, NEW f, Summable(f, S)
  PROVE  Sum(f, S) \in Int
BY SumIsSum, SumIs

\* Any element may be the one that is taken away.
LEMMA SumRemove ==
  ASSUME NEW S, NEW f, Summable(f, S), NEW e \in S
  PROVE  Sum(f, S) = f[e] + Sum(f, S \ {e})
<1>1. PICK g : IsSum(g, f, S)
  BY SumIsSum
<1>2. \A T \in SUBSET S : g[T] \in Int /\ Sum(f, T) = g[T]
  BY <1>1, SumIs
<1> DEFINE N == {T \in SUBSET S : \E x \in T : g[T] # f[x] + g[T \ {x}]}
<1>3. N = {}
  <2> SUFFICES ASSUME N # {} PROVE FALSE
    OBVIOUS
  <2>0. N \subseteq SUBSET S /\ IsFiniteSet(S)
    BY DEF Summable
  <2>1. PICK U \in N : \A V \in N : V \subseteq U => V = U
    <3> HIDE DEF N
    <3> QED BY <2>0, LeastSubset
  <2>2. PICK x \in U : g[U] # f[x] + g[U \ {x}]
    BY <2>1
  <2> DEFINE c == Next1(U)
  <2>3. U \in SUBSET S /\ c \in U /\ g[U] = f[c] + g[U \ {c}]
    BY <1>1, <2>1, <2>2, Next1InSet DEF IsSum
  <2>4. c # x
    BY <2>2, <2>3
  <2> HIDE DEF c
  <2>5. U \ {c} \notin N /\ U \ {x} \notin N
    <3>1. U \ {c} \subseteq U /\ U \ {c} # U /\ U \ {x} \subseteq U /\ U \ {x} # U
      BY <2>2, <2>3
    <3> HIDE DEF N
    <3>2. QED
      BY <2>1, <3>1
  <2> DEFINE rest == (U \ {c}) \ {x}
  <2>6. rest = (U \ {x}) \ {c} /\ rest \in SUBSET S
    BY <2>3
  <2>7. g[U \ {c}] = f[x] + g[rest]
    BY <2>2, <2>3, <2>4, <2>5
  <2>8. g[U \ {x}] = f[c] + g[rest]
    BY <2>2, <2>3, <2>4, <2>5, <2>6
  <2> HIDE DEF rest
  <2>9. f[x] \in Int /\ f[c] \in Int /\ g[rest] \in Int
    BY <1>2, <2>2, <2>3, <2>6 DEF Summable
  <2>10. QED
    BY <2>2, <2>3, <2>7, <2>8, <2>9
<1>4. S \notin N
  BY <1>3
<1>5. g[S] = f[e] + g[S \ {e}]
  BY <1>4
<1>6. QED
  BY <1>2, <1>5

-----------------------------------------------------------------------------
(* What is usual of sums.                                                  *)

LEMMA SumEmpty == ASSUME NEW f PROVE Sum(f, {}) = 0
<1>1. Summable(f, {})
  BY FS_EmptySet DEF Summable
<1>2. QED
  BY <1>1, SumIsSum DEF IsSum

\* The sum over two sets that share nothing is the sum of their sums.
LEMMA SumDisjoint ==
  ASSUME NEW A, NEW B, NEW f, Summable(f, A), Summable(f, B), A \cap B = {}
  PROVE  Sum(f, A \cup B) = Sum(f, A) + Sum(f, B)
<1> DEFINE N == {T \in SUBSET B : Sum(f, A \cup T) # Sum(f, A) + Sum(f, T)}
<1> SUFFICES ASSUME N # {} PROVE FALSE
  OBVIOUS
<1>0. N \subseteq SUBSET B /\ IsFiniteSet(B)
  BY DEF Summable
<1>1. PICK U \in N : \A V \in N : V \subseteq U => V = U
  <2> HIDE DEF N
  <2> QED BY <1>0, LeastSubset
<1>2. Summable(f, U) /\ Summable(f, A \cup U) /\ A \cap U = {}
  <2>1. IsFiniteSet(U) /\ IsFiniteSet(A \cup U)
    BY <1>1, FS_Subset, FS_Union DEF Summable
  <2>2. QED
    BY <1>1, <2>1 DEF Summable
<1>3. Sum(f, A) \in Int
  BY SumType
<1>4. CASE U = {}
  <2>1. A \cup U = A
    BY <1>4
  <2>2. QED
    BY <1>1, <1>3, <1>4, <2>1, SumEmpty
<1>5. CASE U # {}
  <2> DEFINE x == Next1(U)
             V == U \ {x}
  <2>1. x \in U
    BY <1>5, Next1InSet
  <2>2. Sum(f, U) = f[x] + Sum(f, V)
    BY <1>2, <2>1, SumRemove
  <2>3. Sum(f, A \cup U) = f[x] + Sum(f, (A \cup U) \ {x})
    BY <1>2, <2>1, SumRemove
  <2>4. (A \cup U) \ {x} = A \cup V
    BY <1>2, <2>1
  <2>5. V \notin N /\ V \in SUBSET B
    BY <1>1, <2>1
  <2>6. Summable(f, V)
    BY <1>2, FS_Subset DEF Summable
  <2>7. Sum(f, V) \in Int /\ f[x] \in Int
    BY <1>2, <2>1, <2>6, SumType DEF Summable
  <2>8. Sum(f, A \cup V) = Sum(f, A) + Sum(f, V)
    BY <2>5
  <2>9. Sum(f, A \cup U) = f[x] + (Sum(f, A) + Sum(f, V))
    BY <2>3, <2>4, <2>8
  <2> HIDE DEF x, V
  <2>10. Sum(f, A \cup U) = Sum(f, A) + Sum(f, U)
    BY <1>3, <2>2, <2>7, <2>9
  <2>11. QED
    BY <1>1, <2>10
<1>6. QED
  BY <1>4, <1>5

\* Functions that agree have the same sum.
LEMMA SumSame ==
  ASSUME NEW S, NEW f, NEW h, Summable(f, S), \A x \in S : h[x] = f[x]
  PROVE  Sum(h, S) = Sum(f, S)
<1>1. Summable(h, S)
  BY DEF Summable
<1>2. PICK g : IsSum(g, f, S)
  BY SumIsSum
<1>3. IsSum(g, h, S)
  BY <1>2, Next1InSet DEF IsSum
<1>4. QED
  BY <1>1, <1>2, <1>3, SumIs

\* What is not negative adds up to what is not negative.
LEMMA SumNatural ==
  ASSUME NEW S, NEW f, IsFiniteSet(S), \A x \in S : f[x] \in Nat
  PROVE  Sum(f, S) \in Nat
<1> DEFINE N == {T \in SUBSET S : Sum(f, T) \notin Nat}
<1> SUFFICES ASSUME N # {} PROVE FALSE
  OBVIOUS
<1>1. PICK U \in N : \A V \in N : V \subseteq U => V = U
  <2>1. N \subseteq SUBSET S
    OBVIOUS
  <2> HIDE DEF N
  <2> QED BY <2>1, LeastSubset
<1>2. Summable(f, U)
  BY <1>1, FS_Subset DEF Summable
<1>3. U # {}
  <2>1. Sum(f, {}) \in Nat
    BY SumEmpty
  <2>2. QED
    BY <1>1, <2>1
<1> DEFINE x == Next1(U)
<1>4. x \in U
  BY <1>3, Next1InSet
<1>5. U \ {x} \notin N /\ U \ {x} \in SUBSET S
  BY <1>1, <1>4
<1>6. Sum(f, U) = f[x] + Sum(f, U \ {x}) /\ f[x] \in Nat
  BY <1>1, <1>2, <1>4, SumRemove
<1>7. QED
  BY <1>1, <1>5, <1>6

\* A part of a set has at most the sum of the whole.
LEMMA SumMonotone ==
  ASSUME NEW S, NEW T \in SUBSET S, NEW f, IsFiniteSet(S), \A x \in S : f[x] \in Nat
  PROVE  Sum(f, T) =< Sum(f, S)
<1>1. IsFiniteSet(T) /\ IsFiniteSet(S \ T)
  BY FS_Subset, FS_Difference
<1>2. Summable(f, T) /\ Summable(f, S \ T) /\ T \cap (S \ T) = {} /\ T \cup (S \ T) = S
  BY <1>1 DEF Summable
<1>3. Sum(f, S) = Sum(f, T) + Sum(f, S \ T)
  BY <1>2, SumDisjoint
<1>4. Sum(f, T) \in Nat /\ Sum(f, S \ T) \in Nat
  BY <1>1, SumNatural
<1>5. QED
  BY <1>3, <1>4

\* A sum is at most as many times the largest value as there are elements.
LEMMA SumBounded ==
  ASSUME NEW S, NEW f, IsFiniteSet(S), NEW n \in Nat, \A x \in S : f[x] \in 0 .. n
  PROVE  Sum(f, S) =< Cardinality(S) * n
<1> DEFINE N == {T \in SUBSET S : ~(Sum(f, T) =< Cardinality(T) * n)}
<1> SUFFICES ASSUME N # {} PROVE FALSE
  OBVIOUS
<1>1. PICK U \in N : \A V \in N : V \subseteq U => V = U
  <2>1. N \subseteq SUBSET S
    OBVIOUS
  <2> HIDE DEF N
  <2> QED BY <2>1, LeastSubset
<1>2. Summable(f, U) /\ IsFiniteSet(U)
  BY <1>1, FS_Subset DEF Summable
<1>3. U # {}
  <2>1. Sum(f, {}) =< Cardinality({}) * n
    BY SumEmpty, FS_EmptySet
  <2>2. QED
    BY <1>1, <2>1
<1> DEFINE x == Next1(U)
           V == U \ {x}
<1>4. x \in U
  BY <1>3, Next1InSet
<1>5. Sum(f, V) =< Cardinality(V) * n
  BY <1>1, <1>4
<1>6. Sum(f, U) = f[x] + Sum(f, V) /\ f[x] \in 0 .. n
  BY <1>1, <1>2, <1>4, SumRemove
<1>7. /\ Cardinality(U) = Cardinality(V) + 1 /\ Cardinality(V) \in Nat
      /\ Sum(f, V) \in Int
  <2>1. IsFiniteSet(V) /\ Summable(f, V)
    BY <1>2, FS_Subset DEF Summable
  <2>2. QED
    BY <1>2, <1>4, <2>1, FS_RemoveElement, FS_CardinalityType, SumType
<1>8. Sum(f, U) =< Cardinality(U) * n
  <2> DEFINE c == Cardinality(V)
             s == Sum(f, V)
  <2>1. /\ c \in Nat /\ s \in Int /\ s =< c * n
        /\ Sum(f, U) = f[x] + s /\ f[x] \in 0 .. n /\ Cardinality(U) = c + 1
    BY <1>5, <1>6, <1>7
  <2> HIDE DEF c, s, x
  <2>2. (c + 1) * n = c * n + n /\ c * n \in Int
    BY <2>1, SMT
  <2>3. QED
    BY <2>1, <2>2
<1>9. QED
  BY <1>1, <1>8
=============================================================================
