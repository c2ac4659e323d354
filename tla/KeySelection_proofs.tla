------------------------ MODULE KeySelection_proofs ------------------------
(***************************************************************************)
(* What the operators of KeyPool and KeySelection compute, for every pool  *)
(* and every credit: lemmas for KeyScheduler, Executor and AccountStore.   *)
(*                                                                         *)
(* Induction is done over sets, since the provers cannot instantiate a     *)
(* theorem about a predicate: a set of numbers has a least element, so one *)
(* that holds 0 and the successors of its elements holds all of them.      *)
(***************************************************************************)
EXTENDS KeySelection, FiniteSetTheorems, SequenceTheorems, WellFoundedInduction, TLAPS

(***************************************************************************)
(* Induction.                                                              *)
(***************************************************************************)

\* A set of natural numbers has a least element.
LEMMA LeastOf ==
    ASSUME NEW S \in SUBSET Nat, S # {}
    PROVE  \E n \in S : \A m \in S : n <= m
<1>1. PICK n \in S : \A m \in S : ~(<<m, n>> \in OpToRel(<, Nat))
  <2> HIDE DEF OpToRel
  <2> QED
    BY NatLessThanWellFounded, WFMin, Zenon
<1>2. \A m \in S : m < n => <<m, n>> \in OpToRel(<, Nat)
  BY Zenon DEF OpToRel
<1>3. ASSUME NEW m \in S PROVE n <= m
  <2>1. ~(m < n)
    BY <1>1, <1>2, Zenon
  <2> QED
    BY <2>1
<1> QED
  BY <1>3

\* A set that holds 0 and every successor of its numbers holds all of them.
LEMMA Induct ==
    ASSUME NEW S, 0 \in S, \A n \in Nat : n \in S => n + 1 \in S
    PROVE  Nat \subseteq S
<1> SUFFICES ASSUME Nat \ S # {} PROVE FALSE
  OBVIOUS
<1>1. PICK n \in Nat \ S : \A m \in Nat \ S : n <= m
  <2> DEFINE T == Nat \ S
  <2>1. T \in SUBSET Nat /\ T # {}
    OBVIOUS
  <2> HIDE DEF T
  <2>2. \E n \in T : \A m \in T : n <= m
    BY <2>1, LeastOf
  <2> QED
    BY <2>2 DEF T
<1>2. n # 0 /\ n - 1 \in Nat
  BY <1>1
<1>3. n - 1 \in S
  BY <1>1, <1>2
<1> QED
  BY <1>3, <1>1, <1>2

\* The same for the subsets of a finite set, element by element.
LEMMA FiniteInduct ==
    ASSUME NEW S, IsFiniteSet(S), NEW U, {} \in U,
           \A T \in SUBSET S : \A x \in S \ T : T \in U => T \cup {x} \in U
    PROVE  SUBSET S \subseteq U
<1> DEFINE P(n) == \A T \in SUBSET S : Cardinality(T) = n => T \in U
           N == {n \in Nat : P(n)}
<1>1. P(0)
  BY FS_EmptySet, FS_Subset
<1>2. ASSUME NEW n \in Nat, P(n) PROVE P(n + 1)
  <2> SUFFICES ASSUME NEW T \in SUBSET S, Cardinality(T) = n + 1 PROVE T \in U
    OBVIOUS
  <2>1. IsFiniteSet(T)
    BY FS_Subset
  <2>2. T # {}
    <3>1. Cardinality(T) # 0
      OBVIOUS
    <3> QED
      BY <3>1, FS_EmptySet
  <2>3. PICK x \in T : TRUE
    BY <2>2
  <2>4. Cardinality(T \ {x}) = n
    <3>1. Cardinality(T \ {x}) = Cardinality(T) - 1
      BY <2>1, <2>3, FS_RemoveElement
    <3> QED
      BY <3>1
  <2>5. T \ {x} \in U /\ T \ {x} \in SUBSET S
    BY <2>4, <1>2
  <2>6. T = (T \ {x}) \cup {x}
    BY <2>3
  <2> QED
    BY <2>5, <2>6, <2>3
<1>3. 0 \in N /\ \A n \in Nat : n \in N => n + 1 \in N
  BY <1>1, <1>2
<1> HIDE DEF N
<1>4. Nat \subseteq N
  BY <1>3, Induct
<1>5. ASSUME NEW T \in SUBSET S PROVE T \in U
  <2>1. Cardinality(T) \in Nat
    BY FS_Subset, FS_CardinalityType
  <2>2. P(Cardinality(T))
    BY <2>1, <1>4 DEF N
  <2> QED
    BY <2>2
<1> QED
  BY <1>5

\* The same again, for where the facts at hand are many.
Closed(U, S) == {} \in U /\ \A T \in SUBSET S : \A x \in S \ T : T \in U => T \cup {x} \in U

\* A family of sets closed under adding an element has S.
LEMMA ClosedHolds ==
    ASSUME NEW S, IsFiniteSet(S), NEW U, Closed(U, S)
    PROVE  S \in U
<1>1. /\ {} \in U
      /\ \A T \in SUBSET S : \A x \in S \ T : T \in U => T \cup {x} \in U
  BY DEF Closed
<1>2. SUBSET S \subseteq U
  BY <1>1, FiniteInduct
<1> QED
  BY <1>2

\* The elements of a set are taken in the order c, and iter is the result for
\* each subset.
Chooses(c, S) == \A T \in SUBSET S : T # {} => c[T] \in T
Iteration(iter, S, base, F, c) ==
    \A T \in SUBSET S : iter[T] = IF T = {} THEN base ELSE F[<<iter[T \ {c[T]}], c[T]>>]

\* A fold over a finite set is well defined: the iteration it is made of exists.
LEMMA Iterates ==
    ASSUME NEW S, IsFiniteSet(S), NEW A, NEW base \in A, NEW F \in [A \X S -> A],
           NEW c, Chooses(c, S)
    PROVE  \E iter \in [SUBSET S -> A] : Iteration(iter, S, base, F, c)
<1> DEFINE Small(n) == {T \in SUBSET S : Cardinality(T) <= n}
           Step(g, T) == IF T = {} THEN base ELSE F[<<g[T \ {c[T]}], c[T]>>]
           Good(g, n) == \A T \in Small(n) : g[T] = Step(g, T)
           P(n) == \E g \in [Small(n) -> A] : Good(g, n)
           N == {n \in Nat : P(n)}
<1>0. \A T \in SUBSET S : IsFiniteSet(T) /\ Cardinality(T) \in Nat
  BY FS_Subset, FS_CardinalityType
<1>1. P(0)
  <2>1. \A T \in Small(0) : T = {}
    BY FS_EmptySet, <1>0
  <2> DEFINE g == [T \in Small(0) |-> base]
  <2>2. g \in [Small(0) -> A] /\ Good(g, 0)
    BY <2>1
  <2> QED
    BY <2>2
<1>2. ASSUME NEW n \in Nat, P(n) PROVE P(n + 1)
  <2>1. PICK g \in [Small(n) -> A] : Good(g, n)
    BY <1>2
  <2>2. \A T \in Small(n + 1) : T # {} => T \ {c[T]} \in Small(n) /\ c[T] \in S
    <3> SUFFICES ASSUME NEW T \in SUBSET S, Cardinality(T) <= n + 1, T # {}
                 PROVE  Cardinality(T \ {c[T]}) <= n /\ c[T] \in S
      OBVIOUS
    <3>1. c[T] \in T /\ IsFiniteSet(T) /\ Cardinality(T) \in Nat
      BY <1>0 DEF Chooses
    <3>2. Cardinality(T \ {c[T]}) = Cardinality(T) - 1
      BY <3>1, FS_RemoveElement
    <3> QED
      BY <3>1, <3>2
  <2> HIDE DEF Good
  <2>3. \A T \in Small(n) : T \in Small(n + 1)
    BY <1>0
  <2> HIDE DEF Small
  <2> DEFINE h == [T \in Small(n + 1) |-> Step(g, T)]
  <2>4. \A T \in Small(n) : h[T] = g[T]
    BY <2>1, <2>3 DEF Good
  <2>5. h \in [Small(n + 1) -> A]
    BY <2>2
  <2>6. \A T \in Small(n + 1) : h[T] = Step(g, T)
    OBVIOUS
  <2> HIDE DEF h
  <2>7. Good(h, n + 1)
    BY <2>2, <2>4, <2>6 DEF Good
  <2> QED
    BY <2>5, <2>7
<1> HIDE DEF P, Good, Step, Small
<1>3. 0 \in N /\ \A n \in Nat : n \in N => n + 1 \in N
  <2>1. \A n \in Nat : P(n) => P(n + 1)
    BY <1>2
  <2> QED
    BY <1>1, <2>1
<1> HIDE DEF N
<1>4. Nat \subseteq N
  BY <1>3, Induct
<1>5. P(Cardinality(S))
  BY <1>4, <1>0 DEF N
<1>6. Small(Cardinality(S)) = SUBSET S
  BY FS_Subset, <1>0 DEF Small
<1>7. PICK g \in [SUBSET S -> A] : Good(g, Cardinality(S))
  BY <1>5, <1>6 DEF P
<1> QED
  BY <1>6, <1>7 DEF Good, Step, Iteration

(***************************************************************************)
(* Sums.                                                                   *)
(***************************************************************************)

\* The iteration SumFunctionOnSet is made of.
AddsUp(g, f, S) ==
    g = [s \in SUBSET S |-> IF s = {} THEN 0
                            ELSE LET x == CHOOSE x \in s : TRUE IN f[x] + g[s \ {x}]]

Summable(f, S) == IsFiniteSet(S) /\ \A x \in S : f[x] \in Int

\* Two of them agree where both are defined.
LEMMA SumAgrees ==
    ASSUME NEW f, NEW S, IsFiniteSet(S), NEW T \in SUBSET S,
           NEW g, AddsUp(g, f, S), NEW h, AddsUp(h, f, T)
    PROVE  \A R \in SUBSET T : g[R] = h[R]
<1> DEFINE c(R) == CHOOSE x \in R : TRUE
           P(n) == \A R \in SUBSET T : Cardinality(R) = n => g[R] = h[R]
           N == {n \in Nat : P(n)}
<1>0. \A R \in SUBSET T : IsFiniteSet(R) /\ Cardinality(R) \in Nat
  BY FS_Subset, FS_CardinalityType
<1>1. \A R \in SUBSET T :
         /\ R = {} => g[R] = 0 /\ h[R] = 0
         /\ R # {} => /\ c(R) \in R
                      /\ g[R] = f[c(R)] + g[R \ {c(R)}]
                      /\ h[R] = f[c(R)] + h[R \ {c(R)}]
  BY DEF AddsUp
<1> HIDE DEF c
<1>2. P(0)
  BY <1>0, <1>1, FS_EmptySet
<1>3. ASSUME NEW n \in Nat, P(n) PROVE P(n + 1)
  <2> SUFFICES ASSUME NEW R \in SUBSET T, Cardinality(R) = n + 1 PROVE g[R] = h[R]
    OBVIOUS
  <2>1. Cardinality(R) # 0 /\ IsFiniteSet(R)
    BY <1>0
  <2>2. R # {}
    BY <2>1, FS_EmptySet
  <2>3. Cardinality(R \ {c(R)}) = Cardinality(R) - 1
    <3>1. c(R) \in R
      BY <1>1, <2>2
    <3> QED
      BY <2>1, <3>1, FS_RemoveElement
  <2>4. Cardinality(R \ {c(R)}) = n
    BY <2>3
  <2>5. g[R \ {c(R)}] = h[R \ {c(R)}]
    BY <2>4, <1>3
  <2> QED
    BY <2>2, <2>5, <1>1
<1> HIDE DEF P
<1>4. 0 \in N /\ \A n \in Nat : n \in N => n + 1 \in N
  BY <1>2, <1>3
<1> HIDE DEF N
<1>5. Nat \subseteq N
  BY <1>4, Induct
<1>6. ASSUME NEW R \in SUBSET T PROVE g[R] = h[R]
  <2>1. P(Cardinality(R))
    BY <1>5, <1>0 DEF N
  <2> QED
    BY <2>1 DEF P
<1> QED
  BY <1>6

\* There is one, and its values are sums.
LEMMA SumExists ==
    ASSUME NEW f, NEW S, Summable(f, S)
    PROVE  \E g \in [SUBSET S -> Int] :
              AddsUp(g, f, S) /\ \A T \in SUBSET S : SumFunctionOnSet(f, T) = g[T]
<1> DEFINE c == [T \in SUBSET S |-> CHOOSE x \in T : TRUE]
           F == [p \in Int \X S |-> f[p[2]] + p[1]]
           Sum(T) == CHOOSE h : AddsUp(h, f, T)
<1>1. Chooses(c, S)
  BY DEF Chooses
<1>2. F \in [Int \X S -> Int]
  BY DEF Summable
<1>3. IsFiniteSet(S) /\ 0 \in Int
  BY DEF Summable
<1> HIDE DEF F, c
<1>4. PICK g \in [SUBSET S -> Int] : Iteration(g, S, 0, F, c)
  BY <1>1, <1>2, <1>3, Iterates
<1>5. \A T \in SUBSET S : T # {} =>
         g[T] = f[CHOOSE x \in T : TRUE] + g[T \ {CHOOSE x \in T : TRUE}]
  BY <1>4 DEF Iteration, F, c
<1>6. AddsUp(g, f, S)
  BY <1>4, <1>5 DEF AddsUp, Iteration
<1>7. ASSUME NEW T \in SUBSET S PROVE SumFunctionOnSet(f, T) = g[T]
  <2>1. SumFunctionOnSet(f, T) = Sum(T)[T]
    BY DEF SumFunctionOnSet, FoldFunctionOnSet, MapThenFoldSet, AddsUp
  <2> DEFINE h == [R \in SUBSET T |-> g[R]]
  <2>2. AddsUp(h, f, T)
    BY <1>6 DEF AddsUp
  <2>3. AddsUp(Sum(T), f, T)
    BY <2>2, Zenon
  <2> HIDE DEF h, Sum
  <2>4. g[T] = Sum(T)[T]
    BY <2>3, <1>6, SumAgrees DEF Summable
  <2> QED
    BY <2>1, <2>4
<1> QED
  BY <1>6, <1>7

\* A sum is the element taken first and the sum of the others.
LEMMA SumChosen ==
    ASSUME NEW f, NEW S, Summable(f, S)
    PROVE  /\ \A T \in SUBSET S : SumFunctionOnSet(f, T) \in Int
           /\ SumFunctionOnSet(f, {}) = 0
           /\ \A T \in SUBSET S : T # {} =>
                 \E x \in T : SumFunctionOnSet(f, T) = f[x] + SumFunctionOnSet(f, T \ {x})
<1>1. PICK g \in [SUBSET S -> Int] :
         AddsUp(g, f, S) /\ \A T \in SUBSET S : SumFunctionOnSet(f, T) = g[T]
  BY SumExists
<1>2. \A T \in SUBSET S :
         /\ T = {} => g[T] = 0
         /\ T # {} => \E x \in T : g[T] = f[x] + g[T \ {x}]
  BY <1>1 DEF AddsUp
<1> HIDE DEF SumFunctionOnSet
<1> QED
  BY <1>1, <1>2

\* An empty sum is 0.
LEMMA SumEmpty ==
    ASSUME NEW f
    PROVE  SumFunctionOnSet(f, {}) = 0
<1>1. Summable(f, {})
  BY FS_EmptySet DEF Summable
<1> QED
  BY <1>1, SumChosen

\* A sum of integers is one.
LEMMA SumInt ==
    ASSUME NEW f, NEW S, Summable(f, S)
    PROVE  SumFunctionOnSet(f, S) \in Int
BY SumChosen

\* Any element may be taken first.
LEMMA SumElement ==
    ASSUME NEW f, NEW S, Summable(f, S), NEW x \in S
    PROVE  SumFunctionOnSet(f, S) = f[x] + SumFunctionOnSet(f, S \ {x})
<1> DEFINE Sum(T) == SumFunctionOnSet(f, T)
           P(n) == \A T \in SUBSET S : Cardinality(T) = n =>
                      \A y \in T : Sum(T) = f[y] + Sum(T \ {y})
           N == {n \in Nat : P(n)}
<1>0. \A T \in SUBSET S : IsFiniteSet(T) /\ Cardinality(T) \in Nat
  BY FS_Subset, FS_CardinalityType DEF Summable
<1>1. /\ \A T \in SUBSET S : Sum(T) \in Int
      /\ \A T \in SUBSET S : T # {} => \E y \in T : Sum(T) = f[y] + Sum(T \ {y})
  BY SumChosen
<1> HIDE DEF Sum
<1>2. P(0)
  BY <1>0, FS_EmptySet
<1>3. ASSUME NEW n \in Nat, P(n) PROVE P(n + 1)
  <2> SUFFICES ASSUME NEW T \in SUBSET S, Cardinality(T) = n + 1, NEW y \in T
               PROVE  Sum(T) = f[y] + Sum(T \ {y})
    OBVIOUS
  <2>1. PICK z \in T : Sum(T) = f[z] + Sum(T \ {z})
    BY <1>1
  <2>2. CASE z = y
    BY <2>1, <2>2
  <2>3. CASE z # y
    <3>1. Cardinality(T \ {z}) = n /\ Cardinality(T \ {y}) = n
      <4>1. /\ Cardinality(T \ {z}) = Cardinality(T) - 1
            /\ Cardinality(T \ {y}) = Cardinality(T) - 1
        BY <1>0, FS_RemoveElement
      <4> QED
        BY <4>1
    <3>2. /\ Sum(T \ {z}) = f[y] + Sum((T \ {z}) \ {y})
          /\ Sum(T \ {y}) = f[z] + Sum((T \ {y}) \ {z})
      BY <3>1, <2>3, <1>3
    <3>3. (T \ {z}) \ {y} = (T \ {y}) \ {z}
      OBVIOUS
    <3>4. f[y] \in Int /\ f[z] \in Int /\ Sum((T \ {y}) \ {z}) \in Int
      BY <1>1 DEF Summable
    <3> DEFINE r == Sum((T \ {y}) \ {z})
    <3>5. Sum(T) = f[z] + (f[y] + r) /\ Sum(T \ {y}) = f[z] + r
      BY <2>1, <3>2, <3>3
    <3>6. r \in Int
      BY <3>4
    <3> HIDE DEF r
    <3> QED
      BY <3>4, <3>5, <3>6
  <2> QED
    BY <2>2, <2>3
<1> HIDE DEF P
<1>4. 0 \in N /\ \A n \in Nat : n \in N => n + 1 \in N
  BY <1>2, <1>3
<1> HIDE DEF N
<1>5. Nat \subseteq N
  BY <1>4, Induct
<1>6. P(Cardinality(S))
  BY <1>5, <1>0 DEF N
<1> QED
  BY <1>6 DEF P, Sum

\* The same, adding an element.
LEMMA SumAdd ==
    ASSUME NEW f, NEW S, Summable(f, S), NEW T \in SUBSET S, NEW x \in S \ T
    PROVE  /\ SumFunctionOnSet(f, T \cup {x}) = f[x] + SumFunctionOnSet(f, T)
           /\ f[x] \in Int /\ SumFunctionOnSet(f, T) \in Int
<1>1. Summable(f, T \cup {x}) /\ Summable(f, T)
  BY FS_Subset DEF Summable
<1>2. (T \cup {x}) \ {x} = T
  OBVIOUS
<1> QED
  BY <1>1, <1>2, SumElement, SumInt DEF Summable

\* Functions that agree on a set have the same sum over it.
LEMMA SumSame ==
    ASSUME NEW f, NEW g, NEW S, Summable(f, S), \A x \in S : f[x] = g[x]
    PROVE  SumFunctionOnSet(f, S) = SumFunctionOnSet(g, S)
<1> DEFINE U == {T \in SUBSET S : SumFunctionOnSet(f, T) = SumFunctionOnSet(g, T)}
<1>1. Summable(g, S) /\ IsFiniteSet(S)
  BY DEF Summable
<1>2. {} \in U
  BY SumEmpty
<1>3. \A T \in SUBSET S : \A x \in S \ T : T \in U => T \cup {x} \in U
  BY <1>1, SumAdd
<1> HIDE DEF U
<1>4. S \in U
  BY <1>1, <1>2, <1>3, FiniteInduct
<1> QED
  BY <1>4 DEF U

\* A sum of sums.
LEMMA SumPlus ==
    ASSUME NEW f, NEW g, NEW h, NEW S, Summable(f, S), Summable(g, S),
           \A x \in S : h[x] = f[x] + g[x]
    PROVE  SumFunctionOnSet(h, S) = SumFunctionOnSet(f, S) + SumFunctionOnSet(g, S)
<1> DEFINE U == {T \in SUBSET S :
                   SumFunctionOnSet(h, T) = SumFunctionOnSet(f, T) + SumFunctionOnSet(g, T)}
<1>1. Summable(h, S) /\ IsFiniteSet(S)
  BY DEF Summable
<1>2. {} \in U
  BY SumEmpty
<1>3. ASSUME NEW T \in SUBSET S, NEW x \in S \ T, T \in U PROVE T \cup {x} \in U
  <2>1. /\ SumFunctionOnSet(h, T \cup {x}) = h[x] + SumFunctionOnSet(h, T)
        /\ SumFunctionOnSet(f, T \cup {x}) = f[x] + SumFunctionOnSet(f, T)
        /\ SumFunctionOnSet(g, T \cup {x}) = g[x] + SumFunctionOnSet(g, T)
        /\ f[x] \in Int /\ SumFunctionOnSet(f, T) \in Int
        /\ g[x] \in Int /\ SumFunctionOnSet(g, T) \in Int
    <3>1. Summable(f, S) /\ Summable(g, S)
      OBVIOUS
    <3>2. /\ SumFunctionOnSet(h, T \cup {x}) = h[x] + SumFunctionOnSet(h, T)
          /\ SumFunctionOnSet(f, T \cup {x}) = f[x] + SumFunctionOnSet(f, T)
          /\ SumFunctionOnSet(g, T \cup {x}) = g[x] + SumFunctionOnSet(g, T)
      BY <1>1, <3>1, SumAdd
    <3>3. /\ f[x] \in Int /\ SumFunctionOnSet(f, T) \in Int
          /\ g[x] \in Int /\ SumFunctionOnSet(g, T) \in Int
      BY <3>1, SumAdd
    <3> QED
      BY <3>2, <3>3
  <2> QED
    BY <2>1, <1>3
<1> HIDE DEF U
<1>4. S \in U
  BY <1>1, <1>2, <1>3, FiniteInduct
<1> QED
  BY <1>4 DEF U

\* A sum of summands of at most c.
LEMMA SumBound ==
    ASSUME NEW f, NEW S, Summable(f, S), NEW c \in Int, \A x \in S : f[x] <= c
    PROVE  SumFunctionOnSet(f, S) <= Cardinality(S) * c
<1> DEFINE U == {T \in SUBSET S : SumFunctionOnSet(f, T) <= Cardinality(T) * c}
<1>1. IsFiniteSet(S)
  BY DEF Summable
<1>2. {} \in U
  <2>1. Cardinality({}) * c = 0
    BY FS_EmptySet
  <2> QED
    BY <2>1, SumEmpty
<1>3. ASSUME NEW T \in SUBSET S, NEW x \in S \ T, T \in U PROVE T \cup {x} \in U
  <2>1. /\ SumFunctionOnSet(f, T \cup {x}) = f[x] + SumFunctionOnSet(f, T)
        /\ f[x] \in Int /\ SumFunctionOnSet(f, T) \in Int
    BY SumAdd
  <2>2. IsFiniteSet(T) /\ Cardinality(T) \in Nat
    BY <1>1, FS_Subset, FS_CardinalityType
  <2>3. Cardinality(T \cup {x}) = Cardinality(T) + 1
    BY <2>2, FS_AddElement
  <2>4. SumFunctionOnSet(f, T) <= Cardinality(T) * c /\ f[x] <= c
    BY <1>3
  <2>5. (Cardinality(T) + 1) * c = Cardinality(T) * c + c /\ Cardinality(T) * c \in Int
    BY <2>2
  <2>6. SumFunctionOnSet(f, T \cup {x}) <= (Cardinality(T) + 1) * c
    BY <2>1, <2>4, <2>5
  <2> QED
    BY <2>3, <2>6
<1> HIDE DEF U
<1>4. S \in U
  BY <1>1, <1>2, <1>3, FiniteInduct
<1> QED
  BY <1>4 DEF U

\* The sum over two sets that have nothing in common.
LEMMA SumUnion ==
    ASSUME NEW f, NEW S, NEW R, Summable(f, S \cup R), S \cap R = {}
    PROVE  SumFunctionOnSet(f, S \cup R) = SumFunctionOnSet(f, S) + SumFunctionOnSet(f, R)
<1> DEFINE U == {T \in SUBSET R :
                   SumFunctionOnSet(f, S \cup T) = SumFunctionOnSet(f, S) + SumFunctionOnSet(f, T)}
<1>1. Summable(f, S) /\ Summable(f, R) /\ IsFiniteSet(R)
  BY FS_Subset DEF Summable
<1>2. {} \in U
  <2>1. S \cup {} = S
    OBVIOUS
  <2> QED
    BY <2>1, <1>1, SumEmpty, SumInt
<1>3. ASSUME NEW T \in SUBSET R, NEW x \in R \ T, T \in U PROVE T \cup {x} \in U
  <2>1. /\ SumFunctionOnSet(f, T \cup {x}) = f[x] + SumFunctionOnSet(f, T)
        /\ f[x] \in Int /\ SumFunctionOnSet(f, T) \in Int
    BY <1>1, SumAdd
  <2>2. SumFunctionOnSet(f, (S \cup T) \cup {x}) = f[x] + SumFunctionOnSet(f, S \cup T)
    <3>1. S \cup T \in SUBSET (S \cup R) /\ x \in (S \cup R) \ (S \cup T)
      OBVIOUS
    <3> QED
      BY <3>1, SumAdd
  <2>3. S \cup (T \cup {x}) = (S \cup T) \cup {x}
    OBVIOUS
  <2>4. SumFunctionOnSet(f, S) \in Int
    BY <1>1, SumInt
  <2>5. SumFunctionOnSet(f, S \cup T) = SumFunctionOnSet(f, S) + SumFunctionOnSet(f, T)
    BY <1>3
  <2>6. SumFunctionOnSet(f, S \cup (T \cup {x}))
          = SumFunctionOnSet(f, S) + SumFunctionOnSet(f, T \cup {x})
    <3>1. SumFunctionOnSet(f, S \cup (T \cup {x}))
            = f[x] + (SumFunctionOnSet(f, S) + SumFunctionOnSet(f, T))
      BY <2>2, <2>3, <2>5, Zenon
    <3> QED
      BY <3>1, <2>1, <2>4
  <2> QED
    BY <2>6
<1> HIDE DEF U
<1>4. Closed(U, R)
  BY <1>2, <1>3 DEF Closed
<1>5. R \in U
  BY <1>1, <1>4, ClosedHolds
<1> QED
  BY <1>5 DEF U

\* Summands that are not negative have no negative sum, and a sum of 0 only if
\* they are all 0.
LEMMA SumNatural ==
    ASSUME NEW f, NEW S, IsFiniteSet(S), \A x \in S : f[x] \in Nat
    PROVE  /\ SumFunctionOnSet(f, S) \in Nat
           /\ SumFunctionOnSet(f, S) = 0 => \A x \in S : f[x] = 0
<1> DEFINE U == {T \in SUBSET S : SumFunctionOnSet(f, T) \in Nat}
<1>1. Summable(f, S)
  BY DEF Summable
<1>2. {} \in U
  BY SumEmpty
<1>3. \A T \in SUBSET S : \A x \in S \ T : T \in U => T \cup {x} \in U
  BY <1>1, SumAdd
<1> HIDE DEF U
<1>4. SUBSET S \subseteq U
  BY <1>2, <1>3, FiniteInduct
<1>5. \A T \in SUBSET S : SumFunctionOnSet(f, T) \in Nat
  BY <1>4 DEF U
<1>6. ASSUME NEW x \in S, SumFunctionOnSet(f, S) = 0 PROVE f[x] = 0
  <2>1. SumFunctionOnSet(f, S) = f[x] + SumFunctionOnSet(f, S \ {x})
    BY <1>1, SumElement
  <2> QED
    BY <2>1, <1>5, <1>6
<1> QED
  BY <1>5, <1>6

(***************************************************************************)
(* Filtering a sequence.                                                   *)
(***************************************************************************)

\* Max is the greatest element of a set of numbers up to n.
LEMMA MaxOf ==
    ASSUME NEW n \in Nat, NEW T \in SUBSET (0..n), T # {}
    PROVE  Max(T) \in T /\ \A x \in T : x <= Max(T)
<1> DEFINE L == {n - x : x \in T}
<1>1. L \in SUBSET Nat /\ L # {}
  OBVIOUS
<1>2. PICK l \in L : \A m \in L : l <= m
  <2> HIDE DEF L
  <2> QED
    BY <1>1, LeastOf
<1>3. PICK x \in T : l = n - x
  BY <1>2
<1>4. \A y \in T : n - x <= n - y
  BY <1>2, <1>3
<1>5. \A y \in T : x >= y
  BY <1>4
<1> HIDE DEF L
<1>6. Max(T) \in T /\ \A y \in T : Max(T) >= y
  BY <1>5, Zenon DEF Max
<1> QED
  BY <1>6

\* The iteration Among is made of.
Filtering(h, s, chosen) ==
    h = [T \in SUBSET DOMAIN s |->
           IF T = {} THEN <<>>
           ELSE LET x == Max(T)
                IN IF s[x] \in chosen THEN Append(h[T \ {x}], s[x]) ELSE h[T \ {x}]]

\* f is made of the members of the first n in s that are chosen, in their
\* order: e tells where each comes from.
Selects(f, e, s, n, chosen) ==
    /\ e \in [1..Len(f) -> 1..n]
    /\ \A i, j \in 1..Len(f) : i < j => e[i] < e[j]
    /\ \A i \in 1..Len(f) : f[i] = s[e[i]] /\ f[i] \in chosen
    /\ \A j \in 1..n : s[j] \in chosen => \E i \in 1..Len(f) : e[i] = j

\* There is such an iteration.
LEMMA FilteringExists ==
    ASSUME NEW M, NEW s \in Seq(M), NEW chosen
    PROVE  \E h : Filtering(h, s, chosen)
<1> DEFINE S == DOMAIN s
           A == Seq(M)
           F == [p \in A \X S |-> IF s[p[2]] \in chosen THEN Append(p[1], s[p[2]]) ELSE p[1]]
           c == [T \in SUBSET S |-> Max(T)]
<1>1. S = 1..Len(s) /\ Len(s) \in Nat /\ \A i \in S : s[i] \in M
  OBVIOUS
<1>2. IsFiniteSet(S)
  BY <1>1, FS_Interval
<1>3. Chooses(c, S)
  <2> SUFFICES ASSUME NEW T \in SUBSET S, T # {} PROVE Max(T) \in T
    BY DEF Chooses
  <2>1. T \in SUBSET (0..Len(s))
    BY <1>1
  <2> QED
    BY <2>1, <1>1, MaxOf
<1>4. F \in [A \X S -> A] /\ <<>> \in A
  BY <1>1
<1> HIDE DEF F, c, A
<1>5. PICK g \in [SUBSET S -> A] : Iteration(g, S, <<>>, F, c)
  BY <1>2, <1>3, <1>4, Iterates
<1>6. ASSUME NEW T \in SUBSET S, T # {}
      PROVE  g[T] = IF s[Max(T)] \in chosen THEN Append(g[T \ {Max(T)}], s[Max(T)])
                                            ELSE g[T \ {Max(T)}]
  <2>1. g[T] = F[<<g[T \ {c[T]}], c[T]>>]
    BY <1>5, <1>6 DEF Iteration
  <2>2. c[T] = Max(T) /\ c[T] \in S
    BY <1>3, <1>6 DEF Chooses, c
  <2>3. g[T \ {c[T]}] \in A
    BY <1>5
  <2> QED
    BY <2>1, <2>2, <2>3 DEF F
<1>7. g[{}] = <<>>
  BY <1>5 DEF Iteration
<1>8. Filtering(g, s, chosen)
  BY <1>5, <1>6, <1>7 DEF Filtering
<1> QED
  BY <1>8

\* Among is the sequence of the chosen members, in their order.
LEMMA AmongSelects ==
    ASSUME NEW M, NEW s \in Seq(M), NEW chosen
    PROVE  /\ Among(s, chosen) \in Seq(M)
           /\ \E e : Selects(Among(s, chosen), e, s, Len(s), chosen)
<1> DEFINE h == CHOOSE g : Filtering(g, s, chosen)
           Good(n) == n <= Len(s) => h[1..n] \in Seq(M) /\ \E e : Selects(h[1..n], e, s, n, chosen)
           N == {n \in Nat : Good(n)}
<1>1. Among(s, chosen) = h[DOMAIN s]
  BY DEF Among, FoldLeft, MapThenFoldSet, Filtering
<1>2. Filtering(h, s, chosen)
  BY FilteringExists, Zenon
<1>3. DOMAIN s = 1..Len(s) /\ Len(s) \in Nat /\ \A i \in DOMAIN s : s[i] \in M
  OBVIOUS
<1> HIDE DEF h
<1>4. Good(0)
  <2>1. 1..0 = {} /\ h[{}] = <<>>
    BY <1>2 DEF Filtering
  <2>2. Selects(<<>>, <<>>, s, 0, chosen)
    BY DEF Selects
  <2>3. h[1..0] = <<>> /\ <<>> \in Seq(M)
    BY <2>1
  <2>4. h[1..0] \in Seq(M) /\ Selects(h[1..0], <<>>, s, 0, chosen)
    BY <2>2, <2>3, Zenon
  <2> QED
    BY <2>4
<1>5. ASSUME NEW n \in Nat, Good(n) PROVE Good(n + 1)
  <2> SUFFICES ASSUME n + 1 <= Len(s)
               PROVE  h[1..(n+1)] \in Seq(M) /\ \E e : Selects(h[1..(n+1)], e, s, n + 1, chosen)
    OBVIOUS
  <2>1. PICK e : h[1..n] \in Seq(M) /\ Selects(h[1..n], e, s, n, chosen)
    BY <1>5, <1>3
  <2> DEFINE f == h[1..n]
             m == s[n + 1]
  <2>2. Max(1..(n+1)) = n + 1
    <3> DEFINE T == 1..(n+1)
               k == n + 1
    <3>1. k \in Nat /\ T \in SUBSET (0..k) /\ k \in T /\ \A x \in T : x <= k
      OBVIOUS
    <3> HIDE DEF T, k
    <3>2. Max(T) \in T /\ k <= Max(T)
      BY <3>1, MaxOf
    <3>3. Max(T) <= k /\ Max(T) \in 0..k
      BY <3>1, <3>2
    <3>4. Max(T) = k
      BY <3>1, <3>2, <3>3
    <3> QED
      BY <3>4 DEF T, k
  <2>3. /\ (1..(n+1)) \ {n+1} = 1..n
        /\ 1..(n+1) # {} /\ 1..(n+1) \in SUBSET DOMAIN s
    BY <1>3
  <2>4. h[1..(n+1)] = IF m \in chosen THEN Append(f, m) ELSE f
    BY <1>2, <2>2, <2>3 DEF Filtering
  <2>5. m \in M
    BY <1>3
  <2> HIDE DEF f, m
  <2>6. f \in Seq(M) /\ Selects(f, e, s, n, chosen)
    BY <2>1 DEF f
  <2>7. CASE m \in chosen
    <3> DEFINE d == [i \in 1..(Len(f)+1) |-> IF i <= Len(f) THEN e[i] ELSE n + 1]
               a == Append(f, m)
    <3>1. a \in Seq(M) /\ Len(a) = Len(f) + 1 /\ Len(f) \in Nat
          /\ a[Len(f)+1] = m /\ \A i \in 1..Len(f) : a[i] = f[i]
      BY <2>5, <2>6
    <3> HIDE DEF a
    <3>2. d \in [1..Len(a) -> 1..(n+1)]
      BY <3>1, <2>6 DEF Selects
    <3>3. ASSUME NEW i \in 1..Len(a), NEW j \in 1..Len(a), i < j PROVE d[i] < d[j]
      <4>1. i \in 1..Len(f) /\ d[i] = e[i] /\ e[i] \in 1..n
        BY <3>3, <3>1, <2>6 DEF Selects
      <4>2. CASE j \in 1..Len(f)
        BY <4>1, <4>2, <3>1, <3>3, <2>6 DEF Selects
      <4>3. CASE j = Len(f) + 1
        BY <4>1, <4>3, <3>1
      <4> QED
        BY <4>2, <4>3, <3>1
    <3>4. \A i \in 1..Len(a) : a[i] = s[d[i]] /\ a[i] \in chosen
      <4> TAKE i \in 1..Len(a)
      <4>1. CASE i <= Len(f)
        BY <4>1, <3>1, <2>6 DEF Selects
      <4>2. CASE i = Len(f) + 1
        BY <4>2, <3>1, <2>7 DEF m
      <4> QED
        BY <4>1, <4>2, <3>1
    <3>5. \A j \in 1..(n+1) : s[j] \in chosen => \E i \in 1..Len(a) : d[i] = j
      <4> SUFFICES ASSUME NEW j \in 1..(n+1), s[j] \in chosen
                   PROVE  \E i \in 1..Len(a) : d[i] = j
        OBVIOUS
      <4>1. CASE j = n + 1
        <5>1. Len(f) + 1 \in 1..Len(a) /\ d[Len(f) + 1] = j
          BY <4>1, <3>1
        <5> QED
          BY <5>1
      <4>2. CASE j \in 1..n
        <5>1. PICK i \in 1..Len(f) : e[i] = j
          BY <4>2, <2>6 DEF Selects
        <5>2. i \in 1..Len(a) /\ d[i] = j
          BY <5>1, <3>1
        <5> QED
          BY <5>2
      <4> QED
        BY <4>1, <4>2
    <3>6. Selects(a, d, s, n + 1, chosen)
      BY <3>2, <3>3, <3>4, <3>5 DEF Selects
    <3> QED
      BY <2>4, <2>7, <3>1, <3>6 DEF a
  <2>8. CASE m \notin chosen
    <3>1. Selects(f, e, s, n + 1, chosen)
      <4>1. e \in [1..Len(f) -> 1..(n+1)]
        BY <2>6 DEF Selects
      <4>2. \A j \in 1..(n+1) : s[j] \in chosen => j \in 1..n
        BY <2>8 DEF m
      <4> QED
        BY <4>1, <4>2, <2>6 DEF Selects
    <3> QED
      BY <2>4, <2>6, <2>8, <3>1
  <2> QED
    BY <2>7, <2>8
<1> HIDE DEF Good
<1>6. 0 \in N /\ \A n \in Nat : n \in N => n + 1 \in N
  BY <1>4, <1>5
<1> HIDE DEF N
<1>7. Nat \subseteq N
  BY <1>6, Induct
<1>8. Good(Len(s))
  BY <1>7, <1>3 DEF N
<1> QED
  BY <1>8, <1>1, <1>3 DEF Good

\* What Among holds: the chosen members and no others, no key twice.
LEMMA AmongMembers ==
    ASSUME NEW M, NEW s \in Seq(M), NEW chosen
    PROVE  LET f == Among(s, chosen) IN
           /\ f \in Seq(M)
           /\ \A i \in DOMAIN f : f[i] \in chosen /\ \E j \in DOMAIN s : f[i] = s[j]
           /\ \A j \in DOMAIN s : s[j] \in chosen => \E i \in DOMAIN f : f[i] = s[j]
           /\ Distinct(s) => Distinct(f)
<1> DEFINE f == Among(s, chosen)
<1>1. PICK e : f \in Seq(M) /\ Selects(f, e, s, Len(s), chosen)
  BY AmongSelects
<1> HIDE DEF f
<1>2. DOMAIN f = 1..Len(f) /\ DOMAIN s = 1..Len(s) /\ Len(s) \in Nat /\ Len(f) \in Nat
  BY <1>1
<1>3. \A i \in DOMAIN f : e[i] \in DOMAIN s /\ f[i] = s[e[i]] /\ f[i] \in chosen
  BY <1>1, <1>2 DEF Selects
<1>4. ASSUME NEW j \in DOMAIN s, s[j] \in chosen PROVE \E i \in DOMAIN f : f[i] = s[j]
  <2>1. PICK i \in DOMAIN f : e[i] = j
    BY <1>1, <1>2, <1>4 DEF Selects
  <2> QED
    BY <1>3, <2>1
<1>5. ASSUME Distinct(s) PROVE Distinct(f)
  <2> SUFFICES ASSUME NEW i \in DOMAIN f, NEW j \in DOMAIN f, f[i].key = f[j].key PROVE i = j
    BY DEF Distinct
  <2>1. e[i] = e[j]
    BY <1>3, <1>5 DEF Distinct
  <2>2. i < j => e[i] < e[j]
    BY <1>1, <1>2 DEF Selects
  <2>3. j < i => e[j] < e[i]
    BY <1>1, <1>2 DEF Selects
  <2>4. e[i] \in Int /\ i \in Int /\ j \in Int
    BY <1>2, <1>3
  <2> QED
    BY <2>1, <2>2, <2>3, <2>4
<1> QED
  BY <1>1, <1>3, <1>4, <1>5 DEF f

(***************************************************************************)
(* Selecting a member.                                                     *)
(***************************************************************************)

\* A list of members as a request reads it.
Scheduled(s) ==
    s \in Seq(Member) /\ s # <<>> /\ Distinct(s) /\ \A i \in DOMAIN s : s[i].weight > 0

\* The active members are members.
LEMMA ActiveScheduled ==
    ASSUME NEW s, Scheduled(s)
    PROVE  /\ Scheduled(Active(s))
           /\ \A i \in DOMAIN Active(s) : \E j \in DOMAIN s : Active(s)[i] = s[j]
           /\ \A j \in DOMAIN s : ~s[j].disabled => \E i \in DOMAIN Active(s) : Active(s)[i] = s[j]
<1> DEFINE on == {m \in Range(s) : ~m.disabled}
           f == Among(s, on)
<1>1. /\ f \in Seq(Member)
      /\ \A i \in DOMAIN f : f[i] \in on /\ \E j \in DOMAIN s : f[i] = s[j]
      /\ \A j \in DOMAIN s : s[j] \in on => \E i \in DOMAIN f : f[i] = s[j]
      /\ Distinct(f)
  <2> HIDE DEF on
  <2> QED
    BY AmongMembers DEF Scheduled
<1>2. \A j \in DOMAIN s : ~s[j].disabled => s[j] \in on
  BY DEF Range
<1>3. Active(s) = IF f = <<>> THEN s ELSE f
  BY DEF Active
<1> HIDE DEF f, on
<1>4. \A i \in DOMAIN f : f[i].weight > 0
  BY <1>1 DEF Scheduled
<1>5. CASE f = <<>>
  BY <1>3, <1>5
<1>6. CASE f # <<>>
  BY <1>1, <1>2, <1>3, <1>4, <1>6 DEF Scheduled
<1> QED
  BY <1>5, <1>6

\* The facts about an entry that the proofs below need.
LEMMA MemberFacts ==
    ASSUME NEW a, Scheduled(a)
    PROVE  /\ DOMAIN a = 1..Len(a) /\ Len(a) \in Nat \ {0} /\ IsFiniteSet(DOMAIN a)
           /\ \A i \in DOMAIN a : a[i].key \in Keys /\ a[i].weight \in Nat \ {0}
           /\ WeightsOf(a) = [i \in DOMAIN a |-> a[i].weight]
           /\ KeysOf(a) \subseteq Keys /\ KeysOf(a) # {}
<1>1. DOMAIN a = 1..Len(a) /\ Len(a) \in Nat \ {0}
  BY EmptySeq DEF Scheduled
<1>2. \A i \in DOMAIN a : a[i] \in Member
  BY <1>1 DEF Scheduled
<1>3. \A i \in DOMAIN a : a[i].key \in Keys /\ a[i].weight \in Nat \ {0}
  BY <1>2, PoolAssumption DEF Member, Weights, Scheduled
<1>4. IsFiniteSet(DOMAIN a)
  BY <1>1, FS_Interval
<1>5. KeysOf(a) \subseteq Keys /\ KeysOf(a) # {}
  BY <1>1, <1>3 DEF KeysOf
<1> QED
  BY <1>1, <1>3, <1>4, <1>5 DEF WeightsOf

\* What each key earns, as a function.
Earnings(a) == [k \in Keys |-> Earned(a, k)]

\* A sum can be taken key by key.
LEMMA SumByKey ==
    ASSUME NEW f, NEW S, Summable(f, S), NEW K, IsFiniteSet(K), NEW g, \A i \in S : g[i] \in K,
           NEW h, \A k \in K : h[k] = SumFunctionOnSet(f, {i \in S : g[i] = k})
    PROVE  Summable(h, K) /\ SumFunctionOnSet(h, K) = SumFunctionOnSet(f, S)
<1> DEFINE Of(L) == {i \in S : g[i] \in L}
           U == {L \in SUBSET K : SumFunctionOnSet(h, L) = SumFunctionOnSet(f, Of(L))}
<1>1. \A T \in SUBSET S : Summable(f, T)
  BY FS_Subset DEF Summable
<1>2. Summable(h, K)
  <2> SUFFICES ASSUME NEW k \in K PROVE h[k] \in Int
    BY DEF Summable
  <2>1. Summable(f, {i \in S : g[i] = k})
    BY <1>1
  <2> QED
    BY <2>1, SumInt
<1>3. {} \in U
  <2>1. Of({}) = {}
    OBVIOUS
  <2> QED
    BY <2>1, SumEmpty
<1>4. ASSUME NEW L \in SUBSET K, NEW k \in K \ L, L \in U PROVE L \cup {k} \in U
  <2> DEFINE A == Of(L)
             B == {i \in S : g[i] = k}
  <2>1. A \cap B = {} /\ Of(L \cup {k}) = A \cup B /\ A \cup B \in SUBSET S
    BY <1>4
  <2>2. SumFunctionOnSet(h, L \cup {k}) = h[k] + SumFunctionOnSet(h, L)
    BY <1>2, SumAdd
  <2>3. h[k] = SumFunctionOnSet(f, B) /\ SumFunctionOnSet(h, L) = SumFunctionOnSet(f, A)
    BY <1>4
  <2>4. A \in SUBSET S /\ B \in SUBSET S
    OBVIOUS
  <2> HIDE DEF A, B, Of
  <2>5. SumFunctionOnSet(f, A \cup B) = SumFunctionOnSet(f, A) + SumFunctionOnSet(f, B)
    BY <2>1, <1>1, SumUnion
  <2>6. SumFunctionOnSet(f, A) \in Int /\ SumFunctionOnSet(f, B) \in Int
    BY <2>4, <1>1, SumInt
  <2>7. SumFunctionOnSet(h, L \cup {k}) = SumFunctionOnSet(f, B) + SumFunctionOnSet(f, A)
    BY <2>2, <2>3
  <2>8. SumFunctionOnSet(f, B) + SumFunctionOnSet(f, A)
          = SumFunctionOnSet(f, A) + SumFunctionOnSet(f, B)
    BY <2>6
  <2>9. SumFunctionOnSet(h, L \cup {k}) = SumFunctionOnSet(f, Of(L \cup {k}))
    BY <2>1, <2>5, <2>7, <2>8, Zenon
  <2> QED
    BY <2>9
<1>5. Of(K) = S
  OBVIOUS
<1>6. Closed(U, K)
  BY <1>3, <1>4 DEF Closed
<1> HIDE DEF U, Of
<1>7. K \in U
  BY <1>6, ClosedHolds
<1> QED
  BY <1>2, <1>5, <1>7 DEF U

\* A member's key earns its weight, any other key nothing, and all together
\* the total.
LEMMA EarnedIs ==
    ASSUME NEW a, Scheduled(a)
    PROVE  /\ \A i \in DOMAIN a : Earned(a, a[i].key) = a[i].weight
           /\ \A k : k \notin KeysOf(a) => Earned(a, k) = 0
           /\ \A k \in Keys : Earned(a, k) \in Nat
           /\ Summable(Earnings(a), Keys)
           /\ TotalWeight(a) \in Nat \ {0}
           /\ SumFunctionOnSet(Earnings(a), Keys) = TotalWeight(a)
<1> DEFINE w == WeightsOf(a)
           D == DOMAIN a
           At(k) == {i \in D : a[i].key = k}
<1>1. /\ IsFiniteSet(D) /\ \A i \in D : w[i] \in Nat \ {0} /\ w[i] = a[i].weight
      /\ \A i \in D : a[i].key \in Keys
      /\ DOMAIN w = D /\ D # {}
  BY MemberFacts
<1>2. \A k : Earned(a, k) = SumFunctionOnSet(w, At(k))
  BY DEF Earned
<1>3. TotalWeight(a) = SumFunctionOnSet(w, D)
  BY <1>1 DEF TotalWeight, SumFunction
<1>4. ASSUME NEW i \in D PROVE Earned(a, a[i].key) = a[i].weight
  <2>1. At(a[i].key) = {i}
    BY DEF Distinct, Scheduled
  <2>2. SumFunctionOnSet(w, {i}) = w[i] + SumFunctionOnSet(w, {i} \ {i})
    <3>1. Summable(w, {i})
      BY <1>1, FS_Singleton DEF Summable
    <3> QED
      BY <3>1, SumElement
  <2>3. {i} \ {i} = {}
    OBVIOUS
  <2>4. w[i] + 0 = w[i] /\ SumFunctionOnSet(w, {i}) = w[i] + 0
    <3>1. w[i] \in Int
      BY <1>1
    <3>2. SumFunctionOnSet(w, {i} \ {i}) = 0
      BY <2>3, SumEmpty
    <3> HIDE DEF w
    <3> QED
      BY <2>2, <3>1, <3>2
  <2> QED
    BY <2>1, <2>4, <1>1, <1>2
<1>5. ASSUME NEW k, k \notin KeysOf(a) PROVE Earned(a, k) = 0
  <2>1. At(k) = {}
    BY <1>5 DEF KeysOf
  <2> QED
    BY <2>1, <1>2, SumEmpty
<1>6. \A k \in Keys : Earned(a, k) \in Nat
  <2> TAKE k \in Keys
  <2>1. CASE k \in KeysOf(a)
    BY <2>1, <1>1, <1>4 DEF KeysOf
  <2>2. CASE k \notin KeysOf(a)
    BY <2>2, <1>5
  <2> QED
    BY <2>1, <2>2
<1> HIDE DEF w, D
<1>7. Summable(w, D)
  BY <1>1 DEF Summable
<1>8. Summable(Earnings(a), Keys) /\ SumFunctionOnSet(Earnings(a), Keys) = SumFunctionOnSet(w, D)
  <2> DEFINE g == [i \in D |-> a[i].key]
             h == Earnings(a)
  <2>1. \A i \in D : g[i] \in Keys
    BY <1>1
  <2>2. \A k \in Keys : h[k] = SumFunctionOnSet(w, {i \in D : g[i] = k})
    <3> TAKE k \in Keys
    <3>1. {i \in D : g[i] = k} = At(k)
      OBVIOUS
    <3> QED
      BY <3>1, <1>2 DEF Earnings
  <2> HIDE DEF g, h
  <2>3. Summable(h, Keys) /\ SumFunctionOnSet(h, Keys) = SumFunctionOnSet(w, D)
    BY <2>1, <2>2, <1>7, SumByKey, PoolAssumption
  <2> QED
    BY <2>3 DEF h
<1>9. SumFunctionOnSet(w, D) \in Nat \ {0}
  BY <1>1, SumNatural
<1> QED
  BY <1>3, <1>4, <1>5, <1>6, <1>8, <1>9 DEF D

\* A sum to which only x contributes.
LEMMA SumSingle ==
    ASSUME NEW f, NEW S, Summable(f, S), NEW x, \A y \in S : y # x => f[y] = 0
    PROVE  SumFunctionOnSet(f, S) = IF x \in S THEN f[x] ELSE 0
<1>1. ASSUME NEW T \in SUBSET S, x \notin T PROVE SumFunctionOnSet(f, T) = 0
  <2>1. Summable(f, T) /\ IsFiniteSet(T) /\ \A y \in T : f[y] = 0
    BY <1>1, FS_Subset DEF Summable
  <2>2. SumFunctionOnSet(f, T) \in Nat
    BY <2>1, SumNatural
  <2>3. SumFunctionOnSet(f, T) <= Cardinality(T) * 0
    BY <2>1, SumBound
  <2>4. Cardinality(T) * 0 = 0
    BY <2>1, FS_CardinalityType
  <2> QED
    BY <2>2, <2>3, <2>4
<1>2. CASE x \in S
  <2>1. SumFunctionOnSet(f, S) = f[x] + SumFunctionOnSet(f, S \ {x})
    BY <1>2, SumElement
  <2>2. SumFunctionOnSet(f, S \ {x}) = 0
    BY <1>1
  <2>3. f[x] \in Int
    BY <1>2 DEF Summable
  <2>4. SumFunctionOnSet(f, S) = f[x] + 0
    BY <2>1, <2>2, Zenon
  <2> QED
    BY <2>3, <2>4, <1>2
<1>3. CASE x \notin S
  BY <1>1, <1>3
<1> QED
  BY <1>2, <1>3

\* Among some numbers there is a first greatest.
LEMMA FirstGreatest ==
    ASSUME NEW n \in Nat \ {0}, NEW c \in [1..n -> Int]
    PROVE  \E i \in 1..n : \A j \in 1..n : c[j] < c[i] \/ (c[j] = c[i] /\ i <= j)
<1> DEFINE First(i, m) == \A j \in 1..m : c[j] < c[i] \/ (c[j] = c[i] /\ i <= j)
           P(m) == m \in 1..n => \E i \in 1..m : First(i, m)
           N == {m \in Nat : P(m)}
<1>1. ASSUME NEW m \in Nat, P(m) PROVE P(m + 1)
  <2> SUFFICES ASSUME m + 1 \in 1..n PROVE \E i \in 1..(m+1) : First(i, m + 1)
    OBVIOUS
  <2>1. CASE m = 0
    <3>1. 1 \in 1..(m+1) /\ First(1, m + 1)
      BY <2>1
    <3> QED
      BY <3>1
  <2>2. CASE m # 0
    <3>1. PICK i \in 1..m : First(i, m)
      BY <1>1, <2>2
    <3>2. CASE c[m + 1] > c[i]
      <4>1. First(m + 1, m + 1)
        BY <3>1, <3>2
      <4> QED
        BY <4>1
    <3>3. CASE ~(c[m + 1] > c[i])
      <4>1. First(i, m + 1)
        BY <3>1, <3>3
      <4> QED
        BY <4>1
    <3> QED
      BY <3>2, <3>3
  <2> QED
    BY <2>1, <2>2
<1>2. P(0)
  OBVIOUS
<1> HIDE DEF P
<1>3. 0 \in N /\ \A m \in Nat : m \in N => m + 1 \in N
  BY <1>1, <1>2
<1> HIDE DEF N
<1>4. Nat \subseteq N
  BY <1>3, Induct
<1>5. P(n)
  BY <1>4 DEF N
<1> QED
  BY <1>5 DEF P

Credits == [Keys -> Int]

\* Raising the credits.
LEMMA RaisedIs ==
    ASSUME NEW credit \in Credits, NEW a, Scheduled(a)
    PROVE  /\ Raised(credit, a) \in Credits
           /\ \A k \in Keys : Raised(credit, a)[k] = credit[k] + Earned(a, k)
BY EarnedIs DEF Raised, Credits

\* The best is one of the active members, and none has more credit.
LEMMA BestIs ==
    ASSUME NEW credit \in Credits, NEW a, Scheduled(a)
    PROVE  /\ Best(credit, a) \in DOMAIN a
           /\ \A j \in DOMAIN a :
                 Raised(credit, a)[a[j].key] <= Raised(credit, a)[a[Best(credit, a)].key]
<1> DEFINE n == Len(a)
           c == [i \in 1..n |-> Raised(credit, a)[a[i].key]]
           b == Best(credit, a)
<1>1. DOMAIN a = 1..n /\ n \in Nat \ {0} /\ c \in [1..n -> Int]
  BY MemberFacts, RaisedIs DEF Credits
<1>2. b = CHOOSE i \in 1..n : \A j \in 1..n : c[j] < c[i] \/ (c[j] = c[i] /\ i <= j)
  BY <1>1 DEF Best
<1>3. \A i \in 1..n : c[i] = Raised(credit, a)[a[i].key]
  OBVIOUS
<1> HIDE DEF c, n, b
<1>4. \E i \in 1..n : \A j \in 1..n : c[j] < c[i] \/ (c[j] = c[i] /\ i <= j)
  BY <1>1, FirstGreatest
<1>5. b \in 1..n /\ \A j \in 1..n : c[j] < c[b] \/ (c[j] = c[b] /\ b <= j)
  BY <1>2, <1>4, Zenon
<1>6. \A j \in 1..n : c[j] <= c[b]
  BY <1>1, <1>5
<1> QED
  BY <1>1, <1>3, <1>5, <1>6 DEF b

\* The key the requests try first.
BestKey(credit, members) == Active(members)[Best(credit, Active(members))].key

\* Each key gains what it earns, the best pays the total.
LEMMA CreditAfterIs ==
    ASSUME NEW credit \in Credits, NEW s, Scheduled(s)
    PROVE  LET a == Active(s)
               best == BestKey(credit, s)
           IN /\ CreditAfter(credit, s) \in Credits
              /\ best \in KeysOf(a) /\ best \in Keys
              /\ \A k \in Keys : CreditAfter(credit, s)[k] =
                    credit[k] + Earned(a, k) - (IF k = best THEN TotalWeight(a) ELSE 0)
<1> DEFINE a == Active(s)
           b == Best(credit, a)
           best == BestKey(credit, s)
           new == CreditAfter(credit, s)
<1>1. Scheduled(a)
  BY ActiveScheduled
<1> HIDE DEF a
<1>2. b \in DOMAIN a /\ best = a[b].key /\ best \in KeysOf(a) /\ best \in Keys
  BY <1>1, BestIs, MemberFacts DEF BestKey, a, KeysOf
<1>3. /\ Raised(credit, a) \in Credits
      /\ \A k \in Keys : Raised(credit, a)[k] = credit[k] + Earned(a, k)
  BY <1>1, RaisedIs
<1>4. TotalWeight(a) \in Nat /\ \A k \in Keys : Earned(a, k) \in Nat
  BY <1>1, EarnedIs
<1>5. new = IF Len(a) <= 1 THEN credit
            ELSE [Raised(credit, a) EXCEPT ![best] = @ - TotalWeight(a)]
  BY DEF CreditAfter, BestKey, a
<1> HIDE DEF best, new, b
<1>6. CASE Len(a) <= 1
  <2>1. DOMAIN a = {1} /\ b = 1
    <3>1. DOMAIN a = 1..Len(a) /\ Len(a) \in Nat \ {0}
      BY <1>1, MemberFacts
    <3>2. Len(a) = 1
      BY <3>1, <1>6
    <3>3. 1..1 = {1}
      OBVIOUS
    <3> QED
      BY <3>1, <3>2, <3>3, <1>2
  <2>2. {i \in DOMAIN a : a[i].key = best} = DOMAIN a
    BY <2>1, <1>2
  <2>3. DOMAIN WeightsOf(a) = DOMAIN a
    BY DEF WeightsOf
  <2>4. Earned(a, best) = TotalWeight(a)
    BY <2>2, <2>3, Zenon DEF Earned, TotalWeight, SumFunction
  <2>5. \A k \in Keys : k # best => Earned(a, k) = 0
    <3>1. \A k \in Keys : k # best => k \notin KeysOf(a)
      BY <2>1, <1>2 DEF KeysOf
    <3> QED
      BY <3>1, <1>1, EarnedIs
  <2>6. new = credit
    BY <1>5, <1>6
  <2>7. ASSUME NEW k \in Keys
        PROVE  new[k] = credit[k] + Earned(a, k) - (IF k = best THEN TotalWeight(a) ELSE 0)
    BY <2>4, <2>5, <2>6, <1>4 DEF Credits
  <2> QED
    BY <2>6, <2>7, <1>2 DEF new, best, a
<1>7. CASE ~(Len(a) <= 1)
  <2>1. new = [Raised(credit, a) EXCEPT ![best] = @ - TotalWeight(a)]
    BY <1>5, <1>7
  <2>2. new \in Credits
    BY <2>1, <1>2, <1>3, <1>4 DEF Credits
  <2>3. ASSUME NEW k \in Keys
        PROVE  new[k] = credit[k] + Earned(a, k) - (IF k = best THEN TotalWeight(a) ELSE 0)
    BY <2>1, <1>3, <1>4 DEF Credits
  <2> QED
    BY <2>2, <2>3, <1>2 DEF new, best, a
<1> QED
  BY <1>6, <1>7

\* The credit of some keys together.
LEMMA CreditAfterSum ==
    ASSUME NEW credit \in Credits, NEW s, Scheduled(s), NEW A \in SUBSET Keys
    PROVE  SumFunctionOnSet(CreditAfter(credit, s), A) =
             SumFunctionOnSet(credit, A) + SumFunctionOnSet(Earnings(Active(s)), A)
               - (IF BestKey(credit, s) \in A THEN TotalWeight(Active(s)) ELSE 0)
<1> DEFINE a == Active(s)
           best == BestKey(credit, s)
           new == CreditAfter(credit, s)
           w == Earnings(a)
           W == TotalWeight(a)
           pay == [k \in Keys |-> IF k = best THEN -W ELSE 0]
           mid == [k \in Keys |-> credit[k] + w[k]]
<1>1. /\ \A k \in Keys : w[k] = Earned(a, k) /\ w[k] \in Int
      /\ W \in Int
      /\ \A k \in Keys : new[k] = credit[k] + Earned(a, k) - (IF k = best THEN W ELSE 0)
  <2>1. Scheduled(a)
    BY ActiveScheduled
  <2>2. \A k \in Keys : new[k] = credit[k] + Earned(a, k) - (IF k = best THEN W ELSE 0)
    BY CreditAfterIs
  <2> HIDE DEF new, best, a
  <2>3. W \in Int /\ \A k \in Keys : w[k] = Earned(a, k) /\ w[k] \in Int
    <3>1. TotalWeight(a) \in Nat \ {0} /\ \A k \in Keys : Earned(a, k) \in Nat
      BY <2>1, EarnedIs
    <3> QED
      BY <3>1 DEF Earnings
  <2> QED
    BY <2>2, <2>3
<1>2. IsFiniteSet(A)
  BY PoolAssumption, FS_Subset
<1> HIDE DEF w, W, a, best, new
<1>3. /\ \A k \in Keys : pay[k] = IF k = best THEN -W ELSE 0
      /\ \A k \in Keys : mid[k] = credit[k] + w[k]
      /\ \A k \in Keys : credit[k] \in Int /\ pay[k] \in Int
      /\ \A k \in Keys : mid[k] \in Int
  BY <1>1 DEF Credits
<1>4. \A k \in Keys : new[k] = mid[k] + pay[k]
  BY <1>1, <1>3
<1> HIDE DEF pay, mid
<1>5. Summable(credit, A) /\ Summable(w, A) /\ Summable(mid, A) /\ Summable(pay, A)
  BY <1>1, <1>2, <1>3 DEF Summable
<1>6. SumFunctionOnSet(new, A) = SumFunctionOnSet(mid, A) + SumFunctionOnSet(pay, A)
  BY <1>4, <1>5, SumPlus
<1>7. SumFunctionOnSet(mid, A) = SumFunctionOnSet(credit, A) + SumFunctionOnSet(w, A)
  BY <1>3, <1>5, SumPlus
<1>8. SumFunctionOnSet(pay, A) = IF best \in A THEN -W ELSE 0
  <2>1. SumFunctionOnSet(pay, A) = IF best \in A THEN pay[best] ELSE 0
    BY <1>3, <1>5, SumSingle
  <2> QED
    BY <2>1, <1>3
<1>9. SumFunctionOnSet(credit, A) \in Int /\ SumFunctionOnSet(w, A) \in Int
  BY <1>5, SumInt
<1>10. SumFunctionOnSet(new, A) = SumFunctionOnSet(credit, A) + SumFunctionOnSet(w, A)
                                    - (IF best \in A THEN W ELSE 0)
  BY <1>1, <1>6, <1>7, <1>8, <1>9
<1> QED
  BY <1>10 DEF w, W, a, best, new

\* The credits keep their sum.
LEMMA CreditAfterKeeps ==
    ASSUME NEW credit \in Credits, NEW s, Scheduled(s)
    PROVE  SumFunctionOnSet(CreditAfter(credit, s), Keys) = SumFunctionOnSet(credit, Keys)
<1>1. SumFunctionOnSet(credit, Keys) \in Int
  BY PoolAssumption, SumInt DEF Summable, Credits
<1>2. /\ SumFunctionOnSet(Earnings(Active(s)), Keys) = TotalWeight(Active(s))
      /\ TotalWeight(Active(s)) \in Int
  BY ActiveScheduled, EarnedIs
<1>3. SumFunctionOnSet(CreditAfter(credit, s), Keys) =
        SumFunctionOnSet(credit, Keys) + TotalWeight(Active(s)) - TotalWeight(Active(s))
  <2>1. BestKey(credit, s) \in Keys
    BY CreditAfterIs
  <2>2. Keys \in SUBSET Keys
    OBVIOUS
  <2> QED
    BY <2>1, <2>2, <1>2, CreditAfterSum
<1> QED
  BY <1>1, <1>2, <1>3

\* The candidates are the active members, the best first.
LEMMA CandidatesAre ==
    ASSUME NEW credit \in Credits, NEW s, Scheduled(s)
    PROVE  LET c == Candidates(credit, s)
               a == Active(s)
           IN /\ c \in Seq(Member) /\ Len(c) = Len(a) /\ c # <<>> /\ Distinct(c)
              /\ KeysOf(c) = KeysOf(a)
              /\ c[1].key = BestKey(credit, s)
<1> DEFINE a == Active(s)
           b == Best(credit, a)
           c == Candidates(credit, s)
           n == Len(a)
<1>1. Scheduled(a)
  BY ActiveScheduled
<1>2. BestKey(credit, s) = a[b].key
  BY DEF BestKey
<1>3. c = IF n <= 1 THEN a ELSE <<a[b]>> \o RemoveAt(a, b)
  BY DEF Candidates
<1> HIDE DEF a, c
<1>4. DOMAIN a = 1..n /\ n \in Nat \ {0} /\ a \in Seq(Member) /\ b \in 1..n
  BY <1>1, MemberFacts, BestIs DEF Scheduled
<1> HIDE DEF b
<1>5. CASE n <= 1
  <2>1. c = a /\ b = 1
    BY <1>3, <1>4, <1>5
  <2> QED
    BY <2>1, <1>1, <1>2, <1>4 DEF Scheduled, a, c
<1>6. CASE ~(n <= 1)
  <2> DEFINE p == SubSeq(a, 1, b - 1)
             q == SubSeq(a, b + 1, n)
             from == [i \in 1..n |-> IF i = 1 THEN b ELSE IF i <= b THEN i - 1 ELSE i]
  <2>1. \A i \in 1..n : a[i] \in Member
    BY <1>4
  <2>2. /\ p \in Seq(Member) /\ Len(p) = b - 1
        /\ \A i \in 1..(b-1) : p[i] = a[i]
    <3>1. \A i \in 1..(b-1) : a[i] \in Member
      BY <2>1, <1>4
    <3> QED
      BY <3>1, <1>4
  <2>3. /\ q \in Seq(Member) /\ Len(q) = n - b
        /\ \A i \in 1..(n-b) : q[i] = a[b + i]
    <3>1. \A i \in (b+1)..n : a[i] \in Member
      BY <2>1, <1>4
    <3> QED
      BY <3>1, <1>4
  <2>4. c = <<a[b]>> \o (p \o q)
    BY <1>3, <1>6 DEF RemoveAt
  <2> HIDE DEF p, q
  <2>5. /\ p \o q \in Seq(Member) /\ Len(p \o q) = n - 1
        /\ \A i \in 1..(n-1) : (p \o q)[i] = IF i <= b - 1 THEN a[i] ELSE a[i + 1]
    <3>1. /\ p \o q \in Seq(Member) /\ Len(p \o q) = (b - 1) + (n - b)
          /\ \A i \in 1..((b - 1) + (n - b)) :
                (p \o q)[i] = IF i <= b - 1 THEN p[i] ELSE q[i - (b - 1)]
      <4> DEFINE l == Len(p) + Len(q)
      <4>1. /\ p \o q \in Seq(Member) /\ Len(p \o q) = l
            /\ \A i \in 1..l : (p \o q)[i] = IF i <= Len(p) THEN p[i] ELSE q[i - Len(p)]
        BY <2>2, <2>3, ConcatProperties
      <4>2. l = (b - 1) + (n - b) /\ Len(p) = b - 1
        BY <2>2, <2>3
      <4> HIDE DEF l
      <4> QED
        BY <4>1, <4>2
    <3>2. (b - 1) + (n - b) = n - 1
      BY <1>4
    <3>3. ASSUME NEW i \in 1..(n-1)
          PROVE  (p \o q)[i] = IF i <= b - 1 THEN a[i] ELSE a[i + 1]
      <4>1. (p \o q)[i] = IF i <= b - 1 THEN p[i] ELSE q[i - (b - 1)]
        BY <3>1, <3>2
      <4>2. CASE i <= b - 1
        BY <4>1, <4>2, <2>2, <1>4
      <4>3. CASE ~(i <= b - 1)
        <5>1. i - (b - 1) \in 1..(n-b) /\ b + (i - (b - 1)) = i + 1
          BY <4>3, <1>4
        <5>2. q[i - (b - 1)] = a[i + 1]
          BY <5>1, <2>3
        <5> QED
          BY <4>1, <4>3, <5>2
      <4> QED
        BY <4>2, <4>3
    <3> QED
      BY <3>1, <3>2, <3>3
  <2> DEFINE r == p \o q
  <2> HIDE DEF r
  <2>6. /\ c \in Seq(Member) /\ Len(c) = n /\ DOMAIN c = 1..n
        /\ \A i \in 1..n : c[i] = IF i = 1 THEN a[b] ELSE r[i - 1]
    <3>1. c = <<a[b]>> \o r /\ r \in Seq(Member) /\ Len(r) = n - 1 /\ a[b] \in Member
      BY <2>1, <2>4, <2>5, <1>4 DEF r
    <3> QED
      BY <3>1, <1>4
  <2>7. ASSUME NEW i \in 1..n PROVE from[i] \in 1..n /\ c[i] = a[from[i]]
    <3>1. CASE i = 1
      BY <3>1, <2>6, <1>4
    <3>2. CASE i # 1
      <4>1. c[i] = r[i - 1] /\ i - 1 \in 1..(n-1) /\ (i - 1) + 1 = i
        BY <3>2, <2>6, <1>4
      <4>2. r[i - 1] = IF i - 1 <= b - 1 THEN a[i - 1] ELSE a[i]
        BY <4>1, <2>5 DEF r
      <4>3. i - 1 <= b - 1 <=> i <= b
        BY <1>4
      <4>4. from[i] = IF i <= b THEN i - 1 ELSE i
        BY <3>2
      <4> QED
        BY <4>1, <4>2, <4>3, <4>4
    <3> QED
      BY <3>1, <3>2
  <2>8. \A i, j \in 1..n : from[i] = from[j] => i = j
    BY <1>4
  <2>9. ASSUME NEW j \in 1..n PROVE \E i \in 1..n : from[i] = j
    <3>1. CASE j = b
      BY <3>1, <1>4
    <3>2. CASE j < b
      <4>1. j + 1 \in 1..n /\ from[j + 1] = j
        BY <3>2, <1>4
      <4> QED
        BY <4>1
    <3>3. CASE j > b
      <4>1. from[j] = j
        BY <3>3, <1>4
      <4> QED
        BY <4>1
    <3> QED
      BY <3>1, <3>2, <3>3, <1>4
  <2> HIDE DEF from
  <2>10. KeysOf(c) = KeysOf(a)
    <3>1. \A i \in DOMAIN c : from[i] \in DOMAIN a /\ c[i].key = a[from[i]].key
      BY <2>6, <2>7, <1>4
    <3>2. \A j \in DOMAIN a : \E i \in DOMAIN c : c[i].key = a[j].key
      <4> TAKE j \in DOMAIN a
      <4>1. PICK i \in 1..n : from[i] = j
        BY <2>9, <1>4
      <4> QED
        BY <4>1, <2>6, <2>7
    <3>3. KeysOf(c) \subseteq KeysOf(a)
      BY <3>1 DEF KeysOf
    <3>4. KeysOf(a) \subseteq KeysOf(c)
      BY <3>2 DEF KeysOf
    <3> QED
      BY <3>3, <3>4
  <2>11. Distinct(c)
    BY <2>6, <2>7, <2>8, <1>1, <1>4 DEF Distinct, Scheduled
  <2>12. c[1] = a[b] /\ c # <<>>
    BY <2>6, <1>4
  <2> QED
    BY <2>6, <2>10, <2>11, <2>12, <1>2, <1>4 DEF a, c
<1> QED
  BY <1>5, <1>6

\* Disabled members are active only when all are disabled.
LEMMA ActiveEnabled ==
    ASSUME NEW s, Scheduled(s)
    PROVE  \/ Active(s) = s /\ \A i \in DOMAIN s : s[i].disabled
           \/ \A i \in DOMAIN Active(s) : ~Active(s)[i].disabled
<1> DEFINE on == {m \in Range(s) : ~m.disabled}
           f == Among(s, on)
<1>1. /\ f \in Seq(Member)
      /\ \A i \in DOMAIN f : f[i] \in on
      /\ \A j \in DOMAIN s : s[j] \in on => \E i \in DOMAIN f : f[i] = s[j]
  <2> HIDE DEF on
  <2> QED
    BY AmongMembers DEF Scheduled
<1>2. \A j \in DOMAIN s : ~s[j].disabled => s[j] \in on
  BY DEF Range
<1>3. \A m \in on : ~m.disabled
  OBVIOUS
<1>4. Active(s) = IF f = <<>> THEN s ELSE f
  BY DEF Active
<1> HIDE DEF f, on
<1>5. CASE f = <<>>
  BY <1>1, <1>2, <1>4, <1>5
<1>6. CASE f # <<>>
  BY <1>1, <1>3, <1>4, <1>6
<1> QED
  BY <1>5, <1>6

(***************************************************************************)
(* The pool and what the admin operations make of it.                      *)
(***************************************************************************)

Listed(s) == s \in Seq(Member) /\ Distinct(s)

\* The pool's entries.
LEMMA PoolIs ==
    ASSUME NEW p
    PROVE  p \in Pool <=> /\ p = [keys |-> p.keys, legacy |-> p.legacy]
                          /\ Listed(p.keys) /\ p.legacy \in Keys \cup {NoKey}
BY DEF Pool, Listed

\* A list whose entries are changed keeps its keys.
LEMMA ListedChanged ==
    ASSUME NEW s, Listed(s), NEW t, t = [i \in DOMAIN s |-> t[i]],
           \A i \in DOMAIN s : t[i] \in Member /\ t[i].key = s[i].key
    PROVE  Listed(t) /\ DOMAIN t = DOMAIN s /\ Len(t) = Len(s) /\ KeysOf(t) = KeysOf(s)
<1>1. s \in Seq(Member) /\ DOMAIN s = 1..Len(s) /\ Len(s) \in Nat /\ DOMAIN t = DOMAIN s
  BY DEF Listed
<1>2. t \in Seq(Member) /\ Len(t) = Len(s)
  BY <1>1
<1>3. Distinct(t)
  BY <1>1 DEF Distinct, Listed
<1>4. KeysOf(t) = KeysOf(s)
  BY <1>1 DEF KeysOf
<1> QED
  BY <1>1, <1>2, <1>3, <1>4 DEF Listed

\* A list to which another key is added.
LEMMA ListedAppended ==
    ASSUME NEW s, Listed(s), NEW m \in Member, m.key \notin KeysOf(s)
    PROVE  Listed(Append(s, m)) /\ KeysOf(Append(s, m)) = KeysOf(s) \cup {m.key}
<1> DEFINE t == Append(s, m)
<1>1. /\ s \in Seq(Member) /\ DOMAIN s = 1..Len(s) /\ Len(s) \in Nat
      /\ t \in Seq(Member) /\ DOMAIN t = 1..(Len(s) + 1)
      /\ t[Len(s) + 1] = m /\ \A i \in 1..Len(s) : t[i] = s[i]
  BY DEF Listed
<1> HIDE DEF t
<1>2. ASSUME NEW i \in DOMAIN t, NEW j \in DOMAIN t, t[i].key = t[j].key PROVE i = j
  <2>1. CASE i \in DOMAIN s /\ j \in DOMAIN s
    BY <1>1, <1>2, <2>1 DEF Listed, Distinct
  <2>2. CASE i \notin DOMAIN s /\ j \notin DOMAIN s
    BY <1>1, <2>2
  <2>3. CASE i \in DOMAIN s /\ j \notin DOMAIN s
    <3>1. t[i].key \in KeysOf(s) /\ t[j] = m
      BY <1>1, <2>3 DEF KeysOf
    <3> QED
      BY <1>2, <3>1
  <2>4. CASE i \notin DOMAIN s /\ j \in DOMAIN s
    <3>1. t[j].key \in KeysOf(s) /\ t[i] = m
      BY <1>1, <2>4 DEF KeysOf
    <3> QED
      BY <1>2, <3>1
  <2> QED
    BY <2>1, <2>2, <2>3, <2>4
<1>3. KeysOf(t) = KeysOf(s) \cup {m.key}
  <2>1. \A i \in DOMAIN t : t[i].key \in KeysOf(s) \cup {m.key}
    BY <1>1 DEF KeysOf
  <2>2. \A i \in DOMAIN s : s[i].key \in KeysOf(t)
    BY <1>1 DEF KeysOf
  <2>3. m.key \in KeysOf(t)
    BY <1>1 DEF KeysOf
  <2>4. KeysOf(t) \subseteq KeysOf(s) \cup {m.key}
    BY <2>1 DEF KeysOf
  <2>5. KeysOf(s) \subseteq KeysOf(t)
    BY <2>2 DEF KeysOf
  <2> QED
    BY <2>3, <2>4, <2>5
<1> QED
  BY <1>1, <1>2, <1>3 DEF t, Listed, Distinct

\* A list without a key.
LEMMA ListedWithout ==
    ASSUME NEW s, Listed(s), NEW k
    PROVE  Listed(Without(s, k)) /\ KeysOf(Without(s, k)) = KeysOf(s) \ {k}
<1> DEFINE others == {m \in Range(s) : m.key # k}
           f == Among(s, others)
<1>1. /\ f \in Seq(Member)
      /\ \A i \in DOMAIN f : f[i] \in others /\ \E j \in DOMAIN s : f[i] = s[j]
      /\ \A j \in DOMAIN s : s[j] \in others => \E i \in DOMAIN f : f[i] = s[j]
      /\ Distinct(f)
  <2> HIDE DEF others
  <2> QED
    BY AmongMembers DEF Listed
<1>2. \A j \in DOMAIN s : s[j].key # k => s[j] \in others
  BY DEF Range
<1>3. \A m \in others : m.key # k
  OBVIOUS
<1>4. Without(s, k) = f
  BY DEF Without
<1> HIDE DEF f, others
<1>5. KeysOf(f) \subseteq KeysOf(s) \ {k}
  BY <1>1, <1>3 DEF KeysOf
<1>6. KeysOf(s) \ {k} \subseteq KeysOf(f)
  <2> SUFFICES ASSUME NEW j \in DOMAIN s, s[j].key # k PROVE s[j].key \in KeysOf(f)
    BY DEF KeysOf
  <2>1. PICK i \in DOMAIN f : f[i] = s[j]
    BY <1>1, <1>2
  <2> QED
    BY <2>1 DEF KeysOf
<1> QED
  BY <1>1, <1>4, <1>5, <1>6 DEF Listed

\* Adding an account, or what it has if it is there already.
LEMMA AddAccountIs ==
    ASSUME NEW p \in Pool, NEW k \in Keys, NEW w \in Weights, NEW l \in Labels
    PROVE  /\ AddAccount(p, k, w, l) \in Pool
           /\ KeysOf(AddAccount(p, k, w, l).keys) = KeysOf(p.keys) \cup {k}
           /\ AddAccount(p, k, w, l).legacy = p.legacy
<1> DEFINE s == p.keys
           m == NewMember(k, w, l, FALSE)
           t == [i \in DOMAIN s |-> IF s[i].key = k THEN [s[i] EXCEPT !.weight = w, !.label = l]
                                                    ELSE s[i]]
<1>1. /\ p = [keys |-> s, legacy |-> p.legacy] /\ Listed(s) /\ p.legacy \in Keys \cup {NoKey}
      /\ \A i \in DOMAIN s : s[i] \in Member
  BY PoolIs DEF Listed
<1>2. CASE Has(p, k)
  <2>1. AddAccount(p, k, w, l) = [keys |-> t, legacy |-> p.legacy]
    BY <1>1, <1>2 DEF AddAccount, ChangeEntry
  <2>2. \A i \in DOMAIN s : t[i] \in Member /\ t[i].key = s[i].key
    BY <1>1 DEF Member
  <2>3. t = [i \in DOMAIN s |-> t[i]]
    OBVIOUS
  <2> HIDE DEF t, s
  <2>4. Listed(t) /\ KeysOf(t) = KeysOf(s)
    BY <1>1, <2>2, <2>3, ListedChanged
  <2> QED
    BY <1>1, <1>2, <2>1, <2>4, PoolIs DEF Has, s
<1>3. CASE ~Has(p, k)
  <2>1. AddAccount(p, k, w, l) = [keys |-> Append(s, m), legacy |-> p.legacy]
    BY <1>1, <1>3 DEF AddAccount
  <2>2. m \in Member /\ m.key = k
    BY DEF NewMember, Member
  <2> HIDE DEF m
  <2>3. Listed(Append(s, m)) /\ KeysOf(Append(s, m)) = KeysOf(s) \cup {k}
    BY <1>1, <1>3, <2>2, ListedAppended DEF Has
  <2> QED
    BY <1>1, <2>1, <2>3, PoolIs
<1> QED
  BY <1>2, <1>3

Flags == {{}, {TRUE}, {FALSE}}

\* Updating an account; the legacy key becomes one.
LEMMA UpdateAccountIs ==
    ASSUME NEW p \in Pool, NEW k \in Keys, NEW w \in Weights, NEW l \in Labels \cup {NoLabel},
           NEW d \in Flags
    PROVE  /\ UpdateAccount(p, k, w, l, d) \in Pool
           /\ KeysOf(UpdateAccount(p, k, w, l, d).keys) = KeysOf(p.keys) \cup {k}
<1> DEFINE s == p.keys
           Merge(m) == [m EXCEPT !.weight   = IF w > 0 THEN w ELSE @,
                                 !.label    = IF l # NoLabel THEN l ELSE @,
                                 !.disabled = IF d # {} THEN TRUE \in d ELSE @]
           n == NewMember(k, 1, DefaultLabel, FALSE)
           t == [i \in DOMAIN s |-> IF s[i].key = k THEN Merge(s[i]) ELSE s[i]]
<1>1. /\ p = [keys |-> s, legacy |-> p.legacy] /\ Listed(s) /\ p.legacy \in Keys \cup {NoKey}
      /\ \A i \in DOMAIN s : s[i] \in Member
  BY PoolIs DEF Listed
<1>2. \A m \in Member : Merge(m) \in Member /\ Merge(m).key = m.key
  <2> SUFFICES ASSUME NEW m \in Member PROVE Merge(m) \in Member /\ Merge(m).key = m.key
    OBVIOUS
  <2>1. (IF w > 0 THEN w ELSE m.weight) \in Weights
    BY DEF Member
  <2>2. (IF l # NoLabel THEN l ELSE m.label) \in Labels
    BY DEF Member
  <2>3. (IF d # {} THEN TRUE \in d ELSE m.disabled) \in BOOLEAN
    <3>1. m.disabled \in BOOLEAN
      BY DEF Member
    <3>2. (TRUE \in d) \in BOOLEAN
      OBVIOUS
    <3>3. CASE d # {}
      BY <3>2, <3>3, Zenon
    <3>4. CASE d = {}
      BY <3>1, <3>4, Zenon
    <3> QED
      BY <3>3, <3>4
  <2> QED
    BY <2>1, <2>2, <2>3 DEF Member
<1>3. n \in Member /\ n.key = k
  <2>1. 1 \in Weights
    BY PoolAssumption DEF Weights
  <2> QED
    BY <2>1, PoolAssumption DEF NewMember, Member
<1>4. CASE Has(p, k)
  <2>1. UpdateAccount(p, k, w, l, d) = [keys |-> t, legacy |-> p.legacy]
    BY <1>1, <1>4 DEF UpdateAccount, ChangeEntry
  <2> HIDE DEF Merge
  <2>2. \A i \in DOMAIN s : t[i] \in Member /\ t[i].key = s[i].key
    BY <1>1, <1>2
  <2>3. t = [i \in DOMAIN s |-> t[i]]
    OBVIOUS
  <2> HIDE DEF t, s
  <2>4. Listed(t) /\ KeysOf(t) = KeysOf(s)
    BY <1>1, <2>2, <2>3, ListedChanged
  <2> QED
    BY <1>1, <1>4, <2>1, <2>4, PoolIs DEF Has, s
<1>5. CASE ~Has(p, k)
  <2>1. UpdateAccount(p, k, w, l, d) = [keys |-> Append(s, Merge(n)), legacy |-> NoKey]
    BY <1>5 DEF UpdateAccount
  <2> HIDE DEF Merge, n
  <2>2. Merge(n) \in Member /\ Merge(n).key = k
    BY <1>2, <1>3
  <2>3. Listed(Append(s, Merge(n))) /\ KeysOf(Append(s, Merge(n))) = KeysOf(s) \cup {k}
    BY <1>1, <1>5, <2>2, ListedAppended DEF Has
  <2> QED
    BY <2>1, <2>3, PoolIs
<1> QED
  BY <1>4, <1>5

\* Toggling an account.
LEMMA ToggleAccountIs ==
    ASSUME NEW p \in Pool, NEW k \in Keys
    PROVE  /\ ToggleAccount(p, k) \in Pool
           /\ KeysOf(ToggleAccount(p, k).keys) = KeysOf(p.keys)
           /\ ToggleAccount(p, k).legacy = p.legacy
<1> DEFINE s == p.keys
           t == [i \in DOMAIN s |-> IF s[i].key = k THEN [s[i] EXCEPT !.disabled = ~@] ELSE s[i]]
<1>1. /\ p = [keys |-> s, legacy |-> p.legacy] /\ Listed(s) /\ p.legacy \in Keys \cup {NoKey}
      /\ \A i \in DOMAIN s : s[i] \in Member
  BY PoolIs DEF Listed
<1>2. ToggleAccount(p, k) = [keys |-> t, legacy |-> p.legacy]
  BY <1>1 DEF ToggleAccount, ChangeEntry
<1>3. \A i \in DOMAIN s : t[i] \in Member /\ t[i].key = s[i].key
  BY <1>1 DEF Member
<1>4. t = [i \in DOMAIN s |-> t[i]]
  OBVIOUS
<1> HIDE DEF t, s
<1>5. Listed(t) /\ KeysOf(t) = KeysOf(s)
  BY <1>1, <1>3, <1>4, ListedChanged
<1> QED
  BY <1>1, <1>2, <1>5, PoolIs DEF s

\* Removing an account.
LEMMA RemoveAccountIs ==
    ASSUME NEW p \in Pool, NEW k \in Keys
    PROVE  /\ RemoveAccount(p, k) \in Pool
           /\ KeysOf(RemoveAccount(p, k).keys) = KeysOf(p.keys) \ {k}
           /\ RemoveAccount(p, k).legacy = IF p.legacy = k THEN NoKey ELSE p.legacy
<1>1. Listed(p.keys) /\ p.legacy \in Keys \cup {NoKey}
  BY PoolIs
<1>2. Listed(Without(p.keys, k)) /\ KeysOf(Without(p.keys, k)) = KeysOf(p.keys) \ {k}
  BY <1>1, ListedWithout
<1> HIDE DEF Without
<1> QED
  BY <1>1, <1>2, PoolIs DEF RemoveAccount

\* The members of a pool can be scheduled, if there are any.
LEMMA MembersScheduled ==
    ASSUME NEW p \in Pool, Members(p) # <<>>
    PROVE  Scheduled(Members(p))
<1> DEFINE s == p.keys
           t == [i \in DOMAIN s |-> [s[i] EXCEPT !.weight = IF @ = 0 THEN 1 ELSE @]]
<1>1. /\ Listed(s) /\ p.legacy \in Keys \cup {NoKey} /\ \A i \in DOMAIN s : s[i] \in Member
      /\ 1 \in Weights
  BY PoolIs, PoolAssumption DEF Listed, Weights
<1>2. CASE s = <<>> /\ p.legacy # NoKey
  <2> DEFINE m == NewMember(p.legacy, 1, DefaultLabel, FALSE)
  <2>1. m \in Member /\ m.weight = 1
    BY <1>1, <1>2, PoolAssumption DEF NewMember, Member
  <2>2. Members(p) = <<m>>
    BY <1>2 DEF Members
  <2> HIDE DEF m
  <2>3. <<m>> \in Seq(Member) /\ DOMAIN <<m>> = {1} /\ <<m>>[1] = m
    BY <2>1
  <2> QED
    BY <2>1, <2>2, <2>3 DEF Scheduled, Distinct
<1>3. CASE ~(s = <<>> /\ p.legacy # NoKey)
  <2>1. Members(p) = t
    BY <1>3 DEF Members
  <2>2. \A i \in DOMAIN s : t[i] \in Member /\ t[i].key = s[i].key /\ t[i].weight > 0
    <3> SUFFICES ASSUME NEW i \in DOMAIN s
                 PROVE  t[i] \in Member /\ t[i].key = s[i].key /\ t[i].weight > 0
      OBVIOUS
    <3>1. s[i] \in Member /\ s[i].weight \in Nat
      BY <1>1, PoolAssumption DEF Member, Weights
    <3> QED
      BY <1>1, <3>1 DEF Member
  <2>3. t = [i \in DOMAIN s |-> t[i]]
    OBVIOUS
  <2> HIDE DEF t, s
  <2>4. Listed(t) /\ DOMAIN t = DOMAIN s
    BY <1>1, <2>2, <2>3, ListedChanged
  <2> QED
    BY <2>1, <2>2, <2>4 DEF Scheduled, Listed
<1> QED
  BY <1>2, <1>3
=============================================================================
