--------------------------- MODULE AmountTheorems ---------------------------
(***************************************************************************)
(* The arithmetic of amounts: sums over finite sets, powers of ten and     *)
(* scaling between decimals.                                               *)
(*                                                                         *)
(* The totals of the models are sums of functions over finite sets         *)
(* (SumFunction and SumFunctionOnSet of the module Functions); the lemmas  *)
(* say how such a sum changes when one summand does.  Induction is over    *)
(* sets: a set of numbers or of subsets takes the place of the predicate.  *)
(***************************************************************************)
EXTENDS TrimmedAmount, FiniteSets, Functions, FiniteSetTheorems, WellFoundedInduction,
        TLAPS

-----------------------------------------------------------------------------
(* Induction and sums.                                                     *)

\* A set of natural numbers has a least element.
LEMMA NatMinimum ==
  ASSUME NEW S \in SUBSET Nat, S # {}
  PROVE  \E x \in S : \A y \in S : x <= y
  <1> DEFINE R == {ss \in Nat \X Nat : ss[1] < ss[2]}
  <1>1. IsWellFoundedOn(R, Nat)
    BY NatLessThanWellFounded DEF OpToRel
  <1> HIDE DEF R
  <1>2. PICK x \in S : \A y \in S : ~ (<<y, x>> \in R)
    BY <1>1, WFMin
  <1>3. \A y \in S : ~ (y < x)
    BY <1>2 DEF R
  <1> QED
    BY <1>3

\* Induction on the natural numbers, for a set instead of a predicate.
LEMMA NatInd ==
  ASSUME NEW W, 0 \in W, \A n \in Nat : n \in W => n + 1 \in W
  PROVE  \A n \in Nat : n \in W
  <1> SUFFICES ASSUME Nat \ W # {} PROVE FALSE
    OBVIOUS
  <1>1. PICK n \in Nat \ W : \A k \in Nat \ W : n <= k
    <2> DEFINE S == Nat \ W
    <2>1. S \in SUBSET Nat /\ S # {}
      OBVIOUS
    <2> HIDE DEF S
    <2>2. PICK n \in S : \A k \in S : n <= k
      BY <2>1, NatMinimum
    <2> QED
      BY <2>2 DEF S
  <1>2. n # 0 /\ n - 1 \in Nat
    BY <1>1
  <1>3. n - 1 \in W
    BY <1>1, <1>2
  <1> QED
    BY <1>1, <1>2, <1>3

\* Induction on the subsets of a finite set, likewise.
LEMMA SubsetInd ==
  ASSUME NEW S, IsFiniteSet(S), NEW W, {} \in W,
         \A T \in SUBSET S : \A x \in S \ T : T \in W => T \cup {x} \in W
  PROVE  \A T \in SUBSET S : T \in W
  <1> SUFFICES ASSUME NEW T0 \in SUBSET S, T0 \notin W PROVE FALSE
    OBVIOUS
  <1> DEFINE Bad == {n \in Nat : \E T \in SUBSET S : T \notin W /\ Cardinality(T) = n}
  <1>1. \A T \in SUBSET S : IsFiniteSet(T) /\ Cardinality(T) \in Nat
    BY FS_Subset, FS_CardinalityType
  <1>2. Bad \in SUBSET Nat /\ Bad # {}
    BY <1>1
  <1> HIDE DEF Bad
  <1>3. PICK n \in Bad : \A k \in Bad : n <= k
    BY <1>2, NatMinimum
  <1>4. PICK T \in SUBSET S : T \notin W /\ Cardinality(T) = n
    BY <1>3 DEF Bad
  <1>5. PICK x \in T : TRUE
    BY <1>4
  <1> DEFINE U == T \ {x}
  <1>6. U \in SUBSET S /\ x \in S \ U /\ T = U \cup {x}
    BY <1>5
  <1>7. Cardinality(U) = n - 1 /\ Cardinality(U) \in Nat /\ n \in Nat
    BY <1>1, <1>2, <1>3, <1>4, <1>5, <1>6, FS_RemoveElement
  <1> HIDE DEF U
  <1>8. U \in W
    <2>1. ASSUME U \notin W PROVE FALSE
      <3>1. n - 1 \in Bad
        BY <2>1, <1>6, <1>7 DEF Bad
      <3> QED
        BY <3>1, <1>3, <1>7
    <2> QED
      BY <2>1
  <1> QED
    BY <1>4, <1>6, <1>8

\* g adds up f over the subsets of S.
Adds(g, f, S) ==
  /\ g \in [SUBSET S -> Int]
  /\ g[{}] = 0
  /\ \A T \in SUBSET S : \A x \in S \ T : g[T \cup {x}] = g[T] + f[x]

\* There is such an addition for every finite set.
LEMMA AddsExists ==
  ASSUME NEW S, IsFiniteSet(S), NEW f, \A x \in S : f[x] \in Int
  PROVE  \E g : Adds(g, f, S)
  <1> DEFINE W == {T \in SUBSET S : \E g \in [SUBSET T -> Int] : Adds(g, f, T)}
  <1>1. {} \in W
    <2> DEFINE g == [T \in SUBSET {} |-> 0]
    <2>1. Adds(g, f, {})
      BY DEF Adds
    <2> QED
      BY <2>1 DEF Adds
  <1>2. ASSUME NEW T \in SUBSET S, NEW x \in S \ T, T \in W
        PROVE  T \cup {x} \in W
    <2>1. PICK g \in [SUBSET T -> Int] : Adds(g, f, T)
      BY <1>2
    <2> DEFINE h == [U \in SUBSET (T \cup {x}) |-> IF x \in U THEN g[U \ {x}] + f[x] ELSE g[U]]
    <2>2. h \in [SUBSET (T \cup {x}) -> Int]
      <3>1. \A U \in SUBSET (T \cup {x}) :
              /\ x \in U => U \ {x} \in SUBSET T
              /\ x \notin U => U \in SUBSET T
        OBVIOUS
      <3> QED
        BY <3>1, <2>1
    <2>3. h[{}] = 0
      BY <2>1 DEF Adds
    <2>4. ASSUME NEW U \in SUBSET (T \cup {x}), NEW y \in (T \cup {x}) \ U
          PROVE  h[U \cup {y}] = h[U] + f[y]
      <3>1. CASE y = x
        <4>1. U \in SUBSET T /\ (U \cup {y}) \ {x} = U /\ x \notin U
          BY <2>4, <3>1
        <4> QED
          BY <3>1, <4>1
      <3>2. CASE y # x /\ x \in U
        <4>1. /\ U \ {x} \in SUBSET T /\ y \in T \ (U \ {x})
              /\ (U \cup {y}) \ {x} = (U \ {x}) \cup {y}
          BY <2>4, <3>2
        <4>2. g[(U \ {x}) \cup {y}] = g[U \ {x}] + f[y]
          BY <4>1, <2>1 DEF Adds
        <4>3. g[U \ {x}] \in Int /\ f[x] \in Int /\ f[y] \in Int
          BY <4>1, <2>1
        <4>4. h[U \cup {y}] = g[(U \ {x}) \cup {y}] + f[x] /\ h[U] = g[U \ {x}] + f[x]
          BY <4>1, <3>2
        <4> QED
          BY <4>2, <4>3, <4>4
      <3>3. CASE y # x /\ x \notin U
        <4>1. U \in SUBSET T /\ y \in T \ U /\ x \notin U \cup {y}
          BY <2>4, <3>3
        <4> QED
          BY <4>1, <2>1 DEF Adds
      <3> QED
        BY <3>1, <3>2, <3>3
    <2> HIDE DEF h
    <2>5. Adds(h, f, T \cup {x})
      BY <2>2, <2>3, <2>4 DEF Adds
    <2> QED
      BY <2>2, <2>5
  <1>3. S \in W
    <2> HIDE DEF W
    <2> QED
      BY <1>1, <1>2, SubsetInd
  <1> QED
    BY <1>3

\* The recursion by which the folds of the community modules add up f over the
\* subsets of S.
Chosen(s) == CHOOSE x \in s : TRUE

Iterates(h, f, S) ==
  \A s \in SUBSET S : h[s] = IF s = {} THEN 0 ELSE f[Chosen(s)] + h[s \ {Chosen(s)}]

LEMMA ChosenElement ==
  ASSUME NEW S, NEW s \in SUBSET S, s # {}
  PROVE  /\ Chosen(s) \in s
         /\ s \ {Chosen(s)} \in SUBSET S
         /\ Chosen(s) \in S \ (s \ {Chosen(s)})
         /\ (s \ {Chosen(s)}) \cup {Chosen(s)} = s
  <1>1. Chosen(s) \in s
    BY Zenon DEF Chosen
  <1> QED
    BY <1>1

\* An addition satisfies the recursion.
LEMMA AddsIterates ==
  ASSUME NEW S, NEW f, \A x \in S : f[x] \in Int, NEW g, Adds(g, f, S)
  PROVE  Iterates(g, f, S)
  <1> SUFFICES ASSUME NEW s \in SUBSET S
               PROVE  g[s] = IF s = {} THEN 0 ELSE f[Chosen(s)] + g[s \ {Chosen(s)}]
    BY DEF Iterates
  <1>1. CASE s = {}
    BY <1>1 DEF Adds
  <1>2. CASE s # {}
    <2>1. g[s] = g[s \ {Chosen(s)}] + f[Chosen(s)]
      BY <1>2, ChosenElement DEF Adds
    <2>2. g[s \ {Chosen(s)}] \in Int /\ f[Chosen(s)] \in Int
      BY <1>2, ChosenElement DEF Adds
    <2> QED
      BY <1>2, <2>1, <2>2
  <1> QED
    BY <1>1, <1>2

\* The recursion determines the sum.
LEMMA IteratesUnique ==
  ASSUME NEW S, IsFiniteSet(S), NEW f, NEW g, NEW h,
         Iterates(g, f, S), Iterates(h, f, S)
  PROVE  h[S] = g[S]
  <1>1. \A s \in SUBSET S : IsFiniteSet(s) /\ Cardinality(s) \in Nat
    BY FS_Subset, FS_CardinalityType
  <1> DEFINE W == {n \in Nat : \A s \in SUBSET S : Cardinality(s) = n => h[s] = g[s]}
  <1>2. 0 \in W
    BY <1>1, FS_EmptySet DEF Iterates
  <1>3. ASSUME NEW n \in Nat, n \in W
        PROVE  n + 1 \in W
    <2>1. ASSUME NEW s \in SUBSET S, Cardinality(s) = n + 1
          PROVE  h[s] = g[s]
      <3> DEFINE r == s \ {Chosen(s)}
      <3>1. s # {}
        BY <2>1, FS_EmptySet
      <3>2. h[s] = f[Chosen(s)] + h[r] /\ g[s] = f[Chosen(s)] + g[r]
        BY <3>1 DEF Iterates
      <3>3. Cardinality(r) = n /\ r \in SUBSET S
        <4>1. Chosen(s) \in s /\ r \in SUBSET S
          BY <3>1, ChosenElement
        <4>2. IsFiniteSet(s) /\ Cardinality(s) = n + 1
          BY <1>1, <2>1
        <4>3. Cardinality(s \ {Chosen(s)}) = Cardinality(s) - 1
          BY <4>1, <4>2, FS_RemoveElement
        <4> QED
          BY <4>1, <4>2, <4>3
      <3> HIDE DEF r
      <3>4. h[r] = g[r]
        BY <3>3, <1>3
      <3> QED
        BY <3>2, <3>4
    <2> QED
      BY <2>1
  <1>4. \A n \in Nat : n \in W
    <2> HIDE DEF W
    <2> QED
      BY <1>2, <1>3, NatInd
  <1> QED
    BY <1>1, <1>4

\* The fold of the community modules is such a function.
LEMMA SumAdds ==
  ASSUME NEW S, IsFiniteSet(S), NEW f, \A x \in S : f[x] \in Int,
         NEW g, Adds(g, f, S)
  PROVE  SumFunctionOnSet(f, S) = g[S]
  <1> DEFINE Def(h) == [s \in SUBSET S |-> IF s = {} THEN 0
                                           ELSE f[Chosen(s)] + h[s \ {Chosen(s)}]]
             iter == CHOOSE h : h = Def(h)
  <1>1. SumFunctionOnSet(f, S) = iter[S]
    BY DEF SumFunctionOnSet, FoldFunctionOnSet, MapThenFoldSet, Chosen
  <1>2. Iterates(g, f, S)
    BY AddsIterates
  <1>3. g = Def(g)
    BY <1>2 DEF Adds, Iterates
  <1>4. iter = Def(iter)
    <2> HIDE DEF Def
    <2> QED
      BY <1>3, Zenon
  <1> HIDE DEF iter
  <1>5. Iterates(iter, f, S)
    BY <1>4 DEF Iterates
  <1> QED
    BY <1>1, <1>2, <1>5, IteratesUnique

\* A sum of integers is an integer, and a sum of natural numbers a natural
\* number.
LEMMA SumType ==
  ASSUME NEW S, IsFiniteSet(S), NEW f, \A x \in S : f[x] \in Int
  PROVE  /\ SumFunctionOnSet(f, S) \in Int
         /\ (\A x \in S : f[x] \in Nat) => SumFunctionOnSet(f, S) \in Nat
  <1>1. PICK g : Adds(g, f, S)
    BY AddsExists
  <1>2. SumFunctionOnSet(f, S) = g[S]
    BY <1>1, SumAdds
  <1>3. g[S] \in Int
    BY <1>1 DEF Adds
  <1>4. ASSUME \A x \in S : f[x] \in Nat PROVE g[S] \in Nat
    <2> DEFINE W == {T \in SUBSET S : g[T] \in Nat}
    <2>1. {} \in W
      BY <1>1 DEF Adds
    <2>2. ASSUME NEW T \in SUBSET S, NEW x \in S \ T, T \in W
          PROVE  T \cup {x} \in W
      BY <1>1, <1>4, <2>2 DEF Adds
    <2>3. S \in W
      <3> HIDE DEF W
      <3> QED
        BY <2>1, <2>2, SubsetInd
    <2> QED
      BY <2>3
  <1> QED
    BY <1>2, <1>3, <1>4

\* A sum without summands is 0.
LEMMA SumEmpty ==
  ASSUME NEW f PROVE SumFunctionOnSet(f, {}) = 0
  <1>1. IsFiniteSet({})
    BY FS_EmptySet
  <1>2. PICK g : Adds(g, f, {})
    BY <1>1, AddsExists
  <1> QED
    BY <1>1, <1>2, SumAdds DEF Adds

\* A sum depends on the summands only.
LEMMA SumSame ==
  ASSUME NEW S, IsFiniteSet(S), NEW f, \A x \in S : f[x] \in Int,
         NEW h, \A x \in S : h[x] = f[x]
  PROVE  SumFunctionOnSet(h, S) = SumFunctionOnSet(f, S)
  <1>1. PICK g : Adds(g, f, S)
    BY AddsExists
  <1>2. Adds(g, h, S)
    BY <1>1 DEF Adds
  <1> QED
    BY <1>1, <1>2, SumAdds

\* A sum of zeros.
LEMMA SumZero ==
  ASSUME NEW S, IsFiniteSet(S), NEW f, \A x \in S : f[x] = 0
  PROVE  SumFunctionOnSet(f, S) = 0
  <1> DEFINE g == [T \in SUBSET S |-> 0]
  <1>1. Adds(g, f, S)
    BY DEF Adds
  <1>2. g[S] = 0
    OBVIOUS
  <1> HIDE DEF g
  <1> QED
    BY <1>1, <1>2, SumAdds

\* An element more or less.
LEMMA SumElement ==
  ASSUME NEW S, IsFiniteSet(S), NEW f, NEW x \in S, \A y \in S : f[y] \in Int
  PROVE  SumFunctionOnSet(f, S) = SumFunctionOnSet(f, S \ {x}) + f[x]
  <1>1. PICK g : Adds(g, f, S)
    BY AddsExists
  <1> DEFINE R == S \ {x}
             r == [T \in SUBSET R |-> g[T]]
  <1>2. R \in SUBSET S /\ x \in S \ R /\ R \cup {x} = S /\ IsFiniteSet(R)
    BY FS_RemoveElement
  <1>3. Adds(r, f, R)
    <2>1. \A T \in SUBSET R :
            /\ T \in SUBSET S
            /\ \A y \in R \ T : y \in S \ T /\ T \cup {y} \in SUBSET R
      BY <1>2
    <2> HIDE DEF R
    <2>2. r \in [SUBSET R -> Int]
      BY <1>1, <2>1 DEF Adds
    <2>3. r[{}] = 0
      BY <1>1 DEF Adds
    <2>4. \A T \in SUBSET R : \A y \in R \ T : r[T \cup {y}] = r[T] + f[y]
      BY <1>1, <2>1 DEF Adds
    <2> HIDE DEF r
    <2> QED
      BY <2>2, <2>3, <2>4 DEF Adds
  <1>4. r[R] = g[R]
    OBVIOUS
  <1>5. \A y \in R : f[y] \in Int
    BY <1>2
  <1> HIDE DEF r, R
  <1>6. SumFunctionOnSet(f, R) = g[R]
    BY <1>2, <1>3, <1>4, <1>5, SumAdds
  <1>7. SumFunctionOnSet(f, S) = g[S]
    BY <1>1, SumAdds
  <1>8. g[S] = g[R] + f[x]
    BY <1>1, <1>2 DEF Adds
  <1> QED
    BY <1>6, <1>7, <1>8 DEF R

\* An element takes another value.
LEMMA SumUpdate ==
  ASSUME NEW S, IsFiniteSet(S), NEW f, NEW h, NEW x \in S,
         \A y \in S : f[y] \in Int /\ h[y] \in Int,
         \A y \in S \ {x} : h[y] = f[y]
  PROVE  SumFunctionOnSet(h, S) = SumFunctionOnSet(f, S) + h[x] - f[x]
  <1> DEFINE R == S \ {x}
  <1>1. IsFiniteSet(R)
    BY FS_RemoveElement
  <1>2. SumFunctionOnSet(f, S) = SumFunctionOnSet(f, R) + f[x]
    BY SumElement
  <1>3. SumFunctionOnSet(h, S) = SumFunctionOnSet(h, R) + h[x]
    BY SumElement
  <1>4. SumFunctionOnSet(h, R) = SumFunctionOnSet(f, R)
    BY <1>1, SumSame
  <1>5. SumFunctionOnSet(f, R) \in Int
    BY <1>1, SumType
  <1> HIDE DEF R
  <1> QED
    BY <1>2, <1>3, <1>4, <1>5

\* No summand exceeds a sum of natural numbers.
LEMMA SumBounds ==
  ASSUME NEW S, IsFiniteSet(S), NEW f, NEW x \in S, \A y \in S : f[y] \in Nat
  PROVE  f[x] <= SumFunctionOnSet(f, S)
  <1>1. SumFunctionOnSet(f, S) = SumFunctionOnSet(f, S \ {x}) + f[x]
    BY SumElement
  <1> DEFINE R == S \ {x}
  <1>2. IsFiniteSet(R) /\ \A y \in R : f[y] \in Nat /\ f[y] \in Int
    BY FS_RemoveElement
  <1> HIDE DEF R
  <1>3. SumFunctionOnSet(f, R) \in Nat
    BY <1>2, SumType
  <1> QED
    BY <1>1, <1>3 DEF R

\* A finite set of natural numbers that is not empty has a maximum.
LEMMA MaximumExists ==
  ASSUME NEW S \in SUBSET Nat, IsFiniteSet(S), S # {}
  PROVE  \E x \in S : \A y \in S : x >= y
  <1> DEFINE W == {T \in SUBSET S : T = {} \/ \E x \in T : \A y \in T : x >= y}
  <1>1. {} \in W
    OBVIOUS
  <1>2. ASSUME NEW T \in SUBSET S, NEW x \in S \ T, T \in W
        PROVE  T \cup {x} \in W
    <2>1. CASE T = {}
      BY <2>1
    <2>2. CASE T # {}
      <3>1. PICK z \in T : \A y \in T : z >= y
        BY <1>2, <2>2
      <3>2. CASE z >= x
        BY <3>1, <3>2
      <3>3. CASE x >= z
        BY <3>1, <3>3
      <3>4. x \in Nat /\ z \in Nat
        OBVIOUS
      <3> QED
        BY <3>2, <3>3, <3>4
    <2> QED
      BY <2>1, <2>2
  <1>3. S \in W
    <2> HIDE DEF W
    <2> QED
      BY <1>1, <1>2, SubsetInd
  <1> QED
    BY <1>3

-----------------------------------------------------------------------------
(* Powers of ten.                                                          *)

\* powerOfTen is the recursive function it is written as.
LEMMA PowerDef ==
  /\ powerOfTen[0] = 1
  /\ \A n \in Nat : powerOfTen[n + 1] = 10 * powerOfTen[n]
  <1> DEFINE Def(h) == [n \in Nat |-> IF n = 0 THEN 1 ELSE 10 * h[n - 1]]
             Upto(h, n) == /\ h \in [0 .. n -> Nat]
                           /\ h[0] = 1
                           /\ \A k \in 0 .. n - 1 : h[k + 1] = 10 * h[k]
             W == {n \in Nat : \E h \in [0 .. n -> Nat] : Upto(h, n)}
  <1>1. 0 \in W
    <2> DEFINE h == [k \in 0 .. 0 |-> 1]
    <2>1. h \in [0 .. 0 -> Nat] /\ Upto(h, 0)
      OBVIOUS
    <2> QED
      BY <2>1
  <1>2. ASSUME NEW n \in Nat, n \in W PROVE n + 1 \in W
    <2>1. PICK h \in [0 .. n -> Nat] : Upto(h, n)
      BY <1>2
    <2> DEFINE g == [k \in 0 .. n + 1 |-> IF k = n + 1 THEN 10 * h[n] ELSE h[k]]
    <2>2. g \in [0 .. n + 1 -> Nat] /\ Upto(g, n + 1)
      BY <2>1
    <2> HIDE DEF g, Upto
    <2> QED
      BY <2>2
  <1>3. \A n \in Nat : n \in W
    <2> HIDE DEF W
    <2> QED
      BY <1>1, <1>2, NatInd
  \* Two of them agree where both are defined.
  <1>4. ASSUME NEW m \in Nat, NEW n \in Nat, m <= n, NEW g, NEW h, Upto(g, m), Upto(h, n)
        PROVE  \A k \in 0 .. m : g[k] = h[k]
    <2> DEFINE V == {k \in Nat : k <= m => g[k] = h[k]}
    <2>1. 0 \in V
      BY <1>4
    <2>2. ASSUME NEW k \in Nat, k \in V PROVE k + 1 \in V
      BY <2>2, <1>4
    <2>3. \A k \in Nat : k \in V
      <3> HIDE DEF V
      <3> QED
        BY <2>1, <2>2, NatInd
    <2> QED
      BY <2>3
  <1> DEFINE pick == [n \in Nat |-> CHOOSE h : Upto(h, n)]
             p == [n \in Nat |-> pick[n][n]]
  <1>5. \A n \in Nat : Upto(pick[n], n)
    <2> SUFFICES ASSUME NEW n \in Nat PROVE Upto(pick[n], n)
      OBVIOUS
    <2>1. \E h : Upto(h, n)
      BY <1>3
    <2>2. pick[n] = CHOOSE h : Upto(h, n)
      OBVIOUS
    <2> HIDE DEF Upto, pick
    <2> QED
      BY <2>1, <2>2, Zenon
  <1> HIDE DEF pick
  <1>6. p[0] = 1
    <2>1. Upto(pick[0], 0)
      BY <1>5
    <2> QED
      BY <2>1
  <1>7. ASSUME NEW n \in Nat PROVE p[n + 1] = 10 * p[n]
    <2>1. Upto(pick[n], n) /\ Upto(pick[n + 1], n + 1)
      BY <1>5
    <2>2. \A k \in 0 .. n : pick[n][k] = pick[n + 1][k]
      <3> HIDE DEF Upto
      <3> QED
        BY <2>1, <1>4
    <2>3. pick[n + 1][n + 1] = 10 * pick[n + 1][n]
      BY <2>1
    <2>4. pick[n + 1][n] = pick[n][n]
      BY <2>2
    <2> QED
      BY <2>3, <2>4
  <1>8. p = Def(p)
    <2>1. ASSUME NEW n \in Nat PROVE p[n] = IF n = 0 THEN 1 ELSE 10 * p[n - 1]
      <3>1. CASE n = 0
        BY <3>1, <1>6
      <3>2. CASE n # 0
        <4>1. n - 1 \in Nat /\ (n - 1) + 1 = n
          BY <3>2
        <4> HIDE DEF p
        <4> QED
          BY <3>2, <4>1, <1>7
      <3> QED
        BY <3>1, <3>2
    <2> QED
      BY <2>1
  <1>9. powerOfTen = CHOOSE h : h = Def(h)
    BY DEF powerOfTen
  <1>10. powerOfTen = Def(powerOfTen)
    <2> HIDE DEF Def
    <2> QED
      BY <1>8, <1>9, Zenon
  <1> QED
    BY <1>10

\* Powers of ten are positive.
LEMMA PowerNat == \A n \in Nat : powerOfTen[n] \in Nat \ {0}
  <1> DEFINE W == {n \in Nat : powerOfTen[n] \in Nat \ {0}}
  <1>1. 0 \in W
    BY PowerDef
  <1>2. \A n \in Nat : n \in W => n + 1 \in W
    BY PowerDef
  <1> HIDE DEF W
  <1>3. \A n \in Nat : n \in W
    BY <1>1, <1>2, NatInd
  <1> QED
    BY <1>3 DEF W

\* Arithmetic the solver does not find on its own.
LEMMA Assoc == \A a, b, c \in Int : (a * b) * c = a * (b * c)
  OBVIOUS

\* Products distribute over sums and differences.
LEMMA Distrib == \A a, b, c \in Int : (a + b) * c = a * c + b * c /\ (a - b) * c = a * c - b * c
  OBVIOUS

\* 10 ** (a + b) = 10 ** a * 10 ** b.
LEMMA PowerSum ==
  \A m, n \in Nat : powerOfTen[m + n] = powerOfTen[m] * powerOfTen[n]
  <1> SUFFICES ASSUME NEW m \in Nat
               PROVE  \A n \in Nat : powerOfTen[m + n] = powerOfTen[m] * powerOfTen[n]
    OBVIOUS
  <1> DEFINE W == {n \in Nat : powerOfTen[m + n] = powerOfTen[m] * powerOfTen[n]}
  <1>1. 0 \in W
    BY PowerDef, PowerNat
  <1>2. ASSUME NEW n \in Nat, n \in W PROVE n + 1 \in W
    <2>1. powerOfTen[m + n] = powerOfTen[m] * powerOfTen[n]
      BY <1>2
    <2>2. powerOfTen[m + (n + 1)] = 10 * powerOfTen[m + n]
      <3>1. m + (n + 1) = (m + n) + 1 /\ m + n \in Nat
        OBVIOUS
      <3> QED
        BY <3>1, PowerDef
    <2>3. powerOfTen[n + 1] = 10 * powerOfTen[n]
      BY PowerDef
    <2>4. powerOfTen[m] \in Int /\ powerOfTen[n] \in Int
      BY PowerNat
    <2>5. \A a, b \in Int : 10 * (a * b) = a * (10 * b)
      OBVIOUS
    <2>6. powerOfTen[m + (n + 1)] = powerOfTen[m] * powerOfTen[n + 1]
      BY <2>1, <2>2, <2>3, <2>4, <2>5
    <2> QED
      BY <2>6
  <1> HIDE DEF W
  <1>3. \A n \in Nat : n \in W
    BY <1>1, <1>2, NatInd
  <1> QED
    BY <1>3 DEF W

\* Dividing a multiple is exact.
LEMMA DivCancel ==
  ASSUME NEW a \in Nat, NEW k \in Nat \ {0}
  PROVE  (a * k) \div k = a
  OBVIOUS

\* Division by a positive number stays in the natural numbers.
LEMMA DivType ==
  ASSUME NEW a \in Nat, NEW k \in Nat \ {0}
  PROVE  a \div k \in Nat
  OBVIOUS

-----------------------------------------------------------------------------
(* Scaling.                                                                *)

\* scale returns a natural number.
LEMMA ScaleNat ==
  ASSUME NEW x \in Nat, NEW d \in Nat, NEW t \in Nat
  PROVE  scale(x, d, t) \in Nat
  <1>1. CASE d > t
    <2>1. d - t \in Nat
      BY <1>1
    <2>2. powerOfTen[d - t] \in Nat \ {0}
      BY <2>1, PowerNat
    <2> QED
      BY <1>1, <2>2, DivType DEF scale
  <1>2. CASE ~(d > t)
    <2>1. t - d \in Nat
      BY <1>2
    <2>2. powerOfTen[t - d] \in Nat
      BY <2>1, PowerNat
    <2> QED
      BY <1>2, <2>2 DEF scale
  <1> QED
    BY <1>1, <1>2

\* Towards more decimals scale multiplies.
LEMMA ScaleUp ==
  ASSUME NEW x \in Nat, NEW d \in Nat, NEW t \in Nat, d <= t
  PROVE  scale(x, d, t) = x * powerOfTen[t - d]
  <1>1. ~(d > t)
    OBVIOUS
  <1> QED
    BY <1>1 DEF scale

\* The power of a difference is positive.
LEMMA PowerDiff ==
  ASSUME NEW d \in Nat, NEW t \in Nat, d <= t
  PROVE  powerOfTen[t - d] \in Nat \ {0}
  <1>1. t - d \in Nat
    OBVIOUS
  <1> QED
    BY <1>1, PowerNat

\* Scaling up in two steps is scaling up in one.
LEMMA ScaleTwice ==
  ASSUME NEW x \in Nat, NEW d \in Nat, NEW t \in Nat, NEW u \in Nat, d <= t, t <= u
  PROVE  scale(scale(x, d, t), t, u) = scale(x, d, u)
  <1> DEFINE a == powerOfTen[t - d]
             b == powerOfTen[u - t]
  <1>1. t - d \in Nat /\ u - t \in Nat /\ (t - d) + (u - t) = u - d /\ d <= u
    OBVIOUS
  <1>2. powerOfTen[u - d] = a * b
    BY <1>1, PowerSum
  <1>3. scale(x, d, t) = x * a /\ scale(x, d, t) \in Nat
    BY ScaleUp, ScaleNat, Zenon
  <1>4. scale(scale(x, d, t), t, u) = scale(x, d, t) * b
    BY <1>3, ScaleUp, Zenon
  <1>5. scale(x, d, u) = x * powerOfTen[u - d]
    BY <1>1, ScaleUp, Zenon
  <1>6. a \in Nat \ {0} /\ b \in Nat \ {0}
    BY PowerDiff, Zenon
  <1> HIDE DEF a, b
  <1>7. (x * a) * b = x * (a * b)
    BY <1>6, Assoc
  <1> QED
    BY <1>2, <1>3, <1>4, <1>5, <1>7

\* To scale up a sum is to scale up its terms.
LEMMA ScalePlus ==
  ASSUME NEW x \in Nat, NEW y \in Nat, NEW d \in Nat, NEW t \in Nat, d <= t
  PROVE  scale(x + y, d, t) = scale(x, d, t) + scale(y, d, t)
  <1> DEFINE p == powerOfTen[t - d]
  <1>1. p \in Nat \ {0}
    BY PowerDiff, Zenon
  <1>2. x + y \in Nat
    OBVIOUS
  <1>3. scale(x, d, t) = x * p /\ scale(y, d, t) = y * p /\ scale(x + y, d, t) = (x + y) * p
    BY <1>2, ScaleUp, Zenon
  <1> HIDE DEF p
  <1>4. (x + y) * p = x * p + y * p
    BY <1>1, Distrib
  <1> QED
    BY <1>3, <1>4

\* What was scaled up is scaled back without a rest.
LEMMA ScaleBack ==
  ASSUME NEW x \in Nat, NEW d \in Nat, NEW t \in Nat, NEW u \in Nat, d <= t, t <= u
  PROVE  scale(scale(x, d, u), u, t) = scale(x, d, t)
  <1> DEFINE y == scale(x, d, t)
             b == powerOfTen[u - t]
  <1>1. y \in Nat
    BY ScaleNat
  <1>2. scale(x, d, u) = scale(y, t, u)
    BY ScaleTwice
  <1>3. scale(y, t, u) = y * b /\ b \in Nat \ {0}
    BY <1>1, ScaleUp, PowerDiff, Zenon
  <1>4. (y * b) \div b = y
    BY <1>1, <1>3, DivCancel
  <1> HIDE DEF y
  <1>5. CASE u > t
    <2>1. scale(scale(x, d, u), u, t) = scale(x, d, u) \div b
      BY <1>5 DEF scale
    <2> HIDE DEF b
    <2> QED
      BY <2>1, <1>2, <1>3, <1>4 DEF y
  <1>6. CASE u = t
    <2>1. scale(scale(y, t, u), u, t) = scale(y, t, t)
      BY <1>1, <1>6, ScaleTwice
    <2>2. scale(y, t, t) = y
      <3>1. scale(y, t, t) = y * powerOfTen[t - t]
        BY <1>1, ScaleUp
      <3>2. powerOfTen[t - t] = 1
        BY PowerDef
      <3> QED
        BY <1>1, <3>1, <3>2
    <2> QED
      BY <2>1, <2>2, <1>2 DEF y
  <1> QED
    BY <1>5, <1>6

\* Scaling up keeps the order.
LEMMA ScaleOrder ==
  ASSUME NEW x \in Nat, NEW y \in Nat, NEW d \in Nat, NEW t \in Nat, d <= t,
         scale(x, d, t) <= scale(y, d, t)
  PROVE  x <= y
  <1> DEFINE k == powerOfTen[t - d]
  <1>1. k \in Nat \ {0}
    BY PowerDiff
  <1>2. x * k <= y * k
    BY ScaleUp
  <1> HIDE DEF k
  <1> SUFFICES ASSUME y < x PROVE FALSE
    OBVIOUS
  <1>3. (x - y) * k = x * k - y * k /\ (x - y) * k \in Int
    BY <1>1, Distrib
  <1>4. (x - y) * k > 0
    BY <1>1
  <1>5. x * k \in Int /\ y * k \in Int
    BY <1>1
  <1> QED
    BY <1>2, <1>3, <1>4, <1>5

=============================================================================
