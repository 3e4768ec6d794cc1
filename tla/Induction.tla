------------------------------ MODULE Induction -------------------------------
(***************************************************************************)
(* Induction over the natural numbers, stated with sets in the place of    *)
(* predicates, and the facts about least members, greatest members and     *)
(* sums that follow from it.                                               *)
(***************************************************************************)
EXTENDS Integers, Sequences, FiniteSets, Functions, FiniteSetTheorems,
        WellFoundedInduction, TLAPS

-----------------------------------------------------------------------------
(* Least and greatest numbers.                                             *)

Below == {pair \in Nat \X Nat : pair[1] < pair[2]}

\* There is no infinite descent among the natural numbers.
LEMMA BelowIsWellFounded == IsWellFoundedOn(Below, Nat)
BY NatLessThanWellFounded DEF OpToRel, Below

\* A set of natural numbers that has a member has a least one.
LEMMA LeastNumber ==
    ASSUME NEW S \in SUBSET Nat, S # {}
    PROVE  \E x \in S : \A y \in S : x <= y
<1>1. \E x \in S : \A y \in S : ~ (<<y, x>> \in Below)
  <2>1. S \subseteq Nat
      OBVIOUS
  <2>. QED
      BY <2>1, BelowIsWellFounded, WFMin, Zenon
<1>2. PICK x \in S : \A y \in S : <<y, x>> \notin Below
    BY <1>1
<1>3. ASSUME NEW y \in S
      PROVE  x <= y
  <2>. DEFINE pair == <<y, x>>
  <2>1. pair \in Nat \X Nat /\ pair[1] = y /\ pair[2] = x
      OBVIOUS
  <2>2. pair \notin Below
      BY <1>2
  <2>. HIDE DEF pair
  <2>3. ~ (pair[1] < pair[2])
      BY <2>1, <2>2 DEF Below
  <2>. QED
      BY <2>1, <2>3
<1>. QED
    BY <1>3

\* Induction: a set with 0 and with the successor of each of its members.
LEMMA Induct ==
    ASSUME NEW S, 0 \in S, \A n \in Nat : n \in S => n + 1 \in S
    PROVE  \A n \in Nat : n \in S
<1>. SUFFICES ASSUME NEW m \in Nat, m \notin S
              PROVE  FALSE
    OBVIOUS
<1>. DEFINE missing == Nat \ S
<1>1. PICK x \in missing : \A y \in missing : x <= y
    BY LeastNumber
<1>2. x \in Nat /\ x # 0
    BY <1>1
<1>3. x - 1 \in Nat /\ x - 1 \notin missing
    BY <1>1, <1>2
<1>4. (x - 1) + 1 \in S
    BY <1>3
<1>. QED
    BY <1>1, <1>2, <1>4

\* Induction on the size of finite sets.
LEMMA InductOnSets ==
    ASSUME NEW S, NEW Good, {} \in Good,
           \A T \in SUBSET S :
              IsFiniteSet(T) /\ T # {} /\ (\A x \in T : T \ {x} \in Good) => T \in Good
    PROVE  \A T \in SUBSET S : IsFiniteSet(T) => T \in Good
<1>. DEFINE sizes == {n \in Nat : \A T \in SUBSET S :
                        IsFiniteSet(T) /\ Cardinality(T) = n => T \in Good}
<1>1. 0 \in sizes
    BY FS_EmptySet
<1>2. ASSUME NEW n \in Nat, n \in sizes
      PROVE  n + 1 \in sizes
  <2>. SUFFICES ASSUME NEW T \in SUBSET S, IsFiniteSet(T), Cardinality(T) = n + 1
                PROVE  T \in Good
      OBVIOUS
  <2>1. T # {}
      BY FS_EmptySet
  <2>2. \A x \in T : IsFiniteSet(T \ {x}) /\ Cardinality(T \ {x}) = n
    <3>1. \A x \in T : Cardinality(T \ {x}) = Cardinality(T) - 1 /\ IsFiniteSet(T \ {x})
        BY FS_RemoveElement
    <3>. QED
        BY <3>1
  <2>. QED
      BY <1>2, <2>1, <2>2
<1>3. \A n \in Nat : n \in sizes
  <2>. HIDE DEF sizes
  <2>. QED
      BY <1>1, <1>2, Induct
<1>. QED
    BY <1>3, FS_CardinalityType
-----------------------------------------------------------------------------
(* Recursive functions.                                                    *)

\* f starts with x and goes on by the steps.
Iterates(f, first, last, x, step) ==
    f = [n \in first..last |-> IF n = first THEN x ELSE step[n][f[n - 1]]]

\* The recursive definition of a function on an interval has a solution in S.
LEMMA IterationExists ==
    ASSUME NEW first \in Nat, NEW last \in Nat, first <= last, NEW S, NEW x \in S,
           NEW step \in [first..last -> [S -> S]]
    PROVE  \E f \in [first..last -> S] : Iterates(f, first, last, x, step)
<1>. DEFINE Solves(f, m) == f \in [first..m -> S] /\ Iterates(f, first, m, x, step)
            solved == {k \in Nat : first + k <= last => \E f : Solves(f, first + k)}
<1>1. 0 \in solved
  <2>. DEFINE f == [n \in first..(first + 0) |-> x]
  <2>1. f \in [first..(first + 0) -> S]
      OBVIOUS
  <2>2. Iterates(f, first, first + 0, x, step)
    <3>1. \A n \in first..(first + 0) : n = first
        OBVIOUS
    <3>. QED
        BY <3>1 DEF Iterates
  <2>. QED
      BY <2>1, <2>2
<1>2. ASSUME NEW k \in Nat, k \in solved
      PROVE  k + 1 \in solved
  <2>. DEFINE m == first + k
  <2>. SUFFICES ASSUME m + 1 <= last
                PROVE  \E f : Solves(f, m + 1)
      OBVIOUS
  <2>0. m \in Nat /\ first <= m /\ m <= last
      OBVIOUS
  <2>1. PICK f : Solves(f, m)
      BY <1>2, <2>0
  <2>. HIDE DEF m
  <2>. DEFINE Item(n, before) == IF n = first THEN x ELSE step[n][before]
              more == [n \in first..(m + 1) |-> Item(n, f[n - 1])]
  <2>2. \A n \in first..(m + 1) : n # first => n - 1 \in first..m /\ n \in first..last
      BY <2>0
  <2>3. \A n \in first..(m + 1) : Item(n, f[n - 1]) \in S
      BY <2>1, <2>2
  <2>4. \A n \in first..m : more[n] = f[n]
    <3>1. \A n \in first..m : f[n] = Item(n, f[n - 1]) /\ n \in first..(m + 1)
        BY <2>0, <2>1 DEF Iterates
    <3>. HIDE DEF Item
    <3>. QED
        BY <3>1
  <2>5. \A n \in first..(m + 1) : Item(n, more[n - 1]) = Item(n, f[n - 1])
    <3>. HIDE DEF more
    <3>. QED
        BY <2>2, <2>4
  <2>6. more \in [first..(m + 1) -> S]
    <3>. HIDE DEF Item
    <3>. QED
        BY <2>3
  <2>7. more = [n \in first..(m + 1) |-> Item(n, more[n - 1])]
    <3>. HIDE DEF Item
    <3>. QED
        BY <2>5
  <2>. HIDE DEF more
  <2>8. Solves(more, m + 1)
      BY <2>6, <2>7 DEF Iterates
  <2>. HIDE DEF Solves
  <2>. QED
      BY <2>8
<1>3. last - first \in solved
  <2>1. \A k \in Nat : k \in solved
    <3>. HIDE DEF solved
    <3>. QED
        BY <1>1, <1>2, Induct
  <2>. HIDE DEF solved
  <2>. QED
      BY <2>1
<1>. QED
    BY <1>3

-----------------------------------------------------------------------------
(* Sums.                                                                   *)

\* What the fold of the community modules makes of fun on the subsets of D.
PickFrom(S) == CHOOSE x \in S : TRUE

AddsUp(fun, D, sum) ==
    sum = [S \in SUBSET D |->
              IF S = {} THEN 0 ELSE fun[PickFrom(S)] + sum[S \ {PickFrom(S)}]]

LEMMA PickIsMember ==
    ASSUME NEW S, S # {}
    PROVE  PickFrom(S) \in S
BY DEF PickFrom

AddsOne(fun, D, sum) ==
    \A S \in SUBSET D : S # {} => sum[S] = fun[PickFrom(S)] + sum[S \ {PickFrom(S)}]

LEMMA AddsOneByOne ==
    ASSUME NEW D, NEW fun, NEW sum, AddsUp(fun, D, sum)
    PROVE  AddsOne(fun, D, sum)
<1>. DEFINE Total(T) == IF T = {} THEN 0 ELSE fun[PickFrom(T)] + sum[T \ {PickFrom(T)}]
<1>1. sum = [T \in SUBSET D |-> Total(T)]
    BY DEF AddsUp
<1>2. \A S \in SUBSET D : sum[S] = Total(S)
  <2>. HIDE DEF Total
  <2>. QED
      BY <1>1
<1>. QED
    BY <1>2 DEF AddsOne

LEMMA AddsNone ==
    ASSUME NEW D, NEW fun, NEW sum, AddsUp(fun, D, sum)
    PROVE  sum[{}] = 0
<1>. DEFINE Total(T) == IF T = {} THEN 0 ELSE fun[PickFrom(T)] + sum[T \ {PickFrom(T)}]
<1>1. sum = [T \in SUBSET D |-> Total(T)]
    BY DEF AddsUp
<1>2. sum[{}] = Total({})
  <2>. HIDE DEF Total
  <2>. QED
      BY <1>1
<1>. QED
    BY <1>2

\* The recursive definition of a sum has a solution.
LEMMA SumExists ==
    ASSUME NEW D, IsFiniteSet(D), NEW fun
    PROVE  \E sum : AddsUp(fun, D, sum)
<1>. DEFINE Sized(n) == {S \in SUBSET D : Cardinality(S) <= n}
            Solves(sum, n) ==
                sum = [S \in Sized(n) |->
                          IF S = {} THEN 0 ELSE fun[PickFrom(S)] + sum[S \ {PickFrom(S)}]]
            solved == {n \in Nat : \E sum : Solves(sum, n)}
<1>1. \A S \in SUBSET D : IsFiniteSet(S) /\ Cardinality(S) \in Nat /\ Cardinality(S) <= Cardinality(D)
    BY FS_Subset, FS_CardinalityType
<1>2. \A S \in SUBSET D : S # {} =>
          /\ PickFrom(S) \in S
          /\ S \ {PickFrom(S)} \in SUBSET D
          /\ Cardinality(S \ {PickFrom(S)}) = Cardinality(S) - 1
  <2>. SUFFICES ASSUME NEW S \in SUBSET D, S # {}
                PROVE  /\ PickFrom(S) \in S
                       /\ Cardinality(S \ {PickFrom(S)}) = Cardinality(S) - 1
      OBVIOUS
  <2>1. PickFrom(S) \in S
      BY DEF PickFrom
  <2>. QED
      BY <1>1, <2>1, FS_RemoveElement
<1>3. 0 \in solved
  <2>1. Solves([S \in Sized(0) |-> 0], 0)
    <3>1. \A S \in Sized(0) : S = {}
        BY <1>1, FS_EmptySet
    <3>. QED
        BY <3>1
  <2>. HIDE DEF Solves
  <2>. QED
      BY <2>1
<1>4. ASSUME NEW n \in Nat, n \in solved
      PROVE  n + 1 \in solved
  <2>1. PICK sum : Solves(sum, n)
      BY <1>4
  <2>. DEFINE more == [S \in Sized(n + 1) |->
                          IF S = {} THEN 0 ELSE fun[PickFrom(S)] + sum[S \ {PickFrom(S)}]]
  <2>2. \A S \in Sized(n) : S \in Sized(n + 1) /\ more[S] = sum[S]
    <3>1. \A S \in Sized(n) : S \in Sized(n + 1)
        BY <1>1
    <3>. HIDE DEF Sized
    <3>. QED
        BY <2>1, <3>1
  <2>3. \A S \in Sized(n + 1) : S # {} => S \ {PickFrom(S)} \in Sized(n)
      BY <1>1, <1>2
  <2>4. \A S \in Sized(n + 1) :
            S # {} => more[S \ {PickFrom(S)}] = sum[S \ {PickFrom(S)}]
    <3>. HIDE DEF more, Sized
    <3>. QED
        BY <2>2, <2>3
  <2>5. Solves(more, n + 1)
    <3>. HIDE DEF Sized
    <3>. QED
        BY <2>4
  <2>. HIDE DEF Solves
  <2>. QED
      BY <2>5
<1>5. Cardinality(D) \in solved
  <2>1. \A n \in Nat : n \in solved
    <3>. HIDE DEF solved
    <3>. QED
        BY <1>3, <1>4, Induct
  <2>. QED
      BY <1>1, <2>1
<1>6. Sized(Cardinality(D)) = SUBSET D
    BY <1>1
<1>. QED
    BY <1>5, <1>6 DEF AddsUp

LEMMA SumFunctionAddsUp ==
    ASSUME NEW fun, IsFiniteSet(DOMAIN fun)
    PROVE  \E sum : AddsUp(fun, DOMAIN fun, sum) /\ SumFunction(fun) = sum[DOMAIN fun]
<1>. DEFINE D == DOMAIN fun
            sum == CHOOSE s : AddsUp(fun, D, s)
<1>1. AddsUp(fun, D, sum)
    BY SumExists
<1>2. SumFunction(fun) = sum[D]
    BY DEF SumFunction, SumFunctionOnSet, FoldFunctionOnSet, MapThenFoldSet, AddsUp, PickFrom
<1>. QED
    BY <1>1, <1>2

\* A sum of integers is an integer, and of natural numbers a natural number.
LEMMA SumIsTyped ==
    ASSUME NEW D, IsFiniteSet(D), NEW fun, NEW Numbers \in {Nat, Int},
           \A x \in D : fun[x] \in Numbers, NEW sum, AddsUp(fun, D, sum)
    PROVE  \A S \in SUBSET D : sum[S] \in Numbers
<1>. DEFINE Good == {S \in SUBSET D : sum[S] \in Numbers}
<1>1. {} \in Good
    BY AddsNone
<1>2. ASSUME NEW S \in SUBSET D, S # {}, \A y \in S : S \ {y} \in Good
      PROVE  S \in Good
  <2>. DEFINE y == PickFrom(S)
  <2>1. y \in S
      BY <1>2, PickIsMember
  <2>2. sum[S] = fun[y] + sum[S \ {y}]
    <3>1. AddsOne(fun, D, sum)
        BY AddsOneByOne
    <3>. QED
        BY <1>2, <3>1 DEF AddsOne
  <2>3. sum[S \ {y}] \in Numbers /\ fun[y] \in Numbers
      BY <1>2, <2>1
  <2>. HIDE DEF y
  <2>. QED
      BY <2>2, <2>3
<1>3. \A S \in SUBSET D : IsFiniteSet(S) => S \in Good
  <2>. HIDE DEF Good
  <2>. QED
      BY <1>1, <1>2, InductOnSets
<1>. QED
    BY <1>3, FS_Subset

\* The order of addition does not matter.
AnyOrder(fun, D, sum) == \A S \in SUBSET D : \A x \in S : sum[S] = fun[x] + sum[S \ {x}]

LEMMA SumWithout ==
    ASSUME NEW D, IsFiniteSet(D), NEW fun, \A x \in D : fun[x] \in Int,
           NEW sum, AddsUp(fun, D, sum)
    PROVE  AnyOrder(fun, D, sum)
<1>. DEFINE Good == {S \in SUBSET D : \A x \in S : sum[S] = fun[x] + sum[S \ {x}]}
<1>1. \A S \in SUBSET D : sum[S] \in Int
    BY SumIsTyped
<1>2. {} \in Good
    OBVIOUS
<1>3. ASSUME NEW S \in SUBSET D, S # {}, \A y \in S : S \ {y} \in Good
      PROVE  S \in Good
  <2>. DEFINE y == PickFrom(S)
  <2>1. y \in S
      BY <1>3, PickIsMember
  <2>2. sum[S] = fun[y] + sum[S \ {y}]
    <3>1. AddsOne(fun, D, sum)
        BY AddsOneByOne
    <3>. QED
        BY <1>3, <3>1 DEF AddsOne
  <2>3. ASSUME NEW x \in S, x # y
        PROVE  sum[S] = fun[x] + sum[S \ {x}]
    <3>1. sum[S \ {y}] = fun[x] + sum[(S \ {y}) \ {x}]
        BY <1>3, <2>1, <2>3
    <3>2. sum[S \ {x}] = fun[y] + sum[(S \ {x}) \ {y}]
        BY <1>3, <2>1, <2>3
    <3>3. (S \ {y}) \ {x} = (S \ {x}) \ {y}
        OBVIOUS
    <3>. DEFINE rest == sum[(S \ {x}) \ {y}]
    <3>4. fun[x] \in Int /\ fun[y] \in Int /\ rest \in Int
        BY <1>1, <2>1
    <3>5. sum[S] = fun[y] + (fun[x] + rest) /\ sum[S \ {x}] = fun[y] + rest
        BY <2>2, <3>1, <3>2, <3>3
    <3>. HIDE DEF y, rest
    <3>. QED
        BY <3>4, <3>5
  <2>. QED
      BY <2>2, <2>3
<1>4. \A S \in SUBSET D : IsFiniteSet(S) => S \in Good
  <2>. HIDE DEF Good
  <2>. QED
      BY <1>2, <1>3, InductOnSets
<1>. QED
    BY <1>4, FS_Subset DEF AnyOrder

\* The sum of a sequence adds its elements one after the other.
LEMMA SumOfSequence ==
    ASSUME NEW n \in Nat, NEW fun \in [1..n -> Int]
    PROVE  \E upto \in [0..n -> Int] :
              /\ upto[0] = 0
              /\ \A k \in 0..(n - 1) : upto[k + 1] = upto[k] + fun[k + 1]
              /\ SumFunction(fun) = upto[n]
<1>1. IsFiniteSet(1..n) /\ DOMAIN fun = 1..n
    BY FS_Interval
<1>2. PICK sum : AddsUp(fun, 1..n, sum) /\ SumFunction(fun) = sum[1..n]
    BY <1>1, SumFunctionAddsUp
<1>3. \A S \in SUBSET (1..n) : sum[S] \in Int
    BY <1>1, <1>2, SumIsTyped
<1>4. AnyOrder(fun, 1..n, sum)
  <2>. DEFINE D == 1..n
  <2>1. IsFiniteSet(D) /\ (\A x \in D : fun[x] \in Int) /\ AddsUp(fun, D, sum)
      BY <1>1, <1>2
  <2>. HIDE DEF D
  <2>2. AnyOrder(fun, D, sum)
      BY <2>1, SumWithout
  <2>. QED
      BY <2>2 DEF D
<1>. DEFINE upto == [k \in 0..n |-> sum[1..k]]
<1>5. upto \in [0..n -> Int]
  <2>1. \A k \in 0..n : 1..k \in SUBSET (1..n)
      OBVIOUS
  <2>. QED
      BY <1>3, <2>1
<1>6. upto[0] = 0
  <2>1. 1..0 = {}
      OBVIOUS
  <2>2. sum[{}] = 0
      BY <1>2, AddsNone
  <2>. QED
      BY <2>1, <2>2
<1>7. ASSUME NEW k \in 0..(n - 1)
      PROVE  upto[k + 1] = upto[k] + fun[k + 1]
  <2>. DEFINE m == k + 1
  <2>1. 1..m \in SUBSET (1..n) /\ m \in 1..m /\ (1..m) \ {m} = 1..k
      OBVIOUS
  <2>2. sum[1..m] = fun[m] + sum[1..k]
      BY <1>4, <2>1 DEF AnyOrder
  <2>3. 1..k \in SUBSET (1..n) /\ m \in 1..n /\ m \in 0..n /\ k \in 0..n
      OBVIOUS
  <2>. HIDE DEF m
  <2>4. upto[m] = upto[k] + fun[m]
      BY <1>3, <2>2, <2>3
  <2>. QED
      BY <2>4 DEF m
<1>8. SumFunction(fun) = upto[n]
    BY <1>2
<1>. HIDE DEF upto
<1>. QED
    BY <1>5, <1>6, <1>7, <1>8
=============================================================================
