----------------------- MODULE TradeLifecycle_proofs -----------------------
(***************************************************************************)
(* What holds of the trade and its orders for every number of orders, as   *)
(* long as fetch_order finds every live order.  The first three parts also *)
(* assume that the strategy does not replace orders at a new price.        *)
(*                                                                         *)
(* First, no order is forgotten: an order that is live on the exchange has *)
(* an open row.  The inductive invariant Inv says that no row is ahead of  *)
(* the exchange, neither in the session nor in the database.               *)
(*                                                                         *)
(* Second, the books: the invariant Whole says what the rows know of the   *)
(* fills.  Hence no handler leaves an empty trade behind, and, if the      *)
(* exchange finds every order, no trade that bought something is deleted   *)
(* and no fill is forgotten.                                               *)
(*                                                                         *)
(* Third, the balance: the invariant Balanced says that the rows add up to *)
(* the amount of the trade, and that what can be sold was bought.  Hence,  *)
(* as long as no order is lost, an open trade says what is held, and a     *)
(* closed one holds nothing.                                               *)
(*                                                                         *)
(* Fourth, replaced orders: the invariant OneBuys says which locals of the *)
(* handlers go with which rows, when a failed replacement may delete the   *)
(* trade of a live order.  Hence, as long as no order is lost, one order   *)
(* buys at a time.                                                         *)
(***************************************************************************)
EXTENDS TradeLifecycle, FiniteSetTheorems, WellFoundedInduction, TLAPS
-----------------------------------------------------------------------------
(* Sums over finite sets.  SumFunctionOnSet is the sum, whatever the order in *)
(* which it takes the elements: the module Folds computes it with a recursive *)
(* function; its existence, and each fact about it, is shown by a smallest    *)
(* counterexample.                                                            *)

Less == {ss \in Nat \X Nat : ss[1] < ss[2]}

LEMMA LessWellFounded == IsWellFoundedOn(Less, Nat)
  BY NatLessThanWellFounded, Zenon DEF OpToRel, Less

LEMMA LeastExists ==
  ASSUME NEW S \in SUBSET Nat, S # {}
  PROVE  \E x \in S : \A y \in S : x <= y
<1>1. PICK x \in S : \A y \in S : ~(<<y, x>> \in Less)
  BY LessWellFounded, WFMin
<1>2. ASSUME NEW y \in S
      PROVE  x <= y
  <2>1. ~(<<y, x>> \in Less) /\ x \in Nat /\ y \in Nat
    BY <1>1, <1>2
  <2>2. ASSUME NEW a \in Nat, NEW b \in Nat, ~(<<a, b>> \in Less)
        PROVE  b <= a
    BY <2>2 DEF Less
  <2> QED BY <2>1, <2>2
<1> QED BY <1>2

\* What holds of the empty set, and of a set with one element more, holds of every
\* finite set.
LEMMA SetInduction ==
  ASSUME NEW U, IsFiniteSet(U), NEW P, {} \in P,
         \A s \in SUBSET U : \A x \in U \ s : s \in P => s \cup {x} \in P
  PROVE  U \in P
<1> DEFINE Bad == {n \in Nat : \E s \in SUBSET U : Cardinality(s) = n /\ s \notin P}
<1>1. \A s \in SUBSET U : IsFiniteSet(s) /\ Cardinality(s) \in Nat
  BY FS_Subset, FS_CardinalityType
<1>2. CASE Bad = {}
  BY <1>1, <1>2
<1>3. CASE Bad # {}
  <2>1. PICK n \in Bad : \A m \in Bad : n <= m
    BY <1>3, LeastExists
  <2>2. PICK s \in SUBSET U : Cardinality(s) = n /\ s \notin P
    BY <2>1
  <2>3. PICK x \in s : TRUE
    BY <2>2
  <2>4. Cardinality(s \ {x}) = n - 1 /\ n - 1 \in Nat /\ n \in Nat
    <3>1. IsFiniteSet(s) /\ s \ {x} \in SUBSET U
      BY <1>1
    <3>2. Cardinality(s \ {x}) = Cardinality(s) - 1
      BY <2>3, <3>1, FS_RemoveElement
    <3>3. Cardinality(s \ {x}) \in Nat /\ n \in Nat
      BY <1>1, <2>1, <3>1
    <3> QED BY <2>2, <3>2, <3>3
  <2>5. n - 1 \notin Bad
    BY <2>1, <2>4
  <2>6. s \ {x} \in P
    BY <2>4, <2>5
  <2>7. s = (s \ {x}) \cup {x} /\ x \in U \ (s \ {x}) /\ s \ {x} \in SUBSET U
    BY <2>3
  <2>8. (s \ {x}) \cup {x} \in P
    BY <2>6, <2>7
  <2> QED BY <2>2, <2>7, <2>8
<1> QED BY <1>2, <1>3

\* One step of the recursion, and a function that is computed by it.
FirstOf(s) == CHOOSE x \in s : TRUE

FoldStep(f, s, g) == IF s = {} THEN 0 ELSE f[FirstOf(s)] + g[s \ {FirstOf(s)}]

Computes(f, S, g) == g = [s \in SUBSET S |-> FoldStep(f, s, g)]

LEMMA SumIsChosen ==
  ASSUME NEW f, NEW S
  PROVE  SumFunctionOnSet(f, S) = (CHOOSE g : Computes(f, S, g))[S]
  BY DEF SumFunctionOnSet, FoldFunctionOnSet, MapThenFoldSet, Computes, FoldStep, FirstOf

LEMMA FirstIs ==
  ASSUME NEW s, s # {}
  PROVE  FirstOf(s) \in s
  BY DEF FirstOf

LEMMA FoldExists ==
  ASSUME NEW S, IsFiniteSet(S), NEW f, \A x \in S : f[x] \in Int
  PROVE  \E g : Computes(f, S, g) /\ \A s \in SUBSET S : g[s] \in Int
<1> DEFINE D(n) == {s \in SUBSET S : Cardinality(s) < n}
           Good(n) == \E g \in [D(n) -> Int] : \A s \in D(n) : g[s] = FoldStep(f, s, g)
           Bad == {n \in Nat : ~Good(n)}
<1>1. \A s \in SUBSET S : IsFiniteSet(s) /\ Cardinality(s) \in Nat /\ Cardinality(s) <= Cardinality(S)
  BY FS_Subset, FS_CardinalityType
<1>2. Good(0)
  <2>1. D(0) = {}
    BY <1>1
  <2>2. [s \in D(0) |-> 0] \in [D(0) -> Int]
    OBVIOUS
  <2> QED BY <2>1, <2>2
<1>3. ASSUME NEW n \in Nat, Good(n) PROVE Good(n + 1)
  <2>1. PICK g \in [D(n) -> Int] : \A s \in D(n) : g[s] = FoldStep(f, s, g)
    BY <1>3
  <2> DEFINE h == [s \in D(n + 1) |-> FoldStep(f, s, g)]
  <2>2. ASSUME NEW s \in D(n + 1), s # {}
        PROVE  /\ FirstOf(s) \in s /\ FirstOf(s) \in S
               /\ s \ {FirstOf(s)} \in D(n) /\ s \ {FirstOf(s)} \in D(n + 1)
    <3>1. FirstOf(s) \in s /\ s \in SUBSET S /\ Cardinality(s) < n + 1
      BY <2>2, FirstIs
    <3>2. Cardinality(s \ {FirstOf(s)}) = Cardinality(s) - 1
      BY <1>1, <3>1, FS_RemoveElement
    <3>3. Cardinality(s) \in Nat
      BY <1>1, <3>1
    <3> QED BY <3>1, <3>2, <3>3
  <2>3. ASSUME NEW s \in D(n + 1) PROVE FoldStep(f, s, g) \in Int
    <3>1. CASE s = {}
      BY <3>1 DEF FoldStep
    <3>2. CASE s # {}
      BY <2>2, <3>2 DEF FoldStep
    <3> QED BY <3>1, <3>2
  <2>4. h \in [D(n + 1) -> Int]
    BY <2>3
  <2>5. ASSUME NEW s \in D(n + 1) PROVE h[s] = FoldStep(f, s, h)
    <3>1. CASE s = {}
      BY <3>1 DEF FoldStep
    <3>2. CASE s # {}
      <4>1. h[s \ {FirstOf(s)}] = FoldStep(f, s \ {FirstOf(s)}, g)
        BY <2>2, <3>2
      <4>2. g[s \ {FirstOf(s)}] = FoldStep(f, s \ {FirstOf(s)}, g)
        BY <2>1, <2>2, <3>2
      <4>3. h[s] = f[FirstOf(s)] + g[s \ {FirstOf(s)}]
        BY <3>2 DEF FoldStep
      <4> QED BY <3>2, <4>1, <4>2, <4>3 DEF FoldStep
    <3> QED BY <3>1, <3>2
  <2> HIDE DEF h, D
  <2> QED BY <2>4, <2>5
<1> HIDE DEF Good
<1>4. \A n \in Nat : Good(n)
  <2> SUFFICES ASSUME Bad # {} PROVE FALSE
    OBVIOUS
  <2>1. PICK n \in Bad : \A m \in Bad : n <= m
    BY LeastExists
  <2>2. n # 0 /\ n \in Nat
    BY <1>2, <2>1
  <2>3. n - 1 \in Nat /\ n - 1 \notin Bad /\ n = (n - 1) + 1
    BY <2>1, <2>2
  <2>4. Good(n - 1)
    BY <2>3
  <2>5. Good(n)
    BY <1>3, <2>3, <2>4
  <2> QED BY <2>1, <2>5
<1> DEFINE c == Cardinality(S) + 1
<1>5. c \in Nat
  BY FS_CardinalityType
<1>6. D(c) = SUBSET S
  BY <1>1, <1>5
<1>7. PICK g \in [D(c) -> Int] : \A s \in D(c) : g[s] = FoldStep(f, s, g)
  BY <1>4, <1>5 DEF Good
<1>8. Computes(f, S, g)
  BY <1>6, <1>7 DEF Computes
<1> QED BY <1>6, <1>7, <1>8

\* A sum is found by the recursion over any larger finite set.
LEMMA SumIsFold ==
  ASSUME NEW S, IsFiniteSet(S), NEW f, \A x \in S : f[x] \in Int,
         NEW g, Computes(f, S, g), NEW T \in SUBSET S
  PROVE  SumFunctionOnSet(f, T) = g[T]
<1> DEFINE h == CHOOSE k : Computes(f, T, k)
           P == {s \in SUBSET T : h[s] = g[s]}
<1>1. IsFiniteSet(T)
  BY FS_Subset
<1>2. Computes(f, T, h)
  <2>1. \E k : Computes(f, T, k)
    BY <1>1, FoldExists
  <2> QED BY <2>1
<1>3. \A s \in SUBSET T : h[s] = FoldStep(f, s, h)
  BY <1>2 DEF Computes
<1>4. \A s \in SUBSET T : g[s] = FoldStep(f, s, g)
  BY DEF Computes
<1> HIDE DEF h
<1> DEFINE Bad == {n \in Nat : \E s \in SUBSET T : Cardinality(s) = n /\ h[s] # g[s]}
<1>5. Bad = {}
  <2> SUFFICES ASSUME Bad # {} PROVE FALSE
    OBVIOUS
  <2>1. PICK n \in Bad : \A m \in Bad : n <= m
    BY LeastExists
  <2>2. PICK s \in SUBSET T : Cardinality(s) = n /\ h[s] # g[s]
    BY <2>1
  <2>3. s # {}
    BY <1>3, <1>4, <2>2 DEF FoldStep
  <2> DEFINE x == FirstOf(s)
  <2>4. x \in s
    BY <2>3, FirstIs
  <2>5. s \ {x} \in SUBSET T /\ IsFiniteSet(s) /\ n \in Nat
    BY <1>1, <2>1, <2>2, FS_Subset
  <2>6. Cardinality(s \ {x}) = n - 1 /\ Cardinality(s \ {x}) \in Nat
    BY <2>2, <2>4, <2>5, FS_RemoveElement, FS_CardinalityType
  <2>7. n - 1 \notin Bad /\ n - 1 \in Nat
    BY <2>1, <2>5, <2>6
  <2>8. h[s \ {x}] = g[s \ {x}]
    BY <2>5, <2>6, <2>7
  <2> QED BY <1>3, <1>4, <2>2, <2>3, <2>8 DEF FoldStep
<1>6. h[T] = g[T]
  <2>1. Cardinality(T) \in Nat /\ Cardinality(T) \notin Bad
    BY <1>1, <1>5, FS_CardinalityType
  <2> QED BY <2>1
<1> QED BY <1>6, SumIsChosen DEF h

LEMMA SumOfNothing ==
  ASSUME NEW f
  PROVE  SumFunctionOnSet(f, {}) = 0
<1> DEFINE none == {}
<1>1. IsFiniteSet(none) /\ \A x \in none : f[x] \in Int
  BY FS_EmptySet
<1>2. PICK g : Computes(f, none, g)
  BY <1>1, FoldExists
<1>3. g[none] = 0
  BY <1>2 DEF Computes, FoldStep
<1> QED BY <1>1, <1>2, <1>3, SumIsFold

\* Any element can be taken out of a sum.
LEMMA SumOfRest ==
  ASSUME NEW S, IsFiniteSet(S), NEW f, \A x \in S : f[x] \in Int, NEW x \in S
  PROVE  /\ SumFunctionOnSet(f, S) = f[x] + SumFunctionOnSet(f, S \ {x})
         /\ SumFunctionOnSet(f, S) \in Int /\ SumFunctionOnSet(f, S \ {x}) \in Int
<1>1. PICK g : Computes(f, S, g) /\ \A s \in SUBSET S : g[s] \in Int
  BY FoldExists
<1>2. \A s \in SUBSET S : g[s] = FoldStep(f, s, g)
  BY <1>1 DEF Computes
<1> DEFINE Wrong(s) == \E y \in s : g[s] # f[y] + g[s \ {y}]
           Bad == {n \in Nat : \E s \in SUBSET S : Cardinality(s) = n /\ Wrong(s)}
<1>3. Bad = {}
  <2> SUFFICES ASSUME Bad # {} PROVE FALSE
    OBVIOUS
  <2>1. PICK n \in Bad : \A m \in Bad : n <= m
    BY LeastExists
  <2>2. PICK s \in SUBSET S : Cardinality(s) = n /\ Wrong(s)
    BY <2>1
  <2>3. PICK y \in s : g[s] # f[y] + g[s \ {y}]
    BY <2>2
  <2> DEFINE z == FirstOf(s)
             r == s \ {z}
             t == s \ {y}
  <2>4. z \in s
    BY <2>3, FirstIs
  <2>5. g[s] = f[z] + g[r]
    BY <1>2, <2>3 DEF FoldStep
  <2>6. y # z
    BY <2>3, <2>5
  <2>7. IsFiniteSet(s) /\ n \in Nat /\ r \in SUBSET S /\ t \in SUBSET S
    BY <2>1, <2>2, FS_Subset
  <2>8. /\ Cardinality(r) = n - 1 /\ Cardinality(t) = n - 1 /\ Cardinality(r) \in Nat
    BY <2>2, <2>3, <2>4, <2>7, FS_RemoveElement, FS_CardinalityType
  <2>9. n - 1 \notin Bad /\ n - 1 \in Nat
    BY <2>1, <2>7, <2>8
  <2>10. ~Wrong(r) /\ ~Wrong(t)
    BY <2>7, <2>8, <2>9
  <2>11. g[r] = f[y] + g[r \ {y}]
    BY <2>3, <2>6, <2>10
  <2>12. g[t] = f[z] + g[t \ {z}]
    BY <2>4, <2>6, <2>10
  <2>13. r \ {y} = t \ {z} /\ r \ {y} \in SUBSET S
    BY <2>7
  <2>14. f[y] \in Int /\ f[z] \in Int /\ g[r \ {y}] \in Int
    BY <1>1, <2>3, <2>4, <2>13
  <2> HIDE DEF r, t, z
  <2>15. \A a, b, c \in Int : a + (b + c) = b + (a + c)
    OBVIOUS
  <2>16. g[s] = f[z] + (f[y] + g[r \ {y}]) /\ f[y] + g[t] = f[y] + (f[z] + g[r \ {y}])
    BY <2>5, <2>11, <2>12, <2>13, Zenon
  <2>17. g[s] = f[y] + g[t]
    BY <2>14, <2>15, <2>16, Zenon
  <2> QED BY <2>3, <2>17 DEF t
<1>4. ~Wrong(S)
  <2>1. Cardinality(S) \in Nat /\ Cardinality(S) \notin Bad
    BY <1>3, FS_CardinalityType
  <2> QED BY <2>1
<1>5. S \in SUBSET S /\ S \ {x} \in SUBSET S
  OBVIOUS
<1>6. SumFunctionOnSet(f, S) = g[S] /\ SumFunctionOnSet(f, S \ {x}) = g[S \ {x}]
  BY <1>1, <1>5, SumIsFold
<1> QED BY <1>1, <1>4, <1>5, <1>6

LEMMA SumInt ==
  ASSUME NEW S, IsFiniteSet(S), NEW f, \A x \in S : f[x] \in Int
  PROVE  SumFunctionOnSet(f, S) \in Int
<1>1. CASE S = {}
  BY <1>1, SumOfNothing
<1>2. CASE S # {}
  <2>1. PICK x \in S : TRUE
    BY <1>2
  <2> QED BY <2>1, SumOfRest
<1> QED BY <1>1, <1>2

\* An element more adds its value.
LEMMA SumOfMore ==
  ASSUME NEW S, IsFiniteSet(S), NEW f, NEW x, x \notin S, \A y \in S \cup {x} : f[y] \in Int
  PROVE  SumFunctionOnSet(f, S \cup {x}) = SumFunctionOnSet(f, S) + f[x]
<1> DEFINE T == S \cup {x}
<1>1. IsFiniteSet(T) /\ T \ {x} = S /\ x \in T /\ f[x] \in Int
  BY FS_AddElement
<1>2. \A y \in T : f[y] \in Int
  OBVIOUS
<1> HIDE DEF T
<1>3. SumFunctionOnSet(f, T) = f[x] + SumFunctionOnSet(f, S) /\ SumFunctionOnSet(f, S) \in Int
  BY <1>1, <1>2, SumOfRest
<1> QED BY <1>1, <1>3 DEF T

\* The sum depends on the values in the set only.
LEMMA SumSame ==
  ASSUME NEW S, IsFiniteSet(S), NEW f, NEW g, \A x \in S : f[x] \in Int /\ f[x] = g[x]
  PROVE  SumFunctionOnSet(f, S) = SumFunctionOnSet(g, S)
<1> DEFINE P == {s \in SUBSET S : SumFunctionOnSet(f, s) = SumFunctionOnSet(g, s)}
<1>1. {} \in P
  BY SumOfNothing
<1>2. ASSUME NEW s \in SUBSET S, NEW x \in S \ s, s \in P PROVE s \cup {x} \in P
  <2>1. IsFiniteSet(s) /\ x \notin s /\ s \cup {x} \in SUBSET S
    BY FS_Subset
  <2>2. /\ \A y \in s \cup {x} : f[y] \in Int
        /\ \A y \in s \cup {x} : g[y] \in Int
    OBVIOUS
  <2>3. SumFunctionOnSet(f, s \cup {x}) = SumFunctionOnSet(f, s) + f[x]
    BY <2>1, <2>2, SumOfMore
  <2>4. SumFunctionOnSet(g, s \cup {x}) = SumFunctionOnSet(g, s) + g[x]
    BY SMTT(60), <2>1, <2>2, SumOfMore
  <2> QED BY <1>2, <2>1, <2>3, <2>4
<1> HIDE DEF P
<1>3. S \in P
  BY <1>1, <1>2, SetInduction
<1> QED BY <1>3 DEF P

\* One value changes, and the sum by as much.
LEMMA SumChanges ==
  ASSUME NEW S, IsFiniteSet(S), NEW f, NEW g, NEW x \in S, NEW n \in Int,
         \A y \in S : f[y] \in Int /\ g[y] \in Int, \A y \in S : y # x => g[y] = f[y]
  PROVE  g[x] = f[x] + n => SumFunctionOnSet(g, S) = SumFunctionOnSet(f, S) + n
<1> DEFINE r == S \ {x}
<1>1. IsFiniteSet(r) /\ \A y \in r : f[y] \in Int /\ f[y] = g[y]
  BY FS_Subset
<1>2. SumFunctionOnSet(f, r) = SumFunctionOnSet(g, r)
  BY <1>1, SumSame
<1>3. SumFunctionOnSet(f, S) = f[x] + SumFunctionOnSet(f, r) /\ SumFunctionOnSet(f, r) \in Int
  BY SumOfRest
<1>4. SumFunctionOnSet(g, S) = g[x] + SumFunctionOnSet(g, r)
  BY SumOfRest
<1>5. f[x] \in Int /\ g[x] \in Int
  OBVIOUS
<1> HIDE DEF r
<1> QED BY <1>2, <1>3, <1>4, <1>5

\* Without a positive value no sum is positive; a sum of naturals is one.
LEMMA SumSign ==
  ASSUME NEW S, IsFiniteSet(S), NEW f, \A x \in S : f[x] \in Int
  PROVE  /\ (\A x \in S : f[x] <= 0) => SumFunctionOnSet(f, S) <= 0
         /\ (\A x \in S : f[x] >= 0) => SumFunctionOnSet(f, S) >= 0
<1>1. ASSUME \A x \in S : f[x] <= 0 PROVE SumFunctionOnSet(f, S) <= 0
  <2> DEFINE P == {s \in SUBSET S : SumFunctionOnSet(f, s) <= 0}
  <2>1. {} \in P
    BY SumOfNothing
  <2>2. ASSUME NEW s \in SUBSET S, NEW x \in S \ s, s \in P PROVE s \cup {x} \in P
    <3>1. IsFiniteSet(s) /\ x \notin s /\ s \cup {x} \in SUBSET S /\ \A y \in s : f[y] \in Int
      BY FS_Subset
    <3>2. SumFunctionOnSet(f, s) \in Int
      BY <3>1, SumInt
    <3>3. SumFunctionOnSet(f, s \cup {x}) = SumFunctionOnSet(f, s) + f[x]
      BY <3>1, SumOfMore
    <3>4. f[x] \in Int /\ f[x] <= 0 /\ SumFunctionOnSet(f, s) <= 0
      BY <1>1, <2>2
    <3> QED BY <3>1, <3>2, <3>3, <3>4
  <2> HIDE DEF P
  <2>3. S \in P
    BY <2>1, <2>2, SetInduction
  <2> QED BY <2>3 DEF P
<1>2. ASSUME \A x \in S : f[x] >= 0 PROVE SumFunctionOnSet(f, S) >= 0
  <2> DEFINE P == {s \in SUBSET S : SumFunctionOnSet(f, s) >= 0}
  <2>1. {} \in P
    BY SumOfNothing
  <2>2. ASSUME NEW s \in SUBSET S, NEW x \in S \ s, s \in P PROVE s \cup {x} \in P
    <3>1. IsFiniteSet(s) /\ x \notin s /\ s \cup {x} \in SUBSET S /\ \A y \in s : f[y] \in Int
      BY FS_Subset
    <3>2. SumFunctionOnSet(f, s) \in Int
      BY <3>1, SumInt
    <3>3. SumFunctionOnSet(f, s \cup {x}) = SumFunctionOnSet(f, s) + f[x]
      BY <3>1, SumOfMore
    <3>4. f[x] \in Int /\ f[x] >= 0 /\ SumFunctionOnSet(f, s) >= 0
      BY <1>2, <2>2
    <3> QED BY <3>1, <3>2, <3>3, <3>4
  <2> HIDE DEF P
  <2>3. S \in P
    BY <2>1, <2>2, SetInduction
  <2> QED BY <2>3 DEF P
<1> QED BY <1>1, <1>2

\* A sum grows with its values.
LEMMA SumGrows ==
  ASSUME NEW S, IsFiniteSet(S), NEW f, NEW g, \A x \in S : f[x] \in Int /\ g[x] \in Int /\ f[x] <= g[x]
  PROVE  SumFunctionOnSet(f, S) <= SumFunctionOnSet(g, S)
<1> DEFINE P == {s \in SUBSET S : SumFunctionOnSet(f, s) <= SumFunctionOnSet(g, s)}
<1>1. {} \in P
  BY SumOfNothing
<1>2. ASSUME NEW s \in SUBSET S, NEW x \in S \ s, s \in P PROVE s \cup {x} \in P
  <2>1. IsFiniteSet(s) /\ s \cup {x} \in SUBSET S
    BY FS_Subset
  <2>2. /\ SumFunctionOnSet(f, s) \in Int /\ SumFunctionOnSet(g, s) \in Int
        /\ SumFunctionOnSet(f, s) <= SumFunctionOnSet(g, s)
    BY <1>2, <2>1, SumInt
  <2>3. /\ SumFunctionOnSet(f, s \cup {x}) = SumFunctionOnSet(f, s) + f[x]
        /\ SumFunctionOnSet(g, s \cup {x}) = SumFunctionOnSet(g, s) + g[x]
    BY <2>1, SumOfMore
  <2>4. \A a, b, c, d \in Int : a <= b /\ c <= d => a + c <= b + d
    OBVIOUS
  <2>5. SumFunctionOnSet(f, s) + f[x] <= SumFunctionOnSet(g, s) + g[x]
    BY <2>2, <2>4, Zenon
  <2> QED BY <2>1, <2>3, <2>5
<1> HIDE DEF P
<1>3. S \in P
  BY <1>1, <1>2, SetInduction
<1> QED BY <1>3 DEF P

\* On T the values of f are shared out between g and h; elsewhere they are those of h.
Shared(f, g, h, S, T) == /\ \A x \in T : f[x] = h[x] + g[x]
                         /\ \A x \in S \ T : f[x] = h[x]

\* A part of a sum can be summed apart.
LEMMA SumOfParts ==
  ASSUME NEW S, IsFiniteSet(S), NEW T \in SUBSET S, NEW f, NEW g, NEW h,
         \A x \in S : f[x] \in Int /\ h[x] \in Int,
         \A x \in T : g[x] \in Int, Shared(f, g, h, S, T)
  PROVE  SumFunctionOnSet(f, S) = SumFunctionOnSet(h, S) + SumFunctionOnSet(g, T)
<1> DEFINE P == {s \in SUBSET S :
                   SumFunctionOnSet(f, s) = SumFunctionOnSet(h, s) + SumFunctionOnSet(g, s \cap T)}
<1>1. {} \in P
  <2>1. {} \cap T = {} /\ {} \in SUBSET S
    OBVIOUS
  <2>2. 0 = 0 + 0
    OBVIOUS
  <2> QED BY <2>1, <2>2, SumOfNothing
<1>2. ASSUME NEW s \in SUBSET S, NEW x \in S \ s, s \in P PROVE s \cup {x} \in P
  <2>1. IsFiniteSet(s) /\ s \cup {x} \in SUBSET S /\ IsFiniteSet(s \cap T)
    BY FS_Subset
  <2>2. /\ SumFunctionOnSet(f, s) \in Int /\ SumFunctionOnSet(h, s) \in Int
        /\ SumFunctionOnSet(g, s \cap T) \in Int
    <3>1. \A y \in s : f[y] \in Int
      OBVIOUS
    <3>2. \A y \in s : h[y] \in Int
      OBVIOUS
    <3>3. \A y \in s \cap T : g[y] \in Int
      OBVIOUS
    <3>4. SumFunctionOnSet(f, s) \in Int
      BY <2>1, <3>1, SumInt
    <3>5. SumFunctionOnSet(h, s) \in Int
      BY <2>1, <3>2, SumInt
    <3>6. SumFunctionOnSet(g, s \cap T) \in Int
      BY <2>1, <3>3, SumInt
    <3> QED BY <3>4, <3>5, <3>6
  <2>3. /\ SumFunctionOnSet(f, s \cup {x}) = SumFunctionOnSet(f, s) + f[x]
        /\ SumFunctionOnSet(h, s \cup {x}) = SumFunctionOnSet(h, s) + h[x]
    <3>1. (\A y \in s \cup {x} : f[y] \in Int) /\ x \notin s
      OBVIOUS
    <3>2. \A y \in s \cup {x} : h[y] \in Int
      OBVIOUS
    <3>3. SumFunctionOnSet(f, s \cup {x}) = SumFunctionOnSet(f, s) + f[x]
      BY <2>1, <3>1, SumOfMore
    <3>4. SumFunctionOnSet(h, s \cup {x}) = SumFunctionOnSet(h, s) + h[x]
      BY <2>1, <3>1, <3>2, SumOfMore
    <3> QED BY <3>3, <3>4
  <2>4. SumFunctionOnSet(f, s) = SumFunctionOnSet(h, s) + SumFunctionOnSet(g, s \cap T)
    BY <1>2
  <2>5. CASE x \in T
    <3>1. (s \cup {x}) \cap T = (s \cap T) \cup {x}
      BY <2>5
    <3>2. SumFunctionOnSet(g, (s \cap T) \cup {x}) = SumFunctionOnSet(g, s \cap T) + g[x]
      <4>1. (\A y \in (s \cap T) \cup {x} : g[y] \in Int) /\ x \notin s \cap T
        BY <2>5
      <4> QED BY <2>1, <4>1, SumOfMore
    <3>3. \A a, b, u, v \in Int : (a + b) + (u + v) = (a + u) + (b + v)
      OBVIOUS
    <3>4. h[x] \in Int /\ g[x] \in Int /\ f[x] = h[x] + g[x]
      BY <2>5, Zenon DEF Shared
    <3>5. (SumFunctionOnSet(h, s) + SumFunctionOnSet(g, s \cap T)) + (h[x] + g[x])
            = (SumFunctionOnSet(h, s) + h[x]) + (SumFunctionOnSet(g, s \cap T) + g[x])
      BY <2>2, <3>3, <3>4
    <3> QED BY <2>3, <2>4, <3>1, <3>2, <3>4, <3>5
  <2>6. CASE x \notin T
    <3>1. (s \cup {x}) \cap T = s \cap T
      BY <2>6
    <3>2. \A a, b, c \in Int : (a + b) + c = (a + c) + b
      OBVIOUS
    <3>3. h[x] \in Int /\ f[x] = h[x]
      BY <2>6, Zenon DEF Shared
    <3>4. (SumFunctionOnSet(h, s) + SumFunctionOnSet(g, s \cap T)) + h[x]
            = (SumFunctionOnSet(h, s) + h[x]) + SumFunctionOnSet(g, s \cap T)
      BY <2>2, <3>2, <3>3
    <3> QED BY <2>3, <2>4, <3>1, <3>3, <3>4
  <2>7. SumFunctionOnSet(f, s \cup {x})
          = SumFunctionOnSet(h, s \cup {x}) + SumFunctionOnSet(g, (s \cup {x}) \cap T)
    BY <2>5, <2>6
  <2> QED BY <2>1, <2>7
<1> HIDE DEF P
<1>3. S \in P
  BY <1>1, <1>2, SetInduction
<1>4. SumFunctionOnSet(f, S) = SumFunctionOnSet(h, S) + SumFunctionOnSet(g, S \cap T)
  BY <1>3 DEF P
<1>5. S \cap T = T
  OBVIOUS
<1> QED BY <1>4, <1>5
-----------------------------------------------------------------------------
\* Where a sub-procedure, and a loop over open orders, can return to.
Returns     == {"idle", "commit", "managed", "replaced", "cancelOpen", "force",
                "checkAmount", "placeStop", "fetchStops", "refind", "adopt", "startup"}
LoopReturns == {"idle", "commit", "placeEntry", "placeExit"}

\* The rows of r exist on the exchange e and are open as long as the order is.
NeverAhead(r, e) ==
  \A o \in Orders : r[o].status # "none" =>
    /\ e[o].status # "none"
    /\ e[o].status = "open" => r[o].status = "open"

\* The locals of the handler: the order it is about exists, and the dict it
\* holds says "open" as long as the order is.
TaskOK(t, e) ==
  /\ t.then \in Returns /\ t.after \in LoopReturns
  /\ t.at \in {"cancel", "managed", "replaced"} \cup Recording \/ t.then \in {"managed", "replaced", "force"}
       => t.o \in Orders
  /\ t.at = "force" /\ t.res => t.o \in Orders
  /\ t.at \in {"cancel"} \cup Recording =>
       /\ e[t.o].status # "none"
       /\ e[t.o].status = "open" => t.snap.status = "open"
  /\ \A o \in t.todo : e[o].status # "none"
  /\ ~AdjustOrderPrice => /\ t.at # "replaced" /\ t.then # "replaced"
                         /\ t.mode # "replace"

Inv ==
  /\ TypeOK
  /\ KnownOrders
  /\ NeverAhead(rows, ex)
  /\ NeverAhead(db.rows, ex)
  /\ TaskOK(task, ex)

\* What a step does to the exchange unless it places an order.
ExchangeMoves(e, f) ==
  \A o \in Orders : /\ f[o].status = "none" <=> e[o].status = "none"
                    /\ f[o].status = "open" => e[o].status = "open"

LEMMA LabelFacts ==
  /\ "idle" \in Labels /\ "commit" \in Labels /\ "cancel" \in Labels
  /\ "cancelOpen" \in Labels /\ "managed" \in Labels /\ "replaced" \in Labels
  /\ "force" \in Labels /\ "stops" \in Labels /\ "checkAmount" \in Labels
  /\ "placeEntry" \in Labels /\ "placeExit" \in Labels /\ "placeStop" \in Labels
  /\ "fetchStops" \in Labels /\ "refind" \in Labels /\ "adopt" \in Labels
  /\ "startup" \in Labels /\ "recordEntry" \in Labels /\ "recordExit" \in Labels
  /\ "recordStop" \in Labels
  BY DEF Labels, Recording

LEMMA StopsFirstType ==
  ASSUME NEW k \in Task, NEW stops \in SUBSET Orders
  PROVE  StopsFirst(k, stops) \in Task
<1>1. k.at \in Labels /\ k.then \in Labels /\ k.stops \in SUBSET Orders
  BY DEF Task
<1>2. (IF k.at = "stops" THEN k.then ELSE k.at) \in Labels /\ k.stops \cup stops \in SUBSET Orders
  BY <1>1
<1> QED
  BY <1>1, <1>2, LabelFacts DEF StopsFirst, Task

LEMMA IdleType == Idle \in Task /\ Done \in Task /\ TaskOK(Idle, ex) /\ TaskOK(Done, ex)
<1>1. NoOrder \in Order
  BY DEF NoOrder, Order, NonOpen
<1>2. Idle \in Task
  BY <1>1, LabelFacts DEF Idle, Task
<1>3. Done \in Task
  BY <1>2, LabelFacts DEF Done, Task
<1>4. TaskOK(Idle, ex)
  BY DEF Idle, TaskOK, Returns, LoopReturns, Recording
<1>5. TaskOK(Done, ex)
  BY DEF Idle, Done, TaskOK, Returns, LoopReturns, Recording
<1> QED
  BY <1>2, <1>3, <1>4, <1>5

LEMMA InitInv == TradeAssumption /\ Init => Inv
  BY IdleType DEF Init, Inv, TypeOK, KnownOrders, NeverAhead, Committed, NoOrder, Order, NonOpen, States,
                   TradeAssumption

\* A step that changes the locals only.
LEMMA GoInv ==
  ASSUME Inv, NEW k \in Task, TaskOK(k, ex), JustGo(k), task.at \notin Recording
  PROVE  Inv'
<1>1. TypeOK'
  BY DEF Inv, TypeOK, JustGo, Bot, Outside
<1>2. KnownOrders'
  BY DEF Inv, KnownOrders, JustGo, Bot, Outside
<1>3. NeverAhead(rows, ex)' /\ NeverAhead(db.rows, ex)'
  BY DEF Inv, NeverAhead, JustGo, Bot, Outside
<1>4. TaskOK(task, ex)'
  BY DEF TaskOK, JustGo, Bot, Outside
<1> QED
  BY <1>1, <1>2, <1>3, <1>4 DEF Inv

LEMMA SaveType ==
  ASSUME NEW r \in [Orders -> Order], NEW t \in States, NEW a \in Nat, Save(r, t, a)
  PROVE  /\ rows' \in [Orders -> Order] /\ trade' \in States /\ amount' \in Nat
         /\ db' \in [rows : [Orders -> Order], trade : States, amount : Nat]
         /\ rows' = r /\ db'.rows = r
  BY DEF Save, Committed

LEMMA UpdatedType ==
  ASSUME NEW r \in [Orders -> Order], NEW t \in States, NEW a \in Nat,
         NEW o \in Orders, NEW s \in Order, NEW sending
  PROVE  /\ Updated(r, t, a, o, s, sending).rows \in [Orders -> Order]
         /\ Updated(r, t, a, o, s, sending).trade \in States
         /\ Updated(r, t, a, o, s, sending).amount \in Nat
<1>1. [r EXCEPT ![o] = s] \in [Orders -> Order]
  OBVIOUS
<1>2. s.filled \in Nat
  BY DEF Order
<1>3. ASSUME NEW q, NEW b \in Nat PROVE Recalculated(q, b) \in Nat
  BY DEF Recalculated
<1> QED
  BY <1>1, <1>2, <1>3 DEF Updated, States

\* What update_trade_state does to the rows, the database and the locals.
LEMMA UpdateFacts ==
  ASSUME TypeOK, NEW o \in Orders, NEW s \in Order, NEW sending, NEW k \in Task,
         UpdateTradeState(o, s, sending, k)
  PROVE  /\ rows' \in [Orders -> Order] /\ trade' \in States /\ amount' \in Nat
         /\ db' \in [rows : [Orders -> Order], trade : States, amount : Nat]
         /\ rows' = [rows EXCEPT ![o] = s]
         /\ db'.rows = rows' \/ db' = db
         /\ \/ task' = k
            \/ /\ s.status # "open"
               /\ \E stops \in SUBSET Orders :
                    task' = StopsFirst(k, stops)
<1> DEFINE u == Updated(rows, trade, amount, o, s, sending)
<1>1. CASE CanceledEmpty(s) /\ rows' = [rows EXCEPT ![o] = s] /\ task' = k
           /\ UNCHANGED <<trade, amount, db>>
  BY <1>1 DEF TypeOK
<1>2. CASE /\ Save(u.rows, u.trade, u.amount)
           /\ task' = StopsFirst(k, StopsToCancel(u, s, sending))
  <2>1. /\ u.rows = [rows EXCEPT ![o] = s] /\ u.rows \in [Orders -> Order]
        /\ u.trade \in States /\ u.amount \in Nat
    <3>1. rows \in [Orders -> Order] /\ trade \in States /\ amount \in Nat
      BY DEF TypeOK
    <3>2. u.rows = [rows EXCEPT ![o] = s]
      BY DEF Updated
    <3>3. u.rows \in [Orders -> Order] /\ u.trade \in States /\ u.amount \in Nat
      BY <3>1, UpdatedType
    <3> QED
      BY <3>2, <3>3
  <2>2. /\ rows' \in [Orders -> Order] /\ trade' \in States /\ amount' \in Nat
        /\ db' \in [rows : [Orders -> Order], trade : States, amount : Nat]
        /\ rows' = u.rows /\ db'.rows = u.rows
    BY <1>2, <2>1, SaveType
  <2>3. StopsToCancel(u, s, sending) \in SUBSET Orders
    BY DEF StopsToCancel, OpenStops
  <2>4. s.status = "open" => StopsToCancel(u, s, sending) = {}
    BY DEF StopsToCancel, NonOpen
  <2>5. s.status = "open" => task' = k
    BY <1>2, <2>4 DEF StopsFirst
  <2> QED
    BY <1>2, <2>1, <2>2, <2>3, <2>5
<1> QED
  BY <1>1, <1>2 DEF UpdateTradeState

LEMMA StopsFirstOK ==
  ASSUME NEW k \in Task, NEW e, TaskOK(k, e), k.at \in Returns \cup {"stops"},
         k.at = "force" => k.o \in Orders,
         NEW stops \in SUBSET Orders
  PROVE  TaskOK(StopsFirst(k, stops), e)
<1> DEFINE n == StopsFirst(k, stops)
<1>1. CASE stops = {}
  BY <1>1 DEF StopsFirst
<1>2. CASE stops # {}
  <2>1. /\ n.at = "stops" /\ n.then = (IF k.at = "stops" THEN k.then ELSE k.at)
        /\ n.after = k.after /\ n.o = k.o /\ n.todo = k.todo /\ n.mode = k.mode
    BY <1>2 DEF StopsFirst, Task
  <2>2. n.then \in Returns
    BY <2>1 DEF TaskOK
  <2>3. n.then \in {"managed", "replaced", "force"} => n.o \in Orders
    BY <2>1 DEF TaskOK
  <2>4. "stops" \notin {"cancel", "managed", "replaced"} \cup Recording
    BY DEF Recording
  <2>5. ~AdjustOrderPrice => n.then # "replaced" /\ n.mode # "replace"
    BY <2>1 DEF TaskOK
  <2>6. n.after \in LoopReturns /\ (\A o \in n.todo : e[o].status # "none")
    BY <2>1 DEF TaskOK
  <2>7. n.at = "stops"
    BY <2>1
  <2> HIDE DEF n
  <2>8. TaskOK(n, e)
    BY <2>2, <2>3, <2>4, <2>5, <2>6, <2>7 DEF TaskOK
  <2> QED
    BY <2>8 DEF n
<1> QED
  BY <1>1, <1>2

\* A row is overwritten by a dict that is not older than the exchange: it says
\* "open" as long as the order is.
LEMMA RowInv ==
  ASSUME Inv, NEW o \in Orders, NEW s \in Order,
         rows' \in [Orders -> Order], trade' \in States, amount' \in Nat,
         db' \in [rows : [Orders -> Order], trade : States, amount : Nat],
         rows' = [rows EXCEPT ![o] = s], db'.rows = rows' \/ db' = db,
         ex' \in [Orders -> Order], ExchangeMoves(ex, ex'),
         s.status # "none" => ex'[o].status # "none",
         ex'[o].status = "open" => s.status = "open",
         unknown' \in SUBSET Orders, unknown \ {o} \subseteq unknown',
         faults' \in 0..MaxFaults, task' \in Task, TaskOK(task', ex'),
         task.at \in Recording => task.o = o
  PROVE  Inv'
<1>1. TypeOK'
  BY DEF TypeOK
<1>2. rows \in [Orders -> Order] /\ ex \in [Orders -> Order]
  BY DEF Inv, TypeOK
<1>3. KnownOrders'
  BY <1>2 DEF Inv, KnownOrders, ExchangeMoves
<1>4. NeverAhead(rows', ex')
  BY <1>2 DEF Inv, NeverAhead, ExchangeMoves
<1>5. NeverAhead(db.rows, ex')
  BY DEF Inv, NeverAhead, ExchangeMoves
<1> QED
  BY <1>1, <1>3, <1>4, <1>5 DEF Inv

LEMMA UpdateInv ==
  ASSUME Inv, NEW o \in Orders, NEW s \in Order, NEW sending, NEW k \in Task,
         UpdateTradeState(o, s, sending, k),
         ex' \in [Orders -> Order], ExchangeMoves(ex, ex'),
         s.status # "none" => ex'[o].status # "none",
         ex'[o].status = "open" => s.status = "open",
         unknown' \in SUBSET Orders, unknown \ {o} \subseteq unknown', faults' = faults,
         TaskOK(k, ex'), k.at \in Returns \cup {"stops"} \/ s.status = "open",
         k.at = "force" => k.o \in Orders,
         task.at \in Recording => task.o = o
  PROVE  Inv'
<1>1. /\ rows' \in [Orders -> Order] /\ trade' \in States /\ amount' \in Nat
      /\ db' \in [rows : [Orders -> Order], trade : States, amount : Nat]
      /\ rows' = [rows EXCEPT ![o] = s]
      /\ db'.rows = rows' \/ db' = db
      /\ \/ task' = k
         \/ /\ s.status # "open"
            /\ \E stops \in SUBSET Orders : task' = StopsFirst(k, stops)
  BY UpdateFacts DEF Inv
<1>2. task' \in Task /\ TaskOK(task', ex')
  BY <1>1, StopsFirstType, StopsFirstOK
<1>3. faults' \in 0..MaxFaults
  BY DEF Inv, TypeOK
<1> QED
  BY <1>1, <1>2, <1>3, RowInv

\* Deleting the trade keeps it if no row is open but that of a dead order.
LEMMA DeleteInv ==
  ASSUME Inv, DeleteTrade, ex' \in [Orders -> Order], ExchangeMoves(ex, ex'),
         unknown' = unknown, faults' = faults,
         \A o \in Orders : ex'[o].status = "open" => rows[o].status # "open",
         task.at \in Recording => ex'[task.o].status # "open"
  PROVE  Inv'
<1>1. /\ [o \in Orders |-> NoOrder] \in [Orders -> Order] /\ "deleted" \in States
      /\ \A o \in Orders : [p \in Orders |-> NoOrder][o].status = "none"
  BY DEF NoOrder, Order, NonOpen, States
<1>2. /\ rows' \in [Orders -> Order] /\ trade' \in States /\ amount' \in Nat
      /\ db' \in [rows : [Orders -> Order], trade : States, amount : Nat]
      /\ rows' = [o \in Orders |-> NoOrder] /\ db'.rows = rows'
  BY <1>1, SaveType DEF Inv, TypeOK, DeleteTrade
<1>3. task' = Done /\ Done \in Task
  BY IdleType DEF DeleteTrade
<1>4. TaskOK(Done, ex')
  BY DEF Idle, Done, TaskOK, Returns, LoopReturns, Recording
<1>5. TypeOK'
  BY <1>2, <1>3 DEF Inv, TypeOK
<1>6. KnownOrders'
  BY DEF Inv, KnownOrders, ExchangeMoves
<1>7. NeverAhead(rows', ex') /\ NeverAhead(db'.rows, ex')
  BY <1>1, <1>2 DEF NeverAhead
<1> QED
  BY <1>3, <1>4, <1>5, <1>6, <1>7 DEF Inv

\* The order dict of fetch_order.
LEMMA SnapshotFacts ==
  ASSUME TypeOK, NEW o \in Orders
  PROVE  Snapshot(o) \in Order /\ Snapshot(o).status = ex[o].status
<1>1. ex[o] \in Order /\ rows[o] \in Order
  BY DEF TypeOK
<1> QED
  BY <1>1 DEF Snapshot, Order

LEMMA SameExchange == ExchangeMoves(ex, ex) /\ (TypeOK => ex \in [Orders -> Order])
  BY DEF ExchangeMoves, TypeOK

LEMMA CancelMoves ==
  ASSUME TypeOK, NEW o \in Orders, ex' = CancelOnExchange(o)
  PROVE  /\ ex' \in [Orders -> Order] /\ ExchangeMoves(ex, ex')
         /\ ex'[o].status # "open"
<1>1. ex \in [Orders -> Order] /\ ex[o] \in Order
  BY DEF TypeOK
<1>2. [ex[o] EXCEPT !.status = IF ex[o].status = "open" THEN "canceled" ELSE ex[o].status] \in Order
  BY <1>1 DEF Order, NonOpen
<1>3. ex' = [ex EXCEPT ![o] = [ex[o] EXCEPT !.status = IF ex[o].status = "open" THEN "canceled" ELSE ex[o].status]]
  BY <1>1 DEF CancelOnExchange, Order
<1>4. ex' \in [Orders -> Order]
  BY <1>1, <1>2, <1>3
<1>5. ex'[o].status = (IF ex[o].status = "open" THEN "canceled" ELSE ex[o].status)
      /\ \A p \in Orders : p # o => ex'[p] = ex[p]
  BY <1>1, <1>3 DEF Order
<1> QED
  BY <1>4, <1>5 DEF ExchangeMoves

\* The locals stay good when the exchange moves.
LEMMA TaskMoves ==
  ASSUME NEW t \in Task, NEW e, NEW f, TaskOK(t, e), ExchangeMoves(e, f)
  PROVE  TaskOK(t, f)
<1>1. t.todo \in SUBSET Orders
  BY DEF Task
<1>2. t.at \in {"cancel"} \cup Recording => t.o \in Orders
  BY DEF TaskOK
<1> QED
  BY <1>1, <1>2 DEF TaskOK, ExchangeMoves

LEMMA ExchangeInv ==
  ASSUME Inv, ex' \in [Orders -> Order], ExchangeMoves(ex, ex'),
         UNCHANGED <<rows, trade, amount, db, task, unknown, faults>>
  PROVE  Inv'
<1>1. TaskOK(task, ex')
  BY TaskMoves DEF Inv, TypeOK
<1>2. TypeOK'
  BY DEF Inv, TypeOK
<1>3. KnownOrders'
  BY DEF Inv, KnownOrders, ExchangeMoves
<1>4. NeverAhead(rows, ex') /\ NeverAhead(db.rows, ex')
  BY DEF Inv, NeverAhead, ExchangeMoves
<1> QED
  BY <1>1, <1>2, <1>3, <1>4 DEF Inv

\* handle_cancel_enter on an order that is no longer open.
LEMMA CanceledInv ==
  ASSUME Inv, NEW o \in Orders, NEW s \in Order, NEW repl, NEW k \in Task,
         CanceledEntry(o, s, repl, k), s.status \in NonOpen,
         ex' \in [Orders -> Order], ExchangeMoves(ex, ex'),
         ex'[o].status # "none", ex'[o].status # "open",
         unknown' = unknown, faults' = faults,
         TaskOK(k, ex'), k.at \in Returns, k.at = "force" => k.o \in Orders, task.at \notin Recording
  PROVE  Inv'
<1>1. s.status # "open"
  BY DEF NonOpen
<1>2. unknown \in SUBSET Orders
  BY DEF Inv, TypeOK
<1>3. CASE UpdateTradeState(o, s, TRUE, [k EXCEPT !.res = FALSE])
  <2>1. [k EXCEPT !.res = FALSE] \in Task
    BY DEF Task
  <2>2. TaskOK([k EXCEPT !.res = FALSE], ex') /\ [k EXCEPT !.res = FALSE].at = k.at
        /\ [k EXCEPT !.res = FALSE].o = k.o
    BY DEF TaskOK, Task
  <2> QED
    BY <1>1, <1>2, <1>3, <2>1, <2>2, UpdateInv
<1>4. CASE UpdateTradeState(o, s, TRUE, [k EXCEPT !.res = TRUE])
  <2>1. [k EXCEPT !.res = TRUE] \in Task
    BY DEF Task
  <2>2. TaskOK([k EXCEPT !.res = TRUE], ex') /\ [k EXCEPT !.res = TRUE].at = k.at
        /\ [k EXCEPT !.res = TRUE].o = k.o
    BY DEF TaskOK, Task
  <2> QED
    BY <1>1, <1>2, <1>4, <2>1, <2>2, UpdateInv
<1>5. CASE DeleteTrade /\ Open(rows) \ {o} = {}
  <2>1. \A p \in Orders : ex'[p].status = "open" => rows[p].status # "open"
    BY <1>5 DEF Open
  <2> QED
    BY <1>5, <2>1, DeleteInv
<1> QED
  BY <1>3, <1>4, <1>5 DEF CanceledEntry

\* create_order: the new order is the one being recorded.
LEMMA PlacedInv ==
  ASSUME TradeAssumption, Inv, NEW side \in {"entry", "exit", "stoploss"}, NEW a \in Nat,
         NEW k \in Task, Placed(side, a, k), k.at \in Recording,
         k.then \in Returns, k.after \in LoopReturns,
         \A o \in k.todo : ex[o].status # "none",
         ~AdjustOrderPrice => k.then # "replaced" /\ k.mode # "replace",
         task.at \notin Recording
  PROVE  Inv'
<1>1. PICK o \in Orders :
        /\ ex[o].status = "none"
        /\ \E s \in (IF side = "stoploss" THEN {"open"} ELSE PlacedAs), f \in 0..a :
             LET new == [side |-> side, amount |-> a, filled |-> f, status |-> s]
             IN /\ ex' = [ex EXCEPT ![o] = new]
                /\ task' = [k EXCEPT !.o = o, !.snap = new]
        /\ UNCHANGED <<rows, trade, amount, db, unknown, faults>>
  BY DEF Placed
<1>2. PICK s \in {"open"} \cup NonOpen, f \in 0..a :
        LET new == [side |-> side, amount |-> a, filled |-> f, status |-> s]
        IN /\ ex' = [ex EXCEPT ![o] = new]
           /\ task' = [k EXCEPT !.o = o, !.snap = new]
  BY <1>1 DEF TradeAssumption
<1> DEFINE new == [side |-> side, amount |-> a, filled |-> f, status |-> s]
<1>3. new \in Order /\ new.status # "none" /\ new.status = s
  BY DEF Order, NonOpen
<1> HIDE DEF new
<1>4. ex \in [Orders -> Order] /\ ex' = [ex EXCEPT ![o] = new] /\ ex' \in [Orders -> Order]
  BY <1>2, <1>3 DEF Inv, TypeOK, new
<1>5. task' \in Task /\ task'.o = o /\ task'.snap = new /\ task'.at = k.at
      /\ task'.then = k.then /\ task'.after = k.after /\ task'.todo = k.todo
      /\ task'.mode = k.mode
  BY <1>2, <1>3 DEF Task, new
<1>6. TaskOK(task', ex')
  <2>1. \A p \in task'.todo : ex'[p].status # "none"
    BY <1>3, <1>4, <1>5 DEF Task
  <2>2. task'.at # "replaced" /\ task'.at # "cancel"
    BY <1>5 DEF Recording
  <2>3. ex'[task'.o] = task'.snap
    BY <1>4, <1>5
  <2> QED
    BY <1>3, <1>5, <2>1, <2>2, <2>3 DEF TaskOK
<1>7. TypeOK'
  BY <1>1, <1>4, <1>5 DEF Inv, TypeOK
<1>8. KnownOrders'
  BY <1>1, <1>4, <1>5 DEF Inv, KnownOrders
<1>9. NeverAhead(rows', ex') /\ NeverAhead(db'.rows, ex')
  BY <1>1, <1>4 DEF Inv, NeverAhead
<1> QED
  BY <1>6, <1>7, <1>8, <1>9 DEF Inv
-----------------------------------------------------------------------------
(* One lemma per group of actions. *)

LEMMA IdleFacts ==
  ASSUME task = Idle
  PROVE  /\ task.at = "idle" /\ task.then = "idle" /\ task.after = "idle"
         /\ task.todo = {} /\ task.mode = "initial" /\ task.at \notin Recording
         /\ task.stops = {} /\ task.seen = {}
  BY DEF Idle, Recording

LEMMA RemainingType ==
  ASSUME TypeOK, NEW o \in Orders
  PROVE  Remaining(o) \in Nat
<1>1. rows[o] \in Order
  BY DEF TypeOK
<1> QED
  BY <1>1 DEF Remaining, Order

LEMMA ExitFlowOK ==
  ASSUME Inv, NEW a \in Nat
  PROVE  ExitFlow(a) \in Task /\ TaskOK(ExitFlow(a), ex)
<1> DEFINE k == [[Idle EXCEPT !.size = a, !.mode = task.mode] EXCEPT !.at = "checkAmount"]
<1>1. task \in Task /\ TaskOK(task, ex) /\ Idle \in Task /\ OpenStops(rows) \in SUBSET Orders
  BY IdleType DEF Inv, TypeOK, OpenStops
<1>2. k \in Task
  BY <1>1, LabelFacts DEF Task
<1>3. TaskOK(k, ex) /\ k.at \in Returns /\ k.at # "force"
  BY <1>1 DEF Idle, TaskOK, Returns, LoopReturns, Recording
<1>4. ExitFlow(a) = StopsFirst(k, OpenStops(rows))
  BY DEF ExitFlow
<1> HIDE DEF k
<1> QED
  BY <1>1, <1>2, <1>3, <1>4, StopsFirstType, StopsFirstOK

LEMMA ExitFlowInv ==
  ASSUME Inv, NEW a \in Nat, JustGo(ExitFlow(a)), task.at \notin Recording
  PROVE  Inv'
  BY ExitFlowOK, GoInv

LEMMA DoneInv ==
  ASSUME Inv, JustGo(Done), task.at \notin Recording
  PROVE  Inv'
  BY IdleType, GoInv

LEMMA MarketInv == Inv /\ Market => Inv'
<1> SUFFICES ASSUME Inv, NEW o \in Orders, ExchangeCancel(o) \/ \E n \in 1..ex[o].amount : Fill(o, n)
             PROVE  Inv'
  BY DEF Market
<1>1. ex \in [Orders -> Order] /\ ex[o] \in Order /\ TypeOK
  BY DEF Inv, TypeOK
<1>2. CASE ExchangeCancel(o)
  BY <1>1, <1>2, CancelMoves, ExchangeInv DEF ExchangeCancel
<1>3. ASSUME NEW n \in 1..ex[o].amount, Fill(o, n) PROVE Inv'
  <2> DEFINE f == ex[o].filled + n
             st == IF f = ex[o].amount THEN "closed" ELSE "open"
             new == [ex[o] EXCEPT !.filled = f, !.status = st]
  <2>1. ex[o].amount \in Nat /\ ex[o].filled \in Nat
    BY <1>1 DEF Order
  <2>2. ex[o].status = "open" /\ n \in 1..(ex[o].amount - ex[o].filled)
    BY <1>3 DEF Fill
  <2>3. ex[o].status = "open" /\ f \in Nat /\ f <= ex[o].amount
    BY <2>1, <2>2
  <2>4. st \in {"open", "closed"}
    OBVIOUS
  <2> HIDE DEF f, st
  <2>5. new \in Order /\ new.status \in {"open", "closed"} /\ ex[o].status = "open"
    BY <1>1, <2>3, <2>4 DEF Order, NonOpen
  <2>6. ex' = [ex EXCEPT ![o] = new]
    BY <1>1, <1>3 DEF Fill, Order, f, st
  <2> HIDE DEF new
  <2>7. ex' \in [Orders -> Order] /\ ExchangeMoves(ex, ex')
    BY <1>1, <2>5, <2>6 DEF ExchangeMoves
  <2> QED
    BY <1>3, <2>7, ExchangeInv DEF Fill
<1> QED
  BY <1>2, <1>3

LEMMA EntryInv ==
  ASSUME TradeAssumption, ~AdjustOrderPrice, Inv,
         CreateTrade \/ AdjustEntry \/ PlaceEntry \/ RefuseEntry
  PROVE  Inv'
<1>1. task \in Task /\ TaskOK(task, ex) /\ Stake \in Nat
  BY DEF Inv, TypeOK, TradeAssumption
<1>2. CASE CreateTrade
  <2> DEFINE k == [task EXCEPT !.at = "recordEntry"]
  <2>1. k \in Task /\ k.at \in Recording
    BY <1>1, LabelFacts DEF Task, Recording
  <2>2. /\ k.then \in Returns /\ k.after \in LoopReturns /\ k.todo = {}
        /\ k.then # "replaced" /\ k.mode # "replace" /\ task.at \notin Recording
    BY <1>1, <1>2, IdleFacts DEF CreateTrade, Returns, LoopReturns, Task
  <2>3. Placed("entry", Stake, k)
    BY <1>2 DEF CreateTrade
  <2> HIDE DEF k
  <2> QED
    BY <1>1, <2>1, <2>2, <2>3, PlacedInv
<1>3. CASE AdjustEntry
  <2>1. task = Idle /\ OpenOrders(rows) \in SUBSET Orders
        /\ \A o \in OpenOrders(rows) : ex[o].status # "none"
    BY <1>3 DEF AdjustEntry, OpenOrders, Inv, NeverAhead
  <2> DEFINE k == [task EXCEPT !.size = Stake, !.mode = "pos_adjust"]
             p == [k EXCEPT !.at = "placeEntry"]
             c == [k EXCEPT !.at = "cancelOpen", !.after = "placeEntry",
                            !.todo = OpenOrders(rows), !.repl = TRUE]
  <2>2. p \in Task /\ c \in Task
    BY <1>1, <2>1, LabelFacts DEF Task
  <2>3. TaskOK(p, ex)
    BY <2>1, <1>1 DEF Idle, TaskOK, Returns, LoopReturns, Recording
  <2>4. TaskOK(c, ex)
    BY <2>1, <1>1 DEF Idle, TaskOK, Returns, LoopReturns, Recording
  <2>5. JustGo(p) \/ JustGo(c)
    BY <1>3 DEF AdjustEntry, EntryFlow
  <2> HIDE DEF p, c
  <2> QED
    BY <2>1, <2>2, <2>3, <2>4, <2>5, IdleFacts, GoInv
<1>4. CASE PlaceEntry
  <2> DEFINE k == [task EXCEPT !.at = "recordEntry"]
  <2>1. k \in Task /\ k.at \in Recording
    BY <1>1, LabelFacts DEF Task, Recording
  <2>2. /\ k.then \in Returns /\ k.after \in LoopReturns /\ \A o \in k.todo : ex[o].status # "none"
        /\ k.then # "replaced" /\ k.mode # "replace" /\ task.at \notin Recording
        /\ task.size \in Nat
    BY <1>1, <1>4 DEF PlaceEntry, TaskOK, Recording, Task
  <2>3. Placed("entry", task.size, k)
    BY <1>4 DEF PlaceEntry, At
  <2> HIDE DEF k
  <2> QED
    BY <2>1, <2>2, <2>3, PlacedInv
<1>5. CASE RefuseEntry
  <2>1. JustGo(Done) /\ task.at \notin Recording
    BY <1>1, <1>5 DEF RefuseEntry, TaskOK, JustGo, Recording
  <2> QED
    BY <2>1, DoneInv
<1> QED
  BY <1>2, <1>3, <1>4, <1>5

\* execute_entry, after the exchange took the order.
LEMMA RecordEntryInv ==
  ASSUME ~AdjustOrderPrice, Inv, RecordEntry
  PROVE  Inv'
<1> DEFINE o == task.o
           s == task.snap
           u == Updated(rows, "open", amount, o, s, TRUE)
<1>1. task \in Task /\ TaskOK(task, ex) /\ rows \in [Orders -> Order] /\ amount \in Nat
      /\ ex \in [Orders -> Order]
  BY DEF Inv, TypeOK
<1>2. /\ task.at = "recordEntry" /\ task.at \in Recording /\ o \in Orders /\ s \in Order
      /\ ex[o].status # "none" /\ (ex[o].status = "open" => s.status = "open")
      /\ task.mode # "replace"
  BY <1>1 DEF RecordEntry, TaskOK, Recording, Task
<1>3. ExchangeMoves(ex, ex) /\ ex' = ex /\ unknown' = unknown /\ faults' = faults
      /\ unknown \in SUBSET Orders /\ faults \in 0..MaxFaults
  BY SameExchange DEF RecordEntry, Outside, Inv, TypeOK
<1>4. "open" \in States /\ trade \in States
  BY DEF States, Inv, TypeOK
<1>5. Recalculated(rows, amount) \in Nat
  BY <1>1 DEF Recalculated
<1>6. ASSUME Save([rows EXCEPT ![o] = s], "open", Recalculated(rows, amount)), task' = Done
      PROVE  Inv'
  <2> DEFINE r == [rows EXCEPT ![o] = s]
             a == Recalculated(rows, amount)
  <2>1. r \in [Orders -> Order] /\ Save(r, "open", a) /\ a \in Nat
    BY <1>1, <1>2, <1>5, <1>6
  <2> HIDE DEF r, a
  <2>2. /\ rows' \in [Orders -> Order] /\ trade' \in States /\ amount' \in Nat
        /\ db' \in [rows : [Orders -> Order], trade : States, amount : Nat]
        /\ rows' = r /\ db'.rows = rows'
    BY <1>4, <2>1, SaveType
  <2>3. /\ rows' \in [Orders -> Order] /\ trade' \in States /\ amount' \in Nat
        /\ db' \in [rows : [Orders -> Order], trade : States, amount : Nat]
        /\ rows' = [rows EXCEPT ![o] = s] /\ db'.rows = rows'
    BY <2>2 DEF r
  <2>4. task' \in Task /\ TaskOK(task', ex')
    BY <1>3, <1>6, IdleType
  <2> QED
    BY <1>1, <1>2, <1>3, <2>3, <2>4, RowInv
<1>7. CASE s.status = "expired" /\ s.filled = 0 /\ task' = Done /\ Bot
  <2>1. TypeOK' /\ TaskOK(task', ex')
    BY <1>3, <1>7, IdleType DEF Inv, TypeOK, Bot
  <2>2. KnownOrders'
    BY <1>2, <1>3, <1>7 DEF Inv, KnownOrders, Bot
  <2>3. NeverAhead(rows', ex') /\ NeverAhead(db'.rows, ex')
    BY <1>3, <1>7 DEF Inv, NeverAhead, Bot
  <2> QED
    BY <2>1, <2>2, <2>3 DEF Inv
<1>8. CASE s.status = "canceled" /\ Open(rows) = {} /\ DeleteTrade
  <2>1. \A p \in Orders : ex'[p].status = "open" => rows[p].status # "open"
    BY <1>8 DEF Open
  <2> QED
    BY <1>1, <1>2, <1>3, <1>8, <2>1, DeleteInv
<1>9. CASE /\ s.status \in NonOpen
           /\ Save(u.rows, u.trade, u.amount)
           /\ task' = StopsFirst(Done, StopsToCancel(u, s, TRUE))
  <2>1. u.rows = [rows EXCEPT ![o] = s]
    BY <1>9 DEF Updated
  <2>2. u.rows \in [Orders -> Order] /\ u.trade \in States /\ u.amount \in Nat
    BY <1>1, <1>2, <1>4, UpdatedType
  <2>3. StopsToCancel(u, s, TRUE) \in SUBSET Orders
    BY DEF StopsToCancel, OpenStops
  <2>4. task' \in Task /\ TaskOK(task', ex')
    <3>1. Done \in Task /\ TaskOK(Done, ex)
      BY IdleType
    <3>2. Done.at \in Returns /\ Done.at # "force"
      BY DEF Done, Idle, Returns
    <3> HIDE DEF u, s
    <3> QED
      BY <1>3, <1>9, <2>3, <3>1, <3>2, StopsFirstType, StopsFirstOK
  <2>5. /\ rows' \in [Orders -> Order] /\ trade' \in States /\ amount' \in Nat
        /\ db' \in [rows : [Orders -> Order], trade : States, amount : Nat]
        /\ rows' = [rows EXCEPT ![o] = s] /\ db'.rows = rows'
    BY <1>9, <2>1, <2>2, SaveType
  <2> QED
    BY <1>1, <1>2, <1>3, <2>4, <2>5, RowInv
<1> QED
  BY <1>2, <1>6, <1>7, <1>8, <1>9 DEF RecordEntry
\* An order that was fetched becomes the one the handler is about.
LEMMA ToCancelOK ==
  ASSUME ~AdjustOrderPrice, Inv, NEW o \in Orders, ex[o].status # "none",
         NEW todo \in SUBSET task.todo, NEW then \in {"managed", "cancelOpen", "force"}
  PROVE  LET k == [task EXCEPT !.at = "cancel", !.then = then, !.o = o,
                               !.snap = Snapshot(o), !.todo = todo]
         IN k \in Task /\ TaskOK(k, ex)
<1> DEFINE k == [task EXCEPT !.at = "cancel", !.then = then, !.o = o,
                             !.snap = Snapshot(o), !.todo = todo]
<1>1. task \in Task /\ TaskOK(task, ex) /\ Snapshot(o) \in Order /\ Snapshot(o).status = ex[o].status
      /\ task.todo \in SUBSET Orders
  BY SnapshotFacts DEF Inv, TypeOK, Task
<1>2. k \in Task
  BY <1>1, LabelFacts DEF Task
<1>3. /\ k.at = "cancel" /\ k.then = then /\ k.o = o /\ k.snap = Snapshot(o) /\ k.todo = todo
      /\ k.after = task.after /\ k.mode = task.mode
  BY <1>1 DEF Task
<1> HIDE DEF k
<1>4. TaskOK(k, ex)
  BY <1>1, <1>3 DEF TaskOK, Returns
<1> QED
  BY <1>2, <1>4 DEF k

LEMMA ManageOpenOrderInv ==
  ASSUME ~AdjustOrderPrice, Inv, NEW o \in Orders, ManageOpenOrder(o)
  PROVE  Inv'
<1> DEFINE s == Snapshot(o)
           k == [task EXCEPT !.o = o, !.snap = s, !.at = "cancel"]
           c == [k EXCEPT !.then = "managed"]
<1>1. task = Idle /\ task.at \notin Recording /\ task.at # "cancel" /\ rows[o].status = "open" /\ TypeOK
  BY IdleFacts DEF ManageOpenOrder, OpenOrders, Inv
<1>2. s \in Order /\ s.status = ex[o].status /\ s.status # "none"
  BY <1>1, SnapshotFacts DEF Inv, NeverAhead
<1>3. ExchangeMoves(ex, ex) /\ ex' = ex /\ ex \in [Orders -> Order] /\ unknown' = unknown
      /\ faults' = faults /\ unknown \in SUBSET Orders
  BY SameExchange DEF ManageOpenOrder, Outside, Inv, TypeOK
<1>4. ASSUME UpdateTradeState(o, s, TRUE, Done) PROVE Inv'
  <2>1. Done \in Task /\ TaskOK(Done, ex') /\ Done.at \in Returns /\ Done.at # "force"
    BY <1>3, IdleType DEF Done, Idle, Returns
  <2> HIDE DEF s
  <2> QED
    BY <1>1, <1>2, <1>3, <1>4, <2>1, UpdateInv
<1>5. ASSUME UpdateTradeState(o, s, TRUE, c), s.status = "open" PROVE Inv'
  <2>1. c = [task EXCEPT !.at = "cancel", !.then = "managed", !.o = o,
                         !.snap = Snapshot(o), !.todo = task.todo]
    BY <1>1 DEF Idle
  <2>2. c \in Task /\ TaskOK(c, ex)
    BY <1>2, <2>1, ToCancelOK
  <2>3. c.at = "cancel"
    BY <1>1 DEF Idle
  <2> HIDE DEF c, s
  <2> QED
    BY <1>1, <1>2, <1>3, <1>5, <2>2, <2>3, UpdateInv
<1>6. ASSUME CanceledEntry(o, s, FALSE, Done), CanceledEmpty(s) PROVE Inv'
  <2>1. s.status \in NonOpen /\ ex'[o].status # "none" /\ ex'[o].status # "open"
    BY <1>2, <1>3, <1>6 DEF CanceledEmpty, NonOpen
  <2>2. Done \in Task /\ TaskOK(Done, ex') /\ Done.at \in Returns /\ Done.at # "force"
    BY <1>3, IdleType DEF Done, Idle, Returns
  <2> HIDE DEF s
  <2> QED
    BY <1>1, <1>2, <1>3, <1>6, <2>1, <2>2, CanceledInv
<1> QED
  BY <1>4, <1>5, <1>6 DEF ManageOpenOrder

\* Back from the cancel handler, whatever it returns.
LEMMA ReturnOK ==
  ASSUME Inv, NEW e, ExchangeMoves(ex, e), task.at = "cancel", NEW b \in {TRUE, FALSE}
  PROVE  /\ Return(b).o \in Orders /\ At(task.then).o \in Orders
         /\ Return(b) \in Task /\ TaskOK(Return(b), e) /\ Return(b).at \in Returns
         /\ At(task.then) \in Task /\ TaskOK(At(task.then), e) /\ At(task.then).at \in Returns
<1>1. task \in Task /\ TaskOK(task, ex) /\ task.then \in Returns /\ task.then \in Labels
      /\ task.o \in Orders
  BY DEF Inv, TypeOK, TaskOK, Task
<1> DEFINE k == At(task.then)
           r == Return(b)
<1>2. k \in Task /\ r \in Task
  BY <1>1 DEF At, Return, Task
<1>3. /\ k.at = task.then /\ k.then = task.then /\ k.after = task.after /\ k.o = task.o
      /\ k.todo = task.todo /\ k.mode = task.mode
      /\ r.at = task.then /\ r.then = task.then /\ r.after = task.after /\ r.o = task.o
      /\ r.todo = task.todo /\ r.mode = task.mode
  BY <1>1 DEF At, Return, Task
<1> HIDE DEF k, r
<1>4. k.at \notin Recording /\ k.at # "cancel" /\ r.at \notin Recording /\ r.at # "cancel"
  BY <1>1, <1>3 DEF Returns, Recording
<1>5. TaskOK(k, ex) /\ TaskOK(r, ex)
  BY <1>1, <1>3, <1>4 DEF TaskOK
<1>6. TaskOK(k, e) /\ TaskOK(r, e)
  BY <1>2, <1>5, TaskMoves
<1> QED
  BY <1>1, <1>2, <1>3, <1>6 DEF k, r

LEMMA CancelInv ==
  ASSUME ~AdjustOrderPrice, Missing \subseteq NonOpen, Inv,
         RefuseCancel \/ AlreadyCanceled \/ CancelOrder
  PROVE  Inv'
<1>1. /\ task.at = "cancel" /\ task.at \notin Recording /\ task.o \in Orders
      /\ task.snap \in Order /\ ex[task.o].status # "none"
      /\ (ex[task.o].status = "open" => task.snap.status = "open")
      /\ TypeOK /\ ex \in [Orders -> Order] /\ rows \in [Orders -> Order]
      /\ unknown \in SUBSET Orders
  BY DEF RefuseCancel, AlreadyCanceled, CancelOrder, Inv, TypeOK, TaskOK, Task, Recording
<1>2. ExchangeMoves(ex, ex)
  BY SameExchange
<1>3. CASE RefuseCancel
  BY <1>1, <1>2, <1>3, ReturnOK, GoInv DEF RefuseCancel
<1>4. CASE AlreadyCanceled
  <2>1. ex' = ex /\ unknown' = unknown /\ faults' = faults
        /\ ex'[task.o].status # "open" /\ ex'[task.o].status # "none" /\ task.snap.status \in NonOpen
    BY <1>1, <1>4 DEF AlreadyCanceled, Outside, NonOpen
  <2>2. CASE CanceledEntry(task.o, task.snap, task.repl, At(task.then))
    BY <1>1, <1>2, <2>1, <2>2, ReturnOK, CanceledInv
  <2>3. CASE UpdateTradeState(task.o, task.snap, TRUE, Return(FALSE))
    BY <1>1, <1>2, <2>1, <2>3, ReturnOK, UpdateInv
  <2> QED
    BY <1>4, <2>2, <2>3 DEF AlreadyCanceled
<1>5. ASSUME NEW s \in Order, HandleCanceled(task.o, s), s.status # "none",
             ex' \in [Orders -> Order], ExchangeMoves(ex, ex'),
             ex'[task.o].status = "open" => s.status = "open",
             unknown' = unknown, faults' = faults
      PROVE  Inv'
  <2>1. ex'[task.o].status # "none"
    BY <1>1, <1>5 DEF ExchangeMoves
  <2>2. CASE UpdateTradeState(task.o, s, TRUE, Return(TRUE))
    BY <1>1, <1>5, <2>1, <2>2, ReturnOK, UpdateInv
  <2>3. CASE task' = Return(FALSE) /\ Bot
    <3>1. TaskOK(task', ex') /\ TypeOK'
      BY <1>1, <1>5, <2>3, ReturnOK DEF TypeOK, Bot
    <3>2. KnownOrders'
      BY <1>1, <1>5, <2>3 DEF Inv, KnownOrders, Bot, ExchangeMoves
    <3>3. NeverAhead(rows', ex') /\ NeverAhead(db'.rows, ex')
      BY <1>5, <2>3 DEF Inv, NeverAhead, Bot, ExchangeMoves
    <3> QED
      BY <3>1, <3>2, <3>3 DEF Inv
  <2>4. CASE s.status # "open" /\ CanceledEntry(task.o, s, task.repl, At(task.then))
    <3>1. s.status \in NonOpen
      BY <1>5, <2>4 DEF Order, NonOpen
    <3> QED
      BY <1>1, <1>5, <2>1, <2>4, <3>1, ReturnOK, CanceledInv
  <2> QED
    BY <1>5, <2>2, <2>3, <2>4 DEF HandleCanceled
<1>6. CASE CancelOrder
  <2> DEFINE o == task.o
  <2>1. CASE ex' = CancelOnExchange(o) /\ HandleCanceled(o, [ex'[o] EXCEPT !.side = rows[o].side])
    <3>1. ex' \in [Orders -> Order] /\ ExchangeMoves(ex, ex') /\ ex'[o].status # "none"
      BY <1>1, <2>1, CancelMoves DEF ExchangeMoves
    <3>2. [ex'[o] EXCEPT !.side = rows[o].side] \in Order
          /\ [ex'[o] EXCEPT !.side = rows[o].side].status = ex'[o].status
      BY <1>1, <3>1 DEF Order
    <3> QED
      BY <1>5, <1>6, <2>1, <3>1, <3>2 DEF CancelOrder
  <2>2. CASE ex' = ex /\ HandleCanceled(o, Snapshot(o))
    BY <1>1, <1>2, <1>5, <1>6, <2>2, SnapshotFacts DEF CancelOrder
  <2>3. CASE ex' = CancelOnExchange(o) /\ HandleCanceled(o, Fabricated(o))
    <3>1. ex' \in [Orders -> Order] /\ ExchangeMoves(ex, ex') /\ ex'[o].status # "open"
      BY <1>1, <2>3, CancelMoves
    <3> DEFINE left == rows[o].amount - rows[o].filled
    <3>2. rows[o] \in Order /\ left \in Nat /\ 0 <= left
      BY <1>1 DEF Order
    <3>3. Fabricated(o) = [rows[o] EXCEPT !.status = "canceled", !.filled = 0, !.amount = left]
      BY DEF Fabricated
    <3> HIDE DEF left
    <3>4. rows[o].side \in {"none", "entry", "exit", "stoploss"}
      BY <3>2 DEF Order
    <3>5. Fabricated(o) = [side |-> rows[o].side, amount |-> left, filled |-> 0, status |-> "canceled"]
      BY <3>2, <3>3 DEF Order
    <3>6. Fabricated(o) \in Order /\ Fabricated(o).status = "canceled"
      BY <3>2, <3>4, <3>5 DEF Order, NonOpen
    <3> QED
      BY <1>5, <1>6, <2>3, <3>1, <3>6 DEF CancelOrder
  <2> QED
    BY <1>6, <2>1, <2>2, <2>3 DEF CancelOrder
<1> QED
  BY <1>3, <1>4, <1>6

LEMMA LoopInv ==
  ASSUME ~AdjustOrderPrice, Inv,
         \/ Managed \/ Replaced \/ CancelledOpen \/ CancelAllOpenOrders
         \/ \E o \in Orders : CancelNextOpen(o) \/ RpcCancelOpenOrder(o)
  PROVE  Inv'
<1>1. task \in Task /\ TaskOK(task, ex) /\ TypeOK /\ task.at \notin Recording
  BY IdleFacts DEF Inv, TypeOK, Managed, Replaced, CancelledOpen, CancelAllOpenOrders,
                   CancelNextOpen, RpcCancelOpenOrder, Recording
<1>2. OpenOrders(rows) \in SUBSET Orders /\ \A o \in OpenOrders(rows) : ex[o].status # "none"
  BY DEF OpenOrders, Inv, NeverAhead
<1>3. CASE Managed
  <2>1. task.o \in Orders
    BY <1>1, <1>3 DEF Managed, TaskOK
  <2> QED
    BY <1>1, <1>3, <2>1, RemainingType, ExitFlowInv, DoneInv DEF Managed
<1>4. CASE Replaced
  BY <1>1, <1>4 DEF Replaced, TaskOK
<1>5. CASE CancelledOpen
  <2>1. At(task.after) \in Task
    BY <1>1 DEF At, Task
  <2>2. /\ At(task.after).at = task.after /\ At(task.after).then = task.then
        /\ At(task.after).after = task.after /\ At(task.after).o = task.o
        /\ At(task.after).todo = task.todo /\ At(task.after).mode = task.mode
    BY <1>1 DEF At, Task
  <2>3. task.after \in LoopReturns /\ task.after \notin {"cancel", "managed", "replaced", "force"} \cup Recording
    BY <1>1 DEF TaskOK, LoopReturns, Recording
  <2>4. TaskOK(At(task.after), ex)
    BY <1>1, <2>2, <2>3 DEF TaskOK
  <2> QED
    BY <1>1, <1>5, <2>1, <2>4, GoInv DEF CancelledOpen
<1>6. CASE CancelAllOpenOrders
  <2> DEFINE k == [task EXCEPT !.at = "cancelOpen", !.after = "commit", !.todo = OpenOrders(rows)]
  <2>1. k \in Task
    BY <1>1, <1>2, LabelFacts DEF Task
  <2>2. TaskOK(k, ex)
    BY <1>2, <1>6, <1>1 DEF CancelAllOpenOrders, Idle, TaskOK, Returns, LoopReturns, Recording
  <2> QED
    BY <1>1, <1>6, <2>1, <2>2, GoInv DEF CancelAllOpenOrders
<1>7. ASSUME NEW o \in Orders, CancelNextOpen(o) PROVE Inv'
  <2> DEFINE rest == [task EXCEPT !.todo = task.todo \ {o}]
             k == [task EXCEPT !.at = "cancel", !.then = "cancelOpen", !.o = o,
                               !.snap = Snapshot(o), !.todo = task.todo \ {o}]
  <2>1. rest \in Task
    BY <1>1 DEF Task
  <2>2. TaskOK(rest, ex)
    BY <1>1 DEF Task, TaskOK
  <2>3. k \in Task /\ TaskOK(k, ex)
    BY <1>1, <1>7, ToCancelOK DEF CancelNextOpen, TaskOK
  <2>4. k = [rest EXCEPT !.at = "cancel", !.then = "cancelOpen", !.o = o, !.snap = Snapshot(o)]
    BY <1>1 DEF Task
  <2>5. JustGo(rest) \/ JustGo(k)
    BY <1>7, <2>4 DEF CancelNextOpen
  <2> HIDE DEF rest, k
  <2> QED
    BY <1>1, <2>1, <2>2, <2>3, <2>5, GoInv
<1>8. ASSUME NEW o \in Orders, RpcCancelOpenOrder(o) PROVE Inv'
  <2> DEFINE k == [task EXCEPT !.at = "cancel", !.then = "managed", !.o = o,
                               !.snap = Snapshot(o), !.todo = task.todo]
  <2>1. k \in Task /\ TaskOK(k, ex)
    BY <1>2, <1>8, ToCancelOK DEF RpcCancelOpenOrder
  <2>2. k = [task EXCEPT !.at = "cancel", !.then = "managed", !.o = o, !.snap = Snapshot(o)]
    BY <1>1 DEF Task
  <2>3. JustGo(k)
    BY <1>8, <2>2 DEF RpcCancelOpenOrder
  <2> HIDE DEF k
  <2> QED
    BY <1>1, <2>1, <2>3, GoInv
<1> QED
  BY <1>3, <1>4, <1>5, <1>6, <1>7, <1>8

LEMMA BeginExitInv ==
  ASSUME ~AdjustOrderPrice, Inv, ExitSignal \/ AdjustExit \/ ForceExit \/ ForceExitNow
  PROVE  Inv'
<1>1. task \in Task /\ TaskOK(task, ex) /\ amount \in Nat /\ task.at \notin Recording
  BY IdleFacts DEF Inv, TypeOK, ExitSignal, AdjustExit, ForceExit, ForceExitNow, Recording
<1>2. OpenOrders(rows) \in SUBSET Orders /\ \A o \in OpenOrders(rows) : ex[o].status # "none"
  BY DEF OpenOrders, Inv, NeverAhead
<1>3. CASE ExitSignal
  BY <1>1, <1>3, ExitFlowInv DEF ExitSignal
<1>4. CASE AdjustExit
  <2>1. PICK a \in 1..amount : JustGo(ExitFlow(a))
    BY <1>4 DEF AdjustExit
  <2>2. a \in Nat
    BY <1>1
  <2> QED
    BY <1>1, <2>1, <2>2, ExitFlowInv
<1>5. CASE ForceExit
  <2> DEFINE k == [task EXCEPT !.at = "force", !.todo = OpenOrders(rows)]
  <2>1. k \in Task
    BY <1>1, <1>2, LabelFacts DEF Task
  <2>2. TaskOK(k, ex)
    BY <1>2, <1>5 DEF ForceExit, Idle, TaskOK, Returns, LoopReturns, Recording
  <2> QED
    BY <1>1, <1>5, <2>1, <2>2, GoInv DEF ForceExit
<1>6. CASE ForceExitNow
  <2>1. JustGo(Done) \/ JustGo(ExitFlow(0))
    BY <1>6 DEF ForceExitNow
  <2> QED
    BY <1>1, <2>1, ExitFlowInv, DoneInv
<1> QED
  BY <1>3, <1>4, <1>5, <1>6

LEMMA ForceNextInv ==
  ASSUME ~AdjustOrderPrice, Inv, NEW o \in Orders, ForceNext(o)
  PROVE  Inv'
<1> DEFINE seen == task.seen \cup (IF task.res THEN {task.o} ELSE {})
           c == [task EXCEPT !.at = "cancel", !.then = "force", !.o = o,
                             !.snap = Snapshot(o), !.todo = task.todo \ {o}]
           k == [task EXCEPT !.at = "cancel", !.then = "force", !.o = o, !.todo = task.todo \ {o},
                             !.seen = seen, !.snap = Snapshot(o)]
<1>1. task \in Task /\ TaskOK(task, ex) /\ task.at = "force" /\ task.at \notin Recording
      /\ task.todo \in SUBSET Orders
  BY DEF Inv, TypeOK, ForceNext, Recording, Task
<1>2. c \in Task /\ TaskOK(c, ex)
  BY <1>1, ToCancelOK DEF ForceNext, TaskOK
<1>3. JustGo(Done) \/ JustGo(k)
  BY DEF ForceNext
<1>4. seen \in SUBSET Orders
  BY <1>1 DEF TaskOK, Task
<1> HIDE DEF seen
<1>5. k = [c EXCEPT !.seen = seen]
  BY <1>1 DEF Task
<1>6. k \in Task /\ TaskOK(k, ex)
  BY <1>2, <1>4, <1>5 DEF Task, TaskOK
<1> HIDE DEF k, c
<1> QED
  BY <1>1, <1>3, <1>6, GoInv, DoneInv

LEMMA ExitInv ==
  ASSUME TradeAssumption, ~AdjustOrderPrice, Inv,
         CheckExitAmount \/ PlaceExit \/ RefuseExit \/ RecordExit
  PROVE  Inv'
<1>1. task \in Task /\ TaskOK(task, ex) /\ amount \in Nat /\ TypeOK
  BY DEF Inv, TypeOK
<1>2. /\ OpenOrders(rows) \in SUBSET Orders /\ \A o \in OpenOrders(rows) : ex[o].status # "none"
      /\ Open(rows) \in SUBSET Orders /\ \A o \in Open(rows) : ex[o].status # "none"
  BY DEF OpenOrders, Open, Inv, NeverAhead
<1>3. CASE CheckExitAmount
  <2> DEFINE want == IF task.size = 0 THEN amount ELSE task.size
             k == [task EXCEPT !.size = want]
             p == [k EXCEPT !.at = "placeExit"]
             c == [k EXCEPT !.at = "cancelOpen", !.after = "placeExit",
                            !.todo = OpenOrders(rows), !.repl = TRUE]
  <2>1. JustGo(Done) \/ JustGo(p) \/ JustGo(c)
    BY <1>3 DEF CheckExitAmount
  <2>2. want \in Nat
    BY <1>1 DEF Task
  <2> HIDE DEF want
  <2>3. p \in Task /\ c \in Task
    BY <1>1, <1>2, <2>2, LabelFacts DEF Task
  <2>4. task.at = "checkAmount" /\ task.at \notin Recording
    BY <1>3 DEF CheckExitAmount, Recording
  <2>5. /\ p.at = "placeExit" /\ p.then = task.then /\ p.after = task.after /\ p.o = task.o
        /\ p.todo = task.todo /\ p.mode = task.mode
        /\ c.at = "cancelOpen" /\ c.then = task.then /\ c.after = "placeExit" /\ c.o = task.o
        /\ c.todo = OpenOrders(rows) /\ c.mode = task.mode
    BY <1>1 DEF Task
  <2> HIDE DEF p, c
  <2>6. TaskOK(p, ex) /\ TaskOK(c, ex)
    BY <1>1, <1>2, <2>5 DEF TaskOK, LoopReturns, Recording
  <2> QED
    BY <2>1, <2>3, <2>4, <2>6, GoInv, DoneInv
<1>4. CASE PlaceExit
  <2> DEFINE k == [task EXCEPT !.at = "recordExit"]
  <2>1. k \in Task /\ k.at \in Recording
    BY <1>1, LabelFacts DEF Task, Recording
  <2>2. /\ k.then \in Returns /\ k.after \in LoopReturns /\ \A o \in k.todo : ex[o].status # "none"
        /\ k.then # "replaced" /\ k.mode # "replace" /\ task.at \notin Recording
        /\ task.size \in Nat
    BY <1>1, <1>4 DEF PlaceExit, TaskOK, Recording, Task
  <2>3. Placed("exit", task.size, k)
    BY <1>4 DEF PlaceExit, At
  <2> HIDE DEF k
  <2> QED
    BY <2>1, <2>2, <2>3, PlacedInv
<1>5. CASE RefuseExit
  <2> DEFINE k == [Idle EXCEPT !.at = "refind", !.todo = Open(rows)]
  <2>1. k \in Task
    BY <1>2, IdleType, LabelFacts DEF Task
  <2>2. TaskOK(k, ex)
    BY <1>2 DEF Idle, TaskOK, Returns, LoopReturns, Recording
  <2>3. (JustGo(k) \/ JustGo(Done)) /\ task.at \notin Recording
    BY <1>5 DEF RefuseExit, Recording
  <2> HIDE DEF k
  <2> QED
    BY <2>1, <2>2, <2>3, GoInv, DoneInv
<1>6. CASE RecordExit
  <2> DEFINE o == task.o
             s == task.snap
  <2>1. /\ task.at \in Recording /\ o \in Orders /\ s \in Order
        /\ ex[o].status # "none" /\ (ex[o].status = "open" => s.status = "open")
    BY <1>1, <1>6 DEF RecordExit, TaskOK, Recording, Task
  <2>2. ExchangeMoves(ex, ex) /\ ex' = ex /\ ex \in [Orders -> Order] /\ unknown' = unknown
        /\ faults' = faults /\ unknown \in SUBSET Orders /\ faults \in 0..MaxFaults
    BY <1>6, SameExchange DEF RecordExit, Outside, Inv, TypeOK
  <2>3. Done \in Task /\ TaskOK(Done, ex') /\ Done.at \in Returns /\ Done.at # "force"
    BY <2>2, IdleType DEF Done, Idle, Returns
  <2>4. CASE UpdateTradeState(o, s, TRUE, Done)
    <3> HIDE DEF s
    <3> QED
      BY <2>1, <2>2, <2>3, <2>4, UpdateInv
  <2>5. CASE Save([rows EXCEPT ![o] = s], trade, amount) /\ task' = Done
    <3> DEFINE r == [rows EXCEPT ![o] = s]
    <3>1. r \in [Orders -> Order] /\ Save(r, trade, amount) /\ trade \in States
      BY <1>1, <2>1, <2>5 DEF TypeOK
    <3> HIDE DEF r
    <3>2. /\ rows' \in [Orders -> Order] /\ trade' \in States /\ amount' \in Nat
          /\ db' \in [rows : [Orders -> Order], trade : States, amount : Nat]
          /\ rows' = r /\ db'.rows = rows'
      BY <1>1, <3>1, SaveType
    <3>3. rows' = [rows EXCEPT ![o] = s]
      BY <3>2 DEF r
    <3> QED
      BY <2>1, <2>2, <2>3, <2>5, <3>2, <3>3, RowInv
  <2> QED
    BY <1>6, <2>4, <2>5 DEF RecordExit
<1> QED
  BY <1>3, <1>4, <1>5, <1>6

\* A loop that applies what fetch_order says of one order after the other.
LEMMA RestOK ==
  ASSUME Inv, NEW o
  PROVE  LET rest == [task EXCEPT !.todo = task.todo \ {o}]
         IN rest \in Task /\ TaskOK(rest, ex) /\ rest.at = task.at /\ rest.o = task.o
<1>1. task \in Task /\ TaskOK(task, ex)
  BY DEF Inv, TypeOK
<1> QED
  BY <1>1 DEF Task, TaskOK

LEMMA FetchInv ==
  ASSUME Inv, NEW o \in Orders, NEW k \in Task, NEW sending,
         UpdateTradeState(o, Snapshot(o), sending, k), TaskOK(k, ex),
         k.at \in Returns, k.at # "force", ex[o].status # "none",
         ex' = ex, faults' = faults,
         unknown' = unknown \/ unknown' = unknown \ {o}, task.at \notin Recording
  PROVE  Inv'
<1>1. /\ Snapshot(o) \in Order /\ Snapshot(o).status = ex[o].status
      /\ ExchangeMoves(ex, ex') /\ ex' \in [Orders -> Order]
      /\ unknown' \in SUBSET Orders /\ unknown \ {o} \subseteq unknown'
  BY SnapshotFacts, SameExchange DEF Inv, TypeOK
<1> QED
  BY <1>1, UpdateInv

LEMMA RefindInv ==
  ASSUME Inv, Refound \/ Started \/ \E o \in Orders : Refind(o) \/ AdoptOrder(o)
  PROVE  Inv'
<1>1. task \in Task /\ TaskOK(task, ex) /\ task.at \notin Recording
  BY DEF Inv, TypeOK, Refound, Started, Refind, AdoptOrder, Recording
<1>2. CASE Refound \/ Started
  BY <1>1, <1>2, DoneInv DEF Refound, Started
<1>3. ASSUME NEW o \in Orders, Refind(o) PROVE Inv'
  <2> DEFINE rest == [task EXCEPT !.todo = task.todo \ {o}]
  <2>1. rest \in Task /\ TaskOK(rest, ex) /\ rest.at = "refind" /\ rest.at \in Returns
    BY <1>3, RestOK DEF Refind, Returns
  <2>2. ex[o].status # "none"
    BY <1>1, <1>3 DEF Refind, TaskOK
  <2>3. (UpdateTradeState(o, Snapshot(o), TRUE, rest) /\ Outside) \/ JustGo(rest)
    BY <1>3 DEF Refind, JustGo
  <2> HIDE DEF rest
  <2> QED
    BY <1>1, <2>1, <2>2, <2>3, FetchInv, GoInv DEF Outside
<1>4. ASSUME NEW o \in Orders, AdoptOrder(o) PROVE Inv'
  <2> DEFINE rest == [task EXCEPT !.todo = task.todo \ {o}]
  <2>1. rest \in Task /\ TaskOK(rest, ex) /\ rest.at = "adopt" /\ rest.at \in Returns
    BY <1>4, RestOK DEF AdoptOrder, Returns
  <2>2. ex[o].status # "none"
    BY <1>1, <1>4 DEF AdoptOrder, TaskOK
  <2>3. UpdateTradeState(o, Snapshot(o), FALSE, rest)
    BY <1>4 DEF AdoptOrder
  <2> HIDE DEF rest
  <2> QED
    BY <1>1, <1>4, <2>1, <2>2, <2>3, FetchInv DEF AdoptOrder
<1> QED
  BY <1>2, <1>3, <1>4

LEMMA CancelStopInv ==
  ASSUME Inv, NEW o \in Orders, CancelStop(o)
  PROVE  Inv'
<1> DEFINE to == IF task.stops = {o} THEN task.then ELSE "stops"
           rest == [task EXCEPT !.at = to, !.stops = task.stops \ {o}]
<1>1. /\ task \in Task /\ TaskOK(task, ex) /\ TypeOK /\ task.at = "stops" /\ task.at \notin Recording
      /\ unknown \in SUBSET Orders /\ unknown' = unknown /\ faults' = faults
      /\ rows \in [Orders -> Order] /\ ex \in [Orders -> Order]
  BY DEF Inv, TypeOK, CancelStop, Recording
<1>2. to \in {task.then, "stops"} /\ to \in Labels
  BY <1>1, LabelFacts DEF Task
<1> HIDE DEF to
<1>3. rest \in Task
  BY <1>1, <1>2 DEF Task
<1>4. /\ rest.at = to /\ rest.then = task.then /\ rest.after = task.after /\ rest.o = task.o
      /\ rest.todo = task.todo /\ rest.mode = task.mode
  BY <1>1 DEF Task
<1> HIDE DEF rest
<1>5. to \notin Recording /\ to # "cancel" /\ to \in Returns \cup {"stops"}
  BY <1>1, <1>2 DEF TaskOK, Returns, Recording
<1>6. (to = "force" => task.o \in Orders) /\ (to = "managed" => task.o \in Orders)
      /\ (to = "replaced" => task.o \in Orders /\ task.then = "replaced")
  BY <1>1, <1>2 DEF TaskOK
<1>7. TaskOK(rest, ex)
  BY <1>1, <1>4, <1>5, <1>6 DEF TaskOK
<1>8. CASE ex' = ex /\ task' = rest /\ Bot
  <2>1. JustGo(rest)
    BY <1>1, <1>8 DEF JustGo, Outside
  <2> QED
    BY <1>1, <1>3, <1>7, <2>1, GoInv
<1>9. ASSUME NEW s \in Order, ex' = CancelOnExchange(o), ex[o].status = "open",
             s.status # "open", UpdateTradeState(o, s, TRUE, rest)
      PROVE  Inv'
  <2>1. /\ ex' \in [Orders -> Order] /\ ExchangeMoves(ex, ex') /\ ex'[o].status # "open"
        /\ ex'[o].status # "none"
    BY <1>1, <1>9, CancelMoves DEF ExchangeMoves
  <2>2. TaskOK(rest, ex')
    BY <1>3, <1>7, <2>1, TaskMoves
  <2> QED
    BY <1>1, <1>3, <1>4, <1>5, <1>6, <1>9, <2>1, <2>2, UpdateInv
<1>10. CASE /\ ex[o].status = "open" /\ ex' = CancelOnExchange(o)
            /\ UpdateTradeState(o, [ex'[o] EXCEPT !.side = "stoploss"], TRUE, rest)
  <2>1. ex' \in [Orders -> Order] /\ ex'[o] \in Order /\ ex'[o].status # "open"
    BY <1>1, <1>10, CancelMoves
  <2>2. [ex'[o] EXCEPT !.side = "stoploss"] \in Order
        /\ [ex'[o] EXCEPT !.side = "stoploss"].status # "open"
    BY <2>1 DEF Order
  <2> QED
    BY <1>9, <1>10, <2>2
<1>11. CASE /\ ex[o].status = "open" /\ ex' = CancelOnExchange(o)
            /\ UpdateTradeState(o, [rows[o] EXCEPT !.status = "canceled"], TRUE, rest)
  <2>1. rows[o] \in Order
    BY <1>1
  <2>2. [rows[o] EXCEPT !.status = "canceled"] \in Order
        /\ [rows[o] EXCEPT !.status = "canceled"].status # "open"
    BY <2>1 DEF Order, NonOpen
  <2> QED
    BY <1>9, <1>11, <2>2
<1> QED
  BY <1>8, <1>10, <1>11 DEF CancelStop, rest, to

LEMMA StoplossInv ==
  ASSUME TradeAssumption, ~AdjustOrderPrice, Inv,
         \/ ManageStoploss \/ FetchedStops \/ PlaceStop \/ RefuseStop
         \/ \E o \in Orders : FetchStop(o)
  PROVE  Inv'
<1>1. /\ task \in Task /\ TaskOK(task, ex) /\ amount \in Nat /\ task.at \notin Recording
      /\ Idle \in Task
  BY IdleFacts, IdleType DEF Inv, TypeOK, ManageStoploss, FetchedStops, PlaceStop, RefuseStop,
                             FetchStop, Recording
<1>2. /\ OpenStops(rows) \in SUBSET Orders /\ \A o \in OpenStops(rows) : ex[o].status # "none"
      /\ Open(rows) \in SUBSET Orders /\ \A o \in Open(rows) : ex[o].status # "none"
  BY DEF OpenStops, Open, Inv, NeverAhead
<1>3. CASE ManageStoploss
  <2> DEFINE k == [task EXCEPT !.at = "fetchStops", !.todo = OpenStops(rows)]
  <2>1. k \in Task
    BY <1>1, <1>2, LabelFacts DEF Task
  <2>2. TaskOK(k, ex)
    BY <1>2, <1>3 DEF ManageStoploss, Idle, TaskOK, Returns, LoopReturns, Recording
  <2> QED
    BY <1>1, <1>3, <2>1, <2>2, GoInv DEF ManageStoploss
<1>4. ASSUME NEW o \in Orders, FetchStop(o) PROVE Inv'
  <2> DEFINE rest == [task EXCEPT !.todo = task.todo \ {o}]
             more == [rest EXCEPT !.seen = rest.seen \cup {o}]
  <2>1. rest \in Task /\ TaskOK(rest, ex) /\ rest.at = "fetchStops"
    BY <1>4, RestOK DEF FetchStop
  <2>2. more \in Task /\ TaskOK(more, ex) /\ more.at = "fetchStops"
    BY <2>1 DEF Task, TaskOK
  <2>3. Done \in Task /\ TaskOK(Done, ex) /\ Done.at = "commit"
    BY IdleType DEF Done, Idle
  <2>4. ex[o].status # "none"
    BY <1>1, <1>4 DEF FetchStop, TaskOK
  <2>5. \/ JustGo(rest)
        \/ Outside /\ (UpdateTradeState(o, Snapshot(o), TRUE, Done)
                       \/ UpdateTradeState(o, Snapshot(o), TRUE, more))
    BY <1>4 DEF FetchStop, JustGo
  <2>6. "fetchStops" \in Returns /\ "commit" \in Returns
    BY DEF Returns
  <2> HIDE DEF rest, more
  <2>7. CASE JustGo(rest)
    BY <1>1, <2>1, <2>7, GoInv
  <2>8. CASE Outside /\ UpdateTradeState(o, Snapshot(o), TRUE, Done)
    BY <1>1, <2>3, <2>4, <2>6, <2>8, FetchInv DEF Outside
  <2>9. CASE Outside /\ UpdateTradeState(o, Snapshot(o), TRUE, more)
    BY <1>1, <2>2, <2>4, <2>6, <2>9, FetchInv DEF Outside
  <2> QED
    BY <2>5, <2>7, <2>8, <2>9
<1>5. CASE FetchedStops
  <2> DEFINE p == [Idle EXCEPT !.at = "placeStop"]
  <2>1. p \in Task /\ p.at = "placeStop"
    BY <1>1, LabelFacts DEF Task
  <2>2. TaskOK(p, ex)
    BY DEF Idle, TaskOK, Returns, LoopReturns, Recording
  <2>3. PICK stops \in SUBSET Orders : JustGo(StopsFirst(p, stops)) \/ JustGo(Done)
    BY <1>2, <1>5 DEF FetchedStops
  <2>4. p.at \in Returns
    BY <2>1 DEF Returns
  <2> HIDE DEF p
  <2>5. StopsFirst(p, stops) \in Task /\ TaskOK(StopsFirst(p, stops), ex)
    BY <2>1, <2>2, <2>4, StopsFirstType, StopsFirstOK
  <2> QED
    BY <1>1, <2>3, <2>5, GoInv, DoneInv
<1>6. CASE PlaceStop
  <2> DEFINE k == [task EXCEPT !.at = "recordStop"]
  <2>1. k \in Task /\ k.at \in Recording
    BY <1>1, LabelFacts DEF Task, Recording
  <2>2. /\ k.then \in Returns /\ k.after \in LoopReturns /\ \A o \in k.todo : ex[o].status # "none"
        /\ k.then # "replaced" /\ k.mode # "replace"
    BY <1>1 DEF TaskOK, Task
  <2>3. Placed("stoploss", amount, k)
    BY <1>6 DEF PlaceStop, At
  <2> HIDE DEF k
  <2> QED
    BY <1>1, <2>1, <2>2, <2>3, PlacedInv
<1>7. CASE RefuseStop
  <2> DEFINE k == [Idle EXCEPT !.at = "refind", !.todo = Open(rows)]
  <2>1. k \in Task
    BY <1>1, <1>2, LabelFacts DEF Task
  <2>2. TaskOK(k, ex)
    BY <1>2 DEF Idle, TaskOK, Returns, LoopReturns, Recording
  <2>3. JustGo(k) \/ JustGo(Done) \/ JustGo(ExitFlow(0))
    BY <1>7 DEF RefuseStop
  <2> HIDE DEF k
  <2> QED
    BY <1>1, <2>1, <2>2, <2>3, GoInv, DoneInv, ExitFlowInv
<1> QED
  BY <1>3, <1>4, <1>5, <1>6, <1>7

LEMMA RecordStopInv ==
  ASSUME Inv, RecordStop
  PROVE  Inv'
<1>1. task \in Task /\ TaskOK(task, ex) /\ TypeOK /\ rows \in [Orders -> Order]
  BY DEF Inv, TypeOK
<1>2. /\ task.at \in Recording /\ task.o \in Orders /\ task.snap \in Order
      /\ ex[task.o].status # "none" /\ (ex[task.o].status = "open" => task.snap.status = "open")
  BY <1>1 DEF RecordStop, TaskOK, Recording, Task
<1>3. /\ ExchangeMoves(ex, ex) /\ ex' = ex /\ ex \in [Orders -> Order] /\ unknown' = unknown
      /\ faults' = faults /\ unknown \in SUBSET Orders /\ faults \in 0..MaxFaults
  BY SameExchange DEF RecordStop, Outside, Inv, TypeOK
<1>4. /\ rows' = [rows EXCEPT ![task.o] = task.snap] /\ rows' \in [Orders -> Order]
      /\ trade' \in States /\ amount' \in Nat /\ db' = db
      /\ db \in [rows : [Orders -> Order], trade : States, amount : Nat]
  BY <1>1, <1>2 DEF RecordStop, TypeOK
<1>5. task' \in Task /\ TaskOK(task', ex')
  BY <1>3, IdleType DEF RecordStop
<1> QED
  BY <1>2, <1>3, <1>4, <1>5, RowInv

LEMMA CommitInv ==
  ASSUME Inv, Commit
  PROVE  Inv'
<1>1. TypeOK' /\ TaskOK(task', ex')
  BY IdleType DEF Inv, TypeOK, Commit, Committed, Outside
<1>2. KnownOrders'
  BY DEF Inv, KnownOrders, Commit, Outside, Recording
<1>3. NeverAhead(rows', ex') /\ NeverAhead(db'.rows, ex')
  BY DEF Inv, NeverAhead, Commit, Committed, Outside
<1> QED
  BY <1>1, <1>2, <1>3 DEF Inv

\* Only a handler that places a new entry at another price catches an error.
LEMMA AbortGoes ==
  ASSUME ~AdjustOrderPrice, TaskOK(task, ex), Abort
  PROVE  JustGo(Done) /\ task.at \in {"cancel", "stops"}
  BY DEF Abort, TaskOK, JustGo

LEMMA ReloadInv ==
  ASSUME ~AdjustOrderPrice, Inv, ReloadTrade \/ Adopted \/ Abort
  PROVE  Inv'
<1>1. task \in Task /\ TaskOK(task, ex) /\ amount \in Nat /\ task.at \notin Recording
  BY IdleFacts DEF Inv, TypeOK, ReloadTrade, Adopted, Abort, Recording
<1>2. CASE ReloadTrade
  <2> DEFINE live == {o \in Orders : ex[o].status # "none"}
             k == [task EXCEPT !.at = "adopt", !.size = amount, !.todo = live]
  <2>1. JustGo(k) /\ live \in SUBSET Orders /\ task = Idle
    BY <1>2 DEF ReloadTrade
  <2>2. k \in Task
    BY <1>1, <2>1, LabelFacts DEF Task
  <2>3. TaskOK(k, ex)
    BY <2>1 DEF Idle, TaskOK, Returns, LoopReturns, Recording
  <2> HIDE DEF k
  <2> QED
    BY <1>1, <2>1, <2>2, <2>3, GoInv
<1>3. CASE Adopted
  <2> DEFINE Empty == \A o \in Orders : \/ rows[o].status = "none"
                                        \/ rows[o].side = "entry" /\ CanceledEmpty(rows[o])
  <2>1. CASE DeleteTrade /\ Empty
    <3>1. ex' = ex /\ ExchangeMoves(ex, ex) /\ ex \in [Orders -> Order]
          /\ unknown' = unknown /\ faults' = faults
      BY <1>3, SameExchange DEF Adopted, Outside, Inv, TypeOK
    <3>2. \A o \in Orders : rows[o].status # "open"
      BY <2>1 DEF CanceledEmpty, NonOpen
    <3> QED
      BY <1>1, <2>1, <3>1, <3>2, DeleteInv
  <2> DEFINE stops == IF trade = "open" /\ amount # task.size THEN OpenStops(rows) ELSE {}
             k == StopsFirst(Done, stops)
  <2>2. JustGo(k) \/ (DeleteTrade /\ Empty)
    BY <1>3 DEF Adopted, JustGo
  <2>3. stops \in SUBSET Orders
    BY DEF OpenStops
  <2>4. Done \in Task /\ TaskOK(Done, ex) /\ Done.at \in Returns /\ Done.at # "force"
    BY IdleType DEF Done, Idle, Returns
  <2> HIDE DEF stops
  <2>5. k \in Task /\ TaskOK(k, ex)
    BY <2>3, <2>4, StopsFirstType, StopsFirstOK
  <2> HIDE DEF k, Empty
  <2>6. CASE JustGo(k)
    BY <1>1, <2>5, <2>6, GoInv
  <2> QED
    BY <2>1, <2>2, <2>6
<1>4. CASE Abort
  <2>1. JustGo(Done)
    BY <1>1, <1>4, AbortGoes
  <2> QED BY <1>1, <2>1, DoneInv
<1> QED
  BY <1>2, <1>3, <1>4

\* What a crash takes from the rows becomes unknown; the database was never
\* ahead of the exchange.
LEMMA FaultInv ==
  ASSUME TradeAssumption, ~AdjustOrderPrice, Inv, LostReply \/ Crash
  PROVE  Inv'
<1>1. task \in Task /\ TaskOK(task, ex) /\ Idle \in Task /\ Done \in Task
  BY IdleType DEF Inv, TypeOK
<1>2. faults' \in 0..MaxFaults
  BY DEF Inv, TypeOK, LostReply, Crash, TradeAssumption
<1>3. CASE LostReply
  <2>1. task.o \in Orders
    BY <1>1, <1>3 DEF LostReply, TaskOK
  <2>2. task' = Done /\ Bot /\ ex' = ex /\ unknown' = unknown \cup {task.o}
    BY <1>1, <1>3 DEF LostReply, TaskOK
  <2>3. TypeOK' /\ TaskOK(task', ex')
    BY <1>2, <2>1, <2>2, IdleType DEF Inv, TypeOK, Bot
  <2>4. KnownOrders'
    BY <2>2 DEF Inv, KnownOrders, Bot
  <2>5. NeverAhead(rows', ex') /\ NeverAhead(db'.rows, ex')
    BY <2>2 DEF Inv, NeverAhead, Bot
  <2> QED
    BY <2>3, <2>4, <2>5 DEF Inv
<1>4. CASE Crash
  <2> DEFINE k == [Idle EXCEPT !.at = "startup", !.todo = Open(db.rows)]
  <2>1. /\ rows' = db.rows /\ trade' = db.trade /\ amount' = db.amount /\ db' = db /\ ex' = ex
        /\ unknown' = unknown \cup Lost /\ task' = k
    BY <1>4 DEF Crash
  <2>2. Open(db.rows) \in SUBSET Orders /\ \A o \in Open(db.rows) : ex[o].status # "none"
    BY DEF Open, Inv, NeverAhead
  <2>3. k \in Task
    BY <1>1, <2>2, LabelFacts DEF Task
  <2>4. TaskOK(k, ex)
    BY <2>2 DEF Idle, TaskOK, Returns, LoopReturns, Recording
  <2>5. Lost \in SUBSET Orders
    BY <1>1 DEF Lost, TaskOK
  <2> HIDE DEF k
  <2>6. TypeOK' /\ TaskOK(task', ex')
    BY <1>2, <2>1, <2>3, <2>4, <2>5 DEF Inv, TypeOK
  <2>7. KnownOrders'
    <3> SUFFICES ASSUME NEW o \in Orders, ex[o].status = "open", db.rows[o].status # "open",
                        o \notin unknown \cup Lost
                 PROVE  FALSE
      BY <2>1 DEF KnownOrders
    <3>1. db.rows[o].status = "none"
      BY DEF Inv, NeverAhead
    <3>2. rows[o].status = "open" \/ (task.at \in Recording /\ task.o = o)
      BY DEF Inv, KnownOrders
    <3> QED
      BY <3>1, <3>2 DEF Lost
  <2>8. NeverAhead(rows', ex') /\ NeverAhead(db'.rows, ex')
    BY <2>1 DEF Inv
  <2> QED
    BY <2>6, <2>7, <2>8 DEF Inv
<1> QED
  BY <1>3, <1>4

LEMMA StartupInv ==
  ASSUME Missing \subseteq NonOpen, Inv, NEW o \in Orders, StartupUpdate(o)
  PROVE  Inv'
<1> DEFINE rest == [task EXCEPT !.todo = task.todo \ {o}]
           gone == [rows[o] EXCEPT !.status = "canceled"]
<1>1. /\ task \in Task /\ TaskOK(task, ex) /\ task.at = "startup" /\ task.at \notin Recording
      /\ rows[o] \in Order /\ ex' = ex /\ unknown' = unknown /\ faults' = faults
      /\ ex \in [Orders -> Order] /\ unknown \in SUBSET Orders /\ ExchangeMoves(ex, ex)
  BY SameExchange DEF Inv, TypeOK, StartupUpdate, Outside, Recording
<1>2. rest \in Task /\ TaskOK(rest, ex) /\ rest.at = "startup" /\ rest.at \in Returns
  BY <1>1, RestOK DEF Returns
<1>3. ex[o].status # "none"
  BY <1>1 DEF StartupUpdate, TaskOK
<1>4. gone \in Order /\ gone.status = "canceled"
  BY <1>1 DEF Order, NonOpen
<1>5. \/ UpdateTradeState(o, Snapshot(o), TRUE, rest)
      \/ ~Found(o) /\ CanceledEntry(o, gone, FALSE, rest)
      \/ ~Found(o) /\ UpdateTradeState(o, gone, TRUE, rest)
      \/ JustGo(rest)
  BY DEF StartupUpdate, JustGo
<1> HIDE DEF rest, gone
<1>6. CASE UpdateTradeState(o, Snapshot(o), TRUE, rest)
  BY <1>1, <1>2, <1>3, <1>6, FetchInv
<1>7. ~Found(o) => ex[o].status # "open"
  BY DEF Found, NonOpen
<1>8. CASE ~Found(o) /\ CanceledEntry(o, gone, FALSE, rest)
  <2>1. gone.status \in NonOpen
    BY <1>4 DEF NonOpen
  <2> QED
    BY <1>1, <1>2, <1>3, <1>4, <1>7, <1>8, <2>1, CanceledInv
<1>9. CASE ~Found(o) /\ UpdateTradeState(o, gone, TRUE, rest)
  BY <1>1, <1>2, <1>3, <1>4, <1>7, <1>9, UpdateInv
<1>10. CASE JustGo(rest)
  BY <1>1, <1>2, <1>10, GoInv
<1> QED
  BY <1>5, <1>6, <1>8, <1>9, <1>10
-----------------------------------------------------------------------------
LEMMA NextInv ==
  ASSUME TradeAssumption, ~AdjustOrderPrice, Missing \subseteq NonOpen, Inv, [Next]_vars
  PROVE  Inv'
<1>1. CASE UNCHANGED vars
  BY <1>1 DEF vars, Inv, TypeOK, KnownOrders, NeverAhead, TaskOK
<1>2. CASE Market
  BY <1>2, MarketInv
<1>3. CASE Begin
  BY <1>3, EntryInv, LoopInv, BeginExitInv, StoplossInv, ReloadInv, ManageOpenOrderInv DEF Begin
<1>4. CASE Continue
  <2>1. CASE PlaceEntry \/ RefuseEntry \/ RecordEntry
    BY <2>1, EntryInv, RecordEntryInv
  <2>2. CASE RefuseCancel \/ AlreadyCanceled \/ CancelOrder
    BY <2>2, CancelInv
  <2>3. CASE Managed \/ Replaced \/ CancelledOpen \/ ForceExitNow
    BY <2>3, LoopInv, BeginExitInv
  <2>4. CASE CheckExitAmount \/ PlaceExit \/ RefuseExit \/ RecordExit \/ Refound
    BY <2>4, ExitInv, RefindInv
  <2>5. CASE FetchedStops \/ PlaceStop \/ RefuseStop \/ RecordStop
    BY <2>5, StoplossInv, RecordStopInv
  <2>6. CASE Adopted \/ Started \/ Commit
    BY <2>6, ReloadInv, RefindInv, CommitInv
  <2>7. ASSUME NEW o \in Orders,
               \/ CancelNextOpen(o) \/ ForceNext(o) \/ CancelStop(o) \/ FetchStop(o)
               \/ Refind(o) \/ AdoptOrder(o) \/ StartupUpdate(o)
        PROVE  Inv'
    BY <2>7, LoopInv, ForceNextInv, CancelStopInv, StoplossInv, RefindInv, StartupInv
  <2> QED
    BY <1>4, <2>1, <2>2, <2>3, <2>4, <2>5, <2>6, <2>7 DEF Continue
<1>5. CASE Abort
  BY <1>5, ReloadInv
<1>6. CASE LostReply \/ Crash
  BY <1>6, FaultInv
<1> QED
  BY <1>1, <1>2, <1>3, <1>4, <1>5, <1>6 DEF Next

\* Unless the strategy replaces orders at a new price, and as long as
\* fetch_order finds every live order, the inductive invariant holds.
THEOREM InductiveInvariant ==
  ASSUME ~AdjustOrderPrice, Missing \subseteq NonOpen
  PROVE  Spec => []Inv
<1>1. Init => Inv
  BY InitInv, TradeAssumption
<1>2. Inv /\ [Next]_vars => Inv'
  BY NextInv, TradeAssumption
<1> QED
  BY <1>1, <1>2, PTL DEF Spec

\* The state stays well formed; in particular a row never says that more was
\* filled than ordered, and no amount turns negative.
THEOREM TypeCorrect ==
  ASSUME ~AdjustOrderPrice, Missing \subseteq NonOpen
  PROVE  Spec => []TypeOK
<1>1. Inv => TypeOK
  BY DEF Inv
<1> QED
  BY <1>1, InductiveInvariant, PTL

\* No live order is forgotten, however fills, cancels, crashes, lost replies
\* and the bot's handlers interleave: it has an open row, is being recorded,
\* or is one whose row a crash or a lost reply took.
THEOREM NoOrderForgotten ==
  ASSUME ~AdjustOrderPrice, Missing \subseteq NonOpen
  PROVE  Spec => []KnownOrders
<1>1. Inv => KnownOrders
  BY DEF Inv
<1> QED
  BY <1>1, InductiveInvariant, PTL
-----------------------------------------------------------------------------
(* The books: what the rows know of the orders, and the trade of the rows. *)
(* A row is never ahead of its order, and once the row is no longer open it *)
(* says exactly what the order says, if the exchange finds every order.     *)

\* What a row, or an order dict, may say of an order: never more than was filled,
\* and all of it once the order is over, unless the exchange forgets such orders.
OfOrder(x, y) ==
  /\ x.side = "entry" <=> y.side = "entry"
  /\ x.filled <= y.filled
  /\ Missing = {} /\ x.status # "open" => x.status = y.status /\ x.filled = y.filled

RowsAgree(r, e) ==
  \A o \in Orders : IF r[o].status = "none" THEN r[o] = NoOrder
                    ELSE OfOrder(r[o], e[o]) /\ r[o].side # "none"

Exchanged(e) ==
  \A o \in Orders : IF e[o].status = "none" THEN e[o] = NoOrder ELSE e[o].side # "none"

\* What the session has done without a commit changes no position.
Saved(r, d) ==
  /\ \A o \in Orders : d[o].status # "none" => d[o].filled >= r[o].filled
  /\ SuccessfulEntries(d) = SuccessfulEntries(r)

Bought(r) == SuccessfulEntries(r) # {}
Sold(e)   == \E o \in Orders : e[o].side \notin {"none", "entry"}

\* A trade has an amount, and can be closed, once an entry of it was filled.
Paid(r, t, a) == (a > 0 <=> Bought(r)) /\ (t = "closed" => Bought(r))

Books ==
  /\ Exchanged(ex) /\ RowsAgree(rows, ex) /\ RowsAgree(db.rows, ex) /\ Saved(rows, db.rows)
  /\ Paid(rows, trade, amount) /\ Paid(db.rows, db.trade, db.amount)
  /\ Sold(ex) => Bought(rows)
  /\ trade = db.trade
-----------------------------------------------------------------------------
\* What a step does to an order that was placed: it is filled, or ends, or stays.
ExchangeGoes(e, f) ==
  \A o \in Orders :
    /\ f[o].side = e[o].side /\ e[o].filled <= f[o].filled
    /\ e[o].status = "open" => f[o].status # "none"
    /\ e[o].status # "open" => f[o] = e[o]

\* An order dict s that fits the row r it overwrites and the order x.
Fits(s, r, x) ==
  /\ s.status # "none" /\ s.side # "none" /\ OfOrder(s, x)
  /\ r.status # "none" => s.side = r.side
  /\ r.filled <= s.filled \/ (r.status = "open" /\ Missing # {})
  /\ s.status = "open" => r.status \notin NonOpen

LEMMA StaysOfOrder ==
  ASSUME NEW x \in Order, NEW e \in [Orders -> Order], NEW f \in [Orders -> Order], NEW o \in Orders,
         ExchangeGoes(e, f), OfOrder(x, e[o]), x.status # "none", e[o].status # "none",
         e[o].status = "open" => x.status = "open"
  PROVE  OfOrder(x, f[o])
<1>1. x.filled \in Nat /\ e[o].filled \in Nat /\ f[o].filled \in Nat /\ e[o] \in Order /\ f[o] \in Order
  BY DEF Order
<1>2. /\ f[o].side = e[o].side /\ e[o].filled <= f[o].filled
      /\ e[o].status # "open" => f[o] = e[o]
  BY DEF ExchangeGoes
<1>3. x.filled <= f[o].filled
  BY <1>1, <1>2 DEF OfOrder
<1> QED
  BY <1>1, <1>2, <1>3 DEF OfOrder

LEMMA OrdersFinite == TradeAssumption => IsFiniteSet(Orders) /\ MaxOrders \in Nat
  BY FS_Interval DEF Orders, TradeAssumption

\* Something is left of a trade only if an entry of it was filled.
LEMMA LeftWasBought ==
  ASSUME TradeAssumption, NEW r \in [Orders -> Order], ~Bought(r)
  PROVE  Recalc(r) \in Int /\ Recalc(r) <= 0
<1> DEFINE f == [o \in Orders |-> Counted(r[o])]
<1>1. \A o \in Orders : f[o] \in Int /\ f[o] <= 0
  <2> SUFFICES ASSUME NEW o \in Orders PROVE Counted(r[o]) \in Int /\ Counted(r[o]) <= 0
    OBVIOUS
  <2>1. r[o] \in Order /\ r[o].filled \in Nat
    BY DEF Order
  <2>2. r[o].side = "entry" /\ r[o].status \in NonOpen => r[o].filled = 0
    BY <2>1 DEF Bought, SuccessfulEntries
  <2> QED BY <2>1, <2>2 DEF Counted, Signed
<1>2. Recalc(r) = SumFunctionOnSet(f, Orders)
  BY DEF Recalc, SumFunction
<1> HIDE DEF f
<1>3. SumFunctionOnSet(f, Orders) \in Int /\ SumFunctionOnSet(f, Orders) <= 0
  <2>1. \A o \in Orders : f[o] \in Int
    BY <1>1
  <2>2. \A o \in Orders : f[o] <= 0
    BY <1>1
  <2>3. IsFiniteSet(Orders)
    BY OrdersFinite
  <2>4. SumFunctionOnSet(f, Orders) \in Int
    BY <2>1, <2>3, SumInt
  <2> QED BY <2>1, <2>2, <2>3, <2>4, SumSign
<1> QED BY <1>2, <1>3

LEMMA RecalculatedFacts ==
  ASSUME TradeAssumption, NEW r \in [Orders -> Order], NEW a \in Nat
  PROVE  /\ Recalculated(r, a) \in Nat
         /\ a > 0 => Recalculated(r, a) > 0
         /\ a = 0 /\ ~Bought(r) => Recalculated(r, a) = 0
<1>1. Recalculated(r, a) = a \/ Recalculated(r, a) \in Nat \ {0}
  BY DEF Recalculated
<1>2. ~Bought(r) => Recalculated(r, a) = a
  <2>1. ~Bought(r) => ~(Recalc(r) \in Nat \ {0})
    BY LeftWasBought
  <2> QED BY <2>1 DEF Recalculated
<1> QED BY <1>1, <1>2

\* The row that is overwritten stays a filled entry.
LEMMA BoughtStays ==
  ASSUME NEW q \in [Orders -> Order], NEW o \in Orders, NEW s \in Order, NEW x, Fits(s, q[o], x)
  PROVE  LET r == [q EXCEPT ![o] = s]
         IN /\ SuccessfulEntries(q) \subseteq SuccessfulEntries(r)
            /\ Bought(q) => Bought(r)
            /\ s.side = "entry" /\ s.status # "open" /\ s.filled > 0 => Bought(r)
            /\ s.filled = 0 \/ s.side # "entry" \/ s.status = "open"
                 => SuccessfulEntries(r) = SuccessfulEntries(q)
<1> DEFINE r == [q EXCEPT ![o] = s]
<1>1. s.status \in {"open"} \cup NonOpen /\ s.filled \in Nat /\ q[o] \in Order /\ q[o].filled \in Nat
  BY DEF Order, Fits
<1>2. /\ r[o] = s /\ \A p \in Orders : p # o => r[p] = q[p]
  OBVIOUS
<1>3. o \in SuccessfulEntries(q) => o \in SuccessfulEntries(r) /\ s.filled > 0 /\ s.side = "entry" /\ s.status # "open"
  <2> SUFFICES ASSUME q[o].side = "entry", q[o].status \in NonOpen, q[o].filled > 0
               PROVE  r[o].side = "entry" /\ r[o].status \in NonOpen /\ r[o].filled > 0 /\ s.status # "open"
    BY <1>2 DEF SuccessfulEntries
  <2>1. q[o].status \notin {"none", "open"}
    BY DEF NonOpen
  <2>2. s.side = "entry" /\ s.status # "open" /\ q[o].filled <= s.filled
    BY <2>1 DEF Fits
  <2> QED BY <1>1, <1>2, <2>2
<1>4. \A p \in Orders : p # o => (p \in SuccessfulEntries(q) <=> p \in SuccessfulEntries(r))
  BY <1>2 DEF SuccessfulEntries
<1>5. o \in SuccessfulEntries(r) <=> s.side = "entry" /\ s.status \in NonOpen /\ s.filled > 0
  BY <1>2 DEF SuccessfulEntries
<1>6. SuccessfulEntries(q) \subseteq Orders /\ SuccessfulEntries(r) \subseteq Orders
  BY DEF SuccessfulEntries
<1>7. "open" \notin NonOpen
  BY DEF NonOpen
<1> HIDE DEF r
<1>8. SuccessfulEntries(q) \subseteq SuccessfulEntries(r)
  BY <1>3, <1>4, <1>6
<1>9. s.side = "entry" /\ s.status # "open" /\ s.filled > 0 => Bought(r)
  BY <1>1, <1>5 DEF Bought
<1>10. s.filled = 0 \/ s.side # "entry" \/ s.status = "open" => o \notin SuccessfulEntries(r)
  BY <1>1, <1>5, <1>7
<1> QED BY <1>3, <1>4, <1>6, <1>8, <1>9, <1>10 DEF Bought, r

LEMMA MovedBooks ==
  ASSUME Inv, Books, ex' \in [Orders -> Order], ExchangeGoes(ex, ex'),
         UNCHANGED <<rows, trade, amount, db>>
  PROVE  Books'
<1>1. /\ rows \in [Orders -> Order] /\ db.rows \in [Orders -> Order] /\ ex \in [Orders -> Order]
      /\ NeverAhead(rows, ex) /\ NeverAhead(db.rows, ex)
  BY DEF Inv, TypeOK
<1>2. ASSUME NEW r \in [Orders -> Order], RowsAgree(r, ex), NeverAhead(r, ex)
      PROVE  RowsAgree(r, ex')
  BY <1>1, <1>2, StaysOfOrder DEF RowsAgree, NeverAhead
<1>3. Exchanged(ex') /\ Sold(ex') = Sold(ex)
  <2>1. Exchanged(ex')
    BY <1>1 DEF Books, Exchanged, ExchangeGoes
  <2>2. Sold(ex') = Sold(ex)
    BY DEF Sold, ExchangeGoes
  <2> QED BY <2>1, <2>2
<1>4. RowsAgree(rows, ex') /\ RowsAgree(db.rows, ex')
  BY <1>1, <1>2 DEF Books
<1> QED BY <1>3, <1>4 DEF Books

\* A row is overwritten: without a commit if no position changes, or with one.
LEMMA RowBooks ==
  ASSUME Inv, Books, ex' \in [Orders -> Order], ExchangeGoes(ex, ex'),
         NEW o \in Orders, NEW s \in Order, Fits(s, rows[o], ex'[o]), ex[o].status # "none",
         rows' = [rows EXCEPT ![o] = s],
         \/ s.filled = 0 /\ UNCHANGED <<trade, amount, db>>
         \/ /\ db' = Committed(rows', trade', amount')
            /\ Paid(rows', trade', amount')
  PROVE  Books'
<1>1. /\ rows \in [Orders -> Order] /\ db.rows \in [Orders -> Order] /\ ex \in [Orders -> Order]
      /\ NeverAhead(rows, ex) /\ NeverAhead(db.rows, ex)
  BY DEF Inv, TypeOK
<1>2. ASSUME NEW r \in [Orders -> Order], RowsAgree(r, ex), NeverAhead(r, ex)
      PROVE  RowsAgree(r, ex')
  BY <1>1, <1>2, StaysOfOrder DEF RowsAgree, NeverAhead
<1>3. Exchanged(ex') /\ Sold(ex') = Sold(ex)
  <2>1. Exchanged(ex')
    BY <1>1 DEF Books, Exchanged, ExchangeGoes
  <2>2. Sold(ex') = Sold(ex)
    BY DEF Sold, ExchangeGoes
  <2> QED BY <2>1, <2>2
<1>4. RowsAgree(rows, ex') /\ RowsAgree(db.rows, ex')
  BY <1>1, <1>2 DEF Books
<1>5. RowsAgree(rows', ex')
  BY <1>1, <1>4 DEF RowsAgree, Fits
<1>6. /\ SuccessfulEntries(rows) \subseteq SuccessfulEntries(rows')
      /\ Bought(rows) => Bought(rows')
      /\ s.filled = 0 => SuccessfulEntries(rows') = SuccessfulEntries(rows)
  BY <1>1, BoughtStays
<1>7. Sold(ex') => Bought(rows')
  BY <1>3, <1>6 DEF Books
<1>8. CASE s.filled = 0 /\ UNCHANGED <<trade, amount, db>>
  <2>1. Bought(rows') = Bought(rows) /\ SuccessfulEntries(db.rows) = SuccessfulEntries(rows')
    BY <1>6, <1>8 DEF Bought, Books, Saved
  <2>2. \A p \in Orders : db.rows[p].status # "none" => db.rows[p].filled >= rows'[p].filled
    <3> SUFFICES ASSUME NEW p \in Orders, db.rows[p].status # "none"
                 PROVE  db.rows[p].filled >= rows'[p].filled
      OBVIOUS
    <3>1. db.rows[p].filled >= rows[p].filled /\ db.rows[p].filled \in Nat
      BY <1>1 DEF Books, Saved, Order
    <3> QED BY <1>1, <1>8, <3>1
  <2> QED BY <1>3, <1>4, <1>5, <1>7, <1>8, <2>1, <2>2 DEF Books, Saved, Paid
<1>9. CASE /\ db' = Committed(rows', trade', amount')
           /\ Paid(rows', trade', amount')
  <2>1. db'.rows = rows' /\ db'.trade = trade' /\ db'.amount = amount'
    BY <1>9 DEF Committed
  <2>2. \A p \in Orders : rows'[p].filled >= rows'[p].filled
    BY <1>1 DEF Order
  <2> QED BY <1>3, <1>5, <1>7, <1>9, <2>1, <2>2 DEF Books, Saved
<1> QED BY <1>8, <1>9

\* Trade.delete of a trade without a filled entry.
LEMMA DeletedBooks ==
  ASSUME Inv, Books, DeleteTrade, ex' \in [Orders -> Order], ExchangeGoes(ex, ex'), ~Bought(rows)
  PROVE  Books'
<1>1. /\ ex \in [Orders -> Order] /\ amount \in Nat
  BY DEF Inv, TypeOK
<1>2. Exchanged(ex') /\ ~Sold(ex')
  <2>1. Exchanged(ex')
    BY <1>1 DEF Books, Exchanged, ExchangeGoes
  <2>2. Sold(ex') = Sold(ex)
    BY DEF Sold, ExchangeGoes
  <2> QED BY <2>1, <2>2 DEF Books
<1> DEFINE r == [o \in Orders |-> NoOrder]
<1>3. rows' = r /\ trade' = "deleted" /\ amount' = amount /\ db' = Committed(r, "deleted", amount)
  BY DEF DeleteTrade, Save
<1>4. db'.rows = r /\ db'.trade = "deleted" /\ db'.amount = amount
  BY <1>3 DEF Committed
<1>5. RowsAgree(r, ex') /\ Saved(r, r) /\ ~Bought(r)
  BY DEF RowsAgree, Saved, Bought, SuccessfulEntries, NoOrder, NonOpen
<1>6. ~(amount > 0)
  BY DEF Books, Paid
<1> HIDE DEF r
<1> QED BY <1>2, <1>3, <1>4, <1>5, <1>6 DEF Books, Paid

LEMMA PlacedBooks ==
  ASSUME Inv, Books, NEW o \in Orders, NEW new \in Order, ex[o].status = "none",
         ex' = [ex EXCEPT ![o] = new], UNCHANGED <<rows, trade, amount, db>>,
         new.status # "none", new.side # "none", new.side # "entry" => Bought(rows)
  PROVE  Books'
<1>1. /\ ex \in [Orders -> Order] /\ rows[o].status = "none" /\ db.rows[o].status = "none"
      /\ ex'[o] = new /\ \A p \in Orders : p # o => ex'[p] = ex[p]
  BY DEF Inv, TypeOK, NeverAhead
<1>2. Exchanged(ex')
  BY <1>1 DEF Books, Exchanged
<1>3. RowsAgree(rows, ex') /\ RowsAgree(db.rows, ex')
  BY <1>1 DEF Books, RowsAgree
<1>4. Sold(ex') => Sold(ex) \/ new.side # "entry"
  BY <1>1 DEF Sold
<1> QED BY <1>2, <1>3, <1>4 DEF Books

LEMMA CommitBooks ==
  ASSUME Inv, Books, db' = Committed(rows, trade, amount), UNCHANGED <<ex, rows, trade, amount>>
  PROVE  Books'
<1>1. db'.rows = rows /\ db'.trade = trade /\ db'.amount = amount
  BY DEF Committed
<1>2. \A p \in Orders : rows[p].filled >= rows[p].filled
  BY DEF Inv, TypeOK, Order
<1> QED BY <1>1, <1>2 DEF Books, Saved

LEMMA CrashBooks ==
  ASSUME Inv, Books, rows' = db.rows, trade' = db.trade, amount' = db.amount, UNCHANGED <<ex, db>>
  PROVE  Books'
<1>1. \A p \in Orders : db.rows[p].filled >= db.rows[p].filled
  BY DEF Inv, TypeOK, Order
<1>2. Bought(db.rows) = Bought(rows)
  BY DEF Books, Saved, Bought
<1> QED BY <1>1, <1>2 DEF Books, Saved
-----------------------------------------------------------------------------
\* update_trade_state, as a change of the books.
LEMMA UpdateBooks ==
  ASSUME TradeAssumption, Inv, Books, ex' \in [Orders -> Order], ExchangeGoes(ex, ex'),
         NEW o \in Orders, NEW s \in Order, Fits(s, rows[o], ex'[o]), ex[o].status # "none",
         NEW sending, NEW k, UpdateTradeState(o, s, sending, k)
  PROVE  /\ Books'
         /\ rows' = [rows EXCEPT ![o] = s] /\ trade' \in {trade, "closed"}
         /\ db'.rows = rows' \/ (db' = db /\ s.filled = 0)
         /\ Bought(rows) => Bought(rows')
         /\ s.side # "entry" \/ (s.status # "open" /\ s.filled # 0) => Bought(rows')
         /\ \E stops \in SUBSET OpenStops(rows') :
              task' = StopsFirst(k, stops) /\ (stops # {} => Bought(rows'))
<1> DEFINE u == Updated(rows, trade, amount, o, s, sending)
           r == [rows EXCEPT ![o] = s]
<1>1. /\ rows \in [Orders -> Order] /\ ex \in [Orders -> Order] /\ amount \in Nat
      /\ s.status \in {"open"} \cup NonOpen /\ s.filled \in Nat /\ r \in [Orders -> Order] /\ s.side # "none"
  BY DEF Inv, TypeOK, Fits, Order
<1>2. /\ Bought(rows) => Bought(r)
      /\ s.side = "entry" /\ s.status # "open" /\ s.filled > 0 => Bought(r)
      /\ s.status = "open" => SuccessfulEntries(r) = SuccessfulEntries(rows)
  BY <1>1, BoughtStays
<1>3. s.side # "entry" => Bought(rows)
  <2>1. ex'[o].side = ex[o].side /\ ex[o].side # "none" /\ (s.side = "entry" <=> ex'[o].side = "entry")
    BY DEF Books, Exchanged, ExchangeGoes, Fits, OfOrder
  <2> QED BY <2>1 DEF Books, Sold
<1>4. OpenStops(r) # {} => Bought(r)
  <2> SUFFICES ASSUME NEW p \in OpenStops(r) PROVE Bought(r)
    OBVIOUS
  <2>1. p \in Orders /\ r[p].status = "open" /\ r[p].side = "stoploss"
    BY DEF OpenStops
  <2>2. CASE p = o
    BY <1>1, <1>2, <1>3, <2>1, <2>2
  <2>3. CASE p # o
    <3>1. rows[p] = r[p] /\ ex[p].status # "none"
      BY <1>1, <2>1, <2>3 DEF Inv, NeverAhead
    <3>2. ex[p].side # "entry" /\ ex[p].side # "none"
      BY <2>1, <3>1 DEF Books, RowsAgree, OfOrder, Exchanged
    <3> QED BY <1>2, <2>1, <3>2 DEF Books, Sold
  <2> QED BY <2>2, <2>3
<1>5. CASE CanceledEmpty(s) /\ rows' = r /\ task' = k /\ UNCHANGED <<trade, amount, db>>
  <2>1. s.filled = 0
    BY <1>5 DEF CanceledEmpty
  <2>2. Books'
    BY <1>5, <2>1, RowBooks
  <2>3. k = StopsFirst(k, {}) /\ {} \in SUBSET OpenStops(rows')
    BY DEF StopsFirst
  <2> QED BY <1>2, <1>3, <1>5, <2>1, <2>2, <2>3
<1>6. CASE ~CanceledEmpty(s) /\ Save(u.rows, u.trade, u.amount)
           /\ task' = StopsFirst(k, StopsToCancel(u, s, sending))
  <2>1. u.rows = r
    BY DEF Updated
  <2>2. rows' = r /\ trade' = u.trade /\ amount' = u.amount /\ db' = Committed(rows', trade', amount')
    BY <1>6, <2>1 DEF Save
  <2>3. u.trade \in {trade, "closed"} /\ (u.trade = "closed" => trade = "closed" \/ s.side # "entry")
    BY DEF Updated, Closes
  <2>4. u.amount \in Nat /\ (u.amount > 0 <=> Bought(r))
    <3>1. amount > 0 <=> Bought(rows)
      BY DEF Books, Paid
    <3>2. CASE s.status = "open"
      <4>1. u.amount = amount
        BY <3>2 DEF Updated
      <4> QED BY <1>1, <1>2, <3>1, <3>2, <4>1 DEF Bought
    <3>3. CASE s.status # "open"
      <4> DEFINE a == IF s.side = "entry" THEN s.filled ELSE amount
      <4>1. u.amount = Recalculated(r, a)
        BY <3>3 DEF Updated
      <4>2. a \in Nat /\ a > 0
        BY <1>1, <1>3, <1>6, <3>1, <3>3 DEF CanceledEmpty
      <4>3. Bought(r)
        BY <1>1, <1>2, <1>3, <3>3, <4>2
      <4> HIDE DEF a, r
      <4> QED BY <1>1, <4>1, <4>2, <4>3, RecalculatedFacts
    <3> QED BY <3>2, <3>3
  <2>5. Paid(rows', trade', amount')
    BY <1>2, <1>3, <2>2, <2>3, <2>4 DEF Paid, Books
  <2>6. Books'
    BY <2>2, <2>3, <2>5, RowBooks
  <2>7. StopsToCancel(u, s, sending) \in SUBSET OpenStops(rows')
    BY <2>1, <2>2 DEF StopsToCancel
  <2>8. s.status # "open" /\ s.filled # 0 /\ s.side = "entry" => Bought(r)
    BY <1>1, <1>2
  <2>9. db'.rows = rows'
    BY <2>2 DEF Committed
  <2>10. StopsToCancel(u, s, sending) # {} => Bought(rows')
    BY <1>4, <2>2, <2>7
  <2>11. task' = StopsFirst(k, StopsToCancel(u, s, sending))
    BY <1>6
  <2>12. (Bought(rows) => Bought(rows')) /\ (s.side # "entry" \/ (s.status # "open" /\ s.filled # 0) => Bought(rows'))
    BY <1>2, <1>3, <2>2, <2>8
  <2>13. rows' = [rows EXCEPT ![o] = s] /\ trade' \in {trade, "closed"}
    BY <2>2, <2>3
  <2> HIDE DEF u, r
  <2> QED BY <2>6, <2>7, <2>9, <2>10, <2>11, <2>12, <2>13
<1> QED BY <1>5, <1>6 DEF UpdateTradeState
-----------------------------------------------------------------------------
(* The handler's locals, and what is left of a trade. *)

InLoop(t, l) == t.at = l \/ (t.at \in {"cancel", "stops"} /\ t.then = l)

\* Where the handler is once an entry was filled.
Exiting(t) ==
  \/ \E l \in {"checkAmount", "placeStop", "refind", "fetchStops"} : InLoop(t, l)
  \/ t.at = "placeExit" \/ t.after = "placeExit"
  \/ InLoop(t, "adopt") /\ t.at # "adopt"

Sides == [recordEntry |-> "entry", recordExit |-> "exit", recordStop |-> "stoploss"]

\* The locals t, given rows r, committed rows d and the exchange e.
Locals(t, r, d, e) ==
  /\ t.at = "cancel" => r[t.o].status = "open" /\ Fits(t.snap, r[t.o], e[t.o]) /\ t.o \notin t.todo
  /\ t.at \in Recording =>
       /\ r[t.o].status = "none" /\ d[t.o].status = "none"
       /\ Fits(t.snap, r[t.o], e[t.o]) /\ t.snap.side = Sides[t.at]
  /\ t.at = "recordStop" => t.snap.status = "open" /\ t.snap.filled = 0
  /\ InLoop(t, "cancelOpen") \/ InLoop(t, "force") =>
       \A p \in t.todo : r[p].status = "open" /\ r[p].side # "stoploss"
  /\ InLoop(t, "adopt") \/ \A p \in t.todo : r[p].status # "none"
  /\ \A p \in t.stops : r[p].status # "none" /\ r[p].side = "stoploss"
  /\ t.size > 0 => Bought(r)

LEMMA IdleLocals ==
  ASSUME NEW r, NEW d, NEW e
  PROVE  Locals(Idle, r, d, e) /\ Locals(Done, r, d, e)
<1>1. Locals(Idle, r, d, e)
  BY DEF Idle, Locals, InLoop, Recording
<1>2. Locals(Done, r, d, e)
  BY DEF Idle, Done, Locals, InLoop, Recording
<1> QED BY <1>1, <1>2

\* A row changes that the locals are not about.
LEMMA RowLocals ==
  ASSUME NEW r \in [Orders -> Order], NEW k \in Task, NEW d, NEW e, NEW c, NEW f, NEW y,
         Locals(k, r, d, e), k.at \notin {"cancel"} \cup Recording,
         NEW o \in Orders, NEW s \in Order, Fits(s, r[o], y),
         InLoop(k, "cancelOpen") \/ InLoop(k, "force") => o \notin k.todo
  PROVE  Locals(k, [r EXCEPT ![o] = s], c, f)
<1> DEFINE q == [r EXCEPT ![o] = s]
<1>1. /\ q[o] = s /\ \A p \in Orders : p # o => q[p] = r[p]
      /\ k.todo \subseteq Orders /\ k.stops \subseteq Orders
      /\ s.status # "none" /\ (r[o].status # "none" => s.side = r[o].side)
  BY DEF Task, Fits
<1> HIDE DEF q
<1>2. InLoop(k, "cancelOpen") \/ InLoop(k, "force") =>
        \A p \in k.todo : q[p].status = "open" /\ q[p].side # "stoploss"
  BY <1>1 DEF Locals
<1>3. InLoop(k, "adopt") \/ \A p \in k.todo : q[p].status # "none"
  BY <1>1 DEF Locals
<1>4. \A p \in k.stops : q[p].status # "none" /\ q[p].side = "stoploss"
  BY <1>1 DEF Locals
<1>5. k.size > 0 => Bought(q)
  <2>1. Bought(r) => Bought([r EXCEPT ![o] = s])
    BY BoughtStays
  <2>2. Bought(r) => Bought(q)
    BY <2>1 DEF q
  <2> QED BY <2>2 DEF Locals
<1>6. k.at # "cancel" /\ k.at \notin Recording /\ k.at # "recordStop"
  BY DEF Recording
<1>7. Locals(k, q, c, f)
  BY <1>2, <1>3, <1>4, <1>5, <1>6 DEF Locals
<1> QED BY <1>7 DEF q

\* The stoploss orders that go first.
LEMMA StopsLocals ==
  ASSUME NEW r \in [Orders -> Order], NEW k \in Task, NEW d, NEW e, Locals(k, r, d, e),
         k.at \notin {"cancel"} \cup Recording,
         NEW stops \in SUBSET OpenStops(r), stops # {} => Bought(r)
  PROVE  Locals(StopsFirst(k, stops), r, d, e)
<1> DEFINE n == StopsFirst(k, stops)
<1>1. CASE stops = {}
  BY <1>1 DEF StopsFirst
<1>2. CASE stops # {}
  <2>1. /\ n.at = "stops" /\ n.then = (IF k.at = "stops" THEN k.then ELSE k.at)
        /\ n.todo = k.todo /\ n.stops = k.stops \cup stops
    BY <1>2 DEF StopsFirst, Task
  <2>2. \A p \in n.stops : r[p].status # "none" /\ r[p].side = "stoploss"
    BY <2>1 DEF Locals, OpenStops
  <2>3. InLoop(n, "cancelOpen") \/ InLoop(n, "force") =>
          \A p \in n.todo : r[p].status = "open" /\ r[p].side # "stoploss"
    BY <2>1 DEF Locals, InLoop
  <2>4. InLoop(n, "adopt") \/ \A p \in n.todo : r[p].status # "none"
    BY <2>1 DEF Locals, InLoop
  <2> HIDE DEF n
  <2>5. n.at \notin Recording /\ n.at # "cancel" /\ n.at # "recordStop"
    BY <2>1 DEF Recording
  <2>6. Locals(n, r, d, e)
    BY <1>2, <2>2, <2>3, <2>4, <2>5 DEF Locals
  <2> QED BY <2>6 DEF n
<1> QED BY <1>1, <1>2

\* The exchange moves.
LEMMA MovedLocals ==
  ASSUME Inv, NEW t \in Task, TaskOK(t, ex), Locals(t, rows, db.rows, ex),
         ex' \in [Orders -> Order], ExchangeGoes(ex, ex')
  PROVE  Locals(t, rows, db.rows, ex')
<1>1. ASSUME t.at \in {"cancel"} \cup Recording
      PROVE  Fits(t.snap, rows[t.o], ex'[t.o])
  <2>1. /\ t.o \in Orders /\ t.snap \in Order /\ ex \in [Orders -> Order] /\ ex[t.o].status # "none"
        /\ ex[t.o].status = "open" => t.snap.status = "open"
    BY <1>1 DEF TaskOK, Task, Inv, TypeOK
  <2>2. Fits(t.snap, rows[t.o], ex[t.o])
    BY <1>1 DEF Locals
  <2>3. OfOrder(t.snap, ex'[t.o])
    BY <2>1, <2>2, StaysOfOrder DEF Fits
  <2> QED BY <2>2, <2>3 DEF Fits
<1> QED BY <1>1 DEF Locals
-----------------------------------------------------------------------------
(* All of it, and what a step of each kind does to it. *)

\* A trade that is not there has no rows, and nothing is done about it but that its
\* first order is recorded.
Absent(tr) == tr \in {"none", "deleted"}
Rest(tr)   == {"commit", "idle", "startup"} \cup IF tr = "none" THEN {"recordEntry"} ELSE {}

Gone ==
  Absent(trade) =>
    /\ \A o \in Orders : rows[o].status = "none" /\ db.rows[o].status = "none"
    /\ task.at \in Rest(trade)

Dead(x) == x.status # "open" /\ x.filled = 0

\* An order without a row is being recorded, or bought nothing.
RowOrDead(t, r, e, lost) ==
  \A o \in Orders : e[o].status # "none" /\ o \notin lost /\ r[o].status = "none" =>
    (t.at \in Recording /\ t.o = o) \/ Dead(e[o])

\* Without a crash an open trade has a filled entry or an open order, but for the
\* time in which it is rebuilt from the orders on the exchange.
KeptBy(t, tr, r, e) ==
  /\ ~InLoop(t, "startup")
  /\ t.repl \/ Exiting(t) => Bought(r)
  /\ tr = "open" /\ t.at # "adopt" => Bought(r) \/ OpenOrders(r) # {}
  /\ t.at = "adopt" /\ ~Bought(r) => \A o \in Orders \ t.todo : r[o].filled = e[o].filled

Whole ==
  /\ Books
  /\ Locals(task, rows, db.rows, ex)
  /\ Gone
  /\ Missing = {} => RowOrDead(task, rows, ex, unknown)
  /\ faults = 0 => KeptBy(task, trade, rows, ex)

\* No row forgets what was filled.
FillsGrow ==
  Missing = {} => \A o \in Orders : rows'[o].status # "none" => rows'[o].filled >= rows[o].filled

LEMMA SameFills ==
  ASSUME Inv, rows' = rows
  PROVE  FillsGrow
  BY DEF Inv, TypeOK, Order, FillsGrow

LEMMA GoWhole ==
  ASSUME Inv, Whole, NEW k \in Task, JustGo(k), task.at \notin Recording,
         Locals(k, rows, db.rows, ex),
         Absent(trade) => k.at \in Rest(trade),
         faults = 0 => KeptBy(k, trade, rows, ex)
  PROVE  Whole' /\ FillsGrow
<1>1. /\ task' = k /\ rows' = rows /\ trade' = trade /\ amount' = amount /\ db' = db
      /\ ex' = ex /\ unknown' = unknown /\ faults' = faults
  BY DEF JustGo, Bot, Outside
<1>2. Books'
  BY <1>1 DEF Whole, Books
<1>3. Gone'
  BY <1>1 DEF Whole, Gone
<1>4. Missing = {} => RowOrDead(task', rows', ex', unknown')
  BY <1>1 DEF Whole, RowOrDead
<1> QED BY <1>1, <1>2, <1>3, <1>4, SameFills DEF Whole

LEMMA MovedWhole ==
  ASSUME Inv, Whole, ex' \in [Orders -> Order], ExchangeGoes(ex, ex'), task.at # "adopt",
         UNCHANGED <<rows, trade, amount, db, task, unknown, faults>>
  PROVE  Whole' /\ FillsGrow
<1>1. Books' /\ FillsGrow
  BY MovedBooks, SameFills DEF Whole
<1>2. Locals(task', rows', db'.rows, ex')
  BY MovedLocals DEF Whole, Inv, TypeOK
<1>3. Missing = {} => RowOrDead(task', rows', ex', unknown')
  BY DEF Whole, RowOrDead, ExchangeGoes, Dead
<1>4. Gone'
  BY DEF Whole, Gone
<1>5. faults' = 0 => KeptBy(task', trade', rows', ex')
  BY DEF Whole, KeptBy
<1> QED BY <1>1, <1>2, <1>3, <1>4, <1>5 DEF Whole

LEMMA CommitLocals ==
  ASSUME NEW t, NEW r, NEW d, NEW c, NEW e, t.at \notin Recording, Locals(t, r, d, e)
  PROVE  Locals(t, r, c, e)
  BY DEF Locals

LEMMA StopsKept ==
  ASSUME NEW k \in Task, NEW tr, NEW r, NEW e, KeptBy(k, tr, r, e), k.at # "cancel",
         NEW stops \in SUBSET OpenStops(r), stops # {} => Bought(r)
  PROVE  KeptBy(StopsFirst(k, stops), tr, r, e)
<1> DEFINE n == StopsFirst(k, stops)
<1>1. CASE stops = {}
  BY <1>1 DEF StopsFirst
<1>2. CASE stops # {}
  <2>1. n.at = "stops" /\ n.then = (IF k.at = "stops" THEN k.then ELSE k.at)
    BY <1>2 DEF StopsFirst, Task
  <2> HIDE DEF n
  <2>2. KeptBy(n, tr, r, e)
    BY <1>2, <2>1 DEF KeptBy, InLoop
  <2> QED BY <2>2 DEF n
<1> QED BY <1>1, <1>2

\* update_trade_state with an order dict that fits.
LEMMA UpdateWhole ==
  ASSUME TradeAssumption, Inv, Whole, ex' \in [Orders -> Order], ExchangeGoes(ex, ex'),
         NEW o \in Orders, NEW s \in Order, Fits(s, rows[o], ex'[o]), ex[o].status # "none",
         NEW sending, NEW k \in Task, UpdateTradeState(o, s, sending, k),
         ~Absent(trade), task.at \in Recording => task.o = o,
         k.at \notin Recording, k.at = "cancel" => s.status = "open",
         Locals(k, [rows EXCEPT ![o] = s], db.rows, ex'),
         unknown' \in SUBSET Orders, unknown \ {o} \subseteq unknown', faults' = faults,
         faults = 0 => KeptBy(k, trade, [rows EXCEPT ![o] = s], ex')
  PROVE  Whole' /\ FillsGrow
<1> DEFINE r == [rows EXCEPT ![o] = s]
<1>1. /\ rows \in [Orders -> Order] /\ ex \in [Orders -> Order] /\ r \in [Orders -> Order] /\ TypeOK
      /\ s.status # "none" /\ s.filled \in Nat /\ rows[o].filled \in Nat
  BY DEF Inv, TypeOK, Fits, Order
<1>2. /\ Books' /\ rows' = r /\ trade' \in {trade, "closed"}
      /\ \E stops \in SUBSET OpenStops(rows') :
              task' = StopsFirst(k, stops) /\ (stops # {} => Bought(rows'))
  BY UpdateBooks DEF Whole, Absent
<1>3. task' = k \/ s.status # "open"
  BY <1>1, UpdateFacts
<1>4. Locals(task', rows', db'.rows, ex')
  <2>1. Locals(k, r, db'.rows, ex')
    BY CommitLocals
  <2>2. CASE task' = k
    BY <1>2, <2>1, <2>2
  <2>3. CASE k.at # "cancel"
    <3>1. PICK stops \in SUBSET OpenStops(r) : task' = StopsFirst(k, stops) /\ (stops # {} => Bought(r))
      BY <1>2
    <3> HIDE DEF r
    <3>2. Locals(StopsFirst(k, stops), r, db'.rows, ex')
      BY <1>1, <2>1, <2>3, <3>1, StopsLocals
    <3> QED BY <1>2, <3>1, <3>2
  <2> QED BY <1>3, <2>2, <2>3
<1>5. Gone'
  <2>1. ~Absent(trade')
    BY <1>2 DEF Absent
  <2> QED BY <2>1 DEF Gone
<1>6. Missing = {} => RowOrDead(task', rows', ex', unknown')
  <2> SUFFICES ASSUME Missing = {}, NEW p \in Orders, ex'[p].status # "none", p \notin unknown', r[p].status = "none"
               PROVE  Dead(ex'[p])
    BY <1>2 DEF RowOrDead
  <2>1. p # o /\ rows[p].status = "none" /\ p \notin unknown
    BY <1>1
  <2>2. ex[p].status # "none" \/ ex'[p] = ex[p]
    BY DEF ExchangeGoes
  <2>3. Dead(ex[p])
    BY <2>1, <2>2 DEF Whole, RowOrDead
  <2> QED BY <2>3 DEF Dead, ExchangeGoes
<1>7. faults' = 0 => KeptBy(task', trade', rows', ex')
  <2> SUFFICES ASSUME faults = 0 PROVE KeptBy(task', trade', r, ex')
    BY <1>2
  <2>1. KeptBy(k, trade', r, ex')
    BY <1>2 DEF KeptBy
  <2>2. CASE task' = k
    BY <2>1, <2>2
  <2>3. CASE k.at # "cancel"
    <3>1. PICK stops \in SUBSET OpenStops(r) : task' = StopsFirst(k, stops) /\ (stops # {} => Bought(r))
      BY <1>2
    <3> HIDE DEF r
    <3>2. KeptBy(StopsFirst(k, stops), trade', r, ex')
      BY <2>1, <2>3, <3>1, StopsKept
    <3> QED BY <3>1, <3>2
  <2> QED BY <1>3, <2>2, <2>3
<1>8. FillsGrow
  BY <1>1, <1>2 DEF FillsGrow, Fits, Order
<1> QED BY <1>2, <1>4, <1>5, <1>6, <1>7, <1>8 DEF Whole

(* The exchange goes on, and the order dicts the handlers get from it. *)

LEMMA SameGoes == TypeOK => ExchangeGoes(ex, ex) /\ ex \in [Orders -> Order]
  BY DEF TypeOK, ExchangeGoes, Order

LEMMA CancelGoes ==
  ASSUME TypeOK, NEW o \in Orders, ex' = CancelOnExchange(o)
  PROVE  ex' \in [Orders -> Order] /\ ExchangeGoes(ex, ex') /\ ex'[o].status # "open"
<1>1. ex \in [Orders -> Order] /\ \A p \in Orders : ex[p] \in Order /\ ex[p].filled \in Nat
  BY DEF TypeOK, Order
<1>2. ex' = [ex EXCEPT ![o] = [ex[o] EXCEPT !.status = IF ex[o].status = "open" THEN "canceled" ELSE ex[o].status]]
  BY <1>1 DEF CancelOnExchange, Order
<1>3. /\ ex'[o].status = (IF ex[o].status = "open" THEN "canceled" ELSE ex[o].status)
      /\ ex'[o].side = ex[o].side /\ ex'[o].filled = ex[o].filled
      /\ ex[o].status # "open" => ex'[o] = ex[o]
      /\ \A p \in Orders : p # o => ex'[p] = ex[p]
  BY <1>1, <1>2 DEF Order
<1>4. ExchangeGoes(ex, ex')
  BY <1>1, <1>3 DEF ExchangeGoes
<1> QED BY <1>4, CancelMoves

\* The latest of an order, with the side of its row.
LEMMA LatestFits ==
  ASSUME Inv, Books, NEW o \in Orders, NEW f \in [Orders -> Order], ExchangeGoes(ex, f),
         ex[o].status # "none", NEW side \in {"entry", "exit", "stoploss"},
         side = "entry" <=> ex[o].side = "entry",
         rows[o].status # "none" => side = rows[o].side,
         f[o].status = "open" => ex[o].status = "open"
  PROVE  [f[o] EXCEPT !.side = side] \in Order /\ Fits([f[o] EXCEPT !.side = side], rows[o], f[o])
<1> DEFINE s == [f[o] EXCEPT !.side = side]
<1>1. /\ rows[o] \in Order /\ f[o] \in Order /\ ex[o] \in Order /\ f[o].filled \in Nat
      /\ ex[o].filled \in Nat /\ rows[o].filled \in Nat
  BY DEF Inv, TypeOK, Order
<1>2. /\ s \in Order /\ s.side = side /\ s.filled = f[o].filled /\ s.status = f[o].status
  BY <1>1 DEF Order
<1>3. f[o].side = ex[o].side /\ ex[o].filled <= f[o].filled /\ f[o].status # "none"
  BY DEF ExchangeGoes
<1>4. rows[o].filled <= ex[o].filled
  BY <1>1 DEF Books, RowsAgree, OfOrder, NoOrder
<1>5. f[o].status = "open" => rows[o].status \notin NonOpen
  BY DEF Inv, NeverAhead, NonOpen
<1> HIDE DEF s
<1>6. OfOrder(s, f[o])
  BY <1>1, <1>2, <1>3 DEF OfOrder
<1>7. rows[o].filled <= s.filled
  BY <1>1, <1>2, <1>3, <1>4
<1>8. Fits(s, rows[o], f[o])
  BY <1>2, <1>3, <1>5, <1>6, <1>7 DEF Fits
<1> QED BY <1>2, <1>8 DEF s

\* The side of a row says what its order is.
LEMMA RowSide ==
  ASSUME Inv, Books, NEW o \in Orders, rows[o].status # "none"
  PROVE  rows[o].side \in {"entry", "exit", "stoploss"} /\ (rows[o].side = "entry" <=> ex[o].side = "entry")
<1>1. rows[o].side \in {"none", "entry", "exit", "stoploss"}
  BY DEF Inv, TypeOK, Order
<1> QED BY <1>1 DEF Books, RowsAgree, OfOrder

LEMMA SnapshotFits ==
  ASSUME Inv, Books, NEW o \in Orders, ex[o].status # "none"
  PROVE  /\ Snapshot(o) \in Order /\ Fits(Snapshot(o), rows[o], ex[o])
         /\ Snapshot(o).status = ex[o].status
         /\ rows[o].status # "none" => Snapshot(o).side = rows[o].side
<1> DEFINE side == IF rows[o].status = "none" THEN IF ex[o].side = "entry" THEN "entry" ELSE "exit"
                   ELSE rows[o].side
<1>1. ex \in [Orders -> Order] /\ ExchangeGoes(ex, ex) /\ ex[o] \in Order
  BY SameGoes DEF Inv, TypeOK
<1>2. side \in {"entry", "exit", "stoploss"} /\ (side = "entry" <=> ex[o].side = "entry")
      /\ (rows[o].status # "none" => side = rows[o].side)
  BY RowSide
<1>3. Snapshot(o) = [ex[o] EXCEPT !.side = side]
  BY <1>1 DEF Snapshot, Order
<1> HIDE DEF side
<1>4. Snapshot(o) \in Order /\ Fits(Snapshot(o), rows[o], ex[o])
  BY <1>1, <1>2, <1>3, LatestFits
<1>5. Snapshot(o).status = ex[o].status /\ Snapshot(o).side = side
  BY <1>1, <1>3 DEF Order
<1> QED BY <1>2, <1>4, <1>5

\* The answers made up for an order that is not found.
LEMMA MadeUpFits ==
  ASSUME Inv, Books, Missing # {}, NEW o \in Orders, NEW f \in [Orders -> Order], ExchangeGoes(ex, f),
         rows[o].status # "none"
  PROVE  LET gone == [rows[o] EXCEPT !.status = "canceled"]
         IN /\ gone \in Order /\ gone.side = rows[o].side /\ gone.status = "canceled"
            /\ Fits(gone, rows[o], f[o])
            /\ rows[o].status = "open" =>
                 /\ Fabricated(o) \in Order /\ Fits(Fabricated(o), rows[o], f[o])
                 /\ Fabricated(o).status = "canceled" /\ Fabricated(o).side = rows[o].side
<1> DEFINE gone == [rows[o] EXCEPT !.status = "canceled"]
           left == rows[o].amount - rows[o].filled
<1>1. /\ rows[o] \in Order /\ f[o] \in Order /\ ex[o] \in Order /\ f[o].filled \in Nat
      /\ ex[o].filled \in Nat /\ rows[o].filled \in Nat /\ ex[o].status # "none"
      /\ rows[o].amount \in Nat /\ rows[o].filled <= rows[o].amount
  BY DEF Inv, TypeOK, Order, NeverAhead
<1>2. rows[o].side \in {"entry", "exit", "stoploss"} /\ (rows[o].side = "entry" <=> ex[o].side = "entry")
  BY RowSide
<1>3. f[o].side = ex[o].side /\ ex[o].filled <= f[o].filled
  BY DEF ExchangeGoes
<1>4. rows[o].filled <= f[o].filled
  BY <1>1, <1>3 DEF Books, RowsAgree, OfOrder
<1>5. left \in Nat /\ 0 <= left
  BY <1>1
<1>6. Fabricated(o) = [rows[o] EXCEPT !.status = "canceled", !.filled = 0, !.amount = left]
  BY DEF Fabricated
<1> HIDE DEF left
<1>7. Fabricated(o) = [side |-> rows[o].side, amount |-> left, filled |-> 0, status |-> "canceled"]
  BY <1>1, <1>6 DEF Order
<1>8. Fabricated(o) \in Order
  BY <1>2, <1>5, <1>7 DEF Order, NonOpen
<1>9. /\ Fabricated(o).side = rows[o].side /\ Fabricated(o).filled = 0
      /\ Fabricated(o).status = "canceled"
  BY <1>7
<1>10. gone \in Order /\ gone.side = rows[o].side /\ gone.status = "canceled" /\ gone.filled = rows[o].filled
  BY <1>1 DEF Order, NonOpen
<1> HIDE DEF gone
<1>11. Fits(gone, rows[o], f[o])
  BY <1>1, <1>2, <1>3, <1>4, <1>10 DEF Fits, OfOrder
<1>12. rows[o].status = "open" => Fits(Fabricated(o), rows[o], f[o])
  BY <1>1, <1>2, <1>3, <1>9 DEF Fits, OfOrder
<1> QED BY <1>8, <1>9, <1>10, <1>11, <1>12 DEF gone
-----------------------------------------------------------------------------
\* A trade with an order that sells was bought.
LEMMA RowSold ==
  ASSUME Inv, Books, NEW o \in Orders, rows[o].side \notin {"none", "entry"}
  PROVE  Bought(rows)
<1>1. rows[o].status # "none"
  BY DEF Books, RowsAgree, NoOrder
<1>2. ex[o].side # "entry" /\ ex[o].side # "none"
  BY <1>1, RowSide DEF Inv, NeverAhead, Books, Exchanged
<1> QED BY <1>2 DEF Books, Sold

LEMMA StopsBought ==
  ASSUME Inv, Books, OpenStops(rows) # {}
  PROVE  Bought(rows)
  BY RowSold DEF OpenStops

LEMMA SellsBought ==
  ASSUME Inv, Books, NEW o \in Orders, NEW f \in [Orders -> Order], ExchangeGoes(ex, f), NEW s \in Order,
         Fits(s, rows[o], f[o]), ex[o].status # "none"
  PROVE  /\ s.side # "entry" => Bought(rows)
         /\ Bought(rows) => Bought([rows EXCEPT ![o] = s])
         /\ s.side = "entry" /\ s.status # "open" /\ s.filled # 0 => Bought([rows EXCEPT ![o] = s])
<1>1. s.side # "entry" => Bought(rows)
  BY DEF Books, Exchanged, Sold, Fits, OfOrder, ExchangeGoes
<1>2. rows \in [Orders -> Order] /\ s.filled \in Nat
  BY DEF Inv, TypeOK, Order
<1>3. /\ Bought(rows) => Bought([rows EXCEPT ![o] = s])
      /\ s.side = "entry" /\ s.status # "open" /\ s.filled > 0 => Bought([rows EXCEPT ![o] = s])
  BY <1>2, BoughtStays
<1> QED BY <1>1, <1>2, <1>3

LEMMA KeptBought ==
  ASSUME NEW k, NEW tr, NEW r, NEW e, Bought(r), ~InLoop(k, "startup")
  PROVE  KeptBy(k, tr, r, e)
  BY DEF KeptBy

\* What the locals k must say about rows r, so that the trade is kept.
Keeps(k, r) ==
  /\ ~InLoop(k, "startup")
  /\ k.at = "adopt" \/ k.repl \/ Exiting(k) => Bought(r)

LEMMA KeptRow ==
  ASSUME Inv, Books, NEW o \in Orders, NEW f \in [Orders -> Order], ExchangeGoes(ex, f), NEW s \in Order,
         Fits(s, rows[o], f[o]), ex[o].status # "none", NEW k, Keeps(k, rows), NEW tr,
         \/ s.status = "open" \/ s.filled # 0 \/ s.side # "entry" \/ Bought(rows)
  PROVE  KeptBy(k, tr, [rows EXCEPT ![o] = s], f)
<1> DEFINE r == [rows EXCEPT ![o] = s]
<1>1. Bought(r) \/ (s.status = "open" /\ s.side = "entry")
  BY SellsBought
<1>2. Bought(rows) => Bought(r)
  BY SellsBought
<1>3. r[o] = s
  BY DEF Inv, TypeOK
<1> HIDE DEF r
<1>4. s.status = "open" /\ s.side = "entry" => OpenOrders(r) # {}
  BY <1>3 DEF OpenOrders
<1>5. KeptBy(k, tr, r, f)
  BY <1>1, <1>2, <1>4 DEF Keeps, KeptBy
<1> QED BY <1>5 DEF r

LEMMA IdleKeeps ==
  ASSUME NEW r
  PROVE  Keeps(Idle, r) /\ Keeps(Done, r)
<1>1. Keeps(Idle, r)
  BY DEF Keeps, InLoop, Exiting, Idle
<1>2. Keeps(Done, r)
  BY DEF Keeps, InLoop, Exiting, Idle, Done
<1> QED BY <1>1, <1>2

LEMMA DoneKept ==
  ASSUME NEW r, NEW tr, NEW e, tr = "open" => Bought(r) \/ OpenOrders(r) # {}
  PROVE  KeptBy(Idle, tr, r, e) /\ KeptBy(Done, tr, r, e)
<1>1. KeptBy(Idle, tr, r, e)
  BY DEF KeptBy, InLoop, Exiting, Idle
<1>2. KeptBy(Done, tr, r, e)
  BY DEF KeptBy, InLoop, Exiting, Idle, Done
<1> QED BY <1>1, <1>2

\* update_trade_state, in the simplest case: the locals stay as good as they were.
LEMMA ApplyWhole ==
  ASSUME TradeAssumption, Inv, Whole, ex' \in [Orders -> Order], ExchangeGoes(ex, ex'),
         NEW o \in Orders, NEW s \in Order, Fits(s, rows[o], ex'[o]), ex[o].status # "none",
         NEW sending, NEW k \in Task, UpdateTradeState(o, s, sending, k),
         ~Absent(trade), task.at \in Recording => task.o = o,
         k.at \notin {"cancel"} \cup Recording, Locals(k, rows, db.rows, ex),
         InLoop(k, "cancelOpen") \/ InLoop(k, "force") => o \notin k.todo,
         unknown' = unknown, faults' = faults,
         faults = 0 => /\ Keeps(k, rows)
                       /\ s.status = "open" \/ s.filled # 0 \/ s.side # "entry" \/ Bought(rows)
  PROVE  Whole' /\ FillsGrow
<1>1. rows \in [Orders -> Order] /\ unknown \in SUBSET Orders /\ Books
  BY DEF Inv, TypeOK, Whole
<1>2. Locals(k, [rows EXCEPT ![o] = s], db.rows, ex')
  BY <1>1, RowLocals
<1>3. faults = 0 => KeptBy(k, trade, [rows EXCEPT ![o] = s], ex')
  BY <1>1, KeptRow
<1> QED BY <1>1, <1>2, <1>3, UpdateWhole

\* Where nothing was bought and no row but that of o is open, no order lives or
\* was filled but o and those nobody knows of.
LEMMA NothingLeft ==
  ASSUME Inv, Books, RowOrDead(task, rows, ex, unknown), Missing = {}, ~Bought(rows),
         NEW f \in [Orders -> Order], ExchangeGoes(ex, f),
         NEW o, Open(rows) \ {o} = {}, o \in Orders => Dead(f[o]),
         task.at \in Recording => task.o = o
  PROVE  \A p \in Orders \ unknown : f[p].status # "none" => Dead(f[p])
<1> SUFFICES ASSUME NEW p \in Orders, p \notin unknown, f[p].status # "none", p # o
             PROVE  Dead(f[p])
  OBVIOUS
<1>1. ex[p] \in Order /\ rows[p] \in Order /\ rows[p].filled \in Nat
  BY DEF Inv, TypeOK, Order
<1>2. ex[p].status # "none"
  BY DEF ExchangeGoes
<1>3. CASE rows[p].status = "none"
  <2>1. Dead(ex[p])
    BY <1>2, <1>3 DEF RowOrDead
  <2> QED BY <2>1 DEF Dead, ExchangeGoes
<1>4. CASE rows[p].status # "none"
  <2>1. rows[p].status # "open" /\ rows[p].status \in NonOpen
    BY <1>1, <1>4 DEF Open, Order
  <2>2. ex[p].status = rows[p].status /\ ex[p].filled = rows[p].filled
    BY <1>4, <2>1 DEF Books, RowsAgree, OfOrder
  <2>3. rows[p].side = "entry"
    BY <1>4, RowSide, RowSold
  <2>4. rows[p].filled = 0
    BY <1>1, <2>1, <2>3 DEF Bought, SuccessfulEntries
  <2>5. f[p] = ex[p]
    BY <2>1, <2>2 DEF ExchangeGoes
  <2> QED BY <2>1, <2>2, <2>4, <2>5 DEF Dead
<1> QED BY <1>3, <1>4

LEMMA DeleteWhole ==
  ASSUME Inv, Whole, DeleteTrade, ex' \in [Orders -> Order], ExchangeGoes(ex, ex'), ~Bought(rows),
         unknown' = unknown, faults' = faults, task.at \in Recording => task.o \in Orders,
         NEW o, Open(rows) \ {o} = {}, task.at \in Recording => task.o = o,
         Missing = {} /\ o \in Orders => Dead(ex'[o])
  PROVE  Whole' /\ FillsGrow
<1>1. /\ rows' = [p \in Orders |-> NoOrder] /\ trade' = "deleted" /\ task' = Done
      /\ db' = Committed(rows', "deleted", amount)
  BY DEF DeleteTrade, Save
<1>2. /\ db'.rows = rows' /\ \A p \in Orders : rows'[p].status = "none"
  BY <1>1 DEF Committed, NoOrder
<1>3. Books'
  BY DeletedBooks DEF Whole
<1>4. Locals(task', rows', db'.rows, ex')
  BY <1>1, IdleLocals
<1>5. Gone'
  BY <1>1, <1>2 DEF Gone, Rest, Done
<1>6. Missing = {} => RowOrDead(task', rows', ex', unknown')
  <2> SUFFICES ASSUME Missing = {} PROVE RowOrDead(task', rows', ex', unknown)
    OBVIOUS
  <2>1. \A p \in Orders \ unknown : ex'[p].status # "none" => Dead(ex'[p])
    BY NothingLeft DEF Whole
  <2> QED BY <2>1 DEF RowOrDead
<1>7. KeptBy(task', trade', rows', ex')
  BY <1>1, DoneKept
<1>8. FillsGrow
  BY <1>2 DEF FillsGrow
<1> QED BY <1>3, <1>4, <1>5, <1>6, <1>7, <1>8 DEF Whole

\* What the cancel handler returns does not matter to the invariant.
LEMMA ResultOnly ==
  ASSUME NEW k \in Task, NEW b \in {TRUE, FALSE}, NEW r, NEW d, NEW e
  PROVE  LET n == [k EXCEPT !.res = b]
         IN /\ n \in Task /\ n.at = k.at /\ n.todo = k.todo
            /\ Locals(k, r, d, e) => Locals(n, r, d, e)
            /\ Keeps(k, r) => Keeps(n, r)
            /\ \A l : InLoop(n, l) = InLoop(k, l)
<1> DEFINE n == [k EXCEPT !.res = b]
<1>1. n \in Task
  BY DEF Task
<1>2. /\ n.at = k.at /\ n.then = k.then /\ n.after = k.after /\ n.o = k.o /\ n.snap = k.snap
      /\ n.todo = k.todo /\ n.stops = k.stops /\ n.size = k.size /\ n.repl = k.repl
  BY DEF Task
<1> HIDE DEF n
<1>3. \A l : InLoop(n, l) = InLoop(k, l)
  BY <1>2 DEF InLoop
<1>4. Locals(k, r, d, e) => Locals(n, r, d, e)
  BY <1>2 DEF Locals, InLoop
<1>5. Keeps(k, r) => Keeps(n, r)
  BY <1>2 DEF Keeps, InLoop, Exiting
<1> QED BY <1>1, <1>2, <1>3, <1>4, <1>5 DEF n

\* handle_cancel_enter on an order that is no longer open.
LEMMA CanceledWhole ==
  ASSUME TradeAssumption, Inv, Whole, ex' \in [Orders -> Order], ExchangeGoes(ex, ex'),
         NEW o \in Orders, NEW s \in Order, Fits(s, rows[o], ex'[o]), ex[o].status # "none",
         NEW repl, NEW k \in Task, CanceledEntry(o, s, repl, k), s.status \in NonOpen, s.side = "entry",
         ~Absent(trade), task.at \notin Recording,
         k.at \notin {"cancel"} \cup Recording, Locals(k, rows, db.rows, ex),
         InLoop(k, "cancelOpen") \/ InLoop(k, "force") => o \notin k.todo,
         unknown' = unknown, faults' = faults,
         faults = 0 => Keeps(k, rows) /\ (repl => Bought(rows))
  PROVE  Whole' /\ FillsGrow
<1>1. Books /\ s.status # "open"
  BY DEF Whole, NonOpen
<1>2. ASSUME NEW b \in {TRUE, FALSE}, UpdateTradeState(o, s, TRUE, [k EXCEPT !.res = b]),
             faults = 0 => s.filled # 0 \/ Bought(rows)
      PROVE  Whole' /\ FillsGrow
  <2> DEFINE n == [k EXCEPT !.res = b]
  <2>1. /\ n \in Task /\ n.at = k.at /\ n.todo = k.todo
        /\ Locals(n, rows, db.rows, ex) /\ (Keeps(k, rows) => Keeps(n, rows))
        /\ InLoop(n, "cancelOpen") \/ InLoop(n, "force") => o \notin n.todo
    BY ResultOnly
  <2>2. UpdateTradeState(o, s, TRUE, n)
    BY <1>2
  <2> HIDE DEF n
  <2>3. faults = 0 => Keeps(n, rows) /\ (s.status = "open" \/ s.filled # 0 \/ s.side # "entry" \/ Bought(rows))
    BY <1>2, <2>1
  <2> QED BY <2>1, <2>2, <2>3, ApplyWhole
<1>3. CASE s.filled # 0
  BY <1>2, <1>3 DEF CanceledEntry
<1>4. CASE s.filled = 0 /\ Open(rows) \ {o} = {} /\ SuccessfulEntries(rows) = {} /\ ~repl
  <2>1. DeleteTrade /\ ~Bought(rows)
    BY <1>4 DEF CanceledEntry, Bought
  <2>2. Missing = {} => Dead(ex'[o])
    BY <1>1, <1>4 DEF Fits, OfOrder, Dead
  <2> QED BY <1>4, <2>1, <2>2, DeleteWhole
<1>5. CASE s.filled = 0 /\ ~(Open(rows) \ {o} = {} /\ SuccessfulEntries(rows) = {} /\ ~repl)
  <2>1. UpdateTradeState(o, s, TRUE, [k EXCEPT !.res = TRUE])
    BY <1>5 DEF CanceledEntry
  <2>2. CASE faults = 0 => Bought(rows)
    BY <1>2, <2>1, <2>2
  <2>3. CASE faults = 0 /\ ~Bought(rows)
    <3> DEFINE n == [k EXCEPT !.res = TRUE]
               r == [rows EXCEPT ![o] = s]
    <3>1. PICK p \in Orders : p # o /\ rows[p].status = "open"
      BY <1>5, <2>3 DEF Bought, Open
    <3>2. rows[p].side # "stoploss"
      BY <1>1, <2>3, RowSold
    <3>3. OpenOrders(r) # {}
      <4>1. r[p] = rows[p]
        BY <3>1
      <4> HIDE DEF r
      <4> QED BY <3>1, <3>2, <4>1 DEF OpenOrders
    <3>4. n \in Task /\ n.at = k.at /\ n.todo = k.todo /\ Locals(n, rows, db.rows, ex) /\ Keeps(n, rows)
          /\ (InLoop(n, "cancelOpen") \/ InLoop(n, "force") => o \notin n.todo)
      BY <2>3, ResultOnly
    <3>5. UpdateTradeState(o, s, TRUE, n)
      BY <2>1
    <3> HIDE DEF n
    <3>6. KeptBy(n, trade, r, ex')
      BY <2>3, <3>3, <3>4 DEF Keeps, KeptBy
    <3>7. Locals(n, r, db.rows, ex')
      <4>1. rows \in [Orders -> Order]
        BY DEF Inv, TypeOK
      <4> QED BY <3>4, <4>1, RowLocals
    <3>8. unknown \in SUBSET Orders
      BY DEF Inv, TypeOK
    <3> QED BY <3>4, <3>5, <3>6, <3>7, <3>8, UpdateWhole
  <2> QED BY <2>2, <2>3
<1> QED BY <1>3, <1>4, <1>5

LEMMA PlacedWhole ==
  ASSUME TradeAssumption, Inv, Whole, NEW l \in Recording, NEW a \in Nat,
         Placed(Sides[l], a, At(l)), task.at \notin Recording, ~InLoop(task, "adopt"),
         l # "recordEntry" => Bought(rows),
         Absent(trade) => trade = "none" /\ l = "recordEntry"
  PROVE  Whole' /\ FillsGrow
<1> DEFINE side == Sides[l]
<1>1. side \in {"entry", "exit", "stoploss"} /\ (side = "entry" <=> l = "recordEntry")
      /\ (side = "stoploss" <=> l = "recordStop")
  BY DEF Sides, Recording
<1>2. Placed(side, a, At(l))
  OBVIOUS
<1>3. PICK o \in Orders :
        /\ ex[o].status = "none"
        /\ \E s \in (IF side = "stoploss" THEN {"open"} ELSE PlacedAs), f \in 0..a :
             /\ s = "open" => f = 0
             /\ LET new == [side |-> side, amount |-> a, filled |-> f, status |-> s]
                IN /\ ex' = [ex EXCEPT ![o] = new]
                   /\ task' = [At(l) EXCEPT !.o = o, !.snap = new]
        /\ UNCHANGED <<rows, trade, amount, db, unknown, faults>>
  BY <1>2, Zenon DEF Placed
<1>4. PICK s \in {"open"} \cup NonOpen, f \in 0..a :
        /\ s = "open" => f = 0
        /\ side = "stoploss" => s = "open"
        /\ LET new == [side |-> side, amount |-> a, filled |-> f, status |-> s]
           IN /\ ex' = [ex EXCEPT ![o] = new]
              /\ task' = [At(l) EXCEPT !.o = o, !.snap = new]
  BY <1>3 DEF TradeAssumption
<1> DEFINE new == [side |-> side, amount |-> a, filled |-> f, status |-> s]
<1> HIDE DEF side
<1>5. /\ new \in Order /\ new.status = s /\ new.status # "none" /\ new.side = side /\ new.filled = f
      /\ new.filled \in Nat
  BY <1>1 DEF Order, NonOpen
<1> HIDE DEF new
<1>6. ex \in [Orders -> Order] /\ ex' = [ex EXCEPT ![o] = new] /\ ex'[o] = new
      /\ \A p \in Orders : p # o => ex'[p] = ex[p]
  BY <1>4 DEF Inv, TypeOK, new
<1>7. /\ task'.o = o /\ task'.snap = new /\ task'.at = l /\ task'.after = task.after
      /\ task'.todo = task.todo /\ task'.stops = task.stops /\ task'.size = task.size
      /\ task'.repl = task.repl
  <2>1. task \in Task
    BY DEF Inv, TypeOK
  <2>2. task' = [At(l) EXCEPT !.o = o, !.snap = new]
    BY <1>4 DEF new
  <2> QED BY <2>1, <2>2 DEF At, Task
<1>8. rows' = rows /\ trade' = trade /\ db' = db /\ unknown' = unknown /\ faults' = faults
  BY <1>3
<1>9. rows[o].status = "none" /\ db.rows[o].status = "none" /\ rows[o].filled = 0
  BY <1>3 DEF Inv, NeverAhead, Whole, Books, RowsAgree, NoOrder
<1>10. Books'
  BY <1>1, <1>3, <1>5, <1>6, PlacedBooks DEF Whole
<1>11. \A m : InLoop(task', m) <=> l = m
  BY <1>7 DEF InLoop, Recording
<1>12. "cancel" \notin Recording /\ "cancelOpen" \notin Recording /\ "force" \notin Recording
       /\ "adopt" \notin Recording /\ "startup" \notin Recording
  BY DEF Recording
<1>13. Locals(task', rows, db.rows, ex')
  <2>1. Fits(new, rows[o], ex'[o])
    BY <1>1, <1>5, <1>6, <1>9 DEF Fits, OfOrder, NonOpen
  <2>2. /\ \A p \in task.todo : rows[p].status # "none"
        /\ \A p \in task.stops : rows[p].status # "none" /\ rows[p].side = "stoploss"
        /\ task.size > 0 => Bought(rows)
    BY DEF Whole, Locals
  <2>3. l = "recordStop" => new.status = "open" /\ new.filled = 0
    BY <1>1, <1>4, <1>5
  <2>4. new.side = Sides[l]
    BY <1>5 DEF side
  <2> QED BY <1>7, <1>9, <1>11, <1>12, <2>1, <2>2, <2>3, <2>4 DEF Locals
<1>14. Gone'
  BY <1>3, <1>7, <1>8 DEF Whole, Gone, Rest, Absent
<1>15. Missing = {} => RowOrDead(task', rows, ex', unknown)
  BY <1>6, <1>7 DEF Whole, RowOrDead
<1>16. faults = 0 => KeptBy(task', trade, rows, ex')
  <2>1. Exiting(task') => Exiting(task)
    BY <1>7, <1>11 DEF Exiting, Recording
  <2>2. task.at # "adopt"
    BY DEF InLoop
  <2>3. task'.at # "adopt" /\ ~InLoop(task', "startup")
    BY <1>7, <1>11, <1>12
  <2> QED BY <1>7, <2>1, <2>2, <2>3 DEF Whole, KeptBy
<1> QED BY <1>8, <1>10, <1>13, <1>14, <1>15, <1>16, SameFills DEF Whole

\* A row is saved, or added to the session, by a handler that recorded the order.
LEMMA SavedWhole ==
  ASSUME Inv, Whole, NEW o \in Orders, NEW s \in Order, Fits(s, rows[o], ex[o]), ex[o].status # "none",
         ex' = ex, unknown' = unknown, faults' = faults, rows' = [rows EXCEPT ![o] = s], ~Absent(trade'),
         \/ s.filled = 0 /\ UNCHANGED <<trade, amount, db>>
         \/ /\ db' = Committed(rows', trade', amount')
            /\ Paid(rows', trade', amount'),
         task.at \in Recording => task.o = o, rows[o].filled = 0,
         Locals(task', rows', db'.rows, ex'),
         faults = 0 => KeptBy(task', trade', rows', ex')
  PROVE  Whole' /\ FillsGrow
<1>1. /\ ex' \in [Orders -> Order] /\ ExchangeGoes(ex, ex') /\ rows \in [Orders -> Order]
      /\ s.status # "none" /\ s.filled \in Nat
  BY SameGoes DEF Inv, TypeOK, Fits, Order
<1>2. Books'
  BY <1>1, RowBooks DEF Whole
<1>3. Gone'
  BY DEF Gone
<1>4. Missing = {} => RowOrDead(task', rows', ex', unknown')
  BY <1>1 DEF Whole, RowOrDead
<1>5. FillsGrow
  BY <1>1 DEF FillsGrow, Order
<1> QED BY <1>2, <1>3, <1>4, <1>5 DEF Whole

\* An order that was placed is not recorded.
LEMMA AbandonWhole ==
  ASSUME Inv, Whole, task.at \in Recording, task' = Done, Bot, ex' = ex,
         unknown \subseteq unknown', faults' = 0 => faults = 0,
         Missing = {} => task.o \in unknown' \/ Dead(ex[task.o])
  PROVE  Whole' /\ FillsGrow
<1>1. rows' = rows /\ trade' = trade /\ amount' = amount /\ db' = db
  BY DEF Bot
<1>2. Books'
  BY <1>1 DEF Whole, Books
<1>3. Locals(task', rows', db'.rows, ex')
  BY IdleLocals
<1>4. Gone'
  BY <1>1 DEF Whole, Gone, Rest, Done
<1>5. Missing = {} => RowOrDead(task', rows', ex', unknown')
  BY <1>1 DEF Whole, RowOrDead
<1>6. faults' = 0 => KeptBy(task', trade', rows', ex')
  <2>1. faults = 0 => (trade = "open" => Bought(rows) \/ OpenOrders(rows) # {})
    BY DEF Whole, KeptBy, Recording
  <2> QED BY <1>1, <2>1, DoneKept
<1> QED BY <1>1, <1>2, <1>3, <1>4, <1>5, <1>6, SameFills DEF Whole

(* One lemma per group of actions: the step keeps the books, and no fill is forgotten. *)

LEMMA DoneWhole ==
  ASSUME Inv, Whole, JustGo(Done), task.at \notin Recording, task.at # "adopt"
  PROVE  Whole' /\ FillsGrow
<1>1. faults = 0 => KeptBy(Done, trade, rows, ex)
  BY DoneKept DEF Whole, KeptBy
<1>2. Absent(trade) => Done.at \in Rest(trade)
  BY DEF Done, Rest
<1> QED BY <1>1, <1>2, IdleType, IdleLocals, GoWhole

LEMMA ExitFlowWhole ==
  ASSUME Inv, Whole, NEW a \in Nat, JustGo(ExitFlow(a)), task.at \notin Recording, ~Absent(trade),
         a > 0 \/ faults = 0 => Bought(rows)
  PROVE  Whole' /\ FillsGrow
<1> DEFINE k == [[Idle EXCEPT !.size = a, !.mode = task.mode] EXCEPT !.at = "checkAmount"]
<1>1. task \in Task /\ Idle \in Task /\ rows \in [Orders -> Order]
  BY IdleType DEF Inv, TypeOK
<1>2. k \in Task
  BY <1>1, LabelFacts DEF Task
<1>3. /\ k.at = "checkAmount" /\ k.then = "idle" /\ k.todo = {} /\ k.stops = {} /\ k.size = a /\ ~k.repl
  BY DEF Idle
<1>4. ExitFlow(a) = StopsFirst(k, OpenStops(rows))
  BY DEF ExitFlow
<1> HIDE DEF k
<1>5. Locals(k, rows, db.rows, ex)
  BY <1>3 DEF Locals, InLoop, Recording
<1>6. k.at \notin {"cancel"} \cup Recording
  BY <1>3 DEF Recording
<1>7. Locals(ExitFlow(a), rows, db.rows, ex)
  BY <1>1, <1>2, <1>4, <1>5, <1>6, StopsBought, StopsLocals DEF Whole
<1>8. faults = 0 => KeptBy(ExitFlow(a), trade, rows, ex)
  <2> SUFFICES ASSUME faults = 0 PROVE KeptBy(ExitFlow(a), trade, rows, ex)
    OBVIOUS
  <2>1. KeptBy(k, trade, rows, ex)
    BY <1>3, KeptBought DEF InLoop
  <2> QED BY <1>2, <1>4, <1>6, <2>1, StopsKept
<1> QED BY <1>7, <1>8, ExitFlowOK, GoWhole

LEMMA MarketWhole ==
  ASSUME Inv, Whole, Market
  PROVE  Whole' /\ FillsGrow
<1>0. PICK o \in Orders : ExchangeCancel(o) \/ \E n \in 1..ex[o].amount : Fill(o, n)
  BY DEF Market
<1>1. ex \in [Orders -> Order] /\ ex[o] \in Order /\ TypeOK /\ ex[o].filled \in Nat /\ ex[o].amount \in Nat
  BY DEF Inv, TypeOK, Order
<1>2. CASE ExchangeCancel(o)
  BY <1>1, <1>2, CancelGoes, MovedWhole DEF ExchangeCancel
<1>3. ASSUME NEW n \in 1..ex[o].amount, Fill(o, n) PROVE Whole' /\ FillsGrow
  <2> DEFINE f == ex[o].filled + n
             st == IF f = ex[o].amount THEN "closed" ELSE "open"
             new == [ex[o] EXCEPT !.filled = f, !.status = st]
  <2>1. ex[o].status = "open" /\ n \in 1..(ex[o].amount - ex[o].filled)
    BY <1>3 DEF Fill
  <2>2. f \in Nat /\ f <= ex[o].amount /\ ex[o].filled <= f
    BY <1>1, <2>1
  <2>3. st \in {"open", "closed"}
    OBVIOUS
  <2> HIDE DEF f, st
  <2>4. new \in Order /\ new.filled = f /\ new.status # "none" /\ new.side = ex[o].side
    BY <1>1, <2>2, <2>3 DEF Order, NonOpen
  <2>5. ex' = [ex EXCEPT ![o] = new]
    BY <1>1, <1>3 DEF Fill, Order, f, st
  <2> HIDE DEF new
  <2>6. ex' \in [Orders -> Order] /\ ExchangeGoes(ex, ex')
    <3>1. ex'[o] = new /\ \A p \in Orders : p # o => ex'[p] = ex[p]
      BY <1>1, <2>5
    <3>2. ExchangeGoes(ex, ex)
      BY <1>1, SameGoes
    <3> QED BY <1>1, <2>1, <2>2, <2>4, <2>5, <3>1, <3>2 DEF ExchangeGoes
  <2> QED BY <1>3, <2>6, MovedWhole DEF Fill
<1> QED BY <1>0, <1>2, <1>3

LEMMA EntryWhole ==
  ASSUME TradeAssumption, ~AdjustOrderPrice, Inv, Whole,
         CreateTrade \/ AdjustEntry \/ PlaceEntry \/ RefuseEntry
  PROVE  Whole' /\ FillsGrow
<1>1. task \in Task /\ TaskOK(task, ex) /\ Stake \in Nat /\ amount \in Nat
  BY DEF Inv, TypeOK, TradeAssumption
<1>2. "recordEntry" \in Recording /\ Sides["recordEntry"] = "entry"
  BY DEF Recording, Sides
<1>3. CASE CreateTrade
  <2>1. Placed("entry", Stake, At("recordEntry")) /\ task.at = "idle" /\ trade = "none"
    BY <1>3, IdleFacts DEF CreateTrade, At
  <2>2. ~InLoop(task, "adopt") /\ task.at \notin Recording
    BY <2>1 DEF InLoop, Recording
  <2> QED BY <1>1, <1>2, <2>1, <2>2, PlacedWhole
<1>4. CASE AdjustEntry
  <2>1. task = Idle /\ OpenOrders(rows) \in SUBSET Orders /\ trade = "open" /\ Bought(rows)
    BY <1>1, <1>4 DEF AdjustEntry, OpenOrders, Whole, Books, Paid
  <2> DEFINE k == [task EXCEPT !.size = Stake, !.mode = "pos_adjust"]
             p == [k EXCEPT !.at = "placeEntry"]
             c == [k EXCEPT !.at = "cancelOpen", !.after = "placeEntry",
                            !.todo = OpenOrders(rows), !.repl = TRUE]
  <2>2. p \in Task /\ c \in Task
    BY <1>1, <2>1, LabelFacts DEF Task
  <2>3. /\ p.at = "placeEntry" /\ p.then = "idle" /\ p.after = "idle" /\ p.todo = {} /\ p.stops = {}
        /\ c.at = "cancelOpen" /\ c.then = "idle" /\ c.after = "placeEntry" /\ c.stops = {}
        /\ c.todo = OpenOrders(rows)
    BY <2>1 DEF Idle
  <2>4. JustGo(p) \/ JustGo(c)
    BY <1>4 DEF AdjustEntry, EntryFlow
  <2> HIDE DEF p, c
  <2>5. Locals(p, rows, db.rows, ex)
    BY <2>1, <2>3 DEF Locals, InLoop, Recording
  <2>6. Locals(c, rows, db.rows, ex)
    BY <2>1, <2>3 DEF Locals, InLoop, Recording, OpenOrders
  <2>7. KeptBy(p, trade, rows, ex) /\ KeptBy(c, trade, rows, ex)
    BY <2>1, <2>3, KeptBought DEF InLoop
  <2>8. ~Absent(trade) /\ task.at \notin Recording
    BY <2>1, IdleFacts DEF Absent
  <2> QED BY <2>2, <2>4, <2>5, <2>6, <2>7, <2>8, GoWhole
<1>5. CASE PlaceEntry
  <2>1. Placed("entry", task.size, At("recordEntry")) /\ task.at = "placeEntry" /\ task.size \in Nat
    BY <1>1, <1>5 DEF PlaceEntry, Task
  <2>2. ~InLoop(task, "adopt") /\ task.at \notin Recording /\ ~Absent(trade)
    BY <2>1 DEF InLoop, Recording, Whole, Gone, Rest, Absent
  <2> QED BY <1>1, <1>2, <2>1, <2>2, PlacedWhole
<1>6. CASE RefuseEntry
  <2>1. JustGo(Done) /\ task.at \notin Recording /\ task.at # "adopt"
    BY <1>1, <1>6 DEF RefuseEntry, TaskOK, JustGo, Recording
  <2> QED BY <2>1, DoneWhole
<1> QED BY <1>3, <1>4, <1>5, <1>6

\* The order that is being recorded.
LEMMA RecordFacts ==
  ASSUME Inv, Whole, task.at \in Recording
  PROVE  /\ task.o \in Orders /\ task.snap \in Order /\ ex[task.o].status # "none"
         /\ rows[task.o] = NoOrder /\ rows[task.o].filled = 0 /\ rows[task.o].status = "none"
         /\ Fits(task.snap, rows[task.o], ex[task.o]) /\ task.snap.side = Sides[task.at]
         /\ ex[task.o].status = "open" => task.snap.status = "open"
         /\ Missing = {} /\ task.snap.status # "open" /\ task.snap.filled = 0 => Dead(ex[task.o])
<1>1. task \in Task /\ TaskOK(task, ex)
  BY DEF Inv, TypeOK
<1>2. /\ task.o \in Orders /\ task.snap \in Order /\ ex[task.o].status # "none"
      /\ ex[task.o].status = "open" => task.snap.status = "open"
  BY <1>1 DEF TaskOK, Task
<1>3. /\ rows[task.o].status = "none" /\ Fits(task.snap, rows[task.o], ex[task.o])
      /\ task.snap.side = Sides[task.at]
  BY DEF Whole, Locals
<1>4. rows[task.o] = NoOrder
  BY <1>2, <1>3 DEF Whole, Books, RowsAgree
<1>5. Missing = {} /\ task.snap.status # "open" /\ task.snap.filled = 0 => Dead(ex[task.o])
  BY <1>3 DEF Fits, OfOrder, Dead
<1> QED BY <1>2, <1>3, <1>4, <1>5 DEF NoOrder

LEMMA RecordEntryWhole ==
  ASSUME TradeAssumption, ~AdjustOrderPrice, Inv, Whole, RecordEntry
  PROVE  Whole' /\ FillsGrow
<1> DEFINE o == task.o
           s == task.snap
           r == [rows EXCEPT ![o] = s]
           u == Updated(rows, "open", amount, o, s, TRUE)
<1>1. task \in Task /\ TaskOK(task, ex) /\ rows \in [Orders -> Order] /\ amount \in Nat
      /\ ex \in [Orders -> Order] /\ Books
  BY DEF Inv, TypeOK, Whole
<1>2. /\ task.at = "recordEntry" /\ task.at \in Recording /\ task.mode # "replace"
      /\ ex' = ex /\ unknown' = unknown /\ faults' = faults
  BY <1>1 DEF RecordEntry, TaskOK, Recording, Outside
<1>3. /\ o \in Orders /\ s \in Order /\ ex[o].status # "none" /\ rows[o].filled = 0
      /\ Fits(s, rows[o], ex[o]) /\ s.side = "entry" /\ s.filled \in Nat /\ rows[o].status = "none"
      /\ Missing = {} /\ s.status # "open" /\ s.filled = 0 => Dead(ex[o])
  BY <1>2, RecordFacts DEF Sides, Order
<1>4. r \in [Orders -> Order] /\ r[o] = s /\ \A p \in Orders : p # o => r[p] = rows[p]
  BY <1>1, <1>3
<1>5. /\ Bought(rows) => Bought(r)
      /\ s.status # "open" /\ s.filled > 0 => Bought(r)
      /\ s.filled = 0 \/ s.status = "open" => SuccessfulEntries(r) = SuccessfulEntries(rows)
  BY <1>1, <1>3, BoughtStays
<1>6. ~Absent("open")
  BY DEF Absent
<1>7. CASE s.status = "expired" /\ s.filled = 0 /\ task' = Done /\ Bot
  BY <1>2, <1>3, <1>7, AbandonWhole
<1>8. ASSUME Save(r, "open", Recalculated(rows, amount)), task' = Done,
             s.filled = 0 \/ s.status = "open",
             s.status = "open" \/ Open(rows) # {} \/ Bought(rows)
      PROVE  Whole' /\ FillsGrow
  <2>1. rows' = r /\ trade' = "open" /\ amount' = Recalculated(rows, amount)
        /\ db' = Committed(rows', trade', amount')
    BY <1>8 DEF Save
  <2>2. Paid(rows', trade', amount')
    <3>1. Recalculated(rows, amount) \in Nat /\ (Recalculated(rows, amount) > 0 <=> Bought(rows))
      <4>1. amount > 0 <=> Bought(rows)
        BY <1>1 DEF Books, Paid
      <4> QED BY <1>1, <4>1, RecalculatedFacts
    <3>2. Bought(r) <=> Bought(rows)
      BY <1>5, <1>8 DEF Bought
    <3> QED BY <2>1, <3>1, <3>2 DEF Paid
  <2>3. Bought(r) \/ OpenOrders(r) # {}
    <3>1. CASE s.status = "open"
      BY <1>3, <1>4, <3>1 DEF OpenOrders
    <3>2. CASE Bought(rows)
      BY <1>5, <3>2
    <3>3. CASE Open(rows) # {} /\ ~Bought(rows)
      <4>1. PICK p \in Orders : rows[p].status = "open"
        BY <3>3 DEF Open
      <4>2. p # o /\ rows[p].side # "stoploss"
        BY <1>1, <1>3, <3>3, <4>1, RowSold
      <4>3. r[p] = rows[p]
        BY <1>4, <4>2
      <4> HIDE DEF r
      <4> QED BY <4>1, <4>2, <4>3 DEF OpenOrders
    <3> QED BY <1>8, <3>1, <3>2, <3>3
  <2>4. KeptBy(task', trade', rows', ex')
    BY <1>8, <2>1, <2>3, DoneKept
  <2>5. Locals(task', rows', db'.rows, ex')
    BY <1>8, IdleLocals
  <2> QED BY <1>2, <1>3, <1>6, <2>1, <2>2, <2>4, <2>5, SavedWhole
<1>9. CASE s.status = "canceled" /\ s.filled = 0 /\ Open(rows) = {} /\ SuccessfulEntries(rows) = {} /\ DeleteTrade
  <2>1. ~Bought(rows) /\ Open(rows) \ {o} = {} /\ (Missing = {} => Dead(ex'[o]))
    BY <1>2, <1>3, <1>9 DEF Bought
  <2>2. ex' \in [Orders -> Order] /\ ExchangeGoes(ex, ex')
    BY <1>2, SameGoes DEF Inv
  <2> QED BY <1>2, <1>3, <1>9, <2>1, <2>2, DeleteWhole
<1>10. CASE /\ s.status \in NonOpen /\ s.filled > 0
            /\ Save(u.rows, u.trade, u.amount)
            /\ task' = StopsFirst(Done, StopsToCancel(u, s, TRUE))
  <2>1. s.status # "open" /\ Bought(r)
    BY <1>5, <1>10 DEF NonOpen
  <2>2. u.rows = r /\ u.trade = "open" /\ u.amount = Recalculated(r, s.filled)
    BY <1>3, <2>1 DEF Updated, Closes
  <2>3. u.amount \in Nat /\ u.amount > 0
    <3> HIDE DEF u, r
    <3> QED BY <1>3, <1>4, <1>10, <2>2, RecalculatedFacts
  <2>4. rows' = r /\ trade' = "open" /\ amount' = u.amount /\ db' = Committed(rows', trade', amount')
    BY <1>10, <2>2 DEF Save
  <2>5. Paid(rows', trade', amount')
    BY <2>1, <2>3, <2>4 DEF Paid
  <2>6. StopsToCancel(u, s, TRUE) \in SUBSET OpenStops(r)
    BY <2>2 DEF StopsToCancel
  <2>7. PICK stops \in SUBSET OpenStops(r) : task' = StopsFirst(Done, stops)
    BY <1>10, <2>6
  <2>8. Done.at \notin {"cancel"} \cup Recording /\ Done \in Task
    BY IdleType DEF Done, Idle, Recording
  <2> HIDE DEF r, u, s, o
  <2>9. Locals(Done, r, db'.rows, ex')
    BY IdleLocals
  <2>10. Locals(task', rows', db'.rows, ex')
    BY <1>4, <2>1, <2>4, <2>7, <2>8, <2>9, StopsLocals
  <2>11. KeptBy(Done, trade', r, ex')
    BY <2>1, DoneKept
  <2>12. KeptBy(task', trade', rows', ex')
    BY <2>1, <2>4, <2>7, <2>8, <2>11, StopsKept
  <2>13. rows' = [rows EXCEPT ![o] = s]
    BY <2>4 DEF r
  <2>14. task.at \in Recording => task.o = o
    BY DEF o
  <2> QED BY <1>2, <1>3, <1>6, <2>4, <2>5, <2>10, <2>12, <2>13, <2>14, SavedWhole
<1> QED BY <1>2, <1>7, <1>8, <1>9, <1>10 DEF RecordEntry, Bought

\* An open order that was fetched becomes the one the handler is about.
LEMMA ToCancelLocals ==
  ASSUME Inv, Whole, NEW o \in Orders, rows[o].status = "open",
         NEW then \in {"managed", "cancelOpen", "force"}, task.at \notin {"cancel"} \cup Recording,
         NEW k \in Task, k.at = "cancel", k.then = then, k.o = o, k.snap = Snapshot(o),
         k.todo \subseteq task.todo, o \notin k.todo, k.stops = task.stops, k.after = task.after,
         k.size = task.size, k.repl = task.repl,
         task.at = then \/ task.todo = {}
  PROVE  /\ Locals(k, rows, db.rows, ex)
         /\ faults = 0 => Keeps(k, rows)
<1>1. ex[o].status # "none" /\ Books
  BY DEF Inv, NeverAhead, Whole
<1>2. Fits(Snapshot(o), rows[o], ex[o])
  BY <1>1, SnapshotFits
<1>3. \A l : InLoop(k, l) <=> l \in {"cancel", then}
  BY DEF InLoop
<1>4. InLoop(task, "cancelOpen") \/ InLoop(task, "force") =>
         \A p \in task.todo : rows[p].status = "open" /\ rows[p].side # "stoploss"
  BY DEF Whole, Locals
<1>5. \A p \in k.todo : rows[p].status # "none"
  <2>1. ~InLoop(task, "adopt") \/ task.todo = {}
    BY DEF InLoop
  <2> QED BY <2>1 DEF Whole, Locals
<1>6. \A p \in k.stops : rows[p].status # "none" /\ rows[p].side = "stoploss"
  BY DEF Whole, Locals
<1>7. k.size > 0 => Bought(rows)
  BY DEF Whole, Locals
<1>8. InLoop(k, "cancelOpen") \/ InLoop(k, "force") =>
         \A p \in k.todo : rows[p].status = "open" /\ rows[p].side # "stoploss"
  BY <1>3, <1>4 DEF InLoop
<1>9. Locals(k, rows, db.rows, ex)
  BY <1>2, <1>5, <1>6, <1>7, <1>8 DEF Locals, Recording
<1>10. Exiting(k) => Exiting(task)
  BY <1>3 DEF Exiting
<1>11. faults = 0 => Keeps(k, rows)
  BY <1>3, <1>10 DEF Keeps, Whole, KeptBy
<1> QED BY <1>9, <1>11

LEMMA KeepsKept ==
  ASSUME Whole, NEW k, Keeps(k, rows), task.at # "adopt", faults = 0
  PROVE  KeptBy(k, trade, rows, ex)
  BY DEF Whole, KeptBy, Keeps

LEMMA ManageOpenOrderWhole ==
  ASSUME TradeAssumption, ~AdjustOrderPrice, Inv, Whole, NEW o \in Orders, ManageOpenOrder(o)
  PROVE  Whole' /\ FillsGrow
<1> DEFINE s == Snapshot(o)
           c == [task EXCEPT !.o = o, !.snap = s, !.at = "cancel", !.then = "managed"]
<1>1. task = Idle /\ task.at \notin {"cancel"} \cup Recording /\ rows[o].status = "open" /\ ~Absent(trade)
      /\ task \in Task /\ task.todo = {} /\ rows[o].side # "stoploss"
  BY IdleFacts DEF ManageOpenOrder, OpenOrders, Absent, Inv, TypeOK
<1>2. /\ ex' = ex /\ unknown' = unknown /\ faults' = faults /\ unknown \in SUBSET Orders
      /\ ex' \in [Orders -> Order] /\ ExchangeGoes(ex, ex') /\ ex[o].status # "none" /\ Books
  BY <1>1, SameGoes DEF ManageOpenOrder, Outside, Inv, TypeOK, NeverAhead, Whole
<1>3. s \in Order /\ Fits(s, rows[o], ex'[o]) /\ s.status = ex[o].status /\ s.side = rows[o].side
  BY <1>1, <1>2, SnapshotFits
<1>4. Done \in Task /\ Locals(Done, rows, db.rows, ex) /\ Keeps(Done, rows)
      /\ Done.at \notin {"cancel"} \cup Recording /\ Done.todo = {}
  BY IdleType, IdleLocals, IdleKeeps DEF Done, Idle, Recording
<1>5. ASSUME UpdateTradeState(o, s, TRUE, Done),
             s.status = "open" \/ s.filled # 0 \/ s.side # "entry"
      PROVE  Whole' /\ FillsGrow
  <2> HIDE DEF s
  <2> QED BY <1>1, <1>2, <1>3, <1>4, <1>5, ApplyWhole
<1>6. ASSUME UpdateTradeState(o, s, TRUE, c), s.status = "open"
      PROVE  Whole' /\ FillsGrow
  <2>1. /\ c.at = "cancel" /\ c.then = "managed" /\ c.o = o /\ c.snap = Snapshot(o) /\ c.todo = {}
        /\ c.stops = task.stops /\ c.after = task.after /\ c.size = task.size /\ c.repl = task.repl
    BY <1>1 DEF Idle
  <2>2. c \in Task
    BY <1>1, <1>3, LabelFacts DEF Task
  <2> HIDE DEF c
  <2>3. Locals(c, rows, db.rows, ex) /\ (faults = 0 => Keeps(c, rows))
    BY <1>1, <2>1, <2>2, ToCancelLocals
  <2> DEFINE r == [rows EXCEPT ![o] = s]
  <2>4. r[o] = s
    BY DEF Inv, TypeOK
  <2>5. Fits(s, r[o], ex'[o])
    BY <1>3, <1>6, <2>4 DEF Fits, NonOpen, Order
  <2>6. Bought(rows) => Bought(r)
    BY <1>2, <1>3, SellsBought
  <2>7. c.stops = {} /\ c.todo = {} /\ c.o = o /\ c.snap = s /\ c.at = "cancel"
    BY <1>1, <2>1, IdleFacts
  <2> HIDE DEF r, s
  <2>8. Locals(c, r, db.rows, ex')
    BY <1>6, <2>3, <2>4, <2>5, <2>6, <2>7 DEF Locals, Recording
  <2>9. faults = 0 => KeptBy(c, trade, r, ex')
    BY <1>2, <1>3, <1>6, <2>3, KeptRow DEF r
  <2>10. c.at \notin Recording
    BY <2>7 DEF Recording
  <2>11. /\ Locals(c, [rows EXCEPT ![o] = s], db.rows, ex')
         /\ (faults = 0 => KeptBy(c, trade, [rows EXCEPT ![o] = s], ex'))
    BY <2>8, <2>9 DEF r
  <2> QED BY <1>1, <1>2, <1>3, <1>6, <2>2, <2>10, <2>11, UpdateWhole
<1>7. ASSUME CanceledEntry(o, s, FALSE, Done), CanceledEmpty(s), s.side = "entry"
      PROVE  Whole' /\ FillsGrow
  <2>1. s.status \in NonOpen
    BY <1>7 DEF CanceledEmpty
  <2> HIDE DEF s
  <2> QED BY <1>1, <1>2, <1>3, <1>4, <1>7, <2>1, CanceledWhole
<1>8. CanceledEmpty(s) <=> s.status \in NonOpen /\ s.filled = 0
  BY DEF CanceledEmpty
<1> QED BY <1>5, <1>6, <1>7, <1>8 DEF ManageOpenOrder

\* Back from a cancel, to where the handler was called from.
LEMMA Back ==
  ASSUME Inv, Whole, task.at = "cancel", NEW b \in {TRUE, FALSE}, NEW k \in {Return(b), At(task.then)}
  PROVE  /\ k \in Task /\ k.at \notin {"cancel"} \cup Recording
         /\ Locals(k, rows, db.rows, ex)
         /\ InLoop(k, "cancelOpen") \/ InLoop(k, "force") => task.o \notin k.todo
         /\ faults = 0 => Keeps(k, rows)
<1>1. task \in Task /\ TaskOK(task, ex) /\ task.then \in Returns
  BY DEF Inv, TypeOK, TaskOK
<1>2. k \in Task
  BY ZenonT(40), <1>1 DEF Return, At, Task
<1>3. /\ k.at = task.then /\ k.then = task.then /\ k.after = task.after /\ k.stops = task.stops
      /\ k.todo = task.todo /\ k.size = task.size /\ k.repl = task.repl
  BY <1>1 DEF Return, At, Task
<1>4. k.at \notin {"cancel", "stops", "recordStop", "placeExit"} \cup Recording
  BY <1>1, <1>3 DEF Returns, Recording
<1>5. \A l : InLoop(k, l) => InLoop(task, l)
  BY <1>3, <1>4 DEF InLoop
<1>6. Locals(k, rows, db.rows, ex)
  <2>1. InLoop(k, "adopt") \/ \A p \in k.todo : rows[p].status # "none"
    BY <1>3 DEF Whole, Locals, InLoop
  <2> QED BY <1>3, <1>4, <1>5, <2>1 DEF Whole, Locals
<1>7. Exiting(k) \/ k.at = "adopt" => Exiting(task)
  BY <1>3, <1>4, <1>5 DEF Exiting, InLoop
<1>8. faults = 0 => Keeps(k, rows)
  BY <1>3, <1>5, <1>7 DEF Keeps, Whole, KeptBy
<1>9. task.o \notin k.todo
  BY <1>3 DEF Whole, Locals
<1> QED BY <1>2, <1>4, <1>6, <1>8, <1>9

LEMMA CancelWhole ==
  ASSUME TradeAssumption, ~AdjustOrderPrice, Inv, Whole,
         RefuseCancel \/ AlreadyCanceled \/ CancelOrder
  PROVE  Whole' /\ FillsGrow
<1> DEFINE o == task.o
<1>1. /\ task.at = "cancel" /\ task.at \notin Recording /\ o \in Orders /\ task.at # "adopt"
      /\ task.snap \in Order /\ ex[o].status # "none" /\ TypeOK /\ Books
      /\ (ex[o].status = "open" => task.snap.status = "open")
      /\ rows[o].status = "open" /\ Fits(task.snap, rows[o], ex[o])
  BY DEF RefuseCancel, AlreadyCanceled, CancelOrder, Inv, TypeOK, TaskOK, Task, Recording, Whole, Locals
<1>2. ~Absent(trade)
  BY <1>1 DEF Whole, Gone, Rest
<1>3. ASSUME NEW b \in {TRUE, FALSE}, NEW k \in {Return(b), At(task.then)}
      PROVE  /\ k \in Task /\ k.at \notin {"cancel"} \cup Recording
             /\ Locals(k, rows, db.rows, ex)
             /\ InLoop(k, "cancelOpen") \/ InLoop(k, "force") => o \notin k.todo
             /\ faults = 0 => Keeps(k, rows)
  BY <1>1, Back
<1>4. faults = 0 => (task.repl => Bought(rows))
  BY DEF Whole, KeptBy
<1>5. ExchangeGoes(ex, ex) /\ ex \in [Orders -> Order] /\ rows \in [Orders -> Order]
  BY <1>1, SameGoes DEF TypeOK
<1>6. CASE RefuseCancel
  <2>1. JustGo(Return(FALSE))
    BY <1>6 DEF RefuseCancel
  <2>2. Return(FALSE) \in Task /\ Locals(Return(FALSE), rows, db.rows, ex)
        /\ (faults = 0 => Keeps(Return(FALSE), rows))
    BY <1>3
  <2> QED BY <1>1, <1>2, <2>1, <2>2, KeepsKept, GoWhole
<1>7. ASSUME NEW s \in Order, NEW b \in {TRUE, FALSE}, ex' \in [Orders -> Order], ExchangeGoes(ex, ex'),
             Fits(s, rows[o], ex'[o]), s.side # "entry",
             UpdateTradeState(o, s, TRUE, Return(b)), unknown' = unknown, faults' = faults
      PROVE  Whole' /\ FillsGrow
  <2> HIDE DEF o
  <2>1. Return(b) \in {Return(b), At(task.then)}
    OBVIOUS
  <2> QED BY <1>1, <1>2, <1>3, <1>7, <2>1, ApplyWhole
<1>8. ASSUME NEW s \in Order, ex' \in [Orders -> Order], ExchangeGoes(ex, ex'),
             Fits(s, rows[o], ex'[o]), s.side = "entry", s.status \in NonOpen,
             CanceledEntry(o, s, task.repl, At(task.then)), unknown' = unknown, faults' = faults
      PROVE  Whole' /\ FillsGrow
  <2> HIDE DEF o
  <2>1. At(task.then) \in {Return(TRUE), At(task.then)} /\ TRUE \in {TRUE, FALSE}
    OBVIOUS
  <2> QED BY <1>1, <1>2, <1>3, <1>4, <1>8, <2>1, CanceledWhole
<1>9. CASE AlreadyCanceled
  BY <1>1, <1>5, <1>7, <1>8, <1>9 DEF AlreadyCanceled, Outside
<1>10. ASSUME NEW s \in Order, HandleCanceled(o, s), ex' \in [Orders -> Order], ExchangeGoes(ex, ex'),
              Fits(s, rows[o], ex'[o]), s.status = "open" => ex' = ex,
              unknown' = unknown, faults' = faults
       PROVE  Whole' /\ FillsGrow
  <2>1. CASE s.side # "entry"
    BY <1>7, <1>10, <2>1 DEF HandleCanceled
  <2>2. CASE s.side = "entry" /\ s.status = "open"
    <3>1. JustGo(Return(FALSE))
      BY <1>10, <2>2 DEF HandleCanceled, JustGo, Outside
    <3>2. Return(FALSE) \in Task /\ Locals(Return(FALSE), rows, db.rows, ex)
          /\ (faults = 0 => Keeps(Return(FALSE), rows))
      BY <1>3
    <3> QED BY <1>1, <1>2, <3>1, <3>2, KeepsKept, GoWhole
  <2>3. CASE s.side = "entry" /\ s.status # "open"
    <3>1. s.status \in NonOpen
      BY <1>10, <2>3 DEF Fits, Order
    <3> QED BY <1>8, <1>10, <2>3, <3>1 DEF HandleCanceled
  <2> QED BY <2>1, <2>2, <2>3
<1>11. CASE CancelOrder
  <2>0. unknown' = unknown /\ faults' = faults
    BY <1>11 DEF CancelOrder
  <2>1. CASE ex' = CancelOnExchange(o) /\ HandleCanceled(o, [ex'[o] EXCEPT !.side = rows[o].side])
    <3>1. ex' \in [Orders -> Order] /\ ExchangeGoes(ex, ex') /\ ex'[o].status # "open"
      BY <1>1, <2>1, CancelGoes
    <3>2. rows[o].side \in {"entry", "exit", "stoploss"} /\ (rows[o].side = "entry" <=> ex[o].side = "entry")
      BY <1>1, RowSide
    <3>3. /\ [ex'[o] EXCEPT !.side = rows[o].side] \in Order
          /\ Fits([ex'[o] EXCEPT !.side = rows[o].side], rows[o], ex'[o])
      BY <1>1, <3>1, <3>2, LatestFits
    <3>4. [ex'[o] EXCEPT !.side = rows[o].side].status # "open"
      BY <1>1, <3>1 DEF Order
    <3> QED BY <1>10, <2>0, <2>1, <3>1, <3>3, <3>4
  <2>2. CASE ex' = ex /\ HandleCanceled(o, Snapshot(o))
    BY <1>1, <1>5, <1>10, <2>0, <2>2, SnapshotFits
  <2>3. CASE ex' = CancelOnExchange(o) /\ ex'[o].status \in Missing /\ HandleCanceled(o, Fabricated(o))
    <3>1. ex' \in [Orders -> Order] /\ ExchangeGoes(ex, ex')
      BY <1>1, <2>3, CancelGoes
    <3>2. Fabricated(o) \in Order /\ Fits(Fabricated(o), rows[o], ex'[o]) /\ Fabricated(o).status = "canceled"
      BY <1>1, <2>3, <3>1, MadeUpFits
    <3> QED BY <1>10, <2>0, <2>3, <3>1, <3>2
  <2> QED BY <1>11, <2>1, <2>2, <2>3 DEF CancelOrder
<1> QED BY <1>6, <1>9, <1>11

LEMMA LoopWhole ==
  ASSUME TradeAssumption, ~AdjustOrderPrice, Inv, Whole,
         \/ Managed \/ Replaced \/ CancelledOpen \/ CancelAllOpenOrders
         \/ \E o \in Orders : CancelNextOpen(o) \/ RpcCancelOpenOrder(o)
  PROVE  Whole' /\ FillsGrow
<1>1. task \in Task /\ TaskOK(task, ex) /\ TypeOK /\ task.at \notin Recording /\ Books
      /\ task.at \in {"managed", "replaced", "cancelOpen", "idle"}
  BY IdleFacts DEF Inv, TypeOK, Managed, Replaced, CancelledOpen, CancelAllOpenOrders,
                   CancelNextOpen, RpcCancelOpenOrder, Recording, Whole
<1>2. task.at # "idle" => ~Absent(trade)
  BY <1>1 DEF Whole, Gone, Rest
<1>3. CASE Managed
  <2>1. task.o \in Orders /\ task.at = "managed"
    BY <1>1, <1>3 DEF Managed, TaskOK
  <2>2. CASE Emergency /\ JustGo(ExitFlow(Remaining(task.o)))
    <3>1. Bought(rows)
      BY <1>1, <2>1, <2>2, RowSold DEF Emergency
    <3> QED BY <1>1, <1>2, <2>1, <2>2, <3>1, RemainingType, ExitFlowWhole
  <2> QED BY <1>1, <1>3, <2>1, <2>2, DoneWhole DEF Managed
<1>4. CASE Replaced
  BY <1>1, <1>4 DEF Replaced, TaskOK
<1>5. CASE CancelledOpen
  <2> DEFINE k == At(task.after)
  <2>1. k \in Task
    BY <1>1 DEF At, Task
  <2>2. /\ k.at = task.after /\ k.then = task.then /\ k.after = task.after /\ k.o = task.o
        /\ k.todo = task.todo /\ k.stops = task.stops /\ k.size = task.size /\ k.repl = task.repl
    BY <1>1 DEF At, Task
  <2>3. task.after \in LoopReturns /\ task.todo = {} /\ JustGo(k) /\ task.at = "cancelOpen"
    BY <1>1, <1>5 DEF CancelledOpen, TaskOK
  <2> HIDE DEF k
  <2>4. \A l : InLoop(k, l) => l \in LoopReturns
    BY <2>2, <2>3 DEF InLoop, LoopReturns
  <2>5. Locals(k, rows, db.rows, ex)
    <3>1. k.at \notin {"cancel", "recordStop"} \cup Recording
      BY <2>2, <2>3 DEF LoopReturns, Recording
    <3> QED BY <2>2, <2>3, <3>1 DEF Whole, Locals
  <2>6. Exiting(k) => Exiting(task)
    BY <2>2, <2>4 DEF Exiting, LoopReturns
  <2>7. k.at # "adopt" /\ ~InLoop(k, "startup")
    BY <2>2, <2>3, <2>4 DEF LoopReturns
  <2>8. faults = 0 => Keeps(k, rows)
    BY <2>2, <2>6, <2>7 DEF Keeps, Whole, KeptBy
  <2> QED BY <1>1, <1>2, <2>1, <2>3, <2>5, <2>8, KeepsKept, GoWhole
<1>6. CASE CancelAllOpenOrders
  <2> DEFINE k == [task EXCEPT !.at = "cancelOpen", !.after = "commit", !.todo = OpenOrders(rows)]
  <2>0. task = Idle /\ trade = "open" /\ JustGo(k)
    BY <1>6 DEF CancelAllOpenOrders
  <2>1. k \in Task
    BY <1>1, LabelFacts DEF Task, OpenOrders
  <2>2. /\ k.at = "cancelOpen" /\ k.then = "idle" /\ k.after = "commit" /\ k.stops = {} /\ k.size = 0
        /\ k.todo = OpenOrders(rows) /\ ~k.repl
    BY <2>0 DEF Idle
  <2> HIDE DEF k
  <2>3. Locals(k, rows, db.rows, ex)
    BY <2>2 DEF Locals, InLoop, Recording, OpenOrders
  <2>4. Keeps(k, rows)
    BY <2>2 DEF Keeps, InLoop, Exiting
  <2>5. ~Absent(trade) /\ task.at # "adopt"
    BY <1>1, <2>0 DEF Absent
  <2> QED BY <1>1, <2>0, <2>1, <2>3, <2>4, <2>5, KeepsKept, GoWhole
<1>7. ASSUME NEW o \in Orders, CancelNextOpen(o) PROVE Whole' /\ FillsGrow
  <2> DEFINE rest == [task EXCEPT !.todo = task.todo \ {o}]
             k == [rest EXCEPT !.at = "cancel", !.then = "cancelOpen", !.o = o, !.snap = Snapshot(o)]
  <2>0. task.at = "cancelOpen" /\ o \in task.todo /\ (JustGo(rest) \/ JustGo(k))
    BY <1>7 DEF CancelNextOpen
  <2>1. /\ rest.at = task.at /\ rest.then = task.then /\ rest.after = task.after /\ rest.stops = task.stops
        /\ rest.todo = task.todo \ {o} /\ rest.size = task.size /\ rest.repl = task.repl /\ rest \in Task
    BY <1>1 DEF Task
  <2> HIDE DEF rest
  <2>2. /\ k.at = "cancel" /\ k.then = "cancelOpen" /\ k.o = o /\ k.snap = Snapshot(o)
        /\ k.todo = rest.todo /\ k.stops = rest.stops /\ k.after = rest.after
        /\ k.size = rest.size /\ k.repl = rest.repl
    BY <2>1 DEF Task
  <2>3. rows[o].status = "open"
    BY <2>0 DEF Whole, Locals, InLoop
  <2>4. k \in Task
    <3>1. Snapshot(o) \in Order
      BY <1>1, SnapshotFacts
    <3> QED BY <2>1, <3>1, LabelFacts DEF Task
  <2> HIDE DEF k
  <2>5. Locals(k, rows, db.rows, ex) /\ (faults = 0 => Keeps(k, rows))
    BY <2>0, <2>1, <2>2, <2>3, <2>4, ToCancelLocals, <1>1
  <2>6. Locals(rest, rows, db.rows, ex)
    BY <2>0, <2>1 DEF Whole, Locals, InLoop, Recording
  <2>7. faults = 0 => Keeps(rest, rows)
    BY <2>0, <2>1 DEF Whole, KeptBy, Keeps, InLoop, Exiting
  <2>8. task.at # "adopt" /\ ~Absent(trade)
    BY <1>2, <2>0
  <2> QED BY <1>1, <2>0, <2>1, <2>4, <2>5, <2>6, <2>7, <2>8, KeepsKept, GoWhole
<1>8. ASSUME NEW o \in Orders, RpcCancelOpenOrder(o) PROVE Whole' /\ FillsGrow
  <2> DEFINE k == [task EXCEPT !.at = "cancel", !.then = "managed", !.o = o, !.snap = Snapshot(o)]
  <2>0. task = Idle /\ trade = "open" /\ rows[o].status = "open" /\ JustGo(k) /\ task.todo = {}
    BY <1>8, IdleFacts DEF RpcCancelOpenOrder, OpenOrders
  <2>1. /\ k.at = "cancel" /\ k.then = "managed" /\ k.o = o /\ k.snap = Snapshot(o)
        /\ k.todo = task.todo /\ k.stops = task.stops /\ k.after = task.after
        /\ k.size = task.size /\ k.repl = task.repl
    BY <1>1 DEF Task
  <2>2. k \in Task
    <3>1. Snapshot(o) \in Order
      BY <1>1, SnapshotFacts
    <3> QED BY <1>1, <3>1, LabelFacts DEF Task
  <2> HIDE DEF k
  <2>3. task.at \notin {"cancel"} \cup Recording /\ task.at # "adopt" /\ ~Absent(trade)
    BY <2>0, IdleFacts DEF Absent
  <2>4. Locals(k, rows, db.rows, ex) /\ (faults = 0 => Keeps(k, rows))
    BY <2>0, <2>1, <2>2, <2>3, ToCancelLocals
  <2> QED BY <2>0, <2>2, <2>3, <2>4, KeepsKept, GoWhole
<1> QED BY <1>3, <1>4, <1>5, <1>6, <1>7, <1>8

LEMMA BeginExitWhole ==
  ASSUME ~AdjustOrderPrice, Inv, Whole, ExitSignal \/ AdjustExit \/ ForceExit \/ ForceExitNow
  PROVE  Whole' /\ FillsGrow
<1>1. task \in Task /\ amount \in Nat /\ task.at \notin Recording /\ task.at # "adopt"
      /\ trade \in States /\ (amount > 0 => Bought(rows))
  BY IdleFacts DEF Inv, TypeOK, ExitSignal, AdjustExit, ForceExit, ForceExitNow, Recording, Whole, Books, Paid
<1>2. CASE ExitSignal
  BY <1>1, <1>2, ExitFlowWhole DEF ExitSignal, Absent
<1>3. CASE AdjustExit
  <2>1. PICK a \in 1..amount : JustGo(ExitFlow(a))
    BY <1>3 DEF AdjustExit
  <2>2. a \in Nat /\ amount > 0 /\ ~Absent(trade)
    BY <1>1, <1>3 DEF AdjustExit, Absent
  <2> QED BY <1>1, <2>1, <2>2, ExitFlowWhole
<1>4. CASE ForceExit
  <2> DEFINE k == [task EXCEPT !.at = "force", !.todo = OpenOrders(rows)]
  <2>0. task = Idle /\ trade = "open" /\ JustGo(k)
    BY <1>4 DEF ForceExit
  <2>1. k \in Task
    BY <1>1, LabelFacts DEF Task, OpenOrders
  <2>2. /\ k.at = "force" /\ k.then = "idle" /\ k.after = "idle" /\ k.stops = {} /\ k.size = 0
        /\ k.todo = OpenOrders(rows) /\ ~k.repl
    BY <2>0 DEF Idle
  <2> HIDE DEF k
  <2>3. Locals(k, rows, db.rows, ex)
    BY <2>2 DEF Locals, InLoop, Recording, OpenOrders
  <2>4. Keeps(k, rows)
    BY <2>2 DEF Keeps, InLoop, Exiting
  <2>5. ~Absent(trade)
    BY <2>0 DEF Absent
  <2> QED BY <1>1, <2>0, <2>1, <2>3, <2>4, <2>5, KeepsKept, GoWhole
<1>5. CASE ForceExitNow
  <2>1. task.at = "force" /\ (JustGo(Done) \/ (JustGo(ExitFlow(0)) /\ OpenOrders(rows) = {}))
    BY <1>5 DEF ForceExitNow
  <2>2. ~Absent(trade)
    BY <2>1 DEF Whole, Gone, Rest
  <2>3. CASE JustGo(ExitFlow(0)) /\ OpenOrders(rows) = {}
    <3>1. trade \in {"open", "closed"}
      BY <1>1, <2>2 DEF Absent, States
    <3>2. faults = 0 => Bought(rows)
      BY <1>1, <2>3, <3>1 DEF Whole, KeptBy, Books, Paid
    <3> QED BY <1>1, <2>2, <2>3, <3>2, ExitFlowWhole
  <2> QED BY <1>1, <2>1, <2>3, DoneWhole
<1> QED BY <1>2, <1>3, <1>4, <1>5

LEMMA ForceNextWhole ==
  ASSUME ~AdjustOrderPrice, Inv, Whole, NEW o \in Orders, ForceNext(o)
  PROVE  Whole' /\ FillsGrow
<1> DEFINE seen == task.seen \cup (IF task.res THEN {task.o} ELSE {})
           k == [task EXCEPT !.at = "cancel", !.then = "force", !.o = o, !.todo = task.todo \ {o},
                             !.seen = seen, !.snap = Snapshot(o)]
<1>1. task \in Task /\ TaskOK(task, ex) /\ task.at = "force" /\ task.at \notin {"cancel"} \cup Recording
      /\ task.at # "adopt" /\ o \in task.todo
  BY DEF Inv, TypeOK, ForceNext, Recording
<1>2. JustGo(Done) \/ JustGo(k)
  BY DEF ForceNext
<1>3. seen \in SUBSET Orders /\ Snapshot(o) \in Order
  BY <1>1, SnapshotFacts DEF TaskOK, Task, Inv
<1> HIDE DEF seen
<1>4. k \in Task
  <2> DEFINE k1 == [task EXCEPT !.at = "cancel", !.then = "force", !.o = o]
             k2 == [k1 EXCEPT !.todo = task.todo \ {o}, !.seen = seen]
  <2>1. k1 \in Task
    BY <1>1, LabelFacts DEF Task
  <2> HIDE DEF k1
  <2>2. k2 \in Task
    BY <1>1, <1>3, <2>1 DEF Task
  <2>3. k = [k2 EXCEPT !.snap = Snapshot(o)]
    BY <1>1 DEF k1, Task
  <2> HIDE DEF k2, k
  <2> QED BY <1>3, <2>2, <2>3 DEF Task
<1>5. /\ k.at = "cancel" /\ k.then = "force" /\ k.o = o /\ k.snap = Snapshot(o)
      /\ k.todo = task.todo \ {o} /\ k.stops = task.stops /\ k.after = task.after
      /\ k.size = task.size /\ k.repl = task.repl
  BY <1>1 DEF Task
<1> HIDE DEF k
<1>6. rows[o].status = "open" /\ ~Absent(trade)
  BY <1>1 DEF Whole, Locals, InLoop, Gone, Rest
<1>7. Locals(k, rows, db.rows, ex) /\ (faults = 0 => Keeps(k, rows))
  BY <1>1, <1>4, <1>5, <1>6, ToCancelLocals
<1> QED BY <1>1, <1>2, <1>4, <1>6, <1>7, KeepsKept, GoWhole, DoneWhole

LEMMA ExitWhole ==
  ASSUME TradeAssumption, ~AdjustOrderPrice, Inv, Whole,
         CheckExitAmount \/ PlaceExit \/ RefuseExit \/ RecordExit
  PROVE  Whole' /\ FillsGrow
<1>1. task \in Task /\ amount \in Nat /\ TypeOK /\ (amount > 0 <=> Bought(rows)) /\ Books
      /\ task.at \in {"checkAmount", "placeExit", "recordExit"} /\ task.size \in Nat
  BY DEF Inv, TypeOK, Task, Whole, Books, Paid, CheckExitAmount, PlaceExit, RefuseExit, RecordExit
<1>2. ~Absent(trade) /\ task.at # "adopt"
  BY <1>1 DEF Whole, Gone, Rest
<1>3. task.size > 0 => Bought(rows)
  BY DEF Whole, Locals
<1>4. CASE CheckExitAmount
  <2> DEFINE want == IF task.size = 0 THEN amount ELSE task.size
             k == [task EXCEPT !.size = want]
             p == [k EXCEPT !.at = "placeExit"]
             c == [k EXCEPT !.at = "cancelOpen", !.after = "placeExit",
                            !.todo = OpenOrders(rows), !.repl = TRUE]
  <2>1. JustGo(Done) \/ JustGo(p) \/ JustGo(c)
    BY <1>4 DEF CheckExitAmount
  <2>2. want \in Nat /\ (want > 0 => Bought(rows))
    BY <1>1, <1>3
  <2> HIDE DEF want
  <2>3. p \in Task /\ c \in Task
    BY <1>1, <2>2, LabelFacts DEF Task, OpenOrders
  <2>4. task.at = "checkAmount" /\ task.at \notin Recording
    BY <1>4 DEF CheckExitAmount, Recording
  <2>5. /\ p.at = "placeExit" /\ p.then = task.then /\ p.after = task.after
        /\ p.todo = task.todo /\ p.stops = task.stops /\ p.size = want /\ p.repl = task.repl
        /\ c.at = "cancelOpen" /\ c.then = task.then /\ c.after = "placeExit"
        /\ c.todo = OpenOrders(rows) /\ c.stops = task.stops /\ c.size = want
    BY <1>1 DEF Task
  <2> HIDE DEF p, c
  <2>6. Locals(p, rows, db.rows, ex)
    BY <2>2, <2>4, <2>5 DEF Whole, Locals, InLoop, Recording
  <2>7. Locals(c, rows, db.rows, ex)
    BY <2>2, <2>4, <2>5 DEF Whole, Locals, InLoop, Recording, OpenOrders
  <2>8. faults = 0 => Bought(rows)
    BY <2>4 DEF Whole, KeptBy, Exiting, InLoop
  <2>9. ~InLoop(p, "startup") /\ ~InLoop(c, "startup")
    BY <2>5 DEF InLoop
  <2>10. faults = 0 => KeptBy(p, trade, rows, ex) /\ KeptBy(c, trade, rows, ex)
    BY <2>8, <2>9, KeptBought
  <2> QED BY <1>2, <2>1, <2>3, <2>4, <2>6, <2>7, <2>10, GoWhole, DoneWhole
<1>5. CASE PlaceExit
  <2>1. "recordExit" \in Recording /\ Sides["recordExit"] = "exit" /\ "recordExit" # "recordEntry"
    BY DEF Recording, Sides
  <2>2. Placed("exit", task.size, At("recordExit")) /\ task.at = "placeExit"
    BY <1>5 DEF PlaceExit
  <2>3. task.size > 0
    BY <2>2 DEF Placed
  <2>4. ~InLoop(task, "adopt") /\ task.at \notin Recording
    BY <2>2 DEF InLoop, Recording
  <2> QED BY <1>1, <1>2, <1>3, <2>1, <2>2, <2>3, <2>4, PlacedWhole
<1>6. CASE RefuseExit
  <2> DEFINE k == [Idle EXCEPT !.at = "refind", !.todo = Open(rows)]
  <2>1. k \in Task
    BY IdleType, LabelFacts DEF Task, Open
  <2>2. task.at = "placeExit" /\ task.at \notin Recording /\ (JustGo(k) \/ JustGo(Done))
    BY <1>6 DEF RefuseExit, Recording
  <2>3. /\ k.at = "refind" /\ k.then = "idle" /\ k.after = "idle" /\ k.stops = {} /\ k.size = 0
        /\ k.todo = Open(rows)
    BY DEF Idle
  <2> HIDE DEF k
  <2>4. Locals(k, rows, db.rows, ex)
    BY <2>3 DEF Locals, InLoop, Recording, Open
  <2>5. faults = 0 => KeptBy(k, trade, rows, ex)
    <3>1. faults = 0 => Bought(rows)
      BY <2>2 DEF Whole, KeptBy, Exiting
    <3> QED BY <2>3, <3>1, KeptBought DEF InLoop
  <2> QED BY <1>2, <2>1, <2>2, <2>4, <2>5, GoWhole, DoneWhole
<1>7. CASE RecordExit
  <2> DEFINE o == task.o
             s == task.snap
  <2>1. task.at = "recordExit" /\ task.at \in Recording /\ ex' = ex /\ unknown' = unknown /\ faults' = faults
    BY <1>7 DEF RecordExit, Recording, Outside
  <2>2. /\ o \in Orders /\ s \in Order /\ ex[o].status # "none" /\ rows[o].filled = 0
        /\ Fits(s, rows[o], ex[o]) /\ s.side = "exit"
    BY <2>1, RecordFacts DEF Sides
  <2>3. ex' \in [Orders -> Order] /\ ExchangeGoes(ex, ex') /\ ex \in [Orders -> Order] /\ ExchangeGoes(ex, ex)
    BY <1>1, <2>1, SameGoes
  <2>4. Bought(rows) /\ Bought([rows EXCEPT ![o] = s])
    BY <1>1, <2>2, <2>3, SellsBought
  <2>5. Done.at \notin {"cancel"} \cup Recording /\ Done.todo = {} /\ Done \in Task
        /\ Locals(Done, rows, db.rows, ex) /\ Keeps(Done, rows)
    BY IdleType, IdleLocals, IdleKeeps DEF Done, Idle, Recording
  <2>6. CASE UpdateTradeState(o, s, TRUE, Done)
    <3> HIDE DEF s
    <3>1. task.at \in Recording => task.o = o
      OBVIOUS
    <3> HIDE DEF o
    <3> QED BY <1>2, <2>1, <2>2, <2>3, <2>5, <2>6, <3>1, ApplyWhole
  <2>7. CASE Save([rows EXCEPT ![o] = s], trade, amount) /\ task' = Done
    <3>1. rows' = [rows EXCEPT ![o] = s] /\ trade' = trade /\ amount' = amount
          /\ db' = Committed(rows', trade', amount')
      BY <2>7 DEF Save
    <3>2. Paid(rows', trade', amount')
      BY <1>1, <2>4, <3>1 DEF Paid
    <3>3. KeptBy(task', trade', rows', ex')
      BY <2>4, <2>7, <3>1, DoneKept
    <3>4. Locals(task', rows', db'.rows, ex')
      BY <2>7, IdleLocals
    <3> QED BY <1>2, <2>1, <2>2, <3>1, <3>2, <3>3, <3>4, SavedWhole
  <2> QED BY <1>7, <2>6, <2>7 DEF RecordExit
<1> QED BY <1>4, <1>5, <1>6, <1>7

\* One order fewer to visit.
LEMMA FewerLeft ==
  ASSUME Inv, Whole, NEW o, task.at \notin {"cancel"} \cup Recording
  PROVE  LET rest == [task EXCEPT !.todo = task.todo \ {o}]
         IN /\ rest \in Task /\ rest.at = task.at /\ rest.todo = task.todo \ {o} /\ rest.seen = task.seen
            /\ Locals(rest, rows, db.rows, ex)
            /\ faults = 0 /\ task.at # "adopt" => Keeps(rest, rows)
            /\ \A l : InLoop(rest, l) = InLoop(task, l)
<1> DEFINE rest == [task EXCEPT !.todo = task.todo \ {o}]
<1>1. task \in Task
  BY DEF Inv, TypeOK
<1>2. /\ rest \in Task /\ rest.at = task.at /\ rest.then = task.then /\ rest.after = task.after
      /\ rest.todo = task.todo \ {o} /\ rest.seen = task.seen /\ rest.stops = task.stops
      /\ rest.size = task.size /\ rest.repl = task.repl
  BY <1>1 DEF Task
<1> HIDE DEF rest
<1>3. \A l : InLoop(rest, l) = InLoop(task, l)
  BY <1>2 DEF InLoop
<1>4. Locals(rest, rows, db.rows, ex)
  <2>1. InLoop(rest, "cancelOpen") \/ InLoop(rest, "force") =>
         \A p \in rest.todo : rows[p].status = "open" /\ rows[p].side # "stoploss"
    BY <1>2, <1>3 DEF Whole, Locals
  <2>2. InLoop(rest, "adopt") \/ \A p \in rest.todo : rows[p].status # "none"
    BY <1>2, <1>3 DEF Whole, Locals
  <2>3. "recordStop" \in Recording
    BY DEF Recording
  <2> QED BY <1>2, <2>1, <2>2, <2>3 DEF Whole, Locals
<1>5. faults = 0 /\ task.at # "adopt" => Keeps(rest, rows)
  BY <1>2, <1>3 DEF Whole, KeptBy, Keeps, Exiting
<1> QED BY <1>2, <1>3, <1>4, <1>5 DEF rest

LEMMA RefindWhole ==
  ASSUME TradeAssumption, Inv, Whole, Refound \/ Started \/ \E o \in Orders : Refind(o) \/ AdoptOrder(o)
  PROVE  Whole' /\ FillsGrow
<1>1. task \in Task /\ TaskOK(task, ex) /\ task.at \notin {"cancel"} \cup Recording /\ TypeOK /\ Books
      /\ rows \in [Orders -> Order]
  BY DEF Inv, TypeOK, Refound, Started, Refind, AdoptOrder, Recording, Whole
<1>2. CASE Refound \/ Started
  BY <1>1, <1>2, DoneWhole DEF Refound, Started
<1>3. ASSUME NEW o \in Orders, Refind(o) \/ AdoptOrder(o)
      PROVE  /\ ex[o].status # "none" /\ ex' = ex /\ faults' = faults
             /\ ex' \in [Orders -> Order] /\ ExchangeGoes(ex, ex') /\ ~Absent(trade)
             /\ Snapshot(o) \in Order /\ Fits(Snapshot(o), rows[o], ex'[o])
  <2>1. ex[o].status # "none" /\ ex' = ex /\ faults' = faults /\ task.at \in {"refind", "adopt"}
    BY <1>1, <1>3 DEF Refind, AdoptOrder, TaskOK, Outside
  <2>2. ex' \in [Orders -> Order] /\ ExchangeGoes(ex, ex')
    BY <1>1, <2>1, SameGoes
  <2>3. ~Absent(trade)
    BY <2>1 DEF Whole, Gone, Rest
  <2> QED BY <1>1, <2>1, <2>2, <2>3, SnapshotFits
<1>4. ASSUME NEW o \in Orders, Refind(o) PROVE Whole' /\ FillsGrow
  <2> DEFINE rest == [task EXCEPT !.todo = task.todo \ {o}]
  <2>1. /\ rest \in Task /\ rest.at = "refind" /\ Locals(rest, rows, db.rows, ex) /\ task.at = "refind"
        /\ faults = 0 => Keeps(rest, rows)
        /\ ~InLoop(rest, "cancelOpen") /\ ~InLoop(rest, "force")
    BY <1>1, <1>4, FewerLeft DEF Refind, InLoop
  <2>2. (UpdateTradeState(o, Snapshot(o), TRUE, rest) /\ Outside) \/ JustGo(rest)
    BY <1>4 DEF Refind, JustGo
  <2> HIDE DEF rest
  <2>3. faults = 0 => Bought(rows)
    BY <2>1 DEF Whole, KeptBy, Exiting, InLoop
  <2>4. rest.at \notin {"cancel"} \cup Recording
    BY <1>1, <2>1
  <2>5. CASE JustGo(rest)
    BY <1>1, <1>3, <1>4, <2>1, <2>5, KeepsKept, GoWhole
  <2>6. CASE UpdateTradeState(o, Snapshot(o), TRUE, rest) /\ Outside
    BY <1>1, <1>3, <1>4, <2>1, <2>3, <2>4, <2>6, ApplyWhole DEF Outside
  <2> QED BY <2>2, <2>5, <2>6
<1>5. ASSUME NEW o \in Orders, AdoptOrder(o) PROVE Whole' /\ FillsGrow
  <2> DEFINE rest == [task EXCEPT !.todo = task.todo \ {o}]
             s == Snapshot(o)
             r == [rows EXCEPT ![o] = s]
  <2>1. /\ rest \in Task /\ rest.at = "adopt" /\ Locals(rest, rows, db.rows, ex) /\ task.at = "adopt"
        /\ rest.todo = task.todo \ {o}
        /\ \A l : InLoop(rest, l) = InLoop(task, l)
    BY <1>1, <1>5, FewerLeft DEF AdoptOrder
  <2>2. UpdateTradeState(o, s, FALSE, rest) /\ unknown' = unknown \ {o}
    BY <1>5 DEF AdoptOrder
  <2>3. \A l : InLoop(rest, l) <=> l = "adopt"
    BY <2>1 DEF InLoop
  <2>4. faults = 0 => ~(rest.repl \/ Exiting(rest)) \/ Bought(rows)
    <3>1. rest.repl = task.repl /\ rest.after = task.after /\ rest.then = task.then
      BY <1>1 DEF Task
    <3> HIDE DEF rest
    <3>2. Exiting(rest) => Exiting(task)
      BY <2>1, <3>1 DEF Exiting
    <3> QED BY <3>1, <3>2 DEF Whole, KeptBy
  <2>5. s \in Order /\ Fits(s, rows[o], ex'[o]) /\ s.filled = ex[o].filled /\ ex' = ex /\ ex[o].status # "none"
        /\ ex' \in [Orders -> Order] /\ ExchangeGoes(ex, ex') /\ ~Absent(trade) /\ faults' = faults
    <3>1. ex[o] \in Order
      BY <1>1 DEF TypeOK
    <3>2. s.filled = ex[o].filled
      BY <3>1 DEF Snapshot, Order
    <3> QED BY <1>3, <1>5, <3>2
  <2> HIDE DEF rest, s
  <2>6. rest.at \notin {"cancel"} \cup Recording
    BY <2>1 DEF Recording
  <2>7. Locals(rest, r, db.rows, ex')
    BY <1>1, <2>1, <2>3, <2>5, <2>6, RowLocals
  <2>8. r[o] = s /\ \A p \in Orders : p # o => r[p] = rows[p]
    BY <1>1
  <2>9. Bought(rows) => Bought(r)
    BY <1>1, <2>5, SellsBought
  <2> HIDE DEF r
  <2>10. faults = 0 => KeptBy(rest, trade, r, ex')
    <3> SUFFICES ASSUME faults = 0, ~Bought(r) PROVE KeptBy(rest, trade, r, ex')
      BY <2>3, KeptBought
    <3>1. \A p \in Orders \ task.todo : rows[p].filled = ex[p].filled
      BY <2>1, <2>9 DEF Whole, KeptBy
    <3>2. \A p \in Orders \ rest.todo : r[p].filled = ex'[p].filled
      BY <2>1, <2>5, <2>8, <3>1
    <3> QED BY <2>1, <2>3, <2>4, <2>9, <3>2 DEF KeptBy
  <2>11. unknown' \in SUBSET Orders /\ unknown \ {o} \subseteq unknown'
    BY <1>1, <2>2 DEF TypeOK
  <2>12. /\ Locals(rest, [rows EXCEPT ![o] = s], db.rows, ex')
         /\ (faults = 0 => KeptBy(rest, trade, [rows EXCEPT ![o] = s], ex'))
    BY <2>7, <2>10 DEF r
  <2> QED BY <1>1, <2>1, <2>2, <2>5, <2>6, <2>11, <2>12, UpdateWhole
<1> QED BY <1>2, <1>4, <1>5

LEMMA CancelStopWhole ==
  ASSUME TradeAssumption, Inv, Whole, NEW o \in Orders, CancelStop(o)
  PROVE  Whole' /\ FillsGrow
<1> DEFINE to == IF task.stops = {o} THEN task.then ELSE "stops"
           rest == [task EXCEPT !.at = to, !.stops = task.stops \ {o}]
<1>1. /\ task \in Task /\ TaskOK(task, ex) /\ TypeOK /\ task.at = "stops" /\ task.at \notin Recording
      /\ unknown' = unknown /\ faults' = faults /\ o \in task.stops
      /\ rows \in [Orders -> Order] /\ ex \in [Orders -> Order] /\ Books
  BY DEF Inv, TypeOK, CancelStop, Recording, Whole
<1>2. to \in {task.then, "stops"} /\ to \in Labels
  BY <1>1, LabelFacts DEF Task
<1> HIDE DEF to
<1>3. /\ rest.at = to /\ rest.then = task.then /\ rest.after = task.after
      /\ rest.todo = task.todo /\ rest.stops = task.stops \ {o} /\ rest.size = task.size
      /\ rest.repl = task.repl /\ rest \in Task
  BY <1>1, <1>2 DEF Task
<1> HIDE DEF rest
<1>4. to \notin {"cancel", "recordStop", "placeExit"} \cup Recording /\ (to # "stops" => to = task.then)
  BY <1>1, <1>2 DEF TaskOK, Returns, Recording
<1>5. \A l : InLoop(rest, l) => InLoop(task, l) \/ l = "stops"
  BY <1>1, <1>3, <1>4 DEF InLoop
<1>6. rows[o].status # "none" /\ rows[o].side = "stoploss" /\ Bought(rows) /\ ex[o].status # "none"
  BY <1>1, RowSold DEF Whole, Locals, Inv, NeverAhead
<1>7. Locals(rest, rows, db.rows, ex)
  <2>1. InLoop(rest, "adopt") \/ \A p \in rest.todo : rows[p].status # "none"
    BY <1>1, <1>3, <1>4 DEF Whole, Locals, InLoop
  <2>2. InLoop(rest, "cancelOpen") \/ InLoop(rest, "force") =>
         \A p \in rest.todo : rows[p].status = "open" /\ rows[p].side # "stoploss"
    BY <1>3, <1>5 DEF Whole, Locals
  <2> QED BY <1>3, <1>4, <1>6, <2>1, <2>2 DEF Whole, Locals
<1>8. InLoop(rest, "cancelOpen") \/ InLoop(rest, "force") => o \notin rest.todo
  BY <1>3, <1>5, <1>6 DEF Whole, Locals
<1>9. faults = 0 => Keeps(rest, rows)
  BY <1>5, <1>6 DEF Whole, KeptBy, Keeps
<1>10. ~Absent(trade) /\ task.at # "adopt" /\ rest.at \notin {"cancel"} \cup Recording
  BY <1>1, <1>3, <1>4 DEF Whole, Gone, Rest
<1>11. CASE ex' = ex /\ task' = rest /\ Bot
  <2>1. JustGo(rest)
    BY <1>1, <1>11 DEF JustGo, Outside
  <2> QED BY <1>1, <1>3, <1>7, <1>9, <1>10, <2>1, KeepsKept, GoWhole
<1>12. ASSUME NEW s \in Order, ex' = CancelOnExchange(o), Fits(s, rows[o], ex'[o]),
              s.side = "stoploss", UpdateTradeState(o, s, TRUE, rest)
       PROVE  Whole' /\ FillsGrow
  <2>1. ex' \in [Orders -> Order] /\ ExchangeGoes(ex, ex')
    BY <1>1, <1>12, CancelGoes
  <2> QED BY <1>1, <1>3, <1>6, <1>7, <1>8, <1>9, <1>10, <1>12, <2>1, ApplyWhole
<1>13. CASE ex' = CancelOnExchange(o) /\ UpdateTradeState(o, [ex'[o] EXCEPT !.side = "stoploss"], TRUE, rest)
  <2>1. ex' \in [Orders -> Order] /\ ExchangeGoes(ex, ex') /\ ex'[o].status # "open" /\ ex'[o] \in Order
    BY <1>1, <1>13, CancelGoes
  <2>2. ex[o].side # "entry"
    BY <1>1, <1>6, RowSide
  <2>3. [ex'[o] EXCEPT !.side = "stoploss"] \in Order /\ Fits([ex'[o] EXCEPT !.side = "stoploss"], rows[o], ex'[o])
    BY <1>1, <1>6, <2>1, <2>2, LatestFits
  <2>4. [ex'[o] EXCEPT !.side = "stoploss"].side = "stoploss"
    BY <2>1 DEF Order
  <2> QED BY <1>12, <1>13, <2>3, <2>4
<1>14. CASE ex' = CancelOnExchange(o) /\ "canceled" \in Missing
            /\ UpdateTradeState(o, [rows[o] EXCEPT !.status = "canceled"], TRUE, rest)
  <2>1. ex' \in [Orders -> Order] /\ ExchangeGoes(ex, ex')
    BY <1>1, <1>14, CancelGoes
  <2> QED BY <1>1, <1>6, <1>12, <1>14, <2>1, MadeUpFits
<1> QED BY <1>11, <1>13, <1>14 DEF CancelStop, rest, to

LEMMA StoplossWhole ==
  ASSUME TradeAssumption, ~AdjustOrderPrice, Inv, Whole,
         \/ ManageStoploss \/ FetchedStops \/ PlaceStop \/ RefuseStop
         \/ \E o \in Orders : FetchStop(o)
  PROVE  Whole' /\ FillsGrow
<1>1. /\ task \in Task /\ TaskOK(task, ex) /\ amount \in Nat /\ task.at \notin {"cancel"} \cup Recording
      /\ Idle \in Task /\ TypeOK /\ Books /\ rows \in [Orders -> Order]
      /\ (amount > 0 <=> Bought(rows)) /\ task.at \in {"idle", "fetchStops", "placeStop"}
  BY IdleFacts, IdleType DEF Inv, TypeOK, ManageStoploss, FetchedStops, PlaceStop, RefuseStop,
                             FetchStop, Recording, Whole, Books, Paid
<1>2. task.at # "idle" => ~Absent(trade) /\ (faults = 0 => Bought(rows))
  BY <1>1 DEF Whole, Gone, Rest, KeptBy, Exiting, InLoop
<1>3. CASE ManageStoploss
  <2> DEFINE k == [task EXCEPT !.at = "fetchStops", !.todo = OpenStops(rows)]
  <2>0. task = Idle /\ trade = "open" /\ JustGo(k) /\ (OpenStops(rows) # {} \/ amount > 0)
    BY <1>3 DEF ManageStoploss
  <2>1. k \in Task
    BY <1>1, LabelFacts DEF Task, OpenStops
  <2>2. /\ k.at = "fetchStops" /\ k.then = "idle" /\ k.after = "idle" /\ k.stops = {} /\ k.size = 0
        /\ k.todo = OpenStops(rows)
    BY <2>0 DEF Idle
  <2> HIDE DEF k
  <2>3. Locals(k, rows, db.rows, ex)
    BY <2>2 DEF Locals, InLoop, Recording, OpenStops
  <2>4. Bought(rows)
    BY <1>1, <2>0, StopsBought
  <2>5. KeptBy(k, trade, rows, ex)
    BY <2>2, <2>4, KeptBought DEF InLoop
  <2>6. ~Absent(trade)
    BY <2>0 DEF Absent
  <2> QED BY <1>1, <2>0, <2>1, <2>3, <2>5, <2>6, GoWhole
<1>4. ASSUME NEW o \in Orders, FetchStop(o) PROVE Whole' /\ FillsGrow
  <2> DEFINE rest == [task EXCEPT !.todo = task.todo \ {o}]
             more == [rest EXCEPT !.seen = rest.seen \cup {o}]
  <2>1. /\ rest \in Task /\ rest.at = "fetchStops" /\ Locals(rest, rows, db.rows, ex)
        /\ (faults = 0 => Keeps(rest, rows)) /\ task.at = "fetchStops"
        /\ ~InLoop(rest, "cancelOpen") /\ ~InLoop(rest, "force")
    BY <1>1, <1>4, FewerLeft DEF FetchStop, InLoop
  <2> HIDE DEF rest
  <2>2. /\ more \in Task /\ more.at = rest.at /\ more.then = rest.then /\ more.after = rest.after
        /\ more.todo = rest.todo /\ more.stops = rest.stops /\ more.size = rest.size /\ more.repl = rest.repl
    BY <2>1 DEF Task
  <2>3. /\ \/ JustGo(rest)
           \/ Outside /\ (UpdateTradeState(o, Snapshot(o), TRUE, Done)
                          \/ UpdateTradeState(o, Snapshot(o), TRUE, more))
        /\ o \in task.todo
    BY <1>4 DEF FetchStop, JustGo, rest
  <2> HIDE DEF more
  <2>4. \A l : InLoop(more, l) = InLoop(rest, l)
    BY <2>2 DEF InLoop
  <2>5. Locals(more, rows, db.rows, ex)
    BY <2>1, <2>2, <2>4 DEF Locals, Recording
  <2>6. faults = 0 => Keeps(more, rows)
    BY <2>1, <2>2, <2>4 DEF Keeps, Exiting
  <2>7. /\ Done \in Task /\ Done.at \notin {"cancel"} \cup Recording /\ Done.todo = {}
        /\ Locals(Done, rows, db.rows, ex) /\ Keeps(Done, rows)
    BY IdleType, IdleLocals, IdleKeeps DEF Done, Idle, Recording
  <2>8. ex[o].status # "none" /\ ~Absent(trade) /\ (faults = 0 => Bought(rows))
    BY <1>1, <1>2, <2>1, <2>3 DEF TaskOK
  <2>9. CASE JustGo(rest)
    BY <1>1, <2>1, <2>8, <2>9, KeepsKept, GoWhole
  <2>10. Snapshot(o) \in Order /\ Fits(Snapshot(o), rows[o], ex[o])
    BY <1>1, <2>8, SnapshotFits
  <2>11. ASSUME Outside, NEW k \in {more, Done}, UpdateTradeState(o, Snapshot(o), TRUE, k)
         PROVE  Whole' /\ FillsGrow
    <3>1. /\ k \in Task /\ k.at \notin {"cancel"} \cup Recording /\ Locals(k, rows, db.rows, ex)
          /\ InLoop(k, "cancelOpen") \/ InLoop(k, "force") => o \notin k.todo
          /\ faults = 0 => Keeps(k, rows)
      BY <1>1, <2>1, <2>2, <2>4, <2>5, <2>6, <2>7
    <3>2. ex' = ex /\ ex' \in [Orders -> Order] /\ ExchangeGoes(ex, ex') /\ unknown' = unknown /\ faults' = faults
      BY <1>1, <2>11, SameGoes DEF Outside
    <3>3. Fits(Snapshot(o), rows[o], ex'[o])
      BY <2>10, <3>2
    <3> QED BY <1>1, <2>8, <2>10, <2>11, <3>1, <3>2, <3>3, ApplyWhole
  <2> QED BY <2>3, <2>9, <2>11
<1>5. CASE FetchedStops
  <2> DEFINE p == [Idle EXCEPT !.at = "placeStop"]
  <2>1. p \in Task
    BY <1>1, LabelFacts DEF Task
  <2>2. /\ p.at = "placeStop" /\ p.then = "idle" /\ p.after = "idle" /\ p.stops = {} /\ p.size = 0
        /\ p.todo = {}
    BY DEF Idle
  <2>3. PICK stops \in SUBSET OpenStops(rows) : JustGo(StopsFirst(p, stops)) \/ JustGo(Done)
    BY <1>5 DEF FetchedStops
  <2>4. task.at = "fetchStops"
    BY <1>5 DEF FetchedStops
  <2> HIDE DEF p
  <2>5. Locals(p, rows, db.rows, ex) /\ p.at \notin {"cancel"} \cup Recording
    BY <2>2 DEF Locals, InLoop, Recording
  <2>6. stops # {} => Bought(rows)
    BY <1>1, StopsBought
  <2>7. Locals(StopsFirst(p, stops), rows, db.rows, ex)
    BY <1>1, <2>1, <2>5, <2>6, StopsLocals
  <2>8. faults = 0 => KeptBy(StopsFirst(p, stops), trade, rows, ex)
    <3>1. faults = 0 => KeptBy(p, trade, rows, ex)
      BY <1>2, <2>2, <2>4, KeptBought DEF InLoop
    <3> QED BY <2>1, <2>5, <2>6, <3>1, StopsKept
  <2>9. StopsFirst(p, stops) \in Task
    BY <2>1, StopsFirstType DEF OpenStops
  <2> QED BY <1>1, <1>2, <2>3, <2>4, <2>7, <2>8, <2>9, GoWhole, DoneWhole
<1>6. CASE PlaceStop
  <2>1. "recordStop" \in Recording /\ Sides["recordStop"] = "stoploss"
    BY DEF Recording, Sides
  <2>2. Placed("stoploss", amount, At("recordStop")) /\ task.at = "placeStop"
    BY <1>6 DEF PlaceStop
  <2>3. amount > 0
    BY <2>2 DEF Placed
  <2>4. ~InLoop(task, "adopt")
    BY <2>2 DEF InLoop
  <2> QED BY <1>1, <1>2, <2>1, <2>2, <2>3, <2>4, PlacedWhole
<1>7. CASE RefuseStop
  <2> DEFINE k == [Idle EXCEPT !.at = "refind", !.todo = Open(rows)]
  <2>1. k \in Task
    BY IdleType, LabelFacts DEF Task, Open
  <2>2. task.at = "placeStop" /\ (JustGo(k) \/ JustGo(Done) \/ JustGo(ExitFlow(0)))
    BY <1>7 DEF RefuseStop
  <2>3. /\ k.at = "refind" /\ k.then = "idle" /\ k.after = "idle" /\ k.stops = {} /\ k.size = 0
        /\ k.todo = Open(rows)
    BY DEF Idle
  <2> HIDE DEF k
  <2>4. Locals(k, rows, db.rows, ex)
    BY <2>3 DEF Locals, InLoop, Recording, Open
  <2>5. faults = 0 => KeptBy(k, trade, rows, ex)
    BY <1>2, <2>2, <2>3, KeptBought DEF InLoop
  <2>6. CASE JustGo(ExitFlow(0))
    BY <1>1, <1>2, <2>2, <2>6, ExitFlowWhole
  <2> QED BY <1>1, <1>2, <2>1, <2>2, <2>4, <2>5, <2>6, GoWhole, DoneWhole
<1> QED BY <1>3, <1>4, <1>5, <1>6, <1>7

LEMMA RecordStopWhole ==
  ASSUME Inv, Whole, RecordStop
  PROVE  Whole' /\ FillsGrow
<1> DEFINE o == task.o
           s == task.snap
<1>1. /\ task.at = "recordStop" /\ task.at \in Recording /\ ex' = ex /\ unknown' = unknown /\ faults' = faults
      /\ rows' = [rows EXCEPT ![o] = s] /\ task' = Done /\ UNCHANGED <<trade, amount, db>>
  BY DEF RecordStop, Recording, Outside
<1>2. /\ o \in Orders /\ s \in Order /\ ex[o].status # "none" /\ rows[o].filled = 0
      /\ Fits(s, rows[o], ex[o]) /\ s.side = "stoploss" /\ s.filled = 0
  BY <1>1, RecordFacts DEF Sides, Whole, Locals
<1>3. ex \in [Orders -> Order] /\ ExchangeGoes(ex, ex) /\ Books
  BY SameGoes DEF Inv, Whole
<1>4. Bought(rows')
  BY <1>1, <1>2, <1>3, SellsBought
<1>5. KeptBy(task', trade', rows', ex') /\ Locals(task', rows', db'.rows, ex')
  BY <1>1, <1>4, DoneKept, IdleLocals
<1>6. ~Absent(trade')
  BY <1>1 DEF Whole, Gone, Rest
<1> QED BY <1>1, <1>2, <1>5, <1>6, SavedWhole

LEMMA CommitWhole ==
  ASSUME Inv, Whole, Commit
  PROVE  Whole' /\ FillsGrow
<1>1. /\ task.at = "commit" /\ task' = Idle /\ db' = Committed(rows, trade, amount) /\ rows' = rows
      /\ trade' = trade /\ amount' = amount /\ ex' = ex /\ unknown' = unknown /\ faults' = faults
  BY DEF Commit, Outside
<1>2. Books'
  BY <1>1, CommitBooks DEF Whole
<1>3. Locals(task', rows', db'.rows, ex')
  BY <1>1, IdleLocals
<1>4. Gone'
  BY <1>1 DEF Whole, Gone, Rest, Committed, Idle
<1>5. Missing = {} => RowOrDead(task', rows', ex', unknown')
  BY <1>1 DEF Whole, RowOrDead, Recording
<1>6. faults' = 0 => KeptBy(task', trade', rows', ex')
  <2>1. faults = 0 => (trade = "open" => Bought(rows) \/ OpenOrders(rows) # {})
    BY <1>1 DEF Whole, KeptBy
  <2> QED BY <1>1, <2>1, DoneKept
<1> QED BY <1>1, <1>2, <1>3, <1>4, <1>5, <1>6, SameFills DEF Whole

\* Nothing is held when nothing was filled.
LEMMA NothingHeld ==
  ASSUME TradeAssumption, NEW e \in [Orders -> Order], \A o \in Orders : e[o].filled = 0
  PROVE  SumFunction([o \in Orders |-> Signed(e[o])]) = 0
<1> DEFINE f == [o \in Orders |-> Signed(e[o])]
<1>1. \A o \in Orders : f[o] \in Int /\ f[o] <= 0 /\ f[o] >= 0
  <2> SUFFICES ASSUME NEW o \in Orders
               PROVE  Signed(e[o]) \in Int /\ Signed(e[o]) <= 0 /\ Signed(e[o]) >= 0
    OBVIOUS
  <2>1. e[o] \in Order /\ e[o].filled \in Nat /\ e[o].filled = 0
    BY DEF Order
  <2> QED BY <2>1 DEF Signed
<1>2. SumFunction(f) = SumFunctionOnSet(f, Orders)
  BY DEF SumFunction
<1> HIDE DEF f
<1>3. SumFunctionOnSet(f, Orders) = 0
  <2>1. \A o \in Orders : f[o] \in Int
    BY <1>1
  <2>2. \A o \in Orders : f[o] <= 0
    BY <1>1
  <2>3. \A o \in Orders : f[o] >= 0
    BY <1>1
  <2>4. IsFiniteSet(Orders)
    BY OrdersFinite
  <2>5. SumFunctionOnSet(f, Orders) \in Int
    BY <2>1, <2>4, SumInt
  <2>6. SumFunctionOnSet(f, Orders) <= 0
    BY <2>1, <2>2, <2>4, SumSign
  <2>7. SumFunctionOnSet(f, Orders) >= 0
    BY <2>1, <2>3, <2>4, SumSign
  <2> QED BY <2>5, <2>6, <2>7
<1> QED BY <1>2, <1>3 DEF f

LEMMA ReloadWhole ==
  ASSUME TradeAssumption, ~AdjustOrderPrice, Inv, Whole, ReloadTrade \/ Adopted \/ Abort
  PROVE  Whole' /\ FillsGrow
<1>1. /\ task \in Task /\ amount \in Nat /\ task.at \notin Recording /\ TypeOK /\ Books
      /\ rows \in [Orders -> Order] /\ ex \in [Orders -> Order]
      /\ (amount > 0 <=> Bought(rows))
  BY IdleFacts DEF Inv, TypeOK, ReloadTrade, Adopted, Abort, Recording, Whole, Books, Paid
<1>2. CASE ReloadTrade
  <2> DEFINE live == {o \in Orders : ex[o].status # "none"}
             k == [task EXCEPT !.at = "adopt", !.size = amount, !.todo = live]
  <2>1. JustGo(k) /\ task = Idle /\ ~Absent(trade)
    BY <1>2 DEF ReloadTrade, Absent
  <2>2. k \in Task
    BY <1>1, <2>1, LabelFacts DEF Task
  <2>3. /\ k.at = "adopt" /\ k.then = "idle" /\ k.after = "idle" /\ k.stops = {} /\ k.size = amount
        /\ k.todo = live /\ k.repl = FALSE
    BY <2>1 DEF Idle
  <2> HIDE DEF k
  <2>4. Locals(k, rows, db.rows, ex)
    BY <1>1, <2>3 DEF Locals, InLoop, Recording
  <2>5. ASSUME NEW o \in Orders, o \notin live PROVE rows[o].filled = ex[o].filled
    <3>1. ex[o] = NoOrder /\ rows[o] = NoOrder
      BY <1>1, <2>5 DEF Books, Exchanged, RowsAgree, Inv, NeverAhead
    <3> QED BY <3>1
  <2>6. KeptBy(k, trade, rows, ex)
    BY <2>3, <2>5 DEF KeptBy, Exiting, InLoop
  <2> QED BY <1>1, <2>1, <2>2, <2>4, <2>6, GoWhole
<1>3. CASE Adopted
  <2> DEFINE Empty == \A o \in Orders : \/ rows[o].status = "none"
                                        \/ rows[o].side = "entry" /\ CanceledEmpty(rows[o])
             Nothing == /\ trade = "open"
                        /\ Held < amount \/ (Held = 0 /\ amount = 0)
                        /\ Empty
             stops == IF trade = "open" /\ amount # task.size THEN OpenStops(rows) ELSE {}
             k == StopsFirst(Done, stops)
  <2>1. /\ task.at = "adopt" /\ task.todo = {} /\ ex' = ex /\ unknown' = unknown /\ faults' = faults
        /\ Nothing => DeleteTrade
        /\ ~Nothing => JustGo(k)
    BY <1>3 DEF Adopted, Outside, JustGo
  <2>2. ~Absent(trade)
    BY <2>1 DEF Whole, Gone, Rest
  <2>3. CASE Nothing
    <3>1. Open(rows) \ {0} = {} /\ ~Bought(rows)
      <4>1. \A o \in Orders : rows[o].status # "open"
                /\ (rows[o].status \in NonOpen => rows[o].filled = 0)
        BY <2>3 DEF CanceledEmpty, NonOpen
      <4>2. \A o \in Orders : ~(rows[o].status \in NonOpen /\ rows[o].filled > 0)
        BY <4>1
      <4> QED BY <4>1, <4>2 DEF Open, Bought, SuccessfulEntries
    <3>2. 0 \notin Orders
      BY DEF Orders
    <3>3. ex' \in [Orders -> Order] /\ ExchangeGoes(ex, ex')
      BY <1>1, <2>1, SameGoes
    <3>4. DeleteTrade
      BY <2>1, <2>3
    <3> QED BY <1>1, <2>1, <3>1, <3>2, <3>3, <3>4, DeleteWhole
  <2>4. CASE ~Nothing
    <3>1. JustGo(k)
      BY <2>1, <2>4
    <3>2. faults = 0 => (trade = "open" => Bought(rows) \/ OpenOrders(rows) # {})
      <4> SUFFICES ASSUME faults = 0, trade = "open", ~Bought(rows), OpenOrders(rows) = {}
                   PROVE  Nothing
        BY <2>4
      <4>1. \A o \in Orders : rows[o].filled = ex[o].filled
        BY <2>1 DEF Whole, KeptBy
      <4>2. ASSUME NEW o \in Orders
            PROVE  /\ rows[o].status = "none" \/ (rows[o].side = "entry" /\ CanceledEmpty(rows[o]))
                   /\ ex[o].filled = 0
        <5>1. rows[o] \in Order /\ rows[o].filled \in Nat
          BY <1>1 DEF Order
        <5>2. CASE rows[o].status = "none"
          <6>1. rows[o] = NoOrder
            BY <1>1, <5>2 DEF Books, RowsAgree
          <6>2. rows[o].filled = 0
            BY <6>1 DEF NoOrder
          <6> QED BY <4>1, <5>2, <6>2
        <5>3. CASE rows[o].status # "none"
          <6>1. rows[o].side = "entry"
            BY <1>1, <5>3, RowSide, RowSold
          <6>2. rows[o].status \in NonOpen
            BY <5>1, <5>3, <6>1 DEF OpenOrders, Order
          <6>3. rows[o].filled = 0
            BY <5>1, <6>1, <6>2 DEF Bought, SuccessfulEntries
          <6> QED BY <4>1, <6>1, <6>2, <6>3 DEF CanceledEmpty
        <5> QED BY <5>2, <5>3
      <4>3. Held = 0
        <5>1. SumFunction([o \in Orders |-> Signed(ex[o])]) = 0
          BY <1>1, <4>2, NothingHeld
        <5> QED BY <5>1 DEF Held
      <4>4. amount = 0
        BY <1>1
      <4> QED BY <4>2, <4>3, <4>4
    <3>3. stops \in SUBSET OpenStops(rows) /\ stops \in SUBSET Orders
      BY DEF OpenStops
    <3> HIDE DEF stops
    <3>4. stops # {} => Bought(rows)
      BY <1>1, <3>3, StopsBought
    <3>5. Done \in Task /\ Done.at \notin {"cancel"} \cup Recording /\ Locals(Done, rows, db.rows, ex)
      BY IdleType, IdleLocals DEF Done, Idle, Recording
    <3>6. k \in Task
      BY <3>3, <3>5, StopsFirstType
    <3>7. Locals(k, rows, db.rows, ex)
      BY <1>1, <3>3, <3>4, <3>5, StopsLocals
    <3>8. faults = 0 => KeptBy(k, trade, rows, ex)
      <4>1. faults = 0 => KeptBy(Done, trade, rows, ex)
        BY <3>2, DoneKept
      <4> QED BY <3>3, <3>4, <3>5, <4>1, StopsKept
    <3> HIDE DEF k
    <3> QED BY <1>1, <2>2, <3>1, <3>6, <3>7, <3>8, GoWhole
  <2> QED BY <2>3, <2>4
<1>4. CASE Abort
  <2>1. JustGo(Done) /\ task.at # "adopt"
    BY <1>4, AbortGoes DEF Inv
  <2> QED BY <1>1, <2>1, DoneWhole
<1> QED BY <1>2, <1>3, <1>4

\* A crash falls back on the books of the database, which agree with the exchange too.
LEMMA FaultWhole ==
  ASSUME TradeAssumption, ~AdjustOrderPrice, Inv, Whole, LostReply \/ Crash
  PROVE  Whole' /\ FillsGrow
<1>1. faults' # 0 /\ TypeOK /\ Books /\ task \in Task /\ TaskOK(task, ex)
  BY DEF Inv, TypeOK, LostReply, Crash, Whole
<1>2. CASE LostReply
  <2>1. task.at \in Recording /\ task' = Done /\ Bot /\ ex' = ex /\ unknown' = unknown \cup {task.o}
    BY <1>1, <1>2 DEF LostReply, TaskOK
  <2> QED BY <1>1, <2>1, AbandonWhole
<1>3. CASE Crash
  <2> DEFINE k == [Idle EXCEPT !.at = "startup", !.todo = Open(db.rows)]
  <2>1. /\ rows' = db.rows /\ trade' = db.trade /\ amount' = db.amount /\ db' = db /\ ex' = ex
        /\ unknown' = unknown \cup Lost /\ task' = k
    BY <1>3 DEF Crash
  <2>2. /\ k.at = "startup" /\ k.then = "idle" /\ k.after = "idle" /\ k.stops = {} /\ k.size = 0
        /\ k.todo = Open(db.rows)
    BY DEF Idle
  <2> HIDE DEF k
  <2>3. Books'
    BY <1>1, <2>1, CrashBooks
  <2>4. Locals(task', rows', db'.rows, ex')
    BY <2>1, <2>2 DEF Locals, InLoop, Recording, Open
  <2>5. Gone'
    BY <1>1, <2>1, <2>2 DEF Whole, Gone, Rest, Books
  <2>6. Missing = {} => RowOrDead(task', rows', ex', unknown')
    <3> SUFFICES ASSUME Missing = {}, NEW o \in Orders, ex[o].status # "none", o \notin unknown \cup Lost,
                        db.rows[o].status = "none"
                 PROVE  Dead(ex[o])
      BY <2>1 DEF RowOrDead
    <3>1. rows[o].status = "none" /\ ~(task.at \in Recording /\ task.o = o)
      BY DEF Lost
    <3> QED BY <3>1 DEF Whole, RowOrDead
  <2>7. FillsGrow
    BY <1>1, <2>1 DEF FillsGrow, Books, Saved
  <2> QED BY <1>1, <2>3, <2>4, <2>5, <2>6, <2>7 DEF Whole
<1> QED BY <1>2, <1>3

LEMMA StartupWhole ==
  ASSUME TradeAssumption, Missing \subseteq NonOpen, Inv, Whole, NEW o \in Orders, StartupUpdate(o)
  PROVE  Whole' /\ FillsGrow
<1> DEFINE rest == [task EXCEPT !.todo = task.todo \ {o}]
           gone == [rows[o] EXCEPT !.status = "canceled"]
<1>1. /\ task \in Task /\ TaskOK(task, ex) /\ task.at = "startup" /\ task.at \notin {"cancel"} \cup Recording
      /\ o \in task.todo /\ ex' = ex /\ unknown' = unknown /\ faults' = faults /\ TypeOK /\ Books
  BY DEF Inv, TypeOK, StartupUpdate, Outside, Recording, Whole
<1>2. /\ rest \in Task /\ rest.at = "startup" /\ Locals(rest, rows, db.rows, ex)
      /\ ~InLoop(rest, "cancelOpen") /\ ~InLoop(rest, "force")
  BY <1>1, FewerLeft DEF InLoop
<1>3. faults # 0
  BY <1>1 DEF Whole, KeptBy, InLoop
<1>4. rows[o].status # "none" /\ ~Absent(trade) /\ ex[o].status # "none"
  BY <1>1 DEF Whole, Gone, Locals, InLoop, TaskOK
<1>5. ex' \in [Orders -> Order] /\ ExchangeGoes(ex, ex')
  BY <1>1, SameGoes
<1>6. \/ UpdateTradeState(o, Snapshot(o), TRUE, rest)
      \/ ~Found(o) /\ gone.side = "entry" /\ CanceledEntry(o, gone, FALSE, rest)
      \/ ~Found(o) /\ UpdateTradeState(o, gone, TRUE, rest)
      \/ JustGo(rest)
  BY DEF StartupUpdate, JustGo
<1>7. rest.at \notin {"cancel"} \cup Recording
  BY <1>2 DEF Recording
<1> HIDE DEF rest
<1>8. CASE UpdateTradeState(o, Snapshot(o), TRUE, rest)
  <2>1. Snapshot(o) \in Order /\ Fits(Snapshot(o), rows[o], ex'[o])
    BY <1>1, <1>4, SnapshotFits
  <2> QED BY <1>1, <1>2, <1>3, <1>4, <1>5, <1>7, <1>8, <2>1, ApplyWhole
<1>9. ~Found(o) => gone \in Order /\ gone.status = "canceled" /\ Fits(gone, rows[o], ex'[o])
  <2>1. ~Found(o) => Missing # {}
    BY DEF Found
  <2> QED BY <1>1, <1>4, <1>5, <2>1, MadeUpFits
<1> HIDE DEF gone
<1>10. CASE ~Found(o) /\ gone.side = "entry" /\ CanceledEntry(o, gone, FALSE, rest)
  <2>1. gone.status \in NonOpen
    BY <1>9, <1>10 DEF NonOpen
  <2> QED BY <1>1, <1>2, <1>3, <1>4, <1>5, <1>7, <1>9, <1>10, <2>1, CanceledWhole
<1>11. CASE ~Found(o) /\ UpdateTradeState(o, gone, TRUE, rest)
  BY <1>1, <1>2, <1>3, <1>4, <1>5, <1>7, <1>9, <1>11, ApplyWhole
<1>12. CASE JustGo(rest)
  BY <1>1, <1>2, <1>3, <1>4, <1>12, GoWhole
<1> QED BY <1>6, <1>8, <1>10, <1>11, <1>12

LEMMA InitWhole == TradeAssumption /\ Init => Whole
<1> SUFFICES ASSUME TradeAssumption, Init PROVE Whole
  OBVIOUS
<1> DEFINE e == [o \in Orders |-> NoOrder]
<1>1. /\ ex = e /\ rows = e /\ db.rows = e /\ trade = "none" /\ db.trade = "none"
      /\ amount = 0 /\ db.amount = 0 /\ task = Idle /\ unknown = {} /\ faults = 0
  BY DEF Init, Committed
<1>2. \A o \in Orders : e[o] = NoOrder
  OBVIOUS
<1> HIDE DEF e
<1>3. ~Bought(e) /\ ~Sold(e)
  BY <1>2 DEF Bought, SuccessfulEntries, Sold, NoOrder, NonOpen
<1>4. Exchanged(e) /\ RowsAgree(e, e) /\ Saved(e, e)
  BY <1>2 DEF Exchanged, RowsAgree, Saved, NoOrder
<1>5. Books
  BY <1>1, <1>3, <1>4 DEF Books, Paid
<1>6. Locals(task, rows, db.rows, ex)
  BY <1>1, IdleLocals
<1>7. Gone
  BY <1>1, <1>2 DEF Gone, Rest, NoOrder, Idle
<1>8. RowOrDead(task, rows, ex, unknown)
  BY <1>1, <1>2 DEF RowOrDead, NoOrder
<1>9. KeptBy(task, trade, rows, ex)
  BY <1>1, DoneKept
<1> QED BY <1>5, <1>6, <1>7, <1>8, <1>9 DEF Whole

LEMMA NextWhole ==
  ASSUME TradeAssumption, ~AdjustOrderPrice, Missing \subseteq NonOpen, Inv, Whole, [Next]_vars
  PROVE  Whole' /\ FillsGrow
<1>1. CASE UNCHANGED vars
  <2>1. Whole'
    BY <1>1 DEF vars, Whole, Books, Locals, Gone, RowOrDead, KeptBy
  <2> QED BY <1>1, <2>1, SameFills DEF vars
<1>2. CASE Market
  BY <1>2, MarketWhole
<1>3. CASE Begin
  BY <1>3, EntryWhole, LoopWhole, BeginExitWhole, StoplossWhole, ReloadWhole, ManageOpenOrderWhole DEF Begin
<1>4. CASE Continue
  <2>1. CASE PlaceEntry \/ RefuseEntry \/ RecordEntry
    BY <2>1, EntryWhole, RecordEntryWhole
  <2>2. CASE RefuseCancel \/ AlreadyCanceled \/ CancelOrder
    BY <2>2, CancelWhole
  <2>3. CASE Managed \/ Replaced \/ CancelledOpen \/ ForceExitNow
    BY <2>3, LoopWhole, BeginExitWhole
  <2>4. CASE CheckExitAmount \/ PlaceExit \/ RefuseExit \/ RecordExit \/ Refound
    BY <2>4, ExitWhole, RefindWhole
  <2>5. CASE FetchedStops \/ PlaceStop \/ RefuseStop \/ RecordStop
    BY <2>5, StoplossWhole, RecordStopWhole
  <2>6. CASE Adopted \/ Started \/ Commit
    BY <2>6, ReloadWhole, RefindWhole, CommitWhole
  <2>7. ASSUME NEW o \in Orders,
               \/ CancelNextOpen(o) \/ ForceNext(o) \/ CancelStop(o) \/ FetchStop(o)
               \/ Refind(o) \/ AdoptOrder(o) \/ StartupUpdate(o)
        PROVE  Whole' /\ FillsGrow
    BY <2>7, LoopWhole, ForceNextWhole, CancelStopWhole, StoplossWhole, RefindWhole, StartupWhole
  <2> QED BY <1>4, <2>1, <2>2, <2>3, <2>4, <2>5, <2>6, <2>7 DEF Continue
<1>5. CASE Abort
  BY <1>5, ReloadWhole
<1>6. CASE LostReply \/ Crash
  BY <1>6, FaultWhole
<1> QED BY <1>1, <1>2, <1>3, <1>4, <1>5, <1>6 DEF Next

\* The books stay in order, unless the strategy replaces orders and as long as
\* fetch_order finds every live order.
THEOREM BooksInOrder ==
  ASSUME ~AdjustOrderPrice, Missing \subseteq NonOpen
  PROVE  Spec => [](Inv /\ Whole)
<1>1. Init => Inv /\ Whole
  BY InitInv, InitWhole, TradeAssumption
<1>2. Inv /\ Whole /\ [Next]_vars => (Inv /\ Whole)'
  BY NextInv, NextWhole, TradeAssumption
<1> QED BY <1>1, <1>2, PTL DEF Spec

\* As long as the bot runs and hears every answer, no handler leaves an open
\* trade that holds nothing and does not try to buy.
THEOREM NoTradeIsLeftEmpty ==
  ASSUME ~AdjustOrderPrice, Missing \subseteq NonOpen
  PROVE  Spec => []NoEmptyTrade
<1>1. Inv /\ Whole => NoEmptyTrade
  <2> SUFFICES ASSUME Inv, Whole, faults = 0, EmptyTrade PROVE FALSE
    BY DEF NoEmptyTrade
  <2>1. task.at = "idle" /\ trade = "open" /\ amount = 0 /\ OpenOrders(rows) = {}
    BY DEF EmptyTrade, Idle
  <2>2. Bought(rows)
    BY <2>1 DEF Whole, KeptBy
  <2> QED BY <2>1, <2>2 DEF Whole, Books, Paid
<1> QED BY <1>1, BooksInOrder, PTL

\* If the exchange finds every order, a trade is deleted only when no order of it
\* lives or was filled, whatever crashed and whatever the exchange did meanwhile.
THEOREM OnlyEmptyTradesAreDeleted ==
  ASSUME ~AdjustOrderPrice, Missing = {}
  PROVE  Spec => []DeletedTradeHoldsNothing
<1>1. Inv /\ Whole => DeletedTradeHoldsNothing
  <2> SUFFICES ASSUME Inv, Whole, trade = "deleted", unknown = {}, NEW o \in Orders
               PROVE  ex[o].filled = 0 /\ ex[o].status # "open"
    BY DEF DeletedTradeHoldsNothing
  <2>1. rows[o].status = "none" /\ task.at \notin Recording
    BY DEF Whole, Gone, Absent, Rest, Recording
  <2>2. CASE ex[o].status = "none"
    <3>1. ex[o] = NoOrder
      BY <2>2 DEF Whole, Books, Exchanged
    <3> QED BY <3>1 DEF NoOrder
  <2>3. CASE ex[o].status # "none"
    BY <2>1, <2>3 DEF Whole, RowOrDead, Dead
  <2> QED BY <2>2, <2>3
<1>2. Spec => [](Inv /\ Whole)
  BY BooksInOrder
<1> QED BY <1>1, <1>2, PTL

\* If the exchange finds every order, no handler, and no crash, replaces what the
\* bot knows of an order by an order dict with less filled.
THEOREM FillsAreKept ==
  ASSUME ~AdjustOrderPrice, Missing = {}
  PROVE  Spec => FillsNeverForgotten
<1>1. /\ Inv /\ Whole /\ [Next]_vars
      => [\A o \in Orders : rows'[o].status # "none" => rows'[o].filled >= rows[o].filled]_vars
  BY NextWhole, TradeAssumption DEF FillsGrow
<1>2. Spec => [](Inv /\ Whole)
  BY BooksInOrder
<1> QED BY <1>1, <1>2, PTL DEF Spec, FillsNeverForgotten
-----------------------------------------------------------------------------
(* The balance: what the rows add up to is what the exchange has.          *)

\* What an order leaves of the position at worst: a live sell may be filled.
Worth(x) == IF x.status = "open" /\ x.side \in {"exit", "stoploss"} THEN -x.amount ELSE Signed(x)

Position(e) == SumFunction([o \in Orders |-> Signed(e[o])])
Unsold(e)   == SumFunction([o \in Orders |-> Worth(e[o])])

\* At most one entry order lives or was filled.
OneEntry(e) ==
  \A o, p \in Orders : e[o].side = "entry" /\ e[p].side = "entry" /\ ~Dead(e[o]) /\ ~Dead(e[p]) => o = p

LEMMA OrderValues ==
  ASSUME NEW x \in Order
  PROVE  /\ Signed(x) \in Int /\ Counted(x) \in Int /\ Worth(x) \in Int
         /\ Worth(x) <= Signed(x)
         /\ x.filled \in Nat /\ x.amount \in Nat /\ x.amount - x.filled \in Nat
<1>1. /\ x.filled \in Nat /\ x.amount \in Nat /\ x.filled <= x.amount
  BY DEF Order
<1> QED BY <1>1 DEF Signed, Counted, Worth

LEMMA SumsOfOrders ==
  ASSUME TradeAssumption, NEW e \in [Orders -> Order]
  PROVE  /\ Position(e) = SumFunctionOnSet([o \in Orders |-> Signed(e[o])], Orders)
         /\ Unsold(e) = SumFunctionOnSet([o \in Orders |-> Worth(e[o])], Orders)
         /\ Recalc(e) = SumFunctionOnSet([o \in Orders |-> Counted(e[o])], Orders)
         /\ Position(e) \in Int /\ Unsold(e) \in Int /\ Recalc(e) \in Int
<1>1. /\ Position(e) = SumFunctionOnSet([o \in Orders |-> Signed(e[o])], Orders)
      /\ Unsold(e) = SumFunctionOnSet([o \in Orders |-> Worth(e[o])], Orders)
      /\ Recalc(e) = SumFunctionOnSet([o \in Orders |-> Counted(e[o])], Orders)
  BY DEF Position, Unsold, Recalc, SumFunction
<1>2. \A f : (\A o \in Orders : f[o] \in Int) => SumFunctionOnSet(f, Orders) \in Int
  BY OrdersFinite, SumInt
<1>3. \A o \in Orders : /\ [p \in Orders |-> Signed(e[p])][o] \in Int
                        /\ [p \in Orders |-> Worth(e[p])][o] \in Int
                        /\ [p \in Orders |-> Counted(e[p])][o] \in Int
  BY OrderValues
<1> QED BY <1>1, <1>2, <1>3, Zenon

\* A row changes, and what the rows add up to by as much.
LEMMA RecalcChanges ==
  ASSUME TradeAssumption, NEW r \in [Orders -> Order], NEW o \in Orders, NEW s \in Order
  PROVE  Recalc([r EXCEPT ![o] = s]) = Recalc(r) + (Counted(s) - Counted(r[o]))
<1> DEFINE q == [r EXCEPT ![o] = s]
           f == [p \in Orders |-> Counted(r[p])]
           g == [p \in Orders |-> Counted(q[p])]
<1>1. q \in [Orders -> Order] /\ q[o] = s /\ \A p \in Orders : p # o => q[p] = r[p]
  OBVIOUS
<1>2. Counted(s) \in Int /\ Counted(r[o]) \in Int
  BY OrderValues
<1>3. PICK n \in Int : n = Counted(s) - Counted(r[o])
  BY <1>2
<1>4. \A p \in Orders : f[p] \in Int /\ g[p] \in Int
  BY <1>1, OrderValues
<1>5. \A p \in Orders : p # o => g[p] = f[p]
  BY <1>1
<1>6. g[o] = f[o] + n
  BY <1>1, <1>2, <1>3
<1>7. Recalc(q) = SumFunctionOnSet(g, Orders) /\ Recalc(r) = SumFunctionOnSet(f, Orders)
  BY <1>1, SumsOfOrders
<1> HIDE DEF f, g, q
<1>8. SumFunctionOnSet(g, Orders) = SumFunctionOnSet(f, Orders) + n
  BY <1>4, <1>5, <1>6, OrdersFinite, SumChanges
<1>9. Recalc(q) = Recalc(r) + n
  BY <1>7, <1>8
<1> QED BY <1>3, <1>9 DEF q

LEMMA RecalcSame ==
  ASSUME TradeAssumption, NEW r \in [Orders -> Order], NEW q \in [Orders -> Order],
         \A o \in Orders : Counted(q[o]) = Counted(r[o])
  PROVE  Recalc(q) = Recalc(r)
<1>1. [o \in Orders |-> Counted(q[o])] = [o \in Orders |-> Counted(r[o])]
  OBVIOUS
<1> QED BY <1>1 DEF Recalc

LEMMA RecalcOfNothing ==
  ASSUME TradeAssumption, NEW r \in [Orders -> Order], \A o \in Orders : r[o].status = "none"
  PROVE  Recalc(r) = 0
<1> DEFINE f == [o \in Orders |-> Counted(r[o])]
<1>1. \A o \in Orders : f[o] = 0
  BY DEF Counted, NonOpen
<1>2. Recalc(r) = SumFunctionOnSet(f, Orders)
  BY SumsOfOrders
<1> HIDE DEF f
<1>3. SumFunctionOnSet(f, Orders) = 0
  <2>1. \A o \in Orders : f[o] \in Int
    BY <1>1
  <2>2. (\A o \in Orders : f[o] <= 0) /\ (\A o \in Orders : f[o] >= 0)
    BY <1>1
  <2>3. SumFunctionOnSet(f, Orders) <= 0 /\ SumFunctionOnSet(f, Orders) >= 0
    BY <2>1, <2>2, OrdersFinite, SumSign
  <2>4. SumFunctionOnSet(f, Orders) \in Int
    BY <2>1, OrdersFinite, SumInt
  <2> QED BY <2>3, <2>4
<1> QED BY <1>2, <1>3

\* What the exchange lets the bot sell is the position at worst.
LEMMA FreeIsUnsold ==
  ASSUME TradeAssumption, ex \in [Orders -> Order]
  PROVE  Free = Unsold(ex)
<1> DEFINE f == [o \in Orders |-> Signed(ex[o])]
           h == [o \in Orders |-> Worth(ex[o])]
           g == [o \in Orders |-> ex[o].amount - ex[o].filled]
<1>1. \A o \in Orders : f[o] \in Int /\ h[o] \in Int
  BY OrderValues
<1>2. \A o \in LiveSells : g[o] \in Int
  BY OrderValues DEF LiveSells
<1>3. Shared(f, g, h, Orders, LiveSells)
  <2>1. ASSUME NEW o \in LiveSells PROVE f[o] = h[o] + g[o]
    <3>1. o \in Orders /\ ex[o].status = "open" /\ ex[o].side \in {"exit", "stoploss"}
      BY DEF LiveSells
    <3>2. ex[o] \in Order /\ ex[o].amount \in Nat /\ ex[o].filled \in Nat
      BY <3>1, OrderValues
    <3>3. Signed(ex[o]) = -ex[o].filled /\ Worth(ex[o]) = -ex[o].amount
      BY <3>1 DEF Signed, Worth
    <3>4. \A a, b \in Nat : -b = (-a) + (a - b)
      OBVIOUS
    <3> QED BY <3>1, <3>2, <3>3, <3>4
  <2>2. ASSUME NEW o \in Orders \ LiveSells PROVE f[o] = h[o]
    BY <2>2 DEF LiveSells, Worth
  <2> HIDE DEF f, g, h
  <2> QED BY <2>1, <2>2, Zenon DEF Shared
<1>4. Held = SumFunctionOnSet(f, Orders)
  BY DEF Held, SumFunction
<1>5. Unsold(ex) = SumFunctionOnSet(h, Orders) /\ Unsold(ex) \in Int
  BY SumsOfOrders
<1>6. Free = Held - SumFunctionOnSet(g, LiveSells)
  BY DEF Free
<1>7. LiveSells \in SUBSET Orders
  BY DEF LiveSells
<1> HIDE DEF f, g, h
<1>8. SumFunctionOnSet(f, Orders) = SumFunctionOnSet(h, Orders) + SumFunctionOnSet(g, LiveSells)
  BY <1>1, <1>2, <1>3, <1>7, OrdersFinite, SumOfParts
<1>9. SumFunctionOnSet(g, LiveSells) \in Int
  <2>1. IsFiniteSet(LiveSells)
    BY <1>7, OrdersFinite, FS_Subset
  <2> QED BY <1>2, <2>1, SumInt
<1> QED BY <1>4, <1>5, <1>6, <1>8, <1>9

LEMMA UnsoldIsLess ==
  ASSUME TradeAssumption, NEW e \in [Orders -> Order]
  PROVE  Unsold(e) <= Position(e)
<1> DEFINE f == [o \in Orders |-> Worth(e[o])]
           g == [o \in Orders |-> Signed(e[o])]
<1>1. \A o \in Orders : f[o] \in Int /\ g[o] \in Int /\ f[o] <= g[o]
  BY OrderValues
<1>2. Position(e) = SumFunctionOnSet(g, Orders) /\ Unsold(e) = SumFunctionOnSet(f, Orders)
  BY SumsOfOrders
<1> HIDE DEF f, g
<1>3. SumFunctionOnSet(f, Orders) <= SumFunctionOnSet(g, Orders)
  BY <1>1, OrdersFinite, SumGrows
<1> QED BY <1>2, <1>3

\* Once something was bought the rows never say less than what is held.
LEMMA RowsCoverPosition ==
  ASSUME TradeAssumption, Missing = {}, NEW r \in [Orders -> Order], NEW e \in [Orders -> Order],
         RowsAgree(r, e), Exchanged(e), OneEntry(e), Bought(r)
  PROVE  Position(e) <= Recalc(r)
<1> DEFINE f == [o \in Orders |-> Signed(e[o])]
           g == [o \in Orders |-> Counted(r[o])]
<1>1. PICK b \in Orders : r[b].side = "entry" /\ r[b].status \in NonOpen /\ r[b].filled > 0
  BY DEF Bought, SuccessfulEntries
<1>2. e[b].side = "entry" /\ e[b].status = r[b].status /\ e[b].filled = r[b].filled /\ ~Dead(e[b])
  <2>1. r[b].status # "none" /\ r[b].status # "open"
    BY <1>1 DEF NonOpen
  <2>2. OfOrder(r[b], e[b])
    BY <2>1 DEF RowsAgree
  <2>3. e[b].side = "entry" /\ e[b].status = r[b].status /\ e[b].filled = r[b].filled
    BY <1>1, <2>1, <2>2 DEF OfOrder
  <2>4. r[b].filled \in Nat
    BY OrderValues
  <2> QED BY <1>1, <2>3, <2>4 DEF Dead
<1>3. ASSUME NEW o \in Orders
      PROVE  f[o] \in Int /\ g[o] \in Int /\ f[o] <= g[o]
  <2>1. /\ Signed(e[o]) \in Int /\ Counted(r[o]) \in Int
        /\ e[o].filled \in Nat /\ r[o].filled \in Nat
    BY OrderValues
  <2>2. CASE e[o].side = "entry" /\ ~Dead(e[o])
    <3>1. o = b
      BY <1>2, <2>2 DEF OneEntry
    <3> QED BY <1>1, <1>2, <2>1, <3>1 DEF Signed, Counted
  <2>3. CASE e[o].side = "entry" /\ Dead(e[o])
    <3>1. Signed(e[o]) = 0
      BY <2>3 DEF Signed, Dead
    <3>2. Counted(r[o]) >= 0
      <4>1. r[o].status # "none" => r[o].side = "entry"
        BY <2>3 DEF RowsAgree, OfOrder
      <4> QED BY <2>1, <4>1 DEF Counted, Signed, NonOpen
    <3> QED BY <2>1, <3>1, <3>2
  <2>4. CASE e[o].side # "entry"
    <3>1. r[o].status = "none" \/ (r[o].side # "entry" /\ r[o].filled <= e[o].filled)
      BY <2>4 DEF RowsAgree, OfOrder
    <3>2. Signed(e[o]) = -e[o].filled
      BY <2>4 DEF Signed
    <3>3. Counted(r[o]) = 0 \/ (Counted(r[o]) = -r[o].filled /\ r[o].filled <= e[o].filled)
      BY <3>1 DEF Counted, Signed, NonOpen
    <3> QED BY <2>1, <3>2, <3>3
  <2> QED BY <2>2, <2>3, <2>4
<1>4. Position(e) = SumFunctionOnSet(f, Orders) /\ Recalc(r) = SumFunctionOnSet(g, Orders)
  BY SumsOfOrders
<1> HIDE DEF f, g
<1>5. SumFunctionOnSet(f, Orders) <= SumFunctionOnSet(g, Orders)
  BY <1>3, OrdersFinite, SumGrows
<1> QED BY <1>4, <1>5

\* Where no row is open and every order has one, or bought nothing, the rows say
\* exactly what is held.
LEMMA RowsArePosition ==
  ASSUME TradeAssumption, Missing = {}, NEW r \in [Orders -> Order], NEW e \in [Orders -> Order],
         RowsAgree(r, e), Exchanged(e), \A o \in Orders : r[o].status # "open",
         \A o \in Orders : r[o].status = "none" /\ e[o].status # "none" => Dead(e[o])
  PROVE  Position(e) = Recalc(r)
<1> DEFINE f == [o \in Orders |-> Signed(e[o])]
           g == [o \in Orders |-> Counted(r[o])]
<1>1. ASSUME NEW o \in Orders
      PROVE  f[o] \in Int /\ f[o] = g[o]
  <2>1. /\ Signed(e[o]) \in Int /\ Counted(r[o]) \in Int
        /\ e[o].filled \in Nat /\ r[o].filled \in Nat
        /\ r[o].status \in {"none", "open"} \cup NonOpen
    BY OrderValues DEF Order
  <2>2. CASE r[o].status = "none"
    <3>1. e[o].filled = 0
      BY <2>2 DEF Exchanged, Dead, NoOrder
    <3>2. Signed(e[o]) <= 0 /\ Signed(e[o]) >= 0
      BY <2>1, <3>1 DEF Signed
    <3>3. Counted(r[o]) = 0
      BY <2>2 DEF Counted, NonOpen
    <3> QED BY <2>1, <3>2, <3>3
  <2>3. CASE r[o].status # "none"
    <3>1. r[o].filled = e[o].filled /\ (r[o].side = "entry" <=> e[o].side = "entry")
      BY <2>3 DEF RowsAgree, OfOrder
    <3>2. Counted(r[o]) = Signed(r[o])
      BY <2>1, <2>3 DEF Counted
    <3> QED BY <2>1, <3>1, <3>2 DEF Signed
  <2> QED BY <2>2, <2>3
<1>2. Position(e) = SumFunctionOnSet(f, Orders) /\ Recalc(r) = SumFunctionOnSet(g, Orders)
  BY SumsOfOrders
<1> HIDE DEF f, g
<1>3. SumFunctionOnSet(f, Orders) = SumFunctionOnSet(g, Orders)
  BY <1>1, OrdersFinite, SumSame
<1> QED BY <1>2, <1>3
-----------------------------------------------------------------------------
\* Where the handler is, as long as no order is unknown.
Tame(t, tr, r) ==
  /\ t.at # "placeEntry" /\ t.after # "placeEntry" /\ ~InLoop(t, "adopt")
  /\ t.stops # {} => t.at = "stops"
  /\ t.at \in Recording => t.snap.status # "canceled"
  /\ t.at = "recordEntry" => tr = "none"
  /\ tr = "open" => /\ t.todo \cap t.stops = {}
                    /\ \A p \in t.todo \cup t.stops : r[p].status = "open"

\* What the rows add up to is the amount of the trade, and nothing once it is closed.
AddsUp(r, tr, a) == IF tr = "closed" THEN Recalc(r) = 0 ELSE a = Recalc(r)

Balanced ==
  /\ Unsold(ex) >= 0
  /\ OneEntry(ex)
  /\ AddsUp(rows, trade, amount)
  /\ db.amount = amount /\ \A o \in Orders : Counted(db.rows[o]) = Counted(rows[o])
  /\ Tame(task, trade, rows)

\* A step of the exchange changes no amount that was ordered.
ExchangeRuns(e, f) == ExchangeGoes(e, f) /\ \A o \in Orders : f[o].amount = e[o].amount

LEMMA RunsBalanced ==
  ASSUME TradeAssumption, NEW e \in [Orders -> Order], NEW f \in [Orders -> Order],
         Exchanged(e), ExchangeRuns(e, f), Unsold(e) >= 0, OneEntry(e)
  PROVE  Unsold(f) >= 0 /\ OneEntry(f)
<1> DEFINE v == [o \in Orders |-> Worth(e[o])]
           w == [o \in Orders |-> Worth(f[o])]
<1>1. ASSUME NEW o \in Orders
      PROVE  v[o] \in Int /\ w[o] \in Int /\ v[o] <= w[o]
  <2>1. /\ Worth(e[o]) \in Int /\ Worth(f[o]) \in Int
        /\ e[o].filled \in Nat /\ f[o].filled \in Nat /\ f[o].filled <= f[o].amount
        /\ f[o].amount \in Nat /\ f[o].amount = e[o].amount
    BY OrderValues DEF Order, ExchangeRuns
  <2>2. f[o].side = e[o].side /\ e[o].filled <= f[o].filled /\ (e[o].status # "open" => f[o] = e[o])
    BY DEF ExchangeRuns, ExchangeGoes
  <2>3. CASE e[o].status # "open"
    BY <2>1, <2>2, <2>3
  <2>4. CASE e[o].status = "open" /\ e[o].side = "entry"
    <3>1. Worth(e[o]) = e[o].filled /\ Worth(f[o]) = f[o].filled
      BY <2>2, <2>4 DEF Worth, Signed
    <3> QED BY <2>1, <2>2, <3>1
  <2>5. CASE e[o].status = "open" /\ e[o].side # "entry"
    <3>1. e[o].side \in {"exit", "stoploss"}
      BY <2>5 DEF Exchanged, Order
    <3>2. Worth(e[o]) = -e[o].amount
      BY <2>5, <3>1 DEF Worth
    <3>3. Worth(f[o]) = -f[o].amount \/ Worth(f[o]) = -f[o].filled
      BY <2>2, <3>1 DEF Worth, Signed
    <3> QED BY <2>1, <3>2, <3>3
  <2> QED BY <2>3, <2>4, <2>5
<1>2. Unsold(e) = SumFunctionOnSet(v, Orders) /\ Unsold(f) = SumFunctionOnSet(w, Orders)
      /\ Unsold(e) \in Int /\ Unsold(f) \in Int
  BY SumsOfOrders
<1> HIDE DEF v, w
<1>3. SumFunctionOnSet(v, Orders) <= SumFunctionOnSet(w, Orders)
  BY <1>1, OrdersFinite, SumGrows
<1>4. OneEntry(f)
  <2>1. \A o \in Orders : f[o].side = e[o].side /\ (~Dead(f[o]) => ~Dead(e[o]))
    BY DEF ExchangeRuns, ExchangeGoes, Dead
  <2> QED BY <2>1 DEF OneEntry
<1> QED BY <1>2, <1>3, <1>4

LEMMA SameRuns == TypeOK => ExchangeRuns(ex, ex) /\ ex \in [Orders -> Order]
  BY SameGoes DEF ExchangeRuns

LEMMA CancelRuns ==
  ASSUME TypeOK, NEW o \in Orders, ex' = CancelOnExchange(o)
  PROVE  ex' \in [Orders -> Order] /\ ExchangeRuns(ex, ex') /\ ex'[o].status # "open"
<1>1. \A p \in Orders : ex'[p].amount = ex[p].amount
  BY DEF CancelOnExchange, TypeOK, Order
<1> QED BY <1>1, CancelGoes DEF ExchangeRuns

LEMMA IdleTame ==
  ASSUME NEW tr, NEW r
  PROVE  Tame(Idle, tr, r) /\ Tame(Done, tr, r)
  BY DEF Tame, Idle, Done, InLoop, Recording

\* Stoploss orders go first only when the trade is over, or nothing else is to do.
LEMMA StopsTame ==
  ASSUME NEW k \in Task, NEW tr, NEW r, Tame(k, tr, r), k.at \notin Recording, NEW stops,
         tr = "open" => /\ stops \cap k.todo = {}
                        /\ \A p \in stops : r[p].status = "open"
  PROVE  Tame(StopsFirst(k, stops), tr, r)
<1> DEFINE t == StopsFirst(k, stops)
<1>1. CASE stops = {}
  BY <1>1 DEF StopsFirst
<1>2. CASE stops # {}
  <2>1. t = [k EXCEPT !.at = "stops", !.stops = k.stops \cup stops,
                      !.then = IF k.at = "stops" THEN k.then ELSE k.at]
    BY <1>2 DEF StopsFirst
  <2>2. /\ t.at = "stops" /\ t.stops = k.stops \cup stops /\ t.after = k.after /\ t.todo = k.todo
        /\ t.then = IF k.at = "stops" THEN k.then ELSE k.at
    BY <2>1 DEF Task
  <2> HIDE DEF t
  <2>3. ~InLoop(t, "adopt")
    BY <2>2 DEF Tame, InLoop
  <2>4. Tame(t, tr, r)
    BY <2>2, <2>3 DEF Tame, Recording
  <2> QED BY <2>4 DEF t
<1> QED BY <1>1, <1>2

\* A step that changes the locals, and perhaps what the exchange has.
LEMMA GoBalanced ==
  ASSUME TradeAssumption, Inv, Whole, Balanced, ex' \in [Orders -> Order], ExchangeRuns(ex, ex'), Bot,
         Tame(task', trade, rows)
  PROVE  Balanced'
<1>1. Unsold(ex') >= 0 /\ OneEntry(ex')
  BY RunsBalanced DEF Balanced, Inv, TypeOK, Whole, Books
<1>2. rows' = rows /\ trade' = trade /\ amount' = amount /\ db' = db
  BY DEF Bot
<1>3. Tame(task', trade', rows')
  BY <1>2
<1> QED BY <1>1, <1>2, <1>3 DEF Balanced

\* The row of an order that is over says what any order dict of it says.
LEMMA OverRow ==
  ASSUME Inv, Whole, Missing = {}, NEW o \in Orders, NEW s \in Order, NEW f, ExchangeGoes(ex, f),
         Fits(s, rows[o], f[o]), rows[o].status \in NonOpen
  PROVE  Counted(s) = Counted(rows[o])
<1>1. rows[o].status # "none" /\ rows[o].status # "open"
  BY DEF NonOpen
<1>2. OfOrder(rows[o], ex[o])
  BY <1>1 DEF Whole, Books, RowsAgree
<1>3. rows[o].status = ex[o].status /\ rows[o].filled = ex[o].filled
  BY <1>1, <1>2 DEF OfOrder
<1>4. f[o] = ex[o]
  BY <1>1, <1>3 DEF ExchangeGoes
<1>5. s.side = rows[o].side /\ s.status # "open" /\ OfOrder(s, ex[o])
  BY <1>1, <1>4 DEF Fits
<1>6. s.status = rows[o].status /\ s.filled = rows[o].filled
  BY <1>3, <1>5 DEF OfOrder
<1> QED BY <1>5, <1>6 DEF Counted, Signed

\* The rows never add up to less than nothing, once something was bought.
LEMMA RowsNotNegative ==
  ASSUME TradeAssumption, Missing = {}, NEW r \in [Orders -> Order], NEW e \in [Orders -> Order],
         RowsAgree(r, e), Exchanged(e), OneEntry(e), Unsold(e) >= 0, Bought(r)
  PROVE  Recalc(r) >= 0
<1>1. Position(e) <= Recalc(r)
  BY RowsCoverPosition
<1>2. Unsold(e) <= Position(e)
  BY UnsoldIsLess
<1>3. Unsold(e) \in Int /\ Position(e) \in Int /\ Recalc(r) \in Int
  BY SumsOfOrders
<1> QED BY <1>1, <1>2, <1>3

\* The entry that is filled is the first.
LEMMA FirstEntry ==
  ASSUME NEW q \in [Orders -> Order], NEW e \in [Orders -> Order], NEW o \in Orders, NEW s \in Order,
         RowsAgree([q EXCEPT ![o] = s], e), OneEntry(e), Missing = {},
         s.status \in NonOpen, s.filled # 0, s.side = "entry", q[o].status \notin NonOpen
  PROVE  ~Bought(q)
<1> SUFFICES ASSUME Bought(q) PROVE FALSE
  OBVIOUS
<1> DEFINE r == [q EXCEPT ![o] = s]
<1>1. r[o] = s /\ \A p \in Orders : p # o => r[p] = q[p]
  OBVIOUS
<1>2. PICK b \in Orders : q[b].side = "entry" /\ q[b].status \in NonOpen /\ q[b].filled > 0
  BY DEF Bought, SuccessfulEntries
<1>3. e[o].side = "entry" /\ ~Dead(e[o])
  <2>1. r[o].status # "none" /\ r[o].status # "open"
    BY <1>1 DEF NonOpen
  <2>2. OfOrder(s, e[o])
    BY <1>1, <2>1 DEF RowsAgree
  <2> QED BY <1>1, <2>1, <2>2 DEF OfOrder, Dead
<1>4. r[b] = q[b] /\ r[b].status # "none" /\ r[b].status # "open" /\ b # o
  BY <1>1, <1>2 DEF NonOpen
<1>5. OfOrder(q[b], e[b])
  BY <1>4 DEF RowsAgree
<1>6. e[b].side = "entry" /\ ~Dead(e[b])
  BY <1>2, <1>4, <1>5 DEF OfOrder, Dead
<1> QED BY <1>3, <1>4, <1>6 DEF OneEntry

LEMMA CountsNothing ==
  ASSUME NEW x \in Order, x.filled = 0 \/ x.status \notin NonOpen
  PROVE  Counted(x) = 0
<1>1. x.filled = 0 => Signed(x) <= 0 /\ Signed(x) >= 0
  BY OrderValues DEF Signed
<1> QED BY <1>1, OrderValues DEF Counted

\* The exchange sold no more than was bought, by one entry order.
Solvent(e) == Exchanged(e) /\ OneEntry(e) /\ Unsold(e) >= 0

\* update_trade_state with a final answer keeps the balance, whether or not it
\* closes the trade: no more is sold than is left.
LEMMA UpdatedBalance ==
  ASSUME TradeAssumption, Missing = {}, NEW q \in [Orders -> Order], NEW e \in [Orders -> Order],
         NEW o \in Orders, NEW s \in Order, NEW t \in {"open", "closed"}, NEW a \in Nat, NEW sending,
         RowsAgree([q EXCEPT ![o] = s], e), Solvent(e), s.status \in NonOpen, s.filled # 0, Bought([q EXCEPT ![o] = s]),
         AddsUp(q, t, a), Paid(q, t, a),
         q[o].status \in NonOpen => t = "closed" /\ Counted(s) = Counted(q[o]),
         NEW u, u = Updated(q, t, a, o, s, sending)
  PROVE  AddsUp(u.rows, u.trade, u.amount)
<1> DEFINE r == [q EXCEPT ![o] = s]
<1>1. /\ u.rows = r
      /\ u.trade = IF Closes(a, s, sending) THEN "closed" ELSE t
      /\ u.amount = Recalculated(r, IF s.side = "entry" THEN s.filled ELSE a)
  BY DEF Updated, NonOpen
<1>2. r \in [Orders -> Order]
  OBVIOUS
<1>3. Recalc(r) = Recalc(q) + (Counted(s) - Counted(q[o]))
  BY RecalcChanges
<1>4. Recalc(r) >= 0
  BY <1>2, RowsNotNegative DEF Solvent
<1>5. /\ Recalc(r) \in Int /\ Recalc(q) \in Int /\ Counted(s) \in Int /\ Counted(q[o]) \in Int
      /\ s.filled \in Nat
  BY <1>2, SumsOfOrders, OrderValues
<1> HIDE DEF r
<1>6. CASE q[o].status \in NonOpen
  <2>1. Recalc(r) = 0 /\ t = "closed"
    BY <1>3, <1>5, <1>6 DEF AddsUp
  <2> QED BY <1>1, <2>1 DEF AddsUp
<1>7. CASE q[o].status \notin NonOpen /\ s.side = "entry"
  <2>1. ~Bought(q)
    <3>1. OneEntry(e)
      BY <1>5 DEF Solvent
    <3> QED BY <1>7, <3>1, FirstEntry
  <2>2. t = "open" /\ a = 0 /\ Recalc(q) = 0
    BY <2>1 DEF Paid, AddsUp
  <2>3. Counted(q[o]) = 0 /\ Counted(s) = s.filled
    BY <1>7, CountsNothing DEF Counted, Signed
  <2>4. Recalc(r) = s.filled
    BY <1>3, <1>5, <2>2, <2>3
  <2>5. u.amount = Recalc(r) /\ u.trade = "open"
    BY <1>1, <1>5, <1>7, <2>2, <2>4 DEF Recalculated, Closes
  <2> QED BY <1>1, <2>1, <2>5 DEF AddsUp
<1>8. CASE q[o].status \notin NonOpen /\ s.side # "entry"
  <2>1. Counted(q[o]) = 0 /\ Counted(s) = -s.filled
    BY <1>8, CountsNothing DEF Counted, Signed
  <2>2. Recalc(r) = Recalc(q) - s.filled
    BY <1>3, <1>5, <2>1
  <2>3. CASE t = "closed"
    <3>1. Recalc(r) = 0
      BY <1>4, <1>5, <2>2, <2>3 DEF AddsUp
    <3> QED BY <1>1, <1>8, <2>3, <3>1 DEF AddsUp
  <2>4. CASE t = "open"
    <3>1. a = Recalc(q) /\ s.filled <= a
      BY <1>4, <1>5, <2>2, <2>4 DEF AddsUp
    <3>2. Closes(a, s, sending) <=> s.filled = a
      BY <1>5, <1>8, <3>1 DEF Closes
    <3>3. CASE s.filled = a
      <4>1. Recalc(r) = 0
        BY <1>5, <2>2, <3>1, <3>3
      <4> QED BY <1>1, <1>8, <3>2, <3>3, <4>1 DEF AddsUp
    <3>4. CASE s.filled # a
      <4>1. Recalc(r) \in Nat \ {0}
        BY <1>5, <2>2, <3>1, <3>4
      <4>2. u.amount = Recalc(r) /\ u.trade = "open"
        BY <1>1, <2>4, <3>2, <3>4, <4>1 DEF Recalculated
      <4> QED BY <1>1, <1>8, <4>2 DEF AddsUp
    <3> QED BY <3>3, <3>4
  <2> QED BY <2>3, <2>4
<1> QED BY <1>6, <1>7, <1>8

\* update_trade_state keeps the balance.
LEMMA UpdateBalanced ==
  ASSUME TradeAssumption, Missing = {}, Inv, Whole, Balanced, Inv', Whole', ExchangeRuns(ex, ex'),
         NEW o \in Orders, NEW s \in Order, Fits(s, rows[o], ex'[o]), ex[o].status # "none",
         NEW sending, NEW k \in Task, UpdateTradeState(o, s, sending, k), ~Absent(trade),
         trade = "open" => rows[o].status \notin NonOpen,
         k.at \notin Recording, Tame(k, trade, [rows EXCEPT ![o] = s])
  PROVE  Balanced'
<1> DEFINE u == Updated(rows, trade, amount, o, s, sending)
           r == [rows EXCEPT ![o] = s]
           stops == StopsToCancel(u, s, sending)
<1>1. /\ rows \in [Orders -> Order] /\ ex \in [Orders -> Order] /\ ex' \in [Orders -> Order]
      /\ rows' \in [Orders -> Order] /\ amount \in Nat
      /\ s.status \in {"open"} \cup NonOpen /\ s.filled \in Nat /\ trade \in {"open", "closed"}
  BY DEF Inv, TypeOK, Fits, Order, Absent, States
<1>2. Unsold(ex') >= 0 /\ OneEntry(ex')
  BY <1>1, RunsBalanced DEF Balanced, Whole, Books
<1>3. /\ rows' = r /\ trade' \in {trade, "closed"}
      /\ Bought(rows) => Bought(rows')
      /\ s.side # "entry" \/ (s.status # "open" /\ s.filled # 0) => Bought(rows')
  <2>1. ExchangeGoes(ex, ex') /\ Books
    BY DEF ExchangeRuns, Whole
  <2> QED BY <1>1, <2>1, UpdateBooks
<1>4. Tame(k, trade', rows')
  BY <1>3 DEF Tame, Recording
<1>5. rows[o].status \in NonOpen => Counted(s) = Counted(rows[o])
  BY OverRow DEF ExchangeRuns
<1>6. ASSUME s.filled = 0 \/ s.status = "open"
      PROVE  Recalc(rows') = Recalc(rows) /\ \A p \in Orders : Counted(rows'[p]) = Counted(rows[p])
  <2>1. rows[o] \in Order /\ (rows[o].filled = 0 \/ rows[o].status \notin NonOpen)
    BY <1>1, <1>6, OrderValues DEF Fits
  <2>2. Counted(rows[o]) = 0 /\ Counted(s) = 0
    BY <1>6, <2>1, CountsNothing DEF NonOpen
  <2>3. \A p \in Orders : Counted(rows'[p]) = Counted(rows[p])
    BY <1>1, <1>3, <2>2
  <2> QED BY <1>1, <2>3, RecalcSame
<1>7. CASE CanceledEmpty(s) /\ task' = k /\ UNCHANGED <<trade, amount, db>>
  <2>1. s.filled = 0
    BY <1>7 DEF CanceledEmpty
  <2> QED BY <1>2, <1>4, <1>6, <1>7, <2>1 DEF Balanced, AddsUp
<1>8. CASE ~CanceledEmpty(s) /\ Save(u.rows, u.trade, u.amount) /\ task' = StopsFirst(k, stops)
  <2>1. trade' = u.trade /\ amount' = u.amount /\ u.rows = r /\ db' = Committed(rows', trade', amount')
    BY <1>3, <1>8 DEF Save, Updated
  <2>2. db'.amount = amount' /\ \A p \in Orders : Counted(db'.rows[p]) = Counted(rows'[p])
    BY <2>1 DEF Committed
  <2>3. CASE s.status = "open"
    <3>1. u.trade = trade /\ u.amount = amount /\ stops = {}
      BY <2>3 DEF Updated, StopsToCancel, NonOpen
    <3>2. task' = k
      BY <1>8, <3>1 DEF StopsFirst
    <3>3. AddsUp(rows', trade', amount')
      BY <1>6, <2>1, <2>3, <3>1 DEF Balanced, AddsUp
    <3> HIDE DEF u, stops
    <3> QED BY <1>2, <1>4, <2>2, <3>2, <3>3 DEF Balanced
  <2>4. CASE s.status # "open"
    <3>1. s.status \in NonOpen /\ s.filled # 0
      BY <1>1, <1>8, <2>4 DEF CanceledEmpty
    <3>2. /\ RowsAgree(r, ex') /\ Exchanged(ex') /\ Bought(r)
      BY <1>1, <1>3, <2>4, <3>1 DEF Whole, Books
    <3>3. /\ AddsUp(rows, trade, amount)
          /\ Paid(rows, trade, amount)
          /\ rows[o].status \in NonOpen => trade = "closed" /\ Counted(s) = Counted(rows[o])
      BY <1>1, <1>5 DEF Balanced, Whole, Books
    <3>4. AddsUp(u.rows, u.trade, u.amount)
      <4>1. /\ RowsAgree([rows EXCEPT ![o] = s], ex') /\ Exchanged(ex')
            /\ Bought([rows EXCEPT ![o] = s])
        BY <3>2
      <4>2. trade \in {"open", "closed"} /\ amount \in Nat
        BY <1>1
      <4>3. u = Updated(rows, trade, amount, o, s, sending)
        OBVIOUS
      <4> HIDE DEF u
      <4>4. PICK q \in [Orders -> Order] : q = rows
        BY <1>1
      <4>5. PICK e \in [Orders -> Order] : e = ex'
        BY <1>1
      <4>6. PICK t \in {"open", "closed"} : t = trade
        BY <4>2
      <4>7. PICK a \in Nat : a = amount
        BY <4>2
      <4>8. /\ RowsAgree([q EXCEPT ![o] = s], e) /\ Solvent(e)
            /\ Bought([q EXCEPT ![o] = s]) /\ AddsUp(q, t, a) /\ Paid(q, t, a)
            /\ u = Updated(q, t, a, o, s, sending)
        BY <1>2, <3>3, <4>1, <4>3, <4>4, <4>5, <4>6, <4>7 DEF Solvent
      <4>9. q[o].status \in NonOpen => t = "closed" /\ Counted(s) = Counted(q[o])
        BY <3>3, <4>4, <4>6
      <4> QED BY <3>1, <4>8, <4>9, UpdatedBalance
    <3>5. AddsUp(rows', trade', amount')
      BY <1>3, <2>1, <3>4
    <3>6. trade' # "closed" => stops = {}
      <4> SUFFICES ASSUME trade' # "closed", NEW p \in stops PROVE FALSE
        OBVIOUS
      <4>1. s.side = "entry" /\ p \in OpenStops(r) /\ rows[o].status \notin NonOpen
        BY <1>1, <1>3, <2>1 DEF StopsToCancel
      <4>2. ~Bought(rows)
        <5>1. RowsAgree([rows EXCEPT ![o] = s], ex')
          BY <3>2
        <5> QED BY <1>1, <1>2, <3>1, <4>1, <5>1, FirstEntry
      <4>3. p \in Orders /\ p # o /\ rows[p].side = "stoploss"
        BY <1>1, <2>4, <4>1 DEF OpenStops
      <4> QED BY <4>2, <4>3, RowSold DEF Whole
    <3>7. Tame(StopsFirst(k, stops), trade', rows')
      <4>1. trade' = "open" => stops = {}
        BY <3>6
      <4> HIDE DEF u, stops
      <4> QED BY <1>4, <4>1, StopsTame
    <3>8. Tame(task', trade', rows')
      BY <1>8, <3>7
    <3> HIDE DEF u, stops
    <3> QED BY <1>2, <2>2, <3>5, <3>8 DEF Balanced
  <2> QED BY <2>3, <2>4
<1> QED BY <1>7, <1>8 DEF UpdateTradeState

\* Trade.delete keeps the balance: nothing was bought.
LEMMA DeletedBalanced ==
  ASSUME TradeAssumption, Inv, Whole, Balanced, Inv', Whole', ExchangeRuns(ex, ex'), DeleteTrade
  PROVE  Balanced'
<1>1. /\ ex \in [Orders -> Order] /\ ex' \in [Orders -> Order] /\ rows' \in [Orders -> Order]
      /\ amount' \in Nat
  BY DEF Inv, TypeOK
<1>2. Unsold(ex') >= 0 /\ OneEntry(ex')
  BY <1>1, RunsBalanced DEF Balanced, Whole, Books
<1>3. /\ rows' = [o \in Orders |-> NoOrder] /\ trade' = "deleted" /\ task' = Done
      /\ db' = Committed(rows', trade', amount')
  BY DEF DeleteTrade, Save
<1>4. Recalc(rows') = 0
  <2>1. \A o \in Orders : rows'[o].status = "none"
    BY <1>3 DEF NoOrder
  <2> QED BY <1>1, <2>1, RecalcOfNothing
<1>5. amount' = 0
  <2>1. ~Bought(rows')
    BY <1>3 DEF Bought, SuccessfulEntries, NoOrder
  <2>2. Paid(rows', trade', amount')
    BY DEF Whole, Books
  <2> QED BY <1>1, <2>1, <2>2 DEF Paid
<1>6. db'.amount = amount' /\ \A o \in Orders : Counted(db'.rows[o]) = Counted(rows'[o])
  BY <1>3 DEF Committed
<1>7. Tame(task', trade', rows')
  BY <1>3, IdleTame
<1> QED BY <1>2, <1>3, <1>4, <1>5, <1>6, <1>7 DEF Balanced, AddsUp

\* handle_cancel_enter.
LEMMA CanceledBalanced ==
  ASSUME TradeAssumption, Missing = {}, Inv, Whole, Balanced, Inv', Whole', ExchangeRuns(ex, ex'),
         NEW o \in Orders, NEW s \in Order, Fits(s, rows[o], ex'[o]), ex[o].status # "none",
         NEW repl, NEW k \in Task, CanceledEntry(o, s, repl, k), ~Absent(trade),
         trade = "open" => rows[o].status \notin NonOpen,
         k.at \notin Recording, Tame(k, trade, [rows EXCEPT ![o] = s])
  PROVE  Balanced'
<1>1. \A b \in BOOLEAN : /\ [k EXCEPT !.res = b] \in Task /\ [k EXCEPT !.res = b].at = k.at
                         /\ Tame([k EXCEPT !.res = b], trade, [rows EXCEPT ![o] = s])
  <2> SUFFICES ASSUME NEW b \in BOOLEAN
               PROVE  /\ [k EXCEPT !.res = b] \in Task /\ [k EXCEPT !.res = b].at = k.at
                      /\ Tame([k EXCEPT !.res = b], trade, [rows EXCEPT ![o] = s])
    OBVIOUS
  <2> DEFINE n == [k EXCEPT !.res = b]
  <2>1. /\ n \in Task /\ n.at = k.at /\ n.then = k.then /\ n.after = k.after /\ n.snap = k.snap
        /\ n.todo = k.todo /\ n.stops = k.stops
    BY DEF Task
  <2> HIDE DEF n
  <2>2. Tame(n, trade, [rows EXCEPT ![o] = s])
    BY <2>1 DEF Tame, InLoop
  <2> QED BY <2>1, <2>2 DEF n
<1>2. ASSUME NEW b \in BOOLEAN, UpdateTradeState(o, s, TRUE, [k EXCEPT !.res = b])
      PROVE  Balanced'
  <2>1. PICK n \in Task : n = [k EXCEPT !.res = b]
    BY <1>1
  <2>2. UpdateTradeState(o, s, TRUE, n) /\ n.at \notin Recording /\ Tame(n, trade, [rows EXCEPT ![o] = s])
    BY <1>1, <1>2, <2>1
  <2> QED BY <2>2, UpdateBalanced
<1>3. CASE DeleteTrade
  BY <1>3, DeletedBalanced
<1> QED BY <1>2, <1>3 DEF CanceledEntry

\* create_order, by a handler that knows what it may sell, or buys for the first time.
LEMMA PlacedBalanced ==
  ASSUME TradeAssumption, "canceled" \notin PlacedAs, Inv, Whole, Balanced, Inv', Whole',
         NEW l \in Recording, NEW a \in Nat, Placed(Sides[l], a, At(l)), task.at \notin Recording,
         task.at # "stops",
         IF l = "recordEntry"
         THEN trade = "none" /\ \A o \in Orders : ex[o].status # "none" => Dead(ex[o])
         ELSE Free >= a
  PROVE  Balanced'
<1>1. PICK o \in Orders, s \in {"open"} \cup PlacedAs, f \in 0..a :
        /\ ex[o].status = "none" /\ a > 0
        /\ ex' = [ex EXCEPT ![o] = [side |-> Sides[l], amount |-> a, filled |-> f, status |-> s]]
        /\ task' = [At(l) EXCEPT !.o = o, !.snap = [side |-> Sides[l], amount |-> a, filled |-> f, status |-> s]]
        /\ UNCHANGED <<rows, trade, amount, db>>
  BY DEF Placed
<1> DEFINE new == [side |-> Sides[l], amount |-> a, filled |-> f, status |-> s]
<1>2. /\ ex \in [Orders -> Order] /\ ex' \in [Orders -> Order] /\ task \in Task
      /\ Sides[l] \in {"entry", "exit", "stoploss"} /\ (Sides[l] = "entry" <=> l = "recordEntry")
      /\ ex'[o] = new /\ ex[o] = NoOrder /\ new \in Order
      /\ \A p \in Orders : p # o => ex'[p] = ex[p]
  <2>1. ex \in [Orders -> Order] /\ ex' \in [Orders -> Order] /\ task \in Task
    BY DEF Inv, TypeOK
  <2>2. ex'[o] = new /\ \A p \in Orders : p # o => ex'[p] = ex[p]
    BY <1>1, <2>1
  <2>3. ex[o] = NoOrder
    BY <1>1 DEF Whole, Books, Exchanged
  <2> QED BY <2>1, <2>2, <2>3 DEF Sides, Recording
<1>3. new.side = Sides[l] /\ new.amount = a /\ new.filled = f /\ new.status = s /\ f \in Nat /\ f <= a
  OBVIOUS
<1> HIDE DEF new
<1>4. Worth(ex[o]) <= 0 /\ Worth(ex[o]) >= 0 /\ Worth(ex[o]) \in Int
  BY <1>2 DEF NoOrder, Worth, Signed
<1>5. Unsold(ex') >= 0
  <2> DEFINE v == [p \in Orders |-> Worth(ex[p])]
             w == [p \in Orders |-> Worth(ex'[p])]
  <2>1. \A p \in Orders : v[p] \in Int /\ w[p] \in Int
    BY <1>2, OrderValues
  <2>2. \A p \in Orders : p # o => w[p] = v[p]
    BY <1>2
  <2>3. PICK n \in Int : n = Worth(new)
    BY <1>2, OrderValues
  <2>4. v[o] = 0 /\ w[o] = n
    BY <1>2, <1>4, <2>3
  <2>5. Unsold(ex) = SumFunctionOnSet(v, Orders) /\ Unsold(ex') = SumFunctionOnSet(w, Orders)
        /\ Unsold(ex) \in Int /\ Unsold(ex') \in Int
    BY <1>2, SumsOfOrders
  <2> HIDE DEF v, w
  <2>6. SumFunctionOnSet(w, Orders) = SumFunctionOnSet(v, Orders) + n
    <3>1. w[o] = v[o] + n
      BY <2>4
    <3> QED BY <2>1, <2>2, <3>1, OrdersFinite, SumChanges
  <2>7. CASE l = "recordEntry"
    <3>1. n = f
      BY <1>2, <1>3, <2>3, <2>7 DEF Worth, Signed
    <3> QED BY <1>3, <2>5, <2>6, <3>1 DEF Balanced
  <2>8. CASE l # "recordEntry"
    <3>1. n = -a \/ n = -f
      BY <1>2, <1>3, <2>3, <2>8 DEF Worth, Signed
    <3>2. Unsold(ex) >= a
      BY <1>2, <2>8, FreeIsUnsold
    <3> QED BY <1>3, <2>5, <2>6, <3>1, <3>2
  <2> QED BY <2>7, <2>8
<1>6. OneEntry(ex')
  <2>1. CASE l = "recordEntry"
    <3>1. \A p \in Orders : p # o => Dead(ex'[p]) \/ ex'[p].side # "entry"
      <4> SUFFICES ASSUME NEW p \in Orders, p # o PROVE Dead(ex'[p]) \/ ex'[p].side # "entry"
        OBVIOUS
      <4>1. CASE ex[p].status = "none"
        <5>1. ex[p] = NoOrder
          BY <4>1 DEF Whole, Books, Exchanged
        <5> QED BY <1>2, <5>1 DEF NoOrder
      <4>2. CASE ex[p].status # "none"
        BY <1>2, <2>1, <4>2
      <4> QED BY <4>1, <4>2
    <3> QED BY <3>1 DEF OneEntry
  <2>2. CASE l # "recordEntry"
    BY <1>2, <1>3, <2>2 DEF OneEntry, Balanced
  <2> QED BY <2>1, <2>2
<1>7. Tame(task', trade, rows)
  <2>1. /\ task'.at = l /\ task'.then = task.then /\ task'.after = task.after
        /\ task'.todo = task.todo /\ task'.stops = task.stops /\ task'.snap = new
    BY <1>1, <1>2 DEF At, Task, new
  <2>2. l \notin {"cancel", "stops", "adopt", "placeEntry"}
    BY DEF Recording
  <2>3. s # "canceled"
    BY <1>1
  <2>4. l = "recordEntry" => trade = "none"
    OBVIOUS
  <2> QED BY <1>3, <2>1, <2>2, <2>3, <2>4 DEF Tame, InLoop, Balanced
<1> QED BY <1>1, <1>5, <1>6, <1>7 DEF Balanced
-----------------------------------------------------------------------------
LEMMA GoTame ==
  ASSUME TradeAssumption, Inv, Whole, Balanced, NEW k, JustGo(k), Tame(k, trade, rows)
  PROVE  Balanced'
<1>1. ex' = ex /\ task' = k /\ Bot /\ TypeOK
  BY DEF JustGo, Outside, Inv
<1>2. ex' \in [Orders -> Order] /\ ExchangeRuns(ex, ex')
  BY <1>1, SameRuns
<1> QED BY <1>1, <1>2, GoBalanced

\* A row changes that no loop has still to visit, or stays open.
LEMMA RowTame ==
  ASSUME NEW k \in Task, NEW tr, NEW r \in [Orders -> Order], Tame(k, tr, r),
         NEW o \in Orders, NEW s \in Order, o \notin k.todo \cup k.stops \/ s.status = "open"
  PROVE  Tame(k, tr, [r EXCEPT ![o] = s])
<1> DEFINE q == [r EXCEPT ![o] = s]
<1>1. k.todo \in SUBSET Orders /\ k.stops \in SUBSET Orders
  BY DEF Task
<1>2. q[o] = s /\ \A p \in Orders : p # o => q[p] = r[p]
  OBVIOUS
<1> HIDE DEF q
<1>3. tr = "open" => \A p \in k.todo \cup k.stops : q[p].status = "open"
  BY <1>1, <1>2 DEF Tame
<1>4. Tame(k, tr, q)
  BY <1>3 DEF Tame
<1> QED BY <1>4 DEF q

\* What fetch_order says of an order is applied to its row.
LEMMA FetchBalanced ==
  ASSUME TradeAssumption, Missing = {}, Inv, Whole, Balanced, Inv', Whole', ex' = ex,
         NEW o \in Orders, ex[o].status # "none", NEW sending, NEW k \in Task,
         UpdateTradeState(o, Snapshot(o), sending, k), ~Absent(trade),
         trade = "open" => rows[o].status \notin NonOpen,
         k.at \notin Recording, Tame(k, trade, rows), o \notin k.todo \cup k.stops \/ ex[o].status = "open"
  PROVE  Balanced'
<1>1. PICK s \in Order : s = Snapshot(o)
  BY SnapshotFits DEF Whole
<1>2. Fits(s, rows[o], ex'[o]) /\ s.status = ex[o].status
  BY <1>1, SnapshotFits DEF Whole
<1>3. ExchangeRuns(ex, ex')
  BY SameRuns DEF Inv
<1>4. Tame(k, trade, [rows EXCEPT ![o] = s])
  BY <1>2, RowTame DEF Inv, TypeOK
<1> QED BY <1>1, <1>2, <1>3, <1>4, UpdateBalanced

LEMMA ExitFlowTame ==
  ASSUME Inv, NEW a \in Nat
  PROVE  Tame(ExitFlow(a), trade, rows)
<1> DEFINE k == [[Idle EXCEPT !.size = a, !.mode = task.mode] EXCEPT !.at = "checkAmount"]
<1>1. k \in Task
  <2>1. task.mode \in {"initial", "pos_adjust", "replace"}
    BY DEF Inv, TypeOK, Task
  <2> QED BY <2>1, IdleType, LabelFacts DEF Task
<1>2. /\ k.at = "checkAmount" /\ k.then = "idle" /\ k.after = "idle" /\ k.todo = {} /\ k.stops = {}
  BY DEF Idle
<1>3. ExitFlow(a) = StopsFirst(k, OpenStops(rows))
  BY DEF ExitFlow
<1> HIDE DEF k
<1>4. Tame(k, trade, rows) /\ k.at \notin Recording
  BY <1>2 DEF Tame, InLoop, Recording
<1>5. OpenStops(rows) \cap k.todo = {} /\ \A p \in OpenStops(rows) : rows[p].status = "open"
  BY <1>2 DEF OpenStops
<1> QED BY <1>1, <1>3, <1>4, <1>5, StopsTame

\* Handle the open orders again, one by one.
LEMMA RefindTame ==
  ASSUME TRUE
  PROVE  Tame([Idle EXCEPT !.at = "refind", !.todo = Open(rows)], trade, rows)
  BY DEF Tame, Idle, InLoop, Recording, Open

LEMMA MarketBalanced ==
  ASSUME TradeAssumption, Inv, Whole, Balanced, Inv', Market
  PROVE  Balanced'
<1>0. PICK o \in Orders : ExchangeCancel(o) \/ \E n \in 1..ex[o].amount : Fill(o, n)
  BY DEF Market
<1>1. /\ ex \in [Orders -> Order] /\ ex' \in [Orders -> Order] /\ TypeOK
      /\ ex[o].filled \in Nat /\ ex[o].amount \in Nat
  BY OrderValues DEF Inv, TypeOK
<1>2. Bot /\ task' = task
  BY <1>0 DEF ExchangeCancel, Fill, Bot
<1>3. CASE ExchangeCancel(o)
  <2>1. ExchangeRuns(ex, ex')
    BY <1>1, <1>3, CancelRuns DEF ExchangeCancel
  <2> QED BY <1>1, <1>2, <2>1, GoBalanced DEF Balanced
<1>4. ASSUME NEW n \in 1..ex[o].amount, Fill(o, n) PROVE Balanced'
  <2>1. ex[o].status = "open" /\ n \in 1..(ex[o].amount - ex[o].filled)
        /\ ex' = [ex EXCEPT ![o].filled = @ + n,
                            ![o].status = IF ex[o].filled + n = ex[o].amount
                                          THEN "closed" ELSE "open"]
    BY <1>4 DEF Fill
  <2>2. /\ ex'[o].side = ex[o].side /\ ex'[o].amount = ex[o].amount
        /\ ex'[o].filled = ex[o].filled + n /\ ex'[o].status \in {"open", "closed"}
        /\ \A p \in Orders : p # o => ex'[p] = ex[p]
    BY <1>1, <2>1 DEF Order
  <2>3. ex[o].filled <= ex'[o].filled
    BY <1>1, <2>1, <2>2
  <2>4. \A p \in Orders : ex[p].filled <= ex[p].filled
    BY <1>1, OrderValues
  <2>5. ExchangeRuns(ex, ex')
    BY <2>1, <2>2, <2>3, <2>4 DEF ExchangeRuns, ExchangeGoes
  <2> QED BY <1>1, <1>2, <2>5, GoBalanced DEF Balanced
<1> QED BY <1>0, <1>3, <1>4

LEMMA EntryBalanced ==
  ASSUME TradeAssumption, Missing = {}, ~PositionAdjustment, "canceled" \notin PlacedAs, unknown = {},
         Inv, Whole, Balanced, Inv', Whole', CreateTrade \/ AdjustEntry \/ PlaceEntry \/ RefuseEntry
  PROVE  Balanced'
<1>1. CASE CreateTrade
  <2>1. task.at = "idle" /\ trade = "none" /\ Placed("entry", Stake, At("recordEntry"))
    BY <1>1, IdleFacts DEF CreateTrade, At
  <2>2. Sides["recordEntry"] = "entry" /\ "recordEntry" \in Recording /\ task.at \notin Recording
    BY <2>1 DEF Sides, Recording
  <2>3. \A o \in Orders : ex[o].status # "none" => Dead(ex[o])
    BY <2>1, <2>2 DEF Whole, Gone, Absent, RowOrDead
  <2>4. Stake \in Nat /\ task.at # "stops"
    BY <2>1 DEF TradeAssumption
  <2> QED BY <2>1, <2>2, <2>3, <2>4, PlacedBalanced
<1>2. task.at # "placeEntry"
  BY DEF Balanced, Tame
<1> QED BY <1>1, <1>2 DEF AdjustEntry, PlaceEntry, RefuseEntry

\* Nothing can be done about a trade that is not there, but record its first order.
LEMMA TradeThere ==
  ASSUME Whole, task.at \notin {"commit", "idle", "startup", "recordEntry"}
  PROVE  ~Absent(trade)
  BY DEF Whole, Gone, Rest

\* The order that is being recorded: no row, and no part of the balance yet.
LEMMA RecordEntryBalanced ==
  ASSUME TradeAssumption, Missing = {}, ~AdjustOrderPrice, Inv, Whole, Balanced, Inv', Whole', RecordEntry
  PROVE  Balanced'
<1> DEFINE o == task.o
           s == task.snap
           r == [rows EXCEPT ![o] = s]
<1>1. /\ task.at = "recordEntry" /\ task.at \in Recording /\ trade = "none" /\ s.status # "canceled"
      /\ ex' = ex /\ rows \in [Orders -> Order] /\ ex \in [Orders -> Order] /\ amount \in Nat
      /\ task.mode # "replace"
  BY DEF RecordEntry, Recording, Balanced, Tame, Outside, Inv, TypeOK, TaskOK
<1>2. /\ o \in Orders /\ s \in Order /\ ex[o].status # "none" /\ rows[o].status = "none"
      /\ Fits(s, rows[o], ex[o]) /\ s.side = "entry"
  BY <1>1, RecordFacts DEF Sides
<1>3. \A p \in Orders : rows[p].status = "none" /\ db.rows[p].status = "none"
  BY <1>1 DEF Whole, Gone, Absent
<1>4. Recalc(rows) = 0 /\ amount = 0 /\ ~Bought(rows)
  <2>1. Recalc(rows) = 0
    BY <1>1, <1>3, RecalcOfNothing
  <2>2. amount = 0
    BY <1>1, <2>1 DEF Balanced, AddsUp
  <2>3. ~Bought(rows)
    BY <1>3 DEF Bought, SuccessfulEntries, NonOpen
  <2> QED BY <2>1, <2>2, <2>3
<1>5. ExchangeRuns(ex, ex') /\ ex' \in [Orders -> Order]
  BY <1>1, SameRuns DEF Inv
<1>6. Unsold(ex') >= 0 /\ OneEntry(ex')
  BY <1>1 DEF Balanced
<1>7. CASE task' = Done /\ Bot
  <2>1. Tame(task', trade, rows)
    BY <1>7, IdleTame
  <2> QED BY <1>5, <1>7, <2>1, GoBalanced
<1>8. CASE /\ s.status = "open"
           /\ Save(r, "open", Recalculated(rows, amount)) /\ task' = Done
  <2>1. /\ rows' = r /\ trade' = "open" /\ amount' = 0 /\ db' = Committed(r, "open", 0)
    BY <1>4, <1>8 DEF Save, Recalculated
  <2>2. Recalc(r) = 0
    <3>1. Counted(s) = 0 /\ Counted(rows[o]) = 0
      BY <1>1, <1>2, <1>8, CountsNothing DEF NonOpen
    <3>2. Recalc(r) = Recalc(rows) + (Counted(s) - Counted(rows[o]))
      BY <1>1, <1>2, RecalcChanges
    <3> QED BY <1>4, <3>1, <3>2
  <2>3. db'.amount = amount' /\ \A p \in Orders : Counted(db'.rows[p]) = Counted(rows'[p])
    BY <2>1 DEF Committed
  <2>4. Tame(task', trade', rows')
    BY <1>8, IdleTame
  <2> HIDE DEF r
  <2> QED BY <1>6, <2>1, <2>2, <2>3, <2>4 DEF Balanced, AddsUp
<1>9. ASSUME s.status \in NonOpen, s.filled > 0,
             NEW u, u = Updated(rows, "open", amount, o, s, TRUE),
             Save(u.rows, u.trade, u.amount), NEW stops, task' = StopsFirst(Done, stops),
             stops = StopsToCancel(u, s, TRUE)
      PROVE  Balanced'
  <2>1. u.rows = r /\ rows' = r /\ trade' = u.trade /\ amount' = u.amount
        /\ db' = Committed(rows', trade', amount')
    BY <1>9 DEF Save, Updated
  <2>2. r \in [Orders -> Order] /\ r[o] = s
    BY <1>1, <1>2
  <2>3. Bought(r)
    BY <1>2, <1>9, <2>2 DEF Bought, SuccessfulEntries
  <2>4. RowsAgree(r, ex) /\ Exchanged(ex)
    BY <1>1, <2>1 DEF Whole, Books
  <2>5. AddsUp(rows, "open", amount) /\ Paid(rows, "open", amount)
    BY <1>4 DEF AddsUp, Paid
  <2>6. s.filled # 0 /\ rows[o].status \notin NonOpen /\ Solvent(ex)
    BY <1>2, <1>9, <2>4 DEF NonOpen, Balanced, Solvent
  <2>7. AddsUp(u.rows, u.trade, u.amount)
    <3>1. PICK q \in [Orders -> Order] : q = rows
      BY <1>1
    <3>2. PICK e \in [Orders -> Order] : e = ex
      BY <1>1
    <3>3. PICK a \in Nat : a = amount
      BY <1>1
    <3>4. PICK x \in Order : x = s
      BY <1>2
    <3>5. PICK p \in Orders : p = o
      BY <1>2
    <3>6. /\ RowsAgree([q EXCEPT ![p] = x], e) /\ Solvent(e) /\ x.status \in NonOpen /\ x.filled # 0
          /\ Bought([q EXCEPT ![p] = x]) /\ AddsUp(q, "open", a) /\ Paid(q, "open", a)
          /\ q[p].status \notin NonOpen
          /\ u = Updated(q, "open", a, p, x, TRUE)
      BY <1>9, <2>3, <2>4, <2>5, <2>6, <3>1, <3>2, <3>3, <3>4, <3>5
    <3> HIDE DEF o, s, r
    <3> QED BY <3>6, UpdatedBalance
  <2>8. AddsUp(rows', trade', amount')
    BY <2>1, <2>7
  <2>9. stops = {}
    <3> SUFFICES ASSUME NEW p \in OpenStops(r) PROVE FALSE
      BY <1>9, <2>1 DEF StopsToCancel
    <3>1. p \in Orders /\ r[p].status = "open" /\ r[p].side = "stoploss"
      BY DEF OpenStops
    <3> QED BY <1>2, <1>3, <2>2, <3>1, <1>1
  <2>10. task' = Done
    BY <1>9, <2>9 DEF StopsFirst
  <2>11. Tame(task', trade', rows')
    BY <2>10, IdleTame
  <2>12. db'.amount = amount' /\ \A p \in Orders : Counted(db'.rows[p]) = Counted(rows'[p])
    BY <2>1 DEF Committed
  <2> QED BY <1>6, <2>8, <2>11, <2>12 DEF Balanced
<1>10. \/ task' = Done /\ Bot
       \/ s.status = "open" /\ Save(r, "open", Recalculated(rows, amount)) /\ task' = Done
       \/ /\ s.status \in NonOpen /\ s.filled > 0
          /\ LET u == Updated(rows, "open", amount, o, s, TRUE)
             IN /\ Save(u.rows, u.trade, u.amount)
                /\ task' = StopsFirst(Done, StopsToCancel(u, s, TRUE))
  BY <1>1 DEF RecordEntry
<1> QED BY <1>7, <1>8, <1>9, <1>10

LEMMA RecordExitBalanced ==
  ASSUME TradeAssumption, Missing = {}, Inv, Whole, Balanced, Inv', Whole', RecordExit
  PROVE  Balanced'
<1> DEFINE o == task.o
           s == task.snap
<1>1. /\ task.at = "recordExit" /\ task.at \in Recording /\ s.status # "canceled"
      /\ ex' = ex /\ rows \in [Orders -> Order] /\ Done \in Task
  BY IdleType DEF RecordExit, Recording, Balanced, Tame, Outside, Inv, TypeOK
<1>2. /\ o \in Orders /\ s \in Order /\ ex[o].status # "none" /\ rows[o].status = "none"
      /\ Fits(s, rows[o], ex[o])
  BY <1>1, RecordFacts
<1>3. ExchangeRuns(ex, ex') /\ ~Absent(trade)
  BY <1>1, SameRuns, TradeThere DEF Inv
<1>4. Tame(Done, trade, [rows EXCEPT ![o] = s]) /\ Done.at \notin Recording
  BY IdleTame DEF Done, Idle, Recording
<1>5. CASE UpdateTradeState(o, s, TRUE, Done)
  <2>1. rows[o].status \notin NonOpen /\ Fits(s, rows[o], ex'[o])
    BY <1>1, <1>2 DEF NonOpen
  <2> HIDE DEF o, s
  <2> QED BY <1>1, <1>2, <1>3, <1>4, <1>5, <2>1, UpdateBalanced
<1>6. CASE /\ s.status \notin {"closed", "expired"}
           /\ Save([rows EXCEPT ![o] = s], trade, amount) /\ task' = Done
  <2>1. s.status = "open"
    BY <1>1, <1>2, <1>6 DEF Order, NonOpen, Fits
  <2>2. Counted(s) = 0 /\ Counted(rows[o]) = 0
    BY <1>1, <1>2, <2>1, CountsNothing DEF NonOpen
  <2>3. Recalc([rows EXCEPT ![o] = s]) = Recalc(rows)
    <3>1. Recalc([rows EXCEPT ![o] = s]) = Recalc(rows) + (Counted(s) - Counted(rows[o]))
      BY <1>1, <1>2, RecalcChanges
    <3>2. Recalc(rows) \in Int
      BY <1>1, SumsOfOrders
    <3> QED BY <2>2, <3>1, <3>2
  <2>4. /\ rows' = [rows EXCEPT ![o] = s] /\ trade' = trade /\ amount' = amount
        /\ db' = Committed(rows', trade', amount')
    BY <1>6 DEF Save
  <2>5. db'.amount = amount' /\ \A p \in Orders : Counted(db'.rows[p]) = Counted(rows'[p])
    BY <2>4 DEF Committed
  <2>6. AddsUp(rows', trade', amount') /\ Tame(task', trade', rows')
    BY <1>4, <1>6, <2>3, <2>4 DEF Balanced, AddsUp
  <2>7. Unsold(ex') >= 0 /\ OneEntry(ex')
    BY <1>1 DEF Balanced
  <2> QED BY <2>5, <2>6, <2>7 DEF Balanced
<1> QED BY <1>5, <1>6 DEF RecordExit

LEMMA RecordStopBalanced ==
  ASSUME TradeAssumption, Inv, Whole, Balanced, RecordStop
  PROVE  Balanced'
<1> DEFINE o == task.o
           s == task.snap
<1>1. /\ task.at = "recordStop" /\ task.at \in Recording /\ ex' = ex /\ rows \in [Orders -> Order]
      /\ rows' = [rows EXCEPT ![o] = s] /\ task' = Done /\ UNCHANGED <<trade, amount, db>>
  BY DEF RecordStop, Recording, Outside, Inv, TypeOK
<1>2. /\ o \in Orders /\ s \in Order /\ rows[o].status = "none" /\ rows[o] \in Order
      /\ s.status = "open"
  BY <1>1, RecordFacts DEF Whole, Locals
<1>3. Counted(s) = 0 /\ Counted(rows[o]) = 0
  BY <1>2, CountsNothing DEF NonOpen
<1>4. rows' \in [Orders -> Order] /\ \A p \in Orders : Counted(rows'[p]) = Counted(rows[p])
  BY <1>1, <1>2, <1>3
<1>5. Recalc(rows') = Recalc(rows)
  BY <1>1, <1>4, RecalcSame
<1>6. Tame(task', trade', rows')
  BY <1>1, IdleTame
<1>7. db'.amount = amount' /\ \A p \in Orders : Counted(db'.rows[p]) = Counted(rows'[p])
  BY <1>1, <1>4 DEF Balanced
<1>8. AddsUp(rows', trade', amount')
  BY <1>1, <1>5 DEF Balanced, AddsUp
<1>9. Unsold(ex') >= 0 /\ OneEntry(ex')
  BY <1>1 DEF Balanced
<1> HIDE DEF o, s
<1> QED BY <1>6, <1>7, <1>8, <1>9 DEF Balanced
-----------------------------------------------------------------------------
\* Back from a cancel, whatever it says.
LEMMA BackTame ==
  ASSUME Inv, Whole, Balanced, task.at = "cancel", NEW b \in {TRUE, FALSE}, NEW k \in {Return(b), At(task.then)}
  PROVE  /\ k \in Task /\ k.at \notin Recording /\ Tame(k, trade, rows)
         /\ task.o \in Orders /\ task.o \notin k.todo \cup k.stops
         /\ task.o \notin task.todo \cup task.stops
<1>1. /\ task \in Task /\ task.then \in Returns /\ task.o \in Orders /\ task.o \notin task.todo
  BY DEF Inv, TypeOK, TaskOK, Whole, Locals
<1>2. task.stops = {} /\ task.after # "placeEntry" /\ task.then # "adopt"
  BY DEF Balanced, Tame, InLoop
<1>3. /\ k.at = task.then /\ k.then = task.then /\ k.after = task.after /\ k.todo = task.todo
      /\ k.stops = task.stops
  BY <1>1 DEF Return, At, Task
<1>4. k \in Task /\ k.at \notin {"cancel"} \cup Recording
  BY Back
<1>5. k.at \notin {"placeEntry", "adopt", "cancel", "stops"}
  BY <1>1, <1>2, <1>3 DEF Returns
<1>6. Tame(k, trade, rows)
  <2>1. Tame(task, trade, rows)
    BY DEF Balanced
  <2>2. trade = "open" => /\ k.todo \cap k.stops = {}
                          /\ \A p \in k.todo \cup k.stops : rows[p].status = "open"
    BY <1>3, <2>1 DEF Tame
  <2>3. ~InLoop(k, "adopt") /\ k.after # "placeEntry" /\ k.stops = {} /\ k.at # "recordEntry"
    BY <1>2, <1>3, <1>4, <1>5 DEF InLoop, Recording
  <2> QED BY <1>4, <1>5, <2>2, <2>3 DEF Tame
<1>7. task.o \notin k.todo \cup k.stops /\ task.o \notin task.todo \cup task.stops
  BY <1>1, <1>2, <1>3
<1>8. k.at \notin Recording
  BY <1>4
<1> QED BY <1>1, <1>4, <1>6, <1>7, <1>8

\* The cancel handlers apply the order dict they have to the row, which is open.
LEMMA AppliedBalanced ==
  ASSUME TradeAssumption, Missing = {}, Inv, Whole, Balanced, Inv', Whole', task.at = "cancel",
         ExchangeRuns(ex, ex'), NEW s \in Order, Fits(s, rows[task.o], ex'[task.o]),
         NEW b \in {TRUE, FALSE}, NEW k \in {Return(b), At(task.then)}, NEW repl,
         UpdateTradeState(task.o, s, TRUE, k) \/ CanceledEntry(task.o, s, repl, k)
  PROVE  Balanced'
<1>1. /\ k \in Task /\ k.at \notin Recording /\ Tame(k, trade, rows)
      /\ task.o \in Orders /\ task.o \notin k.todo \cup k.stops /\ rows \in [Orders -> Order]
  BY BackTame DEF Inv, TypeOK
<1>2. ~Absent(trade) /\ ex[task.o].status # "none" /\ rows[task.o].status = "open"
  BY TradeThere DEF Inv, TaskOK, Whole, Locals
<1>3. PICK o \in Orders : o = task.o
  BY <1>1
<1>4. /\ Tame(k, trade, [rows EXCEPT ![o] = s]) /\ Fits(s, rows[o], ex'[o]) /\ ex[o].status # "none"
      /\ rows[o].status \notin NonOpen
  BY <1>1, <1>2, <1>3, RowTame DEF NonOpen
<1>5. UpdateTradeState(o, s, TRUE, k) \/ CanceledEntry(o, s, repl, k)
  BY <1>3
<1>6. CASE UpdateTradeState(o, s, TRUE, k)
  BY <1>1, <1>2, <1>4, <1>6, UpdateBalanced
<1>7. CASE CanceledEntry(o, s, repl, k)
  BY <1>1, <1>2, <1>4, <1>7, CanceledBalanced
<1> QED BY <1>5, <1>6, <1>7

LEMMA CancelBalanced ==
  ASSUME TradeAssumption, Missing = {}, Inv, Whole, Balanced, Inv', Whole',
         RefuseCancel \/ AlreadyCanceled \/ CancelOrder
  PROVE  Balanced'
<1> DEFINE o == task.o
<1>1. /\ task.at = "cancel" /\ o \in Orders /\ rows[o].status = "open" /\ ex[o].status # "none"
      /\ Books /\ TypeOK /\ task.snap \in Order /\ Fits(task.snap, rows[o], ex[o])
  BY DEF RefuseCancel, AlreadyCanceled, CancelOrder, Inv, TypeOK, TaskOK, Task, Whole, Locals
<1>2. /\ Return(TRUE) \in {Return(TRUE), At(task.then)} /\ At(task.then) \in {Return(TRUE), At(task.then)}
      /\ Return(FALSE) \in {Return(FALSE), At(task.then)}
  OBVIOUS
<1>3. ExchangeRuns(ex, ex) /\ ex \in [Orders -> Order]
  BY <1>1, SameRuns
<1>4. CASE RefuseCancel
  <2>1. JustGo(Return(FALSE)) /\ Tame(Return(FALSE), trade, rows)
    BY <1>1, <1>4, BackTame DEF RefuseCancel
  <2> QED BY <2>1, GoTame
<1>5. CASE AlreadyCanceled
  <2>1. ex' = ex
    BY <1>5 DEF AlreadyCanceled, Outside
  <2>2. \/ UpdateTradeState(task.o, task.snap, TRUE, Return(FALSE))
        \/ CanceledEntry(task.o, task.snap, task.repl, At(task.then))
    BY <1>5 DEF AlreadyCanceled
  <2>3. ExchangeRuns(ex, ex') /\ Fits(task.snap, rows[task.o], ex'[task.o])
    BY <1>1, <1>3, <2>1
  <2>4. CASE UpdateTradeState(task.o, task.snap, TRUE, Return(FALSE))
    BY <1>1, <1>2, <2>3, <2>4, AppliedBalanced
  <2>5. CASE CanceledEntry(task.o, task.snap, task.repl, At(task.then))
    BY <1>1, <1>2, <2>3, <2>5, AppliedBalanced
  <2> QED BY <2>2, <2>4, <2>5
<1>6. ASSUME NEW s \in Order, Fits(s, rows[o], ex'[o]), ex' \in [Orders -> Order], ExchangeRuns(ex, ex'),
             HandleCanceled(o, s)
      PROVE  Balanced'
  <2>1. CASE UpdateTradeState(task.o, s, TRUE, Return(TRUE))
    BY <1>1, <1>2, <1>6, <2>1, AppliedBalanced
  <2>2. CASE CanceledEntry(task.o, s, task.repl, At(task.then))
    BY <1>1, <1>2, <1>6, <2>2, AppliedBalanced
  <2>3. CASE task' = Return(FALSE) /\ Bot
    <3>1. Tame(task', trade, rows)
      BY <1>1, <2>3, BackTame
    <3> QED BY <1>6, <2>3, <3>1, GoBalanced
  <2> QED BY <1>6, <2>1, <2>2, <2>3 DEF HandleCanceled
<1>7. CASE CancelOrder
  <2>1. CASE ex' = CancelOnExchange(o) /\ HandleCanceled(o, [ex'[o] EXCEPT !.side = rows[o].side])
    <3>1. ex' \in [Orders -> Order] /\ ExchangeRuns(ex, ex') /\ ex'[o].status # "open"
      BY <1>1, <2>1, CancelRuns
    <3>2. ExchangeGoes(ex, ex')
      BY <3>1 DEF ExchangeRuns
    <3>3. rows[o].side \in {"entry", "exit", "stoploss"} /\ (rows[o].side = "entry" <=> ex[o].side = "entry")
      BY <1>1, RowSide
    <3>4. /\ [ex'[o] EXCEPT !.side = rows[o].side] \in Order
          /\ Fits([ex'[o] EXCEPT !.side = rows[o].side], rows[o], ex'[o])
      <4> HIDE DEF o
      <4> QED BY <1>1, <3>1, <3>2, <3>3, LatestFits
    <3> QED BY <1>6, <2>1, <3>1, <3>4
  <2>2. CASE ex' = ex /\ HandleCanceled(o, Snapshot(o))
    <3>1. Snapshot(o) \in Order /\ Fits(Snapshot(o), rows[o], ex'[o])
      BY <1>1, <2>2, SnapshotFits
    <3> QED BY <1>3, <1>6, <2>2, <3>1
  <2> QED BY <1>7, <2>1, <2>2 DEF CancelOrder
<1> QED BY <1>4, <1>5, <1>7

\* An open order becomes the one the handler is about.
LEMMA ToCancelTame ==
  ASSUME Inv, Whole, Balanced, NEW k, k.at = "cancel", k.after = task.after, k.stops = task.stops,
         task.at # "stops", k.then \notin {"adopt"}, k.todo \subseteq task.todo
  PROVE  Tame(k, trade, rows)
<1>1. task.stops = {}
  BY DEF Balanced, Tame
<1>2. ~InLoop(k, "adopt") /\ k.at \notin Recording
  BY DEF InLoop, Recording
<1> QED BY <1>1, <1>2 DEF Tame, Balanced

LEMMA ManageOpenOrderBalanced ==
  ASSUME TradeAssumption, Missing = {}, ~AdjustOrderPrice, Inv, Whole, Balanced, Inv', Whole',
         NEW o \in Orders, ManageOpenOrder(o)
  PROVE  Balanced'
<1> DEFINE s == Snapshot(o)
           k == [[task EXCEPT !.o = o, !.snap = s, !.at = "cancel"] EXCEPT !.then = "managed"]
<1>1. /\ task = Idle /\ trade = "open" /\ rows[o].status = "open" /\ ex' = ex /\ TypeOK /\ Books
      /\ ~Absent(trade) /\ rows[o].status \notin NonOpen
  BY DEF ManageOpenOrder, OpenOrders, Outside, Inv, Whole, Absent, NonOpen
<1>2. /\ task.at = "idle" /\ task.then = "idle" /\ task.after = "idle" /\ task.todo = {} /\ task.stops = {}
  BY <1>1, IdleFacts
<1>3. ex[o].status # "none"
  BY <1>1 DEF Inv, NeverAhead
<1>4. s \in Order /\ s.status = ex[o].status
  BY <1>1, SnapshotFacts
<1>5. /\ k \in Task /\ k.at = "cancel" /\ k.then = "managed" /\ k.after = "idle" /\ k.todo = {} /\ k.stops = {}
  <2>1. task \in Task
    BY <1>1 DEF TypeOK
  <2>2. [task EXCEPT !.o = o, !.snap = s, !.at = "cancel"] \in Task
    BY <1>4, <2>1, LabelFacts DEF Task
  <2>3. k \in Task
    BY <2>2, LabelFacts DEF Task
  <2> QED BY <1>2, <2>1, <2>3 DEF Task
<1>6. Done \in Task /\ Done.at \notin Recording /\ Tame(Done, trade, rows) /\ Done.todo \cup Done.stops = {}
  BY IdleType, IdleTame DEF Done, Idle, Recording
<1>7. k.at \notin Recording /\ Tame(k, trade, rows) /\ k.todo \cup k.stops = {}
  <2> HIDE DEF k
  <2> QED BY <1>2, <1>5, ToCancelTame DEF Recording
<1>8. Fits(s, rows[o], ex'[o]) /\ ExchangeRuns(ex, ex') /\ rows \in [Orders -> Order]
  BY <1>1, <1>3, SameRuns, SnapshotFits DEF TypeOK
<1>9. \/ UpdateTradeState(o, s, TRUE, Done)
      \/ UpdateTradeState(o, s, TRUE, k)
      \/ CanceledEntry(o, s, FALSE, Done)
  BY DEF ManageOpenOrder
<1> HIDE DEF k, s
<1>10. CASE UpdateTradeState(o, s, TRUE, Done)
  <2>1. Tame(Done, trade, [rows EXCEPT ![o] = s])
    BY IdleTame
  <2> QED BY <1>1, <1>3, <1>4, <1>6, <1>8, <1>10, <2>1, UpdateBalanced
<1>11. CASE UpdateTradeState(o, s, TRUE, k)
  <2>1. Tame(k, trade, [rows EXCEPT ![o] = s])
    BY <1>4, <1>5, <1>7, <1>8, RowTame
  <2> QED BY <1>1, <1>3, <1>4, <1>5, <1>7, <1>8, <1>11, <2>1, UpdateBalanced
<1>12. CASE CanceledEntry(o, s, FALSE, Done)
  <2>1. Tame(Done, trade, [rows EXCEPT ![o] = s])
    BY IdleTame
  <2> QED BY <1>1, <1>3, <1>4, <1>6, <1>8, <1>12, <2>1, CanceledBalanced
<1> QED BY <1>9, <1>10, <1>11, <1>12

LEMMA DoneBalanced ==
  ASSUME TradeAssumption, Inv, Whole, Balanced, JustGo(Done)
  PROVE  Balanced'
  BY IdleTame, GoTame

LEMMA ExitFlowBalanced ==
  ASSUME TradeAssumption, Inv, Whole, Balanced, NEW a \in Nat, JustGo(ExitFlow(a))
  PROVE  Balanced'
  BY ExitFlowTame, GoTame

\* A loop over the open orders starts, or goes on with one order less.
LEMMA LoopTame ==
  ASSUME Balanced, task.at # "stops", NEW k, k.stops = task.stops, k.at \notin {"placeEntry", "adopt", "cancel", "stops"},
         k.at \notin Recording, k.after # "placeEntry",
         k.todo \subseteq task.todo \/ k.todo \subseteq Open(rows)
  PROVE  Tame(k, trade, rows)
<1>1. Tame(task, trade, rows)
  BY DEF Balanced
<1>2. k.stops = {} /\ ~InLoop(k, "adopt") /\ k.at # "recordEntry"
  BY <1>1 DEF Tame, InLoop, Recording
<1>3. trade = "open" => \A p \in k.todo : rows[p].status = "open"
  BY <1>1 DEF Tame, Open
<1>4. trade = "open" => k.todo \cap k.stops = {} /\ \A p \in k.todo \cup k.stops : rows[p].status = "open"
  BY <1>2, <1>3
<1> QED BY <1>2, <1>4 DEF Tame

LEMMA LoopBalanced ==
  ASSUME TradeAssumption, Missing = {}, ~AdjustOrderPrice, Inv, Whole, Balanced,
         \/ Managed \/ Replaced \/ CancelledOpen \/ CancelAllOpenOrders
         \/ \E o \in Orders : CancelNextOpen(o) \/ RpcCancelOpenOrder(o)
  PROVE  Balanced'
<1>1. /\ task \in Task /\ task.at # "replaced" /\ TypeOK /\ OpenOrders(rows) \subseteq Open(rows)
      /\ task.after \in LoopReturns \ {"placeEntry"} /\ (task.at = "managed" => task.o \in Orders)
      /\ task.then \in Returns
  BY DEF Inv, TypeOK, TaskOK, OpenOrders, Open, Balanced, Tame
<1>2. CASE Managed
  <2>1. Remaining(task.o) \in Nat
    BY <1>1, <1>2, RemainingType DEF Managed
  <2>2. JustGo(ExitFlow(Remaining(task.o))) \/ JustGo(Done)
    BY <1>2 DEF Managed
  <2> QED BY <2>1, <2>2, DoneBalanced, ExitFlowBalanced
<1>3. CASE CancelledOpen
  <2> DEFINE k == At(task.after)
  <2>1. /\ task.at = "cancelOpen" /\ JustGo(k) /\ k.stops = task.stops /\ k.at = task.after
        /\ k.after = task.after /\ k.todo = task.todo
    BY <1>1, <1>3 DEF CancelledOpen, At, Task
  <2>2. k.at \notin {"placeEntry", "adopt", "cancel", "stops"} /\ k.at \notin Recording
    BY <1>1, <2>1 DEF LoopReturns, Recording
  <2> HIDE DEF k
  <2>3. Tame(k, trade, rows)
    BY <1>1, <2>1, <2>2, LoopTame
  <2> QED BY <2>1, <2>3, GoTame
<1>4. CASE CancelAllOpenOrders
  <2> DEFINE k == [task EXCEPT !.at = "cancelOpen", !.after = "commit", !.todo = OpenOrders(rows)]
  <2>1. /\ task = Idle /\ JustGo(k) /\ k.stops = task.stops /\ k.at = "cancelOpen"
        /\ k.after = "commit" /\ k.todo = OpenOrders(rows)
    BY <1>1, <1>4 DEF CancelAllOpenOrders, Task
  <2>2. task.at # "stops" /\ k.at \notin Recording
    BY <2>1, IdleFacts DEF Recording
  <2> HIDE DEF k
  <2>3. Tame(k, trade, rows)
    BY <1>1, <2>1, <2>2, LoopTame
  <2> QED BY <2>1, <2>3, GoTame
<1>5. ASSUME NEW o \in Orders, CancelNextOpen(o) PROVE Balanced'
  <2> DEFINE rest == [task EXCEPT !.todo = task.todo \ {o}]
             k == [rest EXCEPT !.at = "cancel", !.then = "cancelOpen", !.o = o, !.snap = Snapshot(o)]
  <2>1. /\ task.at = "cancelOpen" /\ JustGo(k) /\ k.stops = task.stops /\ k.at = "cancel"
        /\ k.then = "cancelOpen" /\ k.after = task.after /\ k.todo = task.todo \ {o}
    BY <1>1, <1>5 DEF CancelNextOpen, Found, Task
  <2> HIDE DEF k
  <2>2. Tame(k, trade, rows)
    BY <2>1, ToCancelTame
  <2> QED BY <2>1, <2>2, GoTame
<1>6. ASSUME NEW o \in Orders, RpcCancelOpenOrder(o) PROVE Balanced'
  <2> DEFINE k == [task EXCEPT !.at = "cancel", !.then = "managed", !.o = o, !.snap = Snapshot(o)]
  <2>1. /\ task = Idle /\ JustGo(k) /\ k.stops = task.stops /\ k.at = "cancel"
        /\ k.then = "managed" /\ k.after = task.after /\ k.todo = task.todo
    BY <1>1, <1>6 DEF RpcCancelOpenOrder, Task
  <2>2. task.at # "stops"
    BY <2>1, IdleFacts
  <2> HIDE DEF k
  <2>3. Tame(k, trade, rows)
    BY <2>1, <2>2, ToCancelTame
  <2> QED BY <2>1, <2>3, GoTame
<1> QED BY <1>1, <1>2, <1>3, <1>4, <1>5, <1>6 DEF Replaced

LEMMA BeginExitBalanced ==
  ASSUME TradeAssumption, Inv, Whole, Balanced, ExitSignal \/ AdjustExit \/ ForceExit \/ ForceExitNow
  PROVE  Balanced'
<1>1. task \in Task /\ amount \in Nat
  BY DEF Inv, TypeOK
<1>2. CASE ExitSignal
  BY <1>2, ExitFlowBalanced DEF ExitSignal
<1>3. CASE AdjustExit
  <2>1. PICK a \in 1..amount : JustGo(ExitFlow(a))
    BY <1>3 DEF AdjustExit
  <2> QED BY <1>1, <2>1, ExitFlowBalanced
<1>4. CASE ForceExit
  <2> DEFINE k == [task EXCEPT !.at = "force", !.todo = OpenOrders(rows)]
  <2>1. /\ task = Idle /\ JustGo(k) /\ k.stops = task.stops /\ k.at = "force"
        /\ k.after = task.after /\ k.todo = OpenOrders(rows)
    BY <1>1, <1>4 DEF ForceExit, Task
  <2>2. task.at # "stops" /\ k.at \notin Recording /\ k.after # "placeEntry" /\ k.todo \subseteq Open(rows)
    BY <2>1, IdleFacts DEF Recording, OpenOrders, Open
  <2> HIDE DEF k
  <2>3. Tame(k, trade, rows)
    BY <2>1, <2>2, LoopTame
  <2> QED BY <2>1, <2>3, GoTame
<1>5. CASE ForceExitNow
  <2>1. JustGo(Done) \/ JustGo(ExitFlow(0))
    BY <1>5 DEF ForceExitNow
  <2> QED BY <2>1, DoneBalanced, ExitFlowBalanced
<1> QED BY <1>2, <1>3, <1>4, <1>5

LEMMA ForceNextBalanced ==
  ASSUME TradeAssumption, Missing = {}, Inv, Whole, Balanced, NEW o \in Orders, ForceNext(o)
  PROVE  Balanced'
<1> DEFINE k == [task EXCEPT !.at = "cancel", !.then = "force", !.o = o, !.todo = task.todo \ {o},
                             !.seen = task.seen \cup (IF task.res THEN {task.o} ELSE {}),
                             !.snap = Snapshot(o)]
<1>1. task \in Task
  BY DEF Inv, TypeOK
<1>2. /\ task.at = "force" /\ JustGo(k) /\ k.stops = task.stops /\ k.at = "cancel"
      /\ k.then = "force" /\ k.after = task.after /\ k.todo = task.todo \ {o}
  BY <1>1 DEF ForceNext, Found, Task
<1> HIDE DEF k
<1>3. Tame(k, trade, rows)
  BY <1>2, ToCancelTame
<1> QED BY <1>2, <1>3, GoTame

LEMMA ExitBalanced ==
  ASSUME TradeAssumption, Missing = {}, "canceled" \notin PlacedAs, Inv, Whole, Balanced, Inv', Whole',
         CheckExitAmount \/ PlaceExit \/ RefuseExit \/ RecordExit
  PROVE  Balanced'
<1>1. task \in Task /\ amount \in Nat /\ task.after # "placeEntry"
  BY DEF Inv, TypeOK, Balanced, Tame
<1>2. CASE CheckExitAmount
  <2> DEFINE want == IF task.size = 0 THEN amount ELSE task.size
             k    == [task EXCEPT !.size = want]
             m    == [k EXCEPT !.at = "placeExit"]
             n    == [k EXCEPT !.at = "cancelOpen", !.after = "placeExit", !.todo = OpenOrders(rows), !.repl = TRUE]
  <2>1. task.at = "checkAmount" /\ (JustGo(Done) \/ JustGo(m) \/ JustGo(n))
    BY <1>2 DEF CheckExitAmount
  <2>2. m.at = "placeExit" /\ m.stops = task.stops /\ m.todo = task.todo /\ m.after = task.after
    BY <1>1 DEF Task
  <2>3. n.at = "cancelOpen" /\ n.stops = task.stops /\ n.todo = OpenOrders(rows) /\ n.after = "placeExit"
    BY <1>1 DEF Task
  <2> HIDE DEF m, n
  <2>4. Tame(m, trade, rows)
    BY <1>1, <2>1, <2>2, LoopTame DEF Recording
  <2>5. Tame(n, trade, rows)
    <3>1. n.todo \subseteq Open(rows)
      BY <2>3 DEF OpenOrders, Open
    <3> QED BY <2>1, <2>3, <3>1, LoopTame DEF Recording
  <2> QED BY <2>1, <2>4, <2>5, DoneBalanced, GoTame
<1>3. CASE PlaceExit
  <2>1. /\ task.at = "placeExit" /\ Free >= task.size /\ Placed("exit", task.size, At("recordExit"))
    BY <1>3 DEF PlaceExit
  <2>2. Sides["recordExit"] = "exit" /\ "recordExit" \in Recording /\ task.at \notin Recording
    BY <2>1 DEF Sides, Recording
  <2>3. task.size \in Nat
    BY <1>1 DEF Task
  <2> QED BY <2>1, <2>2, <2>3, PlacedBalanced
<1>4. CASE RefuseExit
  <2>1. JustGo(Done) \/ JustGo([Idle EXCEPT !.at = "refind", !.todo = Open(rows)])
    BY <1>4 DEF RefuseExit
  <2> QED BY <2>1, DoneBalanced, RefindTame, GoTame
<1>5. CASE RecordExit
  BY <1>5, RecordExitBalanced
<1> QED BY <1>2, <1>3, <1>4, <1>5
-----------------------------------------------------------------------------
\* A loop that applies what fetch_order says of one order after the other.
LEMMA FewerTame ==
  ASSUME Inv, Whole, Balanced, NEW o \in task.todo, task.at \in {"refind", "fetchStops", "startup"}
  PROVE  LET rest == [task EXCEPT !.todo = task.todo \ {o}]
         IN /\ rest \in Task /\ rest.at = task.at /\ rest.at \notin Recording /\ Tame(rest, trade, rows)
            /\ o \notin rest.todo \cup rest.stops
            /\ o \in Orders /\ rows[o].status # "none" /\ ex[o].status # "none" /\ ~Absent(trade)
            /\ trade = "open" => rows[o].status \notin NonOpen
            /\ rest.todo = task.todo \ {o} /\ rest.stops = {}
<1> DEFINE rest == [task EXCEPT !.todo = task.todo \ {o}]
<1>1. /\ task \in Task /\ task.todo \in SUBSET Orders /\ Tame(task, trade, rows) /\ task.stops = {}
      /\ task.at \notin {"cancel"} \cup Recording
  BY DEF Inv, TypeOK, Task, Balanced, Tame, Recording
<1>2. rest \in Task /\ rest.at = task.at /\ rest.todo = task.todo \ {o}
  BY <1>1, FewerLeft
<1>3. rest.stops = task.stops /\ rest.after = task.after /\ rest.at \notin Recording
  BY <1>1, <1>2 DEF Task
<1> HIDE DEF rest
<1>4. Tame(rest, trade, rows)
  BY <1>1, <1>2, <1>3, LoopTame DEF Tame
<1>5. o \in Orders /\ rows[o].status # "none" /\ ex[o].status # "none"
  BY <1>1 DEF Whole, Locals, InLoop, Inv, TaskOK
<1>6. ~Absent(trade)
  BY <1>5 DEF Whole, Gone
<1>7. trade = "open" => rows[o].status \notin NonOpen
  BY <1>1 DEF Tame, NonOpen
<1>8. o \notin rest.todo \cup rest.stops /\ rest.stops = {}
  BY <1>1, <1>2, <1>3
<1> QED BY <1>2, <1>3, <1>4, <1>5, <1>6, <1>7, <1>8 DEF rest

LEMMA RefindBalanced ==
  ASSUME TradeAssumption, Missing = {}, Inv, Whole, Balanced, Inv', Whole',
         Refound \/ Started \/ \E o \in Orders : Refind(o) \/ AdoptOrder(o)
  PROVE  Balanced'
<1>1. CASE Refound \/ Started
  BY <1>1, DoneBalanced DEF Refound, Started
<1>2. ASSUME NEW o \in Orders, Refind(o) PROVE Balanced'
  <2> DEFINE rest == [task EXCEPT !.todo = task.todo \ {o}]
  <2>1. /\ task.at = "refind" /\ o \in task.todo /\ ex' = ex
        /\ UpdateTradeState(o, Snapshot(o), TRUE, rest)
    BY <1>2 DEF Refind, Found, Outside
  <2>2. /\ rest \in Task /\ rest.at \notin Recording /\ Tame(rest, trade, rows)
        /\ o \notin rest.todo \cup rest.stops
        /\ ex[o].status # "none" /\ ~Absent(trade) /\ (trade = "open" => rows[o].status \notin NonOpen)
    BY <2>1, FewerTame
  <2> HIDE DEF rest
  <2> QED BY <2>1, <2>2, FetchBalanced
<1>3. ASSUME NEW o \in Orders, AdoptOrder(o) PROVE FALSE
  BY <1>3 DEF AdoptOrder, Balanced, Tame, InLoop
<1> QED BY <1>1, <1>2, <1>3

LEMMA CancelStopBalanced ==
  ASSUME TradeAssumption, Missing = {}, Inv, Whole, Balanced, Inv', Whole',
         NEW o \in Orders, CancelStop(o)
  PROVE  Balanced'
<1> DEFINE rest == [task EXCEPT !.at = IF task.stops = {o} THEN task.then ELSE "stops",
                                !.stops = task.stops \ {o}]
           s == [ex'[o] EXCEPT !.side = "stoploss"]
<1>1. /\ task.at = "stops" /\ o \in task.stops /\ task \in Task /\ task.then \in Returns
      /\ Tame(task, trade, rows) /\ TypeOK /\ Books /\ task.stops \in SUBSET Orders
      /\ ex \in [Orders -> Order] /\ rows \in [Orders -> Order]
  BY DEF CancelStop, Inv, TypeOK, TaskOK, Balanced, Whole, Task
<1>2. rest \in Task
  <2>1. (IF task.stops = {o} THEN task.then ELSE "stops") \in Labels
    BY <1>1, LabelFacts DEF Task
  <2> QED BY <1>1, <2>1 DEF Task
<1>3. /\ rest.at = (IF task.stops = {o} THEN task.then ELSE "stops")
      /\ rest.stops = task.stops \ {o} /\ rest.then = task.then /\ rest.after = task.after /\ rest.todo = task.todo
  BY <1>1 DEF Task
<1> HIDE DEF rest
<1>4. rest.at \notin Recording /\ rest.at # "placeEntry" /\ ~InLoop(rest, "adopt")
  BY <1>1, <1>3 DEF Returns, Recording, Tame, InLoop
<1>5. Tame(rest, trade, rows)
  <2>1. trade = "open" => /\ rest.todo \cap rest.stops = {}
                          /\ \A p \in rest.todo \cup rest.stops : rows[p].status = "open"
    BY <1>1, <1>3 DEF Tame
  <2>2. rest.stops # {} => rest.at = "stops"
    BY <1>1, <1>3
  <2>3. rest.after # "placeEntry" /\ rest.at # "recordEntry"
    BY <1>1, <1>3, <1>4 DEF Tame, Recording
  <2> QED BY <1>4, <2>1, <2>2, <2>3 DEF Tame
<1>6. /\ rows[o].status # "none" /\ rows[o].side = "stoploss" /\ ~Absent(trade)
      /\ trade = "open" => rows[o].status = "open"
  BY <1>1, TradeThere DEF Whole, Locals, Tame
<1>7. ex[o].status # "none" /\ ex[o].side # "entry"
  BY <1>1, <1>6, RowSide DEF Inv, NeverAhead
<1>8. CASE ex' = CancelOnExchange(o) /\ UpdateTradeState(o, s, TRUE, rest)
  <2>1. ex' \in [Orders -> Order] /\ ExchangeRuns(ex, ex') /\ ex'[o].status # "open"
    BY <1>1, <1>8, CancelRuns
  <2>2. s \in Order /\ Fits(s, rows[o], ex'[o])
    BY <1>1, <1>6, <1>7, <2>1, LatestFits DEF ExchangeRuns
  <2> HIDE DEF s
  <2>3. Tame(rest, trade, [rows EXCEPT ![o] = s])
    <3>1. CASE trade # "open" \/ o \notin rest.todo \cup rest.stops
      <4>1. trade = "open" => \A p \in rest.todo \cup rest.stops : [rows EXCEPT ![o] = s][p].status = "open"
        <5>1. rest.todo \cup rest.stops \subseteq Orders
          BY <1>2 DEF Task
        <5> QED BY <1>1, <1>5, <3>1, <5>1 DEF Tame
      <4> QED BY <1>5, <4>1 DEF Tame
    <3>2. CASE trade = "open" /\ o \in rest.todo \cup rest.stops
      BY <1>1, <1>3, <3>2 DEF Tame
    <3> QED BY <3>1, <3>2
  <2>4. trade = "open" => rows[o].status \notin NonOpen
    BY <1>6 DEF NonOpen
  <2> QED BY <1>2, <1>4, <1>6, <1>7, <1>8, <2>1, <2>2, <2>3, <2>4, UpdateBalanced
<1>9. CASE ex' = ex /\ task' = rest /\ Bot
  <2>1. ExchangeRuns(ex, ex') /\ ex' \in [Orders -> Order]
    BY <1>1, <1>9, SameRuns
  <2> QED BY <1>5, <1>9, <2>1, GoBalanced
<1> QED BY <1>8, <1>9 DEF CancelStop, rest

LEMMA StoplossBalanced ==
  ASSUME TradeAssumption, Missing = {}, "canceled" \notin PlacedAs, Inv, Whole, Balanced, Inv', Whole',
         \/ ManageStoploss \/ FetchedStops \/ PlaceStop \/ RefuseStop
         \/ \E o \in Orders : FetchStop(o)
  PROVE  Balanced'
<1>1. task \in Task /\ amount \in Nat
  BY DEF Inv, TypeOK
<1>2. CASE ManageStoploss
  <2> DEFINE k == [task EXCEPT !.at = "fetchStops", !.todo = OpenStops(rows)]
  <2>1. /\ task = Idle /\ JustGo(k) /\ k.stops = task.stops /\ k.at = "fetchStops"
        /\ k.after = task.after /\ k.todo = OpenStops(rows)
    BY <1>1, <1>2 DEF ManageStoploss, Task
  <2>2. task.at # "stops" /\ k.at \notin Recording /\ k.after # "placeEntry" /\ k.todo \subseteq Open(rows)
    BY <2>1, IdleFacts DEF Recording, OpenStops, Open
  <2> HIDE DEF k
  <2>3. Tame(k, trade, rows)
    BY <2>1, <2>2, LoopTame
  <2> QED BY <2>1, <2>3, GoTame
<1>3. ASSUME NEW o \in Orders, FetchStop(o) PROVE Balanced'
  <2> DEFINE rest == [task EXCEPT !.todo = task.todo \ {o}]
             more == [rest EXCEPT !.seen = rest.seen \cup {o}]
             k    == IF Snapshot(o).status = "closed" THEN Done ELSE more
  <2>1. /\ task.at = "fetchStops" /\ o \in task.todo /\ ex' = ex
        /\ UpdateTradeState(o, Snapshot(o), TRUE, k)
    BY <1>3 DEF FetchStop, Found, Outside
  <2>2. /\ rest \in Task /\ rest.at = task.at /\ rest.at \notin Recording /\ Tame(rest, trade, rows)
        /\ o \notin rest.todo \cup rest.stops
        /\ ex[o].status # "none" /\ ~Absent(trade) /\ (trade = "open" => rows[o].status \notin NonOpen)
        /\ rest.todo = task.todo \ {o} /\ rest.stops = {}
    BY <2>1, FewerTame
  <2>3. /\ more.at = rest.at /\ more.stops = rest.stops /\ more.todo = rest.todo /\ more.after = rest.after
        /\ more \in Task
    BY <1>1, <2>2 DEF Task
  <2> HIDE DEF more, rest
  <2>4. Tame(more, trade, rows)
    BY <2>1, <2>2, <2>3 DEF Tame, InLoop
  <2>5. k \in Task /\ k.at \notin Recording /\ Tame(k, trade, rows) /\ o \notin k.todo \cup k.stops
    <3>1. Done \in Task /\ Done.at \notin Recording /\ Tame(Done, trade, rows) /\ Done.todo \cup Done.stops = {}
      BY IdleType, IdleTame DEF Done, Idle, Recording
    <3> QED BY <2>2, <2>3, <2>4, <3>1
  <2> HIDE DEF k
  <2> QED BY <2>1, <2>2, <2>5, FetchBalanced
<1>4. CASE FetchedStops
  <2> DEFINE k == [Idle EXCEPT !.at = "placeStop"]
  <2>1. \/ JustGo(Done)
        \/ \E stops \in {{}, OpenStops(rows)} : JustGo(StopsFirst(k, stops))
    BY <1>4 DEF FetchedStops
  <2>2. /\ k \in Task /\ k.at = "placeStop" /\ k.then = "idle" /\ k.after = "idle" /\ k.todo = {} /\ k.stops = {}
    BY IdleType, LabelFacts DEF Idle, Task
  <2> HIDE DEF k
  <2>3. Tame(k, trade, rows) /\ k.at \notin Recording
    BY <2>2 DEF Tame, InLoop, Recording
  <2>4. ASSUME NEW stops \in {{}, OpenStops(rows)}, JustGo(StopsFirst(k, stops))
        PROVE  Balanced'
    <3>1. stops \cap k.todo = {} /\ \A p \in stops : rows[p].status = "open"
      BY <2>2 DEF OpenStops
    <3>2. Tame(StopsFirst(k, stops), trade, rows)
      BY <2>2, <2>3, <3>1, StopsTame
    <3> QED BY <2>4, <3>2, GoTame
  <2> QED BY <2>1, <2>4, DoneBalanced
<1>5. CASE PlaceStop
  <2>1. /\ task.at = "placeStop" /\ Free >= amount /\ Placed("stoploss", amount, At("recordStop"))
    BY <1>5 DEF PlaceStop
  <2>2. Sides["recordStop"] = "stoploss" /\ "recordStop" \in Recording /\ task.at \notin Recording
    BY <2>1 DEF Sides, Recording
  <2> QED BY <1>1, <2>1, <2>2, PlacedBalanced
<1>6. CASE RefuseStop
  <2>1. \/ JustGo(Done) \/ JustGo([Idle EXCEPT !.at = "refind", !.todo = Open(rows)]) \/ JustGo(ExitFlow(0))
    BY <1>6 DEF RefuseStop
  <2> QED BY <2>1, DoneBalanced, ExitFlowBalanced, RefindTame, GoTame
<1> QED BY <1>2, <1>3, <1>4, <1>5, <1>6

LEMMA StartupBalanced ==
  ASSUME TradeAssumption, Missing = {}, Inv, Whole, Balanced, Inv', Whole',
         NEW o \in Orders, StartupUpdate(o)
  PROVE  Balanced'
<1> DEFINE rest == [task EXCEPT !.todo = task.todo \ {o}]
<1>1. /\ task.at = "startup" /\ o \in task.todo /\ ex' = ex /\ TypeOK
      /\ UpdateTradeState(o, Snapshot(o), TRUE, rest) \/ (task' = rest /\ Bot)
  BY DEF StartupUpdate, Found, Outside, Inv
<1>2. /\ rest \in Task /\ rest.at \notin Recording /\ Tame(rest, trade, rows)
      /\ o \notin rest.todo \cup rest.stops
      /\ ex[o].status # "none" /\ ~Absent(trade) /\ (trade = "open" => rows[o].status \notin NonOpen)
  BY <1>1, FewerTame
<1> HIDE DEF rest
<1>3. CASE UpdateTradeState(o, Snapshot(o), TRUE, rest)
  BY <1>1, <1>2, <1>3, FetchBalanced
<1>4. CASE task' = rest /\ Bot
  <2>1. ex' \in [Orders -> Order] /\ ExchangeRuns(ex, ex')
    BY <1>1, SameRuns
  <2> QED BY <1>2, <1>4, <2>1, GoBalanced
<1> QED BY <1>1, <1>3, <1>4

\* The position can always be sold from the wallet, so nothing has to be rebuilt.
LEMMA ReloadBalanced ==
  ASSUME TradeAssumption, ~AdjustOrderPrice, Missing = {}, ~ManualReload, unknown = {},
         Inv, Whole, Balanced, ReloadTrade \/ Adopted \/ Abort
  PROVE  Balanced'
<1>1. CASE ReloadTrade
  <2>1. /\ task = Idle /\ trade = "open" /\ Open(rows) = {} /\ Held < amount
        /\ ex \in [Orders -> Order] /\ rows \in [Orders -> Order] /\ amount \in Nat
    BY <1>1 DEF ReloadTrade, Inv, TypeOK
  <2>2. \A o \in Orders : rows[o].status # "open"
    BY <2>1 DEF Open
  <2>3. \A o \in Orders : rows[o].status = "none" /\ ex[o].status # "none" => Dead(ex[o])
    BY <2>1, IdleFacts DEF Whole, RowOrDead
  <2>4. Position(ex) = Recalc(rows)
    BY <2>1, <2>2, <2>3, RowsArePosition DEF Whole, Books
  <2>5. Held = Position(ex)
    BY DEF Held, Position
  <2>6. amount = Recalc(rows)
    BY <2>1 DEF Balanced, AddsUp
  <2> QED BY <2>1, <2>4, <2>5, <2>6
<1>2. CASE Adopted
  BY <1>2 DEF Adopted, Balanced, Tame, InLoop
<1>3. CASE Abort
  BY <1>3, AbortGoes, DoneBalanced DEF Inv
<1> QED BY <1>1, <1>2, <1>3

LEMMA CommitBalanced ==
  ASSUME Balanced, Commit
  PROVE  Balanced'
<1>1. /\ UNCHANGED <<ex, rows, trade, amount>> /\ db' = Committed(rows, trade, amount) /\ task' = Idle
  BY DEF Commit, Outside
<1>2. Tame(task', trade', rows')
  BY <1>1, IdleTame
<1>3. db'.amount = amount' /\ \A o \in Orders : Counted(db'.rows[o]) = Counted(rows'[o])
  BY <1>1 DEF Committed
<1> QED BY <1>1, <1>2, <1>3 DEF Balanced

\* After a crash the books of the database balance too.
LEMMA FaultBalanced ==
  ASSUME TradeAssumption, Inv, Whole, Balanced, unknown' = {}, LostReply \/ Crash
  PROVE  Balanced'
<1>1. CASE LostReply
  BY <1>1 DEF LostReply
<1>2. CASE Crash
  <2>1. /\ rows' = db.rows /\ trade' = db.trade /\ amount' = db.amount /\ ex' = ex /\ db' = db
        /\ task' = [Idle EXCEPT !.at = "startup", !.todo = Open(db.rows)]
        /\ db.trade = trade /\ db.amount = amount
    BY <1>2 DEF Crash, Whole, Books, Balanced
  <2>2. rows \in [Orders -> Order] /\ db.rows \in [Orders -> Order]
    BY DEF Inv, TypeOK
  <2>3. Recalc(db.rows) = Recalc(rows)
    BY <2>2, RecalcSame DEF Balanced
  <2>4. AddsUp(rows', trade', amount')
    BY <2>1, <2>3 DEF Balanced, AddsUp
  <2>5. Tame(task', trade', rows')
    BY <2>1 DEF Tame, Idle, InLoop, Recording, Open
  <2>6. Unsold(ex') >= 0 /\ OneEntry(ex') /\ db'.amount = amount'
        /\ \A o \in Orders : Counted(db'.rows[o]) = Counted(rows'[o])
    BY <2>1 DEF Balanced
  <2> QED BY <2>4, <2>5, <2>6 DEF Balanced
<1> QED BY <1>1, <1>2

LEMMA InitBalanced == TradeAssumption /\ Init => Balanced
<1> SUFFICES ASSUME TradeAssumption, Init PROVE Balanced
  OBVIOUS
<1>1. Inv
  BY InitInv
<1>2. /\ ex \in [Orders -> Order] /\ rows \in [Orders -> Order] /\ TypeOK
      /\ \A o \in Orders : ex[o] = NoOrder /\ rows[o] = NoOrder
      /\ db = Committed(rows, trade, amount) /\ amount = 0 /\ trade = "none" /\ task = Idle
  BY <1>1 DEF Init, Inv, TypeOK
<1>3. Recalc(rows) = 0
  BY <1>2, RecalcOfNothing DEF NoOrder
<1>4. Unsold(ex) >= 0
  <2>1. Unsold(ex) = Recalc(ex)
    <3>1. \A o \in Orders : Worth(ex[o]) = Counted(ex[o])
      <4> SUFFICES ASSUME NEW o \in Orders PROVE Worth(ex[o]) = Counted(ex[o])
        OBVIOUS
      <4>1. ex[o] = NoOrder
        BY <1>2
      <4>2. PICK n \in Int : n = Signed(ex[o])
        BY <1>2, OrderValues
      <4>3. n <= 0 /\ n >= 0
        BY <4>1, <4>2 DEF NoOrder, Signed
      <4>4. Worth(ex[o]) = n
        BY <4>1, <4>2 DEF NoOrder, Worth
      <4>5. Counted(ex[o]) = 0
        BY <1>2, <4>1, CountsNothing DEF NoOrder
      <4> QED BY <4>3, <4>4, <4>5
    <3>2. [o \in Orders |-> Worth(ex[o])] = [o \in Orders |-> Counted(ex[o])]
      BY <3>1
    <3> QED BY <3>2 DEF Unsold, Recalc
  <2>2. Recalc(ex) = 0
    BY <1>2, RecalcOfNothing DEF NoOrder
  <2> QED BY <2>1, <2>2
<1>5. OneEntry(ex)
  BY <1>2 DEF OneEntry, NoOrder
<1>6. AddsUp(rows, trade, amount)
  BY <1>2, <1>3 DEF AddsUp
<1>7. db.amount = amount /\ \A o \in Orders : Counted(db.rows[o]) = Counted(rows[o])
  BY <1>2 DEF Committed
<1>8. Tame(task, trade, rows)
  BY <1>2, IdleTame
<1> QED BY <1>4, <1>5, <1>6, <1>7, <1>8 DEF Balanced

LEMMA NextBalanced ==
  ASSUME TradeAssumption, ~AdjustOrderPrice, ~PositionAdjustment, ~ManualReload, Missing = {},
         "canceled" \notin PlacedAs, Inv, Whole, Balanced, Inv', Whole', unknown = {}, unknown' = {},
         [Next]_vars
  PROVE  Balanced'
<1>1. CASE Market
  BY <1>1, MarketBalanced
<1>2. CASE Begin
  <2>1. CASE CreateTrade \/ AdjustEntry
    BY <2>1, EntryBalanced
  <2>2. CASE CancelAllOpenOrders
    BY <2>2, LoopBalanced
  <2>3. CASE ExitSignal \/ AdjustExit \/ ForceExit
    BY <2>3, BeginExitBalanced
  <2>4. CASE ManageStoploss
    BY <2>4, StoplossBalanced
  <2>5. CASE ReloadTrade
    BY <2>5, ReloadBalanced
  <2>6. CASE \E o \in Orders : ManageOpenOrder(o) \/ RpcCancelOpenOrder(o)
    BY <2>6, ManageOpenOrderBalanced, LoopBalanced
  <2> QED BY <1>2, <2>1, <2>2, <2>3, <2>4, <2>5, <2>6 DEF Begin
<1>3. CASE Continue
  <2>1. CASE PlaceEntry \/ RefuseEntry
    BY <2>1, EntryBalanced
  <2>2. CASE RecordEntry
    BY <2>2, RecordEntryBalanced
  <2>3. CASE RefuseCancel \/ AlreadyCanceled \/ CancelOrder
    BY <2>3, CancelBalanced
  <2>4. CASE Managed \/ Replaced \/ CancelledOpen \/ \E o \in Orders : CancelNextOpen(o)
    BY <2>4, LoopBalanced
  <2>5. CASE ForceExitNow
    BY <2>5, BeginExitBalanced
  <2>6. CASE CheckExitAmount \/ PlaceExit \/ RefuseExit \/ RecordExit
    BY <2>6, ExitBalanced
  <2>7. CASE Refound \/ Started \/ \E o \in Orders : Refind(o) \/ AdoptOrder(o)
    BY <2>7, RefindBalanced
  <2>8. CASE FetchedStops \/ PlaceStop \/ RefuseStop \/ \E o \in Orders : FetchStop(o)
    BY <2>8, StoplossBalanced
  <2>9. CASE RecordStop
    BY <2>9, RecordStopBalanced
  <2>10. CASE Adopted
    BY <2>10, ReloadBalanced
  <2>11. CASE Commit
    BY <2>11, CommitBalanced
  <2>12. CASE \E o \in Orders : ForceNext(o) \/ CancelStop(o) \/ StartupUpdate(o)
    BY <2>12, ForceNextBalanced, CancelStopBalanced, StartupBalanced
  <2> QED BY <1>3, <2>1, <2>2, <2>3, <2>4, <2>5, <2>6, <2>7, <2>8, <2>9, <2>10, <2>11, <2>12 DEF Continue
<1>4. CASE Abort
  BY <1>4, ReloadBalanced
<1>5. CASE LostReply \/ Crash
  BY <1>5, FaultBalanced
<1>6. CASE UNCHANGED vars
  BY <1>6 DEF vars, Balanced
<1> QED BY <1>1, <1>2, <1>3, <1>4, <1>5, <1>6 DEF Next
-----------------------------------------------------------------------------
\* No crash and no lost reply took the row of an order.
NothingLost == unknown = {}

\* A balanced position: what the amount says is held.
LEMMA BalancedMeans ==
  ASSUME TradeAssumption, Missing = {}, Inv, Whole, Balanced, NothingLost
  PROVE  OpenTradeBalances /\ ClosedTradeHoldsNothing
<1>1. /\ ex \in [Orders -> Order] /\ rows \in [Orders -> Order] /\ amount \in Nat
      /\ RowsAgree(rows, ex) /\ Exchanged(ex)
  BY DEF Inv, TypeOK, Whole, Books
<1>2. ASSUME task = Idle, Reconciled PROVE Held = Recalc(rows)
  <2>1. \A o \in Orders : rows[o].status # "open"
    BY <1>2 DEF Reconciled
  <2>2. \A o \in Orders : rows[o].status = "none" /\ ex[o].status # "none" => Dead(ex[o])
    BY <1>2 DEF Reconciled
  <2>3. Position(ex) = Recalc(rows)
    BY <1>1, <2>1, <2>2, RowsArePosition
  <2> QED BY <2>3 DEF Held, Position
<1>3. OpenTradeBalances
  BY <1>2 DEF OpenTradeBalances, Balanced, AddsUp
<1>4. ClosedTradeHoldsNothing
  BY <1>2 DEF ClosedTradeHoldsNothing, Balanced, AddsUp
<1> QED BY <1>3, <1>4

\* As long as no order is lost, the balance is kept: the exchange sold no more than
\* was bought, and the rows and the amount of the trade say what was bought and sold.
THEOREM BalanceKept ==
  ASSUME ~AdjustOrderPrice, ~PositionAdjustment, ~ManualReload, Missing = {}, "canceled" \notin PlacedAs
  PROVE  Spec /\ []NothingLost => [](Inv /\ Whole /\ Balanced)
<1>1. Spec => [](Inv /\ Whole)
  BY BooksInOrder
<1>2. Init => Balanced
  BY TradeAssumption, InitBalanced
<1>3. Inv /\ Whole /\ Balanced /\ NothingLost /\ [Next]_vars /\ Inv' /\ Whole' /\ NothingLost' => Balanced'
  BY TradeAssumption, NextBalanced DEF NothingLost
<1> QED BY <1>1, <1>2, <1>3, PTL DEF Spec

\* As long as no order is lost, an open trade says exactly what is held once every
\* row has the last word of the exchange, whatever was filled between two calls.
THEOREM OpenTradesBalance ==
  ASSUME ~AdjustOrderPrice, ~PositionAdjustment, ~ManualReload, Missing = {}, "canceled" \notin PlacedAs
  PROVE  Spec /\ []NothingLost => []OpenTradeBalances
<1>1. Inv /\ Whole /\ Balanced /\ NothingLost => OpenTradeBalances
  BY TradeAssumption, BalancedMeans
<1>2. Spec /\ []NothingLost => [](Inv /\ Whole /\ Balanced)
  BY BalanceKept
<1> QED BY <1>1, <1>2, PTL

\* As long as no order is lost, nothing is left of a closed trade once every row
\* has the last word of the exchange: it was closed by the orders that sold it.
THEOREM ClosedTradesHoldNothing ==
  ASSUME ~AdjustOrderPrice, ~PositionAdjustment, ~ManualReload, Missing = {}, "canceled" \notin PlacedAs
  PROVE  Spec /\ []NothingLost => []ClosedTradeHoldsNothing
<1>1. Inv /\ Whole /\ Balanced /\ NothingLost => ClosedTradeHoldsNothing
  BY TradeAssumption, BalancedMeans
<1>2. Spec /\ []NothingLost => [](Inv /\ Whole /\ Balanced)
  BY BalanceKept
<1> QED BY <1>1, <1>2, PTL
-----------------------------------------------------------------------------
(* One entry at a time, with orders replaced at a new price: an invariant of *)
(* its own, as a failed replacement deletes the trade of a live order.       *)

LiveEntries(r) == {o \in Orders : r[o].status = "open" /\ r[o].side = "entry"}
AtMostOne(S)   == \A p, q \in S : p = q

SidesAgree(r, e) ==
  \A o \in Orders : r[o].status # "none" => (r[o].side = "entry" <=> e[o].side = "entry")

\* The rows of r are those of orders on the exchange e, and one of them buys.
Tracks(r, e) == NeverAhead(r, e) /\ SidesAgree(r, e) /\ AtMostOne(LiveEntries(r))

\* Before its first order has a row, and after its last one has lost it, a trade has
\* no rows.
Rowless == {"none", "deleted"}

InAdopt(t)        == t.at = "adopt" \/ (t.at = "stops" /\ t.then = "adopt")
BackAtReplaced(t) == t.at = "replaced" \/ (t.at = "stops" /\ t.then = "replaced")
BackAtForce(t)    == t.at = "force" \/ (t.at = "stops" /\ t.then = "force")
Buying(t)         == t.after = "placeEntry" \/ t.at \in {"placeEntry", "recordEntry"}

Labelled(t) ==
  /\ t.then \in Returns /\ t.after \in LoopReturns
  /\ t.at = "cancel" => t.then \in {"managed", "replaced", "cancelOpen", "force"}
  /\ t.at \in {"managed", "replaced"} \/ t.then \in {"managed", "replaced"} => t.o \in Orders
  /\ BackAtForce(t) /\ t.res => t.o \in Orders

\* What the handler has still to visit: no entry is cancelled as a stoploss order.
Lists(t, r, e) ==
  /\ \A o \in t.stops : e[o].status # "none" /\ e[o].side # "entry" /\ r[o].status # "none"
  /\ \A o \in t.todo : e[o].status # "none" /\ (r[o].status # "none" \/ InAdopt(t))

\* The order it cancels or records, and the dict it holds of it.
OrderAt(t, r, e) ==
  t.at \in {"cancel"} \cup Recording =>
    /\ t.o \in Orders /\ e[t.o].status # "none" /\ t.snap.status # "none"
    /\ t.snap.side = "entry" <=> e[t.o].side = "entry"
    /\ e[t.o].status = "open" => t.snap.status = "open"
    /\ t.at = "cancel" => r[t.o].status # "none"
    /\ t.at # "cancel" => (t.snap.side = "entry" <=> t.at = "recordEntry")

\* An entry is placed once no row of an entry is open: the one that is replaced was
\* cancelled.
NoSecondEntry(t, r) ==
  /\ t.at = "cancel" /\ t.then = "replaced" /\ r[t.o].side = "entry" => LiveEntries(r) \subseteq {t.o}
  /\ BackAtReplaced(t) /\ t.res /\ r[t.o].side = "entry" => LiveEntries(r) = {}
  /\ Buying(t) => LiveEntries(r) = {}

\* Only the first entry is worked on without a row.
AtWork(t, tr) ==
  /\ tr \in Rowless => t.at \in {"idle", "commit", "startup", "recordEntry"} /\ t.todo = {}
  /\ tr = "deleted" => t.at # "recordEntry"

Doing(t, r, e, tr) ==
  Labelled(t) /\ Lists(t, r, e) /\ OrderAt(t, r, e) /\ NoSecondEntry(t, r) /\ AtWork(t, tr)

NoRows(r) == \A o \in Orders : r[o].status = "none"

RowOfEntry ==
  trade # "deleted" =>
    \A o \in LiveEntries(ex) : rows[o].status = "open" \/ (task.at \in Recording /\ task.o = o)

OneBuys ==
  /\ TypeOK
  /\ db.trade = trade
  /\ Tracks(rows, ex) /\ Tracks(db.rows, ex) /\ AtMostOne(LiveEntries(ex))
  /\ trade \in Rowless => NoRows(rows) /\ NoRows(db.rows)
  /\ RowOfEntry
  /\ Doing(task, rows, ex, trade)

\* What a step does to the exchange unless it places an order.
Moves(e, f) == ExchangeMoves(e, f) /\ \A o \in Orders : f[o].side = e[o].side

\* The dict s may overwrite the row of o.
Newer(s, o, r, e) ==
  /\ s.status # "none" /\ e[o].status # "none"
  /\ s.side = "entry" <=> e[o].side = "entry"
  /\ e[o].status = "open" => s.status = "open"
  /\ s.status = "open" /\ s.side = "entry" => r[o].status = "open"

LEMMA TracksMoves ==
  ASSUME NEW r, NEW e, NEW f, Tracks(r, e), Moves(e, f)
  PROVE  Tracks(r, f)
  BY DEF Tracks, NeverAhead, SidesAgree, Moves, ExchangeMoves

LEMMA LiveMoves ==
  ASSUME NEW e, NEW f, Moves(e, f)
  PROVE  LiveEntries(f) \subseteq LiveEntries(e)
  BY DEF LiveEntries, Moves, ExchangeMoves

LEMMA TracksUpdate ==
  ASSUME NEW r \in [Orders -> Order], NEW e, NEW o \in Orders, NEW s \in Order,
         Tracks(r, e), Newer(s, o, r, e)
  PROVE  /\ Tracks([r EXCEPT ![o] = s], e)
         /\ LiveEntries([r EXCEPT ![o] = s]) \subseteq LiveEntries(r)
         /\ s.status # "open" => o \notin LiveEntries([r EXCEPT ![o] = s])
<1> DEFINE n == [r EXCEPT ![o] = s]
<1>1. n[o] = s /\ \A p \in Orders : p # o => n[p] = r[p]
  OBVIOUS
<1> HIDE DEF n
<1>2. LiveEntries(n) \subseteq LiveEntries(r)
  BY <1>1 DEF LiveEntries, Newer, Tracks, SidesAgree
<1>3. NeverAhead(n, e) /\ SidesAgree(n, e)
  BY <1>1 DEF Newer, Tracks, NeverAhead, SidesAgree
<1>4. s.status # "open" => o \notin LiveEntries(n)
  BY <1>1 DEF LiveEntries
<1>5. AtMostOne(LiveEntries(n))
  BY <1>2 DEF Tracks, AtMostOne
<1> QED BY <1>2, <1>3, <1>4, <1>5 DEF Tracks, n

LEMMA DoingMoves ==
  ASSUME NEW t \in Task, NEW r, NEW e, NEW f, NEW tr, Doing(t, r, e, tr), Moves(e, f)
  PROVE  Doing(t, r, f, tr)
<1>1. t.stops \in SUBSET Orders /\ t.todo \in SUBSET Orders
  BY DEF Task
<1>2. Lists(t, r, f)
  BY <1>1 DEF Doing, Lists, Moves, ExchangeMoves
<1>3. OrderAt(t, r, f)
  BY DEF Doing, OrderAt, Moves, ExchangeMoves
<1> QED BY <1>2, <1>3 DEF Doing

\* The handler's locals outlive the update of a row.
LEMMA DoingUpdate ==
  ASSUME NEW t \in Task, NEW r \in [Orders -> Order], NEW e, NEW tr, NEW o \in Orders, NEW s \in Order,
         Tracks(r, e), Newer(s, o, r, e), Doing(t, r, e, tr),
         r[o].status # "none" \/ ~(BackAtReplaced(t) \/ t.at = "cancel")
  PROVE  Doing(t, [r EXCEPT ![o] = s], e, tr)
<1> DEFINE n == [r EXCEPT ![o] = s]
<1>1. n[o] = s /\ \A p \in Orders : p # o => n[p] = r[p]
  OBVIOUS
<1>2. LiveEntries(n) \subseteq LiveEntries(r)
  BY TracksUpdate
<1> HIDE DEF n
<1>3. t.todo \in SUBSET Orders /\ t.stops \in SUBSET Orders
  BY DEF Task
<1>4. Lists(t, n, e)
  BY <1>1, <1>3 DEF Doing, Lists, Newer
<1>5. OrderAt(t, n, e)
  BY <1>1 DEF Doing, OrderAt, Newer
<1>6. NoSecondEntry(t, n)
  <2>1. ASSUME NEW p \in Orders, n[p].side = "entry", r[o].status # "none" PROVE r[p].side = "entry"
    BY <1>1, <2>1 DEF Newer, Tracks, SidesAgree
  <2>2. BackAtReplaced(t) => t.o \in Orders
    BY DEF Doing, Labelled, BackAtForce, BackAtReplaced
  <2>3. t.at = "cancel" => t.o \in Orders
    BY DEF Doing, OrderAt
  <2> QED BY <1>2, <2>1, <2>2, <2>3 DEF Doing, NoSecondEntry
<1> QED BY <1>4, <1>5, <1>6 DEF Doing, n

LEMMA DoneDoing ==
  ASSUME NEW r, NEW e, NEW tr
  PROVE  /\ Doing(Done, r, e, tr) /\ Doing(Idle, r, e, tr)
         /\ \A b \in BOOLEAN : Doing([Done EXCEPT !.res = b], r, e, tr)
  BY DEF Doing, Done, Idle, Labelled, BackAtForce, Lists, OrderAt, NoSecondEntry, AtWork, BackAtReplaced, Buying,
         Returns, LoopReturns, Recording

\* Open stoploss orders are no entries.
LEMMA StopsTracked ==
  ASSUME NEW r, NEW e, Tracks(r, e), NEW stops \in SUBSET OpenStops(r)
  PROVE  \A o \in stops : e[o].status # "none" /\ e[o].side # "entry" /\ r[o].status # "none"
  BY DEF OpenStops, Tracks, NeverAhead, SidesAgree

LEMMA StopsFirstDoing ==
  ASSUME NEW k \in Task, NEW r, NEW e, NEW tr, Doing(k, r, e, tr), tr \notin Rowless,
         k.at \in Returns \cup {"stops"}, NEW stops \in SUBSET Orders,
         \A o \in stops : e[o].status # "none" /\ e[o].side # "entry" /\ r[o].status # "none"
  PROVE  Doing(StopsFirst(k, stops), r, e, tr)
<1> DEFINE n == StopsFirst(k, stops)
<1>1. CASE stops = {}
  BY <1>1 DEF StopsFirst
<1>2. CASE stops # {}
  <2>1. /\ n.at = "stops" /\ n.then = (IF k.at = "stops" THEN k.then ELSE k.at)
        /\ n.after = k.after /\ n.o = k.o /\ n.todo = k.todo /\ n.res = k.res
        /\ n.stops = k.stops \cup stops
    BY <1>2 DEF StopsFirst, Task
  <2> HIDE DEF n
  <2>2. Labelled(n)
    BY <2>1 DEF Doing, Labelled, BackAtForce, Returns
  <2>3. Lists(n, r, e)
    BY <2>1 DEF Doing, Lists, InAdopt
  <2>4. OrderAt(n, r, e)
    BY <2>1 DEF OrderAt, Recording
  <2>5. NoSecondEntry(n, r)
    BY <2>1 DEF Doing, NoSecondEntry, BackAtReplaced, Buying
  <2>6. AtWork(n, tr)
    BY DEF AtWork, Rowless
  <2> QED BY <2>2, <2>3, <2>4, <2>5, <2>6 DEF Doing, n
<1> QED BY <1>1, <1>2

LEMMA SameMoves == Moves(ex, ex)
  BY DEF Moves, ExchangeMoves

LEMMA CancelSides ==
  ASSUME TypeOK, NEW o \in Orders, ex' = CancelOnExchange(o)
  PROVE  Moves(ex, ex')
<1>1. ex \in [Orders -> Order] /\ ex[o] \in Order
  BY DEF TypeOK
<1>2. \A p \in Orders : ex'[p].side = ex[p].side
  BY <1>1 DEF CancelOnExchange, Order
<1> QED BY <1>2, CancelMoves DEF Moves

\* The order dict of fetch_order.
LEMMA SnapshotNewer ==
  ASSUME OneBuys, NEW o \in Orders, ex[o].status # "none", task.at \notin Recording, trade # "deleted"
  PROVE  Newer(Snapshot(o), o, rows, ex)
<1>1. ex[o] \in Order /\ Snapshot(o).status = ex[o].status
  BY SnapshotFacts DEF OneBuys, TypeOK
<1>2. Snapshot(o).side = (IF rows[o].status = "none" THEN IF ex[o].side = "entry" THEN "entry" ELSE "exit"
                          ELSE rows[o].side)
  BY <1>1 DEF Snapshot, Order
<1>3. Snapshot(o).side = "entry" <=> ex[o].side = "entry"
  BY <1>2 DEF OneBuys, Tracks, SidesAgree
<1>4. ex[o].status = "open" /\ ex[o].side = "entry" => rows[o].status = "open"
  BY DEF OneBuys, RowOfEntry, LiveEntries
<1> QED BY <1>1, <1>3, <1>4 DEF Newer

\* A step that leaves the books alone.
LEMMA StepOne ==
  ASSUME OneBuys, NEW k \in Task, task' = k, Bot, ex' \in [Orders -> Order], Moves(ex, ex'),
         Doing(k, rows, ex', trade), unknown' \in SUBSET Orders, faults' \in 0..MaxFaults,
         task.at \in Recording => k = task \/ ex'[task.o].status # "open"
  PROVE  OneBuys'
<1>1. UNCHANGED <<rows, trade, amount, db>> /\ task' = k
  BY DEF Bot
<1>2. TypeOK'
  BY <1>1 DEF OneBuys, TypeOK
<1>3. LiveEntries(ex') \subseteq LiveEntries(ex)
  BY LiveMoves
<1>4. RowOfEntry'
  BY <1>1, <1>3 DEF OneBuys, RowOfEntry, LiveEntries
<1>5. Tracks(rows', ex') /\ Tracks(db'.rows, ex')
  BY <1>1, TracksMoves DEF OneBuys
<1>6. AtMostOne(LiveEntries(ex'))
  BY <1>3 DEF OneBuys, AtMostOne
<1> QED BY <1>1, <1>2, <1>4, <1>5, <1>6 DEF OneBuys

\* A step that changes the locals only.
LEMMA GoOne ==
  ASSUME OneBuys, NEW k \in Task, Doing(k, rows, ex, trade), JustGo(k), task.at \notin Recording
  PROVE  OneBuys'
<1>1. ex' = ex /\ ex \in [Orders -> Order] /\ unknown' \in SUBSET Orders /\ faults' \in 0..MaxFaults
      /\ Bot /\ task' = k
  BY DEF JustGo, Outside, OneBuys, TypeOK
<1> QED BY <1>1, SameMoves, StepOne

LEMMA DoneOne ==
  ASSUME OneBuys, task' = Done, Bot, Outside, task.at \in Recording => ex[task.o].status # "open"
  PROVE  OneBuys'
<1>1. ex' = ex /\ ex \in [Orders -> Order] /\ unknown' \in SUBSET Orders /\ faults' \in 0..MaxFaults
  BY DEF Outside, OneBuys, TypeOK
<1> QED BY <1>1, IdleType, DoneDoing, SameMoves, StepOne

\* What update_trade_state leaves of the trade.
LEMMA UpdateTrade ==
  ASSUME TypeOK, trade \notin Rowless, db.trade = trade,
         NEW o \in Orders, NEW s \in Order, NEW sending, NEW k \in Task,
         UpdateTradeState(o, s, sending, k)
  PROVE  /\ trade' \notin Rowless /\ db'.trade = trade'
         /\ \/ task' = k
            \/ \E stops \in SUBSET OpenStops(rows') : task' = StopsFirst(k, stops)
<1> DEFINE u == Updated(rows, trade, amount, o, s, sending)
<1>1. CASE rows' = [rows EXCEPT ![o] = s] /\ task' = k /\ UNCHANGED <<trade, amount, db>>
  BY <1>1
<1>2. CASE /\ Save(u.rows, u.trade, u.amount)
           /\ task' = StopsFirst(k, StopsToCancel(u, s, sending))
  <2>1. u.trade \in {trade, "closed"}
    BY DEF Updated
  <2>2. StopsToCancel(u, s, sending) \in SUBSET OpenStops(u.rows)
    BY DEF StopsToCancel
  <2> HIDE DEF u
  <2>3. rows' = u.rows /\ trade' = u.trade /\ db'.trade = u.trade
    BY <1>2 DEF Save, Committed
  <2> QED BY <1>2, <2>1, <2>2, <2>3 DEF Rowless
<1> QED BY <1>1, <1>2 DEF UpdateTradeState

\* A row is overwritten by a dict that is not older.
LEMMA RowOne ==
  ASSUME OneBuys, NEW o \in Orders, NEW s \in Order,
         rows' = [rows EXCEPT ![o] = s], rows' \in [Orders -> Order], trade' \in States, amount' \in Nat,
         db' \in [rows : [Orders -> Order], trade : States, amount : Nat],
         db'.rows \in {rows', db.rows}, db'.trade = trade', trade' \notin Rowless,
         ex' \in [Orders -> Order], Moves(ex, ex'), Tracks(rows', ex'),
         ex'[o].status = "open" => s.status = "open",
         trade # "deleted", unknown' \in SUBSET Orders, faults' = faults,
         task' \in Task, Doing(task', rows', ex', trade'),
         task.at \in Recording => task.o = o
  PROVE  OneBuys'
<1>1. TypeOK'
  BY DEF OneBuys, TypeOK
<1>2. LiveEntries(ex') \subseteq LiveEntries(ex) /\ rows \in [Orders -> Order]
  BY LiveMoves DEF OneBuys, TypeOK
<1>3. AtMostOne(LiveEntries(ex'))
  BY <1>2 DEF OneBuys, AtMostOne
<1>4. Tracks(db'.rows, ex')
  BY TracksMoves DEF OneBuys
<1>5. RowOfEntry'
  <2>1. ASSUME NEW p \in LiveEntries(ex') PROVE rows'[p].status = "open"
    <3>1. p \in Orders /\ ex'[p].status = "open"
      BY <2>1 DEF LiveEntries
    <3>2. CASE p = o
      BY <1>2, <3>1, <3>2
    <3>3. CASE p # o
      BY <1>2, <2>1, <3>1, <3>3 DEF OneBuys, RowOfEntry
    <3> QED BY <3>2, <3>3
  <2> QED BY <2>1 DEF RowOfEntry
<1> QED BY <1>1, <1>3, <1>4, <1>5 DEF OneBuys

LEMMA UpdateOne ==
  ASSUME OneBuys, trade \notin Rowless, NEW o \in Orders, NEW s \in Order, NEW sending, NEW k \in Task,
         UpdateTradeState(o, s, sending, k),
         ex' \in [Orders -> Order], Moves(ex, ex'), Newer(s, o, rows, ex'),
         Doing(k, [rows EXCEPT ![o] = s], ex', trade),
         k.at \in Returns \cup {"stops"} \/ s.status = "open",
         unknown' \in SUBSET Orders, faults' = faults,
         task.at \in Recording => task.o = o
  PROVE  OneBuys'
<1>1. /\ rows' \in [Orders -> Order] /\ trade' \in States /\ amount' \in Nat
      /\ db' \in [rows : [Orders -> Order], trade : States, amount : Nat]
      /\ rows' = [rows EXCEPT ![o] = s]
      /\ db'.rows \in {rows', db.rows}
      /\ task' = k \/ s.status # "open"
  BY UpdateFacts DEF OneBuys
<1>2. /\ trade' \notin Rowless /\ db'.trade = trade'
      /\ task' = k \/ \E stops \in SUBSET OpenStops(rows') : task' = StopsFirst(k, stops)
  BY UpdateTrade DEF OneBuys
<1>3. rows \in [Orders -> Order] /\ Tracks(rows, ex')
  BY TracksMoves DEF OneBuys, TypeOK
<1>4. Tracks(rows', ex')
  BY <1>1, <1>3, TracksUpdate
<1>5. Doing(k, rows', ex', trade')
  BY <1>1, <1>2 DEF Doing, AtWork, Rowless
<1>6. CASE task' = k
  <2>1. task' \in Task /\ Doing(task', rows', ex', trade')
    BY <1>5, <1>6
  <2>2. trade # "deleted" /\ (ex'[o].status = "open" => s.status = "open")
    BY DEF Rowless, Newer
  <2> QED BY <1>1, <1>2, <1>4, <2>1, <2>2, RowOne
<1>7. ASSUME NEW stops \in SUBSET OpenStops(rows'), task' = StopsFirst(k, stops), s.status # "open"
      PROVE  OneBuys'
  <2>1. stops \in SUBSET Orders
    BY DEF OpenStops
  <2>2. \A p \in stops : ex'[p].status # "none" /\ ex'[p].side # "entry" /\ rows'[p].status # "none"
    BY <1>4, <2>1, StopsTracked
  <2>3. task' \in Task /\ Doing(task', rows', ex', trade')
    BY <1>2, <1>5, <1>7, <2>1, <2>2, StopsFirstType, StopsFirstDoing
  <2>4. trade # "deleted" /\ (ex'[o].status = "open" => s.status = "open")
    BY DEF Rowless, Newer
  <2> QED BY <1>1, <1>2, <1>4, <2>3, <2>4, RowOne
<1> QED BY <1>1, <1>2, <1>6, <1>7

LEMMA DeleteOne ==
  ASSUME OneBuys, DeleteTrade, ex' \in [Orders -> Order], Moves(ex, ex'),
         unknown' \in SUBSET Orders, faults' \in 0..MaxFaults
  PROVE  OneBuys'
<1>1. /\ [o \in Orders |-> NoOrder] \in [Orders -> Order] /\ "deleted" \in States
      /\ \A o \in Orders : [p \in Orders |-> NoOrder][o].status = "none"
  BY DEF NoOrder, Order, NonOpen, States
<1>2. /\ rows' \in [Orders -> Order] /\ trade' = "deleted" /\ amount' \in Nat
      /\ db' \in [rows : [Orders -> Order], trade : States, amount : Nat]
      /\ rows' = [o \in Orders |-> NoOrder] /\ db'.rows = rows' /\ db'.trade = trade'
  BY <1>1 DEF OneBuys, TypeOK, DeleteTrade, Save, Committed
<1>3. task' = Done /\ Done \in Task
  BY IdleType DEF DeleteTrade
<1>4. TypeOK'
  BY <1>1, <1>2, <1>3 DEF OneBuys, TypeOK
<1>5. NoRows(rows') /\ NoRows(db'.rows)
  BY <1>1, <1>2 DEF NoRows
<1>6. Tracks(rows', ex') /\ Tracks(db'.rows, ex')
  BY <1>5 DEF NoRows, Tracks, NeverAhead, SidesAgree, AtMostOne, LiveEntries
<1>7. AtMostOne(LiveEntries(ex'))
  BY LiveMoves DEF OneBuys, AtMostOne
<1>8. RowOfEntry'
  BY <1>2 DEF RowOfEntry
<1>9. Doing(task', rows', ex', trade')
  BY <1>3, DoneDoing
<1> QED BY <1>2, <1>4, <1>5, <1>6, <1>7, <1>8, <1>9 DEF OneBuys

\* handle_cancel_enter on an order that is no longer open.
LEMMA CanceledOne ==
  ASSUME OneBuys, trade \notin Rowless, NEW o \in Orders, NEW s \in Order, NEW repl, NEW k \in Task,
         CanceledEntry(o, s, repl, k), s.status \in NonOpen,
         ex' \in [Orders -> Order], Moves(ex, ex'), Newer(s, o, rows, ex'),
         \A b \in BOOLEAN : Doing([k EXCEPT !.res = b], [rows EXCEPT ![o] = s], ex', trade),
         k.at \in Returns, unknown' = unknown, faults' = faults, task.at \notin Recording
  PROVE  OneBuys'
<1>1. unknown' \in SUBSET Orders /\ faults' \in 0..MaxFaults
  BY DEF OneBuys, TypeOK
<1>2. ASSUME NEW b \in BOOLEAN, UpdateTradeState(o, s, TRUE, [k EXCEPT !.res = b]) PROVE OneBuys'
  <2>1. [k EXCEPT !.res = b] \in Task /\ [k EXCEPT !.res = b].at = k.at
    BY DEF Task
  <2> QED BY <1>1, <1>2, <2>1, UpdateOne
<1>3. CASE DeleteTrade
  BY <1>1, <1>3, DeleteOne
<1> QED BY <1>2, <1>3 DEF CanceledEntry

\* create_order: an entry is placed only while no other one is live.
LEMMA PlacedOne ==
  ASSUME TradeAssumption, OneBuys, NEW side \in {"entry", "exit", "stoploss"}, NEW a \in Nat,
         NEW k \in Task, Placed(side, a, k), k.at \in Recording, side = "entry" <=> k.at = "recordEntry",
         Labelled(k), Lists(k, rows, ex), AtWork(k, trade), Buying(k) => LiveEntries(rows) = {},
         side = "entry" => LiveEntries(ex) = {}, task.at \notin Recording
  PROVE  OneBuys'
<1>1. PICK o \in Orders :
        /\ ex[o].status = "none"
        /\ \E s \in (IF side = "stoploss" THEN {"open"} ELSE PlacedAs), f \in 0..a :
             LET new == [side |-> side, amount |-> a, filled |-> f, status |-> s]
             IN /\ s = "open" => f = 0
                /\ ex' = [ex EXCEPT ![o] = new]
                /\ task' = [k EXCEPT !.o = o, !.snap = new]
        /\ UNCHANGED <<rows, trade, amount, db, unknown, faults>>
  BY DEF Placed
<1>2. PICK s \in {"open"} \cup NonOpen, f \in 0..a :
        LET new == [side |-> side, amount |-> a, filled |-> f, status |-> s]
        IN /\ ex' = [ex EXCEPT ![o] = new]
           /\ task' = [k EXCEPT !.o = o, !.snap = new]
  BY <1>1 DEF TradeAssumption
<1> DEFINE new == [side |-> side, amount |-> a, filled |-> f, status |-> s]
<1>3. new \in Order /\ new.status # "none" /\ new.status = s /\ new.side = side
  BY DEF Order, NonOpen
<1> HIDE DEF new
<1>4. ex \in [Orders -> Order] /\ ex' = [ex EXCEPT ![o] = new] /\ ex' \in [Orders -> Order]
  BY <1>2, <1>3 DEF OneBuys, TypeOK, new
<1>5. /\ task' \in Task /\ task'.o = o /\ task'.snap = new /\ task'.at = k.at
      /\ task'.then = k.then /\ task'.after = k.after /\ task'.todo = k.todo
      /\ task'.stops = k.stops /\ task'.res = k.res
  BY <1>2, <1>3 DEF Task, new
<1>6. task'.todo \in SUBSET Orders /\ task'.stops \in SUBSET Orders
      /\ task'.at \notin {"cancel", "adopt", "stops", "replaced"}
  BY <1>5 DEF Task, Recording
<1>7. Doing(task', rows, ex', trade)
  <2>1. Labelled(task')
    BY <1>5, <1>6 DEF Labelled, BackAtForce, Recording
  <2>2. Lists(task', rows, ex')
    BY <1>1, <1>3, <1>4, <1>5, <1>6 DEF Lists, InAdopt
  <2>3. OrderAt(task', rows, ex')
    BY <1>3, <1>4, <1>5, <1>6 DEF OrderAt
  <2>4. NoSecondEntry(task', rows)
    BY <1>5, <1>6 DEF NoSecondEntry, Buying, BackAtReplaced
  <2>5. AtWork(task', trade)
    BY <1>5 DEF AtWork
  <2> QED BY <2>1, <2>2, <2>3, <2>4, <2>5 DEF Doing
<1>8. TypeOK'
  BY <1>1, <1>4, <1>5 DEF OneBuys, TypeOK
<1>9. ASSUME NEW r, Tracks(r, ex) PROVE Tracks(r, ex')
  BY <1>1, <1>4, <1>9 DEF Tracks, NeverAhead, SidesAgree
<1>10. LiveEntries(ex') \subseteq LiveEntries(ex) \cup {o} /\ (side # "entry" => o \notin LiveEntries(ex'))
  BY <1>3, <1>4 DEF LiveEntries
<1>11. AtMostOne(LiveEntries(ex'))
  BY <1>10 DEF OneBuys, AtMostOne
<1>12. RowOfEntry'
  BY <1>1, <1>5, <1>10 DEF OneBuys, RowOfEntry
<1>13. Tracks(rows', ex') /\ Tracks(db'.rows, ex')
  BY <1>1, <1>9 DEF OneBuys
<1> QED BY <1>1, <1>7, <1>8, <1>11, <1>12, <1>13 DEF OneBuys

LEMMA OneFacts ==
  ASSUME OneBuys
  PROVE  /\ TypeOK /\ task \in Task /\ ex \in [Orders -> Order] /\ rows \in [Orders -> Order]
         /\ amount \in Nat /\ unknown \in SUBSET Orders /\ faults \in 0..MaxFaults
         /\ task.todo \in SUBSET Orders /\ task.stops \in SUBSET Orders /\ task.size \in Nat
         /\ task.snap \in Order
         /\ Labelled(task) /\ Lists(task, rows, ex) /\ OrderAt(task, rows, ex)
         /\ NoSecondEntry(task, rows) /\ AtWork(task, trade)
         /\ Tracks(rows, ex)
  BY DEF OneBuys, TypeOK, Doing, Task

\* A handler that has just begun, or goes on with a list of orders to visit.
LEMMA BeginDoing ==
  ASSUME OneBuys, trade \notin Rowless, NEW k \in Task,
         k.at \in {"cancelOpen", "force", "checkAmount", "fetchStops", "refind", "placeStop", "placeExit"},
         k.then \in Returns \ {"managed", "replaced", "force"}, ~k.res, k.after \in {"idle", "commit", "placeExit"},
         k.stops = {}, \A o \in k.todo : rows[o].status # "none"
  PROVE  Doing(k, rows, ex, trade)
<1>1. k.todo \in SUBSET Orders
  BY DEF Task
<1>2. Labelled(k)
  BY DEF Labelled, BackAtForce, LoopReturns
<1>3. Lists(k, rows, ex)
  BY <1>1, OneFacts DEF Lists, Tracks, NeverAhead
<1>4. OrderAt(k, rows, ex)
  BY DEF OrderAt, Recording
<1>5. NoSecondEntry(k, rows)
  BY DEF NoSecondEntry, BackAtReplaced, Buying
<1>6. AtWork(k, trade)
  BY DEF AtWork, Rowless
<1> QED BY <1>2, <1>3, <1>4, <1>5, <1>6 DEF Doing

\* A handler that goes on with an order less to visit.
LEMMA RestDoing ==
  ASSUME OneBuys, NEW o \in Orders, NEW rest, rest = [task EXCEPT !.todo = task.todo \ {o}]
  PROVE  rest \in Task /\ Doing(rest, rows, ex, trade) /\ rest.at = task.at /\ rest.then = task.then
<1>1. rest \in Task /\ rest.todo = task.todo \ {o} /\ rest.at = task.at /\ rest.then = task.then
      /\ rest.after = task.after /\ rest.o = task.o /\ rest.snap = task.snap /\ rest.stops = task.stops
      /\ rest.res = task.res
  BY OneFacts DEF Task
<1>2. Labelled(rest)
  BY <1>1, OneFacts DEF Labelled, BackAtForce
<1>3. Lists(rest, rows, ex)
  BY <1>1, OneFacts DEF Lists, InAdopt
<1>4. OrderAt(rest, rows, ex)
  BY <1>1, OneFacts DEF OrderAt
<1>5. NoSecondEntry(rest, rows)
  BY <1>1, OneFacts DEF NoSecondEntry, BackAtReplaced, Buying
<1>6. AtWork(rest, trade)
  BY <1>1, OneFacts DEF AtWork
<1> QED BY <1>1, <1>2, <1>3, <1>4, <1>5, <1>6 DEF Doing

\* The handler is about to cancel an order it has fetched.
LEMMA ToCancelDoing ==
  ASSUME OneBuys, trade \notin Rowless, NEW o \in Orders, rows[o].status # "none",
         task.at \notin Recording, ~InAdopt(task),
         NEW k \in Task, k.at = "cancel", k.o = o, k.snap = Snapshot(o),
         \/ k.then \in {"managed", "cancelOpen", "force"}
         \/ k.then = "replaced" /\ (rows[o].side = "entry" => LiveEntries(rows) \subseteq {o}),
         k.after = task.after, k.stops = task.stops, k.todo \in SUBSET task.todo
  PROVE  Doing(k, rows, ex, trade)
<1>1. ex[o].status # "none"
  BY OneFacts DEF Tracks, NeverAhead
<1>2. Newer(Snapshot(o), o, rows, ex)
  BY <1>1, SnapshotNewer DEF Rowless
<1>3. Labelled(k)
  BY OneFacts DEF Labelled, BackAtForce, Returns
<1>4. Lists(k, rows, ex)
  BY OneFacts DEF Lists, InAdopt
<1>5. OrderAt(k, rows, ex)
  BY <1>1, <1>2 DEF OrderAt, Newer, Recording
<1>6. NoSecondEntry(k, rows)
  BY OneFacts DEF NoSecondEntry, BackAtReplaced, Buying
<1>7. AtWork(k, trade)
  BY DEF AtWork, Rowless
<1> QED BY <1>3, <1>4, <1>5, <1>6, <1>7 DEF Doing

LEMMA ExitFlowDoing ==
  ASSUME OneBuys, trade \notin Rowless, NEW a \in Nat
  PROVE  ExitFlow(a) \in Task /\ Doing(ExitFlow(a), rows, ex, trade)
<1> DEFINE k == [[Idle EXCEPT !.size = a, !.mode = task.mode] EXCEPT !.at = "checkAmount"]
<1>1. Idle \in Task /\ task.mode \in {"initial", "pos_adjust", "replace"}
  BY IdleType, OneFacts DEF Task
<1>2. k \in Task
  BY <1>1, LabelFacts DEF Task
<1>3. k.at = "checkAmount" /\ k.then = "idle" /\ k.after = "idle" /\ k.stops = {} /\ k.todo = {} /\ ~k.res
  BY DEF Idle
<1>4. ExitFlow(a) = StopsFirst(k, OpenStops(rows))
  BY DEF ExitFlow
<1> HIDE DEF k
<1>5. Doing(k, rows, ex, trade)
  BY <1>2, <1>3, BeginDoing DEF Returns
<1>6. OpenStops(rows) \in SUBSET Orders
  BY DEF OpenStops
<1>7. \A o \in OpenStops(rows) : ex[o].status # "none" /\ ex[o].side # "entry" /\ rows[o].status # "none"
  BY StopsTracked, OneFacts
<1> QED BY <1>2, <1>3, <1>4, <1>5, <1>6, <1>7, StopsFirstType, StopsFirstDoing DEF Returns

LEMMA ExitFlowOne ==
  ASSUME OneBuys, trade \notin Rowless, NEW a \in Nat, JustGo(ExitFlow(a)), task.at \notin Recording
  PROVE  OneBuys'
  BY ExitFlowDoing, GoOne

LEMMA ReplaceFailedOne ==
  ASSUME OneBuys, ReplaceOrderFailed, Outside, task.at \in Recording => ex[task.o].status # "open"
  PROVE  OneBuys'
<1>1. ex' = ex /\ ex \in [Orders -> Order] /\ unknown' \in SUBSET Orders /\ faults' \in 0..MaxFaults
  BY OneFacts DEF Outside
<1>2. CASE DeleteTrade
  BY <1>1, <1>2, SameMoves, DeleteOne
<1>3. CASE task' = Done /\ Bot
  BY <1>3, DoneOne
<1> QED BY <1>2, <1>3 DEF ReplaceOrderFailed

\* If no row of an entry is open, no entry is live.
LEMMA NoLive ==
  ASSUME OneBuys, trade # "deleted", task.at \notin Recording, LiveEntries(rows) = {}
  PROVE  LiveEntries(ex) = {}
<1>1. ASSUME NEW o \in LiveEntries(ex) PROVE o \in LiveEntries(rows)
  <2>1. o \in Orders /\ ex[o].side = "entry" /\ rows[o].status = "open"
    BY <1>1 DEF OneBuys, RowOfEntry, LiveEntries
  <2> QED BY <2>1, OneFacts DEF Tracks, SidesAgree, LiveEntries
<1> QED BY <1>1
-----------------------------------------------------------------------------
LEMMA MarketOne == OneBuys /\ Market => OneBuys'
<1> SUFFICES ASSUME OneBuys, NEW o \in Orders, ExchangeCancel(o) \/ \E n \in 1..ex[o].amount : Fill(o, n)
             PROVE  OneBuys'
  BY DEF Market
<1>1. ex \in [Orders -> Order] /\ ex[o] \in Order /\ TypeOK /\ task \in Task
  BY OneFacts
<1>2. Doing(task, rows, ex, trade) /\ unknown \in SUBSET Orders /\ faults \in 0..MaxFaults
  BY OneFacts DEF OneBuys
<1>3. ASSUME ex' \in [Orders -> Order], Moves(ex, ex'), UNCHANGED <<rows, trade, amount, db, task, unknown, faults>>
      PROVE  OneBuys'
  <2>1. Doing(task, rows, ex', trade)
    BY <1>1, <1>2, <1>3, DoingMoves
  <2>2. task' = task /\ Bot
    BY <1>3 DEF Bot
  <2> QED BY <1>1, <1>2, <1>3, <2>1, <2>2, StepOne
<1>4. CASE ExchangeCancel(o)
  BY <1>1, <1>3, <1>4, CancelMoves, CancelSides DEF ExchangeCancel
<1>5. ASSUME NEW n \in 1..ex[o].amount, Fill(o, n) PROVE OneBuys'
  <2> DEFINE f == ex[o].filled + n
             st == IF f = ex[o].amount THEN "closed" ELSE "open"
             new == [ex[o] EXCEPT !.filled = f, !.status = st]
  <2>1. ex[o].amount \in Nat /\ ex[o].filled \in Nat
    BY <1>1 DEF Order
  <2>2. ex[o].status = "open" /\ n \in 1..(ex[o].amount - ex[o].filled)
    BY <1>5 DEF Fill
  <2>3. ex[o].status = "open" /\ f \in Nat /\ f <= ex[o].amount
    BY <2>1, <2>2
  <2>4. st \in {"open", "closed"}
    OBVIOUS
  <2> HIDE DEF f, st
  <2>5. new \in Order /\ new.status \in {"open", "closed"} /\ new.side = ex[o].side
    BY <1>1, <2>3, <2>4 DEF Order, NonOpen
  <2>6. ex' = [ex EXCEPT ![o] = new]
    BY <1>1, <1>5 DEF Fill, Order, f, st
  <2> HIDE DEF new
  <2>7. ex' \in [Orders -> Order] /\ Moves(ex, ex')
    BY <1>1, <2>3, <2>5, <2>6 DEF Moves, ExchangeMoves
  <2> QED BY <1>3, <1>5, <2>7 DEF Fill
<1> QED BY <1>4, <1>5

LEMMA EntryOne ==
  ASSUME TradeAssumption, ~PositionAdjustment, OneBuys,
         CreateTrade \/ AdjustEntry \/ PlaceEntry \/ RefuseEntry
  PROVE  OneBuys'
<1>1. task \in Task /\ Stake \in Nat /\ task.size \in Nat
  BY OneFacts DEF TradeAssumption
<1>2. CASE CreateTrade
  <2> DEFINE k == [task EXCEPT !.at = "recordEntry"]
  <2>1. task = Idle /\ trade = "none" /\ Placed("entry", Stake, k)
    BY <1>2 DEF CreateTrade
  <2>2. k \in Task /\ k.at = "recordEntry"
    BY <1>1, LabelFacts DEF Task
  <2>3. /\ k.then = "idle" /\ k.after = "idle" /\ k.todo = {} /\ k.stops = {} /\ task.at \notin Recording
    BY <1>1, <2>1, IdleFacts DEF Task
  <2>4. LiveEntries(rows) = {}
    BY <2>1 DEF OneBuys, NoRows, LiveEntries, Rowless
  <2>5. LiveEntries(ex) = {}
    BY <2>1, <2>3, <2>4, NoLive
  <2> HIDE DEF k
  <2>6. Labelled(k) /\ Lists(k, rows, ex) /\ AtWork(k, trade) /\ k.at \in Recording
    BY <2>1, <2>2, <2>3 DEF Labelled, BackAtForce, Returns, LoopReturns, Lists, AtWork, Recording
  <2> QED BY <1>1, <2>1, <2>2, <2>3, <2>4, <2>5, <2>6, PlacedOne
<1>3. CASE PlaceEntry
  <2> DEFINE k == [task EXCEPT !.at = "recordEntry"]
  <2>1. task.at = "placeEntry" /\ Placed("entry", task.size, k)
    BY <1>3 DEF PlaceEntry, At
  <2>2. k \in Task /\ k.at = "recordEntry" /\ k.then = task.then /\ k.after = task.after /\ k.todo = task.todo
        /\ k.stops = task.stops /\ k.o = task.o /\ k.res = task.res
    BY <1>1, LabelFacts DEF Task
  <2>3. LiveEntries(rows) = {} /\ task.at \notin Recording /\ trade \notin Rowless
    BY <2>1, OneFacts DEF NoSecondEntry, Buying, Recording, AtWork
  <2>4. LiveEntries(ex) = {}
    BY <2>3, NoLive DEF Rowless
  <2> HIDE DEF k
  <2>5. Labelled(k)
    BY <2>1, <2>2, OneFacts DEF Labelled, BackAtForce
  <2>6. Lists(k, rows, ex)
    BY <2>1, <2>2, OneFacts DEF Lists, InAdopt
  <2>7. AtWork(k, trade) /\ k.at \in Recording
    BY <2>2, <2>3 DEF AtWork, Rowless, Recording
  <2> QED BY <1>1, <2>1, <2>2, <2>3, <2>4, <2>5, <2>6, <2>7, PlacedOne
<1>4. CASE RefuseEntry
  <2>1. Outside /\ task.at \notin Recording
    BY <1>4 DEF RefuseEntry, Recording
  <2>2. ReplaceOrderFailed \/ (task' = Done /\ Bot)
    BY <1>4 DEF RefuseEntry
  <2> QED BY <2>1, <2>2, ReplaceFailedOne, DoneOne
<1> QED BY <1>2, <1>3, <1>4 DEF AdjustEntry

\* execute_entry, after the exchange took the order: no other entry has an open row.
LEMMA RecordEntryOne ==
  ASSUME OneBuys, RecordEntry
  PROVE  OneBuys'
<1> DEFINE o == task.o
           s == task.snap
           u == Updated(rows, "open", amount, o, s, TRUE)
           n == [rows EXCEPT ![o] = s]
<1>1. /\ task.at = "recordEntry" /\ task.at \in Recording /\ o \in Orders /\ s \in Order
      /\ ex[o].status # "none" /\ s.status # "none" /\ s.side = "entry" /\ ex[o].side = "entry"
      /\ (ex[o].status = "open" => s.status = "open") /\ LiveEntries(rows) = {} /\ trade # "deleted"
  BY OneFacts DEF RecordEntry, OrderAt, Recording, NoSecondEntry, Buying, AtWork
<1>2. /\ Moves(ex, ex) /\ ex' = ex /\ unknown' \in SUBSET Orders /\ faults' = faults /\ faults' \in 0..MaxFaults
      /\ Outside /\ ex \in [Orders -> Order] /\ rows \in [Orders -> Order] /\ amount \in Nat
  BY SameMoves, OneFacts DEF RecordEntry, Outside
<1>3. "open" \in States /\ "open" \notin Rowless /\ Recalculated(rows, amount) \in Nat
  BY OneFacts DEF States, Rowless, Recalculated
<1>4. n \in [Orders -> Order] /\ Tracks(n, ex)
  <2>1. n[o] = s /\ (\A p \in Orders : p # o => n[p] = rows[p]) /\ n \in [Orders -> Order]
    BY <1>1, <1>2
  <2> HIDE DEF n
  <2>2. NeverAhead(n, ex) /\ SidesAgree(n, ex)
    BY <1>1, <2>1, OneFacts DEF Tracks, NeverAhead, SidesAgree
  <2>3. LiveEntries(n) \subseteq {o}
    BY <1>1, <2>1 DEF LiveEntries
  <2> QED BY <2>1, <2>2, <2>3 DEF Tracks, AtMostOne
<1>5. ASSUME NEW k \in Task, task' = k, Doing(k, n, ex, "open"), NEW a \in Nat, Save(n, "open", a)
      PROVE  OneBuys'
  <2>1. /\ rows' \in [Orders -> Order] /\ trade' \in States /\ amount' \in Nat
        /\ db' \in [rows : [Orders -> Order], trade : States, amount : Nat]
        /\ rows' = n /\ db'.rows = rows' /\ trade' = "open" /\ db'.trade = trade'
    BY <1>3, <1>4, <1>5, SaveType DEF Save, Committed
  <2>2. Doing(task', rows', ex', trade') /\ Tracks(rows', ex') /\ task' \in Task
    BY <1>2, <1>4, <1>5, <2>1
  <2>3. rows' = [rows EXCEPT ![o] = s] /\ trade' \notin Rowless /\ ex' \in [Orders -> Order] /\ Moves(ex, ex')
        /\ (ex'[o].status = "open" => s.status = "open")
    BY <1>1, <1>2, <1>3, <2>1
  <2> HIDE DEF o, s, n
  <2> QED BY <1>1, <1>2, <2>1, <2>2, <2>3, RowOne DEF o
<1>6. CASE s.status = "expired" /\ (ReplaceOrderFailed \/ (task' = Done /\ Bot))
  BY <1>1, <1>2, <1>6, ReplaceFailedOne, DoneOne
<1>7. CASE Save(n, "open", Recalculated(rows, amount)) /\ task' = Done
  BY <1>3, <1>5, <1>7, IdleType, DoneDoing
<1>8. CASE DeleteTrade
  BY <1>2, <1>8, DeleteOne
<1>9. CASE /\ s.status \in NonOpen
           /\ Save(u.rows, u.trade, u.amount)
           /\ task' = StopsFirst(Done, StopsToCancel(u, s, TRUE))
  <2>1. u.rows = n /\ u.trade = "open"
    BY <1>1, <1>9 DEF Updated, Closes
  <2>2. u.amount \in Nat
    BY <1>1, <1>2, <1>3, UpdatedType
  <2> DEFINE stops == StopsToCancel(u, s, TRUE)
  <2>3. stops \in SUBSET OpenStops(n) /\ OpenStops(n) \in SUBSET Orders
    BY <2>1 DEF StopsToCancel, OpenStops
  <2>4. task' = StopsFirst(Done, stops) /\ Save(n, "open", u.amount)
    BY <1>9, <2>1
  <2> HIDE DEF n, u, s, o, stops
  <2>5. \A p \in stops : ex[p].status # "none" /\ ex[p].side # "entry" /\ n[p].status # "none"
    BY <1>4, <2>3, StopsTracked
  <2>6. Done \in Task /\ Doing(Done, n, ex, "open") /\ Done.at \in Returns
    BY IdleType, DoneDoing DEF Done, Idle, Returns
  <2>7. StopsFirst(Done, stops) \in Task /\ Doing(StopsFirst(Done, stops), n, ex, "open")
    BY <1>3, <2>3, <2>5, <2>6, StopsFirstType, StopsFirstDoing
  <2> QED BY <1>5, <2>2, <2>4, <2>7
<1> QED BY <1>1, <1>6, <1>7, <1>8, <1>9 DEF RecordEntry

LEMMA ManageOpenOrderOne ==
  ASSUME OneBuys, NEW o \in Orders, ManageOpenOrder(o)
  PROVE  OneBuys'
<1> DEFINE s == Snapshot(o)
           k == [task EXCEPT !.o = o, !.snap = s, !.at = "cancel"]
           n == [rows EXCEPT ![o] = s]
<1>1. /\ task = Idle /\ task.at \notin Recording /\ ~InAdopt(task) /\ rows[o].status = "open"
      /\ trade \notin Rowless /\ rows[o].side # "stoploss"
  BY IdleFacts DEF ManageOpenOrder, OpenOrders, Rowless, InAdopt
<1>2. ex[o].status # "none" /\ s \in Order /\ Newer(s, o, rows, ex)
  <2>1. ex[o].status # "none"
    BY <1>1, OneFacts DEF Tracks, NeverAhead
  <2> QED BY <1>1, <2>1, OneFacts, SnapshotFacts, SnapshotNewer DEF Rowless
<1>3. /\ ex' = ex /\ Moves(ex, ex) /\ ex \in [Orders -> Order] /\ unknown' = unknown
      /\ unknown' \in SUBSET Orders /\ faults' = faults /\ rows \in [Orders -> Order] /\ Tracks(rows, ex)
  BY SameMoves, OneFacts DEF ManageOpenOrder, Outside
<1>4. rows[o].side = "entry" => LiveEntries(rows) \subseteq {o}
  BY <1>1, <1>3 DEF Tracks, AtMostOne, LiveEntries
<1>5. ASSUME UpdateTradeState(o, s, TRUE, Done) PROVE OneBuys'
  <2>1. Done \in Task /\ Doing(Done, n, ex, trade) /\ Done.at \in Returns
    BY IdleType, DoneDoing DEF Done, Idle, Returns
  <2> HIDE DEF s
  <2> QED BY <1>1, <1>2, <1>3, <1>5, <2>1, UpdateOne
<1>6. ASSUME NEW c \in Task, UpdateTradeState(o, s, TRUE, c), s.status = "open", c.at = "cancel", c.o = o,
             c.snap = s, c.then \in {"managed", "replaced"}, c.after = task.after, c.stops = task.stops,
             c.todo = task.todo
      PROVE  OneBuys'
  <2>1. Doing(c, rows, ex, trade)
    BY <1>1, <1>4, <1>6, OneFacts, ToCancelDoing
  <2> HIDE DEF s, n
  <2>2. Doing(c, n, ex, trade)
    BY <1>1, <1>2, <1>3, <2>1, DoingUpdate DEF n
  <2> QED BY <1>1, <1>2, <1>3, <1>6, <2>2, UpdateOne DEF n
<1>7. k \in Task /\ k.at = "cancel" /\ k.o = o /\ k.snap = s /\ k.after = task.after /\ k.stops = task.stops
      /\ k.todo = task.todo
  BY <1>2, LabelFacts, OneFacts DEF Task
<1>8. ASSUME UpdateTradeState(o, s, TRUE, [k EXCEPT !.then = "managed"]), s.status = "open" PROVE OneBuys'
  <2> DEFINE c == [k EXCEPT !.then = "managed"]
  <2> HIDE DEF k, s
  <2>1. c \in Task /\ c.at = "cancel" /\ c.o = o /\ c.snap = s /\ c.then = "managed" /\ c.after = task.after
        /\ c.stops = task.stops /\ c.todo = task.todo
    BY <1>7, LabelFacts DEF Task
  <2> HIDE DEF c
  <2> QED BY <1>6, <1>8, <2>1 DEF c
<1>9. ASSUME NEW new \in BOOLEAN, s.status = "open",
             UpdateTradeState(o, s, TRUE, [k EXCEPT !.then = "replaced", !.new = new, !.repl = new])
      PROVE  OneBuys'
  <2> DEFINE c == [k EXCEPT !.then = "replaced", !.new = new, !.repl = new]
  <2> HIDE DEF k, s
  <2>1. c \in Task /\ c.at = "cancel" /\ c.o = o /\ c.snap = s /\ c.then = "replaced" /\ c.after = task.after
        /\ c.stops = task.stops /\ c.todo = task.todo
    BY <1>7, LabelFacts DEF Task
  <2> HIDE DEF c
  <2> QED BY <1>6, <1>9, <2>1 DEF c
<1>10. ASSUME CanceledEntry(o, s, FALSE, Done), CanceledEmpty(s) PROVE OneBuys'
  <2>1. Done \in Task /\ (\A b \in BOOLEAN : Doing([Done EXCEPT !.res = b], n, ex, trade)) /\ Done.at \in Returns
    BY IdleType, DoneDoing DEF Done, Idle, Returns
  <2>2. s.status \in NonOpen
    BY <1>10 DEF CanceledEmpty
  <2> HIDE DEF s
  <2> QED BY <1>1, <1>2, <1>3, <1>10, <2>1, <2>2, CanceledOne
<1> QED BY <1>5, <1>8, <1>9, <1>10 DEF ManageOpenOrder

\* Back from the cancel handler: it says that an entry was cancelled only when its
\* row is no longer open.
LEMMA ReturnDoing ==
  ASSUME OneBuys, task.at = "cancel", NEW e, Moves(ex, e), NEW s \in Order, Newer(s, task.o, rows, e),
         NEW b \in BOOLEAN, b => s.side # "entry" \/ s.status # "open"
  PROVE  /\ Return(b) \in Task /\ Return(b).at \in Returns
         /\ Doing(Return(b), [rows EXCEPT ![task.o] = s], e, trade)
<1> DEFINE k == Return(b)
           o == task.o
           n == [rows EXCEPT ![o] = s]
<1>1. /\ task.then \in {"managed", "replaced", "cancelOpen", "force"} /\ task.then \in Labels
      /\ o \in Orders /\ rows[o].status # "none" /\ trade \notin Rowless
  BY OneFacts DEF Labelled, BackAtForce, OrderAt, AtWork, Task
<1>2. /\ k \in Task /\ k.at = task.then /\ k.then = task.then /\ k.after = task.after /\ k.o = o
      /\ k.todo = task.todo /\ k.stops = task.stops /\ k.res = b
  BY <1>1, OneFacts DEF At, Return, Task
<1>3. /\ Tracks(rows, e) /\ rows \in [Orders -> Order]
  BY OneFacts, TracksMoves
<1>4. /\ LiveEntries(n) \subseteq LiveEntries(rows) /\ (s.status # "open" => o \notin LiveEntries(n)) /\ n[o] = s
      /\ \A p \in Orders : p # o => n[p] = rows[p]
  BY <1>1, <1>3, TracksUpdate
<1>5. rows[o].side = "entry" <=> s.side = "entry"
  BY <1>1, <1>3 DEF Newer, Tracks, SidesAgree
<1> HIDE DEF k, n
<1>6. Labelled(k)
  BY <1>1, <1>2, OneFacts DEF Labelled, BackAtForce
<1>7. Lists(k, n, e)
  BY <1>1, <1>2, <1>4, OneFacts DEF Lists, InAdopt, Moves, ExchangeMoves, Newer
<1>8. OrderAt(k, n, e)
  BY <1>1, <1>2 DEF OrderAt, Recording
<1>9. NoSecondEntry(k, n)
  <2>1. k.at # "cancel" /\ (BackAtReplaced(k) => task.then = "replaced") /\ (Buying(k) => Buying(task))
    BY <1>1, <1>2 DEF BackAtReplaced, Buying
  <2>2. ASSUME BackAtReplaced(k), k.res, n[k.o].side = "entry" PROVE LiveEntries(n) = {}
    <3>1. s.status # "open" /\ rows[o].side = "entry"
      BY <1>2, <1>4, <1>5, <2>2
    <3>2. LiveEntries(rows) \subseteq {o}
      BY <2>1, <2>2, <3>1, OneFacts DEF NoSecondEntry
    <3> QED BY <1>4, <3>1, <3>2
  <2>3. Buying(k) => LiveEntries(n) = {}
    BY <1>4, <2>1, OneFacts DEF NoSecondEntry
  <2> QED BY <2>1, <2>2, <2>3 DEF NoSecondEntry
<1>10. AtWork(k, trade)
  BY <1>1 DEF AtWork, Rowless
<1>11. k.at \in Returns
  BY <1>1, <1>2 DEF Returns
<1> QED BY <1>2, <1>6, <1>7, <1>8, <1>9, <1>10, <1>11 DEF Doing, k, n

\* Back without having looked at the row.
LEMMA ReturnKept ==
  ASSUME OneBuys, task.at = "cancel", NEW e, Moves(ex, e)
  PROVE  Return(FALSE) \in Task /\ Doing(Return(FALSE), rows, e, trade)
<1> DEFINE k == Return(FALSE)
<1>1. /\ task.then \in {"managed", "replaced", "cancelOpen", "force"} /\ task.then \in Labels
      /\ task.o \in Orders /\ trade \notin Rowless
  BY OneFacts DEF Labelled, BackAtForce, OrderAt, AtWork, Task
<1>2. /\ k \in Task /\ k.at = task.then /\ k.then = task.then /\ k.after = task.after /\ k.o = task.o
      /\ k.todo = task.todo /\ k.stops = task.stops /\ k.res = FALSE
  BY <1>1, OneFacts DEF At, Return, Task
<1> HIDE DEF k
<1>3. Labelled(k)
  BY <1>1, <1>2, OneFacts DEF Labelled, BackAtForce
<1>4. Lists(k, rows, e)
  BY <1>1, <1>2, OneFacts DEF Lists, InAdopt, Moves, ExchangeMoves
<1>5. OrderAt(k, rows, e)
  BY <1>1, <1>2 DEF OrderAt, Recording
<1>6. NoSecondEntry(k, rows)
  BY <1>1, <1>2, OneFacts DEF NoSecondEntry, BackAtReplaced, Buying
<1>7. AtWork(k, trade)
  BY <1>1 DEF AtWork, Rowless
<1> QED BY <1>2, <1>3, <1>4, <1>5, <1>6, <1>7 DEF Doing, k

LEMMA CancelOne ==
  ASSUME Missing \subseteq NonOpen, OneBuys, RefuseCancel \/ AlreadyCanceled \/ CancelOrder
  PROVE  OneBuys'
<1> DEFINE o == task.o
<1>1. /\ task.at = "cancel" /\ task.at \notin Recording /\ o \in Orders /\ trade \notin Rowless
      /\ ex[o].status # "none" /\ rows[o].status # "none" /\ task.snap.status # "none"
      /\ (task.snap.side = "entry" <=> ex[o].side = "entry")
      /\ (ex[o].status = "open" => task.snap.status = "open")
      /\ (rows[o].side = "entry" <=> ex[o].side = "entry")
  BY OneFacts DEF RefuseCancel, AlreadyCanceled, CancelOrder, OrderAt, AtWork, Recording, Tracks, SidesAgree
<1>2. /\ TypeOK /\ ex \in [Orders -> Order] /\ rows \in [Orders -> Order] /\ task.snap \in Order
      /\ unknown \in SUBSET Orders /\ faults \in 0..MaxFaults /\ Moves(ex, ex)
  BY OneFacts, SameMoves
<1>3. CASE RefuseCancel
  BY <1>1, <1>2, <1>3, ReturnKept, GoOne DEF RefuseCancel
<1>4. ASSUME NEW s \in Order, ex' \in [Orders -> Order], Moves(ex, ex'), Newer(s, o, rows, ex'),
             unknown' = unknown, faults' = faults
      PROVE  /\ (CanceledEntry(o, s, task.repl, At(task.then)) /\ s.status \in NonOpen) => OneBuys'
             /\ UpdateTradeState(o, s, TRUE, Return(FALSE)) => OneBuys'
             /\ (UpdateTradeState(o, s, TRUE, Return(TRUE)) /\ s.side # "entry") => OneBuys'
  <2> DEFINE k == At(task.then)
             n == [rows EXCEPT ![o] = s]
  <2>1. ASSUME NEW b \in BOOLEAN, b => s.side # "entry" \/ s.status # "open"
        PROVE  Return(b) \in Task /\ Return(b).at \in Returns /\ Doing(Return(b), n, ex', trade)
    BY <1>1, <1>4, <2>1, ReturnDoing
  <2>2. ASSUME NEW b \in BOOLEAN, b => s.side # "entry" \/ s.status # "open",
               UpdateTradeState(o, s, TRUE, Return(b))
        PROVE  OneBuys'
    <3>1. Return(b) \in Task /\ Return(b).at \in Returns /\ Doing(Return(b), n, ex', trade)
      BY <2>1, <2>2
    <3> QED BY <1>1, <1>2, <1>4, <2>2, <3>1, UpdateOne
  <2>3. ASSUME CanceledEntry(o, s, task.repl, k), s.status \in NonOpen PROVE OneBuys'
    <3>1. s.status # "open"
      BY <2>3 DEF NonOpen
    <3>2. \A b \in BOOLEAN : Doing([k EXCEPT !.res = b], n, ex', trade)
      BY <2>1, <3>1 DEF Return
    <3>3. k \in Task /\ k.at \in Returns
      <4>1. task.then \in Labels /\ task.then \in Returns
        BY OneFacts DEF Task, Labelled, BackAtForce
      <4> QED BY <4>1, OneFacts DEF At, Task
    <3> HIDE DEF k
    <3> QED BY <1>1, <1>4, <2>3, <3>2, <3>3, CanceledOne
  <2> QED BY <2>2, <2>3
<1>5. CASE AlreadyCanceled
  <2>1. ex' = ex /\ unknown' = unknown /\ faults' = faults /\ task.snap.status \in NonOpen
    BY <1>5 DEF AlreadyCanceled, Outside
  <2>2. Newer(task.snap, o, rows, ex')
    BY <1>1, <2>1 DEF Newer, NonOpen
  <2> QED BY <1>2, <1>4, <1>5, <2>1, <2>2 DEF AlreadyCanceled
<1>6. ASSUME NEW s \in Order, HandleCanceled(o, s), ex' \in [Orders -> Order], Moves(ex, ex'),
             Newer(s, o, rows, ex'), unknown' = unknown, faults' = faults
      PROVE  OneBuys'
  <2>1. CASE s.side # "entry" /\ UpdateTradeState(o, s, TRUE, Return(TRUE))
    BY <1>4, <1>6, <2>1
  <2>2. CASE task' = Return(FALSE) /\ Bot
    BY <1>1, <1>2, <1>6, <2>2, ReturnKept, StepOne
  <2>3. CASE s.status # "open" /\ CanceledEntry(o, s, task.repl, At(task.then))
    <3>1. s.status \in NonOpen
      BY <1>6, <2>3 DEF Order, NonOpen, Newer
    <3> QED BY <1>4, <1>6, <2>3, <3>1
  <2> QED BY <1>6, <2>1, <2>2, <2>3 DEF HandleCanceled
<1>7. CASE CancelOrder
  <2>1. unknown' = unknown /\ faults' = faults
    BY <1>7 DEF CancelOrder
  <2>2. CASE ex' = CancelOnExchange(o) /\ HandleCanceled(o, [ex'[o] EXCEPT !.side = rows[o].side])
    <3> DEFINE s == [ex'[o] EXCEPT !.side = rows[o].side]
    <3>1. ex' \in [Orders -> Order] /\ Moves(ex, ex') /\ ex'[o].status # "open"
      BY <1>1, <1>2, <2>2, CancelMoves, CancelSides
    <3>2. s \in Order /\ s.status = ex'[o].status /\ s.side = rows[o].side
      BY <1>1, <1>2, <3>1 DEF Order
    <3>3. ex'[o].status # "none" /\ ex'[o].side = ex[o].side
      BY <1>1, <3>1 DEF Moves, ExchangeMoves
    <3>4. Newer(s, o, rows, ex')
      BY <1>1, <3>1, <3>2, <3>3 DEF Newer
    <3> HIDE DEF s
    <3>5. HandleCanceled(o, s)
      BY <2>2 DEF s
    <3> QED BY <1>6, <2>1, <3>1, <3>2, <3>4, <3>5
  <2>3. CASE ex' = ex /\ HandleCanceled(o, Snapshot(o))
    <3>1. Snapshot(o) \in Order /\ Newer(Snapshot(o), o, rows, ex')
      BY <1>1, <1>2, <2>3, SnapshotFacts, SnapshotNewer DEF Rowless
    <3> QED BY <1>2, <1>6, <2>1, <2>3, <3>1
  <2>4. CASE ex' = CancelOnExchange(o) /\ HandleCanceled(o, Fabricated(o))
    <3>1. ex' \in [Orders -> Order] /\ Moves(ex, ex') /\ ex'[o].status # "open"
      BY <1>1, <1>2, <2>4, CancelMoves, CancelSides
    <3>2. rows[o] \in Order /\ rows[o].amount - rows[o].filled \in Nat
      BY <1>1, <1>2, RemainingType DEF Remaining
    <3>3. Fabricated(o) \in Order /\ Fabricated(o).status = "canceled" /\ Fabricated(o).side = rows[o].side
      <4> DEFINE left == rows[o].amount - rows[o].filled
      <4>1. Fabricated(o) = [rows[o] EXCEPT !.status = "canceled", !.filled = 0, !.amount = left]
        BY DEF Fabricated
      <4>2. left \in Nat /\ 0 <= left
        BY <3>2
      <4> HIDE DEF left
      <4>3. Fabricated(o) = [side |-> rows[o].side, amount |-> left, filled |-> 0, status |-> "canceled"]
        BY <3>2, <4>1 DEF Order
      <4> QED BY <3>2, <4>2, <4>3 DEF Order, NonOpen
    <3>4. ex'[o].status # "none" /\ ex'[o].side = ex[o].side
      BY <1>1, <3>1 DEF Moves, ExchangeMoves
    <3>5. Newer(Fabricated(o), o, rows, ex')
      BY <1>1, <3>1, <3>3, <3>4 DEF Newer
    <3> QED BY <1>6, <2>1, <2>4, <3>1, <3>3, <3>5
  <2> QED BY <1>7, <2>2, <2>3, <2>4 DEF CancelOrder
<1> QED BY <1>3, <1>5, <1>7

LEMMA ReplacedOne ==
  ASSUME OneBuys, Managed \/ Replaced
  PROVE  OneBuys'
<1>1. /\ task.at \in {"managed", "replaced"} /\ task.o \in Orders /\ task.at \notin Recording /\ trade \notin Rowless
      /\ TypeOK /\ Outside
  BY OneFacts DEF Managed, Replaced, Labelled, BackAtForce, AtWork, Recording, JustGo
<1>2. Remaining(task.o) \in Nat
  BY <1>1, RemainingType
<1>3. CASE JustGo(ExitFlow(Remaining(task.o)))
  BY <1>1, <1>2, <1>3, ExitFlowOne
<1>4. CASE task' = Done /\ Bot
  BY <1>1, <1>4, DoneOne
<1>5. CASE ReplaceOrderFailed
  BY <1>1, <1>5, ReplaceFailedOne
<1>6. ASSUME task.at = "replaced", task.res, rows[task.o].side = "entry",
             JustGo(EntryFlow([Idle EXCEPT !.size = Remaining(task.o), !.mode = "replace"]))
      PROVE  OneBuys'
  <2> DEFINE i == [Idle EXCEPT !.size = Remaining(task.o), !.mode = "replace"]
             p == [i EXCEPT !.at = "placeEntry"]
             c == [i EXCEPT !.at = "cancelOpen", !.after = "placeEntry", !.todo = OpenOrders(rows), !.repl = TRUE]
  <2>1. LiveEntries(rows) = {}
    BY <1>6, OneFacts DEF NoSecondEntry, BackAtReplaced
  <2>2. OpenOrders(rows) \in SUBSET Orders /\ \A q \in OpenOrders(rows) : rows[q].status # "none" /\ ex[q].status # "none"
    BY OneFacts DEF OpenOrders, Tracks, NeverAhead
  <2>3. p \in Task /\ c \in Task
    BY <1>2, <2>2, IdleType, LabelFacts DEF Task
  <2>4. Doing(p, rows, ex, trade)
    BY <1>1, <2>1 DEF Doing, Idle, Labelled, BackAtForce, Lists, OrderAt, NoSecondEntry, AtWork, BackAtReplaced,
         Returns, LoopReturns, Recording, Rowless
  <2>5. /\ c.at = "cancelOpen" /\ c.after = "placeEntry" /\ c.then = "idle" /\ c.todo = OpenOrders(rows)
        /\ c.stops = {}
    BY DEF Idle
  <2> HIDE DEF p, c
  <2>6. Doing(c, rows, ex, trade)
    BY <1>1, <2>1, <2>2, <2>5 DEF Doing, Labelled, BackAtForce, Lists, OrderAt, NoSecondEntry, AtWork, BackAtReplaced,
         Returns, LoopReturns, Recording, Rowless
  <2>7. JustGo(p) \/ JustGo(c)
    BY <1>6 DEF EntryFlow, p, c
  <2> QED BY <1>1, <2>3, <2>4, <2>6, <2>7, GoOne
<1>7. CASE Managed
  BY <1>3, <1>4, <1>7 DEF Managed, JustGo
<1>8. CASE Replaced
  <2>1. task.at = "replaced"
    BY <1>8 DEF Replaced
  <2> QED BY <1>1, <1>3, <1>4, <1>5, <1>6, <1>8, <2>1 DEF Replaced, JustGo
<1> QED BY <1>7, <1>8

LEMMA LoopOne ==
  ASSUME OneBuys, CancelledOpen \/ CancelAllOpenOrders \/ \E o \in Orders : CancelNextOpen(o) \/ RpcCancelOpenOrder(o)
  PROVE  OneBuys'
<1>1. task \in Task /\ Tracks(rows, ex) /\ TypeOK
  BY OneFacts
<1>2. CASE CancelledOpen
  <2> DEFINE k == At(task.after)
  <2>1. /\ task.at = "cancelOpen" /\ task.todo = {} /\ task.at \notin Recording /\ trade \notin Rowless
        /\ task.after \in LoopReturns /\ task.after \in Labels /\ JustGo(k)
    BY <1>2, OneFacts DEF CancelledOpen, Labelled, BackAtForce, AtWork, Recording, Task
  <2>2. /\ k \in Task /\ k.at = task.after /\ k.then = task.then /\ k.after = task.after /\ k.o = task.o
        /\ k.todo = {} /\ k.stops = task.stops /\ k.res = task.res
    BY <1>1, <2>1 DEF At, Task
  <2> HIDE DEF k
  <2>3. Labelled(k) /\ Lists(k, rows, ex) /\ OrderAt(k, rows, ex)
    BY <2>1, <2>2, OneFacts DEF Labelled, BackAtForce, Lists, OrderAt, LoopReturns, Recording
  <2>4. NoSecondEntry(k, rows)
    BY <2>1, <2>2, OneFacts DEF NoSecondEntry, LoopReturns, BackAtReplaced, Buying
  <2>5. AtWork(k, trade)
    BY <2>1 DEF AtWork, Rowless
  <2> QED BY <2>1, <2>2, <2>3, <2>4, <2>5, GoOne DEF Doing
<1>3. CASE CancelAllOpenOrders
  <2> DEFINE k == [task EXCEPT !.at = "cancelOpen", !.after = "commit", !.todo = OpenOrders(rows)]
  <2>1. task = Idle /\ task.at \notin Recording /\ trade \notin Rowless /\ JustGo(k) /\ OpenOrders(rows) \in SUBSET Orders
    BY <1>3, IdleFacts DEF CancelAllOpenOrders, Rowless, OpenOrders
  <2>2. /\ k \in Task /\ k.at = "cancelOpen" /\ k.then = "idle" /\ k.after = "commit" /\ k.stops = {}
        /\ k.todo = OpenOrders(rows) /\ ~k.res
    BY <1>1, <2>1, LabelFacts, IdleFacts DEF Task, Idle
  <2>3. \A o \in OpenOrders(rows) : rows[o].status # "none"
    BY DEF OpenOrders
  <2> HIDE DEF k
  <2> QED BY <2>1, <2>2, <2>3, BeginDoing, GoOne DEF Returns
<1>4. ASSUME NEW o \in Orders, CancelNextOpen(o) PROVE OneBuys'
  <2> DEFINE rest == [task EXCEPT !.todo = task.todo \ {o}]
             k == [rest EXCEPT !.at = "cancel", !.then = "cancelOpen", !.o = o, !.snap = Snapshot(o)]
  <2>1. /\ task.at = "cancelOpen" /\ o \in task.todo /\ task.at \notin Recording /\ ~InAdopt(task)
        /\ trade \notin Rowless /\ rows[o].status # "none"
    BY <1>4, OneFacts DEF CancelNextOpen, Recording, InAdopt, AtWork, Lists
  <2>2. rest \in Task /\ Doing(rest, rows, ex, trade)
    BY RestDoing
  <2>3. Snapshot(o) \in Order
    BY <1>1, SnapshotFacts
  <2>4. /\ k \in Task /\ k.at = "cancel" /\ k.then = "cancelOpen" /\ k.o = o /\ k.snap = Snapshot(o)
        /\ k.after = task.after /\ k.stops = task.stops /\ k.todo \in SUBSET task.todo
    BY <1>1, <2>3, LabelFacts DEF Task
  <2>5. JustGo(k) \/ JustGo(rest)
    BY <1>4 DEF CancelNextOpen
  <2> HIDE DEF k, rest
  <2>6. Doing(k, rows, ex, trade)
    BY <2>1, <2>4, ToCancelDoing
  <2> QED BY <2>1, <2>2, <2>4, <2>5, <2>6, GoOne
<1>5. ASSUME NEW o \in Orders, RpcCancelOpenOrder(o) PROVE OneBuys'
  <2> DEFINE k == [task EXCEPT !.at = "cancel", !.then = "managed", !.o = o, !.snap = Snapshot(o)]
  <2>1. /\ task = Idle /\ task.at \notin Recording /\ ~InAdopt(task)
        /\ trade \notin Rowless /\ rows[o].status # "none" /\ JustGo(k)
    BY <1>5, IdleFacts DEF RpcCancelOpenOrder, InAdopt, Rowless, OpenOrders
  <2>2. Snapshot(o) \in Order
    BY <1>1, SnapshotFacts
  <2>3. /\ k \in Task /\ k.at = "cancel" /\ k.then = "managed" /\ k.o = o /\ k.snap = Snapshot(o)
        /\ k.after = task.after /\ k.stops = task.stops /\ k.todo \in SUBSET task.todo
    BY <1>1, <2>2, LabelFacts DEF Task
  <2> HIDE DEF k
  <2>4. Doing(k, rows, ex, trade)
    BY <2>1, <2>3, ToCancelDoing
  <2> QED BY <2>1, <2>3, <2>4, GoOne
<1> QED BY <1>2, <1>3, <1>4, <1>5

LEMMA ForceOne ==
  ASSUME ~PositionAdjustment, OneBuys,
         ExitSignal \/ AdjustExit \/ ForceExit \/ ForceExitNow \/ \E o \in Orders : ForceNext(o)
  PROVE  OneBuys'
<1>1. task \in Task /\ Tracks(rows, ex) /\ TypeOK
  BY OneFacts
<1>2. CASE ExitSignal
  BY <1>2, ExitFlowOne, IdleFacts DEF ExitSignal, Rowless
<1>3. CASE ForceExit
  <2> DEFINE k == [task EXCEPT !.at = "force", !.todo = OpenOrders(rows)]
  <2>1. task = Idle /\ task.at \notin Recording /\ trade \notin Rowless /\ JustGo(k) /\ OpenOrders(rows) \in SUBSET Orders
    BY <1>3, IdleFacts DEF ForceExit, Rowless, OpenOrders
  <2>2. /\ k \in Task /\ k.at = "force" /\ k.then = "idle" /\ k.after = "idle" /\ k.stops = {}
        /\ k.todo = OpenOrders(rows) /\ ~k.res
    BY <1>1, <2>1, LabelFacts, IdleFacts DEF Task, Idle
  <2>3. \A o \in OpenOrders(rows) : rows[o].status # "none"
    BY DEF OpenOrders
  <2> HIDE DEF k
  <2> QED BY <2>1, <2>2, <2>3, BeginDoing, GoOne DEF Returns
<1>4. CASE ForceExitNow
  <2>1. task.at \notin Recording /\ trade \notin Rowless /\ (JustGo(Done) \/ JustGo(ExitFlow(0)))
    BY <1>4, OneFacts DEF ForceExitNow, Recording, AtWork
  <2> QED BY <2>1, ExitFlowOne, DoneOne DEF JustGo
<1>5. ASSUME NEW o \in Orders, ForceNext(o) PROVE OneBuys'
  <2> DEFINE more == task.seen \cup (IF task.res THEN {task.o} ELSE {})
             k == [task EXCEPT !.at = "cancel", !.then = "force", !.o = o, !.todo = task.todo \ {o},
                               !.seen = more, !.snap = Snapshot(o)]
  <2>1. /\ task.at = "force" /\ o \in task.todo /\ task.at \notin Recording /\ ~InAdopt(task)
        /\ trade \notin Rowless /\ rows[o].status # "none" /\ JustGo(IF Found(o) THEN k ELSE Done)
    BY <1>5, OneFacts DEF ForceNext, Recording, InAdopt, AtWork, Lists
  <2>2. CASE JustGo(Done)
    BY <2>1, <2>2, DoneOne DEF JustGo
  <2>3. CASE JustGo(k)
    <3>1. Snapshot(o) \in Order
      BY <1>1, SnapshotFacts
    <3>2. /\ k.at = "cancel" /\ k.then = "force" /\ k.o = o /\ k.snap = Snapshot(o)
          /\ k.after = task.after /\ k.stops = task.stops /\ k.todo \in SUBSET task.todo
      BY <1>1 DEF Task
    <3>3. k \in Task
      <4>1. more \in SUBSET Orders
        BY <1>1, <2>1, OneFacts DEF Labelled, BackAtForce, Task
      <4> HIDE DEF more
      <4> QED BY <1>1, <3>1, <4>1, LabelFacts DEF Task
    <3> HIDE DEF k
    <3>4. Doing(k, rows, ex, trade)
      BY <2>1, <3>2, <3>3, ToCancelDoing
    <3> QED BY <2>1, <2>3, <3>3, <3>4, GoOne
  <2> QED BY <2>1, <2>2, <2>3
<1> QED BY <1>2, <1>3, <1>4, <1>5 DEF AdjustExit

\* Every open order is fetched because there is not enough to sell.
LEMMA RefindDoing ==
  ASSUME OneBuys, trade \notin Rowless
  PROVE  LET k == [Idle EXCEPT !.at = "refind", !.todo = Open(rows)]
         IN k \in Task /\ Doing(k, rows, ex, trade)
<1> DEFINE k == [Idle EXCEPT !.at = "refind", !.todo = Open(rows)]
<1>1. Open(rows) \in SUBSET Orders /\ \A o \in Open(rows) : rows[o].status # "none"
  BY DEF Open
<1>2. k \in Task
  BY <1>1, IdleType, LabelFacts DEF Task
<1>3. k.at = "refind" /\ k.then = "idle" /\ k.after = "idle" /\ k.stops = {} /\ k.todo = Open(rows) /\ ~k.res
  BY DEF Idle
<1> HIDE DEF k
<1> QED BY <1>1, <1>2, <1>3, BeginDoing DEF Returns, k

LEMMA ExitOne ==
  ASSUME TradeAssumption, OneBuys, CheckExitAmount \/ PlaceExit \/ RefuseExit \/ RecordExit
  PROVE  OneBuys'
<1>1. /\ task \in Task /\ Tracks(rows, ex) /\ TypeOK /\ rows \in [Orders -> Order] /\ ex \in [Orders -> Order]
      /\ amount \in Nat /\ task.size \in Nat /\ unknown \in SUBSET Orders /\ faults \in 0..MaxFaults
  BY OneFacts
<1>2. task.at \in {"checkAmount", "placeExit", "recordExit"} /\ trade \notin Rowless
  BY OneFacts DEF CheckExitAmount, PlaceExit, RefuseExit, RecordExit, AtWork
<1>3. CASE CheckExitAmount
  <2> DEFINE want == IF task.size = 0 THEN amount ELSE task.size
             k == [task EXCEPT !.size = want]
             p == [k EXCEPT !.at = "placeExit"]
             c == [k EXCEPT !.at = "cancelOpen", !.after = "placeExit", !.todo = OpenOrders(rows), !.repl = TRUE]
  <2>1. task.at = "checkAmount" /\ task.at \notin Recording /\ want \in Nat /\ OpenOrders(rows) \in SUBSET Orders
    BY <1>1, <1>3 DEF CheckExitAmount, Recording, OpenOrders
  <2>2. JustGo(Done) \/ JustGo(p) \/ JustGo(c)
    BY <1>3 DEF CheckExitAmount
  <2> HIDE DEF want
  <2>3. /\ p \in Task /\ p.at = "placeExit" /\ p.then = task.then /\ p.after = task.after /\ p.o = task.o
        /\ p.todo = task.todo /\ p.stops = task.stops /\ p.res = task.res
        /\ c \in Task /\ c.at = "cancelOpen" /\ c.then = task.then /\ c.after = "placeExit" /\ c.o = task.o
        /\ c.todo = OpenOrders(rows) /\ c.stops = task.stops /\ c.res = task.res
    BY <1>1, <2>1, LabelFacts DEF Task
  <2>4. \A o \in OpenOrders(rows) : rows[o].status # "none" /\ ex[o].status # "none"
    BY <1>1 DEF OpenOrders, Tracks, NeverAhead
  <2> HIDE DEF p, c
  <2>5. Labelled(p) /\ Labelled(c)
    BY <2>1, <2>3, OneFacts DEF Labelled, BackAtForce, LoopReturns
  <2>6. Lists(p, rows, ex)
    BY <2>1, <2>3, OneFacts DEF Lists, InAdopt
  <2>7. Lists(c, rows, ex)
    BY <2>1, <2>3, <2>4, OneFacts DEF Lists, InAdopt
  <2>8. OrderAt(p, rows, ex) /\ OrderAt(c, rows, ex)
    BY <2>3 DEF OrderAt, Recording
  <2>9. NoSecondEntry(p, rows) /\ NoSecondEntry(c, rows)
    BY <2>1, <2>3, OneFacts DEF NoSecondEntry, BackAtReplaced, Buying
  <2>10. AtWork(p, trade) /\ AtWork(c, trade)
    BY <1>2 DEF AtWork, Rowless
  <2>11. Doing(p, rows, ex, trade) /\ Doing(c, rows, ex, trade)
    BY <2>5, <2>6, <2>7, <2>8, <2>9, <2>10 DEF Doing
  <2> QED BY <2>1, <2>2, <2>3, <2>11, GoOne, DoneOne DEF JustGo
<1>4. CASE PlaceExit
  <2> DEFINE k == [task EXCEPT !.at = "recordExit"]
  <2>1. task.at = "placeExit" /\ Placed("exit", task.size, k)
    BY <1>4 DEF PlaceExit, At
  <2>2. k \in Task /\ k.at = "recordExit" /\ k.then = task.then /\ k.after = task.after /\ k.todo = task.todo
        /\ k.stops = task.stops /\ k.o = task.o /\ k.res = task.res
    BY <1>1, LabelFacts DEF Task
  <2> HIDE DEF k
  <2>3. Labelled(k)
    BY <2>1, <2>2, OneFacts DEF Labelled, BackAtForce
  <2>4. Lists(k, rows, ex)
    BY <2>1, <2>2, OneFacts DEF Lists, InAdopt
  <2>5. AtWork(k, trade) /\ k.at \in Recording /\ task.at \notin Recording
    BY <1>2, <2>1, <2>2 DEF AtWork, Rowless, Recording
  <2>6. Buying(k) => LiveEntries(rows) = {}
    BY <2>1, <2>2, OneFacts DEF NoSecondEntry, Buying
  <2> QED BY <1>1, <2>1, <2>2, <2>3, <2>4, <2>5, <2>6, PlacedOne
<1>5. CASE RefuseExit
  <2>1. task.at \notin Recording /\ (JustGo([Idle EXCEPT !.at = "refind", !.todo = Open(rows)]) \/ JustGo(Done))
    BY <1>5 DEF RefuseExit, Recording
  <2> QED BY <1>2, <2>1, RefindDoing, GoOne, DoneOne DEF JustGo
<1>6. CASE RecordExit
  <2> DEFINE o == task.o
             s == task.snap
             n == [rows EXCEPT ![o] = s]
  <2>1. /\ task.at = "recordExit" /\ o \in Orders /\ s \in Order /\ ex' = ex /\ unknown' = unknown /\ faults' = faults
        /\ Moves(ex, ex) /\ trade # "deleted"
    BY <1>2, <1>6, SameMoves, OneFacts DEF RecordExit, OrderAt, Recording, Outside, Rowless
  <2>2. Newer(s, o, rows, ex)
    BY <2>1, OneFacts DEF OrderAt, Recording, Newer
  <2>3. Done \in Task /\ Doing(Done, n, ex, trade) /\ Done.at \in Returns
    BY IdleType, DoneDoing DEF Done, Idle, Returns
  <2>4. CASE UpdateTradeState(o, s, TRUE, Done)
    <3> HIDE DEF s
    <3> QED BY <1>1, <1>2, <2>1, <2>2, <2>3, <2>4, UpdateOne
  <2>5. CASE Save(n, trade, amount) /\ task' = Done
    <3>1. n \in [Orders -> Order] /\ trade \in States
      BY <1>1, <2>1 DEF TypeOK
    <3>2. /\ rows' \in [Orders -> Order] /\ trade' \in States /\ amount' \in Nat
          /\ db' \in [rows : [Orders -> Order], trade : States, amount : Nat]
          /\ rows' = n /\ db'.rows = rows' /\ trade' = trade /\ db'.trade = trade'
      BY <1>1, <2>5, <3>1, SaveType DEF Save, Committed
    <3>3. Tracks(n, ex)
      BY <1>1, <2>1, <2>2, TracksUpdate
    <3>5. Tracks(rows', ex') /\ Doing(task', rows', ex', trade') /\ task' \in Task
      BY <2>1, <2>3, <2>5, <3>2, <3>3
    <3>4. rows' = [rows EXCEPT ![o] = s] /\ trade' \notin Rowless /\ ex' \in [Orders -> Order] /\ Moves(ex, ex')
          /\ (ex'[o].status = "open" => s.status = "open")
      BY <1>1, <1>2, <2>1, <2>2, <3>2 DEF Newer
    <3> HIDE DEF s, n
    <3> QED BY <1>1, <1>2, <2>1, <3>2, <3>5, <3>4, RowOne
  <2> QED BY <1>6, <2>4, <2>5 DEF RecordExit
<1> QED BY <1>3, <1>4, <1>5, <1>6

LEMMA RefindOne ==
  ASSUME OneBuys, Refound \/ Started \/ \E o \in Orders : Refind(o)
  PROVE  OneBuys'
<1>1. CASE Refound \/ Started
  BY <1>1, DoneOne DEF Refound, Started, JustGo, Recording
<1>2. ASSUME NEW o \in Orders, Refind(o) PROVE OneBuys'
  <2> DEFINE rest == [task EXCEPT !.todo = task.todo \ {o}]
             s    == Snapshot(o)
  <2>1. /\ task.at = "refind" /\ task.at \notin Recording /\ trade \notin Rowless /\ ~InAdopt(task)
        /\ ex[o].status # "none" /\ rows[o].status # "none"
        /\ Outside /\ (UpdateTradeState(o, s, TRUE, rest) \/ (task' = rest /\ Bot))
    BY <1>2, OneFacts DEF Refind, Recording, AtWork, Lists, InAdopt
  <2>2. rest \in Task /\ Doing(rest, rows, ex, trade) /\ rest.at = task.at
    BY RestDoing
  <2>3. /\ ex' = ex /\ Moves(ex, ex) /\ ex \in [Orders -> Order] /\ unknown' \in SUBSET Orders /\ faults' = faults
        /\ rows \in [Orders -> Order] /\ Tracks(rows, ex) /\ faults' \in 0..MaxFaults
    BY <2>1, SameMoves, OneFacts DEF Outside
  <2>4. s \in Order /\ Newer(s, o, rows, ex)
    BY <2>1, OneFacts, SnapshotFacts, SnapshotNewer DEF Rowless
  <2> HIDE DEF rest, s
  <2>5. CASE UpdateTradeState(o, s, TRUE, rest)
    <3>1. Doing(rest, [rows EXCEPT ![o] = s], ex, trade)
      BY <2>1, <2>2, <2>3, <2>4, DoingUpdate
    <3>2. rest.at \in Returns \cup {"stops"}
      BY <2>1, <2>2 DEF Returns
    <3> QED BY <2>1, <2>2, <2>3, <2>4, <2>5, <3>1, <3>2, UpdateOne
  <2>6. CASE task' = rest /\ Bot
    BY <2>1, <2>2, <2>3, <2>6, StepOne
  <2> QED BY <2>1, <2>5, <2>6
<1> QED BY <1>1, <1>2

\* An order that handle_onexchange_order found: it may have had no row.
LEMMA AdoptOne ==
  ASSUME OneBuys, NEW o \in Orders, AdoptOrder(o)
  PROVE  OneBuys'
<1> DEFINE rest == [task EXCEPT !.todo = task.todo \ {o}]
           s    == Snapshot(o)
<1>1. /\ task.at = "adopt" /\ task.at \notin Recording /\ trade \notin Rowless /\ InAdopt(task)
      /\ ex[o].status # "none" /\ UpdateTradeState(o, s, FALSE, rest)
      /\ ex' = ex /\ faults' = faults /\ unknown' = unknown \ {o} /\ ~BackAtReplaced(task)
  BY OneFacts DEF AdoptOrder, Recording, AtWork, Lists, InAdopt, BackAtReplaced
<1>2. rest \in Task /\ Doing(rest, rows, ex, trade) /\ rest.at = task.at
  BY RestDoing
<1>3. /\ Moves(ex, ex) /\ ex \in [Orders -> Order] /\ unknown' \in SUBSET Orders
      /\ rows \in [Orders -> Order] /\ Tracks(rows, ex)
  BY <1>1, SameMoves, OneFacts
<1>4. s \in Order /\ Newer(s, o, rows, ex)
  BY <1>1, OneFacts, SnapshotFacts, SnapshotNewer DEF Rowless
<1> HIDE DEF rest, s
<1>5. ~BackAtReplaced(rest) /\ rest.at # "cancel"
  BY <1>1, <1>2 DEF BackAtReplaced
<1>6. Doing(rest, [rows EXCEPT ![o] = s], ex, trade)
  BY <1>2, <1>3, <1>4, <1>5, DoingUpdate
<1>7. rest.at \in Returns \cup {"stops"}
  BY <1>1, <1>2 DEF Returns
<1> QED BY <1>1, <1>2, <1>3, <1>4, <1>6, <1>7, UpdateOne

LEMMA ReloadOne ==
  ASSUME OneBuys, ReloadTrade \/ Adopted \/ Abort
  PROVE  OneBuys'
<1>1. CASE ReloadTrade
  <2> DEFINE k == [task EXCEPT !.at = "adopt", !.size = amount, !.todo = {o \in Orders : ex[o].status # "none"}]
  <2>1. task = Idle /\ task.at \notin Recording /\ trade \notin Rowless /\ JustGo(k)
    BY <1>1, IdleFacts DEF ReloadTrade, Rowless
  <2>2. /\ k \in Task /\ k.at = "adopt" /\ k.then = "idle" /\ k.after = "idle" /\ k.stops = {} /\ ~k.res
        /\ k.todo = {o \in Orders : ex[o].status # "none"}
    BY <2>1, LabelFacts, IdleFacts, OneFacts DEF Task, Idle
  <2> HIDE DEF k
  <2>3. Doing(k, rows, ex, trade)
    BY <2>1, <2>2 DEF Doing, Labelled, BackAtForce, Lists, OrderAt, NoSecondEntry, AtWork, InAdopt, BackAtReplaced, Buying,
         Returns, LoopReturns, Recording
  <2> QED BY <2>1, <2>2, <2>3, GoOne
<1>2. CASE Adopted
  <2> DEFINE stops == IF trade = "open" /\ amount # task.size THEN OpenStops(rows) ELSE {}
  <2>1. /\ task.at \notin Recording /\ trade \notin Rowless /\ Outside
        /\ DeleteTrade \/ (task' = StopsFirst(Done, stops) /\ Bot)
    BY <1>2, OneFacts DEF Adopted, Recording, AtWork
  <2>2. /\ ex' = ex /\ Moves(ex, ex) /\ ex \in [Orders -> Order] /\ unknown' \in SUBSET Orders
        /\ faults' \in 0..MaxFaults
    BY <2>1, SameMoves, OneFacts DEF Outside
  <2>3. stops \in SUBSET OpenStops(rows) /\ stops \in SUBSET Orders
    BY DEF OpenStops
  <2> HIDE DEF stops
  <2>4. StopsFirst(Done, stops) \in Task /\ Doing(StopsFirst(Done, stops), rows, ex, trade)
    <3>1. Done \in Task /\ Doing(Done, rows, ex, trade) /\ Done.at \in Returns
      BY IdleType, DoneDoing DEF Done, Idle, Returns
    <3>2. \A o \in stops : ex[o].status # "none" /\ ex[o].side # "entry" /\ rows[o].status # "none"
      BY <2>3, OneFacts, StopsTracked
    <3> QED BY <2>1, <2>3, <3>1, <3>2, StopsFirstType, StopsFirstDoing
  <2>5. CASE DeleteTrade
    BY <2>2, <2>5, DeleteOne
  <2>6. CASE task' = StopsFirst(Done, stops) /\ Bot
    BY <2>1, <2>2, <2>4, <2>6, StepOne
  <2> QED BY <2>1, <2>5, <2>6
<1>3. CASE Abort
  <2>1. task.at \notin Recording /\ Outside /\ (ReplaceOrderFailed \/ (task' = Done /\ Bot))
    BY <1>3 DEF Abort, Recording
  <2> QED BY <2>1, ReplaceFailedOne, DoneOne
<1> QED BY <1>1, <1>2, <1>3

\* cancel_stoploss_on_exchange, one order.
LEMMA CancelStopOne ==
  ASSUME Missing \subseteq NonOpen, OneBuys, NEW o \in Orders, CancelStop(o)
  PROVE  OneBuys'
<1> DEFINE rest == [task EXCEPT !.at = IF task.stops = {o} THEN task.then ELSE "stops",
                                !.stops = task.stops \ {o}]
<1>1. /\ task.at = "stops" /\ o \in task.stops /\ task.at \notin Recording /\ trade \notin Rowless
      /\ ex[o].status # "none" /\ ex[o].side # "entry" /\ rows[o].status # "none"
      /\ unknown' = unknown /\ faults' = faults
  BY OneFacts DEF CancelStop, Recording, AtWork, Lists
<1>2. /\ TypeOK /\ ex \in [Orders -> Order] /\ rows \in [Orders -> Order] /\ Moves(ex, ex) /\ Tracks(rows, ex)
      /\ unknown' \in SUBSET Orders /\ faults' \in 0..MaxFaults /\ rows[o] \in Order /\ ex[o] \in Order
  BY <1>1, SameMoves, OneFacts DEF TypeOK
<1>3. /\ rest \in Task /\ rest.at \in {"stops", task.then} /\ rest.then = task.then /\ rest.after = task.after
      /\ rest.o = task.o /\ rest.todo = task.todo /\ rest.stops = task.stops \ {o} /\ rest.res = task.res
      /\ task.then \in Returns
  <2>1. task.then \in Labels /\ task.then \in Returns /\ "stops" \in Labels
    BY LabelFacts, OneFacts DEF Task, Labelled, BackAtForce
  <2> QED BY <2>1, OneFacts DEF Task
<1> HIDE DEF rest
<1>4. Doing(rest, rows, ex, trade)
  <2>1. Labelled(rest)
    BY <1>1, <1>3, OneFacts DEF Labelled, BackAtForce, Returns
  <2>2. Lists(rest, rows, ex)
    BY <1>1, <1>3, OneFacts DEF Lists, InAdopt
  <2>3. OrderAt(rest, rows, ex)
    BY <1>3 DEF OrderAt, Returns, Recording
  <2>4. NoSecondEntry(rest, rows)
    BY <1>1, <1>3, OneFacts DEF NoSecondEntry, BackAtReplaced, Buying, Returns
  <2>5. AtWork(rest, trade)
    BY <1>1 DEF AtWork, Rowless
  <2> QED BY <2>1, <2>2, <2>3, <2>4, <2>5 DEF Doing
<1>5. rest.at \in Returns \cup {"stops"}
  BY <1>3
<1>6. ASSUME NEW s \in Order, s.side # "entry", s.status # "none", UpdateTradeState(o, s, TRUE, rest),
             ex' = CancelOnExchange(o), s.status = "canceled"
      PROVE  OneBuys'
  <2>1. ex' \in [Orders -> Order] /\ Moves(ex, ex')
    BY <1>2, <1>6, CancelMoves, CancelSides
  <2>2. ex'[o].status = "canceled" \/ ex'[o].status # "open"
    BY <1>2, <1>6, <2>1 DEF CancelOnExchange, Order
  <2>3. ex'[o].status # "none" /\ ex'[o].side # "entry"
    BY <1>1, <2>1 DEF Moves, ExchangeMoves
  <2>4. Newer(s, o, rows, ex')
    BY <1>6, <2>2, <2>3 DEF Newer
  <2>5. Doing(rest, rows, ex', trade) /\ Tracks(rows, ex')
    BY <1>2, <1>3, <1>4, <2>1, DoingMoves, TracksMoves
  <2>6. Doing(rest, [rows EXCEPT ![o] = s], ex', trade)
    BY <1>1, <1>2, <1>3, <2>4, <2>5, DoingUpdate
  <2> QED BY <1>1, <1>2, <1>3, <1>5, <1>6, <2>1, <2>4, <2>6, UpdateOne
<1>7. CASE ex' = ex /\ task' = rest /\ Bot
  BY <1>1, <1>2, <1>3, <1>4, <1>7, StepOne
<1>8. CASE /\ ex[o].status = "open" /\ ex' = CancelOnExchange(o)
           /\ UpdateTradeState(o, [ex'[o] EXCEPT !.side = "stoploss"], TRUE, rest)
  <2> DEFINE s == [ex'[o] EXCEPT !.side = "stoploss"]
  <2>1. ex' \in [Orders -> Order] /\ ex'[o] \in Order
    BY <1>2, <1>8, CancelMoves
  <2>2. ex'[o].status = "canceled"
    BY <1>2, <1>8 DEF CancelOnExchange, Order
  <2>3. s \in Order /\ s.side = "stoploss" /\ s.status = "canceled"
    BY <2>1, <2>2 DEF Order
  <2> HIDE DEF s
  <2>4. UpdateTradeState(o, s, TRUE, rest)
    BY <1>8 DEF s
  <2> QED BY <1>6, <1>8, <2>3, <2>4
<1>9. CASE ex' = CancelOnExchange(o) /\ UpdateTradeState(o, [rows[o] EXCEPT !.status = "canceled"], TRUE, rest)
  <2> DEFINE s == [rows[o] EXCEPT !.status = "canceled"]
  <2>1. s \in Order /\ s.side = rows[o].side /\ s.status = "canceled"
    BY <1>2 DEF Order, NonOpen
  <2>2. rows[o].side # "entry"
    BY <1>1, <1>2 DEF Tracks, SidesAgree
  <2> HIDE DEF s
  <2>3. UpdateTradeState(o, s, TRUE, rest)
    BY <1>9 DEF s
  <2> QED BY <1>6, <1>9, <2>1, <2>2, <2>3
<1> QED BY <1>7, <1>8, <1>9 DEF CancelStop, rest

\* A stoploss order that was fetched.
LEMMA FetchStopOne ==
  ASSUME OneBuys, NEW o \in Orders, FetchStop(o)
  PROVE  OneBuys'
<1> DEFINE rest == [task EXCEPT !.todo = task.todo \ {o}]
           more == [rest EXCEPT !.seen = rest.seen \cup {o}]
           s    == Snapshot(o)
<1>1. /\ task.at = "fetchStops" /\ task.at \notin Recording /\ trade \notin Rowless /\ ~InAdopt(task)
      /\ ex[o].status # "none" /\ rows[o].status # "none" /\ Outside
      /\ \/ UpdateTradeState(o, s, TRUE, Done)
         \/ UpdateTradeState(o, s, TRUE, more)
         \/ task' = rest /\ Bot
  BY OneFacts DEF FetchStop, Recording, AtWork, Lists, InAdopt
<1>2. rest \in Task /\ Doing(rest, rows, ex, trade) /\ rest.at = task.at
  BY RestDoing
<1>3. /\ ex' = ex /\ Moves(ex, ex) /\ ex \in [Orders -> Order] /\ unknown' \in SUBSET Orders /\ faults' = faults
      /\ rows \in [Orders -> Order] /\ Tracks(rows, ex) /\ faults' \in 0..MaxFaults
  BY <1>1, SameMoves, OneFacts DEF Outside
<1>4. s \in Order /\ Newer(s, o, rows, ex)
  BY <1>1, OneFacts, SnapshotFacts, SnapshotNewer DEF Rowless
<1> HIDE DEF rest, s
<1>5. /\ more \in Task /\ more.at = rest.at /\ more.then = rest.then /\ more.after = rest.after /\ more.o = rest.o
      /\ more.snap = rest.snap /\ more.todo = rest.todo /\ more.stops = rest.stops /\ more.res = rest.res
  BY <1>2 DEF Task
<1> HIDE DEF more
<1>6. Doing(more, rows, ex, trade)
  BY <1>2, <1>5 DEF Doing, Labelled, BackAtForce, Lists, InAdopt, OrderAt, NoSecondEntry, BackAtReplaced,
       Buying, AtWork
<1>7. CASE task' = rest /\ Bot
  BY <1>1, <1>2, <1>3, <1>7, StepOne
<1>8. ASSUME NEW k \in Task, UpdateTradeState(o, s, TRUE, k), Doing(k, rows, ex, trade), k.at \in Returns
      PROVE  OneBuys'
  <2>1. Doing(k, [rows EXCEPT ![o] = s], ex, trade)
    BY <1>1, <1>3, <1>4, <1>8, DoingUpdate
  <2> QED BY <1>1, <1>3, <1>4, <1>8, <2>1, UpdateOne
<1>9. Done \in Task /\ Doing(Done, rows, ex, trade) /\ Done.at \in Returns
  BY IdleType, DoneDoing DEF Done, Idle, Returns
<1>10. more.at \in Returns
  BY <1>1, <1>2, <1>5 DEF Returns
<1> QED BY <1>1, <1>5, <1>6, <1>7, <1>8, <1>9, <1>10

LEMMA StoplossOne ==
  ASSUME TradeAssumption, OneBuys, ManageStoploss \/ FetchedStops \/ PlaceStop \/ RefuseStop
  PROVE  OneBuys'
<1>1. task \in Task /\ Tracks(rows, ex) /\ TypeOK /\ amount \in Nat
  BY OneFacts
<1>2. trade \notin Rowless /\ task.at \notin Recording
  BY IdleFacts, OneFacts DEF ManageStoploss, FetchedStops, PlaceStop, RefuseStop, AtWork, Rowless, Recording
<1>3. CASE ManageStoploss
  <2> DEFINE k == [task EXCEPT !.at = "fetchStops", !.todo = OpenStops(rows)]
  <2>1. task = Idle /\ JustGo(k) /\ OpenStops(rows) \in SUBSET Orders
    BY <1>3 DEF ManageStoploss, OpenStops
  <2>2. /\ k \in Task /\ k.at = "fetchStops" /\ k.then = "idle" /\ k.after = "idle" /\ k.stops = {}
        /\ k.todo = OpenStops(rows) /\ ~k.res
    BY <1>1, <2>1, LabelFacts, IdleFacts DEF Task, Idle
  <2>3. \A o \in OpenStops(rows) : rows[o].status # "none"
    BY DEF OpenStops
  <2> HIDE DEF k
  <2> QED BY <1>2, <2>1, <2>2, <2>3, BeginDoing, GoOne DEF Returns
<1>4. CASE FetchedStops
  <2> DEFINE k == [Idle EXCEPT !.at = "placeStop"]
  <2>1. JustGo(Done) \/ \E stops \in SUBSET OpenStops(rows) : JustGo(StopsFirst(k, stops))
    BY <1>4 DEF FetchedStops
  <2>2. /\ k \in Task /\ k.at = "placeStop" /\ k.then = "idle" /\ k.after = "idle" /\ k.stops = {}
        /\ k.todo = {} /\ ~k.res
    BY IdleType, LabelFacts DEF Task, Idle
  <2> HIDE DEF k
  <2>3. Doing(k, rows, ex, trade)
    BY <1>2, <2>2, BeginDoing DEF Returns
  <2>4. ASSUME NEW stops \in SUBSET OpenStops(rows), JustGo(StopsFirst(k, stops)) PROVE OneBuys'
    <3>1. stops \in SUBSET Orders /\ \A o \in stops : ex[o].status # "none" /\ ex[o].side # "entry" /\ rows[o].status # "none"
      BY <1>1, StopsTracked DEF OpenStops
    <3> QED BY <1>2, <2>2, <2>3, <2>4, <3>1, StopsFirstType, StopsFirstDoing, GoOne DEF Returns
  <2> QED BY <1>2, <2>1, <2>4, DoneOne DEF JustGo
<1>5. CASE PlaceStop
  <2> DEFINE k == [task EXCEPT !.at = "recordStop"]
  <2>1. task.at = "placeStop" /\ Placed("stoploss", amount, k)
    BY <1>5 DEF PlaceStop, At
  <2>2. k \in Task /\ k.at = "recordStop" /\ k.then = task.then /\ k.after = task.after /\ k.todo = task.todo
        /\ k.stops = task.stops /\ k.o = task.o /\ k.res = task.res
    BY <1>1, LabelFacts DEF Task
  <2> HIDE DEF k
  <2>3. Labelled(k)
    BY <2>1, <2>2, OneFacts DEF Labelled, BackAtForce
  <2>4. Lists(k, rows, ex)
    BY <2>1, <2>2, OneFacts DEF Lists, InAdopt
  <2>5. AtWork(k, trade) /\ k.at \in Recording
    BY <1>2, <2>1, <2>2 DEF AtWork, Rowless, Recording
  <2>6. Buying(k) => LiveEntries(rows) = {}
    BY <2>1, <2>2, OneFacts DEF NoSecondEntry, Buying
  <2> QED BY <1>1, <1>2, <2>1, <2>2, <2>3, <2>4, <2>5, <2>6, PlacedOne
<1>6. CASE RefuseStop
  <2>1. \/ JustGo(Done) \/ JustGo([Idle EXCEPT !.at = "refind", !.todo = Open(rows)]) \/ JustGo(ExitFlow(0))
    BY <1>6 DEF RefuseStop
  <2> QED BY <1>2, <2>1, RefindDoing, ExitFlowOne, GoOne, DoneOne DEF JustGo
<1> QED BY <1>3, <1>4, <1>5, <1>6

\* The row of a stoploss order waits for the commit of the caller.
LEMMA RecordStopOne ==
  ASSUME OneBuys, RecordStop \/ Commit
  PROVE  OneBuys'
<1>1. CASE RecordStop
  <2> DEFINE o == task.o
             s == task.snap
  <2>1. /\ task.at = "recordStop" /\ task.at \in Recording /\ o \in Orders /\ s \in Order /\ trade \notin Rowless
        /\ rows' = [rows EXCEPT ![o] = s] /\ task' = Done /\ UNCHANGED <<trade, amount, db, ex, unknown, faults>>
        /\ s.status # "none" /\ ex[o].status # "none" /\ (s.side = "entry" <=> ex[o].side = "entry")
        /\ (ex[o].status = "open" => s.status = "open") /\ s.side # "entry"
    BY <1>1, OneFacts DEF RecordStop, OrderAt, AtWork, Recording, Outside
  <2>2. Newer(s, o, rows, ex)
    BY <2>1 DEF Newer
  <2>3. /\ rows \in [Orders -> Order] /\ Tracks(rows, ex) /\ ex \in [Orders -> Order] /\ Moves(ex, ex)
        /\ unknown \in SUBSET Orders /\ trade \in States /\ amount \in Nat /\ db.trade = trade
        /\ db \in [rows : [Orders -> Order], trade : States, amount : Nat]
    BY SameMoves, OneFacts DEF OneBuys, TypeOK
  <2> HIDE DEF o, s
  <2>4. rows' \in [Orders -> Order] /\ Tracks(rows', ex)
    BY <2>1, <2>2, <2>3, TracksUpdate
  <2>5. task' \in Task /\ Doing(task', rows', ex', trade')
    BY <2>1, IdleType, DoneDoing
  <2> QED BY <2>1, <2>3, <2>4, <2>5, RowOne DEF Rowless, o
<1>2. CASE Commit
  <2>1. /\ task' = Idle /\ UNCHANGED <<rows, trade, amount, ex, unknown, faults>> /\ task.at \notin Recording
        /\ db'.rows = rows /\ db'.trade = trade
        /\ db' = [rows |-> rows, trade |-> trade, amount |-> amount]
    BY <1>2 DEF Commit, Outside, Committed, Recording
  <2>2. TypeOK'
    BY <2>1, IdleType, OneFacts DEF TypeOK
  <2>3. Doing(task', rows', ex', trade')
    BY <2>1, DoneDoing
  <2>4. RowOfEntry'
    BY <2>1 DEF OneBuys, RowOfEntry
  <2> QED BY <2>1, <2>2, <2>3, <2>4 DEF OneBuys
<1> QED BY <1>1, <1>2

\* A crash that takes no row: the open rows of the database are those of the session.
LEMMA FaultOne ==
  ASSUME OneBuys, LostReply \/ Crash, unknown' = {}
  PROVE  OneBuys'
<1>1. Crash
  BY DEF LostReply
<1> DEFINE k == [Idle EXCEPT !.at = "startup", !.todo = Open(db.rows)]
<1>2. /\ Lost = {} /\ rows' = db.rows /\ trade' = trade /\ amount' = db.amount /\ task' = k /\ db' = db /\ ex' = ex
      /\ faults < MaxFaults /\ faults' = faults + 1
  BY <1>1 DEF Crash, OneBuys
<1>3. /\ db \in [rows : [Orders -> Order], trade : States, amount : Nat] /\ MaxFaults \in Nat /\ faults \in 0..MaxFaults
      /\ Tracks(db.rows, ex) /\ db.trade = trade
  BY TradeAssumption, OneFacts DEF OneBuys, TypeOK, TradeAssumption
<1>4. task.at \notin Recording /\ \A o \in Orders : rows[o].status # "none" => db.rows[o].status # "none"
  <2>1. task.at \in Recording => task.o \in Lost
    BY DEF Lost
  <2>2. \A o \in Orders : rows[o].status # "none" /\ db.rows[o].status = "none" => o \in Lost
    BY DEF Lost
  <2> QED BY <1>2, <2>1, <2>2
<1>5. /\ Open(db.rows) \in SUBSET Orders
      /\ \A o \in Open(db.rows) : db.rows[o].status # "none" /\ ex[o].status # "none"
  BY <1>3 DEF Open, Tracks, NeverAhead
<1>6. k \in Task
  BY <1>5, IdleType, LabelFacts DEF Task
<1>7. k.at = "startup" /\ k.then = "idle" /\ k.after = "idle" /\ k.stops = {} /\ k.todo = Open(db.rows)
  BY DEF Idle
<1> HIDE DEF k
<1>8. TypeOK'
  <2>1. db.rows \in [Orders -> Order] /\ db.amount \in Nat /\ faults + 1 \in 0..MaxFaults
    BY <1>2, <1>3
  <2> QED BY <1>2, <1>6, <2>1 DEF OneBuys, TypeOK, Crash
<1>9. Doing(k, db.rows, ex, trade)
  <2>1. trade \in Rowless => k.todo = {}
    BY <1>7 DEF OneBuys, NoRows, Open
  <2> QED BY <1>5, <1>7, <2>1 DEF Doing, Labelled, BackAtForce, Lists, OrderAt, NoSecondEntry, AtWork, BackAtReplaced,
       Buying, Returns, LoopReturns, Recording
<1>10. RowOfEntry'
  <2>1. ASSUME NEW o \in LiveEntries(ex), trade # "deleted" PROVE db.rows[o].status = "open"
    <3>1. o \in Orders /\ ex[o].status = "open" /\ rows[o].status = "open"
      BY <1>4, <2>1 DEF LiveEntries, OneBuys, RowOfEntry
    <3> QED BY <1>3, <1>4, <3>1 DEF Tracks, NeverAhead
  <2> QED BY <1>2, <2>1 DEF RowOfEntry
<1> QED BY <1>2, <1>3, <1>8, <1>9, <1>10 DEF OneBuys

LEMMA StartupOne ==
  ASSUME Missing \subseteq NonOpen, OneBuys, NEW o \in Orders, StartupUpdate(o)
  PROVE  OneBuys'
<1> DEFINE rest == [task EXCEPT !.todo = task.todo \ {o}]
           gone == [rows[o] EXCEPT !.status = "canceled"]
           s    == Snapshot(o)
<1>1. /\ task.at = "startup" /\ task.at \notin Recording /\ trade \notin Rowless /\ ~InAdopt(task)
      /\ ex[o].status # "none" /\ rows[o].status # "none" /\ Outside
      /\ \/ UpdateTradeState(o, s, TRUE, rest)
         \/ ~Found(o) /\ CanceledEntry(o, gone, FALSE, rest)
         \/ ~Found(o) /\ UpdateTradeState(o, gone, TRUE, rest)
         \/ task' = rest /\ Bot
  BY OneFacts DEF StartupUpdate, Recording, AtWork, Lists, InAdopt
<1>2. rest \in Task /\ Doing(rest, rows, ex, trade) /\ rest.at = task.at
  BY RestDoing
<1>3. /\ ex' = ex /\ Moves(ex, ex) /\ ex \in [Orders -> Order] /\ unknown' = unknown /\ unknown' \in SUBSET Orders
      /\ faults' = faults /\ faults' \in 0..MaxFaults
      /\ rows \in [Orders -> Order] /\ Tracks(rows, ex) /\ rows[o] \in Order
  BY <1>1, SameMoves, OneFacts DEF Outside
<1>4. s \in Order /\ Newer(s, o, rows, ex)
  BY <1>1, OneFacts, SnapshotFacts, SnapshotNewer DEF Rowless
<1>5. gone \in Order /\ gone.status = "canceled" /\ gone.side = rows[o].side
  BY <1>3 DEF Order, NonOpen
<1> HIDE DEF rest, s, gone
<1>6. ~Found(o) => Newer(gone, o, rows, ex)
  BY <1>1, <1>3, <1>5 DEF Found, Newer, Tracks, SidesAgree, NonOpen
<1>7. rest.at \in Returns
  BY <1>1, <1>2 DEF Returns
<1>8. CASE task' = rest /\ Bot
  BY <1>1, <1>2, <1>3, <1>8, StepOne
<1>9. ASSUME NEW r \in Order, Newer(r, o, rows, ex), UpdateTradeState(o, r, TRUE, rest) PROVE OneBuys'
  <2>1. Doing(rest, [rows EXCEPT ![o] = r], ex, trade)
    BY <1>1, <1>2, <1>3, <1>9, DoingUpdate
  <2> QED BY <1>1, <1>2, <1>3, <1>7, <1>9, <2>1, UpdateOne
<1>10. ASSUME CanceledEntry(o, gone, FALSE, rest), Newer(gone, o, rows, ex) PROVE OneBuys'
  <2> DEFINE n == [rows EXCEPT ![o] = gone]
  <2>1. Doing(rest, n, ex, trade)
    BY <1>1, <1>2, <1>3, <1>5, <1>10, DoingUpdate
  <2> HIDE DEF n
  <2>2. ASSUME NEW b \in BOOLEAN PROVE Doing([rest EXCEPT !.res = b], n, ex, trade)
    <3> DEFINE k == [rest EXCEPT !.res = b]
    <3>1. /\ k.at = "startup" /\ k.then = rest.then /\ k.after = rest.after /\ k.o = rest.o /\ k.todo = rest.todo
          /\ k.stops = rest.stops
      BY <1>1, <1>2 DEF Task
    <3> HIDE DEF k
    <3>2. Doing(k, n, ex, trade)
      BY <1>1, <1>2, <2>1, <3>1 DEF Doing, Labelled, BackAtForce, Lists, InAdopt, OrderAt, NoSecondEntry,
           BackAtReplaced, Buying, AtWork, Recording
    <3> QED BY <3>2 DEF k
  <2>3. gone.status \in NonOpen
    BY <1>5 DEF NonOpen
  <2> QED BY <1>1, <1>2, <1>3, <1>5, <1>7, <1>10, <2>2, <2>3, CanceledOne DEF n
<1> QED BY <1>1, <1>4, <1>5, <1>6, <1>8, <1>9, <1>10

LEMMA InitOne ==
  ASSUME TradeAssumption, Init
  PROVE  OneBuys
<1>1. ex = [o \in Orders |-> NoOrder] /\ rows = ex /\ trade = "none" /\ db.rows = rows /\ db.trade = trade
      /\ task = Idle
  BY DEF Init, Committed
<1>2. TypeOK
  BY InitInv DEF Inv
<1>3. \A o \in Orders : ex[o].status = "none"
  BY <1>1 DEF NoOrder
<1> HIDE DEF Init
<1>4. NoRows(rows) /\ LiveEntries(ex) = {}
  BY <1>1, <1>3 DEF NoRows, LiveEntries
<1>5. Tracks(rows, ex) /\ AtMostOne(LiveEntries(ex))
  BY <1>1, <1>3, <1>4 DEF Tracks, NeverAhead, SidesAgree, AtMostOne
<1>6. Doing(task, rows, ex, trade)
  BY <1>1, DoneDoing
<1> QED BY <1>1, <1>2, <1>4, <1>5, <1>6 DEF OneBuys, RowOfEntry

LEMMA NextOne ==
  ASSUME TradeAssumption, ~PositionAdjustment, Missing \subseteq NonOpen, OneBuys, NothingLost', [Next]_vars
  PROVE  OneBuys'
<1>1. CASE Market
  BY <1>1, MarketOne
<1>2. CASE Begin
  <2>1. CASE CreateTrade \/ AdjustEntry
    BY <2>1, EntryOne
  <2>2. CASE CancelAllOpenOrders \/ \E o \in Orders : RpcCancelOpenOrder(o)
    BY <2>2, LoopOne
  <2>3. CASE ExitSignal \/ AdjustExit \/ ForceExit
    BY <2>3, ForceOne
  <2>4. CASE ManageStoploss
    BY <2>4, StoplossOne
  <2>5. CASE ReloadTrade
    BY <2>5, ReloadOne
  <2>6. CASE \E o \in Orders : ManageOpenOrder(o)
    BY <2>6, ManageOpenOrderOne
  <2> QED BY <1>2, <2>1, <2>2, <2>3, <2>4, <2>5, <2>6 DEF Begin
<1>3. CASE Continue
  <2>1. CASE PlaceEntry \/ RefuseEntry
    BY <2>1, EntryOne
  <2>2. CASE RecordEntry
    BY <2>2, RecordEntryOne
  <2>3. CASE RefuseCancel \/ AlreadyCanceled \/ CancelOrder
    BY <2>3, CancelOne
  <2>4. CASE Managed \/ Replaced
    BY <2>4, ReplacedOne
  <2>5. CASE CancelledOpen \/ \E o \in Orders : CancelNextOpen(o)
    BY <2>5, LoopOne
  <2>6. CASE ForceExitNow \/ \E o \in Orders : ForceNext(o)
    BY <2>6, ForceOne
  <2>7. CASE CheckExitAmount \/ PlaceExit \/ RefuseExit \/ RecordExit
    BY <2>7, ExitOne
  <2>8. CASE Refound \/ Started \/ \E o \in Orders : Refind(o)
    BY <2>8, RefindOne
  <2>9. CASE FetchedStops \/ PlaceStop \/ RefuseStop
    BY <2>9, StoplossOne
  <2>10. CASE RecordStop \/ Commit
    BY <2>10, RecordStopOne
  <2>11. CASE Adopted
    BY <2>11, ReloadOne
  <2>12. CASE \E o \in Orders : CancelStop(o) \/ FetchStop(o) \/ AdoptOrder(o) \/ StartupUpdate(o)
    BY <2>12, CancelStopOne, FetchStopOne, AdoptOne, StartupOne
  <2> QED BY <1>3, <2>1, <2>2, <2>3, <2>4, <2>5, <2>6, <2>7, <2>8, <2>9, <2>10, <2>11, <2>12 DEF Continue
<1>4. CASE Abort
  BY <1>4, ReloadOne
<1>5. CASE LostReply \/ Crash
  BY <1>5, FaultOne DEF NothingLost
<1>6. CASE UNCHANGED vars
  BY <1>6 DEF vars, OneBuys, TypeOK, RowOfEntry
<1> QED BY <1>1, <1>2, <1>3, <1>4, <1>5, <1>6 DEF Next

\* As long as no order is lost, at most one order buys for a trade without position
\* adjustments: an entry is replaced only once it is cancelled.
THEOREM OneEntryAtATime ==
  ASSUME ~PositionAdjustment, Missing \subseteq NonOpen
  PROVE  Spec /\ []NothingLost => []SingleEntryOrder
<1>1. Init => OneBuys
  BY TradeAssumption, InitOne
<1>2. OneBuys /\ NothingLost' /\ [Next]_vars => OneBuys'
  BY TradeAssumption, NextOne
<1>3. OneBuys => SingleEntryOrder
  <2> DEFINE S == {o \in Orders : ex[o].status = "open" /\ ex[o].side = "entry"}
  <2> SUFFICES ASSUME OneBuys PROVE Cardinality(S) <= 1
    BY DEF SingleEntryOrder
  <2>1. \A o, p \in S : o = p
    BY DEF OneBuys, AtMostOne, LiveEntries
  <2> HIDE DEF S
  <2>2. CASE S = {}
    BY <2>2, FS_EmptySet
  <2>3. ASSUME NEW p \in S PROVE Cardinality(S) = 1
    <3>1. S = {p}
      BY <2>1, <2>3
    <3> QED BY <3>1, FS_Singleton
  <2> QED BY <2>2, <2>3
<1> QED BY <1>1, <1>2, <1>3, PTL DEF Spec
=============================================================================
