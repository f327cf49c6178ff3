------------------------- MODULE Backtesting_proofs -------------------------
(***************************************************************************)
(* Proofs about Backtesting for any pairs, candles, prices and setups.     *)
(*                                                                         *)
(* First, the trades: the invariant Inv says that an open trade's amount   *)
(* is what its filled orders come to, that only its last order may be      *)
(* open, which trades a phase has yet to process, and which pairs have a   *)
(* candle.  Hence a trade has one open order at most, a closed trade has   *)
(* sold what it had bought, and none that bought something is lost.        *)
(*                                                                         *)
(* Second, the pause: the invariant Waiting says what the closed trades    *)
(* leave behind, a lock that lasts, and a pair that has been seen with a   *)
(* trade.  Hence no pair is entered before its pause is over.              *)
(***************************************************************************)
EXTENDS Backtesting, FiniteSetTheorems, SequenceTheorems, WellFoundedInduction, TLAPS
-----------------------------------------------------------------------------
(* A set of naturals has a least element. *)

Less == {ss \in Nat \X Nat : ss[1] < ss[2]}

LEMMA LessWellFounded == IsWellFoundedOn(Less, Nat)
  BY NatLessThanWellFounded, Zenon DEF OpToRel, Less

LEMMA LeastExists ==
  ASSUME NEW S \in SUBSET Nat, S # {}
  PROVE  \E x \in S : \A y \in S : x <= y
<1>1. PICK x \in S : \A y \in S : ~(<<y, x>> \in Less)
  BY LessWellFounded, WFMin
<1>2. ASSUME NEW y \in S
      PROVE  x <= y
  <2>1. ~(<<y, x>> \in Less) /\ x \in Nat /\ y \in Nat
    BY <1>1, <1>2
  <2>2. ASSUME NEW a \in Nat, NEW b \in Nat, ~(<<a, b>> \in Less)
        PROVE  b <= a
    BY <2>2 DEF Less
  <2> QED BY <2>1, <2>2
<1> QED BY <1>2

\* What holds of 0, and of the next number with each, holds up to n.
LEMMA CountingUp ==
  ASSUME NEW n \in Nat, NEW P, 0 \in P, \A m \in 0..n : m \in P /\ m < n => m + 1 \in P
  PROVE  \A m \in 0..n : m \in P
<1> DEFINE Bad == {m \in 0..n : m \notin P}
<1> SUFFICES ASSUME Bad # {} PROVE FALSE
  OBVIOUS
<1>1. Bad \in SUBSET Nat
  OBVIOUS
<1>2. PICK m \in Bad : \A x \in Bad : m <= x
  BY <1>1, LeastExists
<1>3. m \in 0..n /\ m # 0
  BY <1>2
<1>4. m - 1 \in 0..n /\ m - 1 < n /\ (m - 1) + 1 = m
  BY <1>3
<1>5. m - 1 \notin Bad
  BY <1>2, <1>4
<1>6. m - 1 \in P
  BY <1>4, <1>5
<1>7. (m - 1) + 1 \in P
  BY <1>4, <1>6
<1> QED BY <1>2, <1>4, <1>7
-----------------------------------------------------------------------------
(* What the filled orders come to: a sum over a sequence, which Filled       *)
(* computes with a recursive function.                                       *)

Running(os, kind, n, g) ==
  g = [m \in 0..n |-> IF m = 0 THEN 0 ELSE g[m - 1] + Worth(os[m], kind)]
Sum(os, kind, n) == (CHOOSE g : Running(os, kind, n, g))[n]

Whole(os, kind, n) == \A m \in 1..n : Worth(os[m], kind) \in Int

LEMMA FilledIs ==
  ASSUME NEW t, NEW kind
  PROVE  Filled(t, kind) = Sum(t.orders, kind, Len(t.orders))
  BY DEF Filled, Sum, Running

LEMMA RunningExists ==
  ASSUME NEW os, NEW kind, NEW n \in Nat, Whole(os, kind, n)
  PROVE  \E g : Running(os, kind, n, g)
<1> DEFINE P == {m \in Nat : \E g : Running(os, kind, m, g)}
<1>1. 0 \in P
  <2> DEFINE g == [m \in 0..0 |-> 0]
  <2>1. Running(os, kind, 0, g)
    BY DEF Running
  <2> QED BY <2>1
<1>2. ASSUME NEW m \in 0..n, m \in P, m < n
      PROVE  m + 1 \in P
  <2>1. PICK g : Running(os, kind, m, g)
    BY <1>2
  <2> DEFINE h == [i \in 0..(m + 1) |-> IF i = 0 THEN 0 ELSE g[i - 1] + Worth(os[i], kind)]
  <2>2. ASSUME NEW i \in 0..(m + 1), i # 0
        PROVE  h[i - 1] = g[i - 1]
    <3>1. i - 1 \in 0..m /\ i - 1 \in 0..(m + 1)
      BY <2>2
    <3>2. g[i - 1] = IF i - 1 = 0 THEN 0 ELSE g[(i - 1) - 1] + Worth(os[i - 1], kind)
      BY <2>1, <3>1 DEF Running
    <3>3. h[i - 1] = IF i - 1 = 0 THEN 0 ELSE g[(i - 1) - 1] + Worth(os[i - 1], kind)
      BY <3>1
    <3> QED BY <3>2, <3>3
  <2>3. Running(os, kind, m + 1, h)
    BY <2>2 DEF Running
  <2> QED BY <2>3
<1> HIDE DEF P
<1>3. \A m \in 0..n : m \in P
  BY <1>1, <1>2, CountingUp
<1>4. n \in P
  BY <1>3
<1> QED BY <1>4 DEF P

\* The running sums are integers, and depend on the worths only.
LEMMA RunningSame ==
  ASSUME NEW os, NEW ps, NEW kind, NEW n \in Nat, NEW k \in Nat, n <= k, Whole(os, kind, n),
         \A m \in 1..n : Worth(os[m], kind) = Worth(ps[m], kind),
         NEW g, Running(os, kind, n, g), NEW h, Running(ps, kind, k, h)
  PROVE  \A m \in 0..n : g[m] \in Int /\ g[m] = h[m]
<1> DEFINE P == {m \in 0..n : g[m] \in Int /\ g[m] = h[m]}
<1>1. 0 \in P
  <2>1. g[0] = 0
    BY DEF Running
  <2>2. h[0] = 0
    BY DEF Running
  <2> QED BY <2>1, <2>2
<1>2. ASSUME NEW m \in 0..n, m \in P, m < n
      PROVE  m + 1 \in P
  <2>1. m + 1 \in 1..n /\ m + 1 \in 0..n /\ m + 1 \in 0..k /\ m + 1 # 0 /\ (m + 1) - 1 = m
    BY <1>2
  <2>2. g[m + 1] = g[m] + Worth(os[m + 1], kind)
    BY <2>1 DEF Running
  <2>3. h[m + 1] = h[m] + Worth(ps[m + 1], kind)
    BY <2>1 DEF Running
  <2>4. Worth(os[m + 1], kind) \in Int /\ Worth(os[m + 1], kind) = Worth(ps[m + 1], kind)
    BY <2>1 DEF Whole
  <2> QED BY <1>2, <2>1, <2>2, <2>3, <2>4
<1> HIDE DEF P
<1>3. \A m \in 0..n : m \in P
  BY <1>1, <1>2, CountingUp
<1> QED BY <1>3 DEF P

LEMMA SumSame ==
  ASSUME NEW os, NEW ps, NEW kind, NEW n \in Nat, Whole(os, kind, n),
         \A m \in 1..n : Worth(os[m], kind) = Worth(ps[m], kind)
  PROVE  Sum(os, kind, n) \in Int /\ Sum(os, kind, n) = Sum(ps, kind, n)
<1>1. Whole(ps, kind, n)
  BY DEF Whole
<1> DEFINE g == CHOOSE k : Running(os, kind, n, k)
           h == CHOOSE k : Running(ps, kind, n, k)
<1>2. Running(os, kind, n, g) /\ Running(ps, kind, n, h)
  BY <1>1, RunningExists
<1>3. Sum(os, kind, n) = g[n] /\ Sum(ps, kind, n) = h[n]
  BY DEF Sum
<1> HIDE DEF g, h
<1>4. \A m \in 0..n : g[m] \in Int /\ g[m] = h[m]
  BY <1>2, RunningSame
<1> QED BY <1>3, <1>4

LEMMA SumStep ==
  ASSUME NEW os, NEW kind, NEW n \in Nat, Whole(os, kind, n)
  PROVE  /\ Sum(os, kind, 0) = 0
         /\ n > 0 => Sum(os, kind, n) = Sum(os, kind, n - 1) + Worth(os[n], kind)
<1>1. Sum(os, kind, 0) = 0
  <2> DEFINE g == CHOOSE g : Running(os, kind, 0, g)
  <2>1. Running(os, kind, 0, g)
    BY RunningExists DEF Whole
  <2>2. Sum(os, kind, 0) = g[0]
    BY DEF Sum
  <2> HIDE DEF g
  <2>3. g[0] = 0
    BY <2>1 DEF Running
  <2> QED BY <2>2, <2>3
<1>2. ASSUME n > 0
      PROVE  Sum(os, kind, n) = Sum(os, kind, n - 1) + Worth(os[n], kind)
  <2> DEFINE g == CHOOSE k : Running(os, kind, n, k)
             h == CHOOSE k : Running(os, kind, n - 1, k)
  <2>1. n - 1 \in Nat /\ n - 1 <= n /\ Whole(os, kind, n - 1)
    BY <1>2 DEF Whole
  <2>2. Running(os, kind, n, g) /\ Running(os, kind, n - 1, h)
    BY <2>1, RunningExists
  <2>3. Sum(os, kind, n) = g[n] /\ Sum(os, kind, n - 1) = h[n - 1]
    BY DEF Sum
  <2> HIDE DEF g, h
  <2>4. \A m \in 0..(n - 1) : h[m] \in Int /\ h[m] = g[m]
    BY <2>1, <2>2, RunningSame
  <2>5. h[n - 1] = g[n - 1]
    BY <2>1, <2>4
  <2>6. g[n] = g[n - 1] + Worth(os[n], kind)
    BY <1>2, <2>2 DEF Running
  <2> QED BY <2>3, <2>5, <2>6
<1> QED BY <1>1, <1>2

\* Without a filled order there is nothing to sum, and what orders come to is a natural.
LEMMA SumSign ==
  ASSUME NEW os, NEW kind, NEW n \in Nat, \A m \in 1..n : Worth(os[m], kind) \in Nat
  PROVE  /\ Sum(os, kind, n) \in Nat
         /\ (\A m \in 1..n : Worth(os[m], kind) = 0) => Sum(os, kind, n) = 0
<1> DEFINE P == {m \in 0..n : /\ Sum(os, kind, m) \in Nat
                              /\ (\A i \in 1..n : Worth(os[i], kind) = 0) => Sum(os, kind, m) = 0}
<1>1. \A m \in 0..n : Whole(os, kind, m)
  BY DEF Whole
<1>2. 0 \in P
  BY <1>1, SumStep
<1>3. ASSUME NEW m \in 0..n, m \in P, m < n
      PROVE  m + 1 \in P
  <2>1. m + 1 \in 0..n /\ m + 1 \in 1..n /\ m + 1 \in Nat /\ m + 1 > 0 /\ (m + 1) - 1 = m
    BY <1>3
  <2>2. Sum(os, kind, m + 1) = Sum(os, kind, m) + Worth(os[m + 1], kind)
    BY <1>1, <2>1, SumStep
  <2>3. Worth(os[m + 1], kind) \in Nat
    BY <2>1
  <2> QED BY <1>3, <2>1, <2>2, <2>3
<1> HIDE DEF P
<1>4. \A m \in 0..n : m \in P
  BY <1>2, <1>3, CountingUp
<1> QED BY <1>4 DEF P
-----------------------------------------------------------------------------
(* The elements of a sequence at some of its indices                         *)

\* How many of I there are up to i.
Rank(I, i) == Cardinality({j \in I : j <= i})

LEMMA RankIs ==
  ASSUME NEW I \in SUBSET Nat, IsFiniteSet(I), NEW i \in I
  PROVE  Rank(I, i) \in 1..Cardinality(I)
<1> DEFINE J == {j \in I : j <= i}
<1>1. IsFiniteSet(J) /\ Cardinality(J) <= Cardinality(I)
  BY FS_Subset
<1>2. Cardinality(J) \in Nat /\ Cardinality(I) \in Nat
  BY <1>1, FS_CardinalityType
<1>3. Cardinality(J) # 0
  <2>1. i \in J
    OBVIOUS
  <2> QED BY <1>1, <2>1, FS_EmptySet
<1> QED BY <1>1, <1>2, <1>3 DEF Rank

LEMMA RanksDiffer ==
  ASSUME NEW I \in SUBSET Nat, IsFiniteSet(I), NEW i \in I, NEW j \in I, i < j
  PROVE  Rank(I, i) # Rank(I, j)
<1> DEFINE A == {k \in I : k <= i}
           B == {k \in I : k <= j}
<1>1. A \in SUBSET B /\ A # B
  <2>1. j \in B /\ j \notin A
    OBVIOUS
  <2>2. \A k \in I : k <= i => k <= j
    OBVIOUS
  <2> QED BY <2>1, <2>2
<1>2. IsFiniteSet(B)
  BY FS_Subset
<1> HIDE DEF A, B
<1>3. Cardinality(B) # Cardinality(A)
  BY <1>1, <1>2, FS_Subset
<1> QED BY <1>3 DEF Rank, A, B

\* Every index has its place, and every place its index.
LEMMA NthOf ==
  ASSUME NEW I \in SUBSET Nat, IsFiniteSet(I), NEW i \in I
  PROVE  Nth(I, Rank(I, i)) = i
<1> DEFINE j == Nth(I, Rank(I, i))
<1>1. j = CHOOSE x \in I : Rank(I, x) = Rank(I, i)
  BY DEF Nth, Rank
<1>2. j \in I /\ Rank(I, j) = Rank(I, i)
  BY <1>1
<1> HIDE DEF j
<1>3. ~(i < j) /\ ~(j < i)
  BY <1>2, RanksDiffer
<1>4. i \in Nat /\ j \in Nat
  BY <1>2
<1>5. j = i
  BY <1>3, <1>4
<1> QED BY <1>5 DEF j

LEMMA NthIs ==
  ASSUME NEW I \in SUBSET Nat, IsFiniteSet(I), NEW k \in 1..Cardinality(I)
  PROVE  Nth(I, k) \in I /\ Rank(I, Nth(I, k)) = k
<1> DEFINE f == [i \in I |-> Rank(I, i)]
           n == Cardinality(I)
<1>1. n \in Nat /\ IsFiniteSet(1..n) /\ Cardinality(1..n) = n
  <2>1. n \in Nat
    BY FS_CardinalityType
  <2> QED BY <2>1, FS_Interval
<1>2. \A i \in I, j \in I : Rank(I, i) = Rank(I, j) => i = j
  <2> SUFFICES ASSUME NEW i \in I, NEW j \in I, i # j
               PROVE  Rank(I, i) # Rank(I, j)
    OBVIOUS
  <2>1. i < j \/ j < i
    OBVIOUS
  <2> QED BY <2>1, RanksDiffer
<1>3. f \in Injection(I, 1..n)
  <2>1. \A i \in I : Rank(I, i) \in 1..n
    BY RankIs
  <2>2. f \in [I -> 1..n]
    BY <2>1
  <2> QED BY <1>2, <2>2 DEF Injection, IsInjective
<1>4. f \in Surjection(I, 1..n)
  BY <1>1, <1>3, FS_Injection
<1>5. \E i \in I : f[i] = k
  BY <1>4 DEF Surjection
<1>6. \E i \in I : Rank(I, i) = k
  BY <1>5
<1>7. Nth(I, k) = CHOOSE i \in I : Rank(I, i) = k
  BY DEF Nth, Rank
<1> QED BY <1>6, <1>7

\* What is taken from a sequence is in it, and what is at the indices is taken.
LEMMA AtIs ==
  ASSUME NEW S, NEW s, NEW I \in SUBSET Nat, IsFiniteSet(I), \A i \in I : s[i] \in S
  PROVE  /\ At(s, I) \in Seq(S) /\ Len(At(s, I)) = Cardinality(I)
         /\ \A k \in 1..Len(At(s, I)) : Nth(I, k) \in I /\ At(s, I)[k] = s[Nth(I, k)]
         /\ \A i \in I : \E k \in 1..Len(At(s, I)) : At(s, I)[k] = s[i]
<1> DEFINE n == Cardinality(I)
<1>1. IsFiniteSet(I) /\ I \in SUBSET Nat /\ n \in Nat
  BY FS_CardinalityType
<1>2. \A k \in 1..n : Nth(I, k) \in I
  BY <1>1, NthIs
<1>3. \A k \in 1..n : s[Nth(I, k)] \in S
  BY <1>2
<1>4. At(s, I) = [k \in 1..n |-> s[Nth(I, k)]]
  BY DEF At
<1> HIDE DEF n
<1>5. At(s, I) \in [1..n -> S]
  BY <1>3, <1>4
<1>6. At(s, I) \in Seq(S) /\ Len(At(s, I)) = n
  BY <1>1, <1>5
<1>7. ASSUME NEW i \in I
      PROVE  \E k \in 1..n : At(s, I)[k] = s[i]
  <2>1. Rank(I, i) \in 1..n
    BY <1>1, RankIs DEF n
  <2>2. Nth(I, Rank(I, i)) = i
    BY <1>1, NthOf
  <2>3. At(s, I)[Rank(I, i)] = s[i]
    BY <1>4, <2>1, <2>2
  <2> QED BY <2>1, <2>3
<1>8. \A k \in 1..n : At(s, I)[k] = s[Nth(I, k)]
  BY <1>4
<1> QED BY <1>2, <1>6, <1>7, <1>8 DEF n

\* The first ones are a prefix.
LEMMA AtFirst ==
  ASSUME NEW S, NEW s \in Seq(S), NEW m \in 0..Len(s)
  PROVE  /\ At(s, 1..m) \in Seq(S) /\ Len(At(s, 1..m)) = m
         /\ \A k \in 1..m : At(s, 1..m)[k] = s[k]
<1>1. Len(s) \in Nat
  BY LenProperties
<1>2. 1..m \in SUBSET (1..Len(s)) /\ 1..m \in SUBSET Nat /\ m \in Nat
  BY <1>1
<1>3. IsFiniteSet(1..m) /\ Cardinality(1..m) = m
  BY <1>2, FS_Interval
<1>4. \A k \in 1..m : Rank(1..m, k) = k
  <2> SUFFICES ASSUME NEW k \in 1..m PROVE Rank(1..m, k) = k
    OBVIOUS
  <2>1. {j \in 1..m : j <= k} = 1..k
    BY <1>2
  <2>2. Cardinality(1..k) = k
    BY FS_Interval
  <2> QED BY <2>1, <2>2 DEF Rank
<1>5. \A k \in 1..m : Nth(1..m, k) = k
  <2> SUFFICES ASSUME NEW k \in 1..m PROVE Nth(1..m, k) = k
    OBVIOUS
  <2>1. Nth(1..m, Rank(1..m, k)) = k
    BY <1>2, <1>3, NthOf
  <2> QED BY <1>4, <2>1
<1>6. At(s, 1..m) \in Seq(S) /\ Len(At(s, 1..m)) = Cardinality(1..m)
  <2>1. \A k \in 1..m : s[k] \in S
    BY <1>2, ElementOfSeq
  <2> QED BY <1>2, <1>3, <2>1, AtIs
<1>7. \A k \in 1..m : At(s, 1..m)[k] = s[Nth(1..m, k)]
  BY <1>3 DEF At
<1> QED BY <1>3, <1>5, <1>6, <1>7
-----------------------------------------------------------------------------
(* Trades and their orders                                                   *)

\* An exit order has to reach the price it is placed at.
Order ==
  {o \in [kind : {"entry", "exit"}, price : Nat, ft : Nat, amount : Nat \ {0}, left : Nat,
          open : BOOLEAN, placed : Nat] : o.kind = "exit" => o.price = o.ft}
TradeType == [id : Nat, pair : Pairs, side : {"long", "short"}, opened : Nat, amount : Nat,
              orders : Seq(Order), close : Int]

\* Only the last order may be open.  An open order is not filled completely, and no
\* exit is larger than the position.
OpenIsLast(t) == \A i \in DOMAIN t.orders : i < Len(t.orders) => ~t.orders[i].open

Sized(t) ==
  \A i \in DOMAIN t.orders :
    /\ t.orders[i].left \in IF t.orders[i].open THEN 1..t.orders[i].amount ELSE {0}
    /\ t.orders[i].open /\ t.orders[i].kind = "exit" => t.orders[i].amount <= t.amount

\* The amount is what was bought and not sold, and something is left of it.
Balanced(t) ==
  /\ t.amount = Filled(t, "entry") - Filled(t, "exit")
  /\ Filled(t, "entry") > 0 => t.amount > 0

Sound(t) == t \in TradeType /\ OpenIsLast(t) /\ Sized(t) /\ Balanced(t)

\* What t has bought and sold, x has too.
Keeps(t, x) == \A kind \in Kinds : Filled(x, kind) >= Filled(t, kind)

\* What does not change in a trade, and that it does not lose what it has bought and sold.
Kept(t, x) ==
  /\ x.id = t.id /\ x.pair = t.pair /\ x.side = t.side /\ x.opened = t.opened /\ x.close = t.close
  /\ Keeps(t, x)

Follows(t, x) == Sound(x) /\ Kept(t, x)

LEMMA OrdersAre ==
  ASSUME NEW t \in TradeType
  PROVE  /\ t.orders \in Seq(Order) /\ Len(t.orders) \in Nat /\ DOMAIN t.orders = 1..Len(t.orders)
         /\ \A i \in 1..Len(t.orders) : t.orders[i] \in Order
         /\ \A i \in 1..Len(t.orders), kind \in {"entry", "exit"} : Worth(t.orders[i], kind) \in Nat
<1>1. t.orders \in Seq(Order)
  BY DEF TradeType
<1>2. Len(t.orders) \in Nat /\ DOMAIN t.orders = 1..Len(t.orders)
  BY <1>1, LenProperties
<1>3. \A i \in 1..Len(t.orders) : t.orders[i] \in Order
  BY <1>1, ElementOfSeq
<1>4. \A o \in Order, kind \in {"entry", "exit"} : Worth(o, kind) \in Nat
  BY DEF Order, Worth
<1> QED BY <1>1, <1>2, <1>3, <1>4

LEMMA FilledNat ==
  ASSUME NEW t \in TradeType, NEW kind \in {"entry", "exit"}
  PROVE  /\ Filled(t, kind) \in Nat
         /\ (\A i \in DOMAIN t.orders : t.orders[i].open \/ t.orders[i].kind # kind) => Filled(t, kind) = 0
<1>1. Len(t.orders) \in Nat /\ DOMAIN t.orders = 1..Len(t.orders)
      /\ \A i \in 1..Len(t.orders) : Worth(t.orders[i], kind) \in Nat
  BY OrdersAre
<1>2. Sum(t.orders, kind, Len(t.orders)) \in Nat
      /\ ((\A i \in 1..Len(t.orders) : Worth(t.orders[i], kind) = 0) => Sum(t.orders, kind, Len(t.orders)) = 0)
  BY <1>1, SumSign
<1>3. (\A i \in DOMAIN t.orders : t.orders[i].open \/ t.orders[i].kind # kind)
        => \A i \in 1..Len(t.orders) : Worth(t.orders[i], kind) = 0
  BY <1>1 DEF Worth
<1> QED BY <1>2, <1>3, FilledIs

\* What has bought something has a filled entry.
LEMMA BoughtIsSuccessful ==
  ASSUME NEW t \in TradeType, Filled(t, "entry") > 0
  PROVE  Successful(t)
  BY FilledNat DEF Successful

LEMMA FilledSame ==
  ASSUME NEW t \in TradeType, NEW x \in TradeType, NEW kind \in {"entry", "exit"},
         Len(x.orders) = Len(t.orders),
         \A i \in 1..Len(t.orders) : Worth(x.orders[i], kind) = Worth(t.orders[i], kind)
  PROVE  Filled(x, kind) = Filled(t, kind)
<1> DEFINE n == Len(t.orders)
<1>1. n \in Nat /\ Whole(t.orders, kind, n)
  BY OrdersAre DEF Whole
<1> HIDE DEF n
<1>2. \A m \in 1..n : Worth(t.orders[m], kind) = Worth(x.orders[m], kind)
  BY DEF n
<1>3. Sum(t.orders, kind, n) = Sum(x.orders, kind, n)
  BY <1>1, <1>2, SumSame
<1> QED BY <1>3, FilledIs DEF n

LEMMA FilledOneMore ==
  ASSUME NEW t \in TradeType, NEW x \in TradeType, NEW kind \in {"entry", "exit"},
         Len(x.orders) = Len(t.orders) + 1,
         \A i \in 1..Len(t.orders) : Worth(x.orders[i], kind) = Worth(t.orders[i], kind)
  PROVE  Filled(x, kind) = Filled(t, kind) + Worth(x.orders[Len(x.orders)], kind)
<1> DEFINE n == Len(t.orders)
<1>1. n \in Nat /\ Whole(t.orders, kind, n)
  BY OrdersAre DEF Whole
<1>2. Len(x.orders) = n + 1 /\ n + 1 \in Nat /\ n + 1 > 0 /\ (n + 1) - 1 = n
  BY <1>1
<1>3. Whole(x.orders, kind, n + 1)
  BY <1>2, OrdersAre DEF Whole
<1> HIDE DEF n
<1>4. \A m \in 1..n : Worth(t.orders[m], kind) = Worth(x.orders[m], kind)
  BY DEF n
<1>5. Sum(t.orders, kind, n) = Sum(x.orders, kind, n)
  BY <1>1, <1>4, SumSame
<1>6. Sum(x.orders, kind, n + 1) = Sum(x.orders, kind, n) + Worth(x.orders[n + 1], kind)
  BY <1>2, <1>3, SumStep
<1>7. Filled(t, kind) = Sum(t.orders, kind, n) /\ Filled(x, kind) = Sum(x.orders, kind, n + 1)
  BY <1>2, FilledIs DEF n
<1> QED BY <1>2, <1>5, <1>6, <1>7

\* Keeps is an order.
LEMMA SameKeeps ==
  ASSUME NEW t \in TradeType, NEW x, \A kind \in Kinds : Filled(x, kind) = Filled(t, kind)
  PROVE  Keeps(t, x)
BY FilledNat DEF Keeps, Kinds

LEMMA KeepsAll ==
  ASSUME NEW t \in TradeType, NEW x \in TradeType, NEW y \in TradeType, Keeps(t, x), Keeps(x, y)
  PROVE  Keeps(t, y)
BY FilledNat DEF Keeps, Kinds

\* The open order, if there is one, is the last.
LEMMA OpenOneIs ==
  ASSUME NEW t, Sound(t), NEW i \in OpenOnes(t)
  PROVE  /\ i = Len(t.orders) /\ i \in 1..Len(t.orders) /\ t.orders[i] \in Order /\ t.orders[i].open
         /\ OpenOnes(t) = {i} /\ Max(OpenOnes(t)) = i
         /\ \A kind : i \in OpenOf(t, kind) => Max(OpenOf(t, kind)) = i
<1>1. Len(t.orders) \in Nat /\ DOMAIN t.orders = 1..Len(t.orders)
      /\ \A j \in 1..Len(t.orders) : t.orders[j] \in Order
  BY OrdersAre DEF Sound
<1>2. \A j \in OpenOnes(t) : j \in 1..Len(t.orders) /\ j = Len(t.orders)
  BY <1>1 DEF OpenOnes, Sound, OpenIsLast
<1>3. OpenOnes(t) = {i}
  BY <1>2
<1>4. Max({i}) = i
  BY <1>1, <1>2 DEF Max
<1>5. ASSUME NEW kind, i \in OpenOf(t, kind)
      PROVE  Max(OpenOf(t, kind)) = i
  <2>1. OpenOf(t, kind) = {i}
    BY <1>3, <1>5 DEF OpenOf
  <2> QED BY <1>4, <2>1
<1>6. t.orders[i].open
  BY DEF OpenOnes
<1> QED BY <1>1, <1>2, <1>3, <1>4, <1>5, <1>6

\* A trade that is left with its filled orders is sound.
LEMMA PrefixSound ==
  ASSUME NEW t, Sound(t), NEW os \in Seq(Order), Len(os) <= Len(t.orders), Len(t.orders) <= Len(os) + 1,
         \A k \in 1..Len(os) : os[k] = t.orders[k] /\ ~os[k].open,
         Len(os) < Len(t.orders) => t.orders[Len(t.orders)].open
  PROVE  LET x == [t EXCEPT !.orders = os] IN Follows(t, x) /\ ~HasOpen(x) /\ x.amount = t.amount
<1> DEFINE x == [t EXCEPT !.orders = os]
<1>1. t \in TradeType /\ x \in TradeType /\ x.orders = os /\ x.amount = t.amount
      /\ x.id = t.id /\ x.pair = t.pair /\ x.side = t.side /\ x.opened = t.opened /\ x.close = t.close
  BY DEF Sound, TradeType
<1>2. Len(os) \in Nat /\ DOMAIN os = 1..Len(os)
  BY LenProperties
<1>3. Len(t.orders) \in Nat /\ DOMAIN t.orders = 1..Len(t.orders)
  BY <1>1, OrdersAre
<1> HIDE DEF x
<1>4. ASSUME NEW kind \in {"entry", "exit"}
      PROVE  Filled(x, kind) = Filled(t, kind)
  <2>1. CASE Len(os) = Len(t.orders)
    <3>1. \A i \in 1..Len(t.orders) : Worth(x.orders[i], kind) = Worth(t.orders[i], kind)
      BY <1>1, <2>1
    <3> QED BY <1>1, <2>1, <3>1, FilledSame
  <2>2. CASE Len(t.orders) = Len(os) + 1
    <3>1. \A i \in 1..Len(x.orders) : Worth(t.orders[i], kind) = Worth(x.orders[i], kind)
      BY <1>1
    <3>2. Filled(t, kind) = Filled(x, kind) + Worth(t.orders[Len(t.orders)], kind)
      BY <1>1, <2>2, <3>1, FilledOneMore
    <3>3. Worth(t.orders[Len(t.orders)], kind) = 0
      <4>1. t.orders[Len(t.orders)].open
        BY <1>2, <2>2
      <4> QED BY <4>1 DEF Worth
    <3>4. Filled(x, kind) \in Nat
      BY <1>1, FilledNat
    <3> QED BY <3>2, <3>3, <3>4
  <2> QED BY <1>2, <1>3, <2>1, <2>2
<1>5. OpenIsLast(x) /\ ~HasOpen(x)
  BY <1>1, <1>2 DEF OpenIsLast, HasOpen, OpenOnes
<1>6. Sized(x)
  <2>1. \A i \in 1..Len(os) : t.orders[i].left \in IF t.orders[i].open THEN 1..t.orders[i].amount ELSE {0}
    BY <1>2, <1>3 DEF Sound, Sized
  <2> QED BY <1>1, <1>2, <2>1 DEF Sized
<1>7. Balanced(x)
  BY <1>1, <1>4 DEF Sound, Balanced
<1>8. Keeps(t, x)
  BY <1>1, <1>4, SameKeeps DEF Kinds
<1>9. Follows(t, x)
  BY <1>1, <1>5, <1>6, <1>7, <1>8 DEF Follows, Sound, Kept
<1> QED BY <1>1, <1>5, <1>9 DEF x

\* cancel_open_orders
LEMMA WithoutOpenSound ==
  ASSUME NEW t, Sound(t)
  PROVE  /\ Follows(t, WithoutOpen(t)) /\ ~HasOpen(WithoutOpen(t)) /\ WithoutOpen(t).amount = t.amount
<1>1. t.orders \in Seq(Order) /\ Len(t.orders) \in Nat /\ DOMAIN t.orders = 1..Len(t.orders)
      /\ \A i \in 1..Len(t.orders) : t.orders[i] \in Order
  BY OrdersAre DEF Sound
<1> DEFINE m == IF OpenOnes(t) = {} THEN Len(t.orders) ELSE Len(t.orders) - 1
<1>2. m \in 0..Len(t.orders) /\ m \in Nat /\ DOMAIN t.orders \ OpenOnes(t) = 1..m
  <2>1. CASE OpenOnes(t) = {}
    BY <1>1, <2>1
  <2>2. CASE OpenOnes(t) # {}
    <3>1. PICK i \in OpenOnes(t) : TRUE
      BY <2>2
    <3>2. i = Len(t.orders) /\ i \in 1..Len(t.orders) /\ OpenOnes(t) = {i}
      BY <3>1, OpenOneIs
    <3> QED BY <1>1, <2>2, <3>2
  <2> QED BY <2>1, <2>2
<1>3. \A k \in 1..m : ~t.orders[k].open
  BY <1>1, <1>2 DEF OpenOnes
<1>4. m < Len(t.orders) => t.orders[Len(t.orders)].open
  <2> SUFFICES ASSUME m < Len(t.orders) PROVE t.orders[Len(t.orders)].open
    OBVIOUS
  <2>1. PICK i \in OpenOnes(t) : TRUE
    BY <1>1
  <2> QED BY <2>1, OpenOneIs
<1>5. Len(t.orders) <= m + 1
  BY <1>1
<1> HIDE DEF m
<1> DEFINE os == At(t.orders, 1..m)
<1>6. os \in Seq(Order) /\ Len(os) = m /\ \A k \in 1..m : os[k] = t.orders[k]
  BY <1>1, <1>2, AtFirst
<1>7. WithoutOpen(t) = [t EXCEPT !.orders = os]
  <2>1. t.orders = t["orders"]
    OBVIOUS
  <2>2. WithoutOpen(t) = [t EXCEPT !.orders = At(t.orders, DOMAIN t.orders \ OpenOnes(t))]
    BY DEF WithoutOpen
  <2> QED BY <1>2, <2>2
<1> HIDE DEF os
<1>8. \A k \in 1..Len(os) : os[k] = t.orders[k] /\ ~os[k].open
  BY <1>3, <1>6
<1>9. Len(os) <= Len(t.orders) /\ Len(t.orders) <= Len(os) + 1
      /\ (Len(os) < Len(t.orders) => t.orders[Len(t.orders)].open)
  BY <1>1, <1>2, <1>4, <1>5, <1>6
<1>10. LET x == [t EXCEPT !.orders = os] IN Follows(t, x) /\ ~HasOpen(x) /\ x.amount = t.amount
  BY <1>6, <1>8, <1>9, PrefixSound
<1> QED BY <1>7, <1>10

\* The order of check_order_cancel and check_order_replace is removed.
LEMMA WithoutSound ==
  ASSUME NEW t, Sound(t), NEW i \in OpenOnes(t)
  PROVE  Follows(t, Without(t, i)) /\ ~HasOpen(Without(t, i)) /\ Without(t, i).amount = t.amount
<1>1. t.orders \in Seq(Order) /\ Len(t.orders) \in Nat /\ DOMAIN t.orders = 1..Len(t.orders)
      /\ \A j \in 1..Len(t.orders) : t.orders[j] \in Order
  BY OrdersAre DEF Sound
<1>2. i = Len(t.orders) /\ i \in 1..Len(t.orders) /\ t.orders[i].open /\ OpenOnes(t) = {i}
  BY OpenOneIs
<1> DEFINE os == SubSeq(t.orders, 1, i - 1)
<1>3. os \in Seq(Order) /\ Len(os) = i - 1 /\ \A k \in 1..(i - 1) : os[k] = t.orders[k]
  <2>1. 1 \in Int /\ i - 1 \in Int /\ \A k \in 1..(i - 1) : t.orders[k] \in Order
    BY <1>1, <1>2
  <2>2. /\ os \in Seq(Order) /\ Len(os) = IF 1 <= i - 1 THEN (i - 1) - 1 + 1 ELSE 0
        /\ \A k \in 1..((i - 1) - 1 + 1) : os[k] = t.orders[1 + k - 1]
    BY <2>1, SubSeqProperties
  <2> HIDE DEF os
  <2>3. (i - 1) - 1 + 1 = i - 1 /\ \A k \in 1..(i - 1) : 1 + k - 1 = k
    BY <1>2
  <2> QED BY <1>1, <1>2, <2>2, <2>3
<1>4. RemoveAt(t.orders, i) = os
  <2>1. SubSeq(t.orders, i + 1, Len(t.orders)) = << >>
    BY <1>1, <1>2, SubSeqEmpty
  <2>2. RemoveAt(t.orders, i) = os \o SubSeq(t.orders, i + 1, Len(t.orders))
    BY DEF RemoveAt
  <2> HIDE DEF os
  <2>3. os \o << >> = os
    BY <1>3, ConcatEmptySeq
  <2> QED BY <2>1, <2>2, <2>3
<1>5. Without(t, i) = [t EXCEPT !.orders = os]
  BY <1>4 DEF Without
<1> HIDE DEF os
<1>6. \A k \in 1..Len(os) : os[k] = t.orders[k] /\ ~os[k].open
  BY SMTT(30), <1>1, <1>2, <1>3 DEF OpenOnes
<1>7. Len(os) <= Len(t.orders) /\ Len(t.orders) <= Len(os) + 1
      /\ (Len(os) < Len(t.orders) => t.orders[Len(t.orders)].open)
  BY <1>1, <1>2, <1>3
<1>8. LET x == [t EXCEPT !.orders = os] IN Follows(t, x) /\ ~HasOpen(x) /\ x.amount = t.amount
  BY <1>3, <1>6, <1>7, PrefixSound
<1> QED BY <1>5, <1>8

\* An order that may be placed.
Fresh(t, o) == o \in Order /\ o.open /\ o.left = o.amount /\ (o.kind = "exit" => o.amount <= t.amount)

LEMMA AppendSound ==
  ASSUME NEW t, Sound(t), ~HasOpen(t), NEW o, Fresh(t, o)
  PROVE  LET x == [t EXCEPT !.orders = Append(t.orders, o)]
         IN Follows(t, x) /\ x.amount = t.amount
            /\ Len(x.orders) = Len(t.orders) + 1 /\ x.orders[Len(t.orders) + 1] = o
<1> DEFINE x == [t EXCEPT !.orders = Append(t.orders, o)]
           n == Len(t.orders)
<1>1. t.orders \in Seq(Order) /\ n \in Nat /\ DOMAIN t.orders = 1..n
      /\ \A i \in 1..n : t.orders[i] \in Order
  BY OrdersAre DEF Sound
<1>2. /\ Append(t.orders, o) \in Seq(Order) /\ Len(Append(t.orders, o)) = n + 1
      /\ \A i \in 1..n : Append(t.orders, o)[i] = t.orders[i]
      /\ Append(t.orders, o)[n + 1] = o
  BY <1>1, AppendProperties DEF Fresh
<1>3. t \in TradeType /\ x \in TradeType /\ x.orders = Append(t.orders, o) /\ x.amount = t.amount
      /\ x.id = t.id /\ x.pair = t.pair /\ x.side = t.side /\ x.opened = t.opened /\ x.close = t.close
  BY <1>2 DEF Sound, TradeType
<1> HIDE DEF x
<1>4. Len(x.orders) = n + 1 /\ DOMAIN x.orders = 1..(n + 1) /\ x.orders[n + 1] = o
      /\ \A i \in 1..n : x.orders[i] = t.orders[i]
  BY <1>2, <1>3, OrdersAre
<1>5. ASSUME NEW kind \in {"entry", "exit"}
      PROVE  Filled(x, kind) = Filled(t, kind)
  <2>1. \A i \in 1..Len(t.orders) : Worth(x.orders[i], kind) = Worth(t.orders[i], kind)
    BY <1>4
  <2>2. Filled(x, kind) = Filled(t, kind) + Worth(x.orders[Len(x.orders)], kind)
    BY <1>3, <1>4, <2>1, FilledOneMore
  <2>3. Worth(x.orders[Len(x.orders)], kind) = 0
    BY <1>4 DEF Worth, Fresh
  <2>4. Filled(t, kind) \in Nat
    BY <1>3, FilledNat
  <2> QED BY <2>2, <2>3, <2>4
<1>6. \A i \in 1..n : ~t.orders[i].open
  BY <1>1 DEF HasOpen, OpenOnes
<1>7. OpenIsLast(x)
  BY <1>1, <1>4, <1>6 DEF OpenIsLast
<1>8. Sized(x)
  <2>1. \A i \in 1..n : t.orders[i].left \in IF t.orders[i].open THEN 1..t.orders[i].amount ELSE {0}
    BY <1>1 DEF Sound, Sized
  <2>2. o.left \in 1..o.amount
    BY DEF Fresh, Order
  <2>3. ASSUME NEW i \in 1..(n + 1)
        PROVE  /\ x.orders[i].left \in IF x.orders[i].open THEN 1..x.orders[i].amount ELSE {0}
               /\ x.orders[i].open /\ x.orders[i].kind = "exit" => x.orders[i].amount <= x.amount
    <3>1. CASE i = n + 1
      BY <1>3, <1>4, <2>2, <3>1 DEF Fresh
    <3>2. CASE i # n + 1
      <4>1. i \in 1..n
        BY <1>1, <2>3, <3>2
      <4>2. x.orders[i] = t.orders[i] /\ ~t.orders[i].open
        BY <1>4, <1>6, <4>1
      <4> QED BY <2>1, <4>1, <4>2
    <3> QED BY <3>1, <3>2
  <2> QED BY <1>4, <2>3 DEF Sized
<1>9. Balanced(x)
  BY <1>3, <1>5 DEF Sound, Balanced
<1>10. Keeps(t, x)
  BY <1>3, <1>5, SameKeeps DEF Kinds
<1>11. Follows(t, x)
  BY <1>3, <1>7, <1>8, <1>9, <1>10 DEF Follows, Sound, Kept
<1> QED BY <1>3, <1>4, <1>11 DEF x

LEMMA FollowsAll ==
  ASSUME NEW t, NEW x, NEW y, t \in TradeType, Follows(t, x), Follows(x, y)
  PROVE  Follows(t, y)
<1>1. Keeps(t, y)
  BY KeepsAll DEF Follows, Sound, Kept
<1> QED BY <1>1 DEF Follows, Kept

LEMMA FollowsItself ==
  ASSUME NEW t, Sound(t)
  PROVE  Follows(t, t)
<1>1. Keeps(t, t)
  BY SameKeeps DEF Sound
<1> QED BY <1>1 DEF Follows, Kept

\* A new order takes the place of the open one.
LEMMA PlaceSound ==
  ASSUME NEW t, Sound(t), NEW o, Fresh(t, o)
  PROVE  LET x == Place(t, o) n == Len(x.orders)
         IN Follows(t, x) /\ x.amount = t.amount /\ n \in DOMAIN x.orders /\ x.orders[n] = o
<1> DEFINE y == WithoutOpen(t)
           x == Place(t, o)
<1>1. Follows(t, y) /\ ~HasOpen(y) /\ y.amount = t.amount
  BY WithoutOpenSound
<1>2. x = [y EXCEPT !.orders = Append(y.orders, o)]
  <2>1. x = [t EXCEPT !.orders = Append(y.orders, o)]
    BY DEF Place
  <2>2. y = [t EXCEPT !.orders = At(t.orders, DOMAIN t.orders \ OpenOnes(t))]
    BY DEF WithoutOpen
  <2> HIDE DEF y
  <2>3. t \in TradeType /\ y \in TradeType
    BY <1>1 DEF Sound, Follows
  <2>4. [y EXCEPT !.orders = Append(y.orders, o)] = [t EXCEPT !.orders = Append(y.orders, o)]
    BY <2>2, <2>3 DEF TradeType
  <2> QED BY <2>1, <2>4
<1> HIDE DEF x, y
<1>3. Sound(y) /\ Fresh(y, o) /\ t \in TradeType
  BY <1>1 DEF Follows, Fresh, Sound
<1>4. Follows(y, x) /\ x.amount = y.amount /\ Len(x.orders) = Len(y.orders) + 1
      /\ x.orders[Len(y.orders) + 1] = o
  BY <1>1, <1>2, <1>3, AppendSound
<1>5. Follows(t, x)
  BY <1>1, <1>3, <1>4, FollowsAll
<1>6. Len(x.orders) \in DOMAIN x.orders
  <2>1. y \in TradeType /\ x \in TradeType
    BY <1>1, <1>4 DEF Follows, Sound
  <2>2. Len(y.orders) \in Nat /\ Len(x.orders) \in Nat /\ DOMAIN x.orders = 1..Len(x.orders)
    BY <2>1, OrdersAre
  <2> QED BY <1>4, <2>2
<1> QED BY <1>1, <1>4, <1>5, <1>6 DEF x

LEMMA FilledChanges ==
  ASSUME NEW t \in TradeType, NEW x \in TradeType, NEW kind \in {"entry", "exit"},
         NEW n \in Nat \ {0}, Len(t.orders) = n, Len(x.orders) = n,
         \A i \in 1..(n - 1) : x.orders[i] = t.orders[i]
  PROVE  Filled(x, kind) + Worth(t.orders[n], kind) = Filled(t, kind) + Worth(x.orders[n], kind)
<1>1. \A i \in 1..n : Worth(t.orders[i], kind) \in Nat /\ Worth(x.orders[i], kind) \in Nat
  BY OrdersAre
<1>2. Whole(t.orders, kind, n) /\ Whole(x.orders, kind, n) /\ Whole(t.orders, kind, n - 1)
  BY <1>1 DEF Whole
<1>3. Sum(t.orders, kind, n) = Sum(t.orders, kind, n - 1) + Worth(t.orders[n], kind)
      /\ Sum(x.orders, kind, n) = Sum(x.orders, kind, n - 1) + Worth(x.orders[n], kind)
  BY <1>2, SumStep
<1>4. Sum(t.orders, kind, n - 1) = Sum(x.orders, kind, n - 1) /\ Sum(t.orders, kind, n - 1) \in Int
  <2>1. n - 1 \in Nat /\ \A i \in 1..(n - 1) : Worth(t.orders[i], kind) = Worth(x.orders[i], kind)
    OBVIOUS
  <2> QED BY <1>2, <2>1, SumSame
<1>5. Worth(t.orders[n], kind) \in Nat /\ Worth(x.orders[n], kind) \in Nat
  BY <1>1
<1>6. Filled(t, kind) = Sum(t.orders, kind, n) /\ Filled(x, kind) = Sum(x.orders, kind, n)
  BY FilledIs
<1> QED BY <1>3, <1>4, <1>5, <1>6

\* The trade with its open order filled: close_bt_order without what it recalculates.
WithFilled(t, i) == [t EXCEPT !.orders[i].open = FALSE, !.orders[i].left = 0]

LEMMA WithFilledIs ==
  ASSUME NEW t, Sound(t), NEW i \in OpenOnes(t)
  PROVE  LET x == WithFilled(t, i) o == t.orders[i] IN
         /\ x \in TradeType /\ x.amount = t.amount /\ OpenIsLast(x) /\ ~HasOpen(x)
         /\ x.id = t.id /\ x.pair = t.pair /\ x.side = t.side /\ x.opened = t.opened /\ x.close = t.close
         /\ \A j \in DOMAIN x.orders : ~x.orders[j].open /\ x.orders[j].left = 0
         /\ i \in DOMAIN x.orders /\ x.orders[i].amount = o.amount /\ o.amount \in Nat \ {0}
         /\ \A kind \in {"entry", "exit"} :
              Filled(x, kind) = Filled(t, kind) + IF o.kind = kind THEN o.amount ELSE 0
<1> DEFINE x == WithFilled(t, i)
           o == t.orders[i]
           n == Len(t.orders)
           c == [o EXCEPT !.open = FALSE, !.left = 0]
           os == [t.orders EXCEPT ![i] = c]
<1>1. t \in TradeType /\ t.orders \in Seq(Order) /\ n \in Nat /\ DOMAIN t.orders = 1..n
      /\ \A j \in 1..n : t.orders[j] \in Order
  BY OrdersAre DEF Sound
<1>2. i = n /\ i \in 1..n /\ o.open /\ o \in Order /\ OpenOnes(t) = {i}
  BY OpenOneIs
<1>3. c \in Order /\ ~c.open /\ c.left = 0 /\ c.kind = o.kind /\ c.amount = o.amount
  BY <1>2 DEF Order
<1>4. os \in Seq(Order) /\ Len(os) = n /\ \A j \in 1..n : os[j] = IF j = i THEN c ELSE t.orders[j]
  BY <1>1, <1>2, <1>3, ExceptSeq
<1>5. x = [t EXCEPT !.orders = os]
  <2> DEFINE a == [t.orders EXCEPT ![i].open = FALSE]
             y == [t EXCEPT !.orders = a]
  <2>1. x = [y EXCEPT !.orders = [y.orders EXCEPT ![i].left = 0]]
    BY DEF WithFilled
  <2>2. y.orders = a
    BY <1>1 DEF TradeType
  <2>3. [a EXCEPT ![i].left = 0] = os
    <3>1. a = [t.orders EXCEPT ![i] = [o EXCEPT !.open = FALSE]]
      OBVIOUS
    <3>2. t.orders \in [1..n -> Order]
      BY <1>1
    <3>3. a[i] = [o EXCEPT !.open = FALSE]
      BY <1>2, <3>1, <3>2
    <3>4. [a EXCEPT ![i].left = 0] = [a EXCEPT ![i] = [a[i] EXCEPT !.left = 0]]
      OBVIOUS
    <3>5. c = [a[i] EXCEPT !.left = 0]
      BY <3>3
    <3> HIDE DEF c
    <3>6. [a EXCEPT ![i] = c] = [t.orders EXCEPT ![i] = c]
      BY <3>1, <3>2
    <3> QED BY <3>4, <3>5, <3>6
  <2>4. x = [y EXCEPT !.orders = os]
    BY <2>1, <2>2, <2>3
  <2> HIDE DEF a, os
  <2>5. [y EXCEPT !.orders = os] = [t EXCEPT !.orders = os]
    BY <1>1 DEF TradeType
  <2> QED BY <2>4, <2>5
<1> HIDE DEF os, c
<1>6. x \in TradeType /\ x.orders = os /\ x.amount = t.amount
      /\ x.id = t.id /\ x.pair = t.pair /\ x.side = t.side /\ x.opened = t.opened /\ x.close = t.close
  BY <1>1, <1>4, <1>5 DEF TradeType
<1> HIDE DEF x
<1>7. DOMAIN x.orders = 1..n /\ Len(x.orders) = n
  BY <1>1, <1>4, <1>6, LenProperties
<1>8. \A j \in 1..n : j # i => ~t.orders[j].open /\ t.orders[j].left = 0
  BY <1>1, <1>2 DEF OpenOnes, Sound, Sized
<1>9. \A j \in DOMAIN x.orders : ~x.orders[j].open /\ x.orders[j].left = 0
  BY <1>3, <1>4, <1>6, <1>7, <1>8
<1>10. OpenIsLast(x) /\ ~HasOpen(x)
  BY <1>9 DEF OpenIsLast, HasOpen, OpenOnes
<1>11. x.orders[i] = c
  BY <1>2, <1>4, <1>6
<1>12. ASSUME NEW kind \in {"entry", "exit"}
       PROVE  Filled(x, kind) = Filled(t, kind) + IF o.kind = kind THEN o.amount ELSE 0
  <2>1. \A j \in 1..(n - 1) : x.orders[j] = t.orders[j]
    BY <1>1, <1>2, <1>4, <1>6
  <2>2. Filled(x, kind) + Worth(t.orders[n], kind) = Filled(t, kind) + Worth(x.orders[n], kind)
    BY <1>1, <1>2, <1>6, <1>7, <2>1, FilledChanges
  <2>3. Worth(t.orders[n], kind) = 0
    BY <1>2 DEF Worth
  <2>4. Worth(x.orders[n], kind) = IF o.kind = kind THEN o.amount ELSE 0
    BY <1>2, <1>3, <1>11 DEF Worth
  <2>5. Filled(x, kind) \in Nat /\ Filled(t, kind) \in Nat
    BY <1>1, <1>6, FilledNat
  <2> QED BY <2>2, <2>3, <2>4, <2>5
<1>13. x.orders[i].amount = o.amount /\ o.amount \in Nat \ {0} /\ i \in DOMAIN x.orders
  BY <1>2, <1>3, <1>7, <1>11 DEF Order
<1> QED BY <1>6, <1>9, <1>10, <1>12, <1>13 DEF x

\* recalc_trade_from_orders of a trade whose orders are filled and come to more than
\* nothing makes it sound.
LEMMA RecalcSound ==
  ASSUME NEW t, Sound(t), NEW x \in TradeType, OpenIsLast(x),
         \A j \in DOMAIN x.orders : ~x.orders[j].open /\ x.orders[j].left = 0,
         x.id = t.id, x.pair = t.pair, x.side = t.side, x.opened = t.opened, x.close = t.close,
         Keeps(t, x), Filled(x, "entry") > Filled(x, "exit")
  PROVE  Follows(t, Recalc(x)) /\ ~HasOpen(Recalc(x))
         /\ Recalc(x) = [x EXCEPT !.amount = Filled(x, "entry") - Filled(x, "exit")]
<1> DEFINE a == Filled(x, "entry") - Filled(x, "exit")
           y == [x EXCEPT !.amount = a]
<1>1. Filled(x, "entry") \in Nat /\ Filled(x, "exit") \in Nat
  BY FilledNat
<1>2. a \in Nat /\ a > 0
  BY <1>1
<1>3. Recalc(x) = y
  BY <1>2 DEF Recalc
<1>4. y \in TradeType /\ y.orders = x.orders /\ y.amount = a
      /\ y.id = x.id /\ y.pair = x.pair /\ y.side = x.side /\ y.opened = x.opened /\ y.close = x.close
  BY <1>2 DEF TradeType
<1>5. Filled(y, "entry") = Filled(x, "entry") /\ Filled(y, "exit") = Filled(x, "exit")
  BY <1>4, FilledIs
<1>6. Keeps(t, y)
  BY <1>5 DEF Keeps, Kinds
<1> HIDE DEF y
<1>7. Sound(y) /\ ~HasOpen(y)
  BY <1>1, <1>2, <1>4, <1>5 DEF Sound, OpenIsLast, Sized, Balanced, HasOpen, OpenOnes
<1> QED BY <1>3, <1>4, <1>6, <1>7 DEF Follows, Kept, y

\* What is sound is not changed by it.
LEMMA RecalcSame ==
  ASSUME NEW t, Sound(t)
  PROVE  Recalc(t) = t
<1> DEFINE a == Filled(t, "entry") - Filled(t, "exit")
<1>1. [t EXCEPT !.amount = t.amount] = t
  BY DEF Sound, TradeType
<1>2. Recalc(t) = [t EXCEPT !.amount = a] \/ Recalc(t) = t
  BY DEF Recalc
<1>3. t.amount = a
  BY DEF Sound, Balanced
<1> HIDE DEF a
<1>4. [t EXCEPT !.amount = a] = [t EXCEPT !.amount = t.amount]
  BY <1>3, Zenon
<1> QED BY <1>1, <1>2, <1>4, Zenon

\* A simulated partial fill.
LEMMA LeftSound ==
  ASSUME NEW t, Sound(t), NEW i \in OpenOnes(t), NEW f \in 1..(t.orders[i].amount - 1)
  PROVE  LET x == [t EXCEPT !.orders[i].left = t.orders[i].amount - f] IN Follows(t, x) /\ x.orders[i].open
<1> DEFINE o == t.orders[i]
           n == Len(t.orders)
           c == [o EXCEPT !.left = o.amount - f]
           os == [t.orders EXCEPT ![i] = c]
           x == [t EXCEPT !.orders[i].left = t.orders[i].amount - f]
<1>1. t \in TradeType /\ t.orders \in Seq(Order) /\ n \in Nat /\ DOMAIN t.orders = 1..n
      /\ \A j \in 1..n : t.orders[j] \in Order
  BY OrdersAre DEF Sound
<1>2. i = n /\ i \in 1..n /\ o.open /\ o \in Order /\ o.amount \in Nat
  BY OpenOneIs DEF Order
<1>30. c = [kind |-> o.kind, price |-> o.price, ft |-> o.ft, amount |-> o.amount, left |-> o.amount - f,
           open |-> o.open, placed |-> o.placed]
  <2>1. o = [kind |-> o.kind, price |-> o.price, ft |-> o.ft, amount |-> o.amount, left |-> o.left,
             open |-> o.open, placed |-> o.placed]
    BY <1>2 DEF Order
  <2> QED BY <2>1
<1>3. c \in Order /\ c.open /\ c.left \in 1..c.amount /\ c.kind = o.kind /\ c.amount = o.amount
  <2>1. o.amount - f \in Nat /\ o.amount - f \in 1..o.amount
    BY <1>2
  <2>2. /\ o.kind \in {"entry", "exit"} /\ o.price \in Nat /\ o.ft \in Nat /\ o.amount \in Nat \ {0}
        /\ o.placed \in Nat /\ (o.kind = "exit" => o.price = o.ft)
    BY <1>2 DEF Order
  <2> HIDE DEF c
  <2> QED BY <1>2, <1>30, <2>1, <2>2 DEF Order
<1>31. c.open = o.open
  BY <1>30
<1>4. os \in Seq(Order) /\ Len(os) = n /\ \A j \in 1..n : os[j] = IF j = i THEN c ELSE t.orders[j]
  BY <1>1, <1>2, <1>3, ExceptSeq
<1>5. x = [t EXCEPT !.orders = os]
  OBVIOUS
<1> HIDE DEF os, c
<1>6. x \in TradeType /\ x.orders = os /\ x.amount = t.amount
      /\ x.id = t.id /\ x.pair = t.pair /\ x.side = t.side /\ x.opened = t.opened /\ x.close = t.close
  BY <1>1, <1>4, <1>5 DEF TradeType
<1> HIDE DEF x
<1>7. DOMAIN x.orders = 1..n /\ Len(x.orders) = n
  BY <1>1, <1>4, <1>6, LenProperties
<1>8. \A j \in 1..n : x.orders[j].open = t.orders[j].open /\ x.orders[j].kind = t.orders[j].kind
                      /\ x.orders[j].amount = t.orders[j].amount
  BY <1>2, <1>3, <1>31, <1>4, <1>6
<1>9. OpenIsLast(x)
  BY <1>1, <1>7, <1>8 DEF Sound, OpenIsLast
<1>10. Sized(x)
  <2>1. ASSUME NEW j \in 1..n
        PROVE  x.orders[j].left \in IF x.orders[j].open THEN 1..x.orders[j].amount ELSE {0}
    <3>1. CASE j = i
      BY <1>3, <1>4, <1>6, <3>1
    <3>2. CASE j # i
      BY <1>1, <1>4, <1>6, <3>2 DEF Sound, Sized
    <3> QED BY <3>1, <3>2
  <2>2. ASSUME NEW j \in 1..n, x.orders[j].open, x.orders[j].kind = "exit"
        PROVE  x.orders[j].amount <= x.amount
    BY <1>1, <1>6, <1>8, <2>2 DEF Sound, Sized
  <2> QED BY <1>7, <2>1, <2>2 DEF Sized
<1>11. ASSUME NEW kind \in {"entry", "exit"}
       PROVE  Filled(x, kind) = Filled(t, kind)
  <2>1. \A j \in 1..Len(t.orders) : Worth(x.orders[j], kind) = Worth(t.orders[j], kind)
    BY <1>8 DEF Worth
  <2> QED BY <1>1, <1>6, <1>7, <2>1, FilledSame
<1>12. Balanced(x)
  BY <1>6, <1>11 DEF Sound, Balanced
<1>13. Keeps(t, x)
  BY <1>1, <1>11, SameKeeps DEF Kinds
<1>14. Follows(t, x) /\ x.orders[i].open
  BY SMTT(30), <1>2, <1>6, <1>8, <1>9, <1>10, <1>12, <1>13 DEF Follows, Sound, Kept
<1> QED BY <1>14 DEF x
-----------------------------------------------------------------------------
(* What the simulation does to a trade                                       *)

Setting == setup \in Setups /\ now \in Nat

LEMMA NewOrderFresh ==
  ASSUME Setting, NEW t, Sound(t), NEW kind \in {"entry", "exit"}, NEW price \in Prices,
         NEW amount \in Nat \ {0}, kind = "exit" => amount <= t.amount
  PROVE  Fresh(t, NewOrder(t, kind, price, amount)) /\ NewOrder(t, kind, price, amount).kind = kind
         /\ NewOrder(t, kind, price, amount).amount = amount
<1>1. price \in Nat /\ setup.slippage \in Nat /\ setup.slippage <= price
  BY BacktestAssumption DEF Setting, SetupType
<1> DEFINE s == Slipped(price, t.side, kind)
<1>2. s \in Nat
  BY <1>1 DEF Slipped
<1>3. NewOrder(t, kind, price, amount)
      = [kind |-> kind, price |-> IF kind = "entry" THEN price ELSE s, ft |-> s,
         amount |-> amount, left |-> amount, open |-> TRUE, placed |-> now]
  BY DEF NewOrder
<1> HIDE DEF s
<1>4. NewOrder(t, kind, price, amount) \in Order
  BY <1>1, <1>2, <1>3 DEF Order, Setting
<1> QED BY <1>3, <1>4 DEF Fresh

\* What TryClose makes of an open entry order is as sound as before.
LEMMA TryCloseEntry ==
  ASSUME NEW t, Sound(t), NEW i \in OpenOnes(t), t.orders[i].kind = "entry", NEW row,
         NEW x \in TryClose(t, i, row)
  PROVE  Follows(t, x)
<1> DEFINE y == WithFilled(t, i)
           o == t.orders[i]
<1>1. Follows(t, Recalc(y))
  <2>1. /\ y \in TradeType /\ OpenIsLast(y)
        /\ y.id = t.id /\ y.pair = t.pair /\ y.side = t.side /\ y.opened = t.opened /\ y.close = t.close
        /\ \A j \in DOMAIN y.orders : ~y.orders[j].open /\ y.orders[j].left = 0
        /\ o.amount \in Nat \ {0}
        /\ \A kind \in {"entry", "exit"} :
             Filled(y, kind) = Filled(t, kind) + IF o.kind = kind THEN o.amount ELSE 0
    BY WithFilledIs
  <2> HIDE DEF y
  <2>2. Filled(t, "entry") \in Nat /\ Filled(t, "exit") \in Nat /\ t.amount \in Nat
    BY FilledNat DEF Sound, TradeType
  <2>3. Filled(y, "entry") = Filled(t, "entry") + o.amount /\ Filled(y, "exit") = Filled(t, "exit")
    BY <2>1, <2>2
  <2>4. Filled(t, "entry") >= Filled(t, "exit")
    BY <2>2 DEF Sound, Balanced
  <2>5. Keeps(t, y) /\ Filled(y, "entry") > Filled(y, "exit")
    BY <2>1, <2>2, <2>3, <2>4 DEF Keeps, Kinds
  <2> QED BY <2>1, <2>5, RecalcSound
<1>2. CloseOrder(t, i) = Recalc(y)
  BY DEF CloseOrder, WithFilled
<1> HIDE DEF y
<1>3. \A f \in 1..(o.amount - 1) : Follows(t, [t EXCEPT !.orders[i].left = o.amount - f])
  BY LeftSound
<1>4. Follows(t, t)
  BY FollowsItself
<1>5. \/ x = t \/ x = CloseOrder(t, i)
      \/ \E f \in 1..(o.amount - 1) : x = [t EXCEPT !.orders[i].left = o.amount - f]
  BY DEF TryClose
<1> QED BY <1>1, <1>2, <1>3, <1>4, <1>5

\* An exit order that is not filled leaves the trade sound.  A filled one for a part of
\* the position is sound after it was recalculated; one for all of it has sold all.
Sold(t, x) ==
  /\ x \in TradeType /\ ~HasOpen(x) /\ Filled(x, "exit") = Filled(x, "entry")
  /\ x.id = t.id /\ x.pair = t.pair /\ x.side = t.side /\ x.opened = t.opened
  /\ Keeps(t, x)

LEMMA TryCloseExit ==
  ASSUME NEW t, Sound(t), NEW i \in OpenOnes(t), t.orders[i].kind = "exit", NEW row,
         NEW x \in TryClose(t, i, row)
  PROVE  /\ x.orders[i].open => Follows(t, x)
         /\ ~x.orders[i].open /\ x.orders[i].amount # t.amount => Follows(t, Recalc(x))
         /\ ~x.orders[i].open /\ x.orders[i].amount = t.amount => Sold(t, x)
<1> DEFINE y == WithFilled(t, i)
           o == t.orders[i]
<1>1. i \in DOMAIN t.orders /\ o.open /\ o.amount <= t.amount
  BY DEF OpenOnes, Sound, Sized
<1>2. CloseOrder(t, i) = y
  BY DEF CloseOrder, WithFilled
<1>3. /\ y \in TradeType /\ OpenIsLast(y) /\ ~HasOpen(y)
      /\ y.id = t.id /\ y.pair = t.pair /\ y.side = t.side /\ y.opened = t.opened /\ y.close = t.close
      /\ \A j \in DOMAIN y.orders : ~y.orders[j].open /\ y.orders[j].left = 0
      /\ i \in DOMAIN y.orders /\ y.orders[i].amount = o.amount /\ o.amount \in Nat \ {0}
      /\ \A kind \in {"entry", "exit"} :
           Filled(y, kind) = Filled(t, kind) + IF o.kind = kind THEN o.amount ELSE 0
  BY WithFilledIs
<1> HIDE DEF y
<1>4. Filled(t, "entry") \in Nat /\ Filled(t, "exit") \in Nat /\ t.amount \in Nat
      /\ t.amount = Filled(t, "entry") - Filled(t, "exit")
  BY FilledNat DEF Sound, TradeType, Balanced
<1>5. Filled(y, "entry") = Filled(t, "entry") /\ Filled(y, "exit") = Filled(t, "exit") + o.amount
  BY <1>3, <1>4
<1>6. Keeps(t, y)
  BY <1>3, <1>4, <1>5 DEF Keeps, Kinds
<1>7. ASSUME y.orders[i].amount # t.amount
      PROVE  Follows(t, Recalc(y))
  <2>1. Filled(y, "entry") > Filled(y, "exit")
    BY <1>1, <1>3, <1>4, <1>5, <1>7
  <2> QED BY <1>3, <1>6, <2>1, RecalcSound
<1>8. ASSUME y.orders[i].amount = t.amount
      PROVE  Sold(t, y)
  <2>1. Filled(y, "exit") = Filled(y, "entry")
    BY <1>3, <1>4, <1>5, <1>8
  <2> QED BY <1>3, <1>6, <2>1 DEF Sold
<1>9. ~y.orders[i].open
  BY <1>3
<1>10. \A f \in 1..(o.amount - 1) :
        LET z == [t EXCEPT !.orders[i].left = o.amount - f] IN Follows(t, z) /\ z.orders[i].open
  BY LeftSound
<1>11. Follows(t, t)
  BY FollowsItself
<1>12. \/ x = t \/ x = CloseOrder(t, i)
       \/ \E f \in 1..(o.amount - 1) : x = [t EXCEPT !.orders[i].left = o.amount - f]
  BY DEF TryClose
<1>13. CASE x = t
  BY <1>1, <1>11, <1>13
<1>14. CASE x = CloseOrder(t, i)
  <2>1. x = y
    BY <1>2, <1>14
  <2> QED BY <1>7, <1>8, <1>9, <2>1
<1>15. CASE \E f \in 1..(o.amount - 1) : x = [t EXCEPT !.orders[i].left = o.amount - f]
  <2>1. Follows(t, x) /\ x.orders[i].open
    BY <1>10, <1>15
  <2> QED BY <2>1
<1> QED BY <1>12, <1>13, <1>14, <1>15

\* _exit_trade
LEMMA ExitSound ==
  ASSUME Setting, NEW t, Sound(t), NEW price \in Prices, NEW amount \in 1..t.amount
  PROVE  /\ Follows(t, Exit(t, price, amount)) /\ Exit(t, price, amount).amount = t.amount
         /\ LET x == Exit(t, price, amount) n == Len(x.orders) IN
            /\ n \in OpenOnes(x) /\ x.orders[n].kind = "exit" /\ x.orders[n].amount = amount
            /\ x = t \/ x.orders[n] = NewOrder(t, "exit", price, amount)
            /\ x.orders[n].price = NewOrder(t, "exit", price, amount).price
<1> DEFINE o == NewOrder(t, "exit", price, amount)
           x == Exit(t, price, amount)
<1>1. t.amount \in Nat
  BY DEF Sound, TradeType
<1>2. Fresh(t, o) /\ o.kind = "exit" /\ o.amount = amount
  <2>1. amount \in Nat \ {0} /\ amount <= t.amount
    BY <1>1
  <2> QED BY <2>1, NewOrderFresh
<1> HIDE DEF o
<1>3. CASE Similar(t, o)
  <2>1. x = t
    BY <1>3 DEF Exit, o
  <2> HIDE DEF x
  <2>2. OpenOf(t, "exit") # {} /\ t.orders[Max(OpenOf(t, "exit"))].price = o.price
        /\ t.orders[Max(OpenOf(t, "exit"))].amount = amount
    BY <1>2, <1>3 DEF Similar
  <2>3. PICK i \in OpenOf(t, "exit") : TRUE
    BY <2>2
  <2>4. i \in OpenOnes(t) /\ t.orders[i].kind = "exit"
    BY <2>3 DEF OpenOf
  <2>5. i = Len(t.orders) /\ Max(OpenOf(t, "exit")) = i
    BY <2>3, <2>4, OpenOneIs
  <2>6. Follows(t, t)
    BY FollowsItself
  <2> QED BY <2>1, <2>2, <2>4, <2>5, <2>6 DEF o, x
<1>4. CASE ~Similar(t, o)
  <2>1. x = Place(t, o)
    BY <1>4 DEF Exit, o
  <2> HIDE DEF x
  <2>2. Follows(t, x) /\ x.amount = t.amount /\ Len(x.orders) \in DOMAIN x.orders /\ x.orders[Len(x.orders)] = o
    BY <1>2, <2>1, PlaceSound
  <2>3. Len(x.orders) \in OpenOnes(x)
    BY <1>2, <2>2 DEF OpenOnes, Fresh
  <2> QED BY <1>2, <2>2, <2>3 DEF o, x
<1> QED BY <1>3, <1>4

\* _enter_trade
LEMMA EnterSound ==
  ASSUME Setting, NEW t, Sound(t), NEW price \in Prices, NEW amount \in Nat, NEW row,
         NEW x \in Enter(t, price, amount, row)
  PROVE  Follows(t, x)
<1> DEFINE o == NewOrder(t, "entry", price, amount)
<1>1. CASE amount = 0 \/ Similar(t, o)
  <2>1. x = t
    BY <1>1 DEF Enter
  <2> QED BY <2>1, FollowsItself
<1>2. CASE ~(amount = 0 \/ Similar(t, o))
  <2> DEFINE p == Place(t, o)
             n == Len(p.orders)
  <2>1. \E y \in TryClose(p, n, row) : x = Recalc(y)
    BY <1>2 DEF Enter
  <2>2. Fresh(t, o) /\ o.kind = "entry"
    <3>1. amount \in Nat \ {0}
      BY <1>2
    <3> QED BY <3>1, NewOrderFresh
  <2> HIDE DEF o
  <2>3. Follows(t, p) /\ n \in DOMAIN p.orders /\ p.orders[n] = o
    BY <2>2, PlaceSound
  <2> HIDE DEF p
  <2>4. Sound(p) /\ n \in OpenOnes(p) /\ p.orders[n].kind = "entry"
    BY <2>2, <2>3 DEF OpenOnes, Fresh, Follows
  <2> HIDE DEF n
  <2>5. PICK y \in TryClose(p, n, row) : x = Recalc(y)
    BY <2>1
  <2>6. Follows(p, y)
    BY <2>4, <2>5, TryCloseEntry
  <2>7. Recalc(y) = y
    BY <2>6, RecalcSame DEF Follows
  <2>8. t \in TradeType
    BY DEF Sound
  <2> QED BY <2>3, <2>5, <2>6, <2>7, <2>8, FollowsAll
<1> QED BY <1>1, <1>2

\* manage_open_orders: only a trade that has bought nothing is removed.
LEMMA ManageSound ==
  ASSUME Setting, NEW t, Sound(t), NEW r \in ManageOrder(t)
  PROVE  Follows(t, r.trade) /\ (r.remove => Filled(t, "entry") = 0)
<1> DEFINE i == Max(OpenOnes(t))
           o == t.orders[i]
<1>1. t \in TradeType /\ Filled(t, "entry") \in Nat
  BY FilledNat DEF Sound
<1>2. Follows(t, t)
  BY FollowsItself
<1>3. CASE r = [trade |-> t, remove |-> FALSE]
  BY <1>2, <1>3
<1>4. ASSUME HasOpen(t)
      PROVE  i \in OpenOnes(t) /\ o \in Order /\ o.open /\ o.left \in 1..o.amount
             /\ (o.kind = "exit" => o.amount <= t.amount)
  <2>1. PICK j \in OpenOnes(t) : TRUE
    BY <1>4 DEF HasOpen
  <2>2. j = i /\ j \in 1..Len(t.orders) /\ t.orders[j] \in Order /\ t.orders[j].open
    BY <2>1, OpenOneIs
  <2>3. j \in DOMAIN t.orders
    BY <2>1 DEF OpenOnes
  <2> HIDE DEF i
  <2> QED BY <2>1, <2>2, <2>3 DEF Sound, Sized
<1> HIDE DEF i
<1>5. ASSUME HasOpen(t), r = Removed(t, i)
      PROVE  Follows(t, r.trade) /\ (r.remove => Filled(t, "entry") = 0)
  <2>1. r.trade = Without(t, i) /\ (r.remove => ~Successful(t))
    BY <1>5 DEF Removed
  <2>2. Follows(t, Without(t, i))
    BY <1>4, <1>5, WithoutSound
  <2> QED BY <1>1, <2>1, <2>2, BoughtIsSuccessful
<1>6. ASSUME HasOpen(t), NEW price \in Prices, r \in Replaced(t, i, price)
      PROVE  Follows(t, r.trade) /\ (r.remove => Filled(t, "entry") = 0)
  <2> DEFINE rest == Without(t, i)
  <2>1. Follows(t, rest) /\ ~HasOpen(rest) /\ rest.amount = t.amount
    BY <1>4, <1>6, WithoutSound
  <2>2. i \in OpenOnes(t) /\ o \in Order /\ o.left \in 1..o.amount /\ (o.kind = "exit" => o.amount <= t.amount)
    BY <1>4, <1>6
  <2>3. o.amount \in Nat /\ o.ft \in Nat /\ t.amount \in Nat
    BY <1>1, <2>2 DEF Order, TradeType
  <2> HIDE DEF rest
  <2>4. CASE o.kind = "exit"
    <3>1. r.trade = Exit(rest, price, o.left) /\ ~r.remove
      BY <1>6, <2>4 DEF Replaced, rest
    <3>2. o.left \in 1..rest.amount
      BY <2>1, <2>2, <2>3, <2>4
    <3> HIDE DEF o
    <3>3. Sound(rest)
      BY <2>1 DEF Follows
    <3>4. Follows(rest, Exit(rest, price, o.left))
      BY <3>2, <3>3, ExitSound
    <3> QED BY <1>1, <2>1, <3>1, <3>4, FollowsAll
  <2>5. CASE o.kind # "exit"
    <3> DEFINE amount == (o.left * o.ft) \div price
    <3>1. \E a \in {0, amount} : \E x \in Enter(rest, price, a, Row) :
             r = [trade |-> x, remove |-> ~HasOpen(x) /\ ~Successful(x)]
      BY <1>6, <2>5 DEF Replaced, rest
    <3>2. amount \in Nat
      <4>1. o.left \in Nat /\ price \in Nat \ {0}
        BY <2>2, <2>3, BacktestAssumption
      <4>2. o.left * o.ft \in Nat
        BY <2>3, <4>1
      <4> HIDE DEF o
      <4>3. \A a \in Nat, b \in Nat \ {0} : a \div b \in Nat
        OBVIOUS
      <4> QED BY <4>1, <4>2, <4>3
    <3> HIDE DEF amount
    <3>8. PICK a \in {0, amount} : \E x \in Enter(rest, price, a, Row) :
             r = [trade |-> x, remove |-> ~HasOpen(x) /\ ~Successful(x)]
      BY <3>1
    <3>3. PICK x \in Enter(rest, price, a, Row) : r = [trade |-> x, remove |-> ~HasOpen(x) /\ ~Successful(x)]
      BY <3>8
    <3>4. a \in Nat /\ Sound(rest)
      BY <2>1, <3>2 DEF Follows
    <3>5. Follows(rest, x)
      BY <3>3, <3>4, EnterSound
    <3>6. Follows(t, x)
      BY <1>1, <2>1, <3>5, FollowsAll
    <3>7. ~Successful(x) => Filled(t, "entry") = 0
      <4>1. x \in TradeType /\ Filled(x, "entry") \in Nat /\ Filled(x, "entry") >= Filled(t, "entry")
        BY <3>6, FilledNat DEF Follows, Sound, Kept, Keeps, Kinds
      <4> QED BY <1>1, <4>1, BoughtIsSuccessful
    <3> QED BY <3>3, <3>6, <3>7
  <2> QED BY <2>4, <2>5
<1>7. r = [trade |-> t, remove |-> FALSE]
      \/ (HasOpen(t) /\ (r = Removed(t, i) \/ \E price \in Prices : r \in Replaced(t, i, price)))
  BY DEF ManageOrder, i
<1> QED BY <1>3, <1>5, <1>6, <1>7
-----------------------------------------------------------------------------
(* What a step does to the trades                                            *)

Trades == count \in Nat /\ Ids \subseteq 1..count /\ \A id \in Ids : Sound(open[id]) /\ open[id].id = id

Results == \A t \in closed : t \in TradeType /\ Filled(t, "exit") = Filled(t, "entry") /\ ~HasOpen(t)

\* A trade that has bought something stays, or is in the results, with its fills.
Remembered(id) == Filled(open[id], "entry") = 0 \/ \E u \in Heirs(id)' : Keeps(open[id], u)

\* No trade comes, and one that goes has bought nothing or is in the results.
Carried ==
  /\ Trades' /\ Results' /\ Ids' \subseteq Ids
  /\ \A id \in Ids' : open'[id].pair = open[id].pair /\ open'[id].opened = open[id].opened
  /\ \A id \in Ids : Remembered(id)

\* At most the trade id goes.
Only(id) == \A other \in Ids \ {id} : other \in Ids'

LEMMA StaysRemembered ==
  ASSUME NEW id \in Ids', Keeps(open[id], open'[id])
  PROVE  Remembered(id)
<1>1. open'[id] \in Heirs(id)'
  BY DEF Heirs, Ids
<1> QED BY <1>1 DEF Remembered

\* Most trades are as they were.
LEMMA SameRemembered ==
  ASSUME Trades, NEW id \in Ids, id \in Ids', open'[id] = open[id]
  PROVE  Remembered(id)
<1>1. Keeps(open[id], open[id])
  BY SameKeeps DEF Trades, Sound
<1> QED BY <1>1, StaysRemembered

LEMMA NothingCarried ==
  ASSUME Trades, Results, open' = open, closed' = closed, count' = count
  PROVE  Carried /\ \A id : Only(id)
<1>1. Ids' = Ids
  BY DEF Ids
<1>2. Trades'
  BY <1>1 DEF Trades
<1>3. Results'
  BY DEF Results
<1>4. \A id \in Ids : Remembered(id)
  BY <1>1, SameRemembered
<1> QED BY <1>1, <1>2, <1>3, <1>4 DEF Carried, Only

LEMMA ChangeCarried ==
  ASSUME Trades, Results, NEW id \in Ids, NEW x, Follows(open[id], x), open' = WithTrade(x),
         closed' = closed, count' = count
  PROVE  Carried /\ Ids' = Ids /\ open'[id] = x /\ \A other : Only(other)
<1>1. Sound(open[id]) /\ open[id].id = id
  BY DEF Trades
<1>2. x.id = id /\ Sound(x) /\ x.pair = open[id].pair /\ x.opened = open[id].opened
  BY <1>1 DEF Follows, Kept
<1>3. Ids' = Ids /\ open'[id] = x /\ \A other \in Ids \ {id} : open'[other] = open[other]
  <2>1. open' = [i \in Ids \cup {id} |-> IF i = id THEN x ELSE open[i]]
    BY <1>2 DEF WithTrade
  <2>2. Ids \cup {id} = Ids
    OBVIOUS
  <2>3. open' = [i \in Ids |-> IF i = id THEN x ELSE open[i]]
    BY <2>1, <2>2
  <2>4. Ids' = Ids
    BY <2>3 DEF Ids
  <2> QED BY <2>3, <2>4
<1>4. Trades'
  BY <1>2, <1>3 DEF Trades
<1>5. Results'
  BY DEF Results
<1>6. \A i \in Ids' : open'[i].pair = open[i].pair /\ open'[i].opened = open[i].opened
  BY <1>2, <1>3
<1>7. Remembered(id)
  BY <1>3, StaysRemembered DEF Follows, Kept
<1>8. \A i \in Ids : Remembered(i)
  BY <1>3, <1>7, SameRemembered
<1> QED BY <1>3, <1>4, <1>5, <1>6, <1>8 DEF Carried, Only

\* A trade is removed that has bought nothing.
LEMMA RemovalCarried ==
  ASSUME Trades, Results, NEW id \in Ids, Filled(open[id], "entry") = 0, open' = Gone(id),
         closed' = closed, count' = count
  PROVE  Carried /\ Ids' = Ids \ {id} /\ Only(id)
<1>1. Ids' = Ids \ {id} /\ \A other \in Ids \ {id} : open'[other] = open[other]
  BY DEF Gone, Ids
<1>2. Trades'
  BY <1>1 DEF Trades
<1>3. Results'
  BY DEF Results
<1>4. Remembered(id)
  BY DEF Remembered
<1>5. \A i \in Ids : Remembered(i)
  BY <1>1, <1>4, SameRemembered
<1> QED BY <1>1, <1>2, <1>3, <1>5 DEF Carried, Only

\* A trade that has sold everything goes to the results.
LEMMA SaleCarried ==
  ASSUME Trades, Results, NEW id \in Ids, NEW t, Follows(open[id], t), NEW x, Sold(t, x), NEW when \in Int,
         open' = Gone(id), closed' = closed \cup {[x EXCEPT !.close = when]}, count' = count
  PROVE  Carried /\ Ids' = Ids \ {id} /\ Only(id)
<1> DEFINE y == [x EXCEPT !.close = when]
<1>1. Ids' = Ids \ {id} /\ \A other \in Ids \ {id} : open'[other] = open[other]
  BY DEF Gone, Ids
<1>2. Trades'
  BY <1>1 DEF Trades
<1>3. x \in TradeType /\ x.id = id /\ ~HasOpen(x) /\ Filled(x, "exit") = Filled(x, "entry")
  BY DEF Sold, Follows, Kept, Trades
<1>4. y \in TradeType /\ y.id = id /\ y.orders = x.orders
  BY <1>3 DEF TradeType
<1> HIDE DEF y
<1>5. Filled(y, "exit") = Filled(x, "exit") /\ Filled(y, "entry") = Filled(x, "entry")
  BY <1>4 DEF Filled
<1>6. ~HasOpen(y)
  BY <1>3, <1>4 DEF HasOpen, OpenOnes
<1>7. closed' = closed \cup {y}
  BY DEF y
<1>8. Results'
  BY <1>3, <1>4, <1>5, <1>6, <1>7 DEF Results
<1>9. Remembered(id)
  <2>1. Keeps(open[id], x)
    BY <1>3, KeepsAll DEF Sold, Follows, Kept, Trades, Sound
  <2>2. Keeps(open[id], y)
    BY <1>5, <2>1 DEF Keeps, Kinds
  <2>3. y \in Heirs(id)'
    BY <1>4, <1>7 DEF Heirs
  <2> QED BY <2>2, <2>3 DEF Remembered
<1>10. \A i \in Ids : Remembered(i)
  BY <1>1, <1>9, SameRemembered
<1> QED BY <1>1, <1>2, <1>8, <1>10 DEF Carried, Only

\* _process_exit_order
LEMMA ExitCarried ==
  ASSUME Trades, Results, NEW id \in Ids, NEW t, Follows(open[id], t), NEW i \in OpenOnes(t),
         t.orders[i].kind = "exit", NEW when \in Int, ProcessExit(t, i, when), count' = count
  PROVE  Carried /\ Only(id)
<1>1. Sound(t) /\ t.id = id /\ open[id] \in TradeType
  BY DEF Follows, Kept, Trades, Sound
<1>2. PICK x \in TryClose(t, i, Row) :
        IF x.orders[i].open THEN open' = WithTrade(x) /\ closed' = closed
        ELSE IF x.orders[i].amount # t.amount THEN open' = WithTrade(Recalc(x)) /\ closed' = closed
             ELSE open' = Gone(id) /\ closed' = closed \cup {[x EXCEPT !.close = when]}
  BY <1>1 DEF ProcessExit
<1>3. /\ x.orders[i].open => Follows(t, x)
      /\ ~x.orders[i].open /\ x.orders[i].amount # t.amount => Follows(t, Recalc(x))
      /\ ~x.orders[i].open /\ x.orders[i].amount = t.amount => Sold(t, x)
  BY <1>1, TryCloseExit
<1>4. CASE x.orders[i].open
  <2>1. Follows(open[id], x)
    BY <1>1, <1>3, <1>4, FollowsAll
  <2> QED BY <1>2, <1>4, <2>1, ChangeCarried
<1>5. CASE ~x.orders[i].open /\ x.orders[i].amount # t.amount
  <2>1. Follows(open[id], Recalc(x))
    BY <1>1, <1>3, <1>5, FollowsAll
  <2> QED BY <1>2, <1>5, <2>1, ChangeCarried
<1>6. CASE ~x.orders[i].open /\ x.orders[i].amount = t.amount
  <2>1. Sold(t, x)
    BY <1>3, <1>6
  <2> QED BY <1>2, <1>6, <2>1, SaleCarried
<1> QED BY <1>4, <1>5, <1>6

\* An order of the whole position that the row reaches closes the trade.
LEMMA ExitCloses ==
  ASSUME NEW t, Sound(t), NEW i \in OpenOnes(t), t.orders[i].kind = "exit", t.orders[i].amount = t.amount,
         Reached(t.orders[i], Row), NEW when \in Int, ProcessExit(t, i, when)
  PROVE  open' = Gone(t.id)
<1>1. PICK x \in TryClose(t, i, Row) :
        ~x.orders[i].open /\ x.orders[i].amount = t.amount => open' = Gone(t.id)
  BY DEF ProcessExit
<1>2. x = CloseOrder(t, i)
  BY DEF TryClose, SellsAll
<1>3. CloseOrder(t, i) = WithFilled(t, i)
  BY DEF CloseOrder, WithFilled
<1>4. i \in DOMAIN WithFilled(t, i).orders /\ WithFilled(t, i).orders[i].amount = t.orders[i].amount
      /\ \A j \in DOMAIN WithFilled(t, i).orders : ~WithFilled(t, i).orders[j].open
  BY WithFilledIs
<1> QED BY <1>1, <1>2, <1>3, <1>4
-----------------------------------------------------------------------------
(* The invariant                                                             *)

Directions == {"long", "short", "none"}
RowPhase == {"manage", "enter", "fill", "adjust", "exit", "sell", "again"}
RowType == [pair : Pairs, row : Rows, dir : Directions, second : BOOLEAN, exiting : Directions]

Typed ==
  /\ setup \in Setups /\ candle \in 0..Candles /\ step \in 0..(Timeframe - 1)
  /\ queue \in Seq(Pairs) /\ main \in [Pairs -> Rows \cup {<<>>}] /\ dirs \in [Pairs -> Directions]
  /\ details \subseteq Pairs
  /\ phase \in RowPhase => now_row \in RowType

\* The trades that are still to be processed are open, but for one that was closed while
\* it is processed.  At the end all that are open are to be processed: without slippage
\* every forced exit is filled.
Turn ==
  /\ todo \subseteq 1..count
  /\ IF phase \in {"exit", "sell"} THEN todo \ {Current} \subseteq Ids ELSE todo \subseteq Ids
  /\ phase \in {"adjust", "exit", "sell", "force"} => todo # {}
  /\ setup.slippage = 0 =>
       /\ phase \in {"left", "force"} => todo = Ids
       /\ phase = "done" => Ids = {}

\* A pair with an open trade has a candle, or gets it in this step.
Charted(p) ==
  /\ FirstRow[p] <= candle
  /\ \/ main[p] \in Rows
     \/ phase # "candle" /\ step = 0 /\ candle <= LastRow[p] /\ \E i \in DOMAIN queue : queue[i] = p

Chart ==
  /\ \A id \in Ids : Charted(open[id].pair)
  /\ \A p \in details : main[p] \in Rows /\ FirstRow[p] <= candle
  /\ phase \in RowPhase => FirstRow[now_row.pair] <= candle /\ main[now_row.pair] \in Rows
  /\ phase \in {"left", "force"} => candle = Candles /\ \A id \in Ids : main[open[id].pair] \in Rows

\* The forced exit is an order for all of the position, at the candle's open.
Forced ==
  phase = "force" =>
    LET t == open[Current] n == Len(t.orders) IN
    /\ n \in OpenOnes(t) /\ t.orders[n].kind = "exit" /\ t.orders[n].amount = t.amount
    /\ now_row.row = main[t.pair]
    /\ setup.slippage = 0 => t.orders[n].ft = now_row.row.open

Inv == Typed /\ Trades /\ Results /\ Turn /\ Chart /\ Forced

\* The parts that a step which processes a trade leaves alone.
Walk == UNCHANGED <<setup, candle, step, queue, main, dirs, details>>

LEMMA SettingHolds ==
  ASSUME Typed
  PROVE  Setting /\ setup.slippage \in Nat /\ candle \in Nat /\ Rows \subseteq [low : Prices, open : Prices, high : Prices]
<1>1. candle \in Nat /\ step \in Nat /\ Timeframe \in Nat /\ candle * Timeframe \in Nat
  BY BacktestAssumption, TimeAssumption DEF Typed
<1>2. now \in Nat
  BY <1>1 DEF now
<1>3. setup \in Setups /\ setup.slippage \in Nat
  BY BacktestAssumption DEF Typed, SetupType
<1>4. Rows \subseteq [low : Prices, open : Prices, high : Prices]
  BY DEF Rows
<1> QED BY <1>1, <1>2, <1>3, <1>4 DEF Setting

\* Min(todo) is one of them.
LEMMA CurrentIs ==
  ASSUME count \in Nat, todo \subseteq 1..count, todo # {}
  PROVE  Current \in todo /\ \A id \in todo : Current <= id
<1>1. todo \in SUBSET Nat
  OBVIOUS
<1>2. \E x \in todo : \A y \in todo : x <= y
  BY <1>1, LeastExists
<1> QED BY <1>2 DEF Current, Min

\* What a step of a row keeps, whatever it does to the trades in the carried way.
LEMMA ChartKept ==
  ASSUME Typed, Chart, Walk, now_row' = now_row, Carried,
         phase \in RowPhase, phase' \in RowPhase
  PROVE  Typed' /\ Chart'
<1>1. Typed'
  BY DEF Typed, Walk
<1>2. \A p \in Pairs : Charted(p) => Charted(p)'
  BY DEF Charted, Walk, RowPhase
<1>3. ASSUME NEW id \in Ids'
      PROVE  Charted(open[id].pair)'
  <2>1. id \in Ids /\ open'[id].pair = open[id].pair
    BY <1>3 DEF Carried
  <2>2. Charted(open[id].pair)
    BY <2>1 DEF Chart
  <2>3. open'[id].pair \in Pairs
    BY <1>3 DEF Carried, Trades, Sound, TradeType
  <2> QED BY <1>2, <2>1, <2>2, <2>3
<1>4. \A p \in details' : main'[p] \in Rows /\ FirstRow[p] <= candle'
  BY DEF Chart, Walk
<1>5. FirstRow[now_row'.pair] <= candle' /\ main'[now_row'.pair] \in Rows
  <2>1. FirstRow[now_row.pair] <= candle /\ main[now_row.pair] \in Rows
    BY Zenon DEF Chart
  <2> QED BY <2>1 DEF Walk
<1>6. phase' \notin {"left", "force"}
  BY DEF RowPhase
<1>7. Chart'
  BY <1>3, <1>4, <1>5, <1>6, Zenon DEF Chart
<1> QED BY <1>1, <1>7
-----------------------------------------------------------------------------
(* The actions                                                               *)

LEMMA AdvanceWalks ==
  ASSUME NEW to, Advance(to)
  PROVE  Walk /\ now_row' = now_row /\ phase' = to
BY DEF Advance, Walk, walk

LEMMA ManageStep ==
  ASSUME Inv, ManageOpenOrders
  PROVE  Inv' /\ Carried
<1>1. /\ Typed /\ Trades /\ Results /\ Turn /\ Chart /\ Setting
      /\ closed' = closed /\ count' = count /\ phase = "manage"
  BY SettingHolds DEF Inv, ManageOpenOrders
<1>2. todo \subseteq Ids /\ todo \subseteq 1..count /\ count \in Nat
  BY <1>1 DEF Turn, Trades
<1>3. CASE todo = {}
  <2>1. Advance("enter") /\ open' = open /\ todo' = {}
    BY <1>3 DEF ManageOpenOrders
  <2>2. Walk /\ now_row' = now_row /\ phase' = "enter"
    BY <2>1, AdvanceWalks
  <2>3. Carried
    BY <1>1, <2>1, NothingCarried
  <2>4. phase \in RowPhase /\ phase' \in RowPhase
    BY <1>1, <2>2 DEF RowPhase
  <2>5. Typed' /\ Chart'
    BY <1>1, <2>2, <2>3, <2>4, ChartKept
  <2>6. Turn'
    BY <2>1, <2>2 DEF Turn
  <2>7. Forced'
    BY <2>2 DEF Forced
  <2> QED BY <2>3, <2>5, <2>6, <2>7 DEF Inv, Carried
<1>4. CASE todo # {}
  <2>1. Advance("manage") /\ todo' = todo \ {Current}
    BY <1>4 DEF ManageOpenOrders, Next1
  <2>2. Walk /\ now_row' = now_row /\ phase' = "manage"
    BY <2>1, AdvanceWalks
  <2>3. Current \in todo /\ Current \in Ids /\ Sound(open[Current])
    BY <1>1, <1>2, <1>4, CurrentIs DEF Trades
  <2>4. PICK r \in ManageOrder(open[Current]) : open' = IF r.remove THEN Gone(Current) ELSE WithTrade(r.trade)
    BY <1>4 DEF ManageOpenOrders
  <2>5. Follows(open[Current], r.trade) /\ (r.remove => Filled(open[Current], "entry") = 0)
    BY <1>1, <2>3, <2>4, ManageSound
  <2>6. Carried /\ Only(Current)
    <3>1. CASE r.remove
      <4>1. open' = Gone(Current) /\ Filled(open[Current], "entry") = 0
        BY <2>4, <2>5, <3>1
      <4> QED BY <1>1, <2>3, <4>1, RemovalCarried
    <3>2. CASE ~r.remove
      <4>1. open' = WithTrade(r.trade)
        BY <2>4, <3>2
      <4> QED BY <1>1, <2>3, <2>5, <4>1, ChangeCarried
    <3> QED BY <3>1, <3>2
  <2>7. phase \in RowPhase /\ phase' \in RowPhase
    BY <1>1, <2>2 DEF RowPhase
  <2>8. Typed' /\ Chart'
    BY <1>1, <2>2, <2>6, <2>7, ChartKept
  <2>9. Turn'
    <3>1. todo' \subseteq Ids'
      BY <1>2, <2>1, <2>6 DEF Only
    <3>2. todo' \subseteq 1..count'
      BY <1>1, <1>2, <2>1
    <3> QED BY <2>2, <3>1, <3>2 DEF Turn
  <2>10. Forced'
    BY <2>2 DEF Forced
  <2> QED BY <2>6, <2>8, <2>9, <2>10 DEF Inv, Carried
<1> QED BY <1>3, <1>4

LEMMA FillStep ==
  ASSUME Inv, FillEntry
  PROVE  Inv' /\ Carried
<1>1. /\ Typed /\ Trades /\ Results /\ Turn /\ Chart /\ Setting
      /\ closed' = closed /\ count' = count /\ phase = "fill"
  BY SettingHolds DEF Inv, FillEntry
<1>2. todo \subseteq Ids /\ todo \subseteq 1..count /\ count \in Nat
  BY <1>1 DEF Turn, Trades
<1>3. CASE todo = {}
  <2>1. Advance("again") /\ open' = open /\ todo' = {}
    BY <1>3 DEF FillEntry
  <2>2. Walk /\ now_row' = now_row /\ phase' = "again"
    BY <2>1, AdvanceWalks
  <2>3. Carried
    BY <1>1, <2>1, NothingCarried
  <2>4. phase \in RowPhase /\ phase' \in RowPhase
    BY <1>1, <2>2 DEF RowPhase
  <2>5. Typed' /\ Chart'
    BY <1>1, <2>2, <2>3, <2>4, ChartKept
  <2>6. Turn'
    BY <2>1, <2>2 DEF Turn
  <2>7. Forced'
    BY <2>2 DEF Forced
  <2> QED BY <2>3, <2>5, <2>6, <2>7 DEF Inv, Carried
<1>4. CASE todo # {}
  <2> DEFINE t == open[Current]
             oo == OpenOf(t, "entry")
  <2>1. Advance("adjust") /\ todo' = todo
    BY <1>4 DEF FillEntry
  <2>2. Walk /\ now_row' = now_row /\ phase' = "adjust"
    BY <2>1, AdvanceWalks
  <2>3. Current \in todo /\ Current \in Ids /\ Sound(t)
    BY <1>1, <1>2, <1>4, CurrentIs DEF Trades
  <2>4. PICK x \in IF oo = {} THEN {t} ELSE TryClose(t, Max(oo), Row) : open' = WithTrade(x)
    BY <1>4 DEF FillEntry
  <2>5. Follows(t, x)
    <3>1. CASE oo = {}
      BY <2>3, <2>4, <3>1, FollowsItself
    <3>2. CASE oo # {}
      <4>1. PICK i \in oo : TRUE
        BY <3>2
      <4>2. i \in OpenOnes(t) /\ t.orders[i].kind = "entry"
        BY <4>1 DEF OpenOf
      <4> HIDE DEF t
      <4>3. Max(oo) = i
        BY <2>3, <4>1, <4>2, OpenOneIs
      <4>4. x \in TryClose(t, i, Row)
        BY <2>4, <3>2, <4>3
      <4> QED BY <2>3, <4>2, <4>4, TryCloseEntry
    <3> QED BY <3>1, <3>2
  <2>6. Carried /\ Ids' = Ids
    BY <1>1, <2>3, <2>4, <2>5, ChangeCarried
  <2>7. phase \in RowPhase /\ phase' \in RowPhase
    BY <1>1, <2>2 DEF RowPhase
  <2>8. Typed' /\ Chart'
    BY <1>1, <2>2, <2>6, <2>7, ChartKept
  <2>9. Turn'
    BY <1>1, <1>2, <1>4, <2>1, <2>2, <2>6 DEF Turn
  <2>10. Forced'
    BY <2>2 DEF Forced
  <2> QED BY <2>6, <2>8, <2>9, <2>10 DEF Inv, Carried
<1> QED BY <1>3, <1>4

LEMMA AdjustStep ==
  ASSUME Inv, Adjust
  PROVE  Inv' /\ Carried
<1> DEFINE t == open[Current]
<1>1. /\ Typed /\ Trades /\ Results /\ Turn /\ Chart /\ Setting
      /\ count' = count /\ phase = "adjust" /\ Advance("exit") /\ todo' = todo
  BY SettingHolds DEF Inv, Adjust
<1>2. todo \subseteq Ids /\ todo \subseteq 1..count /\ count \in Nat /\ todo # {}
  BY <1>1 DEF Turn, Trades
<1>3. Walk /\ now_row' = now_row /\ phase' = "exit"
  BY <1>1, AdvanceWalks
<1>4. Current \in todo /\ Current \in Ids /\ Sound(t)
  BY <1>1, <1>2, CurrentIs DEF Trades
<1>5. t.amount \in Nat /\ now \in Int
  BY <1>1, <1>4 DEF Sound, TradeType, Setting
<1>6. ASSUME open' = open, closed' = closed
      PROVE  Carried /\ Only(Current)
  BY <1>1, <1>6, NothingCarried
<1>7. ASSUME NEW price \in EntryPrices(t.side, Row), closed' = closed,
             NEW x \in Enter(t, price, IF t.amount <= MaxAmount THEN 1 ELSE 0, Row), open' = WithTrade(x)
      PROVE  Carried /\ Only(Current)
  <2>1. price \in Prices
    BY <1>7 DEF EntryPrices
  <2> HIDE DEF t
  <2>2. PICK a \in {0, 1} : x \in Enter(t, price, a, Row)
    BY <1>7
  <2>3. a \in Nat
    BY <2>2
  <2>4. Follows(t, x)
    BY <1>1, <1>4, <2>1, <2>2, <2>3, EnterSound
  <2> QED BY <1>1, <1>4, <1>7, <2>4, ChangeCarried DEF t
<1>8. ASSUME NEW price \in ExitPrices(t.side, Row), NEW amount \in 1..t.amount,
             IF Exit(t, price, amount) = t THEN UNCHANGED <<open, closed, locks>>
             ELSE ProcessExit(Exit(t, price, amount), Len(Exit(t, price, amount).orders), now)
      PROVE  Carried /\ Only(Current)
  <2> DEFINE x == Exit(t, price, amount)
             n == Len(x.orders)
  <2>1. price \in Prices
    BY <1>8 DEF ExitPrices
  <2>2. CASE x = t
    <3>1. open' = open /\ closed' = closed
      BY <1>8, <2>2
    <3> QED BY <1>6, <3>1
  <2>3. CASE x # t
    <3>1. ProcessExit(x, n, now)
      BY <1>8, <2>3
    <3>2. Follows(t, x) /\ n \in OpenOnes(x) /\ x.orders[n].kind = "exit"
      BY <1>1, <1>4, <1>8, <2>1, ExitSound
    <3> HIDE DEF x, n
    <3> QED BY <1>1, <1>4, <1>5, <3>1, <3>2, ExitCarried
  <2> QED BY <2>2, <2>3
<1>9. Carried /\ Only(Current)
  <2>1. \/ open' = open /\ closed' = closed
        \/ \E price \in EntryPrices(t.side, Row) :
             \E x \in Enter(t, price, IF t.amount <= MaxAmount THEN 1 ELSE 0, Row) :
               open' = WithTrade(x) /\ closed' = closed
        \/ \E price \in ExitPrices(t.side, Row), amount \in 1..t.amount :
             IF Exit(t, price, amount) = t THEN UNCHANGED <<open, closed, locks>>
             ELSE ProcessExit(Exit(t, price, amount), Len(Exit(t, price, amount).orders), now)
    BY Zenon DEF Adjust
  <2> HIDE DEF t
  <2> QED BY <1>6, <1>7, <1>8, <2>1
<1>10. phase \in RowPhase /\ phase' \in RowPhase
  BY <1>1, <1>3 DEF RowPhase
<1>11. Typed' /\ Chart'
  BY <1>1, <1>3, <1>9, <1>10, ChartKept
<1>12. Turn'
  <2>1. Current' = Current
    BY <1>1 DEF Current
  <2>2. todo' \ {Current} \subseteq Ids'
    BY <1>1, <1>2, <1>9 DEF Only
  <2> QED BY <1>1, <1>2, <1>3, <2>1, <2>2 DEF Turn
<1>13. Forced'
  BY <1>3 DEF Forced
<1> QED BY <1>9, <1>11, <1>12, <1>13 DEF Inv, Carried

LEMMA CheckStep ==
  ASSUME Inv, CheckExit
  PROVE  Inv' /\ Carried
<1> DEFINE t == open[Current]
<1>1. /\ Typed /\ Trades /\ Results /\ Turn /\ Chart /\ Setting
      /\ count' = count /\ closed' = closed /\ phase = "exit" /\ Advance("sell") /\ todo' = todo
  BY SettingHolds DEF Inv, CheckExit
<1>2. todo \ {Current} \subseteq Ids /\ todo \subseteq 1..count /\ count \in Nat /\ todo # {}
  BY <1>1 DEF Turn, Trades
<1>3. Walk /\ now_row' = now_row /\ phase' = "sell"
  BY <1>1, AdvanceWalks
<1>4. Carried /\ Ids' = Ids
  <2>1. CASE open' = open
    BY <1>1, <2>1, NothingCarried DEF Ids
  <2>2. CASE Current \in Ids /\ t.amount > 0
             /\ \E price \in ClosePrices(t.side, Row) : open' = WithTrade(Exit(t, price, t.amount))
    <3>1. PICK price \in ClosePrices(t.side, Row) : open' = WithTrade(Exit(t, price, t.amount))
      BY <2>2
    <3>2. price \in Prices
      BY <3>1 DEF ClosePrices, ExitPrices
    <3>3. Sound(t) /\ t.amount \in 1..t.amount
      BY <1>1, <2>2 DEF Trades, Sound, TradeType
    <3>4. Follows(t, Exit(t, price, t.amount))
      BY <1>1, <3>2, <3>3, ExitSound
    <3> QED BY <1>1, <2>2, <3>1, <3>4, ChangeCarried
  <2> QED BY <2>1, <2>2 DEF CheckExit
<1>5. phase \in RowPhase /\ phase' \in RowPhase
  BY <1>1, <1>3 DEF RowPhase
<1>6. Typed' /\ Chart'
  BY <1>1, <1>3, <1>4, <1>5, ChartKept
<1>7. Turn'
  <2>1. Current' = Current
    BY <1>1 DEF Current
  <2> QED BY <1>1, <1>2, <1>3, <1>4, <2>1 DEF Turn
<1>8. Forced'
  BY <1>3 DEF Forced
<1> QED BY <1>4, <1>6, <1>7, <1>8 DEF Inv, Carried

LEMMA SellStep ==
  ASSUME Inv, Sell
  PROVE  Inv' /\ Carried
<1> DEFINE t == open[Current]
           oo == OpenOf(t, "exit")
<1>1. /\ Typed /\ Trades /\ Results /\ Turn /\ Chart /\ Setting
      /\ count' = count /\ phase = "sell" /\ Advance("fill") /\ todo' = todo \ {Current}
  BY SettingHolds DEF Inv, Sell, Next1
<1>2. todo \ {Current} \subseteq Ids /\ todo \subseteq 1..count /\ count \in Nat /\ todo # {}
  BY <1>1 DEF Turn, Trades
<1>3. Walk /\ now_row' = now_row /\ phase' = "fill"
  BY <1>1, AdvanceWalks
<1>4. Carried /\ Only(Current)
  <2>1. CASE Current \notin Ids \/ oo = {}
    <3>1. open' = open /\ closed' = closed
      BY <2>1 DEF Sell
    <3> QED BY <1>1, <3>1, NothingCarried
  <2>2. CASE ~(Current \notin Ids \/ oo = {})
    <3>1. ProcessExit(t, Max(oo), now)
      BY <2>2 DEF Sell
    <3>2. Sound(t) /\ t \in TradeType
      BY <1>1, <2>2 DEF Trades, Sound
    <3>3. PICK i \in oo : TRUE
      BY <2>2
    <3>4. i \in OpenOnes(t) /\ t.orders[i].kind = "exit"
      BY <3>3 DEF OpenOf
    <3>5. now \in Int
      BY <1>1 DEF Setting
    <3> HIDE DEF t
    <3>6. Max(oo) = i
      BY <3>2, <3>3, <3>4, OpenOneIs
    <3>7. ProcessExit(t, i, now)
      BY <3>1, <3>6
    <3>8. Follows(t, t)
      BY <3>2, FollowsItself
    <3>9. Current \in Ids
      BY <2>2
    <3> QED BY <1>1, <3>4, <3>5, <3>7, <3>8, <3>9, ExitCarried DEF t
  <2> QED BY <2>1, <2>2
<1>5. phase \in RowPhase /\ phase' \in RowPhase
  BY <1>1, <1>3 DEF RowPhase
<1>6. Typed' /\ Chart'
  BY <1>1, <1>3, <1>4, <1>5, ChartKept
<1>7. Turn'
  <2>1. todo' \subseteq Ids'
    BY <1>1, <1>2, <1>4 DEF Only
  <2> QED BY <1>1, <1>2, <1>3, <2>1 DEF Turn
<1>8. Forced'
  BY <1>3 DEF Forced
<1> QED BY <1>4, <1>6, <1>7, <1>8 DEF Inv, Carried

LEMMA NewTradeSound ==
  ASSUME Setting, count \in Nat, now_row.pair \in Pairs, now_row.dir \in {"long", "short"}
  PROVE  Sound(NewTrade) /\ NewTrade.id = count + 1 /\ NewTrade.pair = now_row.pair
<1> DEFINE t == NewTrade
<1>1. t = [id |-> count + 1, pair |-> now_row.pair, side |-> now_row.dir, opened |-> now,
           amount |-> 0, orders |-> <<>>, close |-> -1]
  BY DEF NewTrade
<1> HIDE DEF t
<1>2. t \in TradeType
  BY <1>1 DEF TradeType, Setting
<1>3. DOMAIN t.orders = {}
  BY <1>1
<1>4. \A kind \in {"entry", "exit"} : Filled(t, kind) = 0
  BY <1>2, <1>3, FilledNat
<1>5. Balanced(t)
  BY <1>1, <1>4 DEF Balanced
<1>6. OpenIsLast(t) /\ Sized(t)
  BY <1>3 DEF OpenIsLast, Sized
<1> QED BY <1>1, <1>2, <1>5, <1>6 DEF Sound, t

\* A step that enters a trade adds a sound one, of the row's pair, that was opened now.
LEMMA EnterIs ==
  ASSUME Inv, EnterTrade
  PROVE  \/ open' = open /\ count' = count
         \/ LET id == count + 1 IN
            /\ CanEnter /\ count' = id /\ Ids' = Ids \cup {id} /\ \A i \in Ids : open'[i] = open[i]
            /\ Sound(open'[id]) /\ open'[id].id = id
            /\ open'[id].pair = now_row.pair /\ open'[id].opened = now
<1>1. Typed /\ Trades /\ Setting /\ count \in Nat /\ phase = "enter"
  BY SettingHolds DEF Inv, EnterTrade, Trades
<1>3. now_row \in RowType
  BY <1>1 DEF Typed, RowPhase
<1>4. CASE open' = open /\ count' = count
  BY <1>4
<1>5. CASE CanEnter /\ count' = count + 1
           /\ \E price \in EntryPrices(now_row.dir, Row), amount \in 1..MaxAmount :
                \E t \in Enter(NewTrade, price, amount, Row) : open' = WithTrade(t)
  <2> DEFINE id == count + 1
             p == now_row.pair
  <2>1. now_row.dir \in {"long", "short"} /\ p \in Pairs
    BY <1>3, <1>5 DEF CanEnter, RowType, Directions
  <2>2. PICK price \in EntryPrices(now_row.dir, Row), amount \in 1..MaxAmount :
          \E t \in Enter(NewTrade, price, amount, Row) : open' = WithTrade(t)
    BY <1>5
  <2>3. price \in Prices /\ amount \in Nat
    BY <2>2, BacktestAssumption DEF EntryPrices
  <2>4. PICK t \in Enter(NewTrade, price, amount, Row) : open' = WithTrade(t)
    BY <2>2
  <2>5. Sound(NewTrade) /\ NewTrade.id = id /\ NewTrade.pair = p /\ NewTrade.opened = now
    BY <1>1, <2>1, NewTradeSound DEF NewTrade
  <2>6. Sound(t) /\ t.id = id /\ t.pair = p /\ t.opened = now
    <3>1. Follows(NewTrade, t)
      BY <1>1, <2>3, <2>4, <2>5, EnterSound
    <3> QED BY <2>5, <3>1 DEF Follows, Kept
  <2>7. Ids' = Ids \cup {id} /\ open'[id] = t /\ \A i \in Ids : open'[i] = open[i]
    <3>1. open' = [i \in Ids \cup {id} |-> IF i = id THEN t ELSE open[i]]
      BY <2>4, <2>6 DEF WithTrade
    <3>2. id \notin Ids
      BY <1>1 DEF Trades
    <3>3. Ids' = Ids \cup {id}
      BY <3>1 DEF Ids
    <3> QED BY <3>1, <3>2, <3>3
  <2>8. Sound(open'[id]) /\ open'[id].id = id /\ open'[id].pair = p /\ open'[id].opened = now
    BY <2>6, <2>7
  <2> QED BY <1>5, <2>7, <2>8
<1> QED BY <1>4, <1>5 DEF EnterTrade

LEMMA EnterStep ==
  ASSUME Inv, EnterTrade
  PROVE  Inv' /\ \A id \in Ids : id \in Ids'
<1>1. /\ Typed /\ Trades /\ Results /\ Turn /\ Chart /\ Setting /\ count \in Nat
      /\ closed' = closed /\ phase = "enter" /\ Advance("fill")
      /\ todo' = {id \in Ids' : open'[id].pair = now_row.pair}
  BY SettingHolds DEF Inv, EnterTrade, Processed, Trades, Ids
<1>2. Walk /\ now_row' = now_row /\ phase' = "fill"
  BY <1>1, AdvanceWalks
<1>3. now_row \in RowType
  BY <1>1 DEF Typed, RowPhase
<1>4. CASE open' = open /\ count' = count
  <2>1. Carried /\ Ids' = Ids
    BY <1>1, <1>4, NothingCarried DEF Ids
  <2>2. phase \in RowPhase /\ phase' \in RowPhase
    BY <1>1, <1>2 DEF RowPhase
  <2>3. Typed' /\ Chart'
    BY <1>1, <1>2, <2>1, <2>2, ChartKept
  <2>4. Turn'
    <3>1. todo' \subseteq Ids' /\ todo' \subseteq 1..count'
      BY <1>1, <1>4, <2>1 DEF Trades
    <3> QED BY <1>2, <3>1 DEF Turn
  <2>5. Forced'
    BY <1>2 DEF Forced
  <2> QED BY <2>1, <2>3, <2>4, <2>5 DEF Inv, Carried
<1>5. CASE LET id == count + 1 IN
           /\ CanEnter /\ count' = id /\ Ids' = Ids \cup {id} /\ \A i \in Ids : open'[i] = open[i]
           /\ Sound(open'[id]) /\ open'[id].id = id
           /\ open'[id].pair = now_row.pair /\ open'[id].opened = now
  <2> DEFINE id == count + 1
             p == now_row.pair
  <2>1. now_row.dir \in {"long", "short"} /\ p \in Pairs
    BY <1>3, <1>5 DEF CanEnter, RowType, Directions
  <2>7. Ids' = Ids \cup {id} /\ \A i \in Ids : open'[i] = open[i]
    BY <1>5
  <2>6. Sound(open'[id]) /\ open'[id].id = id /\ open'[id].pair = p
    BY <1>5
  <2>8. Trades'
    <3>1. Ids' \subseteq 1..count' /\ count' \in Nat
      BY <1>1, <1>5, <2>7 DEF Trades
    <3>2. ASSUME NEW i \in Ids'
          PROVE  Sound(open'[i]) /\ open'[i].id = i
      BY <1>1, <2>6, <2>7 DEF Trades
    <3> QED BY <3>1, <3>2 DEF Trades
  <2>9. Results'
    BY <1>1 DEF Results
  <2>10. Typed'
    BY <1>1, <1>2, <1>3 DEF Typed, Walk
  <2>11. Chart'
    <3>1. \A q \in Pairs : Charted(q) => Charted(q)'
      BY <1>1, <1>2 DEF Charted, Walk
    <3>2. FirstRow[p] <= candle /\ main[p] \in Rows
      <4>1. phase \in RowPhase
        BY <1>1 DEF RowPhase
      <4> QED BY <1>1, <4>1, Zenon DEF Chart
    <3>3. Charted(p)
      BY <3>2 DEF Charted
    <3>4. ASSUME NEW i \in Ids'
          PROVE  Charted(open[i].pair)'
      <4>1. CASE i \in Ids
        <5>1. Charted(open[i].pair) /\ open[i].pair \in Pairs /\ open'[i].pair = open[i].pair
          BY <1>1, <2>7, <4>1 DEF Chart, Trades, Sound, TradeType
        <5> QED BY <3>1, <5>1
      <4>2. CASE i = id
        <5>1. open'[i].pair = p
          BY <2>6, <2>7, <4>2
        <5> QED BY <2>1, <3>1, <3>3, <5>1
      <4> QED BY <2>7, <4>1, <4>2
    <3>5. \A q \in details' : main'[q] \in Rows /\ FirstRow[q] <= candle'
      BY <1>1, <1>2 DEF Chart, Walk
    <3>6. FirstRow[now_row'.pair] <= candle' /\ main'[now_row'.pair] \in Rows
      BY <1>2, <3>2 DEF Walk
    <3>7. phase' \notin {"left", "force"}
      BY <1>2
    <3> QED BY <3>4, <3>5, <3>6, <3>7, Zenon DEF Chart
  <2>12. Turn'
    <3>1. todo' \subseteq Ids' /\ todo' \subseteq 1..count'
      BY <1>1, <2>8 DEF Trades
    <3> QED BY <1>2, <3>1 DEF Turn
  <2>13. Forced'
    BY <1>2 DEF Forced
  <2> QED BY <2>7, <2>8, <2>9, <2>10, <2>11, <2>12, <2>13 DEF Inv
<1> QED BY <1>4, <1>5, EnterIs

LEMMA AgainStep ==
  ASSUME Inv, Again
  PROVE  Inv' /\ Carried
<1>1. /\ Typed /\ Trades /\ Results /\ Turn /\ Chart
      /\ closed' = closed /\ count' = count /\ open' = open /\ phase = "again" /\ todo' = todo /\ Walk
  BY DEF Inv, Again, Trading, Walk, walk
<1>2. Carried /\ Ids' = Ids
  BY <1>1, NothingCarried DEF Ids
<1>3. now_row \in RowType
  BY <1>1 DEF Typed, RowPhase
<1>4. CASE phase' = "manage" /\ now_row' = [now_row EXCEPT !.second = TRUE, !.exiting = "none"]
  <2>1. now_row' \in RowType /\ now_row'.pair = now_row.pair
    BY <1>3, <1>4 DEF RowType, Directions
  <2>2. Typed'
    BY <1>1, <2>1 DEF Typed, Walk
  <2>3. Chart'
    <3>1. \A q \in Pairs : Charted(q) => Charted(q)'
      BY <1>1, <1>4 DEF Charted, Walk
    <3>2. FirstRow[now_row.pair] <= candle /\ main[now_row.pair] \in Rows
      <4>1. phase \in RowPhase
        BY <1>1 DEF RowPhase
      <4> QED BY <1>1, <4>1, Zenon DEF Chart
    <3>3. ASSUME NEW i \in Ids'
          PROVE  Charted(open[i].pair)'
      <4>1. Charted(open[i].pair) /\ open[i].pair \in Pairs /\ open'[i].pair = open[i].pair
        BY <1>1, <1>2 DEF Chart, Trades, Sound, TradeType
      <4> QED BY <3>1, <4>1
    <3>4. \A q \in details' : main'[q] \in Rows /\ FirstRow[q] <= candle'
      BY <1>1 DEF Chart, Walk
    <3>5. FirstRow[now_row'.pair] <= candle' /\ main'[now_row'.pair] \in Rows
      BY <1>1, <2>1, <3>2 DEF Walk
    <3>6. phase' \notin {"left", "force"}
      BY <1>4
    <3> QED BY <3>3, <3>4, <3>5, <3>6, Zenon DEF Chart
  <2>4. Turn'
    BY <1>1, <1>2, <1>4 DEF Turn
  <2>5. Forced'
    BY <1>4 DEF Forced
  <2> QED BY <1>2, <2>2, <2>3, <2>4, <2>5 DEF Inv, Carried
<1>5. CASE phase' = "pair"
  <2>1. Typed'
    BY <1>1, <1>5 DEF Typed, Walk, RowPhase
  <2>2. Chart'
    <3>1. \A q \in Pairs : Charted(q) => Charted(q)'
      BY <1>1, <1>5 DEF Charted, Walk
    <3>3. ASSUME NEW i \in Ids'
          PROVE  Charted(open[i].pair)'
      <4>1. Charted(open[i].pair) /\ open[i].pair \in Pairs /\ open'[i].pair = open[i].pair
        BY <1>1, <1>2 DEF Chart, Trades, Sound, TradeType
      <4> QED BY <3>1, <4>1
    <3>4. \A q \in details' : main'[q] \in Rows /\ FirstRow[q] <= candle'
      BY <1>1 DEF Chart, Walk
    <3>6. phase' \notin {"left", "force"} /\ phase' \notin RowPhase
      BY <1>5 DEF RowPhase
    <3> QED BY <3>3, <3>4, <3>6, Zenon DEF Chart
  <2>4. Turn'
    BY <1>1, <1>2, <1>5 DEF Turn
  <2>5. Forced'
    BY <1>5 DEF Forced
  <2> QED BY <1>2, <2>1, <2>2, <2>4, <2>5 DEF Inv, Carried
<1> QED BY <1>4, <1>5 DEF Again

LEMMA LeftStep ==
  ASSUME Inv, HandleLeftOpen
  PROVE  Inv' /\ Carried
<1> DEFINE t == open[Current]
<1>1. /\ Typed /\ Trades /\ Results /\ Turn /\ Chart /\ Setting /\ setup.slippage \in Nat
      /\ closed' = closed /\ count' = count /\ phase = "left" /\ Walk
  BY SettingHolds DEF Inv, HandleLeftOpen, Walk, walk
<1>2. /\ todo \subseteq Ids /\ todo \subseteq 1..count /\ count \in Nat
      /\ setup.slippage = 0 => todo = Ids
  BY <1>1 DEF Turn, Trades
<1>3. candle = Candles /\ \A id \in Ids : main[open[id].pair] \in Rows
  BY <1>1, Zenon DEF Chart
<1>4. phase' \in {"done", "left", "force"} /\ (phase' \in {"left", "force"} => todo # {})
  BY <1>1 DEF HandleLeftOpen
<1>5. \A q \in Pairs : Charted(q) => Charted(q)'
  BY <1>1, <1>4 DEF Charted, Walk
<1>6. Typed'
  BY <1>1, <1>4 DEF Typed, Walk, RowPhase
<1>7. ASSUME Carried
      PROVE  Chart'
  <2>1. ASSUME NEW i \in Ids'
        PROVE  Charted(open[i].pair)' /\ main'[open'[i].pair] \in Rows
    <3>1. i \in Ids /\ open'[i].pair = open[i].pair /\ main[open[i].pair] \in Rows
      BY <1>3, <1>7, <2>1 DEF Carried
    <3>2. Charted(open[i].pair) /\ open[i].pair \in Pairs
      BY <1>1, <3>1 DEF Chart, Trades, Sound, TradeType
    <3> QED BY <1>1, <1>5, <3>1, <3>2 DEF Walk
  <2>2. \A q \in details' : main'[q] \in Rows /\ FirstRow[q] <= candle'
    BY <1>1 DEF Chart, Walk
  <2>3. phase' \notin RowPhase
    BY <1>4 DEF RowPhase
  <2>4. candle' = Candles
    BY <1>1, <1>3 DEF Walk
  <2> QED BY <2>1, <2>2, <2>3, <2>4, Zenon DEF Chart
<1>8. CASE todo = {}
  <2>1. phase' = "done" /\ open' = open /\ todo' = {}
    BY <1>1, <1>8 DEF HandleLeftOpen
  <2>2. Carried /\ Ids' = Ids
    BY <1>1, <2>1, NothingCarried DEF Ids
  <2>3. Turn'
    BY <1>1, <1>2, <1>8, <2>1, <2>2 DEF Turn, Walk
  <2>4. Forced'
    BY <2>1 DEF Forced
  <2> QED BY <1>6, <1>7, <2>2, <2>3, <2>4 DEF Inv, Carried
<1>9. CASE todo # {}
  <2>1. Current \in todo /\ Current \in Ids /\ Sound(t) /\ t.id = Current
    BY <1>1, <1>2, <1>9, CurrentIs DEF Trades
  <2>2. t \in TradeType /\ t.amount \in Nat /\ Filled(t, "entry") \in Nat /\ t.pair \in Pairs
    BY <2>1, FilledNat DEF Sound, TradeType
  <2>3. CASE (HasOpen(t) /\ ~Successful(t)) \/ t.amount = 0
    <3>1. open' = Gone(Current) /\ todo' = todo \ {Current} /\ phase' = "left"
      BY <1>1, <1>9, <2>1, <2>3 DEF HandleLeftOpen, Next1
    <3>2. Filled(t, "entry") = 0
      <4>1. ~Successful(t) => Filled(t, "entry") = 0
        BY <2>2, BoughtIsSuccessful
      <4>2. t.amount = 0 => Filled(t, "entry") = 0
        BY <2>1, <2>2 DEF Sound, Balanced
      <4> QED BY <2>3, <4>1, <4>2
    <3>3. Carried /\ Ids' = Ids \ {Current}
      BY <1>1, <2>1, <3>1, <3>2, RemovalCarried
    <3>4. Turn'
      BY <1>1, <1>2, <3>1, <3>3 DEF Turn, Walk
    <3>5. Forced'
      BY <3>1 DEF Forced
    <3> QED BY <1>6, <1>7, <3>3, <3>4, <3>5 DEF Inv, Carried
  <2>4. CASE ~((HasOpen(t) /\ ~Successful(t)) \/ t.amount = 0)
    <3> DEFINE price == main[t.pair].open
               x == Exit(t, price, t.amount)
               n == Len(x.orders)
    <3>1. /\ phase' = "force" /\ todo' = todo /\ open' = WithTrade(x)
          /\ now_row' = [row |-> main[t.pair]]
      BY <1>1, <1>9, <2>4 DEF HandleLeftOpen
    <3>2. price \in Prices /\ price \in Nat
      BY <1>3, <2>1, BacktestAssumption DEF Rows
    <3>3. t.amount \in 1..t.amount
      BY <2>2, <2>4
    <3>4. /\ Follows(t, x) /\ x.amount = t.amount
          /\ n \in OpenOnes(x) /\ x.orders[n].kind = "exit" /\ x.orders[n].amount = t.amount
          /\ x.orders[n].price = NewOrder(t, "exit", price, t.amount).price
      BY <1>1, <2>1, <3>2, <3>3, ExitSound
    <3>5. Carried /\ Ids' = Ids /\ open'[Current] = x
      BY <1>1, <2>1, <3>1, <3>4, ChangeCarried
    <3>6. Turn'
      BY <1>1, <1>2, <1>9, <3>1, <3>5 DEF Turn, Walk
    <3>7. setup.slippage = 0 => x.orders[n].ft = price
      <4>1. setup.slippage = 0 => NewOrder(t, "exit", price, t.amount).price = price
        BY <3>2 DEF NewOrder, Slipped
      <4>2. x.orders[n] \in Order
        BY <3>4, OpenOneIs DEF Follows
      <4>3. x.orders[n].price = x.orders[n].ft
        BY <3>4, <4>2 DEF Order
      <4> QED BY <3>4, <4>1, <4>3
    <3>8. x.pair = t.pair /\ Current' = Current
      BY <3>1, <3>4 DEF Follows, Kept, Current
    <3>9. Forced'
      <4>1. open'[Current'] = x
        BY <3>5, <3>8
      <4>2. now_row'.row = main'[x.pair] /\ setup' = setup /\ now_row'.row = main[t.pair]
        BY <1>1, <3>1, <3>8 DEF Walk
      <4>3. \A y : y = x => Len(y.orders) \in OpenOnes(y) /\ y.orders[Len(y.orders)].kind = "exit"
              /\ y.orders[Len(y.orders)].amount = y.amount
              /\ now_row'.row = main'[y.pair] /\ (setup'.slippage = 0 => y.orders[Len(y.orders)].ft = now_row'.row.open)
        BY <3>4, <3>7, <4>2
      <4> HIDE DEF x
      <4>4. OpenOnes(open[Current])' = OpenOnes(open'[Current'])
        BY DEF OpenOnes
      <4>5. LET y == open'[Current'] IN
              Len(y.orders) \in OpenOnes(y) /\ y.orders[Len(y.orders)].kind = "exit"
              /\ y.orders[Len(y.orders)].amount = y.amount
              /\ now_row'.row = main'[y.pair] /\ (setup'.slippage = 0 => y.orders[Len(y.orders)].ft = now_row'.row.open)
        BY <4>1, <4>3
      <4> QED BY <4>4, <4>5 DEF Forced
    <3> QED BY <1>6, <1>7, <3>5, <3>6, <3>9 DEF Inv, Carried
  <2> QED BY <2>3, <2>4
<1> QED BY <1>8, <1>9

LEMMA ForceStep ==
  ASSUME Inv, ForceExit
  PROVE  Inv' /\ Carried
<1> DEFINE t == open[Current]
           n == Len(t.orders)
           when == LastRow[t.pair] * Timeframe
<1>1. /\ Typed /\ Trades /\ Results /\ Turn /\ Chart /\ Forced
      /\ count' = count /\ phase = "force" /\ phase' = "left" /\ Walk /\ todo' = todo \ {Current}
      /\ ProcessExit(t, n, when)
  BY DEF Inv, ForceExit, Walk, walk, Next1
<1>2. /\ todo \subseteq Ids /\ todo \subseteq 1..count /\ count \in Nat /\ todo # {}
      /\ setup.slippage = 0 => todo = Ids
  BY <1>1 DEF Turn, Trades
<1>3. Current \in todo /\ Current \in Ids /\ Sound(t) /\ t.id = Current /\ t.pair \in Pairs
  BY <1>1, <1>2, CurrentIs DEF Trades, Sound, TradeType
<1>4. n \in OpenOnes(t) /\ t.orders[n].kind = "exit" /\ t.orders[n].amount = t.amount
      /\ now_row.row = main[t.pair] /\ (setup.slippage = 0 => t.orders[n].ft = now_row.row.open)
  BY <1>1, Zenon DEF Forced
<1>5. when \in Int
  <2>1. LastRow[t.pair] \in Int /\ Timeframe \in Int
    BY <1>3, BacktestAssumption, TimeAssumption
  <2> QED BY <2>1
<1> HIDE DEF when, n
<1>6. Carried /\ Only(Current)
  <2>1. Follows(t, t)
    BY <1>3, FollowsItself
  <2> HIDE DEF t
  <2> QED BY <1>1, <1>3, <1>4, <1>5, <2>1, ExitCarried DEF t
<1>7. ASSUME setup.slippage = 0
      PROVE  Ids' = Ids \ {Current}
  <2>1. Reached(t.orders[n], Row)
    <3>1. main[t.pair] \in Rows
      BY <1>1, <1>3, Zenon DEF Chart
    <3>2. Row \in Rows /\ t.orders[n].ft = Row.open
      BY <1>4, <1>7, <3>1 DEF Row
    <3>3. Row.low <= Row.open /\ Row.open <= Row.high
      BY <3>2 DEF Rows
    <3> QED BY <3>2, <3>3 DEF Reached
  <2> HIDE DEF t
  <2>2. open' = Gone(t.id)
    BY <1>1, <1>3, <1>4, <1>5, <2>1, ExitCloses
  <2>3. open' = Gone(Current)
    BY <1>3, <2>2
  <2> QED BY <2>3 DEF Gone, Ids
<1>8. Typed'
  BY <1>1 DEF Typed, Walk, RowPhase
<1>9. Chart'
  <2>1. candle = Candles /\ \A id \in Ids : main[open[id].pair] \in Rows
    BY <1>1, Zenon DEF Chart
  <2>2. \A q \in Pairs : Charted(q) => Charted(q)'
    BY <1>1 DEF Charted, Walk
  <2>3. ASSUME NEW i \in Ids'
        PROVE  Charted(open[i].pair)' /\ main'[open'[i].pair] \in Rows
    <3>1. i \in Ids /\ open'[i].pair = open[i].pair /\ main[open[i].pair] \in Rows
      BY <1>6, <2>1, <2>3 DEF Carried
    <3>2. Charted(open[i].pair) /\ open[i].pair \in Pairs
      BY <1>1, <3>1 DEF Chart, Trades, Sound, TradeType
    <3> QED BY <1>1, <2>2, <3>1, <3>2 DEF Walk
  <2>4. \A q \in details' : main'[q] \in Rows /\ FirstRow[q] <= candle'
    BY <1>1 DEF Chart, Walk
  <2>5. phase' \notin RowPhase
    BY <1>1 DEF RowPhase
  <2>6. candle' = Candles
    BY <1>1, <2>1 DEF Walk
  <2> QED BY <2>3, <2>4, <2>5, <2>6, Zenon DEF Chart
<1>10. Turn'
  <2>1. todo' \subseteq Ids'
    BY <1>1, <1>2, <1>6 DEF Only
  <2> QED BY <1>1, <1>2, <1>7, <2>1 DEF Turn, Walk
<1>11. Forced'
  BY <1>1 DEF Forced
<1> QED BY <1>6, <1>8, <1>9, <1>10, <1>11 DEF Inv, Carried

\* Pairs with open trades are in the queue, among the pairs that were asked for.
LEMMA InOrderIs ==
  ASSUME setup \in Setups, Trades
  PROVE  /\ InOrder \in Seq(Pairs)
         /\ \A id \in Ids : \E k \in DOMAIN InOrder : InOrder[k] = open[id].pair
<1> DEFINE pairOf == [id \in Ids |-> open[id].pair]
           ps == OpenPairs
           qs == setup.pairs
           all == ps \o qs
           n == Len(all)
           firsts == {i \in DOMAIN all : \A j \in 1..(i - 1) : all[j] # all[i]}
<1>1. Ids \in SUBSET Nat /\ IsFiniteSet(Ids) /\ \A id \in Ids : pairOf[id] \in Pairs
  <2>1. Ids \subseteq 1..count /\ count \in Nat
    BY DEF Trades
  <2>2. IsFiniteSet(1..count)
    BY <2>1, FS_Interval
  <2>3. IsFiniteSet(Ids)
    BY <2>1, <2>2, FS_Subset
  <2>4. \A id \in Ids : open[id].pair \in Pairs
    BY DEF Trades, Sound, TradeType
  <2> QED BY <2>1, <2>3, <2>4
<1>2. ps = At(pairOf, Ids)
  BY DEF OpenPairs
<1> HIDE DEF pairOf, ps
<1>3. ps \in Seq(Pairs) /\ \A id \in Ids : \E k \in 1..Len(ps) : ps[k] = pairOf[id]
  BY <1>1, <1>2, AtIs
<1>4. qs \in Seq(Pairs)
  BY BacktestAssumption DEF SetupType
<1> HIDE DEF qs
<1>5. /\ all \in Seq(Pairs) /\ n \in Nat /\ DOMAIN all = 1..n /\ Len(ps) \in Nat /\ Len(ps) <= n
      /\ \A k \in 1..Len(ps) : all[k] = ps[k]
  BY <1>3, <1>4, ConcatProperties, LenProperties
<1>6. InOrder = At(all, firsts)
  BY DEF InOrder, ps, qs
<1> HIDE DEF all, n
<1>7. firsts \in SUBSET Nat /\ IsFiniteSet(firsts) /\ \A i \in firsts : all[i] \in Pairs
  <2>1. IsFiniteSet(1..n)
    BY <1>5, FS_Interval
  <2>2. firsts \subseteq 1..n
    BY <1>5
  <2>3. IsFiniteSet(firsts)
    BY <2>1, <2>2, FS_Subset
  <2>4. \A i \in 1..n : all[i] \in Pairs
    BY <1>5, ElementOfSeq
  <2> QED BY <1>5, <2>2, <2>3, <2>4
<1>8. ASSUME NEW k \in 1..n
      PROVE  \E i \in firsts : all[i] = all[k]
  <2> DEFINE same == {j \in 1..n : all[j] = all[k]}
  <2>1. same \in SUBSET Nat /\ same # {}
    BY <1>5, <1>8
  <2>2. PICK i \in same : \A j \in same : i <= j
    BY <2>1, LeastExists
  <2>3. i \in 1..n /\ all[i] = all[k]
    BY <2>2
  <2>4. ASSUME NEW j \in 1..(i - 1)
        PROVE  all[j] # all[i]
    <3>1. j \in 1..n /\ ~(i <= j)
      BY <1>5, <2>3
    <3>2. j \notin same
      BY <2>2, <3>1
    <3> QED BY <2>3, <3>1, <3>2
  <2>5. i \in firsts
    BY <1>5, <2>3, <2>4
  <2> QED BY <2>3, <2>5
<1> HIDE DEF firsts
<1>9. InOrder \in Seq(Pairs) /\ \A i \in firsts : \E k \in 1..Len(InOrder) : InOrder[k] = all[i]
  BY <1>6, <1>7, AtIs
<1>10. DOMAIN InOrder = 1..Len(InOrder)
  BY <1>9, LenProperties
<1>11. ASSUME NEW id \in Ids
       PROVE  \E k \in 1..Len(InOrder) : InOrder[k] = open[id].pair
  <2>1. PICK k \in 1..Len(ps) : ps[k] = pairOf[id]
    BY <1>3
  <2>2. k \in 1..n /\ all[k] = open[id].pair
    BY <1>5, <2>1 DEF pairOf
  <2>3. PICK i \in firsts : all[i] = all[k]
    BY <1>8, <2>2
  <2> QED BY <1>9, <2>2, <2>3
<1> QED BY <1>9, <1>10, <1>11

LEMMA CandleStep ==
  ASSUME Inv, NextCandle
  PROVE  Inv' /\ Carried
<1>1. /\ Typed /\ Trades /\ Results /\ Turn /\ Chart /\ Setting
      /\ closed' = closed /\ count' = count /\ open' = open /\ phase = "candle" /\ setup' = setup
  BY SettingHolds DEF Inv, NextCandle, Trading
<1>2. Carried /\ Ids' = Ids
  BY <1>1, NothingCarried DEF Ids
<1>3. \A id \in Ids : open[id].pair \in Pairs /\ main[open[id].pair] \in Rows /\ FirstRow[open[id].pair] <= candle
  BY <1>1 DEF Chart, Charted, Trades, Sound, TradeType
<1>4. CASE candle = Candles
  <2>1. phase' = "left" /\ todo' = Ids /\ Walk
    BY <1>1, <1>4 DEF NextCandle, Walk, walk
  <2>2. Typed'
    BY <1>1, <2>1 DEF Typed, Walk, RowPhase
  <2>3. Chart'
    <3>1. \A id \in Ids' : Charted(open[id].pair)' /\ main'[open'[id].pair] \in Rows
      BY <1>1, <1>2, <1>3, <2>1 DEF Charted, Walk
    <3>2. \A q \in details' : main'[q] \in Rows /\ FirstRow[q] <= candle'
      BY <1>1, <2>1 DEF Chart, Walk
    <3>3. phase' \notin RowPhase /\ candle' = Candles
      BY <1>4, <2>1 DEF RowPhase, Walk
    <3> QED BY <3>1, <3>2, <3>3, Zenon DEF Chart
  <2>4. Turn'
    BY <1>1, <1>2, <2>1 DEF Turn, Walk, Trades
  <2>5. Forced'
    BY <2>1 DEF Forced
  <2> QED BY <1>2, <2>2, <2>3, <2>4, <2>5 DEF Inv, Carried
<1>5. CASE candle # Candles
  <2>1. /\ phase' = "pair" /\ todo' = {} /\ candle' = candle + 1 /\ step' = 0 /\ queue' = InOrder
        /\ main' = [p \in Pairs |-> IF candle < LastRow[p] THEN <<>> ELSE main[p]]
        /\ dirs' = [p \in Pairs |-> "none"] /\ details' = {}
    BY <1>1, <1>5 DEF NextCandle
  <2>2. InOrder \in Seq(Pairs) /\ \A id \in Ids : \E k \in DOMAIN InOrder : InOrder[k] = open[id].pair
    BY <1>1, InOrderIs DEF Typed
  <2>3. candle \in Nat /\ Candles \in Nat /\ candle' \in 0..Candles /\ 0 \in 0..(Timeframe - 1)
    BY <1>1, <1>5, <2>1, BacktestAssumption, TimeAssumption DEF Typed
  <2>4. Typed'
    <3>1. main' \in [Pairs -> Rows \cup {<<>>}] /\ dirs' \in [Pairs -> Directions]
      BY <1>1, <2>1 DEF Typed, Directions
    <3>2. phase' \notin RowPhase
      BY <2>1 DEF RowPhase
    <3>3. setup' \in Setups /\ step' \in 0..(Timeframe - 1)
      BY <1>1, <2>1, <2>3 DEF Typed
    <3>4. queue' \in Seq(Pairs) /\ details' \subseteq Pairs
      BY <2>1, <2>2
    <3> QED BY <2>3, <3>1, <3>2, <3>3, <3>4 DEF Typed
  <2>5. Chart'
    <3>1. ASSUME NEW id \in Ids'
          PROVE  Charted(open[id].pair)'
      <4>8. PICK p \in Pairs : id \in Ids /\ p = open[id].pair /\ p = open'[id].pair
        BY <1>1, <1>2, <1>3, <3>1
      <4>1. id \in Ids /\ open'[id].pair = p /\ p \in Pairs /\ main[p] \in Rows /\ FirstRow[p] <= candle
        BY <1>3, <4>8
      <4>2. \E k \in DOMAIN queue' : queue'[k] = p
        BY <2>1, <2>2, <4>8
      <4>3. FirstRow[p] \in Nat /\ LastRow[p] \in Nat
        BY <4>1, BacktestAssumption
      <4>4. main'[p] = IF candle < LastRow[p] THEN <<>> ELSE main[p]
        BY <2>1, <4>1
      <4>5. FirstRow[p] <= candle' /\ (candle < LastRow[p] => candle' <= LastRow[p])
        BY <2>1, <2>3, <4>1, <4>3
      <4>6. main'[p] \in Rows \/ (phase' # "candle" /\ step' = 0 /\ candle' <= LastRow[p])
        BY <2>1, <4>1, <4>4, <4>5
      <4>7. Charted(p)'
        BY <4>2, <4>5, <4>6 DEF Charted
      <4> QED BY <4>1, <4>7
    <3>2. phase' \notin RowPhase \cup {"left", "force"} /\ details' = {}
      BY <2>1 DEF RowPhase
    <3> QED BY <3>1, <3>2 DEF Chart
  <2>6. Turn'
    BY <2>1 DEF Turn
  <2>7. Forced'
    BY <2>1 DEF Forced
  <2> QED BY <1>2, <2>4, <2>5, <2>6, <2>7 DEF Inv, Carried
<1> QED BY <1>4, <1>5

LEMMA DetailStep ==
  ASSUME Inv, NextStep
  PROVE  Inv' /\ Carried
<1>1. /\ Typed /\ Trades /\ Results /\ Turn /\ Chart /\ Setting
      /\ closed' = closed /\ count' = count /\ open' = open /\ phase = "pair" /\ queue = <<>>
      /\ setup' = setup /\ todo' = todo /\ candle' = candle /\ main' = main /\ dirs' = dirs /\ details' = details
      /\ phase' \in {"pair", "candle"}
  BY SettingHolds DEF Inv, NextStep, Trading, walk
<1>2. Carried /\ Ids' = Ids
  BY <1>1, NothingCarried DEF Ids
<1>3. \A id \in Ids : open[id].pair \in Pairs /\ main[open[id].pair] \in Rows /\ FirstRow[open[id].pair] <= candle
  BY <1>1 DEF Chart, Charted, Trades, Sound, TradeType
<1>4. step' \in 0..(Timeframe - 1) /\ queue' \in Seq(Pairs)
  <2>1. CASE setup.detail /\ step < Timeframe - 1
    <3>1. step' = step + 1 /\ queue' = InOrder
      BY <2>1 DEF NextStep
    <3> QED BY <1>1, <2>1, <3>1, InOrderIs, TimeAssumption DEF Typed
  <2>2. CASE ~(setup.detail /\ step < Timeframe - 1)
    <3>1. step' = step /\ queue' = queue
      BY <2>2 DEF NextStep, walk
    <3> QED BY <1>1, <3>1 DEF Typed
  <2> QED BY <2>1, <2>2
<1>5. Typed'
  BY <1>1, <1>4 DEF Typed, RowPhase
<1>6. Chart'
  <2>1. \A id \in Ids' : Charted(open[id].pair)'
    BY <1>1, <1>2, <1>3 DEF Charted
  <2>2. \A q \in details' : main'[q] \in Rows /\ FirstRow[q] <= candle'
    BY <1>1 DEF Chart
  <2>3. phase' \notin RowPhase \cup {"left", "force"}
    BY <1>1 DEF RowPhase
  <2> QED BY <2>1, <2>2, <2>3, Zenon DEF Chart
<1>7. Turn'
  BY <1>1, <1>2 DEF Turn
<1>8. Forced'
  BY <1>1 DEF Forced
<1> QED BY <1>2, <1>5, <1>6, <1>7, <1>8 DEF Inv, Carried

\* A pair's candle is drawn, or kept; it may be processed.
LEMMA PairStep ==
  ASSUME Inv, NextPair
  PROVE  Inv' /\ Carried
<1>1. /\ Typed /\ Trades /\ Results /\ Turn /\ Chart /\ Setting /\ count \in Nat /\ todo \subseteq Ids
      /\ closed' = closed /\ count' = count /\ open' = open /\ phase = "pair" /\ queue # <<>>
      /\ setup' = setup /\ candle' = candle /\ step' = step /\ queue' = Tail(queue)
  BY SettingHolds DEF Inv, NextPair, Trading, Turn, Trades
<1>2. Carried /\ Ids' = Ids
  BY <1>1, NothingCarried DEF Ids
<1>3. queue \in Seq(Pairs) /\ Tail(queue) \in Seq(Pairs) /\ Len(Tail(queue)) = Len(queue) - 1 /\ Len(queue) \in Nat
      /\ \A i \in 1..Len(Tail(queue)) : Tail(queue)[i] = queue[i + 1]
      /\ Head(queue) = queue[1] /\ Head(queue) \in Pairs /\ DOMAIN queue = 1..Len(queue)
      /\ DOMAIN Tail(queue) = 1..Len(Tail(queue))
  BY <1>1, HeadTailProperties, LenProperties DEF Typed
<1>4. PICK p \in Pairs : p = Head(queue)
  BY <1>3
\* Another pair's place in the queue.
<1>5. ASSUME NEW q \in Pairs, q # p, Charted(q), main'[q] = main[q], phase' # "candle"
      PROVE  Charted(q)'
  <2>1. FirstRow[q] <= candle' /\ (main[q] \in Rows => main'[q] \in Rows)
    BY <1>1, <1>5 DEF Charted
  <2>2. CASE main[q] \in Rows
    BY <2>1, <2>2 DEF Charted
  <2>3. CASE main[q] \notin Rows
    <3>1. PICK k \in 1..Len(queue) : queue[k] = q
      BY <1>3, <1>5, <2>3 DEF Charted
    <3>2. k # 1
      BY <1>3, <1>4, <1>5, <3>1
    <3>3. k - 1 \in 1..Len(Tail(queue)) /\ (k - 1) + 1 = k
      BY <1>3, <3>1, <3>2
    <3>4. k - 1 \in DOMAIN queue' /\ queue'[k - 1] = q
      BY <1>1, <1>3, <3>1, <3>3
    <3>5. step' = 0 /\ candle' <= LastRow[q]
      BY <1>1, <1>5, <2>3 DEF Charted
    <3> QED BY <1>5, <2>1, <3>4, <3>5 DEF Charted
  <2> QED BY <2>2, <2>3
<1>6. \A id \in Ids' : id \in Ids /\ open'[id].pair = open[id].pair /\ open[id].pair \in Pairs /\ Charted(open[id].pair)
  BY <1>1, <1>2 DEF Chart, Trades, Sound, TradeType
<1>7. queue' \in Seq(Pairs) /\ setup' \in Setups /\ candle' \in 0..Candles /\ step' \in 0..(Timeframe - 1)
  BY <1>1, <1>3 DEF Typed
<1>8. CASE ~HasRow(p)
  <2>1. main' = main /\ dirs' = dirs /\ details' = details /\ phase' = phase /\ todo' = todo /\ now_row' = now_row
    BY <1>1, <1>4, <1>8 DEF NextPair
  <2>2. ASSUME NEW id \in Ids'
        PROVE  Charted(open[id].pair)'
    <3>1. PICK q \in Pairs : q = open[id].pair /\ q = open'[id].pair /\ Charted(q)
      BY <1>6
    <3>2. CASE q # p
      <4>1. Charted(q)'
        BY <1>1, <1>5, <2>1, <3>1, <3>2
      <4> QED BY <3>1, <4>1
    <3>3. CASE q = p
      <4>1. main[q] \in Rows
        <5>1. FirstRow[q] <= candle /\ candle \in Nat /\ FirstRow[q] \in Nat /\ LastRow[q] \in Nat
          BY SMTT(30), <1>1, <3>1, BacktestAssumption DEF Charted, Typed
        <5>2. step = 0 /\ candle <= LastRow[q] => HasRow(p)
          BY <3>3, <5>1 DEF HasRow
        <5> QED BY <1>8, <3>1, <5>2 DEF Charted
      <4>2. Charted(q)'
        BY <1>1, <2>1, <3>1, <4>1 DEF Charted
      <4> QED BY <3>1, <4>2
    <3> QED BY <3>2, <3>3
  <2>3. Typed'
    BY <1>1, <1>7, <2>1 DEF Typed, RowPhase
  <2>4. Chart'
    <3>1. \A q \in details' : main'[q] \in Rows /\ FirstRow[q] <= candle'
      BY <1>1, <2>1 DEF Chart
    <3>2. phase' \notin RowPhase \cup {"left", "force"}
      BY <1>1, <2>1 DEF RowPhase
    <3> QED BY <2>2, <3>1, <3>2, Zenon DEF Chart
  <2>5. Turn'
    BY <1>1, <1>2, <2>1 DEF Turn
  <2>6. Forced'
    BY <1>1, <2>1 DEF Forced
  <2> QED BY <1>2, <2>3, <2>4, <2>5, <2>6 DEF Inv, Carried
<1>9. CASE HasRow(p)
  <2> DEFINE held == OfPair(p) # {}
  <2>1. PICK dir \in IF step = 0 THEN {Direction(s) : s \in SUBSET Signals} ELSE {dirs[p], "none"},
             m \in IF step = 0 THEN Rows ELSE {main[p]} :
          /\ dirs' = [dirs EXCEPT ![p] = IF step = 0 THEN dir ELSE @]
          /\ main' = [main EXCEPT ![p] = m]
          /\ IF Skip(p) THEN UNCHANGED <<details, seen, phase, todo, now_row>>
             ELSE /\ details' = IF setup.detail /\ step = 0 /\ (dir # "none" \/ held) THEN details \cup {p} ELSE details
                  /\ \E row \in IF p \in details' THEN Inside(m) ELSE {m} : Call(p, row, dir)
    BY <1>4, <1>9 DEF NextPair
  <2>2. dir \in Directions
    <3>1. \A s : Direction(s) \in Directions
      BY DEF Direction, Directions
    <3>2. dirs[p] \in Directions /\ "none" \in Directions
      BY <1>1 DEF Typed, Directions
    <3> QED BY <2>1, <3>1, <3>2
  <2>3. m \in Rows /\ FirstRow[p] <= candle
    <3>1. CASE step = 0
      <4>1. candle \in FirstRow[p]..LastRow[p]
        BY <1>9, <3>1 DEF HasRow
      <4>2. FirstRow[p] \in Nat /\ LastRow[p] \in Nat
        BY BacktestAssumption
      <4> QED BY <2>1, <3>1, <4>1, <4>2
    <3>2. CASE step # 0
      <4>1. p \in details
        BY <1>9, <3>2 DEF HasRow
      <4>2. main[p] \in Rows /\ FirstRow[p] <= candle
        BY <1>1, <4>1 DEF Chart
      <4> QED BY <2>1, <3>2, <4>2
    <3> QED BY <3>1, <3>2
  <2>4. /\ main' \in [Pairs -> Rows \cup {<<>>}] /\ dirs' \in [Pairs -> Directions] /\ main'[p] = m
        /\ \A q \in Pairs : q # p => main'[q] = main[q]
    BY <1>1, <2>1, <2>2, <2>3 DEF Typed
  <2>5. Charted(p)'
    BY <1>1, <2>3, <2>4 DEF Charted
  <2>6. ASSUME phase' # "candle", NEW id \in Ids'
        PROVE  Charted(open[id].pair)'
    <3>1. PICK q \in Pairs : q = open[id].pair /\ q = open'[id].pair /\ Charted(q)
      BY <1>6
    <3>2. Charted(q)'
      BY <1>5, <2>4, <2>5, <2>6, <3>1
    <3> QED BY <3>1, <3>2
  <2>7. ASSUME details' \subseteq details \cup {p}
        PROVE  details' \subseteq Pairs /\ \A q \in details' : main'[q] \in Rows /\ FirstRow[q] <= candle'
    <3>1. \A q \in details : q \in Pairs /\ main[q] \in Rows /\ FirstRow[q] <= candle
      BY <1>1 DEF Chart, Typed
    <3> QED BY <1>1, <2>3, <2>4, <2>7, <3>1
  <2>8. CASE Skip(p)
    <3>1. details' = details /\ phase' = phase /\ todo' = todo /\ now_row' = now_row
      BY <2>1, <2>8
    <3>2. Typed'
      BY <1>1, <1>7, <2>4, <3>1 DEF Typed, RowPhase
    <3>3. Chart'
      <4>1. phase' \notin RowPhase \cup {"left", "force"} /\ phase' # "candle"
        BY <1>1, <3>1 DEF RowPhase
      <4>2. \A id \in Ids' : Charted(open[id].pair)'
        BY <2>6, <4>1
      <4>3. \A q \in details' : main'[q] \in Rows /\ FirstRow[q] <= candle'
        BY <2>7, <3>1
      <4> QED BY <4>1, <4>2, <4>3, Zenon DEF Chart
    <3>4. Turn'
      BY <1>1, <1>2, <3>1 DEF Turn
    <3>5. Forced'
      BY <1>1, <3>1 DEF Forced
    <3> QED BY <1>2, <3>2, <3>3, <3>4, <3>5 DEF Inv, Carried
  <2>9. CASE ~Skip(p)
    <3>1. details' \subseteq details \cup {p}
      BY <2>1, <2>9
    <3>2. PICK row \in IF p \in details' THEN Inside(m) ELSE {m} : Call(p, row, dir)
      BY <2>1, <2>9
    <3>3. row \in Rows
      BY <2>3, <3>2 DEF Inside
    <3>4. /\ phase' = "manage" /\ todo' = OfPair(p)
          /\ now_row' = [pair |-> p, row |-> row, dir |-> dir, second |-> FALSE,
                         exiting |-> IF setup.stacking \/ OfPair(p) = {} THEN "none" ELSE open[Min(OfPair(p))].side]
      BY <3>2 DEF Call
    <3>5. (IF setup.stacking \/ OfPair(p) = {} THEN "none" ELSE open[Min(OfPair(p))].side) \in Directions
      <4>1. CASE OfPair(p) = {}
        BY <4>1 DEF Directions
      <4>2. CASE OfPair(p) # {}
        <5>1. OfPair(p) \in SUBSET Nat /\ OfPair(p) \subseteq Ids
          <6>1. Ids \subseteq Nat
            BY <1>1 DEF Trades
          <6>2. OfPair(p) \subseteq Ids
            BY DEF OfPair
          <6> QED BY <6>1, <6>2
        <5>2. \E x \in OfPair(p) : \A y \in OfPair(p) : x <= y
          BY <4>2, <5>1, LeastExists
        <5>3. Min(OfPair(p)) \in Ids
          BY <5>1, <5>2 DEF Min
        <5>4. open[Min(OfPair(p))].side \in Directions
          BY <1>1, <5>3 DEF Trades, Sound, TradeType, Directions
        <5> QED BY <5>4 DEF Directions
      <4> QED BY <4>1, <4>2
    <3>6. now_row' \in RowType /\ now_row'.pair = p
      BY <2>2, <3>3, <3>4, <3>5 DEF RowType
    <3>7. Typed'
      BY <1>7, <2>4, <2>7, <3>1, <3>6 DEF Typed
    <3>8. Chart'
      <4>1. phase' \notin {"left", "force"} /\ phase' # "candle"
        BY <3>4
      <4>2. \A id \in Ids' : Charted(open[id].pair)'
        BY <2>6, <4>1
      <4>3. \A q \in details' : main'[q] \in Rows /\ FirstRow[q] <= candle'
        BY <2>7, <3>1
      <4>4. FirstRow[now_row'.pair] <= candle' /\ main'[now_row'.pair] \in Rows
        BY <1>1, <2>3, <2>4, <3>6
      <4> QED BY <4>1, <4>2, <4>3, <4>4, Zenon DEF Chart
    <3>9. Turn'
      <4>1. todo' \subseteq Ids' /\ todo' \subseteq 1..count'
        BY <1>1, <1>2, <3>4 DEF OfPair, Trades
      <4> QED BY <3>4, <4>1 DEF Turn
    <3>10. Forced'
      BY <3>4 DEF Forced
    <3> QED BY <1>2, <3>7, <3>8, <3>9, <3>10 DEF Inv, Carried
  <2> QED BY <2>8, <2>9
<1> QED BY <1>8, <1>9
-----------------------------------------------------------------------------
(* The specification                                                         *)

LEMMA InitInv ==
  ASSUME Init
  PROVE  Inv
<1>1. /\ setup \in Setups /\ phase = "candle" /\ candle = 0 /\ step = 0 /\ queue = <<>>
      /\ main = [p \in Pairs |-> <<>>] /\ dirs = [p \in Pairs |-> "none"]
      /\ details = {} /\ todo = {} /\ open = <<>> /\ closed = {} /\ count = 0
  BY DEF Init
<1>2. Ids = {}
  BY <1>1 DEF Ids
<1>3. Typed
  BY <1>1, BacktestAssumption, TimeAssumption DEF Typed, RowPhase, Directions
<1>4. Trades /\ Results
  BY <1>1, <1>2 DEF Trades, Results
<1>5. Turn
  BY <1>1 DEF Turn
<1>6. Chart
  BY <1>1, <1>2 DEF Chart, RowPhase
<1>7. Forced
  BY <1>1 DEF Forced
<1> QED BY <1>3, <1>4, <1>5, <1>6, <1>7 DEF Inv

LEMMA StutterInv ==
  ASSUME Inv, UNCHANGED vars
  PROVE  Inv' /\ Carried
<1>1. /\ setup' = setup /\ phase' = phase /\ candle' = candle /\ step' = step /\ queue' = queue /\ main' = main
      /\ dirs' = dirs /\ details' = details /\ now_row' = now_row /\ todo' = todo /\ open' = open
      /\ closed' = closed /\ count' = count
  BY DEF vars
<1>2. Carried
  BY <1>1, NothingCarried DEF Inv
<1>3. Typed'
  BY <1>1 DEF Inv, Typed
<1>4. Turn'
  BY <1>1 DEF Inv, Turn, Current, Ids
<1>5. Chart'
  BY <1>1 DEF Inv, Chart, Charted, Ids
<1>6. Forced'
  BY <1>1 DEF Inv, Forced, Current, OpenOnes
<1> QED BY <1>2, <1>3, <1>4, <1>5, <1>6 DEF Inv, Carried

LEMMA StepInv ==
  ASSUME Inv, [Next]_vars
  PROVE  Inv' /\ \A id \in Ids : Remembered(id)
<1>1. ASSUME Inv', Carried
      PROVE  Inv' /\ \A id \in Ids : Remembered(id)
  BY <1>1 DEF Carried
<1>2. CASE NextCandle
  BY <1>1, <1>2, CandleStep
<1>3. CASE NextStep
  BY <1>1, <1>3, DetailStep
<1>4. CASE NextPair
  BY <1>1, <1>4, PairStep
<1>5. CASE ManageOpenOrders
  BY <1>1, <1>5, ManageStep
<1>6. CASE EnterTrade
  <2>1. Trades
    BY DEF Inv
  <2>2. \A id \in Ids : id \in Ids' /\ open'[id] = open[id]
    BY <1>6, EnterIs DEF Ids
  <2>3. \A id \in Ids : Remembered(id)
    BY <2>1, <2>2, SameRemembered
  <2> QED BY <1>6, <2>3, EnterStep
<1>7. CASE FillEntry
  BY <1>1, <1>7, FillStep
<1>8. CASE Adjust
  BY <1>1, <1>8, AdjustStep
<1>9. CASE CheckExit
  BY <1>1, <1>9, CheckStep
<1>10. CASE Sell
  BY <1>1, <1>10, SellStep
<1>11. CASE Again
  BY <1>1, <1>11, AgainStep
<1>12. CASE HandleLeftOpen
  BY <1>1, <1>12, LeftStep
<1>13. CASE ForceExit
  BY <1>1, <1>13, ForceStep
<1>14. CASE UNCHANGED vars
  BY <1>1, <1>14, StutterInv
<1> QED
  BY <1>2, <1>3, <1>4, <1>5, <1>6, <1>7, <1>8, <1>9, <1>10, <1>11, <1>12, <1>13, <1>14 DEF Next

LEMMA InvHolds == Spec => []Inv
<1>1. Init => Inv
  BY InitInv
<1>2. Inv /\ [Next]_vars => Inv'
  BY StepInv
<1> QED BY <1>1, <1>2, PTL DEF Spec

\* TypeOK
THEOREM Types == Spec => []TypeOK
<1>1. Inv => TypeOK
  <2> SUFFICES ASSUME Inv PROVE TypeOK
    OBVIOUS
  <2>1. Typed /\ Trades
    BY DEF Inv
  <2>2. setup \in SetupType /\ candle \in 0..Candles /\ step \in 0..(Timeframe - 1)
    BY <2>1, BacktestAssumption DEF Typed
  <2>3. ASSUME NEW i \in DOMAIN open
        PROVE  /\ open[i].id = i /\ open[i].amount \in Nat
               /\ \A j \in DOMAIN open[i].orders :
                    open[i].orders[j].left \in IF open[i].orders[j].open THEN 1..open[i].orders[j].amount ELSE {0}
    BY <2>1, <2>3 DEF Trades, Ids, Sound, Sized, TradeType
  <2>4. DOMAIN open \subseteq 1..count
    BY <2>1 DEF Trades, Ids
  <2> QED BY <2>2, <2>3, <2>4 DEF TypeOK
<1> QED BY <1>1, InvHolds, PTL

\* What check_order_replace assumes: no trade has two open orders, whatever is placed,
\* replaced, cancelled and filled, in whatever order.
THEOREM OneOrder == Spec => []SingleOpenOrder
<1>1. Inv => SingleOpenOrder
  <2> SUFFICES ASSUME Inv, NEW i \in DOMAIN open
               PROVE  Cardinality(OpenOnes(open[i])) <= 1
    BY DEF SingleOpenOrder
  <2>1. Sound(open[i])
    BY DEF Inv, Trades, Ids
  <2>2. CASE OpenOnes(open[i]) = {}
    BY <2>2, FS_EmptySet
  <2>3. CASE OpenOnes(open[i]) # {}
    <3>1. PICK j \in OpenOnes(open[i]) : TRUE
      BY <2>3
    <3>2. OpenOnes(open[i]) = {j}
      BY <2>1, OpenOneIs
    <3> QED BY <3>2, FS_Singleton
  <2> QED BY <2>2, <2>3
<1> QED BY <1>1, InvHolds, PTL

\* By its orders, every closed trade has sold exactly what it had bought, and none of its
\* orders is open.
THEOREM AllSold == Spec => []SoldWhatWasBought
<1>1. Inv => SoldWhatWasBought
  BY DEF Inv, Results, SoldWhatWasBought
<1> QED BY <1>1, InvHolds, PTL

\* Whatever the slippage, no step loses an order that was filled: a trade that has one
\* stays open or comes to the results, with all that its filled orders bought and sold.
THEOREM AllBooked ==
  Spec => [][\A i \in DOMAIN open : Filled(open[i], "entry") > 0 =>
               \E t \in Heirs(i)' : \A kind \in Kinds : Filled(t, kind) >= Filled(open[i], kind)]_vars
<1> DEFINE Step == \A i \in DOMAIN open : Filled(open[i], "entry") > 0 =>
                     \E t \in Heirs(i)' : \A kind \in Kinds : Filled(t, kind) >= Filled(open[i], kind)
<1>1. Inv /\ [Next]_vars => Step
  BY StepInv DEF Ids, Remembered, Keeps
<1>2. Inv /\ [Next]_vars => [Step]_vars
  BY <1>1
<1> QED BY <1>2, InvHolds, PTL DEF Spec

\* Without slippage, every order that was filled ends in the results, and no trade is left
\* open.  (With slippage, the forced exit at the end can be outside its candle.)
THEOREM AllInResults == Spec /\ setup.slippage = 0 => NothingForgotten
<1> DEFINE I == Inv /\ setup.slippage = 0
           Step == /\ \A i \in DOMAIN open : Filled(open[i], "entry") > 0 =>
                        \E t \in Heirs(i)' : \A kind \in Kinds : Filled(t, kind) >= Filled(open[i], kind)
                   /\ phase' = "done" => DOMAIN open' = {}
<1>1. Init /\ setup.slippage = 0 => I
  BY InitInv
<1>2. [Next]_vars => setup' = setup
  BY DEF Next, vars, NextCandle, NextStep, NextPair, ManageOpenOrders, EnterTrade, FillEntry, Adjust, CheckExit,
         Sell, Again, HandleLeftOpen, ForceExit, Advance
<1>3. I /\ [Next]_vars => I'
  BY <1>2, StepInv
<1>4. I /\ [Next]_vars => Step
  <2> SUFFICES ASSUME I, [Next]_vars PROVE Step
    OBVIOUS
  <2>1. Inv' /\ setup'.slippage = 0
    BY <1>3
  <2>2. phase' = "done" => DOMAIN open' = {}
    BY <2>1 DEF Inv, Turn, Ids
  <2>3. \A id \in Ids : Remembered(id)
    BY StepInv
  <2> QED BY <2>2, <2>3 DEF Ids, Remembered, Keeps
<1>5. I /\ [Next]_vars => [Step]_vars
  BY <1>4
<1> QED BY <1>1, <1>3, <1>5, PTL DEF Spec, NothingForgotten
-----------------------------------------------------------------------------
(* Locks: they end with a candle, and the pause that a cooldown asks for is  *)
(* covered by one.                                                           *)

Ends == {k * Timeframe : k \in Int}
Ending(ls) == \A l \in ls : l.until \in Int /\ l.until \in Ends

\* The pair is locked on both sides until then.
Covers(ls, pair, until) == \E l \in ls : l.pair \in {pair, "*"} /\ l.side = "*" /\ l.until >= until

LEMMA NextIs ==
  ASSUME NEW t \in Int
  PROVE  NextDate(t) \in Int /\ NextDate(t) \in Ends /\ NextDate(t) > t
<1>1. Timeframe \in Nat /\ Timeframe > 0
  BY TimeAssumption
<1>2. /\ t \div Timeframe \in Int /\ t % Timeframe \in 0..(Timeframe - 1)
      /\ t = Timeframe * (t \div Timeframe) + (t % Timeframe)
  BY <1>1
<1>3. ASSUME NEW q \in Int, NEW r \in Int, NEW f \in Int, r < f
      PROVE  q + 1 \in Int /\ (q + 1) * f \in Int /\ (q + 1) * f > f * q + r
  BY <1>3
<1> QED BY <1>1, <1>2, <1>3 DEF NextDate, Ends

\* A multiple of a candle that is less than a candle away is where one stands.
LEMMA Multiple ==
  ASSUME NEW f \in Nat \ {0}, NEW x \in Int
  PROVE  /\ f * x \in Int
         /\ f * x > -f => x >= 0
         /\ f * x < f => x <= 0
         /\ f * x > 0 => x >= 1
<1>1. ASSUME x < 0 PROVE f * x <= -f
  <2>1. f * (-1 - x) >= 0
    BY <1>1
  <2>2. f * (-1 - x) = -f - f * x /\ f * x \in Int
    OBVIOUS
  <2> QED BY <2>1, <2>2
<1>2. ASSUME x > 0 PROVE f * x >= f
  <2>1. f * (x - 1) >= 0
    BY <1>2
  <2>2. f * (x - 1) = f * x - f /\ f * x \in Int
    OBVIOUS
  <2> QED BY <2>1, <2>2
<1>3. f * x \in Int /\ (x = 0 => f * x = 0)
  OBVIOUS
<1>4. CASE x < 0
  BY <1>1, <1>3, <1>4
<1>5. CASE x = 0
  BY <1>3, <1>5
<1>6. CASE x > 0
  BY <1>2, <1>3, <1>6
<1> QED BY <1>4, <1>5, <1>6

\* A candle that ends after t ends at NextDate(t) or later.
LEMMA EndsLater ==
  ASSUME NEW u \in Ends, NEW t \in Int, u > t
  PROVE  u >= NextDate(t)
<1> DEFINE f == Timeframe
           q == t \div f
           r == t % f
<1>1. f \in Nat \ {0} /\ q \in Int /\ r \in 0..(f - 1) /\ t = f * q + r
  BY TimeAssumption
<1>2. PICK k \in Int : u = k * f
  BY DEF Ends
<1>3. NextDate(t) = (q + 1) * f
  BY DEF NextDate
<1> HIDE DEF f, q, r
<1>4. f * q \in Int /\ f * k \in Int /\ f * (k - q) = f * k - f * q /\ k * f = f * k /\ (q + 1) * f = f * q + f
  BY <1>1, <1>2
<1>5. f * (k - q) > 0
  <2>1. f * k > f * q + r /\ r >= 0 /\ r \in Int
    BY <1>1, <1>2, <1>4
  <2> QED BY <1>4, <2>1
<1>6. k - q \in Int /\ k - q >= 1
  BY <1>1, <1>5, Multiple
<1>7. f * (k - q - 1) >= 0
  BY <1>1, <1>6
<1>8. f * (k - q - 1) = f * k - f * q - f
  BY <1>1, <1>2
<1> QED BY <1>1, <1>2, <1>3, <1>4, <1>7, <1>8

LEMMA NextGrows ==
  ASSUME NEW a \in Int, NEW b \in Int, a <= b
  PROVE  NextDate(a) <= NextDate(b)
<1>1. NextDate(a) \in Int /\ NextDate(b) \in Int /\ NextDate(b) \in Ends /\ NextDate(b) > b
  BY NextIs
<1>2. NextDate(b) > a
  BY <1>1
<1> QED BY <1>1, <1>2, EndsLater

LEMMA CoversMore ==
  ASSUME NEW ls, NEW more, ls \subseteq more, NEW pair, NEW until, Covers(ls, pair, until)
  PROVE  Covers(more, pair, until)
BY DEF Covers

LEMMA CoversLess ==
  ASSUME NEW ls, Ending(ls), NEW pair, NEW until \in Int, NEW less \in Int, less <= until, Covers(ls, pair, until)
  PROVE  Covers(ls, pair, less)
<1>1. PICK l \in ls : l.pair \in {pair, "*"} /\ l.side = "*" /\ l.until >= until
  BY DEF Covers
<1>2. l.until \in Int
  BY DEF Ending
<1>3. l.until >= less
  BY <1>1, <1>2
<1> QED BY <1>1, <1>3 DEF Covers

\* The stops of a protection here: of both sides, until a time.
Stopping(stops) == \A s \in stops : s.side = "*" /\ s.until \in Int

\* lock_pair keeps the locks that are there and sets the one that is asked for,
\* or finds it set.
LEMMA LockPairCovers ==
  ASSUME NEW ls, Ending(ls), NEW pair, NEW until \in Int, NEW reason, NEW t
  PROVE  LET after == LockPair(ls, pair, until, reason, t, "*") IN
         /\ ls \subseteq after /\ Ending(after)
         /\ Covers(after, pair, NextDate(until))
<1> DEFINE lock == [pair |-> pair, side |-> "*", reason |-> reason, until |-> NextDate(until)]
           after == LockPair(ls, pair, until, reason, t, "*")
<1>1. NextDate(until) \in Int /\ NextDate(until) \in Ends
  BY NextIs
<1>2. lock.pair = pair /\ lock.side = "*" /\ lock.until = NextDate(until)
  OBVIOUS
<1>3. after = ls \cup {lock}
  <2>1. lock \in PairLocks(ls, pair, t, "*") => lock \in ls
    BY DEF PairLocks
  <2> HIDE DEF lock
  <2>2. after = IF lock \in PairLocks(ls, pair, t, "*") THEN ls ELSE ls \cup {lock}
    BY DEF LockPair, lock
  <2> QED BY <2>1, <2>2
<1> HIDE DEF lock, after
<1>4. Ending(after)
  BY <1>1, <1>2, <1>3 DEF Ending
<1>5. Covers(after, pair, NextDate(until))
  <2>1. NextDate(until) >= NextDate(until)
    BY <1>1
  <2> QED BY <1>2, <1>3, <2>1 DEF Covers
<1> QED BY <1>3, <1>4, <1>5 DEF after

\* Every stop is covered: by the lock that is set for it, or by the longer one for which
\* none is set; that one ends with a candle, too.
LEMMA StopsCovered ==
  ASSUME NEW ls, Ending(ls), NEW pair, NEW stops, Stopping(stops), NEW t
  PROVE  LET after == WithStops(ls, pair, stops, t) IN
         /\ ls \subseteq after /\ Ending(after)
         /\ \A s \in stops : Covers(after, pair, NextDate(s.until))
<1> DEFINE after == WithStops(ls, pair, stops, t)
           set == {x \in stops : ~IsPairLocked(ls, pair, x.until, x.side)}
           with(s) == LockPair(ls, pair, s.until, s.reason, t, s.side)
<1>1. after = ls \cup UNION {with(s) : s \in set}
  BY DEF WithStops
<1>2. ASSUME NEW s \in stops
      PROVE  /\ Ending(with(s)) /\ Covers(with(s), pair, NextDate(s.until))
  <2>1. s.until \in Int /\ s.side = "*"
    BY DEF Stopping
  <2> QED BY <2>1, LockPairCovers
<1> HIDE DEF with, after
<1>3. Ending(after)
  BY <1>1, <1>2 DEF Ending, set
<1>4. ASSUME NEW s \in stops PROVE Covers(after, pair, NextDate(s.until))
  <2>1. CASE s \in set
    BY <1>1, <1>2, <2>1, CoversMore
  <2>2. CASE s \notin set
    <3>1. IsPairLocked(ls, pair, s.until, s.side) /\ s.side = "*" /\ s.until \in Int
      BY <2>2 DEF Stopping
    <3>2. PICK l \in ls : l.until > s.until /\ l.pair \in {pair, "*"} /\ SideMatches(l, s.side)
      BY <3>1 DEF IsPairLocked, IsGlobalLock, PairLocks
    <3>3. l.side = "*" /\ l \in after
      BY <1>1, <3>1, <3>2 DEF SideMatches
    <3>4. l.until >= NextDate(s.until)
      <4>1. l.until \in Ends
        BY DEF Ending
      <4> QED BY <3>1, <3>2, <4>1, EndsLater
    <3> QED BY <3>2, <3>3, <3>4 DEF Covers
  <2> QED BY <2>1, <2>2
<1>5. ls \subseteq after
  BY <1>1
<1> QED BY <1>3, <1>4, <1>5 DEF after
-----------------------------------------------------------------------------
(* The protections, one after the other: WithAllStops is a fold, which the   *)
(* module Folds computes with a recursive function.                          *)

\* The locks after the protections in ss, computed from what g says of fewer.
AfterStops(stops, ls, pair, t, ss, g) ==
  IF ss = {} THEN ls ELSE WithStops(g[ss \ {Max(ss)}], pair, stops[Max(ss)], t)
Folded(stops, ls, pair, t, g) == g = [ss \in SUBSET DOMAIN stops |-> AfterStops(stops, ls, pair, t, ss, g)]

LEMMA FoldIsChosen ==
  ASSUME NEW stops, NEW ls, NEW pair, NEW t
  PROVE  WithAllStops(ls, pair, stops, t) = (CHOOSE g : Folded(stops, ls, pair, t, g))[DOMAIN stops]
  BY DEF WithAllStops, FoldLeft, MapThenFoldSet, Folded, AfterStops

LEMMA GreatestExists ==
  ASSUME NEW n \in Nat, NEW S \in SUBSET (0..n), S # {}
  PROVE  \E x \in S : \A y \in S : y <= x
<1> DEFINE T == {n - x : x \in S}
<1>1. T \in SUBSET Nat /\ T # {}
  <2>1. \A x \in S : n - x \in Nat
    OBVIOUS
  <2> QED BY <2>1
<1>2. PICK m \in T : \A y \in T : m <= y
  BY <1>1, LeastExists
<1>3. PICK x \in S : m = n - x
  BY <1>2
<1>4. ASSUME NEW y \in S
      PROVE  y <= x
  <2>1. m <= n - y
    BY <1>2, <1>4
  <2> QED BY <1>3, <1>4, <2>1
<1> QED BY <1>3, <1>4
LEMMA MaxIs ==
  ASSUME NEW n \in Nat, NEW ss \in SUBSET (0..n), ss # {}
  PROVE  Max(ss) \in ss /\ \A x \in ss : x <= Max(ss)
<1>1. \E x \in ss : \A y \in ss : y <= x
  BY GreatestExists
<1>2. \E x \in ss : \A y \in ss : x >= y
  BY <1>1
<1>3. Max(ss) \in ss /\ \A y \in ss : Max(ss) >= y
  BY <1>2 DEF Max
<1>4. \A x \in ss : x \in Int
  OBVIOUS
<1> QED BY <1>3, <1>4

LEMMA FoldedExists ==
  ASSUME NEW n \in Nat, NEW stops, DOMAIN stops = 1..n, NEW ls, NEW pair, NEW t
  PROVE  \E g : Folded(stops, ls, pair, t, g)
<1> DEFINE S == 1..n
           A(ss, g) == AfterStops(stops, ls, pair, t, ss, g)
           D(m) == {ss \in SUBSET S : Cardinality(ss) < m}
           Good(m) == \E g : \A ss \in D(m) : g[ss] = A(ss, g)
           Bad == {m \in Nat : ~Good(m)}
<1>1. \A ss \in SUBSET S : IsFiniteSet(ss) /\ Cardinality(ss) \in Nat /\ Cardinality(ss) <= n
  <2>1. IsFiniteSet(S) /\ Cardinality(S) = n
    BY FS_Interval
  <2> QED BY <2>1, FS_Subset, FS_CardinalityType
<1>2. Good(0)
  <2>1. D(0) = {}
    BY <1>1
  <2> QED BY <2>1
<1>3. ASSUME NEW m \in Nat, Good(m) PROVE Good(m + 1)
  <2>1. PICK g : \A ss \in D(m) : g[ss] = A(ss, g)
    BY <1>3
  <2> DEFINE h == [ss \in D(m + 1) |-> A(ss, g)]
  <2>2. ASSUME NEW ss \in D(m + 1), ss # {}
        PROVE  ss \ {Max(ss)} \in D(m) /\ ss \ {Max(ss)} \in D(m + 1)
    <3>1. Max(ss) \in ss
      <4>1. ss \in SUBSET (0..n)
        OBVIOUS
      <4> QED BY <2>2, <4>1, MaxIs
    <3>2. Cardinality(ss \ {Max(ss)}) = Cardinality(ss) - 1
      BY <1>1, <3>1, FS_RemoveElement
    <3>3. Cardinality(ss) \in Nat /\ Cardinality(ss) < m + 1
      BY <1>1
    <3>4. Cardinality(ss \ {Max(ss)}) < m /\ Cardinality(ss \ {Max(ss)}) < m + 1
      BY <3>2, <3>3
    <3>5. ss \ {Max(ss)} \in SUBSET S
      OBVIOUS
    <3> HIDE DEF S
    <3> QED BY <3>4, <3>5
  <2>3. ASSUME NEW ss \in D(m + 1) PROVE h[ss] = A(ss, h)
    <3>1. CASE ss = {}
      BY <3>1 DEF AfterStops
    <3>2. CASE ss # {}
      <4> DEFINE r == ss \ {Max(ss)}
      <4>1. r \in D(m) /\ r \in D(m + 1)
        BY <2>2, <3>2
      <4>2. h[r] = A(r, g) /\ g[r] = A(r, g)
        BY <2>1, <4>1
      <4>3. h[ss] = WithStops(g[r], pair, stops[Max(ss)], t)
        BY <3>2 DEF AfterStops
      <4>4. g[r] = h[r]
        BY <4>2
      <4> HIDE DEF h, r
      <4>5. h[ss] = WithStops(h[r], pair, stops[Max(ss)], t)
        BY <4>3, <4>4
      <4> QED BY <3>2, <4>5 DEF AfterStops, r
    <3> QED BY <3>1, <3>2
  <2> HIDE DEF h, D, A
  <2> QED BY <2>3
<1> HIDE DEF Good
<1>4. \A m \in Nat : Good(m)
  <2> SUFFICES ASSUME Bad # {} PROVE FALSE
    OBVIOUS
  <2>1. PICK m \in Bad : \A x \in Bad : m <= x
    BY LeastExists
  <2>2. m # 0 /\ m \in Nat
    BY <1>2, <2>1
  <2>3. m - 1 \in Nat /\ m - 1 \notin Bad /\ m = (m - 1) + 1
    BY <2>1, <2>2
  <2>4. Good(m - 1)
    BY <2>3
  <2>5. Good(m)
    BY <1>3, <2>3, <2>4
  <2> QED BY <2>1, <2>5
<1>5. D(n + 1) = SUBSET S
  BY <1>1
<1>6. PICK g : \A ss \in SUBSET S : g[ss] = A(ss, g)
  <2>1. n + 1 \in Nat
    OBVIOUS
  <2> QED BY <1>4, <1>5, <2>1 DEF Good
<1> DEFINE h == [ss \in SUBSET S |-> g[ss]]
<1>7. ASSUME NEW ss \in SUBSET S PROVE h[ss] = A(ss, h)
  <2>1. ss \ {Max(ss)} \in SUBSET S
    OBVIOUS
  <2>2. h[ss \ {Max(ss)}] = g[ss \ {Max(ss)}]
    BY <2>1
  <2>3. A(ss, h) = A(ss, g)
    BY <2>2 DEF AfterStops
  <2> QED BY <1>6, <2>3
<1>8. Folded(stops, ls, pair, t, h)
  <2>1. h = [ss \in SUBSET S |-> h[ss]]
    OBVIOUS
  <2> HIDE DEF h
  <2>2. h = [ss \in SUBSET S |-> A(ss, h)]
    BY <1>7, <2>1
  <2> QED BY <2>2 DEF Folded
<1> QED BY <1>8

\* What the protections ask for is covered after the last of them, and no lock is lost.
LEMMA AllStopsCovered ==
  ASSUME NEW n \in Nat, NEW stops, DOMAIN stops = 1..n,
         NEW ls, Ending(ls), NEW pair, NEW t, \A i \in 1..n : Stopping(stops[i])
  PROVE  LET after == WithAllStops(ls, pair, stops, t) IN
         /\ ls \subseteq after /\ Ending(after)
         /\ \A i \in 1..n : \A s \in stops[i] : Covers(after, pair, NextDate(s.until))
<1> DEFINE g == CHOOSE f : Folded(stops, ls, pair, t, f)
           A(ss) == AfterStops(stops, ls, pair, t, ss, g)
           Good(k) == /\ ls \subseteq g[1..k] /\ Ending(g[1..k])
                      /\ \A i \in 1..k : \A s \in stops[i] : Covers(g[1..k], pair, NextDate(s.until))
           Bad == {k \in Nat : k <= n /\ ~Good(k)}
<1>1. \A ss \in SUBSET (1..n) : g[ss] = A(ss)
  <2>1. Folded(stops, ls, pair, t, g)
    BY FoldedExists
  <2> HIDE DEF g
  <2> QED BY <2>1 DEF Folded
<1> HIDE DEF g
<1>2. Good(0)
  <2>1. 1..0 = {} /\ {} \in SUBSET (1..n)
    OBVIOUS
  <2>2. g[{}] = ls
    BY <1>1, <2>1 DEF AfterStops
  <2> QED BY <2>1, <2>2
<1>3. ASSUME NEW k \in Nat, k < n, Good(k) PROVE Good(k + 1)
  <2> DEFINE before == g[1..k]
             after == g[1..(k + 1)]
  <2>1. 1..(k + 1) \in SUBSET (1..n) /\ 1..(k + 1) # {}
    BY SMTT(30), <1>3
  <2>2. Max(1..(k + 1)) = k + 1
    <3> DEFINE r == 1..(k + 1)
    <3>1. r \in SUBSET (0..n) /\ r # {} /\ k + 1 \in r /\ \A x \in r : x \in Int /\ x <= k + 1
      <4>1. k + 1 \in Nat /\ 1 <= k + 1 /\ k + 1 <= n
        BY <1>3
      <4>2. k + 1 \in r
        BY <4>1
      <4>3. \A x \in r : x \in Int /\ x <= k + 1 /\ x \in 0..n
        BY <4>1
      <4> HIDE DEF r
      <4> QED BY <4>2, <4>3
    <3>2. Max(r) \in r /\ \A x \in r : x <= Max(r)
      BY <3>1, MaxIs
    <3> HIDE DEF r
    <3>3. Max(r) <= k + 1 /\ k + 1 <= Max(r) /\ Max(r) \in Int
      BY <3>1, <3>2
    <3> QED BY <3>3 DEF r
  <2>3. (1..(k + 1)) \ {k + 1} = 1..k
    OBVIOUS
  <2>4. after = WithStops(before, pair, stops[k + 1], t)
    BY <1>1, <2>1, <2>2, <2>3 DEF AfterStops
  <2>5. k + 1 \in 1..n
    BY <1>3
  <2>6. /\ Ending(before) /\ ls \subseteq before
        /\ \A i \in 1..k : \A s \in stops[i] : Covers(before, pair, NextDate(s.until))
    BY <1>3
  <2> HIDE DEF before, after
  <2>7. /\ before \subseteq after /\ Ending(after)
        /\ \A s \in stops[k + 1] : Covers(after, pair, NextDate(s.until))
    BY <2>4, <2>5, <2>6, StopsCovered
  <2>8. ASSUME NEW i \in 1..(k + 1), NEW s \in stops[i] PROVE Covers(after, pair, NextDate(s.until))
    <3>1. CASE i = k + 1
      BY <2>7, <3>1
    <3>2. CASE i # k + 1
      <4>1. i \in 1..k
        BY <3>2
      <4> QED BY <2>6, <2>7, <4>1, CoversMore
    <3> QED BY <3>1, <3>2
  <2> QED BY <2>6, <2>7, <2>8 DEF after
<1> HIDE DEF Good
<1>4. Bad = {}
  <2> SUFFICES ASSUME Bad # {} PROVE FALSE
    OBVIOUS
  <2>1. PICK k \in Bad : \A x \in Bad : k <= x
    BY LeastExists
  <2>2. k # 0 /\ k \in Nat /\ k <= n
    BY <1>2, <2>1
  <2>3. k - 1 \in Nat /\ k - 1 \notin Bad /\ k = (k - 1) + 1 /\ k - 1 < n
    BY <2>1, <2>2
  <2>4. Good(k - 1)
    BY <2>2, <2>3
  <2>5. Good(k)
    BY <1>3, <2>3, <2>4
  <2> QED BY <2>1, <2>5
<1>5. Good(n)
  BY <1>4
<1> QED BY <1>5, FoldIsChosen DEF Good, g
-----------------------------------------------------------------------------
(* What the cooldown asks for                                                *)

\* What run_protections passes on of the trades.
View(ts) == {[id |-> t.id, pair |-> t.pair, side |-> t.side, close |-> t.close] : t \in ts}

ProtectionType == [method : {"CooldownPeriod"}, lookback : Nat, duration : Nat, unlockAt : Int]

LEMMA LockEndIs ==
  ASSUME NEW cfg \in ProtectionType, NEW n \in Nat, NEW ts, \A x \in ts : x.close \in 0..n, ts # {}
  PROVE  /\ LockEnd(cfg, ts) \in Int
         /\ cfg.unlockAt < 0 => \A x \in ts : x.close + cfg.duration <= LockEnd(cfg, ts)
<1> DEFINE closes == {x.close : x \in ts}
           last == Max(closes)
           at == (last - (last % Minutes)) + cfg.unlockAt
<1>1. closes \in SUBSET (0..n) /\ closes # {}
  OBVIOUS
<1>2. last \in closes /\ \A c \in closes : c <= last
  BY <1>1, MaxIs
<1>3. last \in Nat
  BY <1>1, <1>2
<1>4. cfg.unlockAt \in Int /\ cfg.duration \in Int
  BY DEF ProtectionType
<1>5. LockEnd(cfg, ts) = IF cfg.unlockAt < 0 THEN last + cfg.duration
                         ELSE IF at < last THEN at + Minutes ELSE at
  BY DEF LockEnd
<1>6. \A x \in ts : x.close <= last /\ x.close \in Nat
  BY <1>2
<1> HIDE DEF last
<1>7. at \in Int /\ Minutes \in Int
  <2>1. last % Minutes \in Int
    BY <1>3, TimeAssumption
  <2> QED BY <1>3, <1>4, <2>1, TimeAssumption
<1> HIDE DEF at
<1>8. LockEnd(cfg, ts) \in Int
  BY <1>3, <1>4, <1>5, <1>7
<1>9. cfg.unlockAt < 0 => \A x \in ts : x.close + cfg.duration <= LockEnd(cfg, ts)
  BY <1>3, <1>4, <1>5, <1>6
<1> QED BY <1>8, <1>9

\* A cooldown stops for both sides, and after a trade that was just closed until its pause
\* is over.
LEMMA CooldownStops ==
  ASSUME NEW cfg \in ProtectionType, NEW n \in Nat, NEW ts, \A x \in ts : x.close \in 0..n, NEW pair, NEW side
  PROVE  /\ Stopping(PairStop(cfg, ts, pair, n, side)) /\ Stopping(AllPairsStop(cfg, ts, n, side))
         /\ \A x \in ts : x.pair = pair /\ x.close = n /\ Pauses(cfg) =>
              \E s \in PairStop(cfg, ts, pair, n, side) : x.close + cfg.duration <= s.until
<1> DEFINE own == {x \in ts : x.pair = pair}
           late == ClosedAfter(own, n - cfg.lookback)
<1>1. cfg.method = "CooldownPeriod" /\ cfg.lookback \in Nat /\ cfg.duration \in Nat
  BY DEF ProtectionType
<1>2. PairStop(cfg, ts, pair, n, side) = IF late = {} THEN {} ELSE Stop(cfg, late, "*")
  BY <1>1 DEF PairStop, CooldownPeriod
<1>3. AllPairsStop(cfg, ts, n, side) = {}
  BY <1>1 DEF AllPairsStop
<1>4. \A x \in late : x \in ts /\ x.close \in 0..n
  BY DEF ClosedAfter
<1>5. \A x \in ts : x.pair = pair /\ x.close = n /\ cfg.lookback > 0 => x \in late
  BY <1>1 DEF ClosedAfter
<1> HIDE DEF late
<1>6. late # {} => /\ LockEnd(cfg, late) \in Int
                   /\ cfg.unlockAt < 0 => \A x \in late : x.close + cfg.duration <= LockEnd(cfg, late)
  BY <1>4, LockEndIs
<1>7. Stopping(PairStop(cfg, ts, pair, n, side))
  BY <1>2, <1>6 DEF Stopping, Stop
<1>8. Stopping(AllPairsStop(cfg, ts, n, side))
  BY <1>3 DEF Stopping
<1>9. ASSUME NEW x \in ts, x.pair = pair, x.close = n, Pauses(cfg)
      PROVE  \E s \in PairStop(cfg, ts, pair, n, side) : x.close + cfg.duration <= s.until
  <2>1. x \in late /\ cfg.unlockAt < 0
    BY <1>5, <1>9 DEF Pauses
  <2>2. x.close + cfg.duration <= LockEnd(cfg, late)
    BY <1>6, <2>1
  <2> DEFINE s == [until |-> LockEnd(cfg, late), side |-> "*", reason |-> cfg.method]
  <2>3. s \in PairStop(cfg, ts, pair, n, side) /\ s.until = LockEnd(cfg, late)
    BY <1>2, <2>1 DEF Stop
  <2> HIDE DEF s
  <2> QED BY <2>2, <2>3
<1> QED BY <1>7, <1>8, <1>9

\* run_protections keeps the locks, and covers the pauses after the trade that was just
\* closed.
LEMMA ProtectCovers ==
  ASSUME Setting, Ending(locks), NEW ts, \A t \in ts : t.close \in 0..now, NEW pair, NEW side, Protect(pair, side, ts)
  PROVE  /\ locks \subseteq locks' /\ Ending(locks')
         /\ \A t \in ts, i \in DOMAIN setup.protections :
              t.pair = pair /\ t.close = now /\ Pauses(setup.protections[i]) =>
                Covers(locks', pair, NextDate(now + setup.protections[i].duration))
<1> DEFINE cs == setup.protections
           n == Len(cs)
           us == View(ts)
           stops == [i \in DOMAIN cs |-> PairStop(cs[i], us, pair, now, side)]
           alls == [i \in DOMAIN cs |-> AllPairsStop(cs[i], us, now, side)]
           between == WithAllStops(locks, pair, stops, now)
<1>1. cs \in Seq(ProtectionType) /\ now \in Nat
  BY BacktestAssumption DEF Setting, SetupType, ProtectionType
<1>2. n \in Nat /\ DOMAIN cs = 1..n /\ \A i \in 1..n : cs[i] \in ProtectionType
  BY <1>1, LenProperties, ElementOfSeq
<1>3. \A x \in us : x.close \in 0..now
  BY DEF View
<1>4. ASSUME NEW t \in ts
      PROVE  \E x \in us : x.pair = t.pair /\ x.close = t.close
  <2> DEFINE x == [id |-> t.id, pair |-> t.pair, side |-> t.side, close |-> t.close]
  <2>1. x \in us /\ x.pair = t.pair /\ x.close = t.close
    BY DEF View
  <2> HIDE DEF x
  <2> QED BY <2>1
<1>5. locks' = WithAllStops(between, "*", alls, now)
  BY DEF Protect, StopPerPair, GlobalStop, View
<1>6. DOMAIN stops = 1..n /\ DOMAIN alls = 1..n
      /\ \A i \in 1..n : stops[i] = PairStop(cs[i], us, pair, now, side) /\ alls[i] = AllPairsStop(cs[i], us, now, side)
  BY <1>2
<1> HIDE DEF cs, n, us, stops, alls
<1>7. \A i \in 1..n : Stopping(stops[i]) /\ Stopping(alls[i])
  BY <1>1, <1>2, <1>3, <1>6, CooldownStops
<1>8. /\ locks \subseteq between /\ Ending(between)
      /\ \A i \in 1..n : \A s \in stops[i] : Covers(between, pair, NextDate(s.until))
  BY <1>2, <1>6, <1>7, AllStopsCovered
<1> HIDE DEF between
<1>9. PICK ls : ls = locks'
  OBVIOUS
<1>10. between \subseteq ls /\ Ending(ls)
  BY <1>2, <1>5, <1>6, <1>7, <1>8, <1>9, AllStopsCovered
<1>11. ASSUME NEW t \in ts, NEW i \in 1..n, t.pair = pair, t.close = now, Pauses(cs[i])
       PROVE  Covers(ls, pair, NextDate(now + cs[i].duration))
  <2>1. PICK x \in us : x.pair = pair /\ x.close = now
    BY <1>4, <1>11
  <2>2. PICK s \in PairStop(cs[i], us, pair, now, side) : x.close + cs[i].duration <= s.until
    BY <1>1, <1>2, <1>3, <1>11, <2>1, CooldownStops
  <2>3. s \in stops[i] /\ s.until \in Int
    BY <1>6, <1>7, <2>2 DEF Stopping
  <2>4. Covers(ls, pair, NextDate(s.until))
    BY <1>8, <1>10, <1>11, <2>3, CoversMore
  <2>5. now + cs[i].duration \in Int /\ now + cs[i].duration <= s.until
    BY <1>1, <1>2, <2>1, <2>2 DEF ProtectionType
  <2>6. NextDate(now + cs[i].duration) \in Int /\ NextDate(s.until) \in Int
        /\ NextDate(now + cs[i].duration) <= NextDate(s.until)
    BY <2>3, <2>5, NextIs, NextGrows
  <2> QED BY <1>10, <2>4, <2>6, CoversLess
<1> QED BY <1>2, <1>8, <1>9, <1>10, <1>11 DEF cs
-----------------------------------------------------------------------------
(* The second invariant: while the candles are walked, what the closed trades *)
(* leave behind keeps their pairs from being entered too early.               *)

Live == phase \notin {"left", "force", "done"}

Closings == \A t \in closed : t.close \in 0..now /\ CandleOf(t.close) <= candle

\* The pause after a closed trade is covered.
Locked ==
  /\ Ending(locks)
  /\ \A t \in closed, i \in DOMAIN setup.protections :
       Pauses(setup.protections[i]) => Covers(locks, t.pair, NextDate(t.close + setup.protections[i].duration))

\* Without detail candles, trades are closed at the start of candles.
Coarse == ~setup.detail => step = 0 /\ \A t \in closed : CandleOf(t.close) * Timeframe = t.close

\* A trade of the pair was closed in this candle that had been open before.
Spent(p) == \E t \in closed : t.pair = p /\ t.opened < t.close /\ CandleOf(t.close) = candle

\* With detail candles, such a pair has been seen with an open trade and has none, so
\* that it is not called in this candle again.
Fine ==
  setup.detail /\ OneAtATime =>
    /\ \A i, j \in Ids : open[i].pair = open[j].pair => i = j
    /\ \A p \in Pairs : Spent(p) => p \in seen /\ OfPair(p) = {}
    /\ phase \in {"manage", "enter"} => ~Spent(now_row.pair)
    /\ phase \in RowPhase =>
         /\ \A id \in OfPair(now_row.pair) : open[id].opened = now \/ now_row.pair \in seen
         /\ \A id \in todo \cap Ids : open[id].pair = now_row.pair

Waiting == Live => Closings /\ Locked /\ Coarse /\ Fine

LEMMA NowIs ==
  ASSUME Typed
  PROVE  now \in Nat /\ CandleOf(now) = candle /\ (step = 0 => candle * Timeframe = now)
<1> DEFINE f == Timeframe
           q == now \div f
           r == now % f
<1>1. f \in Nat \ {0} /\ candle \in Nat /\ step \in 0..(f - 1)
  BY BacktestAssumption, TimeAssumption DEF Typed
<1>2. now = candle * f + step /\ now \in Nat
  BY <1>1 DEF now
<1>3. q \in Int /\ r \in 0..(f - 1) /\ now = f * q + r
  BY <1>1, <1>2
<1>4. CandleOf(now) = q
  BY DEF CandleOf
<1> HIDE DEF f, q, r
<1>5. f * q \in Int /\ f * candle \in Int /\ f * (q - candle) = f * q - f * candle /\ candle * f = f * candle
  BY <1>1, <1>3
<1>6. f * (q - candle) = step - r
  BY <1>1, <1>2, <1>3, <1>5
<1>7. q - candle \in Int /\ f * (q - candle) > -f /\ f * (q - candle) < f
  BY <1>1, <1>3, <1>6
<1>8. q - candle <= 0 /\ q - candle >= 0
  BY <1>1, <1>7, Multiple
<1>9. q = candle
  BY <1>1, <1>3, <1>8
<1>10. step = 0 => candle * f = now
  BY <1>1, <1>2, <1>5
<1> QED BY <1>2, <1>4, <1>9, <1>10 DEF f

\* What a step does to the results and the locks when it fills the exit order of a trade.
Booked(id) ==
  /\ Protect(open[id].pair, open[id].side, closed')
  /\ \/ closed' = closed
     \/ \E y : /\ closed' = closed \cup {y} /\ id \notin Ids'
               /\ y.pair = open[id].pair /\ y.opened = open[id].opened /\ y.close = now

LEMMA ExitBooked ==
  ASSUME Trades, NEW id \in Ids, NEW t, Follows(open[id], t), NEW i \in OpenOnes(t),
         t.orders[i].kind = "exit", ProcessExit(t, i, now)
  PROVE  (closed' = closed /\ locks' = locks) \/ Booked(id)
<1>1. Sound(t) /\ t.id = id /\ t.pair = open[id].pair /\ t.side = open[id].side /\ t.opened = open[id].opened
  BY DEF Follows, Kept, Trades
<1>2. PICK x \in TryClose(t, i, Row) :
        IF x.orders[i].open THEN closed' = closed /\ locks' = locks
        ELSE /\ IF x.orders[i].amount # t.amount THEN closed' = closed
                ELSE open' = Gone(t.id) /\ closed' = closed \cup {[x EXCEPT !.close = now]}
             /\ Protect(t.pair, t.side, closed')
  BY DEF ProcessExit
<1>3. CASE x.orders[i].open
  BY <1>2, <1>3
<1>4. CASE ~x.orders[i].open /\ x.orders[i].amount # t.amount
  BY <1>1, <1>2, <1>4 DEF Booked
<1>5. CASE ~x.orders[i].open /\ x.orders[i].amount = t.amount
  <2> DEFINE y == [x EXCEPT !.close = now]
  <2>1. Sold(t, x)
    BY <1>1, <1>5, TryCloseExit
  <2>2. y.pair = t.pair /\ y.opened = t.opened /\ y.close = now
    <3>1. x \in TradeType /\ x.pair = t.pair /\ x.opened = t.opened
      BY <2>1 DEF Sold
    <3> QED BY <3>1 DEF TradeType
  <2>3. closed' = closed \cup {y} /\ open' = Gone(id) /\ Protect(t.pair, t.side, closed')
    BY <1>1, <1>2, <1>5
  <2> HIDE DEF y
  <2>4. id \notin Ids'
    BY <2>3 DEF Ids, Gone
  <2> QED BY <1>1, <2>2, <2>3, <2>4 DEF Booked
<1> QED BY <1>3, <1>4, <1>5

\* What the processing of a row does to them: nothing, or it books one of its trades.
BooksOne == (closed' = closed /\ locks' = locks) \/ \E id \in Ids \cap todo : Booked(id)

SameTime == setup' = setup /\ candle' = candle /\ step' = step

LEMMA BooksKeep ==
  ASSUME Typed, SameTime, BooksOne, Closings, Locked, Coarse
  PROVE  (Closings /\ Locked /\ Coarse)'
<1>1. now \in Nat /\ CandleOf(now) = candle /\ (step = 0 => candle * Timeframe = now) /\ Setting /\ candle \in Nat
  BY NowIs, SettingHolds
<1>2. now' = now
  BY DEF SameTime, now
<1>3. CASE closed' = closed /\ locks' = locks
  BY <1>2, <1>3 DEF SameTime, Closings, Locked, Coarse
<1>4. CASE \E id \in Ids \cap todo : Booked(id)
  <2>1. PICK id \in Ids \cap todo : Booked(id)
    BY <1>4
  <2>2. PICK p, side : p = open[id].pair /\ side = open[id].side
    OBVIOUS
  <2>3. Protect(p, side, closed')
    BY <2>1, <2>2 DEF Booked
  <2>4. \A t \in closed' : t \in closed \/ (t.pair = p /\ t.close = now)
    BY <2>1, <2>2 DEF Booked
  <2>5. PICK ts : ts = closed'
    OBVIOUS
  <2>6. \A t \in ts : t.close \in 0..now /\ CandleOf(t.close) <= candle
    BY <1>1, <2>4, <2>5 DEF Closings
  <2>7. Closings'
    BY <1>2, <2>5, <2>6 DEF Closings, SameTime
  <2>8. /\ locks \subseteq locks' /\ Ending(locks')
        /\ \A t \in ts, i \in DOMAIN setup.protections :
              t.pair = p /\ t.close = now /\ Pauses(setup.protections[i]) =>
                Covers(locks', p, NextDate(now + setup.protections[i].duration))
    BY <1>1, <2>3, <2>5, <2>6, ProtectCovers DEF Locked
  <2>9. PICK ls : ls = locks'
    OBVIOUS
  <2>10. ASSUME NEW t \in ts, NEW i \in DOMAIN setup.protections, Pauses(setup.protections[i])
         PROVE  Covers(ls, t.pair, NextDate(t.close + setup.protections[i].duration))
    <3>1. CASE t \in closed
      <4>1. Covers(locks, t.pair, NextDate(t.close + setup.protections[i].duration))
        BY <2>10, <3>1 DEF Locked
      <4> QED BY <2>8, <2>9, <4>1, CoversMore
    <3>2. CASE t.pair = p /\ t.close = now
      BY <2>8, <2>9, <2>10, <3>2
    <3> QED BY <2>4, <2>5, <3>1, <3>2
  <2>11. Locked'
    BY <2>5, <2>8, <2>9, <2>10 DEF Locked, SameTime
  <2>12. Coarse'
    BY <1>1, <2>4 DEF Coarse, SameTime
  <2> QED BY <2>7, <2>11, <2>12
<1> QED BY <1>3, <1>4 DEF BooksOne

\* Spent and OfPair after a step that books at most one trade of the row's pair.
LEMMA FineKeeps ==
  ASSUME Typed, Trades, Fine, phase \in RowPhase, Carried, SameTime, seen' = seen, BooksOne,
         phase' \in RowPhase => now_row'.pair = now_row.pair,
         todo' \subseteq todo,
         phase' \in {"manage", "enter"} => closed' = closed /\ (phase \in {"manage", "enter"} \/ setup.short)
  PROVE  Fine'
<1> SUFFICES ASSUME setup.detail, OneAtATime PROVE Fine'
  BY DEF Fine, OneAtATime, SameTime
<1>1. /\ \A i, j \in Ids : open[i].pair = open[j].pair => i = j
      /\ \A p \in Pairs : Spent(p) => p \in seen /\ OfPair(p) = {}
      /\ phase \in {"manage", "enter"} => ~Spent(now_row.pair)
      /\ \A id \in OfPair(now_row.pair) : open[id].opened = now \/ now_row.pair \in seen
      /\ \A id \in todo \cap Ids : open[id].pair = now_row.pair
  BY DEF Fine
<1>2. Ids' \subseteq Ids /\ \A id \in Ids' : open'[id].pair = open[id].pair /\ open'[id].opened = open[id].opened
  BY DEF Carried
<1>3. now' = now /\ candle' = candle
  BY DEF SameTime, now
<1>4. ASSUME NEW p \in Pairs, Spent(p)'
      PROVE  p \in seen' /\ OfPair(p)' = {}
  <2>1. PICK t \in closed' : t.pair = p /\ t.opened < t.close /\ CandleOf(t.close) = candle
    BY <1>3, <1>4 DEF Spent, CandleOf
  <2>2. CASE t \in closed
    <3>1. Spent(p)
      BY <2>1, <2>2 DEF Spent
    <3>2. p \in seen /\ OfPair(p) = {}
      BY <1>1, <3>1
    <3> QED BY <1>2, <3>2 DEF OfPair
  <2>3. CASE t \notin closed
    <3>1. PICK id \in Ids \cap todo : \E y :
            /\ closed' = closed \cup {y} /\ id \notin Ids'
            /\ y.pair = open[id].pair /\ y.opened = open[id].opened /\ y.close = now
      BY <2>1, <2>3 DEF BooksOne, Booked
    <3>2. open[id].pair = p /\ open[id].opened < now
      BY <2>1, <2>3, <3>1
    <3>3. now_row.pair = p /\ id \in OfPair(p)
      BY <1>1, <3>1, <3>2 DEF OfPair
    <3>4. open[id].opened # now
      <4>1. open[id].opened \in Nat /\ now \in Nat
        BY <3>1, NowIs DEF Trades, Sound, TradeType
      <4> QED BY <3>2, <4>1
    <3>5. p \in seen
      BY <1>1, <3>3, <3>4
    <3>6. \A j \in Ids' : open'[j].pair # p
      BY <1>1, <1>2, <3>1, <3>2
    <3> QED BY <3>5, <3>6 DEF OfPair
  <2> QED BY <2>2, <2>3
<1>5. \A i, j \in Ids' : open'[i].pair = open'[j].pair => i = j
  BY <1>1, <1>2
<1>6. ASSUME phase' \in {"manage", "enter"}
      PROVE  ~Spent(now_row.pair)'
  <2>1. closed' = closed /\ ~Spent(now_row.pair)
    BY <1>1, <1>6 DEF OneAtATime
  <2>2. now_row'.pair = now_row.pair
    BY <1>6 DEF RowPhase
  <2> QED BY <1>3, <2>1, <2>2 DEF Spent, CandleOf
<1>7. ASSUME phase' \in RowPhase
      PROVE  /\ \A id \in OfPair(now_row.pair)' : open'[id].opened = now' \/ now_row'.pair \in seen'
             /\ \A id \in todo' \cap Ids' : open'[id].pair = now_row'.pair
  <2>1. OfPair(now_row.pair)' \subseteq OfPair(now_row.pair)
    BY <1>2, <1>7 DEF OfPair
  <2> QED BY <1>1, <1>2, <1>3, <1>7, <2>1 DEF OfPair
<1> QED BY <1>4, <1>5, <1>6, <1>7 DEF Fine


\* What a step of the row's processing keeps.
LEMMA RowKeeps ==
  ASSUME Typed, Trades, Waiting, phase \in RowPhase, Carried, SameTime, seen' = seen, BooksOne,
         phase' \in RowPhase => now_row'.pair = now_row.pair,
         todo' \subseteq todo,
         phase' \in {"manage", "enter"} => closed' = closed /\ (phase \in {"manage", "enter"} \/ setup.short)
  PROVE  Waiting'
<1>1. Closings /\ Locked /\ Coarse /\ Fine
  BY DEF Waiting, Live, RowPhase
<1>2. (Closings /\ Locked /\ Coarse)'
  BY <1>1, BooksKeep
<1>3. Fine'
  BY <1>1, FineKeeps
<1> QED BY <1>2, <1>3 DEF Waiting

LEMMA ManageKeeps ==
  ASSUME Inv, Waiting, ManageOpenOrders
  PROVE  Waiting'
<1>1. Typed /\ Trades /\ phase \in RowPhase /\ Carried
  BY ManageStep DEF Inv, ManageOpenOrders, RowPhase
<1>2. PICK to \in {"manage", "enter"} : Advance(to)
  BY DEF ManageOpenOrders
<1>3. Walk /\ now_row' = now_row /\ phase' = to /\ seen' = seen
  BY <1>2, AdvanceWalks DEF Advance, walk
<1>4. SameTime
  BY <1>3 DEF Walk, SameTime
<1>5. closed' = closed /\ locks' = locks /\ todo' \subseteq todo /\ phase = "manage"
  BY DEF ManageOpenOrders, Next1
<1> QED BY <1>1, <1>3, <1>4, <1>5, RowKeeps DEF BooksOne

LEMMA FillKeeps ==
  ASSUME Inv, Waiting, FillEntry
  PROVE  Waiting'
<1>1. Typed /\ Trades /\ phase \in RowPhase /\ Carried
  BY FillStep DEF Inv, FillEntry, RowPhase
<1>2. PICK to \in {"again", "adjust"} : Advance(to)
  BY DEF FillEntry
<1>3. Walk /\ now_row' = now_row /\ phase' = to /\ seen' = seen
  BY <1>2, AdvanceWalks DEF Advance, walk
<1>4. SameTime
  BY <1>3 DEF Walk, SameTime
<1>5. closed' = closed /\ locks' = locks /\ todo' = todo
  BY DEF FillEntry
<1> QED BY <1>1, <1>3, <1>4, <1>5, RowKeeps DEF BooksOne

LEMMA CheckKeeps ==
  ASSUME Inv, Waiting, CheckExit
  PROVE  Waiting'
<1>1. Typed /\ Trades /\ phase \in RowPhase /\ Carried
  BY CheckStep DEF Inv, CheckExit, RowPhase
<1>2. Advance("sell") /\ closed' = closed /\ locks' = locks /\ todo' = todo
  BY DEF CheckExit
<1>3. Walk /\ now_row' = now_row /\ phase' = "sell" /\ seen' = seen
  BY <1>2, AdvanceWalks DEF Advance, walk
<1>4. SameTime
  BY <1>3 DEF Walk, SameTime
<1> QED BY <1>1, <1>2, <1>3, <1>4, RowKeeps DEF BooksOne

LEMMA AdjustKeeps ==
  ASSUME Inv, Waiting, Adjust
  PROVE  Waiting'
<1> DEFINE t == open[Current]
<1>1. Typed /\ Trades /\ Turn /\ phase \in RowPhase /\ Carried /\ Setting
  BY AdjustStep, SettingHolds DEF Inv, Adjust, RowPhase
<1>2. Advance("exit") /\ todo' = todo /\ phase = "adjust"
  BY DEF Adjust
<1>3. Walk /\ now_row' = now_row /\ phase' = "exit" /\ seen' = seen
  BY <1>2, AdvanceWalks DEF Advance, walk
<1>4. SameTime
  BY <1>3 DEF Walk, SameTime
<1>5. Current \in Ids \cap todo /\ Sound(t)
  <2>1. todo \subseteq Ids /\ todo \subseteq 1..count /\ count \in Nat /\ todo # {}
    BY <1>1, <1>2 DEF Turn, Trades
  <2> QED BY <1>1, <2>1, CurrentIs DEF Trades
<1>6. ASSUME NEW price \in ExitPrices(t.side, Row), NEW amount \in 1..t.amount,
             IF Exit(t, price, amount) = t THEN UNCHANGED <<open, closed, locks>>
             ELSE ProcessExit(Exit(t, price, amount), Len(Exit(t, price, amount).orders), now)
      PROVE  (closed' = closed /\ locks' = locks) \/ Booked(Current)
  <2> DEFINE x == Exit(t, price, amount)
             n == Len(x.orders)
  <2>1. price \in Prices
    BY <1>6 DEF ExitPrices
  <2>2. CASE x = t
    BY <1>6, <2>2
  <2>3. CASE x # t
    <3>1. ProcessExit(x, n, now)
      BY <1>6, <2>3
    <3>2. Follows(t, x) /\ n \in OpenOnes(x) /\ x.orders[n].kind = "exit"
      BY <1>1, <1>5, <1>6, <2>1, ExitSound
    <3> HIDE DEF x, n
    <3> QED BY <1>1, <1>5, <3>1, <3>2, ExitBooked
  <2> QED BY <2>2, <2>3
<1>7. \/ closed' = closed /\ locks' = locks
      \/ \E price \in ExitPrices(t.side, Row), amount \in 1..t.amount :
           IF Exit(t, price, amount) = t THEN UNCHANGED <<open, closed, locks>>
           ELSE ProcessExit(Exit(t, price, amount), Len(Exit(t, price, amount).orders), now)
  BY Zenon DEF Adjust
<1> HIDE DEF t
<1>8. BooksOne
  BY <1>5, <1>6, <1>7 DEF BooksOne
<1> QED BY <1>1, <1>2, <1>3, <1>4, <1>8, RowKeeps

LEMMA SellKeeps ==
  ASSUME Inv, Waiting, Sell
  PROVE  Waiting'
<1> DEFINE t == open[Current]
           oo == OpenOf(t, "exit")
<1>1. Typed /\ Trades /\ Turn /\ phase \in RowPhase /\ Carried /\ Setting
  BY SellStep, SettingHolds DEF Inv, Sell, RowPhase
<1>2. Advance("fill") /\ todo' = todo \ {Current} /\ phase = "sell"
  BY DEF Sell, Next1
<1>3. Walk /\ now_row' = now_row /\ phase' = "fill" /\ seen' = seen
  BY <1>2, AdvanceWalks DEF Advance, walk
<1>4. SameTime
  BY <1>3 DEF Walk, SameTime
<1>5. Current \in todo
  <2>1. todo \subseteq 1..count /\ count \in Nat /\ todo # {}
    BY <1>1, <1>2 DEF Turn, Trades
  <2> QED BY <2>1, CurrentIs
<1>6. BooksOne
  <2>1. CASE Current \notin Ids \/ oo = {}
    BY <2>1 DEF Sell, BooksOne
  <2>2. CASE ~(Current \notin Ids \/ oo = {})
    <3>1. ProcessExit(t, Max(oo), now)
      BY <2>2 DEF Sell
    <3>2. Sound(t) /\ t \in TradeType
      BY <1>1, <2>2 DEF Trades, Sound
    <3>3. PICK i \in oo : TRUE
      BY <2>2
    <3>4. i \in OpenOnes(t) /\ t.orders[i].kind = "exit"
      BY <3>3 DEF OpenOf
    <3> HIDE DEF t
    <3>5. Max(oo) = i
      BY <3>2, <3>3, <3>4, OpenOneIs
    <3>6. ProcessExit(t, i, now)
      BY <3>1, <3>5
    <3>7. Follows(t, t) /\ Current \in Ids
      BY <2>2, <3>2, FollowsItself
    <3>8. (closed' = closed /\ locks' = locks) \/ Booked(Current)
      BY <1>1, <3>4, <3>6, <3>7, ExitBooked DEF t
    <3> QED BY <1>5, <3>7, <3>8 DEF BooksOne
  <2> QED BY <2>1, <2>2
<1> QED BY <1>1, <1>2, <1>3, <1>4, <1>6, RowKeeps

LEMMA AgainKeeps ==
  ASSUME Inv, Waiting, Again
  PROVE  Waiting'
<1>1. Typed /\ Trades /\ phase = "again" /\ phase \in RowPhase /\ Carried
  BY AgainStep DEF Inv, Again, RowPhase
<1>2. setup' = setup /\ candle' = candle /\ step' = step /\ seen' = seen /\ todo' = todo
      /\ closed' = closed /\ locks' = locks
  BY DEF Again, walk, Trading
<1>3. \/ phase' = "manage" /\ setup.short /\ now_row' = [now_row EXCEPT !.second = TRUE, !.exiting = "none"]
      \/ phase' = "pair"
  BY DEF Again
<1>4. phase' \in RowPhase => now_row'.pair = now_row.pair
  <2>1. now_row \in RowType
    BY <1>1 DEF Typed
  <2> QED BY <1>3, <2>1 DEF RowPhase, RowType
<1> QED BY <1>1, <1>2, <1>3, <1>4, RowKeeps DEF BooksOne, SameTime

LEMMA EnterKeeps ==
  ASSUME Inv, Waiting, EnterTrade
  PROVE  Waiting'
<1>1. Typed /\ Trades /\ phase = "enter" /\ Advance("fill") /\ closed' = closed /\ locks' = locks
      /\ \A id \in todo' : id \in Ids' /\ open'[id].pair = now_row.pair
  BY DEF Inv, EnterTrade, Processed, Ids
<1>2. Walk /\ now_row' = now_row /\ phase' = "fill" /\ seen' = seen
  BY <1>1, AdvanceWalks DEF Advance, walk
<1>3. SameTime /\ now' = now /\ candle' = candle /\ setup' = setup
  BY <1>2 DEF Walk, SameTime, now
<1>4. Closings /\ Locked /\ Coarse /\ Fine
  BY <1>1 DEF Waiting, Live
<1>5. (Closings /\ Locked /\ Coarse)'
  BY <1>1, <1>3, <1>4, BooksKeep DEF BooksOne
<1>6. ASSUME setup.detail, OneAtATime
      PROVE  Fine'
  <2> DEFINE id == count + 1
             q == now_row.pair
  <2>1. /\ \A i, j \in Ids : open[i].pair = open[j].pair => i = j
        /\ \A p \in Pairs : Spent(p) => p \in seen /\ OfPair(p) = {}
        /\ ~Spent(q)
        /\ \A i \in OfPair(q) : open[i].opened = now \/ q \in seen
    BY <1>1, <1>4, <1>6 DEF Fine, RowPhase
  <2>2. ASSUME NEW i \in Ids'
        PROVE  \/ i \in Ids /\ open'[i].pair = open[i].pair /\ open'[i].opened = open[i].opened
               \/ i = id /\ open'[i].pair = q /\ open'[i].opened = now /\ OfPair(q) = {}
    <3>1. CASE open' = open /\ count' = count
      BY <2>2, <3>1 DEF Ids
    <3>2. CASE CanEnter /\ Ids' = Ids \cup {id} /\ (\A k \in Ids : open'[k] = open[k])
               /\ open'[id].pair = q /\ open'[id].opened = now
      <4>1. OfPair(q) = {}
        BY <1>6, <3>2 DEF CanEnter, OneAtATime
      <4> QED BY <2>2, <3>2, <4>1
    <3> QED BY <3>1, <3>2, EnterIs
  <2> HIDE DEF id, q
  <2>3. ASSUME NEW i \in Ids', NEW j \in Ids', open'[i].pair = open'[j].pair
        PROVE  i = j
    BY <2>1, <2>2, <2>3 DEF OfPair
  <2>4. ASSUME NEW p \in Pairs, Spent(p)'
        PROVE  p \in seen' /\ OfPair(p)' = {}
    <3>1. Spent(p)
      BY <1>1, <1>3, <2>4 DEF Spent, CandleOf
    <3>2. p # q /\ p \in seen /\ OfPair(p) = {}
      BY <2>1, <3>1
    <3>3. \A i \in Ids' : open'[i].pair # p
      BY <2>2, <3>2 DEF OfPair
    <3> QED BY <1>2, <3>2, <3>3 DEF OfPair
  <2>5. ASSUME NEW i \in Ids', open'[i].pair = q
        PROVE  open'[i].opened = now \/ q \in seen
    BY <2>1, <2>2, <2>5 DEF OfPair
  <2>6. \A i \in OfPair(q)' : i \in Ids' /\ open'[i].pair = q'
    BY DEF OfPair
  <2>7. q' = q
    BY <1>2 DEF q
  <2> QED BY <1>1, <1>2, <1>3, <2>3, <2>4, <2>5, <2>6, <2>7 DEF Fine, q
<1>7. Fine'
  BY <1>3, <1>6 DEF Fine, OneAtATime
<1> QED BY <1>5, <1>7 DEF Waiting

LEMMA PairKeeps ==
  ASSUME Inv, Waiting, NextPair
  PROVE  Waiting'
<1>1. /\ Typed /\ phase = "pair" /\ open' = open /\ closed' = closed /\ locks' = locks /\ Ids' = Ids
      /\ setup' = setup /\ candle' = candle /\ step' = step
  BY DEF Inv, NextPair, Trading, Ids
<1>2. SameTime /\ now' = now
  BY <1>1 DEF SameTime, now
<1>3. Closings /\ Locked /\ Coarse /\ Fine
  BY <1>1 DEF Waiting, Live
<1>4. (Closings /\ Locked /\ Coarse)'
  BY <1>1, <1>2, <1>3, BooksKeep DEF BooksOne
<1>5. \A p \in Pairs : OfPair(p)' = OfPair(p) /\ (Spent(p)' <=> Spent(p))
  BY <1>1 DEF OfPair, Spent, CandleOf
<1>6. Head(queue) \in Pairs
  BY <1>1, HeadTailProperties DEF Typed, NextPair
<1>7. PICK p \in Pairs : p = Head(queue)
  BY <1>6
<1>8. \/ phase' = phase /\ seen' = seen
      \/ /\ ~Skip(p) /\ seen' = (IF OfPair(p) # {} THEN seen \cup {p} ELSE seen)
         /\ phase' = "manage" /\ todo' = OfPair(p) /\ now_row'.pair = p
  BY <1>7 DEF NextPair, Call
<1>9. ASSUME setup.detail, OneAtATime
      PROVE  Fine'
  <2>1. /\ \A i, j \in Ids : open[i].pair = open[j].pair => i = j
        /\ \A q \in Pairs : Spent(q) => q \in seen /\ OfPair(q) = {}
    BY <1>3, <1>9 DEF Fine
  <2>2. \A i, j \in Ids' : open'[i].pair = open'[j].pair => i = j
    BY <1>1, <2>1
  <2>3. \A q \in Pairs : Spent(q)' => q \in seen' /\ OfPair(q)' = {}
    BY <1>5, <1>8, <2>1
  <2>4. CASE phase' = phase
    BY <1>1, <2>2, <2>3, <2>4 DEF Fine, RowPhase
  <2>5. CASE /\ ~Skip(p) /\ seen' = (IF OfPair(p) # {} THEN seen \cup {p} ELSE seen)
             /\ phase' = "manage" /\ todo' = OfPair(p) /\ now_row'.pair = p
    <3>1. ~Spent(p)
      BY <2>1, <2>5 DEF Skip
    <3>2. ~Spent(now_row.pair)'
      <4>1. ~Spent(p)'
        BY <1>5, <3>1
      <4> QED BY <2>5, <4>1 DEF Spent
    <3>3. OfPair(now_row.pair)' = OfPair(p)
      BY <1>1, <2>5 DEF OfPair
    <3>4. \A i \in OfPair(now_row.pair)' : open'[i].opened = now' \/ now_row'.pair \in seen'
      BY <2>5, <3>3
    <3>5. \A i \in todo' \cap Ids' : open'[i].pair = now_row'.pair
      BY <1>1, <2>5 DEF OfPair
    <3> QED BY <2>2, <2>3, <3>2, <3>4, <3>5 DEF Fine
  <2> QED BY <1>8, <2>4, <2>5
<1>10. Fine'
  BY <1>1, <1>9 DEF Fine, OneAtATime
<1> QED BY <1>4, <1>10 DEF Waiting

LEMMA DetailKeeps ==
  ASSUME Inv, Waiting, NextStep
  PROVE  Waiting'
<1>1. /\ Typed /\ phase = "pair" /\ open' = open /\ closed' = closed /\ locks' = locks /\ setup' = setup
      /\ candle' = candle /\ seen' = seen /\ phase' \notin RowPhase
      /\ step' = step \/ (setup.detail /\ step' = step + 1)
  BY DEF Inv, NextStep, Trading, walk, RowPhase
<1>2. Closings /\ Locked /\ Coarse /\ Fine
  BY <1>1 DEF Waiting, Live
<1>3. now' \in Nat /\ now \in Nat /\ now <= now'
  <2>1. candle * Timeframe \in Nat /\ step \in Nat
    BY BacktestAssumption, TimeAssumption, <1>1 DEF Typed
  <2> QED BY <1>1, <2>1 DEF now
<1>4. Closings'
  BY <1>1, <1>2, <1>3 DEF Closings, CandleOf
<1>5. Locked'
  BY <1>1, <1>2 DEF Locked
<1>6. Coarse'
  BY <1>1, <1>2 DEF Coarse, CandleOf
<1>7. \A p \in Pairs : OfPair(p)' = OfPair(p) /\ (Spent(p)' <=> Spent(p))
  BY <1>1 DEF OfPair, Ids, Spent, CandleOf
<1>8. Fine'
  <2>1. phase' \notin {"manage", "enter"}
    BY <1>1 DEF RowPhase
  <2> QED BY <1>1, <1>2, <1>7, <2>1 DEF Fine, OneAtATime, Ids
<1> QED BY <1>4, <1>5, <1>6, <1>8 DEF Waiting

\* In the next candle, no trade was closed yet.
LEMMA CandleKeeps ==
  ASSUME Inv, Waiting, NextCandle
  PROVE  Waiting'
<1>1. /\ Typed /\ phase = "candle" /\ open' = open /\ closed' = closed /\ locks' = locks /\ setup' = setup
  BY DEF Inv, NextCandle, Trading
<1>2. Closings /\ Locked /\ Coarse /\ Fine
  BY <1>1 DEF Waiting, Live
<1>3. CASE phase' = "left"
  BY <1>3 DEF Waiting, Live
<1>4. CASE phase' # "left"
  <2>1. phase' = "pair" /\ candle' = candle + 1 /\ step' = 0
    BY <1>4 DEF NextCandle
  <2>2. candle \in Nat /\ now \in Nat /\ now' \in Nat /\ now <= now'
    <3>1. candle \in Nat /\ Timeframe \in Nat \ {0} /\ candle * Timeframe \in Nat /\ step \in 0..(Timeframe - 1)
      BY BacktestAssumption, TimeAssumption, <1>1 DEF Typed
    <3>2. (candle + 1) * Timeframe = candle * Timeframe + Timeframe
      BY <3>1
    <3> QED BY <2>1, <3>1, <3>2 DEF now
  <2>3. \A t \in closed : t.close \in 0..now /\ CandleOf(t.close) <= candle /\ CandleOf(t.close) \in Int
    <3>1. \A c \in Nat : CandleOf(c) \in Int
      BY TimeAssumption DEF CandleOf
    <3> QED BY <1>2, <2>2, <3>1 DEF Closings
  <2>4. Closings'
    BY <1>1, <2>1, <2>2, <2>3 DEF Closings, CandleOf
  <2>5. Locked'
    BY <1>1, <1>2 DEF Locked
  <2>6. Coarse'
    BY <1>1, <1>2, <2>1 DEF Coarse, CandleOf
  <2>7. \A p \in Pairs : ~Spent(p)'
    BY <1>1, <2>1, <2>2, <2>3 DEF Spent, CandleOf
  <2>8. phase' \notin RowPhase /\ phase' \notin {"manage", "enter"}
    BY <2>1 DEF RowPhase
  <2>9. Fine'
    BY <1>1, <1>2, <2>7, <2>8 DEF Fine, OneAtATime, Ids
  <2> QED BY <2>4, <2>5, <2>6, <2>9 DEF Waiting
<1> QED BY <1>3, <1>4

LEMMA InitWaiting == Init => Waiting
<1> SUFFICES ASSUME Init PROVE Waiting
  OBVIOUS
<1>1. closed = {} /\ locks = {} /\ step = 0 /\ Ids = {} /\ phase = "candle"
  BY DEF Init, Ids
<1> QED BY <1>1 DEF Waiting, Closings, Locked, Ending, Coarse, Fine, Spent, RowPhase

LEMMA StepWaiting == Inv /\ Waiting /\ [Next]_vars => Waiting'
<1> SUFFICES ASSUME Inv, Waiting, [Next]_vars PROVE Waiting'
  OBVIOUS
<1>1. CASE NextCandle
  BY <1>1, CandleKeeps
<1>2. CASE NextStep
  BY <1>2, DetailKeeps
<1>3. CASE NextPair
  BY <1>3, PairKeeps
<1>4. CASE ManageOpenOrders
  BY <1>4, ManageKeeps
<1>5. CASE EnterTrade
  BY <1>5, EnterKeeps
<1>6. CASE FillEntry
  BY <1>6, FillKeeps
<1>7. CASE Adjust
  BY <1>7, AdjustKeeps
<1>8. CASE CheckExit
  BY <1>8, CheckKeeps
<1>9. CASE Sell
  BY <1>9, SellKeeps
<1>10. CASE Again
  BY <1>10, AgainKeeps
<1>11. CASE HandleLeftOpen
  <2>1. phase' \in {"left", "force", "done"}
    BY <1>11 DEF HandleLeftOpen
  <2> QED BY <2>1 DEF Waiting, Live
<1>12. CASE ForceExit
  <2>1. phase' = "left"
    BY <1>12 DEF ForceExit
  <2> QED BY <2>1 DEF Waiting, Live
<1>13. CASE vars' = vars
  <2>1. setup' = setup /\ candle' = candle /\ step' = step /\ phase' = phase /\ closed' = closed
        /\ locks' = locks /\ open' = open /\ seen' = seen /\ now_row' = now_row /\ todo' = todo
    BY <1>13 DEF vars
  <2>2. now' = now /\ Ids' = Ids
    BY <2>1 DEF now, Ids
  <2>3. \A p : OfPair(p)' = OfPair(p) /\ (Spent(p)' <=> Spent(p))
    BY <2>1, <2>2 DEF OfPair, Spent, CandleOf
  <2>4. (Closings' <=> Closings) /\ (Locked' <=> Locked) /\ (Coarse' <=> Coarse)
    BY <2>1, <2>2 DEF Closings, Locked, Coarse, CandleOf
  <2>5. ~Spent(now_row.pair)' <=> ~Spent(now_row.pair)
    BY <2>1 DEF Spent, CandleOf
  <2>6. OfPair(now_row.pair)' = OfPair(now_row.pair)
    BY <2>1, <2>2 DEF OfPair
  <2>7. Fine' <=> Fine
    BY <2>1, <2>2, <2>3, <2>5, <2>6 DEF Fine, OneAtATime
  <2> QED BY <2>1, <2>4, <2>7 DEF Waiting, Live
<1> QED BY <1>1, <1>2, <1>3, <1>4, <1>5, <1>6, <1>7, <1>8, <1>9, <1>10, <1>11, <1>12, <1>13 DEF Next

\* Only the entry of a trade counts one.
LEMMA EntersOnly ==
  ASSUME [Next]_vars, count' # count
  PROVE  EnterTrade
BY DEF Next, vars, NextCandle, NextStep, NextPair, ManageOpenOrders, FillEntry, Adjust, CheckExit, Sell, Again,
       HandleLeftOpen, ForceExit, Trading

LEMMA EntersLater ==
  ASSUME Inv, Waiting, [Next]_vars, NEW p \in Pairs, NEW t \in closed, Enters(p), t.pair = p
  PROVE  /\ t.opened < t.close /\ (setup.detail => OneAtATime) => CandleOf(now) # CandleOf(t.close) \/ now = t.close
         /\ \A i \in DOMAIN setup.protections :
              Pauses(setup.protections[i]) => now >= NextDate(t.close + setup.protections[i].duration)
<1>1. Typed /\ count \in Nat
  BY DEF Inv, Trades
<1>2. EnterTrade /\ count' # count /\ now_row.pair = p
  <2>1. count' > count /\ now_row.pair = p
    BY DEF Enters
  <2>2. count' # count
    BY <1>1, <2>1
  <2> QED BY <2>1, <2>2, EntersOnly
<1>3. CanEnter /\ phase = "enter"
  BY <1>2, EnterIs DEF EnterTrade
<1>4. Closings /\ Locked /\ Coarse /\ Fine
  BY <1>3 DEF Waiting, Live
<1>5. now \in Nat /\ CandleOf(now) = candle /\ (step = 0 => candle * Timeframe = now)
  BY <1>1, NowIs
<1>6. ASSUME t.opened < t.close, setup.detail => OneAtATime, CandleOf(t.close) = candle
      PROVE  now = t.close
  <2>1. CASE setup.detail
    <3>1. ~Spent(p)
      BY <1>2, <1>3, <1>4, <1>6, <2>1 DEF Fine
    <3> QED BY <1>6, <3>1 DEF Spent
  <2>2. CASE ~setup.detail
    BY <1>4, <1>5, <1>6, <2>2 DEF Coarse
  <2> QED BY <2>1, <2>2
<1>7. ASSUME NEW i \in DOMAIN setup.protections, Pauses(setup.protections[i])
      PROVE  now >= NextDate(t.close + setup.protections[i].duration)
  <2> DEFINE u == NextDate(t.close + setup.protections[i].duration)
  <2>1. u \in Int
    <3>1. setup.protections \in Seq(ProtectionType)
      BY <1>1, BacktestAssumption DEF Typed, SetupType, ProtectionType
    <3>2. setup.protections[i] \in ProtectionType
      BY <3>1, ElementOfSeq, LenProperties
    <3>3. t.close + setup.protections[i].duration \in Int
      BY <1>4, <1>5, <3>2 DEF Closings, ProtectionType
    <3> QED BY <3>3, NextIs
  <2>2. Covers(locks, p, u)
    BY <1>4, <1>7 DEF Locked
  <2> HIDE DEF u
  <2>3. PICK l \in locks : l.pair \in {p, "*"} /\ l.side = "*" /\ l.until >= u /\ l.until \in Int
    BY <1>4, <2>2 DEF Covers, Locked, Ending
  <2>4. ~(l.until > now)
    BY <1>2, <1>3, <2>3 DEF CanEnter, IsPairLocked, IsGlobalLock, PairLocks, SideMatches
  <2>5. now >= u
    BY <1>5, <2>1, <2>3, <2>4
  <2> QED BY <2>5 DEF u
<1> QED BY <1>5, <1>6, <1>7

\* The pause of a cooldown holds, and a pair whose trade was closed is not entered again
\* in that candle, but at the very detail candle.
THEOREM AlwaysWaits == Spec => ReentryWaits
<1> DEFINE I == Inv /\ Waiting
           Step == \A p \in Pairs, t \in closed : Enters(p) /\ t.pair = p =>
             /\ t.opened < t.close /\ (setup.detail => OneAtATime) => CandleOf(now) # CandleOf(t.close) \/ now = t.close
             /\ \A i \in DOMAIN setup.protections :
                  Pauses(setup.protections[i]) => now >= NextDate(t.close + setup.protections[i].duration)
<1>1. Init => I
  BY InitInv, InitWaiting
<1>2. I /\ [Next]_vars => I'
  BY StepInv, StepWaiting
<1>3. I /\ [Next]_vars => Step
  BY EntersLater
<1>4. I /\ [Next]_vars => [Step]_vars
  BY <1>3
<1> QED BY <1>1, <1>2, <1>4, PTL DEF Spec, ReentryWaits
=============================================================================
