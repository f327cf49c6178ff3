------------------------- MODULE PaperEngine_proofs -------------------------
(***************************************************************************)
(* The account of the paper trader, for every number of engines,           *)
(* positions, candles and faults: EquityAgrees, HoldsOpenRow, BookedOnce,  *)
(* TotalsAgree and StopsAtLoss.                                            *)
(***************************************************************************)
EXTENDS PaperEngine, FiniteSetTheorems, SequenceTheorems, WellFoundedInduction, TLAPS
-----------------------------------------------------------------------------
(* Sums over finite sets.  SumFunctionOnSet is the sum, whatever the order in *)
(* which it takes the elements: the module Folds computes it with a recursive *)
(* function; its existence, and each fact about it, is shown by a smallest    *)
(* counterexample.                                                            *)

Less == {ss \in Nat \X Nat : ss[1] < ss[2]}

LEMMA LessWellFounded == IsWellFoundedOn(Less, Nat)
  BY NatLessThanWellFounded, Zenon DEF OpToRel, Less

LEMMA LeastExists ==
  ASSUME NEW S \in SUBSET Nat, S # {}
  PROVE  \E x \in S : \A y \in S : x <= y
<1>1. PICK x \in S : \A y \in S : ~(<<y, x>> \in Less)
  BY LessWellFounded, WFMin
<1>2. ASSUME NEW y \in S
      PROVE  x <= y
  <2>1. ~(<<y, x>> \in Less) /\ x \in Nat /\ y \in Nat
    BY <1>1, <1>2
  <2>2. ASSUME NEW a \in Nat, NEW b \in Nat, ~(<<a, b>> \in Less)
        PROVE  b <= a
    BY <2>2 DEF Less
  <2> QED BY <2>1, <2>2
<1> QED BY <1>2

LEMMA GreatestExists ==
  ASSUME NEW n \in Nat, NEW S \in SUBSET (0..n), S # {}
  PROVE  \E x \in S : \A y \in S : y <= x
<1> DEFINE T == {n - x : x \in S}
<1>1. T \in SUBSET Nat /\ T # {}
  <2>1. \A x \in S : n - x \in Nat
    OBVIOUS
  <2> QED BY <2>1
<1>2. PICK m \in T : \A y \in T : m <= y
  BY <1>1, LeastExists
<1>3. PICK x \in S : m = n - x
  BY <1>2
<1>4. ASSUME NEW y \in S
      PROVE  y <= x
  <2>1. m <= n - y
    BY <1>2, <1>4
  <2> QED BY <1>3, <1>4, <2>1
<1> QED BY <1>3, <1>4

\* What holds of the empty set, and of a set with one element more, holds of every
\* finite set.
LEMMA SetInduction ==
  ASSUME NEW U, IsFiniteSet(U), NEW P, {} \in P,
         \A s \in SUBSET U : \A x \in U \ s : s \in P => s \cup {x} \in P
  PROVE  U \in P
<1> DEFINE Bad == {n \in Nat : \E s \in SUBSET U : Cardinality(s) = n /\ s \notin P}
<1>1. \A s \in SUBSET U : IsFiniteSet(s) /\ Cardinality(s) \in Nat
  BY FS_Subset, FS_CardinalityType
<1>2. CASE Bad = {}
  BY <1>1, <1>2
<1>3. CASE Bad # {}
  <2>1. PICK n \in Bad : \A m \in Bad : n <= m
    BY <1>3, LeastExists
  <2>2. PICK s \in SUBSET U : Cardinality(s) = n /\ s \notin P
    BY <2>1
  <2>3. PICK x \in s : TRUE
    BY <2>2
  <2>4. Cardinality(s \ {x}) = n - 1 /\ n - 1 \in Nat /\ n \in Nat
    <3>1. IsFiniteSet(s) /\ s \ {x} \in SUBSET U
      BY <1>1
    <3>2. Cardinality(s \ {x}) = Cardinality(s) - 1
      BY <2>3, <3>1, FS_RemoveElement
    <3>3. Cardinality(s \ {x}) \in Nat /\ n \in Nat
      BY <1>1, <2>1, <3>1
    <3> QED BY <2>2, <3>2, <3>3
  <2>5. n - 1 \notin Bad
    BY <2>1, <2>4
  <2>6. s \ {x} \in P
    BY <2>4, <2>5
  <2>7. s = (s \ {x}) \cup {x} /\ x \in U \ (s \ {x}) /\ s \ {x} \in SUBSET U
    BY <2>3
  <2>8. (s \ {x}) \cup {x} \in P
    BY <2>6, <2>7
  <2> QED BY <2>2, <2>7, <2>8
<1> QED BY <1>2, <1>3

\* One step of the recursion, and a function that is computed by it.
FirstOf(s) == CHOOSE x \in s : TRUE

FoldStep(f, s, g) == IF s = {} THEN 0 ELSE f[FirstOf(s)] + g[s \ {FirstOf(s)}]

Computes(f, S, g) == g = [s \in SUBSET S |-> FoldStep(f, s, g)]

LEMMA SumIsChosen ==
  ASSUME NEW f, NEW S
  PROVE  SumFunctionOnSet(f, S) = (CHOOSE g : Computes(f, S, g))[S]
  BY DEF SumFunctionOnSet, FoldFunctionOnSet, MapThenFoldSet, Computes, FoldStep, FirstOf

LEMMA FirstIs ==
  ASSUME NEW s, s # {}
  PROVE  FirstOf(s) \in s
  BY DEF FirstOf

LEMMA FoldExists ==
  ASSUME NEW S, IsFiniteSet(S), NEW f, \A x \in S : f[x] \in Int
  PROVE  \E g : Computes(f, S, g) /\ \A s \in SUBSET S : g[s] \in Int
<1> DEFINE D(n) == {s \in SUBSET S : Cardinality(s) < n}
           Good(n) == \E g \in [D(n) -> Int] : \A s \in D(n) : g[s] = FoldStep(f, s, g)
           Bad == {n \in Nat : ~Good(n)}
<1>1. \A s \in SUBSET S : IsFiniteSet(s) /\ Cardinality(s) \in Nat /\ Cardinality(s) <= Cardinality(S)
  BY FS_Subset, FS_CardinalityType
<1>2. Good(0)
  <2>1. D(0) = {}
    BY <1>1
  <2>2. [s \in D(0) |-> 0] \in [D(0) -> Int]
    OBVIOUS
  <2> QED BY <2>1, <2>2
<1>3. ASSUME NEW n \in Nat, Good(n) PROVE Good(n + 1)
  <2>1. PICK g \in [D(n) -> Int] : \A s \in D(n) : g[s] = FoldStep(f, s, g)
    BY <1>3
  <2> DEFINE h == [s \in D(n + 1) |-> FoldStep(f, s, g)]
  <2>2. ASSUME NEW s \in D(n + 1), s # {}
        PROVE  /\ FirstOf(s) \in s /\ FirstOf(s) \in S
               /\ s \ {FirstOf(s)} \in D(n) /\ s \ {FirstOf(s)} \in D(n + 1)
    <3>1. FirstOf(s) \in s /\ s \in SUBSET S /\ Cardinality(s) < n + 1
      BY <2>2, FirstIs
    <3>2. Cardinality(s \ {FirstOf(s)}) = Cardinality(s) - 1
      BY <1>1, <3>1, FS_RemoveElement
    <3>3. Cardinality(s) \in Nat
      BY <1>1, <3>1
    <3> QED BY <3>1, <3>2, <3>3
  <2>3. ASSUME NEW s \in D(n + 1) PROVE FoldStep(f, s, g) \in Int
    <3>1. CASE s = {}
      BY <3>1 DEF FoldStep
    <3>2. CASE s # {}
      BY <2>2, <3>2 DEF FoldStep
    <3> QED BY <3>1, <3>2
  <2>4. h \in [D(n + 1) -> Int]
    BY <2>3
  <2>5. ASSUME NEW s \in D(n + 1) PROVE h[s] = FoldStep(f, s, h)
    <3>1. CASE s = {}
      BY <3>1 DEF FoldStep
    <3>2. CASE s # {}
      <4>1. h[s \ {FirstOf(s)}] = FoldStep(f, s \ {FirstOf(s)}, g)
        BY <2>2, <3>2
      <4>2. g[s \ {FirstOf(s)}] = FoldStep(f, s \ {FirstOf(s)}, g)
        BY <2>1, <2>2, <3>2
      <4>3. h[s] = f[FirstOf(s)] + g[s \ {FirstOf(s)}]
        BY <3>2 DEF FoldStep
      <4> QED BY <3>2, <4>1, <4>2, <4>3 DEF FoldStep
    <3> QED BY <3>1, <3>2
  <2> HIDE DEF h, D
  <2> QED BY <2>4, <2>5
<1> HIDE DEF Good
<1>4. \A n \in Nat : Good(n)
  <2> SUFFICES ASSUME Bad # {} PROVE FALSE
    OBVIOUS
  <2>1. PICK n \in Bad : \A m \in Bad : n <= m
    BY LeastExists
  <2>2. n # 0 /\ n \in Nat
    BY <1>2, <2>1
  <2>3. n - 1 \in Nat /\ n - 1 \notin Bad /\ n = (n - 1) + 1
    BY <2>1, <2>2
  <2>4. Good(n - 1)
    BY <2>3
  <2>5. Good(n)
    BY <1>3, <2>3, <2>4
  <2> QED BY <2>1, <2>5
<1> DEFINE c == Cardinality(S) + 1
<1>5. c \in Nat
  BY FS_CardinalityType
<1>6. D(c) = SUBSET S
  BY <1>1, <1>5
<1>7. PICK g \in [D(c) -> Int] : \A s \in D(c) : g[s] = FoldStep(f, s, g)
  BY <1>4, <1>5 DEF Good
<1>8. Computes(f, S, g)
  BY <1>6, <1>7 DEF Computes
<1> QED BY <1>6, <1>7, <1>8

\* A sum is found by the recursion over any larger finite set.
LEMMA SumIsFold ==
  ASSUME NEW S, IsFiniteSet(S), NEW f, \A x \in S : f[x] \in Int,
         NEW g, Computes(f, S, g), NEW T \in SUBSET S
  PROVE  SumFunctionOnSet(f, T) = g[T]
<1> DEFINE h == CHOOSE k : Computes(f, T, k)
           P == {s \in SUBSET T : h[s] = g[s]}
<1>1. IsFiniteSet(T)
  BY FS_Subset
<1>2. Computes(f, T, h)
  <2>1. \E k : Computes(f, T, k)
    BY <1>1, FoldExists
  <2> QED BY <2>1
<1>3. \A s \in SUBSET T : h[s] = FoldStep(f, s, h)
  BY <1>2 DEF Computes
<1>4. \A s \in SUBSET T : g[s] = FoldStep(f, s, g)
  BY DEF Computes
<1> HIDE DEF h
<1> DEFINE Bad == {n \in Nat : \E s \in SUBSET T : Cardinality(s) = n /\ h[s] # g[s]}
<1>5. Bad = {}
  <2> SUFFICES ASSUME Bad # {} PROVE FALSE
    OBVIOUS
  <2>1. PICK n \in Bad : \A m \in Bad : n <= m
    BY LeastExists
  <2>2. PICK s \in SUBSET T : Cardinality(s) = n /\ h[s] # g[s]
    BY <2>1
  <2>3. s # {}
    BY <1>3, <1>4, <2>2 DEF FoldStep
  <2> DEFINE x == FirstOf(s)
  <2>4. x \in s
    BY <2>3, FirstIs
  <2>5. s \ {x} \in SUBSET T /\ IsFiniteSet(s) /\ n \in Nat
    BY <1>1, <2>1, <2>2, FS_Subset
  <2>6. Cardinality(s \ {x}) = n - 1 /\ Cardinality(s \ {x}) \in Nat
    BY <2>2, <2>4, <2>5, FS_RemoveElement, FS_CardinalityType
  <2>7. n - 1 \notin Bad /\ n - 1 \in Nat
    BY <2>1, <2>5, <2>6
  <2>8. h[s \ {x}] = g[s \ {x}]
    BY <2>5, <2>6, <2>7
  <2> QED BY <1>3, <1>4, <2>2, <2>3, <2>8 DEF FoldStep
<1>6. h[T] = g[T]
  <2>1. Cardinality(T) \in Nat /\ Cardinality(T) \notin Bad
    BY <1>1, <1>5, FS_CardinalityType
  <2> QED BY <2>1
<1> QED BY <1>6, SumIsChosen DEF h

LEMMA SumOfNothing ==
  ASSUME NEW f
  PROVE  SumFunctionOnSet(f, {}) = 0
<1> DEFINE none == {}
<1>1. IsFiniteSet(none) /\ \A x \in none : f[x] \in Int
  BY FS_EmptySet
<1>2. PICK g : Computes(f, none, g)
  BY <1>1, FoldExists
<1>3. g[none] = 0
  BY <1>2 DEF Computes, FoldStep
<1> QED BY <1>1, <1>2, <1>3, SumIsFold

\* Any element can be taken out of a sum.
LEMMA SumOfRest ==
  ASSUME NEW S, IsFiniteSet(S), NEW f, \A x \in S : f[x] \in Int, NEW x \in S
  PROVE  /\ SumFunctionOnSet(f, S) = f[x] + SumFunctionOnSet(f, S \ {x})
         /\ SumFunctionOnSet(f, S) \in Int /\ SumFunctionOnSet(f, S \ {x}) \in Int
<1>1. PICK g : Computes(f, S, g) /\ \A s \in SUBSET S : g[s] \in Int
  BY FoldExists
<1>2. \A s \in SUBSET S : g[s] = FoldStep(f, s, g)
  BY <1>1 DEF Computes
<1> DEFINE Wrong(s) == \E y \in s : g[s] # f[y] + g[s \ {y}]
           Bad == {n \in Nat : \E s \in SUBSET S : Cardinality(s) = n /\ Wrong(s)}
<1>3. Bad = {}
  <2> SUFFICES ASSUME Bad # {} PROVE FALSE
    OBVIOUS
  <2>1. PICK n \in Bad : \A m \in Bad : n <= m
    BY LeastExists
  <2>2. PICK s \in SUBSET S : Cardinality(s) = n /\ Wrong(s)
    BY <2>1
  <2>3. PICK y \in s : g[s] # f[y] + g[s \ {y}]
    BY <2>2
  <2> DEFINE z == FirstOf(s)
             r == s \ {z}
             t == s \ {y}
  <2>4. z \in s
    BY <2>3, FirstIs
  <2>5. g[s] = f[z] + g[r]
    BY <1>2, <2>3 DEF FoldStep
  <2>6. y # z
    BY <2>3, <2>5
  <2>7. IsFiniteSet(s) /\ n \in Nat /\ r \in SUBSET S /\ t \in SUBSET S
    BY <2>1, <2>2, FS_Subset
  <2>8. /\ Cardinality(r) = n - 1 /\ Cardinality(t) = n - 1 /\ Cardinality(r) \in Nat
    BY <2>2, <2>3, <2>4, <2>7, FS_RemoveElement, FS_CardinalityType
  <2>9. n - 1 \notin Bad /\ n - 1 \in Nat
    BY <2>1, <2>7, <2>8
  <2>10. ~Wrong(r) /\ ~Wrong(t)
    BY <2>7, <2>8, <2>9
  <2>11. g[r] = f[y] + g[r \ {y}]
    BY <2>3, <2>6, <2>10
  <2>12. g[t] = f[z] + g[t \ {z}]
    BY <2>4, <2>6, <2>10
  <2>13. r \ {y} = t \ {z} /\ r \ {y} \in SUBSET S
    BY <2>7
  <2>14. f[y] \in Int /\ f[z] \in Int /\ g[r \ {y}] \in Int
    BY <1>1, <2>3, <2>4, <2>13
  <2> HIDE DEF r, t, z
  <2>15. \A a, b, c \in Int : a + (b + c) = b + (a + c)
    OBVIOUS
  <2>16. g[s] = f[z] + (f[y] + g[r \ {y}]) /\ f[y] + g[t] = f[y] + (f[z] + g[r \ {y}])
    BY <2>5, <2>11, <2>12, <2>13, Zenon
  <2>17. g[s] = f[y] + g[t]
    BY <2>14, <2>15, <2>16, Zenon
  <2> QED BY <2>3, <2>17 DEF t
<1>4. ~Wrong(S)
  <2>1. Cardinality(S) \in Nat /\ Cardinality(S) \notin Bad
    BY <1>3, FS_CardinalityType
  <2> QED BY <2>1
<1>5. S \in SUBSET S /\ S \ {x} \in SUBSET S
  OBVIOUS
<1>6. SumFunctionOnSet(f, S) = g[S] /\ SumFunctionOnSet(f, S \ {x}) = g[S \ {x}]
  BY <1>1, <1>5, SumIsFold
<1> QED BY <1>1, <1>4, <1>5, <1>6

LEMMA SumInt ==
  ASSUME NEW S, IsFiniteSet(S), NEW f, \A x \in S : f[x] \in Int
  PROVE  SumFunctionOnSet(f, S) \in Int
<1>1. CASE S = {}
  BY <1>1, SumOfNothing
<1>2. CASE S # {}
  <2>1. PICK x \in S : TRUE
    BY <1>2
  <2> QED BY <2>1, SumOfRest
<1> QED BY <1>1, <1>2

\* An element more adds its value.
LEMMA SumOfMore ==
  ASSUME NEW S, IsFiniteSet(S), NEW f, NEW x, x \notin S, \A y \in S \cup {x} : f[y] \in Int
  PROVE  SumFunctionOnSet(f, S \cup {x}) = SumFunctionOnSet(f, S) + f[x]
<1> DEFINE T == S \cup {x}
<1>1. IsFiniteSet(T) /\ T \ {x} = S /\ x \in T /\ f[x] \in Int
  BY FS_AddElement
<1>2. \A y \in T : f[y] \in Int
  OBVIOUS
<1> HIDE DEF T
<1>3. SumFunctionOnSet(f, T) = f[x] + SumFunctionOnSet(f, S) /\ SumFunctionOnSet(f, S) \in Int
  BY <1>1, <1>2, SumOfRest
<1> QED BY <1>1, <1>3 DEF T

\* The sum depends on the values in the set only.
LEMMA SumSame ==
  ASSUME NEW S, IsFiniteSet(S), NEW f, NEW g, \A x \in S : f[x] \in Int /\ f[x] = g[x]
  PROVE  SumFunctionOnSet(f, S) = SumFunctionOnSet(g, S)
<1> DEFINE P == {s \in SUBSET S : SumFunctionOnSet(f, s) = SumFunctionOnSet(g, s)}
<1>1. {} \in P
  BY SumOfNothing
<1>2. ASSUME NEW s \in SUBSET S, NEW x \in S \ s, s \in P PROVE s \cup {x} \in P
  <2>1. IsFiniteSet(s) /\ x \notin s /\ s \cup {x} \in SUBSET S
    BY FS_Subset
  <2>2. /\ \A y \in s \cup {x} : f[y] \in Int
        /\ \A y \in s \cup {x} : g[y] \in Int
    OBVIOUS
  <2>3. SumFunctionOnSet(f, s \cup {x}) = SumFunctionOnSet(f, s) + f[x]
    BY <2>1, <2>2, SumOfMore
  <2>4. SumFunctionOnSet(g, s \cup {x}) = SumFunctionOnSet(g, s) + g[x]
    BY SMTT(60), <2>1, <2>2, SumOfMore
  <2> QED BY <1>2, <2>1, <2>3, <2>4
<1> HIDE DEF P
<1>3. S \in P
  BY <1>1, <1>2, SetInduction
<1> QED BY <1>3 DEF P

\* One value changes, and the sum by as much.
LEMMA SumChanges ==
  ASSUME NEW S, IsFiniteSet(S), NEW f, NEW g, NEW x \in S, NEW n \in Int,
         \A y \in S : f[y] \in Int /\ g[y] \in Int, \A y \in S : y # x => g[y] = f[y]
  PROVE  g[x] = f[x] + n => SumFunctionOnSet(g, S) = SumFunctionOnSet(f, S) + n
<1> DEFINE r == S \ {x}
<1>1. IsFiniteSet(r) /\ \A y \in r : f[y] \in Int /\ f[y] = g[y]
  BY FS_Subset
<1>2. SumFunctionOnSet(f, r) = SumFunctionOnSet(g, r)
  BY <1>1, SumSame
<1>3. SumFunctionOnSet(f, S) = f[x] + SumFunctionOnSet(f, r) /\ SumFunctionOnSet(f, r) \in Int
  BY SumOfRest
<1>4. SumFunctionOnSet(g, S) = g[x] + SumFunctionOnSet(g, r)
  BY SumOfRest
<1>5. f[x] \in Int /\ g[x] \in Int
  OBVIOUS
<1> HIDE DEF r
<1> QED BY <1>2, <1>3, <1>4, <1>5

\* A value of 0 adds nothing.
LEMMA SumOfZero ==
  ASSUME NEW S, IsFiniteSet(S), NEW f, NEW x, x \notin S, \A y \in S : f[y] \in Int, f[x] = 0
  PROVE  SumFunctionOnSet(f, S \cup {x}) = SumFunctionOnSet(f, S)
<1>1. \A y \in S \cup {x} : f[y] \in Int
  OBVIOUS
<1>2. SumFunctionOnSet(f, S \cup {x}) = SumFunctionOnSet(f, S) + f[x]
  BY <1>1, SumOfMore
<1>3. SumFunctionOnSet(f, S) \in Int
  BY SumInt
<1> QED BY <1>2, <1>3
-----------------------------------------------------------------------------
(* What every step keeps *)

Fields == {"at", "position", "bars", "last", "isNew", "pnl", "day", "dayPnl", "dayTrades", "total",
           "balance", "equity", "state", "gate", "own", "booked", "missed", "dayMissed", "tradesMissed"}
Statuses == {"none", "open", "closed"}

\* An engine's place says whether it has a position, and without one its equity is its balance.
MemoryOf(r) ==
  /\ DOMAIN r = Fields
  /\ r.at \in {"off", "idle", "bars", "day", "features", "trade", "close", "account", "open"}
  /\ r.position \in Positions \cup {0} /\ r.pnl \in Int
  /\ r.at \in {"off", "day", "open"} => r.position = 0
  /\ r.at \in {"bars", "trade", "close", "account"} => r.position # 0
  /\ r.position = 0 => r.equity = r.balance

TablesTyped ==
  /\ DOMAIN positions = Positions
  /\ \A p \in Positions : DOMAIN positions[p] = {"status", "day", "bars"} /\ positions[p].status \in Statuses
  /\ trades \in [Positions -> Seq(Int)]

Memory ==
  /\ DOMAIN engine = Engines /\ \A e \in Engines : MemoryOf(engine[e])
  /\ TablesTyped

\* A step of one engine.
Goes(e, place, position) ==
  /\ DOMAIN engine' = Engines /\ \A f \in Engines : f # e => engine'[f] = engine[f]
  /\ MemoryOf(engine'[e])
  /\ engine'[e].at = place /\ engine'[e].position = position

StatusKept == \A p \in Positions : positions'[p].status = positions[p].status
-----------------------------------------------------------------------------
(* The newest open position *)

LEMMA NewestOpen ==
  /\ OpenPosition \in Positions \cup {0}
  /\ OpenRows = {} => OpenPosition = 0
  /\ OpenRows # {} => OpenPosition \in OpenRows
  /\ \A p \in Positions : OpenRows = {p} => OpenPosition = p
<1>1. OpenRows \in SUBSET (0..MaxPositions) /\ OpenRows \subseteq Positions /\ MaxPositions \in Nat
  BY PaperAssumption DEF OpenRows, Positions
<1>2. OpenRows # {} => Max(OpenRows) \in OpenRows
  <2>1. ASSUME OpenRows # {}
        PROVE  \E x \in OpenRows : \A y \in OpenRows : x >= y
    <3>1. PICK x \in OpenRows : \A y \in OpenRows : y <= x
      BY <1>1, <2>1, GreatestExists
    <3> QED BY <1>1, <3>1 DEF Positions
  <2> QED BY <2>1 DEF Max
<1> QED BY <1>1, <1>2 DEF OpenPosition
-----------------------------------------------------------------------------
(* The steps of an engine *)

LEMMA SetGoes ==
  ASSUME Memory, NEW e \in Engines, NEW r, MemoryOf(r), Set(e, r)
  PROVE  Goes(e, r.at, r.position)
  BY DEF Set, Goes, Memory

LEMMA RecoveredMemory ==
  ASSUME NEW d
  PROVE  MemoryOf(Recovered(d)) /\ Recovered(d).at = "idle" /\ Recovered(d).position = OpenPosition
<1>1. LET r == Recovered(d)
      IN  /\ DOMAIN r = Fields /\ r.at = "idle" /\ r.position = OpenPosition /\ r.pnl = 0
          /\ r.equity = r.balance
  BY DEF Fields, Recovered, Off
<1> QED BY <1>1, NewestOpen DEF MemoryOf

LEMMA StartGoes ==
  ASSUME Memory, NEW e \in Engines, Start(e)
  PROVE  Goes(e, "idle", OpenPosition) /\ engine[e].at = "off" /\ UNCHANGED <<positions, trades>>
<1>1. PICK d \in {Day(bar), Day(bar + 1)} : Set(e, Recovered(d))
  BY DEF Start
<1> QED BY <1>1, RecoveredMemory, SetGoes DEF Start, Tables

LEMMA TopUpGoes ==
  ASSUME Memory, NEW e \in Engines, TopUp(e)
  PROVE  Goes(e, engine[e].at, engine[e].position) /\ UNCHANGED <<positions, trades>>
<1>1. MemoryOf(Added(engine[e])) /\ Added(engine[e]).at = engine[e].at
      /\ Added(engine[e]).position = engine[e].position
  BY DEF Added, Memory, MemoryOf, Fields
<1> QED BY <1>1, SetGoes DEF TopUp, Tables

LEMMA TickGoes ==
  ASSUME Memory, NEW e \in Engines, Tick(e)
  PROVE  /\ engine[e].at = "idle" /\ UNCHANGED <<positions, trades>>
         /\ \E place \in {"features", "bars", "day"} : Goes(e, place, engine[e].position)
<1> DEFINE isNew == engine[e].last # 0
           r == [engine[e] EXCEPT !.last = bar, !.isNew = isNew,
                                  !.gate = IF isNew THEN OnBar(@) ELSE @]
           at(n, place) == n.at = place /\ MemoryOf(n) /\ n.position = engine[e].position
<1>1. /\ DOMAIN r = Fields /\ r.position = engine[e].position /\ r.pnl = engine[e].pnl
      /\ r.equity = engine[e].equity /\ r.balance = engine[e].balance
      /\ MemoryOf(engine[e])
  BY DEF Memory, MemoryOf, Fields
<1>2. \/ Set(e, [r EXCEPT !.at = "features"])
      \/ r.position # 0 /\ Set(e, [r EXCEPT !.at = "bars", !.bars = @ + 1])
      \/ r.position = 0 /\ Set(e, [r EXCEPT !.at = "day"])
  BY DEF Tick, WantsReset
<1> HIDE DEF r
<1>3. /\ at([r EXCEPT !.at = "features"], "features")
      /\ r.position # 0 => at([r EXCEPT !.at = "bars", !.bars = @ + 1], "bars")
      /\ r.position = 0 => at([r EXCEPT !.at = "day"], "day")
  BY <1>1 DEF MemoryOf, Fields
<1>4. engine[e].at = "idle" /\ UNCHANGED <<positions, trades>>
  BY DEF Tick, Tables
<1>5. \E place \in {"features", "bars", "day"} : Goes(e, place, engine[e].position)
  BY <1>2, <1>3, SetGoes
<1> QED BY <1>4, <1>5

LEMMA UpdateBarsGoes ==
  ASSUME Memory, NEW e \in Engines, UpdateBars(e)
  PROVE  /\ engine[e].at = "bars" /\ trades' = trades /\ StatusKept
         /\ Goes(e, "features", engine[e].position)
<1> DEFINE r == [engine[e] EXCEPT !.at = "features"]
<1>1. MemoryOf(r) /\ r.at = "features" /\ r.position = engine[e].position
  BY DEF Memory, MemoryOf, Fields
<1>2. Set(e, r) /\ engine[e].at = "bars" /\ trades' = trades
  BY DEF UpdateBars
<1> HIDE DEF r
<1>3. StatusKept
  BY DEF UpdateBars, StatusKept, Memory, TablesTyped
<1> QED BY <1>1, <1>2, <1>3, SetGoes

LEMMA ResetDayGoes ==
  ASSUME Memory, NEW e \in Engines, ResetDay(e)
  PROVE  /\ engine[e].at = "day" /\ UNCHANGED <<positions, trades>>
         /\ Goes(e, "features", engine[e].position)
<1> DEFINE d == Day(engine[e].last)
           r == [engine[e] EXCEPT !.at = "features", !.day = d, !.state = "running",
                                  !.dayPnl = DailyPnl(d), !.dayTrades = DailyTrades(d),
                                  !.gate = ResetGate(@, DailyPnl(d)), !.own = TRUE, !.booked = FALSE,
                                  !.dayMissed = 0, !.tradesMissed = 0]
<1>1. /\ DOMAIN r = Fields /\ r.at = "features" /\ r.position = engine[e].position
      /\ r.pnl = engine[e].pnl /\ r.equity = engine[e].equity /\ r.balance = engine[e].balance
  BY DEF Memory, MemoryOf, Fields
<1>2. Set(e, r) /\ engine[e].at = "day" /\ UNCHANGED <<positions, trades>>
  BY DEF ResetDay, Tables
<1> HIDE DEF r
<1>3. MemoryOf(r)
  BY <1>1 DEF Memory, MemoryOf
<1> QED BY <1>1, <1>2, <1>3, SetGoes

LEMMA DecideGoes ==
  ASSUME Memory, NEW e \in Engines, Decide(e)
  PROVE  /\ engine[e].at = "features" /\ UNCHANGED <<positions, trades>>
         /\ \E place \in {"idle", "trade", "open"} : Goes(e, place, engine[e].position)
<1>1. /\ engine[e].at = "features" /\ UNCHANGED <<positions, trades>>
      /\ \/ Set(e, [engine[e] EXCEPT !.at = "idle"])
         \/ engine[e].position # 0 /\ \E n \in Pnls : Set(e, [engine[e] EXCEPT !.at = "trade", !.pnl = n])
         \/ engine[e].position = 0 /\ Set(e, [engine[e] EXCEPT !.at = "open"])
  BY DEF Decide, Tables
<1>2. CASE Set(e, [engine[e] EXCEPT !.at = "idle"])
  <2> DEFINE r == [engine[e] EXCEPT !.at = "idle"]
  <2>1. MemoryOf(r) /\ r.at = "idle" /\ r.position = engine[e].position
    BY DEF Memory, MemoryOf, Fields
  <2> HIDE DEF r
  <2> QED BY <1>1, <1>2, <2>1, SetGoes DEF r
<1>3. ASSUME engine[e].position # 0, NEW n \in Pnls, Set(e, [engine[e] EXCEPT !.at = "trade", !.pnl = n])
      PROVE  Goes(e, "trade", engine[e].position)
  <2> DEFINE r == [engine[e] EXCEPT !.at = "trade", !.pnl = n]
  <2>1. MemoryOf(r) /\ r.at = "trade" /\ r.position = engine[e].position
    BY <1>3, PaperAssumption DEF Memory, MemoryOf, Fields
  <2>2. Set(e, r)
    BY <1>3
  <2> HIDE DEF r
  <2> QED BY <2>1, <2>2, SetGoes
<1>4. CASE engine[e].position = 0 /\ Set(e, [engine[e] EXCEPT !.at = "open"])
  <2> DEFINE r == [engine[e] EXCEPT !.at = "open"]
  <2>1. MemoryOf(r) /\ r.at = "open" /\ r.position = engine[e].position
    BY <1>4 DEF Memory, MemoryOf, Fields
  <2>2. Set(e, r)
    BY <1>4
  <2> HIDE DEF r
  <2> QED BY <1>1, <2>1, <2>2, SetGoes
<1> QED BY <1>1, <1>2, <1>3, <1>4

LEMMA OpenGoes ==
  ASSUME Memory, NEW e \in Engines, OpenPositionRow(e)
  PROVE  /\ engine[e].at = "open" /\ trades' = trades
         /\ \E p \in Positions :
              /\ Goes(e, "idle", p) /\ positions[p].status = "none" /\ positions'[p].status = "open"
              /\ \A q \in Positions : q # p => positions'[q].status = positions[q].status
<1>1. PICK p \in Positions :
        /\ positions[p].status = "none"
        /\ LET d == Day(engine[e].last) IN
           /\ positions' = [positions EXCEPT ![p] = [status |-> "open", day |-> d, bars |-> 0]]
           /\ Set(e, [engine[e] EXCEPT !.at = "idle", !.position = p, !.bars = 0,
                                       !.balance = @ - Fee, !.gate = OnTradePlaced(@)])
  BY DEF OpenPositionRow
<1> DEFINE r == [engine[e] EXCEPT !.at = "idle", !.position = p, !.bars = 0,
                                  !.balance = @ - Fee, !.gate = OnTradePlaced(@)]
<1>2. DOMAIN r = Fields /\ r.at = "idle" /\ r.position = p /\ r.pnl = engine[e].pnl
  BY DEF Memory, MemoryOf, Fields
<1>3. Set(e, r)
  BY <1>1
<1> HIDE DEF r
<1>4. p # 0
  BY PaperAssumption DEF Positions
<1>5. MemoryOf(r)
  BY <1>2, <1>4 DEF Memory, MemoryOf
<1>6. Goes(e, "idle", p)
  BY <1>2, <1>3, <1>5, SetGoes
<1>7. /\ positions'[p].status = "open"
      /\ \A q \in Positions : q # p => positions'[q].status = positions[q].status
  BY <1>1 DEF Memory, TablesTyped
<1>8. engine[e].at = "open" /\ trades' = trades
  BY DEF OpenPositionRow
<1> QED BY <1>1, <1>6, <1>7, <1>8

LEMMA InsertGoes ==
  ASSUME Memory, NEW e \in Engines, InsertTrade(e)
  PROVE  /\ engine[e].at = "trade" /\ positions' = positions
         /\ trades' = [trades EXCEPT ![engine[e].position] = Append(@, engine[e].pnl)]
         /\ Goes(e, "close", engine[e].position)
<1> DEFINE r == [engine[e] EXCEPT !.at = "close"]
<1>1. Set(e, r) /\ engine[e].at = "trade" /\ positions' = positions
      /\ trades' = [trades EXCEPT ![engine[e].position] = Append(@, engine[e].pnl)]
  BY DEF InsertTrade
<1>2. MemoryOf(r) /\ r.at = "close" /\ r.position = engine[e].position
  BY <1>1 DEF Memory, MemoryOf, Fields
<1> HIDE DEF r
<1> QED BY <1>1, <1>2, SetGoes

LEMMA CloseGoes ==
  ASSUME Memory, NEW e \in Engines, ClosePosition(e)
  PROVE  /\ engine[e].at = "close" /\ trades' = trades
         /\ positions'[engine[e].position].status = "closed"
         /\ \A q \in Positions : q # engine[e].position => positions'[q].status = positions[q].status
         /\ Goes(e, "account", engine[e].position)
<1> DEFINE n == engine[e].pnl
           r == [engine[e] EXCEPT !.at = "account", !.balance = @ + n + Quantity,
                                  !.total = @ + n, !.dayPnl = @ + n, !.dayTrades = @ + 1]
<1>1. /\ Set(e, r) /\ engine[e].at = "close" /\ trades' = trades
      /\ positions' = [positions EXCEPT ![engine[e].position].status = "closed"]
  BY DEF ClosePosition
<1>2. engine[e].position # 0 /\ engine[e].position \in Positions /\ MemoryOf(engine[e])
  BY <1>1 DEF Memory, MemoryOf
<1>3. /\ DOMAIN r = Fields /\ r.at = "account" /\ r.position = engine[e].position
      /\ r.pnl = engine[e].pnl
  BY <1>2 DEF MemoryOf, Fields
<1> HIDE DEF r
<1>4. MemoryOf(r)
  BY <1>2, <1>3 DEF MemoryOf
<1>5. /\ positions'[engine[e].position].status = "closed"
      /\ \A q \in Positions : q # engine[e].position => positions'[q].status = positions[q].status
  BY <1>1, <1>2 DEF Memory, TablesTyped
<1> QED BY <1>1, <1>3, <1>4, <1>5, SetGoes

LEMMA AccountGoes ==
  ASSUME Memory, NEW e \in Engines, Account(e)
  PROVE  /\ engine[e].at = "account" /\ UNCHANGED <<positions, trades>> /\ Goes(e, "idle", 0)
<1> DEFINE r == [Flat(engine[e]) EXCEPT !.at = "idle", !.booked = TRUE,
                                        !.gate = OnTradeClosed(UpdatePnl(@, engine[e].pnl))]
           s == [r EXCEPT !.state = "stopped"]
<1>1. /\ engine[e].at = "account" /\ UNCHANGED <<positions, trades>>
      /\ Set(e, s) \/ Set(e, r)
  BY DEF Account, Tables
<1>2. /\ DOMAIN r = Fields /\ r.at = "idle" /\ r.position = 0 /\ r.pnl = engine[e].pnl
      /\ r.equity = r.balance
  BY DEF Flat, Memory, MemoryOf, Fields
<1> HIDE DEF r
<1>3. MemoryOf(r) /\ MemoryOf(s) /\ s.at = "idle" /\ s.position = 0
  BY <1>2 DEF Memory, MemoryOf, Fields
<1> HIDE DEF s
<1> QED BY <1>1, <1>2, <1>3, SetGoes

LEMMA FailGoes ==
  ASSUME Memory, NEW e \in Engines, Fail(e)
  PROVE  /\ engine[e].at \notin {"off", "idle", "account"} /\ UNCHANGED <<positions, trades>>
         /\ Goes(e, "idle", engine[e].position)
<1> DEFINE q == IF engine[e].at = "close" THEN Uncounted(engine[e]) ELSE engine[e]
           r == [q EXCEPT !.at = "idle"]
<1>1. /\ Set(e, r) /\ engine[e].at \notin {"off", "idle", "account"} /\ UNCHANGED <<positions, trades>>
  BY DEF Fail, Tables
<1>2. /\ DOMAIN r = Fields /\ r.at = "idle" /\ r.position = engine[e].position
      /\ r.pnl = engine[e].pnl /\ r.equity = engine[e].equity /\ r.balance = engine[e].balance
  BY DEF Uncounted, Memory, MemoryOf, Fields
<1> HIDE DEF r
<1>3. MemoryOf(r)
  BY <1>2 DEF Memory, MemoryOf
<1> QED BY <1>1, <1>2, <1>3, SetGoes

LEMMA CrashGoes ==
  ASSUME Crash
  PROVE  /\ DOMAIN engine' = Engines /\ UNCHANGED <<positions, trades, beside, shared>>
         /\ \A e \in Engines : MemoryOf(engine'[e]) /\ engine'[e].at = "off" /\ engine'[e].position = 0
<1>1. MemoryOf(Off) /\ Off.at = "off" /\ Off.position = 0
  BY DEF Off, MemoryOf, Fields
<1> QED BY <1>1 DEF Crash, Tables
-----------------------------------------------------------------------------
(* The memory *)

LEMMA InitMemory ==
  ASSUME Init
  PROVE  Memory
<1>1. MemoryOf(Off)
  BY DEF Off, MemoryOf, Fields
<1>2. <<>> \in Seq(Int)
  BY EmptySeq
<1>3. TablesTyped
  BY <1>2 DEF Init, TablesTyped, NoPosition, Statuses
<1> QED BY <1>1, <1>3 DEF Init, Memory

LEMMA StatusTyped ==
  ASSUME Memory, NEW e \in Engines, UpdateBars(e) \/ OpenPositionRow(e) \/ ClosePosition(e)
  PROVE  TablesTyped'
<1>1. /\ engine[e].at # "open" => engine[e].position \in Positions
      /\ trades' \in [Positions -> Seq(Int)]
  BY DEF Memory, MemoryOf, TablesTyped, UpdateBars, OpenPositionRow, ClosePosition
<1>2. CASE UpdateBars(e)
  <2> DEFINE row(p) == positions'[p]
  <2>1. engine[e].position \in Positions /\ DOMAIN positions' = Positions
    BY <1>1, <1>2 DEF UpdateBars, Memory, TablesTyped
  <2>2. row(engine[e].position) = [positions[engine[e].position] EXCEPT !.bars = engine[e].bars]
    BY <2>1, <1>2 DEF UpdateBars, Memory, TablesTyped
  <2>3. \A p \in Positions : p # engine[e].position => row(p) = positions[p]
    BY <1>2 DEF UpdateBars, Memory, TablesTyped
  <2> HIDE DEF row
  <2>4. \A p \in Positions : DOMAIN row(p) = {"status", "day", "bars"} /\ row(p).status \in Statuses
    BY <2>1, <2>2, <2>3 DEF Memory, TablesTyped
  <2> QED BY <1>1, <2>1, <2>4 DEF TablesTyped, row
<1>3. CASE OpenPositionRow(e)
  <2> DEFINE row == [status |-> "open", day |-> Day(engine[e].last), bars |-> 0]
  <2>1. PICK p \in Positions : positions' = [positions EXCEPT ![p] = row]
    BY <1>3 DEF OpenPositionRow
  <2>2. DOMAIN row = {"status", "day", "bars"} /\ row.status \in Statuses
    BY DEF Statuses
  <2> HIDE DEF row
  <2> QED BY <1>1, <2>1, <2>2 DEF Memory, TablesTyped
<1>4. CASE ClosePosition(e)
  BY <1>1, <1>4 DEF ClosePosition, Memory, TablesTyped, Statuses
<1> QED BY <1>2, <1>3, <1>4

LEMMA TradesTyped ==
  ASSUME Memory, NEW e \in Engines, InsertTrade(e)
  PROVE  TablesTyped'
<1>1. engine[e].position \in Positions /\ engine[e].pnl \in Int
  BY DEF InsertTrade, Memory, MemoryOf
<1>2. Append(trades[engine[e].position], engine[e].pnl) \in Seq(Int)
  BY <1>1, AppendProperties DEF Memory, TablesTyped
<1> QED BY <1>1, <1>2 DEF InsertTrade, Memory, TablesTyped

LEMMA StepMemory ==
  ASSUME Memory, [Next]_vars
  PROVE  Memory'
<1>1. ASSUME UNCHANGED <<positions, trades>>
      PROVE  TablesTyped'
  BY <1>1 DEF Memory, TablesTyped
<1>2. ASSUME NEW e \in Engines, NEW place, NEW position, Goes(e, place, position), TablesTyped'
      PROVE  Memory'
  BY <1>2 DEF Goes, Memory
<1>3. CASE UNCHANGED vars
  BY <1>1, <1>3 DEF Memory, MemoryOf, vars
<1>4. CASE NewCandle
  BY <1>1, <1>4 DEF Memory, MemoryOf, NewCandle
<1>5. CASE Crash
  BY <1>1, <1>5, CrashGoes DEF Memory
<1>6. ASSUME NEW e \in Engines, Start(e) \/ TopUp(e) \/ Fail(e)
      PROVE  Memory'
  BY <1>1, <1>2, <1>6, StartGoes, TopUpGoes, FailGoes
<1>7. ASSUME NEW e \in Engines, Tick(e) \/ ResetDay(e) \/ Decide(e) \/ Account(e)
      PROVE  Memory'
  BY <1>1, <1>2, <1>7, TickGoes, ResetDayGoes, DecideGoes, AccountGoes
<1>8. ASSUME NEW e \in Engines, UpdateBars(e) \/ OpenPositionRow(e) \/ ClosePosition(e)
      PROVE  Memory'
  BY <1>2, <1>8, StatusTyped, UpdateBarsGoes, OpenGoes, CloseGoes
<1>9. ASSUME NEW e \in Engines, InsertTrade(e)
      PROVE  Memory'
  BY <1>2, <1>9, TradesTyped, InsertGoes
<1> QED BY <1>3, <1>4, <1>5, <1>6, <1>7, <1>8, <1>9 DEF Next, Work
-----------------------------------------------------------------------------
(* The open row *)

HeldAt(place, position) == IF position = 0 \/ place = "account" THEN {} ELSE {position}

\* What a lone engine holds is the open row; a dead one leaves one open row at most.
Lone ==
  ~beside =>
    /\ \A e, f \in Running : e = f
    /\ \A e \in Running : OpenRows = HeldAt(engine[e].at, engine[e].position)
    /\ Running = {} => OpenRows = {} \/ \E p \in Positions : OpenRows = {p}

LEMMA SameRows ==
  ASSUME StatusKept \/ UNCHANGED positions
  PROVE  OpenRows' = OpenRows
  BY DEF StatusKept, OpenRows

LEMMA Runs ==
  ASSUME Memory, NEW e \in Engines, NEW place, NEW position, Goes(e, place, position)
  PROVE  /\ place # "off" => Running' = Running \cup {e}
         /\ engine[e].at = place => Running' = Running
  BY DEF Goes, Memory, Running

LEMMA LoneStep ==
  ASSUME Memory, Lone, NEW e \in Running, NEW place, NEW position, Goes(e, place, position),
         place # "off", UNCHANGED beside, ~beside => OpenRows' = HeldAt(place, position)
  PROVE  Lone'
<1>1. e \in Engines /\ Running' = Running
  BY Runs DEF Running
<1> QED BY <1>1 DEF Lone, Goes

LEMMA StepLone ==
  ASSUME Memory, Lone, [Next]_vars
  PROVE  Lone'
<1> USE DEF HeldAt
<1>1. CASE UNCHANGED vars
  BY <1>1 DEF vars, Lone, Running, OpenRows
<1>2. CASE NewCandle
  BY <1>2 DEF NewCandle, Ghosts, Lone, Running, OpenRows
<1>3. CASE Crash
  <2>1. Running' = {} /\ OpenRows' = OpenRows /\ beside' = beside
    BY <1>3, CrashGoes, SameRows DEF Running
  <2>2. PICK e \in Running : TRUE
    BY <1>3 DEF Crash
  <2>3. ~beside => OpenRows = {} \/ \E p \in Positions : OpenRows = {p}
    BY <2>2 DEF Lone, Memory, MemoryOf, Running
  <2> QED BY <2>1, <2>3 DEF Lone
<1>4. ASSUME NEW e \in Engines, Start(e)
      PROVE  Lone'
  <2>1. Goes(e, "idle", OpenPosition) /\ engine[e].at = "off" /\ OpenRows' = OpenRows
    BY <1>4, StartGoes, SameRows
  <2>2. Running' = Running \cup {e}
    BY <2>1, Runs
  <2>3. ASSUME ~beside'
        PROVE  Running = {} /\ ~beside
    BY <1>4, <2>3 DEF Start
  <2>4. ASSUME ~beside'
        PROVE  OpenRows = HeldAt("idle", OpenPosition)
    <3>1. OpenRows = {} \/ \E p \in Positions : OpenRows = {p}
      BY <2>3, <2>4 DEF Lone
    <3>2. ASSUME NEW p \in Positions, OpenRows = {p}
          PROVE  OpenPosition = p /\ p # 0
      BY <3>2, NewestOpen DEF Positions
    <3> QED BY <3>1, <3>2, NewestOpen
  <2> QED BY <2>1, <2>2, <2>3, <2>4 DEF Lone, Goes
<1>5. ASSUME NEW e \in Engines, TopUp(e)
      PROVE  Lone'
  <2>1. Goes(e, engine[e].at, engine[e].position) /\ OpenRows' = OpenRows /\ beside' = beside
    BY <1>5, TopUpGoes, SameRows DEF TopUp, Ghosts
  <2>2. Running' = Running
    BY <2>1, Runs
  <2> QED BY <2>1, <2>2 DEF Lone, Goes, Running
<1>6. ASSUME NEW e \in Engines, NEW place, Goes(e, place, engine[e].position), OpenRows' = OpenRows,
             UNCHANGED beside, engine[e].at \notin {"off", "account"}, place \notin {"off", "account"}
      PROVE  Lone'
  <2>1. e \in Running
    BY <1>6 DEF Running
  <2>2. ~beside => OpenRows' = HeldAt(place, engine[e].position)
    BY <1>6, <2>1 DEF Lone
  <2> QED BY <1>6, <2>1, <2>2, LoneStep
<1>7. ASSUME NEW e \in Engines, Tick(e) \/ UpdateBars(e) \/ ResetDay(e)
      PROVE  Lone'
  <2>1. UNCHANGED beside
    BY <1>7 DEF Tick, UpdateBars, ResetDay, Ghosts
  <2>2. CASE Tick(e)
    <3>1. /\ engine[e].at = "idle" /\ OpenRows' = OpenRows
          /\ \E place \in {"features", "bars", "day"} : Goes(e, place, engine[e].position)
      BY <2>2, TickGoes, SameRows
    <3> QED BY <1>6, <2>1, <3>1
  <2>3. CASE UpdateBars(e)
    <3>1. engine[e].at = "bars" /\ OpenRows' = OpenRows /\ Goes(e, "features", engine[e].position)
      BY <2>3, UpdateBarsGoes, SameRows
    <3> QED BY <1>6, <2>1, <3>1
  <2>4. CASE ResetDay(e)
    <3>1. engine[e].at = "day" /\ OpenRows' = OpenRows /\ Goes(e, "features", engine[e].position)
      BY <2>4, ResetDayGoes, SameRows
    <3> QED BY <1>6, <2>1, <3>1
  <2> QED BY <1>7, <2>2, <2>3, <2>4
<1>8. ASSUME NEW e \in Engines, Decide(e) \/ InsertTrade(e) \/ Fail(e)
      PROVE  Lone'
  <2>1. UNCHANGED beside
    BY <1>8 DEF Decide, InsertTrade, Fail, Ghosts
  <2>2. CASE Decide(e)
    <3>1. /\ engine[e].at = "features" /\ OpenRows' = OpenRows
          /\ \E place \in {"idle", "trade", "open"} : Goes(e, place, engine[e].position)
      BY <2>2, DecideGoes, SameRows
    <3> QED BY <1>6, <2>1, <3>1
  <2>3. CASE InsertTrade(e)
    <3>1. engine[e].at = "trade" /\ OpenRows' = OpenRows /\ Goes(e, "close", engine[e].position)
      BY <2>3, InsertGoes, SameRows
    <3> QED BY <1>6, <2>1, <3>1
  <2>4. CASE Fail(e)
    <3>1. /\ engine[e].at \notin {"off", "idle", "account"} /\ OpenRows' = OpenRows
          /\ Goes(e, "idle", engine[e].position)
      BY <2>4, FailGoes, SameRows
    <3> QED BY <1>6, <2>1, <3>1
  <2> QED BY <1>8, <2>2, <2>3, <2>4
<1>9. ASSUME NEW e \in Engines, OpenPositionRow(e)
      PROVE  Lone'
  <2>1. PICK p \in Positions :
          /\ Goes(e, "idle", p) /\ positions[p].status = "none" /\ positions'[p].status = "open"
          /\ \A q \in Positions : q # p => positions'[q].status = positions[q].status
    BY <1>9, OpenGoes
  <2>2. OpenRows' = OpenRows \cup {p}
    BY <2>1 DEF OpenRows
  <2>3. engine[e].at = "open" /\ engine[e].position = 0 /\ beside' = beside
    BY <1>9 DEF OpenPositionRow, Ghosts, Memory, MemoryOf
  <2>4. e \in Running /\ p # 0
    BY <2>3, PaperAssumption DEF Running, Positions
  <2>5. ~beside => OpenRows' = HeldAt("idle", p)
    BY <2>2, <2>3, <2>4 DEF Lone
  <2> QED BY <2>1, <2>3, <2>4, <2>5, LoneStep
<1>10. ASSUME NEW e \in Engines, ClosePosition(e)
       PROVE  Lone'
  <2>1. /\ engine[e].at = "close" /\ positions'[engine[e].position].status = "closed"
        /\ \A q \in Positions : q # engine[e].position => positions'[q].status = positions[q].status
        /\ Goes(e, "account", engine[e].position) /\ beside' = beside
    BY <1>10, CloseGoes DEF ClosePosition, Ghosts
  <2>2. OpenRows' = OpenRows \ {engine[e].position}
    BY <2>1 DEF OpenRows
  <2>3. e \in Running
    BY <2>1 DEF Running
  <2>4. ~beside => OpenRows' = HeldAt("account", engine[e].position)
    BY <2>1, <2>2, <2>3 DEF Lone
  <2> QED BY <2>1, <2>3, <2>4, LoneStep
<1>11. ASSUME NEW e \in Engines, Account(e)
       PROVE  Lone'
  <2>1. engine[e].at = "account" /\ Goes(e, "idle", 0) /\ OpenRows' = OpenRows /\ beside' = beside
    BY <1>11, AccountGoes, SameRows DEF Account, Ghosts
  <2>2. e \in Running
    BY <2>1 DEF Running
  <2>3. ~beside => OpenRows' = HeldAt("idle", 0)
    BY <2>1, <2>2 DEF Lone
  <2> QED BY <2>1, <2>2, <2>3, LoneStep
<1> QED BY <1>1, <1>2, <1>3, <1>4, <1>5, <1>7, <1>8, <1>9, <1>10, <1>11 DEF Next, Work
-----------------------------------------------------------------------------
(* The trades *)

\* Who holds a position that is neither torn nor shared has not booked it, is
\* about to close its row, or has just closed it.
Tidy(p) ==
  /\ positions[p].status = "none" => trades[p] = <<>> /\ \A e \in Engines : engine[e].position # p
  /\ \A e \in Engines :
       engine[e].position = p /\ engine[e].at = "account" => positions[p].status = "closed"
  /\ p \notin torn \cup shared =>
       /\ \A e, f \in Engines : engine[e].position = p /\ engine[f].position = p => e = f
       /\ Len(trades[p]) <= 1
       /\ trades[p] # <<>> => \/ positions[p].status = "closed"
                             \/ \E e \in Engines : engine[e].position = p /\ engine[e].at = "close"
       /\ \A e \in Engines : engine[e].position = p =>
            /\ engine[e].at \notin {"close", "account"} => trades[p] = <<>>
            /\ positions[p].status = "closed" => engine[e].at = "account"

Booking == \A p \in Positions : Tidy(p)

\* A step that neither books, opens nor closes, or the failure of a step.
LEMMA WalkBooks ==
  ASSUME Memory, Booking, NEW e \in Engines, NEW place, Goes(e, place, engine[e].position),
         engine[e].at # "account", place \notin {"close", "account"}, StatusKept, trades' = trades,
         torn \subseteq torn', shared' = shared,
         engine[e].at = "close" => engine[e].position \in torn'
  PROVE  Booking'
<1> SUFFICES ASSUME NEW p \in Positions
             PROVE  Tidy(p)'
  BY DEF Booking
<1> QED BY DEF Booking, Tidy, Goes, StatusKept

LEMMA CrashBooks ==
  ASSUME Memory, Booking, Crash
  PROVE  Booking'
<1> SUFFICES ASSUME NEW p \in Positions
             PROVE  Tidy(p)'
  BY DEF Booking
<1>1. /\ UNCHANGED <<positions, trades, shared>> /\ torn' = torn \cup HalfClosed
      /\ \A e \in Engines : engine'[e].position = 0
  BY CrashGoes DEF Crash
<1>2. p # 0
  BY PaperAssumption DEF Positions
<1> QED BY <1>1, <1>2 DEF Booking, Tidy, HalfClosed

\* A second engine shares the position it recovers; the first of a process finds
\* it in nobody's hands.
LEMMA StartBooks ==
  ASSUME Memory, Booking, NEW e \in Engines, Start(e)
  PROVE  Booking'
<1> SUFFICES ASSUME NEW p \in Positions
             PROVE  Tidy(p)'
  BY DEF Booking
<1>1. /\ Goes(e, "idle", OpenPosition) /\ engine[e].at = "off"
      /\ UNCHANGED <<positions, trades, torn>> /\ shared \subseteq shared'
      /\ Running # {} /\ OpenPosition # 0 => OpenPosition \in shared'
  BY StartGoes DEF Start
<1>2. p # 0 /\ engine[e].position = 0
  BY <1>1, PaperAssumption DEF Positions, Memory, MemoryOf
<1>3. CASE OpenPosition # p
  BY <1>1, <1>2, <1>3 DEF Booking, Tidy, Goes
<1>4. CASE OpenPosition = p
  <2>1. positions[p].status = "open"
    BY <1>2, <1>4, NewestOpen DEF OpenRows
  <2>2. Running = {} => \A f \in Engines : engine[f].position # p
    BY <1>2 DEF Running, Memory, MemoryOf
  <2>3. p \notin shared' => Running = {}
    BY <1>1, <1>2, <1>4
  <2> QED BY <1>1, <1>2, <1>4, <2>1, <2>2, <2>3 DEF Booking, Tidy, Goes
<1> QED BY <1>3, <1>4

LEMMA TopUpBooks ==
  ASSUME Memory, Booking, NEW e \in Engines, TopUp(e)
  PROVE  Booking'
<1> SUFFICES ASSUME NEW p \in Positions
             PROVE  Tidy(p)'
  BY DEF Booking
<1>1. Goes(e, engine[e].at, engine[e].position) /\ UNCHANGED <<positions, trades, torn, shared>>
  BY TopUpGoes DEF TopUp, Ghosts
<1> QED BY <1>1 DEF Booking, Tidy, Goes

LEMMA OpenBooks ==
  ASSUME Memory, Booking, NEW e \in Engines, OpenPositionRow(e)
  PROVE  Booking'
<1> SUFFICES ASSUME NEW p \in Positions
             PROVE  Tidy(p)'
  BY DEF Booking
<1>1. PICK q \in Positions :
        /\ Goes(e, "idle", q) /\ positions[q].status = "none" /\ positions'[q].status = "open"
        /\ \A x \in Positions : x # q => positions'[x].status = positions[x].status
  BY OpenGoes
<1>2. engine[e].position = 0 /\ UNCHANGED <<trades, torn, shared>> /\ p # 0
  BY PaperAssumption DEF OpenPositionRow, Ghosts, Memory, MemoryOf, Positions
<1> QED BY <1>1, <1>2 DEF Booking, Tidy, Goes

LEMMA InsertBooks ==
  ASSUME Memory, Booking, NEW e \in Engines, InsertTrade(e)
  PROVE  Booking'
<1> SUFFICES ASSUME NEW p \in Positions
             PROVE  Tidy(p)'
  BY DEF Booking
<1> DEFINE q == engine[e].position
<1>1. /\ engine[e].at = "trade" /\ positions' = positions /\ Goes(e, "close", q)
      /\ trades' = [trades EXCEPT ![q] = Append(@, engine[e].pnl)] /\ UNCHANGED <<torn, shared>>
  BY InsertGoes DEF InsertTrade, Ghosts
<1>2. q \in Positions /\ engine[e].pnl \in Int /\ trades \in [Positions -> Seq(Int)]
  BY <1>1 DEF Memory, MemoryOf, TablesTyped
<1>3. CASE p # q
  <2>1. trades'[p] = trades[p]
    BY <1>1, <1>2, <1>3
  <2>2. /\ positions' = positions /\ torn' = torn /\ shared' = shared /\ Goes(e, "close", q)
    BY <1>1
  <2> QED BY <1>3, <2>1, <2>2 DEF Booking, Tidy, Goes
<1>4. CASE p = q
  <2>1. trades'[p] = Append(trades[p], engine[e].pnl)
    BY <1>1, <1>2, <1>4
  <2>2. trades[p] = <<>> => Len(trades'[p]) = 1
    BY <2>1, <1>2, <1>4
  <2>3. p \notin torn \cup shared => trades[p] = <<>> /\ positions[p].status # "closed"
    BY <1>1, <1>4 DEF Booking, Tidy
  <2>4. positions[p].status # "none"
    BY <1>4 DEF Booking, Tidy
  <2> QED BY <1>1, <1>4, <2>2, <2>3, <2>4 DEF Booking, Tidy, Goes
<1> QED BY <1>3, <1>4

LEMMA CloseBooks ==
  ASSUME Memory, Booking, NEW e \in Engines, ClosePosition(e)
  PROVE  Booking'
<1> SUFFICES ASSUME NEW p \in Positions
             PROVE  Tidy(p)'
  BY DEF Booking
<1>1. /\ engine[e].at = "close" /\ positions'[engine[e].position].status = "closed"
      /\ \A q \in Positions : q # engine[e].position => positions'[q].status = positions[q].status
      /\ Goes(e, "account", engine[e].position) /\ UNCHANGED <<trades, torn, shared>>
  BY CloseGoes DEF ClosePosition, Ghosts
<1> QED BY <1>1 DEF Booking, Tidy, Goes

LEMMA AccountBooks ==
  ASSUME Memory, Booking, NEW e \in Engines, Account(e)
  PROVE  Booking'
<1> SUFFICES ASSUME NEW p \in Positions
             PROVE  Tidy(p)'
  BY DEF Booking
<1>1. /\ engine[e].at = "account" /\ Goes(e, "idle", 0)
      /\ UNCHANGED <<positions, trades, torn, shared>> /\ p # 0
  <2>1. UNCHANGED <<torn, shared>>
    BY DEF Account, Ghosts
  <2>2. p # 0
    BY PaperAssumption DEF Positions
  <2> QED BY <2>1, <2>2, AccountGoes
<1>2. trades[p] # <<>> /\ p \notin torn \cup shared =>
        \/ positions[p].status = "closed"
        \/ \E f \in Engines : f # e /\ engine[f].position = p /\ engine[f].at = "close"
  BY <1>1 DEF Booking, Tidy
<1>3. \A f \in Engines : engine'[f].position = p => f # e /\ engine'[f] = engine[f]
  BY <1>1 DEF Goes
<1>4. trades'[p] # <<>> /\ p \notin torn' \cup shared' =>
        \/ positions'[p].status = "closed"
        \/ \E f \in Engines : engine'[f].position = p /\ engine'[f].at = "close"
  BY <1>1, <1>2 DEF Goes
<1>5. /\ positions' = positions /\ trades' = trades /\ torn' = torn /\ shared' = shared /\ Tidy(p)
  BY <1>1 DEF Booking
<1> QED BY <1>3, <1>4, <1>5 DEF Tidy

LEMMA StepBooking ==
  ASSUME Memory, Booking, [Next]_vars
  PROVE  Booking'
<1>1. CASE UNCHANGED vars
  BY <1>1 DEF vars, Booking, Tidy
<1>2. CASE NewCandle
  BY <1>2 DEF NewCandle, Ghosts, Booking, Tidy
<1>3. ASSUME NEW e \in Engines, Tick(e)
      PROVE  Booking'
  <2>1. StatusKept /\ UNCHANGED <<torn, shared>>
    BY <1>3 DEF Tick, Tables, Ghosts, StatusKept
  <2> QED BY <1>3, <2>1, TickGoes, WalkBooks
<1>4. ASSUME NEW e \in Engines, UpdateBars(e)
      PROVE  Booking'
  <2>1. UNCHANGED <<torn, shared>>
    BY <1>4 DEF UpdateBars, Ghosts
  <2> QED BY <1>4, <2>1, UpdateBarsGoes, WalkBooks
<1>5. ASSUME NEW e \in Engines, ResetDay(e)
      PROVE  Booking'
  <2>1. StatusKept /\ UNCHANGED <<torn, shared>>
    BY <1>5 DEF ResetDay, Tables, Ghosts, StatusKept
  <2> QED BY <1>5, <2>1, ResetDayGoes, WalkBooks
<1>6. ASSUME NEW e \in Engines, Decide(e)
      PROVE  Booking'
  <2>1. StatusKept /\ UNCHANGED <<torn, shared>>
    BY <1>6 DEF Decide, Tables, Ghosts, StatusKept
  <2> QED BY <1>6, <2>1, DecideGoes, WalkBooks
<1>7. ASSUME NEW e \in Engines, Fail(e)
      PROVE  Booking'
  <2>1. /\ StatusKept /\ torn \subseteq torn' /\ shared' = shared
        /\ engine[e].at = "close" => engine[e].position \in torn'
    BY <1>7 DEF Fail, Tables, StatusKept
  <2> QED BY <1>7, <2>1, FailGoes, WalkBooks
<1>8. ASSUME NEW e \in Engines, Start(e) \/ TopUp(e)
      PROVE  Booking'
  BY <1>8, StartBooks, TopUpBooks
<1>9. ASSUME NEW e \in Engines, OpenPositionRow(e) \/ InsertTrade(e) \/ ClosePosition(e) \/ Account(e)
      PROVE  Booking'
  BY <1>9, OpenBooks, InsertBooks, CloseBooks, AccountBooks
<1> QED BY <1>1, <1>2, <1>3, <1>4, <1>5, <1>6, <1>7, <1>8, <1>9, CrashBooks DEF Next, Work
-----------------------------------------------------------------------------
(* Sums over the tables *)

LEMMA ProfitOfMore ==
  ASSUME NEW s \in Seq(Int), NEW n \in Int
  PROVE  /\ SumFunction(s) \in Int
         /\ SumFunction(Append(s, n)) = SumFunction(s) + n
<1> DEFINE t == Append(s, n)
           D == 1..Len(s)
<1>1. /\ Len(s) \in Nat /\ DOMAIN s = D /\ DOMAIN t = D \cup {Len(s) + 1} /\ Len(s) + 1 \notin D
      /\ t[Len(s) + 1] = n /\ \A i \in D : s[i] \in Int /\ s[i] = t[i]
  BY AppendProperties
<1>2. IsFiniteSet(D)
  BY <1>1, FS_Interval
<1>3. \A i \in D \cup {Len(s) + 1} : t[i] \in Int
  BY <1>1
<1> HIDE DEF t, D
<1>4. SumFunctionOnSet(s, D) \in Int /\ SumFunctionOnSet(s, D) = SumFunctionOnSet(t, D)
  BY <1>1, <1>2, SumInt, SumSame
<1>5. SumFunctionOnSet(t, D \cup {Len(s) + 1}) = SumFunctionOnSet(t, D) + t[Len(s) + 1]
  BY <1>1, <1>2, <1>3, SumOfMore
<1> QED BY <1>1, <1>4, <1>5 DEF SumFunction, t

LEMMA PositionsFinite ==
  /\ IsFiniteSet(Positions) /\ \A d : IsFiniteSet(EnteredOn(d)) /\ EnteredOn(d) \subseteq Positions
<1>1. IsFiniteSet(Positions) /\ \A d : EnteredOn(d) \subseteq Positions
  BY PaperAssumption, FS_Interval DEF Positions, EnteredOn
<1> QED BY <1>1, FS_Subset

LEMMA TablesSummed ==
  ASSUME TablesTyped
  PROVE  /\ \A p \in Positions : Profit(p) \in Int /\ Len(trades[p]) \in Int
         /\ TotalPnl \in Int
         /\ \A d : DailyPnl(d) \in Int /\ DailyTrades(d) \in Int
<1> DEFINE f == [p \in Positions |-> Profit(p)]
           g == [p \in Positions |-> Len(trades[p])]
<1>1. ASSUME NEW p \in Positions
      PROVE  Profit(p) \in Int /\ Len(trades[p]) \in Int
  <2>1. trades[p] \in Seq(Int)
    BY DEF TablesTyped
  <2>2. SumFunction(trades[p]) \in Int
    BY <2>1, ProfitOfMore
  <2> QED BY <2>1, <2>2 DEF Profit
<1>2. \A p \in Positions : f[p] \in Int /\ g[p] \in Int
  BY <1>1
<1> HIDE DEF f, g
<1>3. ASSUME NEW d PROVE DailyPnl(d) \in Int /\ DailyTrades(d) \in Int
  <2>1. SumFunctionOnSet(f, EnteredOn(d)) \in Int /\ SumFunctionOnSet(g, EnteredOn(d)) \in Int
    BY <1>2, PositionsFinite, SumInt
  <2> QED BY <2>1 DEF DailyPnl, DailyTrades, Booked, f, g
<1>4. SumFunctionOnSet(f, Positions) \in Int
  BY <1>2, PositionsFinite, SumInt
<1> QED BY <1>1, <1>3, <1>4 DEF TotalPnl, Booked, f

LEMMA SameSums ==
  ASSUME UNCHANGED trades, \A d : EnteredOn(d)' = EnteredOn(d)
  PROVE  /\ TotalPnl' = TotalPnl
         /\ \A d : DailyPnl(d)' = DailyPnl(d) /\ DailyTrades(d)' = DailyTrades(d)
  BY DEF TotalPnl, DailyPnl, DailyTrades, Booked, Profit

\* A trade is booked for a position.
LEMMA BookedSums ==
  ASSUME TablesTyped, NEW p \in Positions, NEW n \in Int, positions' = positions,
         trades' = [trades EXCEPT ![p] = Append(@, n)]
  PROVE  /\ TotalPnl' = TotalPnl + n
         /\ \A d : p \in EnteredOn(d) => /\ DailyPnl(d)' = DailyPnl(d) + n
                                         /\ DailyTrades(d)' = DailyTrades(d) + 1
<1>a. PICK f, g, ff, gg :
        /\ f = [q \in Positions |-> Profit(q)]
        /\ g = [q \in Positions |-> Len(trades[q])]
        /\ ff = [q \in Positions |-> SumFunction([trades EXCEPT ![p] = Append(@, n)][q])]
        /\ gg = [q \in Positions |-> Len([trades EXCEPT ![p] = Append(@, n)][q])]
  OBVIOUS
<1>1. /\ \A q \in Positions : f[q] \in Int /\ g[q] \in Int
      /\ \A q \in Positions : q # p => ff[q] = f[q] /\ gg[q] = g[q]
  BY <1>a, TablesSummed DEF TablesTyped, Profit
<1>2. trades[p] \in Seq(Int) /\ [trades EXCEPT ![p] = Append(@, n)][p] = Append(trades[p], n)
  BY DEF TablesTyped
<1>3. ff[p] = f[p] + n /\ gg[p] = g[p] + 1
  BY <1>a, <1>2, ProfitOfMore DEF Profit
<1>4. /\ [q \in Positions |-> Profit(q)]' = ff
      /\ [q \in Positions |-> Len(trades[q])]' = gg
  BY <1>a DEF Profit
<1>5. \A q \in Positions : ff[q] \in Int /\ gg[q] \in Int
  BY <1>1, <1>3
<1>6. ASSUME NEW S \in SUBSET Positions, p \in S
      PROVE  /\ SumFunctionOnSet(ff, S) = SumFunctionOnSet(f, S) + n
             /\ SumFunctionOnSet(gg, S) = SumFunctionOnSet(g, S) + 1
  <2>1. IsFiniteSet(S)
    BY PositionsFinite, FS_Subset
  <2>2. (\A q \in S : f[q] \in Int /\ ff[q] \in Int) /\ (\A q \in S : q # p => ff[q] = f[q])
    BY <1>1, <1>5
  <2>3. (\A q \in S : g[q] \in Int /\ gg[q] \in Int) /\ (\A q \in S : q # p => gg[q] = g[q])
    BY <1>1, <1>5
  <2>6. PICK one \in Int : one = 1
    OBVIOUS
  <2>4. SumFunctionOnSet(ff, S) = SumFunctionOnSet(f, S) + n
    BY <1>3, <1>6, <2>1, <2>2, SumChanges
  <2>5. SumFunctionOnSet(gg, S) = SumFunctionOnSet(g, S) + one
    <3>1. gg[p] = g[p] + one
      BY <1>3, <2>6
    <3> QED BY <1>6, <2>1, <2>3, <3>1, SumChanges
  <2> QED BY <2>4, <2>5, <2>6
<1>7. TotalPnl = SumFunctionOnSet(f, Positions) /\ TotalPnl' = SumFunctionOnSet(ff, Positions)
  BY <1>a, <1>4 DEF TotalPnl, Booked
<1>8. ASSUME NEW d
      PROVE  /\ DailyPnl(d) = SumFunctionOnSet(f, EnteredOn(d))
             /\ DailyPnl(d)' = SumFunctionOnSet(ff, EnteredOn(d))
             /\ DailyTrades(d) = SumFunctionOnSet(g, EnteredOn(d))
             /\ DailyTrades(d)' = SumFunctionOnSet(gg, EnteredOn(d))
  <2>1. EnteredOn(d)' = EnteredOn(d)
    BY DEF EnteredOn
  <2> QED BY <1>a, <1>4, <2>1 DEF DailyPnl, DailyTrades, Booked
<1>9. \A d : EnteredOn(d) \in SUBSET Positions
  BY PositionsFinite
<1> QED BY <1>6, <1>7, <1>8, <1>9

\* A position is opened: nothing has been booked for it.
LEMMA OpenedSums ==
  ASSUME TablesTyped, NEW p \in Positions, NEW b, positions[p].status = "none", trades[p] = <<>>,
         positions' = [positions EXCEPT ![p] = [status |-> "open", day |-> b, bars |-> 0]],
         trades' = trades
  PROVE  /\ TotalPnl' = TotalPnl
         /\ \A d : DailyPnl(d)' = DailyPnl(d) /\ DailyTrades(d)' = DailyTrades(d)
<1> DEFINE f == [q \in Positions |-> Profit(q)]
           g == [q \in Positions |-> Len(trades[q])]
<1>1. \A q \in Positions : f[q] \in Int /\ g[q] \in Int
  BY TablesSummed
<1>2. f[p] = 0 /\ g[p] = 0
  <2>1. SumFunction(<<>>) = 0 /\ Len(<<>>) = 0
    BY SumOfNothing, EmptySeq DEF SumFunction
  <2> QED BY <2>1 DEF Profit
<1>3. /\ [q \in Positions |-> Profit(q)]' = f
      /\ [q \in Positions |-> Len(trades[q])]' = g
  BY DEF Profit
<1> HIDE DEF f, g
<1>4. TotalPnl = SumFunctionOnSet(f, Positions) /\ TotalPnl' = SumFunctionOnSet(f, Positions)
  BY <1>3 DEF TotalPnl, Booked, f
<1>5. ASSUME NEW d
      PROVE  DailyPnl(d)' = DailyPnl(d) /\ DailyTrades(d)' = DailyTrades(d)
  <2> DEFINE S == EnteredOn(d)
             T == EnteredOn(d)'
  <2>1. /\ DailyPnl(d) = SumFunctionOnSet(f, S) /\ DailyPnl(d)' = SumFunctionOnSet(f, T)
        /\ DailyTrades(d) = SumFunctionOnSet(g, S) /\ DailyTrades(d)' = SumFunctionOnSet(g, T)
    BY <1>3 DEF DailyPnl, DailyTrades, Booked, f, g
  <2>2. p \notin S /\ S \subseteq Positions /\ IsFiniteSet(S)
    BY PositionsFinite DEF EnteredOn
  <2>3. T = S \/ T = S \cup {p}
    BY DEF EnteredOn, TablesTyped
  <2> HIDE DEF S, T
  <2>4. SumFunctionOnSet(f, S \cup {p}) = SumFunctionOnSet(f, S)
    <3>1. \A y \in S : f[y] \in Int
      BY <1>1, <2>2
    <3> QED BY <1>2, <2>2, <3>1, SumOfZero
  <2>5. SumFunctionOnSet(g, S \cup {p}) = SumFunctionOnSet(g, S)
    <3>1. \A y \in S : g[y] \in Int
      BY <1>1, <2>2
    <3> QED BY <1>2, <2>2, <3>1, SumOfZero
  <2> QED BY <2>1, <2>3, <2>4, <2>5, Zenon
<1> QED BY <1>4, <1>5
-----------------------------------------------------------------------------
(* The totals in memory *)

\* A trade that is in the table, and not yet in the totals nor missed.
Due(r)     == IF r.at = "close" THEN r.pnl ELSE 0
DueTrade(r) == IF r.at = "close" THEN 1 ELSE 0

Counted(r) ==
  /\ r.total \in Int /\ r.dayPnl \in Int /\ r.dayTrades \in Int
  /\ r.missed \in Int /\ r.dayMissed \in Int /\ r.tradesMissed \in Int
  /\ r.total + r.missed + Due(r) = TotalPnl
  /\ r.own => /\ r.dayPnl + r.dayMissed + Due(r) = DailyPnl(r.day)
              /\ r.dayTrades + r.tradesMissed + DueTrade(r) = DailyTrades(r.day)

\* What a lone engine has counted, missed and not yet counted is the sums of the tables.
Totals == ~beside => \A e \in Running : Counted(engine[e])

\* The day an engine is in is the day of the position it opened, and of the one it
\* is about to open; an engine that accounted for the loss of its day is stopped.
InDay(r) ==
  /\ r.own /\ r.position # 0 => positions[r.position].day = r.day
  /\ r.at = "open" \/ (r.at = "features" /\ r.position = 0 /\ r.isNew) => r.day = Day(r.last)
  /\ r.booked /\ r.at # "account" /\ Exceeds(r.dayPnl, MaxDailyDrawdown) => r.state = "stopped"
  /\ r.at = "open" => r.state # "stopped"

Daily == \A e \in Engines : InDay(engine[e])

SumsKept ==
  /\ TotalPnl' = TotalPnl
  /\ \A d : DailyPnl(d)' = DailyPnl(d) /\ DailyTrades(d)' = DailyTrades(d)

DaysKept == \A p \in Positions : positions[p].status # "none" => positions'[p].day = positions[p].day

MissedKept(e) ==
  /\ engine'[e].missed = engine[e].missed /\ engine'[e].dayMissed = engine[e].dayMissed
  /\ engine'[e].tradesMissed = engine[e].tradesMissed

\* What most steps leave as it is.
NumbersKept(e) ==
  /\ engine'[e].total = engine[e].total /\ engine'[e].dayPnl = engine[e].dayPnl
  /\ engine'[e].dayTrades = engine[e].dayTrades /\ engine'[e].day = engine[e].day
  /\ engine'[e].own = engine[e].own /\ engine'[e].booked = engine[e].booked
  /\ engine'[e].state = engine[e].state
  /\ MissedKept(e)

LEMMA KeptCounted ==
  ASSUME NEW e \in Engines, SumsKept, NumbersKept(e), Counted(engine[e]),
         engine'[e].at = "close" <=> engine[e].at = "close", engine'[e].pnl = engine[e].pnl \/ engine[e].at # "close"
  PROVE  Counted(engine[e])'
<1>1. PICK r, s : r = engine[e] /\ s = engine'[e]
  OBVIOUS
<1>2. /\ s.total = r.total /\ s.dayPnl = r.dayPnl /\ s.dayTrades = r.dayTrades /\ s.day = r.day
      /\ s.own = r.own /\ Due(s) = Due(r) /\ DueTrade(s) = DueTrade(r) /\ Counted(r)
      /\ s.missed = r.missed /\ s.dayMissed = r.dayMissed /\ s.tradesMissed = r.tradesMissed
  BY <1>1 DEF NumbersKept, MissedKept, Due, DueTrade
<1>3. Counted(s)'
  BY <1>2 DEF Counted, SumsKept
<1> QED BY <1>1, <1>3 DEF Counted

\* A step of one engine.
LEMMA EngineStep ==
  ASSUME Memory, Booking, Lone', Totals, Daily, NEW e \in Engines, NEW place, place # "off",
         NEW position, Goes(e, place, position), DaysKept, beside => beside',
         InDay(engine[e])',
         ~beside' => Counted(engine[e])'
  PROVE  Totals' /\ Daily'
<1>1. ASSUME NEW f \in Engines
      PROVE  InDay(engine[f])'
  <2>1. CASE f = e
    BY <2>1
  <2>2. CASE f # e
    <3>1. engine'[f] = engine[f] /\ InDay(engine[f])
      BY <2>2 DEF Goes, Daily
    <3>2. engine[f].position \in Positions \cup {0}
      BY DEF Memory, MemoryOf
    <3>3. engine[f].position # 0 => positions[engine[f].position].status # "none"
      BY <3>2 DEF Booking, Tidy
    <3> QED BY <3>1, <3>2, <3>3 DEF InDay, DaysKept
  <2> QED BY <2>1, <2>2
<1>2. ASSUME ~beside', NEW f \in Running'
      PROVE  Counted(engine[f])'
  <2>1. e \in Running'
    BY DEF Running, Goes
  <2> QED BY <1>2, <2>1 DEF Lone
<1> QED BY <1>1, <1>2 DEF Totals, Daily

LEMMA SetIs ==
  ASSUME Memory, NEW e \in Engines, NEW r, Set(e, r)
  PROVE  engine'[e] = r
  BY DEF Set, Memory

LEMMA TablesKept ==
  ASSUME UNCHANGED <<positions, trades>>
  PROVE  SumsKept /\ DaysKept
<1>1. \A d : EnteredOn(d)' = EnteredOn(d)
  BY DEF EnteredOn
<1> QED BY <1>1, SameSums DEF SumsKept, DaysKept

LEMMA LoneCounted ==
  ASSUME Totals, NEW e \in Running, ~beside
  PROVE  Counted(engine[e])
  BY DEF Totals

LEMMA TickTotals ==
  ASSUME Memory, Booking, Lone', Totals, Daily, NEW e \in Engines, Tick(e)
  PROVE  Totals' /\ Daily'
<1> DEFINE isNew == engine[e].last # 0
           r == [engine[e] EXCEPT !.last = bar, !.isNew = isNew,
                                  !.gate = IF isNew THEN OnBar(@) ELSE @]
<1>1. PICK place \in {"features", "bars", "day"} : Goes(e, place, engine[e].position)
  BY TickGoes
<1>2. /\ DOMAIN r = Fields /\ r.last = bar /\ r.isNew = isNew /\ r.day = engine[e].day
      /\ r.position = engine[e].position /\ r.total = engine[e].total /\ r.dayPnl = engine[e].dayPnl
      /\ r.dayTrades = engine[e].dayTrades /\ r.own = engine[e].own /\ r.booked = engine[e].booked
      /\ r.state = engine[e].state
      /\ r.missed = engine[e].missed /\ r.dayMissed = engine[e].dayMissed /\ r.tradesMissed = engine[e].tradesMissed
  BY DEF Memory, MemoryOf, Fields
<1>3. \/ ~isNew /\ Set(e, [r EXCEPT !.at = "features"])
      \/ r.position # 0 /\ Set(e, [r EXCEPT !.at = "bars", !.bars = @ + 1])
      \/ Set(e, [r EXCEPT !.at = "day"])
      \/ Day(bar) = r.day /\ Set(e, [r EXCEPT !.at = "features"])
  BY DEF Tick, WantsReset
<1> HIDE DEF r
<1>4. /\ NumbersKept(e)
      /\ engine'[e].last = bar /\ engine'[e].isNew = isNew /\ engine'[e].at # "open"
      /\ engine'[e].at = "features" /\ engine'[e].isNew => engine'[e].position # 0 \/ Day(bar) = engine'[e].day
  <2>1. CASE ~isNew /\ Set(e, [r EXCEPT !.at = "features"])
    BY ZenonT(40), <1>2, <2>1, SetIs DEF NumbersKept, MissedKept, Fields
  <2>2. CASE r.position # 0 /\ Set(e, [r EXCEPT !.at = "bars", !.bars = @ + 1])
    <3>1. engine'[e] = [r EXCEPT !.at = "bars", !.bars = r.bars + 1]
      BY <2>2, SetIs
    <3> QED BY <1>2, <3>1 DEF NumbersKept, MissedKept, Fields
  <2>3. CASE Set(e, [r EXCEPT !.at = "day"])
    BY <1>2, <2>3, SetIs DEF NumbersKept, MissedKept, Fields
  <2>4. CASE Day(bar) = r.day /\ Set(e, [r EXCEPT !.at = "features"])
    BY <1>2, <2>4, SetIs DEF NumbersKept, MissedKept, Fields
  <2> QED BY <1>3, <2>1, <2>2, <2>3, <2>4
<1>5. /\ SumsKept /\ DaysKept /\ positions' = positions /\ engine[e].at = "idle"
      /\ beside' = beside /\ e \in Running
  BY TablesKept DEF Tick, Tables, Ghosts, Running
<1>6. InDay(engine[e])'
  <2>1. InDay(engine[e]) /\ engine'[e].position = engine[e].position
    BY <1>1 DEF Daily, Goes
  <2> QED BY <1>4, <1>5, <2>1 DEF InDay, NumbersKept, Exceeds
<1>7. ~beside' => Counted(engine[e])'
  <2>1. engine'[e].at # "close"
    BY <1>1 DEF Goes
  <2> QED BY <1>4, <1>5, <2>1, LoneCounted, KeptCounted
<1>8. place # "off"
  BY <1>1
<1> QED BY <1>1, <1>5, <1>6, <1>7, <1>8, EngineStep

\* Steps that leave the numbers, and the tables' sums, as they are.
LEMMA KeptTotals ==
  ASSUME Memory, Booking, Lone', Totals, Daily, NEW e \in Running,
         NEW place, place # "off", place # "close", NEW position, Goes(e, place, position), engine[e].at # "close",
         NumbersKept(e), beside' = beside,
         SumsKept, DaysKept, InDay(engine[e])'
  PROVE  Totals' /\ Daily'
<1>1. ~beside' => Counted(engine[e])'
  BY LoneCounted, KeptCounted DEF Goes, Running
<1> QED BY <1>1, EngineStep DEF Running

LEMMA TopUpTotals ==
  ASSUME Memory, Booking, Lone', Totals, Daily, NEW e \in Engines, TopUp(e), engine[e].at # "off"
  PROVE  Totals' /\ Daily'
<1>1. /\ engine'[e] = Added(engine[e]) /\ Goes(e, engine[e].at, engine[e].position)
      /\ SumsKept /\ DaysKept /\ positions' = positions /\ beside' = beside /\ e \in Running
  BY SetIs, TopUpGoes, TablesKept DEF TopUp, Tables, Ghosts, Running
<1>2. /\ NumbersKept(e) /\ engine'[e].isNew = engine[e].isNew
      /\ engine'[e].last = engine[e].last /\ engine'[e].pnl = engine[e].pnl /\ engine'[e].at = engine[e].at
      /\ engine'[e].position = engine[e].position
  BY <1>1 DEF Added, NumbersKept, MissedKept, Memory, MemoryOf, Fields
<1>3. InDay(engine[e])'
  BY <1>1, <1>2 DEF Daily, InDay, NumbersKept, Exceeds
<1>4. ~beside' => Counted(engine[e])'
  BY <1>1, <1>2, LoneCounted, KeptCounted
<1> QED BY <1>1, <1>3, <1>4, EngineStep

LEMMA UpdateBarsTotals ==
  ASSUME Memory, Booking, Lone', Totals, Daily, NEW e \in Engines, UpdateBars(e)
  PROVE  Totals' /\ Daily'
<1> DEFINE q == engine[e].position
<1>1. /\ engine[e].at = "bars" /\ Goes(e, "features", q) /\ trades' = trades /\ StatusKept
      /\ engine'[e] = [engine[e] EXCEPT !.at = "features"] /\ beside' = beside /\ e \in Running
      /\ q # 0 /\ q \in Positions
  <2>1. engine[e].at = "bars" /\ Goes(e, "features", q) /\ trades' = trades /\ StatusKept
    BY UpdateBarsGoes
  <2>2. engine'[e] = [engine[e] EXCEPT !.at = "features"] /\ beside' = beside
    BY SetIs DEF UpdateBars, Ghosts
  <2> QED BY <2>1, <2>2 DEF Running, Memory, MemoryOf
<1>2. \A p \in Positions : positions'[p].day = positions[p].day
  BY <1>1 DEF UpdateBars, Memory, TablesTyped
<1>3. \A d : EnteredOn(d)' = EnteredOn(d)
  BY <1>1, <1>2 DEF EnteredOn, StatusKept
<1>4. SumsKept /\ DaysKept
  BY <1>1, <1>2, <1>3, SameSums DEF SumsKept, DaysKept
<1>5. /\ NumbersKept(e) /\ engine'[e].at = "features"
      /\ engine'[e].position = q
  BY <1>1 DEF NumbersKept, MissedKept, Memory, MemoryOf, Fields
<1>6. InDay(engine[e])'
  BY <1>1, <1>2, <1>5 DEF Daily, InDay, NumbersKept, Exceeds
<1> QED BY <1>1, <1>4, <1>5, <1>6, KeptTotals

LEMMA ResetDayTotals ==
  ASSUME Memory, Booking, Lone', Totals, Daily, NEW e \in Engines, ResetDay(e)
  PROVE  Totals' /\ Daily'
<1> DEFINE d == Day(engine[e].last)
           r == [engine[e] EXCEPT !.at = "features", !.day = d, !.state = "running",
                                  !.dayPnl = DailyPnl(d), !.dayTrades = DailyTrades(d),
                                  !.gate = ResetGate(@, DailyPnl(d)), !.own = TRUE, !.booked = FALSE,
                                  !.dayMissed = 0, !.tradesMissed = 0]
<1>1. /\ engine[e].at = "day" /\ Goes(e, "features", engine[e].position)
      /\ SumsKept /\ DaysKept /\ positions' = positions /\ beside' = beside /\ e \in Running
      /\ engine[e].position = 0
  BY ResetDayGoes, TablesKept DEF ResetDay, Tables, Ghosts, Running, Memory, MemoryOf
<1>2. engine'[e] = r
  BY SetIs DEF ResetDay
<1>3. /\ r.at = "features" /\ r.day = d /\ r.dayPnl = DailyPnl(d) /\ r.dayTrades = DailyTrades(d)
      /\ r.booked = FALSE /\ r.last = engine[e].last /\ r.total = engine[e].total
      /\ r.missed = engine[e].missed /\ r.dayMissed = 0 /\ r.tradesMissed = 0 /\ r.position = 0
  BY <1>1 DEF Memory, MemoryOf, Fields
<1> HIDE DEF r
<1>4. PICK s : s = r
  OBVIOUS
<1>5. InDay(s)'
  BY <1>3, <1>4 DEF InDay
<1>6. ~beside' => Counted(s)'
  <2> SUFFICES ASSUME ~beside'
               PROVE  Counted(s)'
    OBVIOUS
  <2>1. Counted(engine[e])
    BY <1>1, <1>3, <1>4, LoneCounted
  <2>2. DailyPnl(d) \in Int /\ DailyTrades(d) \in Int
    BY TablesSummed DEF Memory
  <2>3. s.total \in Int /\ s.missed \in Int /\ s.total + s.missed = TotalPnl
    BY <1>1, <1>3, <1>4, <2>1 DEF Counted, Due
  <2>4. PICK t : t = d
    OBVIOUS
  <2>5. /\ s.at = "features" /\ s.day = t /\ s.dayPnl = DailyPnl(t)' /\ s.dayTrades = DailyTrades(t)'
        /\ s.total + s.missed = TotalPnl' /\ s.dayPnl \in Int /\ s.dayTrades \in Int
        /\ s.dayMissed = 0 /\ s.tradesMissed = 0
    BY <1>1, <1>3, <1>4, <2>2, <2>3, <2>4 DEF SumsKept
  <2> QED BY <2>3, <2>5 DEF Counted, Due, DueTrade
<1>7. InDay(engine[e])' /\ (~beside' => Counted(engine[e])')
  BY <1>2, <1>4, <1>5, <1>6 DEF InDay, Counted
<1> QED BY <1>1, <1>7, EngineStep

LEMMA DecideTotals ==
  ASSUME Memory, Booking, Lone', Totals, Daily, NEW e \in Engines, Decide(e)
  PROVE  Totals' /\ Daily'
<1>1. PICK place \in {"idle", "trade", "open"} : Goes(e, place, engine[e].position)
  BY DecideGoes
<1>2. /\ engine[e].at = "features" /\ SumsKept /\ DaysKept /\ positions' = positions
      /\ beside' = beside /\ e \in Running /\ MemoryOf(engine[e]) /\ InDay(engine[e])
  BY TablesKept DEF Decide, Tables, Ghosts, Running, Memory, Daily
<1>3. /\ NumbersKept(e) /\ engine'[e].last = engine[e].last
      /\ engine'[e].position = engine[e].position
      /\ \/ engine'[e].at # "open"
         \/ engine[e].position = 0 /\ engine[e].isNew /\ engine[e].state # "stopped"
  <2>1. CASE Set(e, [engine[e] EXCEPT !.at = "idle"])
    BY <1>2, <2>1, SetIs DEF NumbersKept, MissedKept, MemoryOf, Fields
  <2>2. ASSUME NEW n \in Pnls, Set(e, [engine[e] EXCEPT !.at = "trade", !.pnl = n])
        PROVE  <1>3!:
    <3>1. engine'[e] = [engine[e] EXCEPT !.at = "trade", !.pnl = n]
      BY <2>2, SetIs
    <3> QED BY <1>2, <3>1 DEF NumbersKept, MissedKept, MemoryOf, Fields
  <2>3. CASE /\ engine[e].position = 0 /\ engine[e].isNew /\ engine[e].state # "stopped"
             /\ Set(e, [engine[e] EXCEPT !.at = "open"])
    BY <1>2, <2>3, SetIs DEF NumbersKept, MissedKept, MemoryOf, Fields
  <2> QED BY <2>1, <2>2, <2>3 DEF Decide
<1>4. InDay(engine[e])'
  BY <1>1, <1>2, <1>3 DEF InDay, NumbersKept, Exceeds, Goes
<1> QED BY <1>1, <1>2, <1>3, <1>4, KeptTotals

LEMMA FailTotals ==
  ASSUME Memory, Booking, Lone', Totals, Daily, NEW e \in Engines, Fail(e)
  PROVE  Totals' /\ Daily'
<1>1. PICK r, s : r = engine[e] /\ s = engine'[e]
  OBVIOUS
<1>2. /\ r.at \notin {"off", "idle", "account"} /\ Goes(e, "idle", r.position)
      /\ SumsKept /\ DaysKept /\ positions' = positions /\ beside' = beside /\ e \in Running
      /\ MemoryOf(r) /\ InDay(r)
      /\ s = [IF r.at = "close" THEN Uncounted(r) ELSE r EXCEPT !.at = "idle"]
  <2>1. Set(e, [IF engine[e].at = "close" THEN Uncounted(engine[e]) ELSE engine[e] EXCEPT !.at = "idle"])
        /\ beside' = beside
    BY DEF Fail
  <2>2. engine'[e] = [IF engine[e].at = "close" THEN Uncounted(engine[e]) ELSE engine[e] EXCEPT !.at = "idle"]
    BY <2>1, SetIs
  <2> QED BY <1>1, <2>1, <2>2, FailGoes, TablesKept DEF Running, Memory, Daily
<1>3. /\ s.total = r.total /\ s.dayPnl = r.dayPnl /\ s.dayTrades = r.dayTrades /\ s.day = r.day
      /\ s.own = r.own /\ s.booked = r.booked /\ s.state = r.state
      /\ s.at = "idle" /\ s.position = r.position
      /\ r.at = "close" => /\ s.missed = r.missed + r.pnl /\ s.dayMissed = r.dayMissed + r.pnl
                           /\ s.tradesMissed = r.tradesMissed + 1
      /\ r.at # "close" => /\ s.missed = r.missed /\ s.dayMissed = r.dayMissed
                           /\ s.tradesMissed = r.tradesMissed
  <2>1. CASE r.at = "close"
    <3>1. PICK q : q = Uncounted(r)
      OBVIOUS
    <3>2. /\ DOMAIN q = Fields /\ q.total = r.total /\ q.dayPnl = r.dayPnl /\ q.dayTrades = r.dayTrades
          /\ q.day = r.day /\ q.own = r.own /\ q.booked = r.booked /\ q.state = r.state
          /\ q.position = r.position /\ q.missed = r.missed + r.pnl
          /\ q.dayMissed = r.dayMissed + r.pnl /\ q.tradesMissed = r.tradesMissed + 1
      BY <1>2, <3>1 DEF Uncounted, MemoryOf, Fields
    <3>3. s = [q EXCEPT !.at = "idle"]
      BY <1>2, <2>1, <3>1
    <3> QED BY <2>1, <3>2, <3>3 DEF Fields
  <2>2. CASE r.at # "close"
    <3>1. s = [r EXCEPT !.at = "idle"]
      BY <1>2, <2>2
    <3> QED BY <1>2, <2>2, <3>1 DEF MemoryOf, Fields
  <2> QED BY <2>1, <2>2
<1>4. InDay(s)'
  BY <1>2, <1>3 DEF InDay, Exceeds
<1>5. ASSUME ~beside'
      PROVE  Counted(s)'
  <2>1. Counted(r) /\ r.pnl \in Int
    BY <1>1, <1>2, <1>5, LoneCounted DEF MemoryOf
  <2>2. /\ s.missed \in Int /\ s.dayMissed \in Int /\ s.tradesMissed \in Int
        /\ s.total + s.missed = TotalPnl
        /\ s.own => /\ s.dayPnl + s.dayMissed = DailyPnl(s.day)
                    /\ s.dayTrades + s.tradesMissed = DailyTrades(s.day)
    BY <1>3, <2>1 DEF Counted, Due, DueTrade
  <2>3. /\ s.total + s.missed = TotalPnl'
        /\ s.own => /\ s.dayPnl + s.dayMissed = DailyPnl(s.day)'
                    /\ s.dayTrades + s.tradesMissed = DailyTrades(s.day)'
    BY <1>2, <2>2 DEF SumsKept
  <2> QED BY <1>3, <2>1, <2>2, <2>3 DEF Counted, Due, DueTrade
<1>6. InDay(engine[e])' /\ (~beside' => Counted(engine[e])')
  BY <1>1, <1>4, <1>5 DEF InDay, Counted
<1> QED BY <1>2, <1>6, EngineStep DEF Running

LEMMA OpenTotals ==
  ASSUME Memory, Booking, Lone', Totals, Daily, NEW e \in Engines, OpenPositionRow(e)
  PROVE  Totals' /\ Daily'
<1> DEFINE d == Day(engine[e].last)
           row == [status |-> "open", day |-> d, bars |-> 0]
<1>1. PICK p \in Positions :
        /\ positions[p].status = "none"
        /\ positions' = [positions EXCEPT ![p] = row]
        /\ Set(e, [engine[e] EXCEPT !.at = "idle", !.position = p, !.bars = 0,
                                    !.balance = @ - Fee, !.gate = OnTradePlaced(@)])
  BY DEF OpenPositionRow
<1>2. /\ engine[e].at = "open" /\ trades' = trades /\ beside' = beside /\ e \in Running
      /\ MemoryOf(engine[e]) /\ InDay(engine[e]) /\ TablesTyped /\ trades[p] = <<>>
  BY <1>1 DEF OpenPositionRow, Ghosts, Running, Memory, Daily, Booking, Tidy
<1>3. /\ NumbersKept(e) /\ engine'[e].at = "idle"
      /\ engine'[e].position = p
  <2>1. engine'[e] = [engine[e] EXCEPT !.at = "idle", !.position = p, !.bars = 0,
                                       !.balance = engine[e].balance - Fee,
                                       !.gate = OnTradePlaced(engine[e].gate)]
    BY <1>1, <1>2, SetIs DEF MemoryOf, Fields
  <2> QED BY <1>2, <2>1 DEF NumbersKept, MissedKept, MemoryOf, Fields
<1>4. PICK position : Goes(e, "idle", position)
  BY OpenGoes
<1>5. SumsKept
  BY <1>1, <1>2, OpenedSums DEF SumsKept
<1>6. /\ positions'[p].day = d /\ d = engine[e].day
      /\ \A q \in Positions : q # p => positions'[q] = positions[q]
  BY <1>1, <1>2 DEF TablesTyped, InDay
<1>7. DaysKept
  BY <1>1, <1>6 DEF DaysKept
<1>8. InDay(engine[e])'
  BY <1>2, <1>3, <1>6 DEF InDay, NumbersKept, Exceeds
<1> QED BY <1>2, <1>3, <1>4, <1>5, <1>7, <1>8, KeptTotals

LEMMA InsertTotals ==
  ASSUME Memory, Booking, Lone', Totals, Daily, NEW e \in Engines, InsertTrade(e)
  PROVE  Totals' /\ Daily'
<1>1. PICK q, n, m : q = engine[e].position /\ n = engine[e].pnl /\ m = engine[e].day
  OBVIOUS
<1>2. /\ engine[e].at = "trade" /\ positions' = positions /\ Goes(e, "close", q)
      /\ trades' = [trades EXCEPT ![q] = Append(@, n)]
  BY <1>1, InsertGoes
<1>3. /\ q \in Positions /\ q # 0 /\ n \in Int /\ beside' = beside /\ e \in Running
      /\ MemoryOf(engine[e]) /\ InDay(engine[e]) /\ TablesTyped
      /\ engine'[e] = [engine[e] EXCEPT !.at = "close"]
  <2>1. /\ engine'[e] = [engine[e] EXCEPT !.at = "close"] /\ beside' = beside
    BY SetIs DEF InsertTrade, Ghosts
  <2>2. InDay(engine[e])
    BY DEF Daily
  <2>3. MemoryOf(engine[e]) /\ TablesTyped
    BY DEF Memory
  <2> QED BY <1>1, <1>2, <2>1, <2>2, <2>3 DEF Running, MemoryOf
<1>4. /\ NumbersKept(e) /\ engine'[e].at = "close"
      /\ engine'[e].position = q /\ engine'[e].pnl = n
  BY <1>1, <1>3 DEF NumbersKept, MissedKept, MemoryOf, Fields
<1>5. /\ TotalPnl' = TotalPnl + n
      /\ \A d : q \in EnteredOn(d) => /\ DailyPnl(d)' = DailyPnl(d) + n
                                      /\ DailyTrades(d)' = DailyTrades(d) + 1
  BY <1>2, <1>3, BookedSums
<1>6. DaysKept
  BY <1>2 DEF DaysKept
<1>7. InDay(engine[e])'
  BY <1>1, <1>2, <1>3, <1>4 DEF InDay, NumbersKept, Exceeds
<1>8. ASSUME ~beside'
      PROVE  Counted(engine[e])'
  <2>1. PICK r, s : r = engine[e] /\ s = engine'[e]
    OBVIOUS
  <2>2. Counted(r) /\ r.at = "trade" /\ r.day = m
    BY <1>1, <1>2, <1>3, <1>4, <1>8, <2>1, LoneCounted
  <2>3. r.own => q \in EnteredOn(m)
    <3>1. positions[q].status # "none"
      BY <1>1, <1>3 DEF Booking, Tidy
    <3> QED BY <1>1, <1>3, <2>1, <3>1 DEF InDay, EnteredOn
  <2>4. /\ s.total = r.total /\ s.dayPnl = r.dayPnl /\ s.dayTrades = r.dayTrades /\ s.day = m
        /\ s.own = r.own /\ s.at = "close" /\ s.pnl = n
        /\ s.missed = r.missed /\ s.dayMissed = r.dayMissed /\ s.tradesMissed = r.tradesMissed
    BY <1>1, <1>4, <2>1 DEF NumbersKept, MissedKept
  <2>5. /\ r.total \in Int /\ r.dayPnl \in Int /\ r.dayTrades \in Int
        /\ r.missed \in Int /\ r.dayMissed \in Int /\ r.tradesMissed \in Int
        /\ r.total + r.missed = TotalPnl
        /\ r.own => r.dayPnl + r.dayMissed = DailyPnl(m) /\ r.dayTrades + r.tradesMissed = DailyTrades(m)
    BY <2>2 DEF Counted, Due, DueTrade
  <2>6. /\ s.total + s.missed + n = TotalPnl'
        /\ r.own => /\ s.dayPnl + s.dayMissed + n = DailyPnl(m)'
                    /\ s.dayTrades + s.tradesMissed + 1 = DailyTrades(m)'
    BY <1>5, <2>3, <2>4, <2>5
  <2>7. Counted(s)'
    BY <2>4, <2>5, <2>6 DEF Counted, Due, DueTrade
  <2> QED BY <2>1, <2>7 DEF Counted
<1> QED BY <1>2, <1>3, <1>6, <1>7, <1>8, EngineStep

LEMMA CloseTotals ==
  ASSUME Memory, Booking, Lone', Totals, Daily, NEW e \in Engines, ClosePosition(e)
  PROVE  Totals' /\ Daily'
<1>1. PICK q, n, r, s : q = engine[e].position /\ n = engine[e].pnl /\ r = engine[e] /\ s = engine'[e]
  OBVIOUS
<1>2. /\ r.at = "close" /\ trades' = trades /\ Goes(e, "account", q)
      /\ positions' = [positions EXCEPT ![q].status = "closed"] /\ beside' = beside /\ e \in Running
      /\ s = [r EXCEPT !.at = "account", !.balance = r.balance + n + Quantity,
                       !.total = r.total + n, !.dayPnl = r.dayPnl + n, !.dayTrades = r.dayTrades + 1]
  <2>1. Set(e, [engine[e] EXCEPT !.at = "account", !.balance = engine[e].balance + engine[e].pnl + Quantity,
                                 !.total = engine[e].total + engine[e].pnl,
                                 !.dayPnl = engine[e].dayPnl + engine[e].pnl,
                                 !.dayTrades = engine[e].dayTrades + 1])
    BY DEF ClosePosition
  <2>2. engine'[e] = [engine[e] EXCEPT !.at = "account", !.balance = engine[e].balance + engine[e].pnl + Quantity,
                                 !.total = engine[e].total + engine[e].pnl,
                                 !.dayPnl = engine[e].dayPnl + engine[e].pnl,
                                 !.dayTrades = engine[e].dayTrades + 1]
    BY <2>1, SetIs
  <2>3. /\ engine[e].at = "close" /\ trades' = trades /\ beside' = beside
        /\ positions' = [positions EXCEPT ![q].status = "closed"]
    BY <1>1 DEF ClosePosition, Ghosts
  <2> QED BY <1>1, <2>2, <2>3, CloseGoes DEF Running
<1>3. /\ q \in Positions /\ q # 0 /\ n \in Int /\ MemoryOf(r) /\ InDay(r) /\ TablesTyped
  BY <1>1, <1>2 DEF Memory, MemoryOf, Daily
<1>4. /\ s.total = r.total + n /\ s.dayPnl = r.dayPnl + n /\ s.dayTrades = r.dayTrades + 1
      /\ s.at = "account" /\ s.position = q /\ s.day = r.day /\ s.own = r.own
      /\ s.missed = r.missed /\ s.dayMissed = r.dayMissed /\ s.tradesMissed = r.tradesMissed
  BY <1>1, <1>2, <1>3 DEF MemoryOf, Fields
<1>5. positions[q].status # "none"
  BY <1>1, <1>3 DEF Booking, Tidy
<1>6. /\ \A p \in Positions : positions'[p].day = positions[p].day
      /\ \A p \in Positions : positions'[p].status = "none" <=> positions[p].status = "none"
  BY <1>2, <1>3, <1>5 DEF TablesTyped
<1>7. \A d : EnteredOn(d)' = EnteredOn(d)
  BY <1>6 DEF EnteredOn
<1>8. SumsKept /\ DaysKept
  BY <1>2, <1>6, <1>7, SameSums DEF SumsKept, DaysKept
<1>9. InDay(s)'
  BY <1>1, <1>3, <1>4, <1>6 DEF InDay
<1>10. ASSUME ~beside'
       PROVE  Counted(s)'
  <2>1. Counted(r)
    BY <1>1, <1>2, <1>4, <1>10, LoneCounted
  <2>2. /\ r.total \in Int /\ r.dayPnl \in Int /\ r.dayTrades \in Int /\ r.pnl = n
        /\ r.missed \in Int /\ r.dayMissed \in Int /\ r.tradesMissed \in Int
        /\ r.total + r.missed + n = TotalPnl
        /\ r.own => /\ r.dayPnl + r.dayMissed + n = DailyPnl(r.day)
                    /\ r.dayTrades + r.tradesMissed + 1 = DailyTrades(r.day)
    BY <1>1, <1>2, <2>1 DEF Counted, Due, DueTrade
  <2>3. /\ s.total \in Int /\ s.dayPnl \in Int /\ s.dayTrades \in Int
        /\ s.missed \in Int /\ s.dayMissed \in Int /\ s.tradesMissed \in Int
        /\ s.total + s.missed = TotalPnl'
        /\ s.own => /\ s.dayPnl + s.dayMissed = DailyPnl(s.day)'
                    /\ s.dayTrades + s.tradesMissed = DailyTrades(s.day)'
    BY <1>3, <1>4, <1>8, <2>2 DEF SumsKept
  <2> QED BY <1>4, <2>3 DEF Counted, Due, DueTrade
<1>11. InDay(engine[e])' /\ (~beside' => Counted(engine[e])')
  BY <1>1, <1>9, <1>10 DEF InDay, Counted
<1> QED BY <1>1, <1>2, <1>8, <1>11, EngineStep

LEMMA AccountTotals ==
  ASSUME Memory, Booking, Lone', Totals, Daily, NEW e \in Engines, Account(e)
  PROVE  Totals' /\ Daily'
<1> DEFINE r == [Flat(engine[e]) EXCEPT !.at = "idle", !.booked = TRUE,
                                        !.gate = OnTradeClosed(UpdatePnl(@, engine[e].pnl))]
           s == [r EXCEPT !.state = "stopped"]
<1>1. /\ engine[e].at = "account" /\ SumsKept /\ DaysKept /\ Goes(e, "idle", 0)
      /\ beside' = beside /\ e \in Running
      /\ (Stops(r) /\ Set(e, s)) \/ (~Stops(r) /\ Set(e, r))
  BY AccountGoes, TablesKept DEF Account, Tables, Ghosts, Running
<1>2. /\ DOMAIN r = Fields /\ r.at = "idle" /\ r.position = 0 /\ r.total = engine[e].total
      /\ r.dayPnl = engine[e].dayPnl /\ r.dayTrades = engine[e].dayTrades /\ r.day = engine[e].day
      /\ r.own = engine[e].own
      /\ r.missed = engine[e].missed /\ r.dayMissed = engine[e].dayMissed /\ r.tradesMissed = engine[e].tradesMissed
  BY DEF Flat, Memory, MemoryOf, Fields
<1> HIDE DEF r
<1>3. /\ engine'[e].at = "idle" /\ engine'[e].position = 0 /\ engine'[e].total = engine[e].total
      /\ engine'[e].dayPnl = engine[e].dayPnl /\ engine'[e].dayTrades = engine[e].dayTrades
      /\ engine'[e].day = engine[e].day /\ engine'[e].own = engine[e].own
      /\ MissedKept(e)
      /\ Exceeds(engine'[e].dayPnl, MaxDailyDrawdown) => engine'[e].state = "stopped"
  <2>1. CASE Stops(r) /\ Set(e, s)
    BY <1>2, <2>1, SetIs DEF Fields, MissedKept
  <2>2. CASE ~Stops(r) /\ Set(e, r)
    <3>1. engine'[e] = r
      BY <2>2, SetIs
    <3>2. ~Exceeds(r.dayPnl, MaxDailyDrawdown)
      BY <2>2 DEF Stops
    <3> QED BY <1>2, <3>1, <3>2 DEF MissedKept
  <2> QED BY <1>1, <2>1, <2>2
<1>4. InDay(engine[e])'
  BY <1>3 DEF InDay, Exceeds
<1>5. ASSUME ~beside'
      PROVE  Counted(engine[e])'
  <2>1. PICK q, t : q = engine[e] /\ t = engine'[e]
    OBVIOUS
  <2>2. Counted(q) /\ q.at = "account"
    BY <1>1, <1>3, <1>5, <2>1, LoneCounted
  <2>3. /\ t.total = q.total /\ t.dayPnl = q.dayPnl /\ t.dayTrades = q.dayTrades /\ t.day = q.day
        /\ t.own = q.own /\ Due(t) = Due(q) /\ DueTrade(t) = DueTrade(q)
        /\ t.missed = q.missed /\ t.dayMissed = q.dayMissed /\ t.tradesMissed = q.tradesMissed
    BY <1>3, <2>1, <2>2 DEF Due, DueTrade, MissedKept
  <2>4. Counted(t)'
    BY <1>1, <2>2, <2>3 DEF Counted, SumsKept
  <2> QED BY <2>1, <2>4 DEF Counted
<1> QED BY <1>1, <1>4, <1>5, EngineStep

\* The engines that keep running when the tables do.
LEMMA OthersTotals ==
  ASSUME Memory, Totals, SumsKept, beside => beside',
         \A f \in Running' : f \in Running /\ engine'[f] = engine[f]
  PROVE  Totals'
<1> SUFFICES ASSUME ~beside', NEW f \in Running'
             PROVE  Counted(engine[f])'
  BY DEF Totals
<1>1. f \in Engines /\ f \in Running /\ engine'[f] = engine[f]
  BY DEF Running
<1>2. Counted(engine[f]) /\ NumbersKept(f)
  BY <1>1, LoneCounted DEF NumbersKept, MissedKept
<1> QED BY <1>1, <1>2, KeptCounted

LEMMA StartTotals ==
  ASSUME Memory, Booking, Lone', Totals, Daily, NEW e \in Engines, Start(e)
  PROVE  Totals' /\ Daily'
<1>1. PICK d \in {Day(bar), Day(bar + 1)} : Set(e, Recovered(d))
  BY DEF Start
<1>2. /\ Goes(e, "idle", OpenPosition) /\ engine[e].at = "off" /\ UNCHANGED <<positions, trades>>
      /\ SumsKept /\ DaysKept /\ (beside => beside') /\ engine'[e] = Recovered(d)
  BY <1>1, StartGoes, TablesKept, SetIs DEF Start
<1>3. PICK s : s = Recovered(d)
  OBVIOUS
<1>4. /\ s.at = "idle" /\ s.total = TotalPnl /\ s.day = d /\ s.dayPnl = DailyPnl(d)
      /\ s.dayTrades = DailyTrades(d) /\ s.own = (OpenPosition = 0) /\ s.booked = FALSE
      /\ s.missed = 0 /\ s.dayMissed = 0 /\ s.tradesMissed = 0
      /\ s.position = OpenPosition
  BY <1>3 DEF Recovered, Off
<1>5. TotalPnl \in Int /\ DailyPnl(d) \in Int /\ DailyTrades(d) \in Int
  BY TablesSummed DEF Memory
<1>6. Counted(s)'
  <2>1. /\ s.total = TotalPnl' /\ s.total \in Int /\ s.dayPnl \in Int /\ s.dayTrades \in Int
        /\ s.dayPnl = DailyPnl(s.day)' /\ s.dayTrades = DailyTrades(s.day)'
    BY <1>2, <1>4, <1>5 DEF SumsKept
  <2> QED BY <1>4, <2>1 DEF Counted, Due, DueTrade
<1>7. InDay(s)'
  BY <1>4 DEF InDay
<1>8. InDay(engine[e])' /\ Counted(engine[e])'
  BY <1>2, <1>3, <1>6, <1>7 DEF InDay, Counted
<1> QED BY <1>2, <1>8, EngineStep

\* A dead engine, and a feed, leave the totals alone.
LEMMA OutsideTotals ==
  ASSUME Memory, Booking, Lone', Totals, Daily,
         \/ NewCandle \/ Crash \/ UNCHANGED vars
         \/ \E e \in Engines : TopUp(e) /\ engine[e].at = "off"
  PROVE  Totals' /\ Daily'
<1>1. /\ UNCHANGED <<positions, trades>> /\ beside' = beside
      /\ SumsKept
  BY TablesKept DEF NewCandle, Crash, TopUp, Tables, Ghosts, vars
<1>2. CASE NewCandle \/ UNCHANGED vars
  <2>1. engine' = engine /\ Running' = Running
    BY <1>2 DEF NewCandle, vars, Running
  <2> QED BY <1>1, <2>1, OthersTotals DEF Daily, InDay
<1>3. CASE Crash
  <2>1. Running' = {} /\ \A e \in Engines : engine'[e] = Off
    BY <1>3 DEF Crash, Running, Off
  <2>2. Off.position = 0 /\ Off.at = "off" /\ Off.booked = FALSE
    BY DEF Off
  <2>3. Daily'
    BY <2>1, <2>2 DEF Daily, InDay
  <2> QED BY <1>1, <2>1, <2>3, OthersTotals
<1>4. ASSUME NEW e \in Engines, TopUp(e), engine[e].at = "off"
      PROVE  Totals' /\ Daily'
  <2>1. /\ engine'[e] = Added(engine[e]) /\ Goes(e, "off", engine[e].position)
        /\ MemoryOf(engine[e]) /\ InDay(engine[e])
    BY <1>4, SetIs, TopUpGoes DEF TopUp, Memory, Daily
  <2>2. /\ NumbersKept(e) /\ engine'[e].at = "off" /\ engine'[e].position = engine[e].position
    BY <1>4, <2>1 DEF Added, NumbersKept, MissedKept, MemoryOf, Fields
  <2>3. \A f \in Running' : f \in Running /\ engine'[f] = engine[f]
    BY <2>1, <2>2 DEF Running, Goes
  <2>4. InDay(engine[e])'
    BY <1>1, <1>4, <2>1, <2>2 DEF InDay, NumbersKept, Exceeds
  <2>5. \A f \in Engines : f # e => InDay(engine[f])'
    BY <1>1, <2>1 DEF InDay, Goes, Daily
  <2> QED BY <1>1, <2>3, <2>4, <2>5, OthersTotals DEF Daily
<1> QED BY <1>2, <1>3, <1>4

LEMMA StepTotals ==
  ASSUME Memory, Booking, Lone', Totals, Daily, [Next]_vars
  PROVE  Totals' /\ Daily'
<1>1. CASE NewCandle \/ Crash \/ UNCHANGED vars
  BY <1>1, OutsideTotals
<1>2. ASSUME NEW e \in Engines, Start(e) \/ TopUp(e) \/ Fail(e)
      PROVE  Totals' /\ Daily'
  BY <1>2, StartTotals, TopUpTotals, OutsideTotals, FailTotals
<1>3. ASSUME NEW e \in Engines, Tick(e) \/ UpdateBars(e) \/ ResetDay(e) \/ Decide(e)
      PROVE  Totals' /\ Daily'
  BY <1>3, TickTotals, UpdateBarsTotals, ResetDayTotals, DecideTotals
<1>4. ASSUME NEW e \in Engines,
             OpenPositionRow(e) \/ InsertTrade(e) \/ ClosePosition(e) \/ Account(e)
      PROVE  Totals' /\ Daily'
  BY <1>4, OpenTotals, InsertTotals, CloseTotals, AccountTotals
<1> QED BY <1>1, <1>2, <1>3, <1>4 DEF Next, Work
-----------------------------------------------------------------------------
(* The theorems *)

LEMMA Begins ==
  ASSUME Init
  PROVE  Memory /\ Lone /\ Booking
<1>1. Memory
  BY InitMemory
<1>2. /\ Running = {} /\ OpenRows = {} /\ beside = FALSE
      /\ \A p \in Positions : trades[p] = <<>> /\ positions[p].status = "none"
      /\ \A e \in Engines : engine[e].position = 0 /\ engine[e].at = "off"
  BY DEF Init, Running, OpenRows, NoPosition, Off
<1>3. \A p \in Positions : p # 0
  BY PaperAssumption DEF Positions
<1>4. Len(<<>>) <= 1
  OBVIOUS
<1> QED BY <1>1, <1>2, <1>3, <1>4 DEF Lone, Booking, Tidy

LEMMA AlwaysTidy == Spec => [](Memory /\ Lone /\ Booking)
<1> QED BY Begins, StepMemory, StepLone, StepBooking, PTL DEF Spec

LEMMA BeginsTotals ==
  ASSUME Init
  PROVE  Totals /\ Daily
<1>1. \A e \in Engines : engine[e] = Off
  BY DEF Init
<1>2. Off.position = 0 /\ Off.at = "off" /\ Off.booked = FALSE
  BY DEF Off
<1> QED BY <1>1, <1>2 DEF Totals, Daily, InDay, Running

LEMMA AlwaysCounted == Spec => [](Memory /\ Lone /\ Booking /\ Totals /\ Daily)
<1> QED BY Begins, BeginsTotals, StepMemory, StepLone, StepBooking, StepTotals, PTL DEF Spec

\* In every reachable state an engine that is between two ticks and flat has its
\* balance as its equity: a top-up during a tick, a failed commit and a recovery
\* leave no difference (engine.py, top_up, _close_position, recover).
THEOREM EquityAlwaysAgrees == Spec => []EquityAgrees
<1>1. Memory => EquityAgrees
  BY DEF Memory, MemoryOf, EquityAgrees
<1> QED BY <1>1, AlwaysTidy, PTL

\* Unless two engines ran beside each other, the engine holds between two ticks
\* what is the open row of the table, through crashes, recoveries and failed
\* commits (engine.py, recover, _open_position, _close_position).
THEOREM OpenRowHeld == Spec => []HoldsOpenRow
<1>1. Memory /\ Lone => HoldsOpenRow
  <2> SUFFICES ASSUME Memory, Lone, ~beside, NEW e \in Engines, engine[e].at = "idle"
               PROVE  engine[e].position = OpenPosition
    BY DEF HoldsOpenRow
  <2>1. OpenRows = HeldAt("idle", engine[e].position)
    BY DEF Lone, Running
  <2> QED BY <2>1, NewestOpen DEF HeldAt, Memory, MemoryOf
<1> QED BY <1>1, AlwaysTidy, PTL

\* A position is booked twice only after a failure between the two commits of
\* _close_position, or when a second engine recovered what the first one held.
THEOREM NeverBookedTwice == Spec => []BookedOnce
<1>1. Memory /\ Booking => BookedOnce
  <2>1. \A p \in Positions : trades \in [Positions -> Seq(Int)] => Len(trades[p]) \in Nat
    OBVIOUS
  <2> QED BY <2>1 DEF Memory, TablesTyped, Booking, Tidy, BookedOnce
<1> QED BY <1>1, AlwaysTidy, PTL

\* Between two ticks the totals in memory are those of the tables, but for the
\* trades that were booked by a _close_position that failed before it counted them
\* (engine.py:469): through every crash, failed write, recovery, top-up and new day of an
\* engine that runs alone, these and no others are what the memory lacks (storage.py,
\* load_daily_stats and load_total_pnl; engine.py, recover, _reset_day, _close_position).
THEOREM TotalsAlwaysAgree == Spec => []TotalsAgree
<1>1. Totals => TotalsAgree
  <2> SUFFICES ASSUME Totals, ~beside, NEW e \in Engines, engine[e].at = "idle"
               PROVE  LET r == engine[e] IN
                      /\ r.total + r.missed = TotalPnl
                      /\ r.own => /\ r.dayPnl + r.dayMissed = DailyPnl(r.day)
                                  /\ r.dayTrades + r.tradesMissed = DailyTrades(r.day)
    BY DEF TotalsAgree
  <2>1. Counted(engine[e]) /\ Due(engine[e]) = 0 /\ DueTrade(engine[e]) = 0
    BY LoneCounted DEF Running, Due, DueTrade
  <2> QED BY <2>1 DEF Counted
<1> QED BY <1>1, AlwaysCounted, PTL

\* An engine that runs alone, has closed a trade since it took up the day, and for which
\* the tables show a loss of the day at the limit, without the trades whose closing
\* failed, does not reach the placing of an entry (engine.py, _close_position, tick).
THEOREM AlwaysStopsAtLoss == Spec => []StopsAtLoss
<1>1. Totals /\ Daily => StopsAtLoss
  <2> SUFFICES ASSUME Totals, Daily, ~beside, NEW e \in Engines, engine[e].own, engine[e].booked,
                      Exceeds(DailyPnl(engine[e].day) - engine[e].dayMissed, MaxDailyDrawdown),
                      engine[e].at = "open"
               PROVE  FALSE
    BY DEF StopsAtLoss
  <2>1. Counted(engine[e]) /\ Due(engine[e]) = 0 /\ InDay(engine[e])
    BY LoneCounted DEF Running, Due, Daily
  <2>2. engine[e].dayPnl = DailyPnl(engine[e].day) - engine[e].dayMissed
    BY <2>1 DEF Counted
  <2> QED BY <2>1, <2>2 DEF InDay
<1> QED BY <1>1, AlwaysCounted, PTL
=============================================================================
