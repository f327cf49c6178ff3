------------------------- MODULE PairLocking_proofs -------------------------
(***************************************************************************)
(* Proofs about PairLocking.  A pause that was asked for is covered by a   *)
(* lock that is at least as wide and as long: lock_pair and the            *)
(* protections, one after the other, never lose one, and only a release    *)
(* takes a lock away before it is over.                                    *)
(***************************************************************************)
EXTENDS PairLocking, FiniteSetTheorems, WellFoundedInduction, TLAPS
-----------------------------------------------------------------------------
(* A set of naturals has a least element, and a bounded one has a greatest. *)

Less == {ss \in Nat \X Nat : ss[1] < ss[2]}

LEMMA LessWellFounded == IsWellFoundedOn(Less, Nat)
  BY NatLessThanWellFounded, Zenon DEF OpToRel, Less

LEMMA LeastExists ==
  ASSUME NEW S \in SUBSET Nat, S # {}
  PROVE  \E x \in S : \A y \in S : x <= y
<1>1. PICK x \in S : \A y \in S : ~(<<y, x>> \in Less)
  BY LessWellFounded, WFMin
<1>2. ASSUME NEW y \in S
      PROVE  x <= y
  <2>1. ~(<<y, x>> \in Less) /\ x \in Nat /\ y \in Nat
    BY <1>1, <1>2
  <2>2. ASSUME NEW a \in Nat, NEW b \in Nat, ~(<<a, b>> \in Less)
        PROVE  b <= a
    BY <2>2 DEF Less
  <2> QED BY <2>1, <2>2
<1> QED BY <1>2

LEMMA GreatestExists ==
  ASSUME NEW n \in Nat, NEW S \in SUBSET (0..n), S # {}
  PROVE  \E x \in S : \A y \in S : y <= x
<1> DEFINE T == {n - x : x \in S}
<1>1. T \in SUBSET Nat /\ T # {}
  <2>1. \A x \in S : n - x \in Nat
    OBVIOUS
  <2> QED BY <2>1
<1>2. PICK m \in T : \A y \in T : m <= y
  BY <1>1, LeastExists
<1>3. PICK x \in S : m = n - x
  BY <1>2
<1>4. ASSUME NEW y \in S
      PROVE  y <= x
  <2>1. m <= n - y
    BY <1>2, <1>4
  <2> QED BY <1>3, <1>4, <2>1
<1> QED BY <1>3, <1>4
-----------------------------------------------------------------------------
\* A lock that keeps the pair from being entered on the side until then.
Covers(ls, pair, side, until) ==
  \E l \in ls : l.pair \in {pair, "*"} /\ l.side \in {side, "*"} /\ l.until >= until

Timed(ls) == \A l \in ls : l.until \in Int

\* The end of a lock is a time, and no earlier than the time it was rounded from.
LEMMA NextIsLater ==
  ASSUME NEW t \in Int
  PROVE  NextDate(t) \in Int /\ NextDate(t) > t
<1>1. Timeframe \in Nat /\ Timeframe > 0
  BY TimeAssumption
<1>2. /\ t \div Timeframe \in Int /\ t % Timeframe \in 0..(Timeframe - 1)
      /\ t = Timeframe * (t \div Timeframe) + (t % Timeframe)
  BY <1>1
<1>3. ASSUME NEW q \in Int, NEW r \in Int, NEW f \in Int, r < f
      PROVE  (q + 1) * f \in Int /\ (q + 1) * f > f * q + r
  BY <1>3
<1> QED BY <1>1, <1>2, <1>3 DEF NextDate

LEMMA CoversMore ==
  ASSUME NEW ls, NEW more, ls \subseteq more, NEW pair, NEW side, NEW until, Covers(ls, pair, side, until)
  PROVE  Covers(more, pair, side, until)
  BY DEF Covers

LEMMA CoversLess ==
  ASSUME NEW ls, Timed(ls), NEW pair, NEW side, NEW until \in Int, NEW less \in Int, less <= until,
         Covers(ls, pair, side, until)
  PROVE  Covers(ls, pair, side, less)
<1>1. PICK l \in ls : l.pair \in {pair, "*"} /\ l.side \in {side, "*"} /\ l.until >= until
  BY DEF Covers
<1>2. l.until \in Int
  BY DEF Timed
<1>3. l.until >= less
  BY <1>1, <1>2
<1> QED BY <1>1, <1>3 DEF Covers

\* What covers a lock of both sides covers it of one.
LEMMA CoversSides ==
  ASSUME NEW ls, NEW pair, NEW side, NEW until, Covers(ls, pair, "*", until)
  PROVE  Covers(ls, pair, side, until)
  BY DEF Covers

\* lock_pair keeps the locks that are there and sets the one that is asked for,
\* or finds it set.
LEMMA LockPairCovers ==
  ASSUME NEW ls, Timed(ls), NEW pair, NEW until \in Int, NEW reason, NEW t, NEW side
  PROVE  LET after == LockPair(ls, pair, until, reason, t, side) IN
         /\ ls \subseteq after /\ Timed(after)
         /\ Covers(after, pair, side, NextDate(until))
<1> DEFINE lock == [pair |-> pair, side |-> side, reason |-> reason, until |-> NextDate(until)]
           after == LockPair(ls, pair, until, reason, t, side)
<1>1. NextDate(until) \in Int
  BY NextIsLater
<1>2. lock.pair = pair /\ lock.side = side /\ lock.until = NextDate(until)
  OBVIOUS
<1>3. after = ls \cup {lock}
  <2>1. lock \in PairLocks(ls, pair, t, side) => lock \in ls
    BY DEF PairLocks
  <2> HIDE DEF lock
  <2>2. after = IF lock \in PairLocks(ls, pair, t, side) THEN ls ELSE ls \cup {lock}
    BY DEF LockPair, lock
  <2> QED BY <2>1, <2>2
<1> HIDE DEF lock, after
<1>4. Timed(after)
  BY <1>1, <1>2, <1>3 DEF Timed
<1>5. Covers(after, pair, side, NextDate(until))
  <2>1. NextDate(until) >= NextDate(until)
    BY <1>1
  <2> QED BY <1>2, <1>3, <2>1 DEF Covers
<1> QED BY <1>3, <1>4, <1>5 DEF after

\* The manager keeps the locks that are there, and every stop is covered: by the lock
\* it sets, or by the longer one for which it sets none.
LEMMA StopsCovered ==
  ASSUME NEW ls, Timed(ls), NEW pair, NEW stops, \A s \in stops : s.until \in Int, NEW t
  PROVE  LET after == WithStops(ls, pair, stops, t) IN
         /\ ls \subseteq after /\ Timed(after)
         /\ \A s \in stops : Covers(after, pair, s.side, s.until)
<1> DEFINE after == WithStops(ls, pair, stops, t)
           set == {x \in stops : ~IsPairLocked(ls, pair, x.until, x.side)}
           with(s) == LockPair(ls, pair, s.until, s.reason, t, s.side)
<1>1. after = ls \cup UNION {with(s) : s \in set}
  BY DEF WithStops
<1>2. ASSUME NEW s \in stops
      PROVE  /\ Timed(with(s)) /\ Covers(with(s), pair, s.side, s.until)
  <2>1. s.until \in Int
    OBVIOUS
  <2>2. Timed(with(s)) /\ Covers(with(s), pair, s.side, NextDate(s.until))
    BY <2>1, LockPairCovers
  <2>3. NextDate(s.until) \in Int /\ s.until <= NextDate(s.until)
    BY <2>1, NextIsLater
  <2> HIDE DEF with
  <2> QED BY <2>1, <2>2, <2>3, CoversLess
<1> HIDE DEF with, after
<1>3. Timed(after)
  BY <1>1, <1>2 DEF Timed, set
<1>4. ASSUME NEW s \in stops PROVE Covers(after, pair, s.side, s.until)
  <2>1. CASE s \in set
    BY <1>1, <1>2, <2>1, CoversMore
  <2>2. CASE s \notin set
    <3>1. IsPairLocked(ls, pair, s.until, s.side)
      BY <2>2
    <3>2. PICK l \in ls : l.until > s.until /\ l.pair \in {pair, "*"} /\ SideMatches(l, s.side)
      BY <3>1 DEF IsPairLocked, IsGlobalLock, PairLocks
    <3>3. l.side \in {s.side, "*"} /\ l \in after
      BY <1>1, <3>2 DEF SideMatches
    <3>4. l.until >= s.until
      <4>1. l.until \in Int /\ s.until \in Int
        BY DEF Timed
      <4> QED BY <3>2, <4>1
    <3> QED BY <3>2, <3>3, <3>4 DEF Covers
  <2> QED BY <2>1, <2>2
<1>5. ls \subseteq after
  BY <1>1
<1> QED BY <1>3, <1>4, <1>5 DEF after
-----------------------------------------------------------------------------
(* The protections, one after the other: WithAllStops is a fold, which the   *)
(* module Folds computes with a recursive function.                          *)

\* The locks after the protections in ss, computed from what g says of fewer.
AfterStops(stops, ls, pair, t, ss, g) ==
  IF ss = {} THEN ls ELSE WithStops(g[ss \ {Max(ss)}], pair, stops[Max(ss)], t)
Folded(stops, ls, pair, t, g) == g = [ss \in SUBSET DOMAIN stops |-> AfterStops(stops, ls, pair, t, ss, g)]

LEMMA FoldIsChosen ==
  ASSUME NEW stops, NEW ls, NEW pair, NEW t
  PROVE  WithAllStops(ls, pair, stops, t) = (CHOOSE g : Folded(stops, ls, pair, t, g))[DOMAIN stops]
  BY DEF WithAllStops, FoldLeft, MapThenFoldSet, Folded, AfterStops

LEMMA MaxIs ==
  ASSUME NEW n \in Nat, NEW ss \in SUBSET (0..n), ss # {}
  PROVE  Max(ss) \in ss /\ \A x \in ss : x <= Max(ss)
<1>1. \E x \in ss : \A y \in ss : y <= x
  BY GreatestExists
<1>2. \E x \in ss : \A y \in ss : x >= y
  BY <1>1
<1>3. Max(ss) \in ss /\ \A y \in ss : Max(ss) >= y
  BY <1>2 DEF Max
<1>4. \A x \in ss : x \in Int
  OBVIOUS
<1> QED BY <1>3, <1>4

LEMMA FoldedExists ==
  ASSUME NEW n \in Nat, NEW stops, DOMAIN stops = 1..n, NEW ls, NEW pair, NEW t
  PROVE  \E g : Folded(stops, ls, pair, t, g)
<1> DEFINE S == 1..n
           A(ss, g) == AfterStops(stops, ls, pair, t, ss, g)
           D(m) == {ss \in SUBSET S : Cardinality(ss) < m}
           Good(m) == \E g : \A ss \in D(m) : g[ss] = A(ss, g)
           Bad == {m \in Nat : ~Good(m)}
<1>1. \A ss \in SUBSET S : IsFiniteSet(ss) /\ Cardinality(ss) \in Nat /\ Cardinality(ss) <= n
  <2>1. IsFiniteSet(S) /\ Cardinality(S) = n
    BY FS_Interval
  <2> QED BY <2>1, FS_Subset, FS_CardinalityType
<1>2. Good(0)
  <2>1. D(0) = {}
    BY <1>1
  <2> QED BY <2>1
<1>3. ASSUME NEW m \in Nat, Good(m) PROVE Good(m + 1)
  <2>1. PICK g : \A ss \in D(m) : g[ss] = A(ss, g)
    BY <1>3
  <2> DEFINE h == [ss \in D(m + 1) |-> A(ss, g)]
  <2>2. ASSUME NEW ss \in D(m + 1), ss # {}
        PROVE  ss \ {Max(ss)} \in D(m) /\ ss \ {Max(ss)} \in D(m + 1)
    <3>1. Max(ss) \in ss
      <4>1. ss \in SUBSET (0..n)
        OBVIOUS
      <4> QED BY <2>2, <4>1, MaxIs
    <3>2. Cardinality(ss \ {Max(ss)}) = Cardinality(ss) - 1
      BY <1>1, <3>1, FS_RemoveElement
    <3>3. Cardinality(ss) \in Nat /\ Cardinality(ss) < m + 1
      BY <1>1
    <3>4. Cardinality(ss \ {Max(ss)}) < m /\ Cardinality(ss \ {Max(ss)}) < m + 1
      BY <3>2, <3>3
    <3>5. ss \ {Max(ss)} \in SUBSET S
      OBVIOUS
    <3> HIDE DEF S
    <3> QED BY <3>4, <3>5
  <2>3. ASSUME NEW ss \in D(m + 1) PROVE h[ss] = A(ss, h)
    <3>1. CASE ss = {}
      BY <3>1 DEF AfterStops
    <3>2. CASE ss # {}
      <4> DEFINE r == ss \ {Max(ss)}
      <4>1. r \in D(m) /\ r \in D(m + 1)
        BY <2>2, <3>2
      <4>2. h[r] = A(r, g) /\ g[r] = A(r, g)
        BY <2>1, <4>1
      <4>3. h[ss] = WithStops(g[r], pair, stops[Max(ss)], t)
        BY <3>2 DEF AfterStops
      <4>4. g[r] = h[r]
        BY <4>2
      <4> HIDE DEF h, r
      <4>5. h[ss] = WithStops(h[r], pair, stops[Max(ss)], t)
        BY <4>3, <4>4
      <4> QED BY <3>2, <4>5 DEF AfterStops, r
    <3> QED BY <3>1, <3>2
  <2> HIDE DEF h, D, A
  <2> QED BY <2>3
<1> HIDE DEF Good
<1>4. \A m \in Nat : Good(m)
  <2> SUFFICES ASSUME Bad # {} PROVE FALSE
    OBVIOUS
  <2>1. PICK m \in Bad : \A x \in Bad : m <= x
    BY LeastExists
  <2>2. m # 0 /\ m \in Nat
    BY <1>2, <2>1
  <2>3. m - 1 \in Nat /\ m - 1 \notin Bad /\ m = (m - 1) + 1
    BY <2>1, <2>2
  <2>4. Good(m - 1)
    BY <2>3
  <2>5. Good(m)
    BY <1>3, <2>3, <2>4
  <2> QED BY <2>1, <2>5
<1>5. D(n + 1) = SUBSET S
  BY <1>1
<1>6. PICK g : \A ss \in SUBSET S : g[ss] = A(ss, g)
  <2>1. n + 1 \in Nat
    OBVIOUS
  <2> QED BY <1>4, <1>5, <2>1 DEF Good
<1> DEFINE h == [ss \in SUBSET S |-> g[ss]]
<1>7. ASSUME NEW ss \in SUBSET S PROVE h[ss] = A(ss, h)
  <2>1. ss \ {Max(ss)} \in SUBSET S
    OBVIOUS
  <2>2. h[ss \ {Max(ss)}] = g[ss \ {Max(ss)}]
    BY <2>1
  <2>3. A(ss, h) = A(ss, g)
    BY <2>2 DEF AfterStops
  <2> QED BY <1>6, <2>3
<1>8. Folded(stops, ls, pair, t, h)
  <2>1. h = [ss \in SUBSET S |-> h[ss]]
    OBVIOUS
  <2> HIDE DEF h
  <2>2. h = [ss \in SUBSET S |-> A(ss, h)]
    BY <1>7, <2>1
  <2> QED BY <2>2 DEF Folded
<1> QED BY <1>8

\* What the protections ask for is covered after the last of them, and no lock is lost.
LEMMA AllStopsCovered ==
  ASSUME NEW n \in Nat, NEW stops, DOMAIN stops = 1..n,
         NEW ls, Timed(ls), NEW pair, NEW t,
         \A i \in 1..n : \A s \in stops[i] : s.until \in Int
  PROVE  LET after == WithAllStops(ls, pair, stops, t) IN
         /\ ls \subseteq after /\ Timed(after)
         /\ \A i \in 1..n : \A s \in stops[i] : Covers(after, pair, s.side, s.until)
<1> DEFINE g == CHOOSE f : Folded(stops, ls, pair, t, f)
           A(ss) == AfterStops(stops, ls, pair, t, ss, g)
           Good(k) == /\ ls \subseteq g[1..k] /\ Timed(g[1..k])
                      /\ \A i \in 1..k : \A s \in stops[i] : Covers(g[1..k], pair, s.side, s.until)
           Bad == {k \in Nat : k <= n /\ ~Good(k)}
<1>1. \A ss \in SUBSET (1..n) : g[ss] = A(ss)
  <2>1. Folded(stops, ls, pair, t, g)
    BY FoldedExists
  <2> HIDE DEF g
  <2> QED BY <2>1 DEF Folded
<1> HIDE DEF g
<1>2. Good(0)
  <2>1. 1..0 = {} /\ {} \in SUBSET (1..n)
    OBVIOUS
  <2>2. g[{}] = ls
    BY <1>1, <2>1 DEF AfterStops
  <2> QED BY <2>1, <2>2
<1>3. ASSUME NEW k \in Nat, k < n, Good(k) PROVE Good(k + 1)
  <2> DEFINE before == g[1..k]
             after == g[1..(k + 1)]
  <2>1. 1..(k + 1) \in SUBSET (1..n) /\ 1..(k + 1) # {}
    BY <1>3
  <2>2. Max(1..(k + 1)) = k + 1
    <3> DEFINE r == 1..(k + 1)
    <3>1. r \in SUBSET (0..n) /\ r # {} /\ k + 1 \in r /\ \A x \in r : x \in Int /\ x <= k + 1
      <4>1. k + 1 \in Nat /\ k + 1 <= n
        BY <1>3
      <4> QED BY <4>1
    <3>2. Max(r) \in r /\ \A x \in r : x <= Max(r)
      BY <3>1, MaxIs
    <3> HIDE DEF r
    <3>3. Max(r) <= k + 1 /\ k + 1 <= Max(r) /\ Max(r) \in Int
      BY <3>1, <3>2
    <3> QED BY <3>3 DEF r
  <2>3. (1..(k + 1)) \ {k + 1} = 1..k
    OBVIOUS
  <2>4. after = WithStops(before, pair, stops[k + 1], t)
    BY <1>1, <2>1, <2>2, <2>3 DEF AfterStops
  <2>5. k + 1 \in 1..n
    BY <1>3
  <2>6. /\ Timed(before) /\ ls \subseteq before
        /\ \A i \in 1..k : \A s \in stops[i] : Covers(before, pair, s.side, s.until)
    BY <1>3
  <2> HIDE DEF before, after
  <2>7. /\ before \subseteq after /\ Timed(after)
        /\ \A s \in stops[k + 1] : Covers(after, pair, s.side, s.until)
    BY <2>4, <2>5, <2>6, StopsCovered
  <2>8. ASSUME NEW i \in 1..(k + 1), NEW s \in stops[i] PROVE Covers(after, pair, s.side, s.until)
    <3>1. CASE i = k + 1
      BY <2>7, <3>1
    <3>2. CASE i # k + 1
      <4>1. i \in 1..k
        BY <3>2
      <4> QED BY <2>6, <2>7, <4>1, CoversMore
    <3> QED BY <3>1, <3>2
  <2> QED BY <2>6, <2>7, <2>8 DEF after
<1> HIDE DEF Good
<1>4. Bad = {}
  <2> SUFFICES ASSUME Bad # {} PROVE FALSE
    OBVIOUS
  <2>1. PICK k \in Bad : \A x \in Bad : k <= x
    BY LeastExists
  <2>2. k # 0 /\ k \in Nat /\ k <= n
    BY <1>2, <2>1
  <2>3. k - 1 \in Nat /\ k - 1 \notin Bad /\ k = (k - 1) + 1 /\ k - 1 < n
    BY <2>1, <2>2
  <2>4. Good(k - 1)
    BY <2>2, <2>3
  <2>5. Good(k)
    BY <1>3, <2>3, <2>4
  <2> QED BY <2>1, <2>5
<1>5. Good(n)
  BY <1>4
<1> QED BY <1>5, FoldIsChosen DEF Good, g
-----------------------------------------------------------------------------
(* What the protections ask for                                              *)

Trade == [id : Nat, pair : Pairs, side : Sides, close : Nat, profit : Int, stop : BOOLEAN]

\* Trades that were closed by now.
Closed(ts, t) == IsFiniteSet(ts) /\ ts \subseteq Trade /\ \A x \in ts : x.close <= t

LEMMA LockEndIs ==
  ASSUME NEW cfg \in ProtectionType, NEW t \in Nat, NEW ts, Closed(ts, t), ts # {}
  PROVE  /\ LockEnd(cfg, ts) \in Int
         /\ cfg.unlockAt < 0 => \A x \in ts : x.close + cfg.duration <= LockEnd(cfg, ts)
<1> DEFINE closes == {x.close : x \in ts}
           last == Max(closes)
           at == (last - (last % Minutes)) + cfg.unlockAt
<1>1. closes \in SUBSET (0..t) /\ closes # {}
  BY DEF Closed, Trade
<1>2. last \in closes /\ \A c \in closes : c <= last
  BY <1>1, MaxIs
<1>3. last \in Nat
  BY <1>1, <1>2
<1>4. cfg.unlockAt \in Int /\ cfg.duration \in Int
  BY DEF ProtectionType
<1>5. LockEnd(cfg, ts) = IF cfg.unlockAt < 0 THEN last + cfg.duration
                         ELSE IF at < last THEN at + Minutes ELSE at
  BY DEF LockEnd
<1>6. \A x \in ts : x.close <= last /\ x.close \in Nat
  BY <1>2 DEF Closed, Trade
<1> HIDE DEF last
<1>7. at \in Int /\ Minutes \in Int
  <2>1. last % Minutes \in Int
    BY <1>3, TimeAssumption
  <2> QED BY <1>3, <1>4, <2>1, TimeAssumption
<1> HIDE DEF at
<1>8. LockEnd(cfg, ts) \in Int
  BY <1>3, <1>4, <1>5, <1>7
<1>9. cfg.unlockAt < 0 => \A x \in ts : x.close + cfg.duration <= LockEnd(cfg, ts)
  BY <1>3, <1>4, <1>5, <1>6
<1> QED BY <1>8, <1>9

\* A stop ends at a time.
LEMMA StopTimed ==
  ASSUME NEW cfg \in ProtectionType, NEW t \in Nat, NEW ts, Closed(ts, t), ts # {}, NEW side,
         NEW s \in Stop(cfg, ts, side)
  PROVE  s.until \in Int
  BY LockEndIs DEF Stop

\* The trades a protection looks at were closed, and the limit leaves one at least.
LEMMA SomeClosed ==
  ASSUME NEW cfg \in ProtectionType, NEW t \in Nat, NEW ts, Closed(ts, t), NEW us \in SUBSET ts
  PROVE  Closed(us, t) /\ (~(Cardinality(us) < cfg.limit) => us # {})
<1>1. IsFiniteSet(us)
  BY FS_Subset DEF Closed
<1>2. us = {} => Cardinality(us) = 0
  BY FS_EmptySet
<1>3. cfg.limit \in Nat /\ cfg.limit > 0
  BY DEF ProtectionType
<1> QED BY <1>1, <1>2, <1>3 DEF Closed

LEMMA ProtectionsTimed ==
  ASSUME NEW cfg \in ProtectionType, NEW t \in Nat, NEW ts, Closed(ts, t), NEW side, NEW pair
  PROVE  /\ \A s \in PairStop(cfg, ts, pair, t, side) : s.until \in Int
         /\ \A s \in AllPairsStop(cfg, ts, t, side) : s.until \in Int
<1>1. ASSUME NEW us, Closed(us, t)
      PROVE  /\ \A s \in CooldownPeriod(cfg, us, t) : s.until \in Int
             /\ \A s \in StoplossGuard(cfg, us, t, side) : s.until \in Int
             /\ \A s \in LowProfitPairs(cfg, us, t, side) : s.until \in Int
             /\ \A s \in MaxDrawdown(cfg, us, t) : s.until \in Int
  <2> DEFINE late == ClosedAfter(us, t - cfg.lookback)
             losses == {x \in late : /\ x.stop /\ x.profit # 0 /\ x.profit < cfg.profit
                                     /\ cfg.perSide => x.side = side}
  <2>1. late \in SUBSET us /\ losses \in SUBSET us
    BY DEF ClosedAfter
  <2>2. /\ Closed(late, t) /\ (~(Cardinality(late) < cfg.limit) => late # {})
        /\ Closed(losses, t) /\ (~(Cardinality(losses) < cfg.limit) => losses # {})
    <3> HIDE DEF late, losses
    <3> QED BY <1>1, <2>1, SomeClosed
  <2>3. \A s \in CooldownPeriod(cfg, us, t) : late # {} /\ s \in Stop(cfg, late, "*")
    BY DEF CooldownPeriod
  <2>4. \A s \in StoplossGuard(cfg, us, t, side) :
           ~(Cardinality(losses) < cfg.limit) /\ s \in Stop(cfg, losses, SideOf(cfg, side))
    BY DEF StoplossGuard
  <2>5. \A s \in LowProfitPairs(cfg, us, t, side) :
           ~(Cardinality(late) < cfg.limit) /\ s \in Stop(cfg, late, SideOf(cfg, side))
    BY DEF LowProfitPairs
  <2>6. \A s \in MaxDrawdown(cfg, us, t) : late # {} /\ s \in Stop(cfg, late, "*")
    BY DEF MaxDrawdown
  <2> HIDE DEF late, losses
  <2>7. \A s \in CooldownPeriod(cfg, us, t) : s.until \in Int
    BY <2>2, <2>3, StopTimed
  <2>8. \A s \in StoplossGuard(cfg, us, t, side) : s.until \in Int
    BY <2>2, <2>4, StopTimed
  <2>9. \A s \in LowProfitPairs(cfg, us, t, side) : s.until \in Int
    BY <2>2, <2>5, StopTimed
  <2>10. \A s \in MaxDrawdown(cfg, us, t) : s.until \in Int
    BY <2>2, <2>6, StopTimed
  <2> QED BY <2>7, <2>8, <2>9, <2>10
<1> DEFINE us == {x \in ts : x.pair = pair}
<1>2. Closed(us, t)
  BY SomeClosed
<1>3. \A s \in PairStop(cfg, ts, pair, t, side) :
         \/ s \in CooldownPeriod(cfg, us, t) \/ s \in StoplossGuard(cfg, us, t, side)
         \/ s \in LowProfitPairs(cfg, us, t, side)
  BY DEF PairStop
<1>4. \A s \in AllPairsStop(cfg, ts, t, side) :
         s \in StoplossGuard(cfg, ts, t, side) \/ s \in MaxDrawdown(cfg, ts, t)
  BY DEF AllPairsStop
<1> HIDE DEF us
<1>5. \A s \in PairStop(cfg, ts, pair, t, side) : s.until \in Int
  BY <1>1, <1>2, <1>3
<1>6. \A s \in AllPairsStop(cfg, ts, t, side) : s.until \in Int
  BY <1>1, <1>4
<1> QED BY <1>5, <1>6

\* The losses a guard counts at time r, up to the trade `last`.
Losses(g, ts, last, r) ==
  {x \in ts : /\ x.stop /\ x.profit < g.profit /\ x.profit # 0
              /\ x.id <= last.id /\ x.close > r - g.lookback
              /\ g.perSide => x.side = last.side}

\* They make a guard of all pairs stop them for its duration.
Tripped(g, ts, last, r) ==
  /\ g.method = "StoplossGuard" /\ ~g.perPair /\ g.unlockAt < 0
  /\ last \in Losses(g, ts, last, r) /\ Cardinality(Losses(g, ts, last, r)) >= g.limit

LEMMA GuardStops ==
  ASSUME NEW cfg \in ProtectionType, NEW t \in Nat, NEW ts, Closed(ts, t), NEW last \in ts,
         \A x \in ts : x.id <= last.id, Tripped(cfg, ts, last, t)
  PROVE  \E s \in AllPairsStop(cfg, ts, t, last.side) :
            s.side = SideOf(cfg, last.side) /\ last.close + cfg.duration <= s.until
<1> DEFINE losses == {x \in ClosedAfter(ts, t - cfg.lookback) :
                        /\ x.stop /\ x.profit # 0 /\ x.profit < cfg.profit
                        /\ cfg.perSide => x.side = last.side}
           s == [until |-> LockEnd(cfg, losses), side |-> SideOf(cfg, last.side), reason |-> cfg.method]
<1>1. losses = Losses(cfg, ts, last, t)
  BY DEF Losses, ClosedAfter
<1>2. last \in losses /\ losses \in SUBSET ts /\ Cardinality(losses) >= cfg.limit
  BY <1>1 DEF Tripped, Losses
<1>3. ~(Cardinality(losses) < cfg.limit)
  <2>1. IsFiniteSet(losses)
    BY <1>2, FS_Subset DEF Closed
  <2>2. Cardinality(losses) \in Nat /\ cfg.limit \in Nat
    BY <2>1, FS_CardinalityType DEF ProtectionType
  <2> HIDE DEF losses
  <2> QED BY <1>2, <2>2
<1>4. AllPairsStop(cfg, ts, t, last.side) = Stop(cfg, losses, SideOf(cfg, last.side))
  <2>1. AllPairsStop(cfg, ts, t, last.side) = StoplossGuard(cfg, ts, t, last.side)
    BY DEF AllPairsStop, Tripped
  <2>2. StoplossGuard(cfg, ts, t, last.side)
          = IF Cardinality(losses) < cfg.limit THEN {} ELSE Stop(cfg, losses, SideOf(cfg, last.side))
    BY DEF StoplossGuard
  <2> QED BY <1>3, <2>1, <2>2
<1> HIDE DEF losses
<1>5. s \in AllPairsStop(cfg, ts, t, last.side)
  BY <1>4 DEF Stop
<1>6. last.close + cfg.duration <= LockEnd(cfg, losses)
  BY <1>2, LockEndIs, SomeClosed DEF Tripped
<1> QED BY <1>5, <1>6
-----------------------------------------------------------------------------
(* The inductive invariant                                                   *)

TaskType ==
  {Idle} \cup [at : {"entering"}, end : Nat]
  \cup [at : {"auto", "pair", "global"}, id : Nat, pair : Pairs, side : Sides]

Typed ==
  /\ now \in Nat /\ config \in Seq(ProtectionType)
  /\ Timed(locks)
  /\ open \in [Pairs -> Sides \cup {"none"}]
  /\ Closed(trades, now)
  /\ task \in TaskType
  /\ ran \in [1..MaxTrades -> Int]

Closing == task.at \in {"auto", "pair", "global"}

\* Trades have their numbers in the order of their closing, and the one whose locks
\* are being set is the last.  The analyzed candle has ended.
Numbered ==
  /\ \A t \in trades : t.id \in 1..Cardinality(trades)
  /\ \A t, u \in trades : t.id = u.id => t = u
  /\ Cardinality(trades) <= MaxTrades
  /\ \A i \in 1..MaxTrades : i > Cardinality(trades) => ran[i] < 0
  /\ Closing => /\ task.id = Cardinality(trades) /\ ran[task.id] < 0
                /\ \E t \in trades : t.id = task.id /\ t.pair = task.pair /\ t.side = task.side
  /\ task.at = "entering" => task.end <= now

\* Every pause that was asked for is covered by a lock.
Demanded == \A d \in demands : d.until \in Int /\ Covers(locks, d.pair, d.side, d.until)

\* The lock of the rest of the candle is set: right after the closing, and until a
\* lock is released.
Locking(t) == task.at \in {"pair", "global"} /\ task.id = t.id /\ ran[t.id] # -2

Paused ==
  \A t \in trades :
    (ran[t.id] >= 0 \/ Locking(t)) /\ now < NextDate(t.close)
      => Covers(locks, t.pair, t.side, NextDate(t.close))

\* A guard of all pairs that was tripped has all pairs locked.
Stopped ==
  \A i \in DOMAIN config, last \in trades :
    ran[last.id] >= 0 /\ Tripped(config[i], trades, last, ran[last.id]) /\ now < last.close + config[i].duration
      => Covers(locks, "*", SideOf(config[i], last.side), last.close + config[i].duration)

Inv == Typed /\ Numbered /\ Demanded /\ Paused /\ Stopped

\* The configuration is one of those the constants allow.
LEMMA ConfigIs ==
  ASSUME Typed, NEW i \in DOMAIN config
  PROVE  config[i] \in ProtectionType
<1>1. config \in Seq(ProtectionType)
  BY DEF Typed
<1> QED BY <1>1

LEMMA InitInv ==
  ASSUME Init
  PROVE  Inv
<1>1. /\ now = 0 /\ config \in Configs /\ locks = {} /\ open = [p \in Pairs |-> "none"]
      /\ trades = {} /\ task = Idle /\ demands = {} /\ ran = [i \in 1..MaxTrades |-> -1]
  BY DEF Init
<1>2. Typed
  <2>1. config \in Seq(ProtectionType)
    BY <1>1, LockingAssumption
  <2>2. Closed(trades, now)
    BY <1>1, FS_EmptySet DEF Closed
  <2>3. -1 \in Int
    OBVIOUS
  <2> QED BY <1>1, <2>1, <2>2, <2>3 DEF Typed, Timed, TaskType
<1>3. Numbered
  <2>1. Cardinality(trades) = 0
    BY <1>1, FS_EmptySet
  <2>2. \A i \in 1..MaxTrades : ran[i] < 0
    BY <1>1
  <2>3. task.at = "idle"
    BY <1>1 DEF Idle
  <2> QED BY <1>1, <2>1, <2>2, <2>3, LockingAssumption DEF Numbered, Closing
<1> QED BY <1>1, <1>2, <1>3 DEF Inv, Demanded, Paused, Stopped

LEMMA NextGrows ==
  ASSUME NEW a \in Int, NEW b \in Int, a <= b
  PROVE  NextDate(a) <= NextDate(b)
<1> DEFINE f == Timeframe
           p == a \div f
           q == b \div f
<1>1. f \in Nat /\ f > 0
  BY TimeAssumption
<1>2. /\ p \in Int /\ a % f \in 0..(f - 1) /\ a = f * p + (a % f)
      /\ q \in Int /\ b % f \in 0..(f - 1) /\ b = f * q + (b % f)
  BY <1>1
<1>3. NextDate(a) = (p + 1) * f /\ NextDate(b) = (q + 1) * f
  BY DEF NextDate
<1>4. \A x \in Int, y \in Int : x <= y => f * x <= f * y
  <2> SUFFICES ASSUME NEW x \in Int, NEW y \in Int, x <= y PROVE f * x <= f * y
    OBVIOUS
  <2>1. f * (y - x) >= 0
    BY <1>1
  <2>2. f * (y - x) = f * y - f * x
    BY <1>1
  <2> QED BY <1>1, <2>1, <2>2
<1> DEFINE m == a % f
           n == b % f
<1> HIDE DEF f, p, q, m, n
<1>5. p <= q
  <2> SUFFICES ASSUME q + 1 <= p PROVE FALSE
    BY <1>2
  <2>1. f * (q + 1) <= f * p
    BY <1>2, <1>4
  <2>2. f * (q + 1) = f * q + f
    BY <1>1, <1>2
  <2>3. /\ f * p \in Int /\ f * q \in Int /\ m \in 0..(f - 1) /\ n \in 0..(f - 1)
        /\ a = f * p + m /\ b = f * q + n
    BY <1>1, <1>2 DEF m, n
  <2> QED BY <1>1, <2>1, <2>2, <2>3
<1>6. f * (p + 1) <= f * (q + 1)
  BY <1>2, <1>4, <1>5
<1>7. f * (p + 1) = (p + 1) * f /\ f * (q + 1) = (q + 1) * f
  BY <1>1, <1>2
<1> QED BY <1>3, <1>6, <1>7

\* A set of locks that keeps those of another keeps what they cover.
LEMMA DemandsKept ==
  ASSUME Inv, locks \subseteq locks',
         \A d \in demands' : d \notin demands => d.until \in Int /\ Covers(locks', d.pair, d.side, d.until)
  PROVE  Demanded'
  BY CoversMore DEF Inv, Demanded

LEMMA StopsKept ==
  ASSUME Inv, locks \subseteq locks', UNCHANGED <<now, config, trades, ran>>
  PROVE  Stopped'
  BY CoversMore DEF Inv, Stopped

\* No step but those that set the locks, or release them, needs more than this.
LEMMA LocksGrow ==
  ASSUME Inv, locks \subseteq locks', Timed(locks'), UNCHANGED <<now, config, open, trades, task, ran>>
  PROVE  Typed' /\ Numbered' /\ Paused' /\ Stopped'
<1>1. Typed' /\ Numbered'
  BY DEF Inv, Typed, Numbered, Closing
<1>2. Paused'
  BY CoversMore DEF Inv, Paused, Locking
<1> QED BY <1>1, <1>2, StopsKept

\* A lock that is not over is not thrown away.
LEMMA ClockKeeps ==
  ASSUME Typed, Clock, NEW pair, NEW side, NEW until \in Int, until > now',
         Covers(locks, pair, side, until)
  PROVE  Covers(locks', pair, side, until)
<1>1. PICK l \in locks : l.pair \in {pair, "*"} /\ l.side \in {side, "*"} /\ l.until >= until
  BY DEF Covers
<1>2. now' = now + 1 /\ locks' = {x \in locks : x.until > now - 2 * Timeframe}
  BY DEF Clock
<1>3. l.until \in Int /\ now \in Nat /\ Timeframe \in Nat
  BY TimeAssumption DEF Typed, Timed
<1>4. l.until > now - 2 * Timeframe
  BY <1>1, <1>2, <1>3
<1> QED BY <1>1, <1>2, <1>4 DEF Covers

LEMMA ClockInv ==
  ASSUME Inv, Clock
  PROVE  Inv'
<1>1. /\ now' = now + 1 /\ locks' \subseteq locks /\ task.at \notin {"pair", "global"}
      /\ demands' = {d \in demands : d.until > now + 1}
      /\ UNCHANGED <<config, open, trades, task, ran>>
  BY DEF Clock
<1>2. now \in Nat /\ now' \in Nat /\ now <= now'
  BY <1>1 DEF Inv, Typed
<1>3. \A t \in trades : t.close \in Nat /\ t.close <= now
  BY DEF Inv, Typed, Closed, Trade
<1>4. Typed'
  <2>1. Closed(trades, now')
    <3>1. \A t \in trades : t.close <= now'
      BY <1>2, <1>3
    <3> QED BY <3>1 DEF Inv, Typed, Closed
  <2> QED BY <1>1, <1>2, <2>1 DEF Inv, Typed, Timed
<1>5. Numbered'
  <2>1. task.at = "entering" => task.end <= now'
    <3>1. task.at = "entering" => task.end \in Nat /\ task.end <= now
      BY DEF Inv, Typed, TaskType, Numbered, Idle
    <3> QED BY <1>2, <3>1
  <2> QED BY <1>1, <2>1 DEF Inv, Numbered, Closing
<1>6. Demanded'
  BY <1>1, ClockKeeps DEF Inv, Demanded
<1>7. Paused'
  <2>1. ASSUME NEW t \in trades, ran[t.id] >= 0 \/ Locking(t), now' < NextDate(t.close)
        PROVE  Covers(locks', t.pair, t.side, NextDate(t.close))
    <3>1. t.close \in Nat
      BY <1>3
    <3>2. NextDate(t.close) \in Int
      BY <3>1, NextIsLater
    <3>3. now < NextDate(t.close) /\ NextDate(t.close) > now'
      BY <1>2, <2>1, <3>2
    <3>4. Covers(locks, t.pair, t.side, NextDate(t.close))
      BY <2>1, <3>3 DEF Inv, Paused
    <3> QED BY <3>2, <3>3, <3>4, ClockKeeps DEF Inv
  <2> QED BY <1>1, <2>1 DEF Paused, Locking
<1>8. Stopped'
  <2>1. ASSUME NEW i \in DOMAIN config, NEW t \in trades, ran[t.id] >= 0,
               Tripped(config[i], trades, t, ran[t.id]), now' < t.close + config[i].duration
        PROVE  Covers(locks', "*", SideOf(config[i], t.side), t.close + config[i].duration)
    <3>1. t.close + config[i].duration \in Int
      <4>1. config[i] \in ProtectionType
        BY ConfigIs DEF Inv
      <4>2. config[i].duration \in Int /\ t.close \in Int
        BY <1>3, <4>1 DEF ProtectionType
      <4> QED BY <4>2
    <3>2. PICK until \in Int : until = t.close + config[i].duration
      BY <3>1
    <3>3. PICK side : side = SideOf(config[i], t.side)
      OBVIOUS
    <3>4. until > now' /\ now < until
      BY <1>2, <2>1, <3>2
    <3>5. Covers(locks, "*", side, until)
      BY <2>1, <3>2, <3>3, <3>4 DEF Inv, Stopped
    <3>6. Covers(locks', "*", side, until)
      BY <3>4, <3>5, ClockKeeps DEF Inv
    <3> QED BY <3>2, <3>3, <3>6
  <2>2. config' = config /\ trades' = trades /\ ran' = ran
    BY <1>1
  <2>3. \A i \in DOMAIN config, t \in trades :
          ran[t.id] >= 0 /\ Tripped(config[i], trades, t, ran[t.id]) /\ now' < t.close + config[i].duration
            => Covers(locks', "*", SideOf(config[i], t.side), t.close + config[i].duration)
    BY <2>1
  <2> QED BY <2>2, <2>3 DEF Stopped
<1> QED BY <1>4, <1>5, <1>6, <1>7, <1>8 DEF Inv

\* The analyzed candle has ended.
LEMMA AnalyzedIs ==
  ASSUME now \in Nat, NEW end \in Analyzed
  PROVE  end \in Nat /\ end <= now
<1> DEFINE f == Timeframe
           q == now \div f
           m == now % f
<1>1. f \in Nat /\ f > 0
  BY TimeAssumption
<1>2. q \in Int /\ m \in 0..(f - 1) /\ now = f * q + m
  BY <1>1
<1>3. end \in Nat /\ (end = q * f \/ end = (q - 1) * f)
  BY DEF Analyzed
<1> HIDE DEF q, m, f
<1>4. q * f = f * q /\ (q - 1) * f = f * q - f /\ f * q \in Int
  BY <1>1, <1>2
<1>5. f * q <= now
  BY <1>1, <1>2, <1>4
<1> QED BY <1>1, <1>3, <1>4, <1>5

\* What the ghosts and the numbers say does not change with the entries.
LEMMA EnteringInv ==
  ASSUME Inv, StartEntering \/ CreateTrade \/ EndEntering
  PROVE  Inv'
<1>1. /\ UNCHANGED <<locks, trades, now, config, demands, ran>>
      /\ task.at \notin {"auto", "pair", "global"} /\ task'.at \notin {"auto", "pair", "global"}
  BY DEF StartEntering, CreateTrade, EndEntering, Steady, ghosts, Idle
<1>2. open' \in [Pairs -> Sides \cup {"none"}]
  BY DEF StartEntering, CreateTrade, EndEntering, Inv, Typed
<1>3. task' \in TaskType /\ (task'.at = "entering" => task'.end <= now)
  <2>1. CASE StartEntering
    <3>1. PICK end \in Analyzed : task' = [at |-> "entering", end |-> end]
      BY <2>1 DEF StartEntering
    <3>2. end \in Nat /\ end <= now
      BY AnalyzedIs DEF Inv, Typed
    <3> QED BY <3>1, <3>2 DEF TaskType
  <2>2. CASE CreateTrade
    BY <2>2 DEF CreateTrade, Inv, Typed, Numbered
  <2>3. CASE EndEntering
    BY <2>3 DEF EndEntering, TaskType, Idle
  <2> QED BY <2>1, <2>2, <2>3
<1>4. Typed'
  BY <1>1, <1>2, <1>3 DEF Inv, Typed
<1>5. Numbered'
  BY <1>1, <1>3 DEF Inv, Numbered, Closing
<1>6. Demanded' /\ Paused' /\ Stopped'
  BY <1>1 DEF Inv, Demanded, Paused, Stopped, Locking
<1> QED BY <1>4, <1>5, <1>6 DEF Inv

LEMMA CloseTradeInv ==
  ASSUME Inv, CloseTrade
  PROVE  Inv'
<1>1. PICK p \in Pairs, how \in Outcomes :
        /\ open[p] # "none"
        /\ open' = [open EXCEPT ![p] = "none"]
        /\ LET id == Cardinality(trades) + 1 IN
           /\ trades' = trades \cup {[id |-> id, pair |-> p, side |-> open[p], close |-> now,
                                      profit |-> how.profit, stop |-> how.stop]}
           /\ task' = [at |-> "auto", id |-> id, pair |-> p, side |-> open[p]]
  BY DEF CloseTrade
<1>2. /\ task.at = "idle" /\ Cardinality(trades) < MaxTrades
      /\ UNCHANGED <<locks, now, config, demands, ran>>
  BY DEF CloseTrade, Steady, ghosts, Idle
<1> DEFINE id == Cardinality(trades) + 1
           new == [id |-> id, pair |-> p, side |-> open[p], close |-> now,
                   profit |-> how.profit, stop |-> how.stop]
<1>3. Cardinality(trades) \in Nat /\ id \in Nat /\ now \in Nat /\ open[p] \in Sides
  BY <1>1, FS_CardinalityType DEF Inv, Typed, Closed
<1>4. new \in Trade
  <2>1. how.profit \in Int /\ how.stop \in BOOLEAN
    BY LockingAssumption
  <2> QED BY <1>3, <2>1 DEF Trade
<1>5. /\ trades' = trades \cup {new} /\ new.id = id /\ new.close = now /\ new.pair = p /\ new.side = open[p]
  BY <1>1
<1>6. task' \in TaskType /\ task'.at = "auto" /\ task'.id = id /\ task'.pair = new.pair /\ task'.side = new.side
  BY <1>1, <1>3 DEF TaskType
<1>7. \A t \in trades : t.id \in Nat /\ t.id < id /\ t.id # id
  BY <1>3 DEF Inv, Numbered
<1> HIDE DEF new
<1>8. Cardinality(trades') = id /\ IsFiniteSet(trades')
  <2>1. new \notin trades
    BY <1>5, <1>7
  <2> QED BY <1>5, <2>1, FS_AddElement DEF Inv, Typed, Closed
<1>9. ran[id] < 0 /\ id \in 1..MaxTrades
  <2>1. id \in 1..MaxTrades /\ id > Cardinality(trades)
    BY <1>2, <1>3, LockingAssumption
  <2> QED BY <2>1 DEF Inv, Numbered
<1>10. Typed'
  <2>1. Closed(trades', now)
    <3>1. new.close <= now
      BY <1>3, <1>5
    <3> QED BY <1>4, <1>5, <1>8, <3>1 DEF Inv, Typed, Closed
  <2>2. open' \in [Pairs -> Sides \cup {"none"}]
    BY <1>1 DEF Inv, Typed
  <2> QED BY <1>2, <1>6, <2>1, <2>2 DEF Inv, Typed
<1>11. Numbered'
  <2>1. \A t \in trades' : t.id \in 1..id
    BY <1>3, <1>5, <1>7 DEF Inv, Numbered
  <2>2. \A t, u \in trades' : t.id = u.id => t = u
    BY <1>5, <1>7 DEF Inv, Numbered
  <2>3. \A i \in 1..MaxTrades : i > id => ran[i] < 0
    BY <1>3 DEF Inv, Numbered
  <2>4. \E t \in trades' : t.id = task'.id /\ t.pair = task'.pair /\ t.side = task'.side
    BY <1>5, <1>6
  <2>5. id <= MaxTrades
    BY <1>9
  <2> HIDE DEF id
  <2> QED BY <1>2, <1>6, <1>8, <1>9, <2>1, <2>2, <2>3, <2>4, <2>5 DEF Numbered
<1>12. Demanded'
  BY <1>2 DEF Inv, Demanded
<1>13. ASSUME NEW t \in trades', ran[t.id] >= 0
       PROVE  t \in trades
  <2>1. t # new
    <3>1. ran[id] \in Int
      BY <1>9 DEF Inv, Typed
    <3> QED BY <1>5, <1>9, <1>13, <3>1
  <2> QED BY <1>5, <2>1
<1>14. Paused'
  BY <1>2, <1>6, <1>13 DEF Inv, Paused, Locking
<1>15. ASSUME NEW g, NEW last \in trades, NEW r PROVE Tripped(g, trades', last, r) => Tripped(g, trades, last, r)
  <2>1. ~(new.id <= last.id)
    BY <1>3, <1>5, <1>7
  <2>2. Losses(g, trades', last, r) = Losses(g, trades, last, r)
    BY <1>5, <2>1 DEF Losses
  <2> QED BY <2>2 DEF Tripped
<1>16. Stopped'
  <2>1. \A i \in DOMAIN config, last \in trades' :
          ran[last.id] >= 0 /\ Tripped(config[i], trades', last, ran[last.id]) /\ now < last.close + config[i].duration
            => Covers(locks, "*", SideOf(config[i], last.side), last.close + config[i].duration)
    <3> SUFFICES ASSUME NEW i \in DOMAIN config, NEW last \in trades', ran[last.id] >= 0,
                        Tripped(config[i], trades', last, ran[last.id]), now < last.close + config[i].duration
                 PROVE  Covers(locks, "*", SideOf(config[i], last.side), last.close + config[i].duration)
      OBVIOUS
    <3>1. last \in trades
      BY <1>13
    <3>2. Tripped(config[i], trades, last, ran[last.id])
      <4>1. PICK g, r : g = config[i] /\ r = ran[last.id]
        OBVIOUS
      <4> QED BY <1>15, <3>1, <4>1
    <3> QED BY <3>1, <3>2 DEF Inv, Stopped
  <2>2. config' = config /\ ran' = ran /\ now' = now /\ locks' = locks
    BY <1>2
  <2> QED BY <2>1, <2>2 DEF Stopped
<1> QED BY <1>10, <1>11, <1>12, <1>14, <1>16 DEF Inv

\* The trade whose locks are being set.
LEMMA ClosingTrade ==
  ASSUME Inv, Closing
  PROVE  /\ task \in [at : {"auto", "pair", "global"}, id : Nat, pair : Pairs, side : Sides]
         /\ task.id \in 1..MaxTrades /\ task.id = Cardinality(trades)
         /\ \A t \in trades : /\ t.id \in Nat /\ t.id <= task.id /\ t.close \in Nat /\ t.close <= now
                              /\ t.id = task.id => t.pair = task.pair /\ t.side = task.side
<1>1. task \in [at : {"auto", "pair", "global"}, id : Nat, pair : Pairs, side : Sides]
  BY DEF Inv, Typed, TaskType, Closing, Idle
<1>2. task.id = Cardinality(trades) /\ task.id \in Nat /\ MaxTrades \in Nat
  BY <1>1, LockingAssumption DEF Inv, Numbered
<1>3. \A t \in trades : t.id \in 1..task.id
  BY <1>2 DEF Inv, Numbered
<1>4. PICK u \in trades : u.id = task.id /\ u.pair = task.pair /\ u.side = task.side
  BY DEF Inv, Numbered
<1>5. \A t \in trades : t.id = task.id => t = u
  BY <1>4 DEF Inv, Numbered
<1>6. task.id \in 1..MaxTrades
  BY <1>2, <1>3, <1>4 DEF Inv, Numbered
<1>7. \A t \in trades : t.close \in Nat /\ t.close <= now
  BY DEF Inv, Typed, Closed, Trade
<1> QED BY <1>1, <1>2, <1>3, <1>4, <1>5, <1>6, <1>7

\* The next state of a handler that sets locks is one of the handler.
LEMMA NextLocking ==
  ASSUME Inv, Closing, NEW place \in {"pair", "global"}, task' = [task EXCEPT !.at = place],
         Timed(locks'), UNCHANGED <<now, config, open, trades, ran>>
  PROVE  /\ Typed' /\ Numbered'
         /\ task'.at = place /\ task'.id = task.id /\ task'.pair = task.pair /\ task'.side = task.side
<1>1. task \in [at : {"auto", "pair", "global"}, id : Nat, pair : Pairs, side : Sides]
  BY ClosingTrade
<1>2. /\ task' \in [at : {"auto", "pair", "global"}, id : Nat, pair : Pairs, side : Sides]
      /\ task'.at = place /\ task'.id = task.id /\ task'.pair = task.pair /\ task'.side = task.side
  BY <1>1
<1>3. Typed'
  <2>1. task' \in TaskType
    BY <1>2 DEF TaskType
  <2> QED BY <2>1 DEF Inv, Typed
<1>4. Numbered'
  BY <1>2 DEF Inv, Numbered, Closing
<1> QED BY <1>2, <1>3, <1>4

LEMMA AutoLockInv ==
  ASSUME Inv, AutoLock
  PROVE  Inv'
<1>1. /\ task.at = "auto" /\ task' = [task EXCEPT !.at = "pair"]
      /\ locks' = LockPair(locks, task.pair, now, "Auto lock", now, task.side)
      /\ demands' = demands \cup {[pair |-> task.pair, side |-> task.side, until |-> NextDate(now)]}
      /\ UNCHANGED <<now, config, open, trades, ran>>
  BY DEF AutoLock, WithAutoLock, Steady
<1>2. Closing
  BY <1>1 DEF Closing
<1>3. now \in Nat /\ now \in Int /\ NextDate(now) \in Int
  BY NextIsLater DEF Inv, Typed
<1>4. PICK pair, side, t : pair = task.pair /\ side = task.side /\ t = now /\ t \in Int
  BY <1>3
<1>5. /\ locks \subseteq locks' /\ Timed(locks')
      /\ Covers(locks', task.pair, task.side, NextDate(now))
  <2>1. PICK ls : ls = locks
    OBVIOUS
  <2>2. Timed(ls)
    BY <2>1 DEF Inv, Typed
  <2>3. locks' = LockPair(ls, pair, t, "Auto lock", t, side)
    BY <1>1, <1>4, <2>1
  <2> QED BY <1>4, <2>1, <2>2, <2>3, LockPairCovers
<1>6. Typed' /\ Numbered' /\ task'.id = task.id
  BY <1>1, <1>2, <1>5, NextLocking
<1>7. Demanded'
  <2>1. ASSUME NEW d \in demands', d \notin demands
        PROVE  d.until \in Int /\ Covers(locks', d.pair, d.side, d.until)
    <3>1. d = [pair |-> task.pair, side |-> task.side, until |-> NextDate(now)]
      BY <1>1, <2>1
    <3>2. d.pair = task.pair /\ d.side = task.side /\ d.until = NextDate(now)
      BY <3>1
    <3> QED BY <1>3, <1>5, <3>2
  <2> QED BY <1>5, <2>1, DemandsKept
<1>8. Paused'
  <2>1. ASSUME NEW x \in trades, ran[x.id] >= 0 \/ task.id = x.id, now < NextDate(x.close)
        PROVE  Covers(locks', x.pair, x.side, NextDate(x.close))
    <3>1. CASE ran[x.id] >= 0
      BY <1>5, <2>1, <3>1, CoversMore DEF Inv, Paused
    <3>2. CASE task.id = x.id
      <4>1. x.pair = task.pair /\ x.side = task.side /\ x.close \in Nat /\ x.close <= now
        BY <1>2, <3>2, ClosingTrade
      <4>2. NextDate(x.close) \in Int /\ NextDate(x.close) <= NextDate(now)
        BY <1>3, <4>1, NextIsLater, NextGrows
      <4>3. PICK ls : ls = locks'
        OBVIOUS
      <4>4. PICK until \in Int : until = NextDate(now)
        BY <1>3
      <4>5. Covers(ls, pair, side, NextDate(x.close))
        BY <1>4, <1>5, <4>2, <4>3, <4>4, CoversLess
      <4> QED BY <1>4, <4>1, <4>3, <4>5
    <3> QED BY <2>1, <3>1, <3>2
  <2> QED BY <1>1, <1>6, <2>1 DEF Paused, Locking
<1>9. Stopped'
  BY <1>1, <1>5, StopsKept
<1> QED BY <1>6, <1>7, <1>8, <1>9 DEF Inv

\* The locks after the stops of all protections of a configuration.
LEMMA WithProtections ==
  ASSUME Typed, NEW stops, DOMAIN stops = DOMAIN config, NEW pair,
         \A i \in DOMAIN config : \A s \in stops[i] : s.until \in Int,
         locks' = WithAllStops(locks, pair, stops, now)
  PROVE  /\ locks \subseteq locks' /\ Timed(locks')
         /\ \A i \in DOMAIN config : \A s \in stops[i] : Covers(locks', pair, s.side, s.until)
<1>1. PICK ls, t, n : ls = locks /\ t = now /\ n = Len(config) /\ n \in Nat
  BY DEF Typed
<1>2. DOMAIN config = 1..n
  BY <1>1 DEF Typed
<1>3. Timed(ls) /\ locks' = WithAllStops(ls, pair, stops, t)
  BY <1>1 DEF Typed
<1> QED BY <1>1, <1>2, <1>3, AllStopsCovered

LEMMA LockPerPairInv ==
  ASSUME Inv, LockPerPair
  PROVE  Inv'
<1>1. PICK pair, stops :
        /\ pair = task.pair
        /\ stops = [i \in DOMAIN config |-> PairStop(config[i], trades, task.pair, now, task.side)]
  OBVIOUS
<1>2. /\ task.at = "pair" /\ task' = [task EXCEPT !.at = "global"]
      /\ locks' = WithAllStops(locks, pair, stops, now)
      /\ demands' = demands \cup UNION {Asked(pair, stops[i]) : i \in DOMAIN config}
      /\ UNCHANGED <<now, config, open, trades, ran>>
  BY <1>1 DEF LockPerPair, StopPerPair, Steady
<1>3. Closing /\ DOMAIN stops = DOMAIN config
  BY <1>1, <1>2 DEF Closing
<1>4. \A i \in DOMAIN config : \A s \in stops[i] : s.until \in Int
  <2> SUFFICES ASSUME NEW i \in DOMAIN config, NEW s \in stops[i] PROVE s.until \in Int
    OBVIOUS
  <2>1. PICK cfg, ts, t, side : cfg = config[i] /\ ts = trades /\ t = now /\ side = task.side
    OBVIOUS
  <2>2. cfg \in ProtectionType /\ Closed(ts, t) /\ t \in Nat
    BY <2>1, ConfigIs DEF Inv, Typed
  <2>3. s \in PairStop(cfg, ts, pair, t, side)
    BY <1>1, <2>1
  <2> QED BY <2>2, <2>3, ProtectionsTimed
<1>5. /\ locks \subseteq locks' /\ Timed(locks')
      /\ \A i \in DOMAIN config : \A s \in stops[i] : Covers(locks', pair, s.side, s.until)
  BY <1>2, <1>3, <1>4, WithProtections DEF Inv
<1>6. Typed' /\ Numbered' /\ task'.id = task.id /\ task'.at = "global"
  BY <1>2, <1>3, <1>5, NextLocking
<1>7. Demanded'
  <2>1. ASSUME NEW d \in demands', d \notin demands
        PROVE  d.until \in Int /\ Covers(locks', d.pair, d.side, d.until)
    <3>1. PICK i \in DOMAIN config : d \in Asked(pair, stops[i])
      BY <1>2, <2>1
    <3>2. PICK s \in stops[i] : d = [pair |-> pair, side |-> s.side, until |-> s.until]
      BY <3>1 DEF Asked
    <3> QED BY <1>4, <1>5, <3>2
  <2> QED BY <1>5, <2>1, DemandsKept
<1>8. Paused'
  BY <1>2, <1>5, <1>6, CoversMore DEF Inv, Paused, Locking
<1>9. Stopped'
  BY <1>2, <1>5, StopsKept
<1> QED BY <1>6, <1>7, <1>8, <1>9 DEF Inv

LEMMA LockGloballyInv ==
  ASSUME Inv, LockGlobally
  PROVE  Inv'
<1>1. PICK stops : stops = [i \in DOMAIN config |-> AllPairsStop(config[i], trades, now, task.side)]
  OBVIOUS
<1>2. /\ task.at = "global" /\ task' = Idle
      /\ locks' = WithAllStops(locks, "*", stops, now)
      /\ demands' = demands \cup UNION {Asked("*", stops[i]) : i \in DOMAIN config}
      /\ ran' = [ran EXCEPT ![task.id] = IF @ = -2 THEN @ ELSE now]
      /\ UNCHANGED <<now, config, open, trades>>
  BY <1>1 DEF LockGlobally, GlobalStop, Steady
<1>3. Closing /\ DOMAIN stops = DOMAIN config
  BY <1>1, <1>2 DEF Closing
<1>4. \A i \in DOMAIN config : \A s \in stops[i] : s.until \in Int
  <2> SUFFICES ASSUME NEW i \in DOMAIN config, NEW s \in stops[i] PROVE s.until \in Int
    OBVIOUS
  <2>1. PICK cfg, ts, t, side : cfg = config[i] /\ ts = trades /\ t = now /\ side = task.side
    OBVIOUS
  <2>2. cfg \in ProtectionType /\ Closed(ts, t) /\ t \in Nat
    BY <2>1, ConfigIs DEF Inv, Typed
  <2>3. s \in AllPairsStop(cfg, ts, t, side)
    BY <1>1, <2>1
  <2> QED BY <2>2, <2>3, ProtectionsTimed
<1>5. /\ locks \subseteq locks' /\ Timed(locks')
      /\ \A i \in DOMAIN config : \A s \in stops[i] : Covers(locks', "*", s.side, s.until)
  BY <1>2, <1>3, <1>4, WithProtections DEF Inv
<1>6. /\ task.id \in 1..MaxTrades /\ task.id = Cardinality(trades) /\ now \in Nat
      /\ ran \in [1..MaxTrades -> Int]
  BY <1>3, ClosingTrade DEF Inv, Typed
<1>7. /\ ran' \in [1..MaxTrades -> Int]
      /\ \A i \in 1..MaxTrades : i # task.id => ran'[i] = ran[i]
      /\ ran'[task.id] = IF ran[task.id] = -2 THEN -2 ELSE now
  BY <1>2, <1>6
<1>8. Typed'
  BY <1>2, <1>5, <1>7 DEF Inv, Typed, TaskType
<1>9. Numbered'
  <2>1. \A i \in 1..MaxTrades : i > Cardinality(trades) => ran'[i] < 0
    BY <1>6, <1>7 DEF Inv, Numbered
  <2> QED BY <1>2, <2>1 DEF Inv, Numbered, Closing, Idle
<1>10. Demanded'
  <2>1. ASSUME NEW d \in demands', d \notin demands
        PROVE  d.until \in Int /\ Covers(locks', d.pair, d.side, d.until)
    <3>1. PICK i \in DOMAIN config : d \in Asked("*", stops[i])
      BY <1>2, <2>1
    <3>2. PICK s \in stops[i] : d = [pair |-> "*", side |-> s.side, until |-> s.until]
      BY <3>1 DEF Asked
    <3> QED BY <1>4, <1>5, <3>2
  <2> QED BY <1>5, <2>1, DemandsKept
\* Of which trades the locks count as set: the one at hand, if nothing was released.
<1>11. ASSUME NEW t \in trades, ran'[t.id] >= 0
       PROVE  IF t.id = task.id THEN Locking(t) /\ ran'[t.id] = now ELSE ran'[t.id] = ran[t.id]
  <2>1. t.id \in 1..MaxTrades
    <3>1. t.id \in 1..Cardinality(trades)
      BY DEF Inv, Numbered
    <3> QED BY <1>6, <3>1, LockingAssumption
  <2>2. CASE t.id = task.id
    BY <1>2, <1>7, <1>11, <2>2 DEF Locking
  <2> QED BY <1>7, <2>1, <2>2
<1>12. Paused'
  <2>1. \A t \in trades : ran'[t.id] >= 0 /\ now < NextDate(t.close)
          => Covers(locks', t.pair, t.side, NextDate(t.close))
    <3> SUFFICES ASSUME NEW t \in trades, ran'[t.id] >= 0, now < NextDate(t.close)
                 PROVE  Covers(locks', t.pair, t.side, NextDate(t.close))
      OBVIOUS
    <3>1. ran[t.id] >= 0 \/ Locking(t)
      BY <1>11
    <3>2. Covers(locks, t.pair, t.side, NextDate(t.close))
      BY <3>1 DEF Inv, Paused
    <3> QED BY <1>5, <3>2, CoversMore
  <2>2. task'.at = "idle"
    BY <1>2 DEF Idle
  <2> QED BY <1>2, <2>1, <2>2 DEF Paused, Locking
<1>13. Stopped'
  <2>1. ASSUME NEW i \in DOMAIN config, NEW last \in trades, ran'[last.id] >= 0,
               Tripped(config[i], trades, last, ran'[last.id]), now < last.close + config[i].duration
        PROVE  Covers(locks', "*", SideOf(config[i], last.side), last.close + config[i].duration)
    <3>1. CASE last.id # task.id
      <4>1. ran[last.id] >= 0 /\ Tripped(config[i], trades, last, ran[last.id])
        BY <1>11, <2>1, <3>1
      <4>2. Covers(locks, "*", SideOf(config[i], last.side), last.close + config[i].duration)
        BY <2>1, <4>1 DEF Inv, Stopped
      <4>3. PICK side, until : side = SideOf(config[i], last.side) /\ until = last.close + config[i].duration
        OBVIOUS
      <4>4. Covers(locks, "*", side, until)
        BY <4>2, <4>3
      <4>5. Covers(locks', "*", side, until)
        BY <1>5, <4>4, CoversMore
      <4> QED BY <4>3, <4>5
    <3>2. CASE last.id = task.id
      <4>1. PICK cfg, ts, t : cfg = config[i] /\ ts = trades /\ t = now
        OBVIOUS
      <4>2. cfg \in ProtectionType /\ Closed(ts, t) /\ t \in Nat /\ last \in ts
        BY <4>1, ConfigIs DEF Inv, Typed
      <4>3. Tripped(cfg, ts, last, t)
        BY <1>11, <2>1, <3>2, <4>1
      <4>4. \A x \in ts : x.id <= last.id
        BY <1>3, <3>2, <4>1, ClosingTrade
      <4>5. PICK s \in AllPairsStop(cfg, ts, t, last.side) :
              s.side = SideOf(cfg, last.side) /\ last.close + cfg.duration <= s.until
        BY <4>2, <4>3, <4>4, GuardStops
      <4>6. task.side = last.side
        BY <1>3, <3>2, ClosingTrade
      <4>7. s \in stops[i]
        BY <1>1, <4>1, <4>5, <4>6
      <4>8. s.until \in Int /\ Covers(locks', "*", s.side, s.until)
        BY <1>4, <1>5, <4>7
      <4>9. last.close + cfg.duration \in Int
        <5>1. last.close \in Int /\ cfg.duration \in Int
          BY <4>2 DEF Closed, Trade, ProtectionType
        <5> QED BY <5>1
      <4>10. PICK ls, less, until, side : /\ ls = locks' /\ less = last.close + cfg.duration
                                          /\ until = s.until /\ side = s.side
        OBVIOUS
      <4>11. Timed(ls) /\ Covers(ls, "*", side, until) /\ less \in Int /\ until \in Int /\ less <= until
        BY <1>5, <4>5, <4>8, <4>9, <4>10
      <4>12. Covers(ls, "*", side, less)
        BY <4>11, CoversLess
      <4> QED BY <4>1, <4>5, <4>10, <4>12
    <3> QED BY <3>1, <3>2
  <2>2. config' = config /\ trades' = trades /\ now' = now
    BY <1>2
  <2>3. \A i \in DOMAIN config, last \in trades :
          ran'[last.id] >= 0 /\ Tripped(config[i], trades, last, ran'[last.id]) /\ now < last.close + config[i].duration
            => Covers(locks', "*", SideOf(config[i], last.side), last.close + config[i].duration)
    BY <2>1
  <2> QED BY <2>2, <2>3 DEF Stopped
<1> QED BY <1>8, <1>9, <1>10, <1>12, <1>13 DEF Inv

LEMMA AddLockInv ==
  ASSUME Inv, AddLock
  PROVE  Inv'
<1>1. PICK p, s : locks' = LockPair(locks, p, now + Timeframe, "manual", now, s)
  BY DEF AddLock
<1>2. UNCHANGED <<now, config, open, trades, task, demands, ran>>
  BY DEF AddLock, Event, ghosts
<1>3. locks \subseteq locks' /\ Timed(locks')
  <2>1. PICK ls, t, until : ls = locks /\ t = now /\ until = now + Timeframe /\ until \in Int
    BY TimeAssumption DEF Inv, Typed
  <2>2. Timed(ls) /\ locks' = LockPair(ls, p, until, "manual", t, s)
    BY <1>1, <2>1 DEF Inv, Typed
  <2> QED BY <2>1, <2>2, LockPairCovers
<1>4. Typed' /\ Numbered' /\ Paused' /\ Stopped'
  BY <1>2, <1>3, LocksGrow
<1>5. Demanded'
  BY <1>2, <1>3, DemandsKept
<1> QED BY <1>4, <1>5 DEF Inv

LEMMA ReleaseInv ==
  ASSUME Inv, NEW ls, Release(ls)
  PROVE  Inv'
<1>1. /\ locks' = locks \ ls
      /\ demands' = {d \in demands : \A l \in ls : l.pair \notin {d.pair, "*"}}
      /\ ran' = [i \in DOMAIN ran |-> IF \E t \in trades : t.id = i THEN -2 ELSE -1]
      /\ UNCHANGED <<now, config, open, trades, task>>
  BY DEF Release, Event
<1>2. /\ ran' \in [1..MaxTrades -> Int] /\ \A i \in 1..MaxTrades : ran'[i] < 0
      /\ \A t \in trades : ran'[t.id] = -2
  <2>1. DOMAIN ran = 1..MaxTrades
    BY DEF Inv, Typed
  <2>2. \A i \in 1..MaxTrades : ran'[i] \in {-1, -2} /\ ((\E t \in trades : t.id = i) => ran'[i] = -2)
    BY <1>1, <2>1
  <2>3. \A t \in trades : t.id \in 1..MaxTrades
    <3>1. Cardinality(trades) \in Nat
      BY FS_CardinalityType DEF Inv, Typed, Closed
    <3> QED BY <3>1, LockingAssumption DEF Inv, Numbered
  <2> QED BY <1>1, <2>1, <2>2, <2>3
<1>3. Typed'
  BY <1>1, <1>2 DEF Inv, Typed, Timed
<1>4. Numbered'
  <2>1. Closing => task.id \in 1..MaxTrades
    BY ClosingTrade
  <2> QED BY <1>1, <1>2, <2>1 DEF Inv, Numbered, Closing
<1>5. Demanded'
  <2>1. ASSUME NEW d \in demands' PROVE d.until \in Int /\ Covers(locks', d.pair, d.side, d.until)
    <3>1. d \in demands /\ \A l \in ls : l.pair \notin {d.pair, "*"}
      BY <1>1
    <3>2. d.until \in Int /\ Covers(locks, d.pair, d.side, d.until)
      BY <3>1 DEF Inv, Demanded
    <3> QED BY <1>1, <3>1, <3>2 DEF Covers
  <2> QED BY <2>1 DEF Demanded
<1>6. Paused' /\ Stopped'
  <2>1. \A t \in trades : ran'[t.id] = -2 /\ ~(ran'[t.id] >= 0)
    BY <1>2
  <2> QED BY <1>1, <2>1 DEF Paused, Stopped, Locking
<1> QED BY <1>3, <1>4, <1>5, <1>6 DEF Inv

LEMMA CrashInv ==
  ASSUME Inv, Crash
  PROVE  Inv'
<1>1. task' = Idle /\ task'.at = "idle" /\ UNCHANGED <<now, config, locks, open, trades, demands, ran>>
  BY DEF Crash, Event, ghosts, Idle
<1>2. Typed' /\ Numbered'
  BY <1>1 DEF Inv, Typed, Numbered, Closing, TaskType
<1>3. Demanded' /\ Paused' /\ Stopped'
  BY <1>1 DEF Inv, Demanded, Paused, Stopped, Locking
<1> QED BY <1>2, <1>3 DEF Inv

LEMMA NextInv ==
  ASSUME Inv, [Next]_vars
  PROVE  Inv'
<1>1. CASE Clock
  BY <1>1, ClockInv
<1>2. CASE StartEntering \/ CreateTrade \/ EndEntering
  BY <1>2, EnteringInv
<1>3. CASE CloseTrade
  BY <1>3, CloseTradeInv
<1>4. CASE AutoLock
  BY <1>4, AutoLockInv
<1>5. CASE LockPerPair
  BY <1>5, LockPerPairInv
<1>6. CASE LockGlobally
  BY <1>6, LockGloballyInv
<1>7. CASE AddLock
  BY <1>7, AddLockInv
<1>8. CASE DeleteLocks \/ StrategyUnlocks
  <2>1. PICK ls : Release(ls)
    BY <1>8 DEF DeleteLocks, StrategyUnlocks
  <2> QED BY <2>1, ReleaseInv
<1>9. CASE Crash
  BY <1>9, CrashInv
<1>10. CASE UNCHANGED vars
  BY <1>10 DEF vars, Inv, Typed, Numbered, Demanded, Paused, Stopped, Closing, Locking
<1> QED BY <1>1, <1>2, <1>3, <1>4, <1>5, <1>6, <1>7, <1>8, <1>9, <1>10 DEF Next
-----------------------------------------------------------------------------
(* The theorems                                                              *)

\* Every pause that was asked for and not released is covered by a lock, and so are
\* the candle a trade was closed in and the duration of a guard that was tripped.
THEOREM PausesAreCovered == Spec => []Inv
<1>1. Init => Inv
  BY InitInv
<1>2. Inv /\ [Next]_vars => Inv'
  BY NextInv
<1> QED BY <1>1, <1>2, PTL DEF Spec

\* What is covered is not entered: create_trade looks for locks of the pair and of
\* all pairs, and the candle it asks with is not newer than the clock.
LEMMA CoveredIsNotEntered ==
  ASSUME Inv, [Next]_vars, NEW p \in Pairs, NEW s \in Sides, Enters(p, s),
         NEW pair, NEW side, NEW until \in Int,
         pair \in {p, "*"}, side \in {s, "*"}, Covers(locks, pair, side, until)
  PROVE  now >= until
<1>1. s # "none" /\ s # "*"
  BY LockingAssumption
<1>2. CreateTrade
  <2>1. open' # open
    BY <1>1 DEF Enters
  <2>2. ~CloseTrade
    <3>1. ASSUME CloseTrade PROVE FALSE
      <4>1. PICK q \in Pairs : open' = [open EXCEPT ![q] = "none"]
        BY <3>1 DEF CloseTrade
      <4>2. open'[p] = "none" \/ open'[p] = open[p]
        BY <4>1 DEF Inv, Typed
      <4> QED BY <1>1, <4>2 DEF Enters
    <3> QED BY <3>1
  <2> QED BY <2>1, <2>2 DEF Next, Clock, StartEntering, EndEntering, AutoLock, LockPerPair, LockGlobally,
       AddLock, DeleteLocks, StrategyUnlocks, Crash, Release, Event, vars
<1>3. task.at = "entering" /\ ~Locked(p, s)
  <2>1. PICK q \in Pairs, x \in Sides : ~Locked(q, x) /\ open' = [open EXCEPT ![q] = x]
    BY <1>2 DEF CreateTrade
  <2>2. open[p] = "none" /\ open'[p] = s
    BY DEF Enters
  <2>3. q = p /\ x = s
    BY <1>1, <2>1, <2>2 DEF Inv, Typed
  <2> QED BY <1>2, <2>1, <2>3 DEF CreateTrade
<1>4. task.end \in Nat /\ task.end <= now /\ now \in Nat
  BY <1>3 DEF Inv, Typed, TaskType, Numbered, Idle
<1>5. PICK l \in locks : l.pair \in {pair, "*"} /\ l.side \in {side, "*"} /\ l.until >= until
  BY DEF Covers
<1>6. ~(l.until > task.end)
  <2>1. l.pair \in {p, "*"} /\ SideMatches(l, s)
    BY <1>1, <1>5 DEF SideMatches
  <2> QED BY <1>3, <2>1 DEF Locked, IsPairLocked, IsGlobalLock, PairLocks
<1>7. l.until \in Int
  BY DEF Inv, Typed, Timed
<1> QED BY <1>4, <1>5, <1>6, <1>7

\* No entry is placed during a pause that was asked for and not released, whatever
\* protections are configured and however many trades are closed.
THEOREM PausesHold == Spec => DemandsHold
<1> DEFINE Step == \A p \in Pairs, s \in Sides, d \in demands :
                     Enters(p, s) /\ d.pair \in {p, "*"} /\ d.side \in {s, "*"} => now >= d.until
<1>1. Inv /\ [Next]_vars => Step
  <2> SUFFICES ASSUME Inv, [Next]_vars, NEW p \in Pairs, NEW s \in Sides, NEW d \in demands,
                      Enters(p, s), d.pair \in {p, "*"}, d.side \in {s, "*"}
               PROVE  now >= d.until
    OBVIOUS
  <2>1. d.until \in Int /\ Covers(locks, d.pair, d.side, d.until)
    BY DEF Inv, Demanded
  <2> QED BY <2>1, CoveredIsNotEntered
<1>2. Inv /\ [Next]_vars => [Step]_vars
  BY <1>1
<1> QED BY <1>2, PausesAreCovered, PTL DEF Spec, DemandsHold

\* handle_protections (freqtradebot.py): once the locks after an exit are set, the pair
\* is not entered again on the same side in the candle it was closed in.
THEOREM NotReentered == Spec => NoReentry
<1> DEFINE Step == \A p \in Pairs, s \in Sides, t \in trades :
                     Enters(p, s) /\ t.pair = p /\ t.side = s /\ ran[t.id] >= 0 => now >= NextDate(t.close)
<1>1. Inv /\ [Next]_vars => Step
  <2> SUFFICES ASSUME Inv, [Next]_vars, NEW p \in Pairs, NEW s \in Sides, NEW t \in trades,
                      Enters(p, s), t.pair = p, t.side = s, ran[t.id] >= 0
               PROVE  now >= NextDate(t.close)
    OBVIOUS
  <2>1. now \in Nat /\ t.close \in Nat
    BY DEF Inv, Typed, Closed, Trade
  <2>2. NextDate(t.close) \in Int
    BY <2>1, NextIsLater
  <2>3. CASE now < NextDate(t.close)
    <3>1. Covers(locks, p, s, NextDate(t.close))
      BY <2>3 DEF Inv, Paused
    <3> QED BY <2>2, <3>1, CoveredIsNotEntered
  <2> QED BY <2>1, <2>2, <2>3
<1>2. Inv /\ [Next]_vars => [Step]_vars
  BY <1>1
<1> QED BY <1>2, PausesAreCovered, PTL DEF Spec, NoReentry

\* The stoploss guard (stoploss_guard.py) stops all pairs for its duration after the
\* losses it was configured for, once the locks of the last of these trades are set.
THEOREM StoppedAfterLosses == Spec => StopsAfterLosses
<1> DEFINE Step ==
      \A i \in Guards, p \in Pairs, s \in Sides, last \in trades :
       LET g == config[i]
           losses == {t \in trades : /\ t.stop /\ t.profit < g.profit /\ t.profit # 0
                                     /\ t.id <= last.id /\ t.close > ran[last.id] - g.lookback
                                     /\ g.perSide => t.side = last.side}
       IN /\ Enters(p, s) /\ ran[last.id] >= 0 /\ g.unlockAt < 0
          /\ last \in losses /\ Cardinality(losses) >= g.limit
          /\ g.perSide => s = last.side
          => now >= last.close + g.duration
<1>1. ASSUME Inv, [Next]_vars, NEW i \in Guards, NEW p \in Pairs, NEW s \in Sides, NEW last \in trades,
             Enters(p, s), ran[last.id] >= 0, Tripped(config[i], trades, last, ran[last.id]),
             config[i].perSide => s = last.side
      PROVE  now >= last.close + config[i].duration
  <2>1. i \in DOMAIN config
    BY DEF Guards
  <2>2. now \in Nat /\ last.close + config[i].duration \in Int
    <3>1. config[i] \in ProtectionType
      BY <1>1, <2>1, ConfigIs DEF Inv
    <3>2. last.close \in Int /\ config[i].duration \in Int /\ now \in Nat
      BY <1>1, <3>1 DEF Inv, Typed, Closed, Trade, ProtectionType
    <3> QED BY <3>2
  <2>3. CASE now < last.close + config[i].duration
    <3>1. PICK side, until : side = SideOf(config[i], last.side) /\ until = last.close + config[i].duration
      OBVIOUS
    <3>2. Covers(locks, "*", side, until)
      BY <1>1, <2>1, <2>3, <3>1 DEF Inv, Stopped
    <3>3. side \in {s, "*"}
      BY <1>1, <3>1 DEF SideOf
    <3> QED BY <1>1, <2>2, <3>1, <3>2, <3>3, CoveredIsNotEntered
  <2> QED BY <2>2, <2>3
<1>2. Inv /\ [Next]_vars => Step
  <2> SUFFICES ASSUME Inv, [Next]_vars PROVE Step
    OBVIOUS
  <2> QED BY <1>1 DEF Guards, Tripped, Losses
<1>3. Inv /\ [Next]_vars => [Step]_vars
  BY <1>2
<1> QED BY <1>3, PausesAreCovered, PTL DEF Spec, StopsAfterLosses
=============================================================================
