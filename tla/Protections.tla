----------------------------- MODULE Protections -----------------------------
(***************************************************************************)
(* Pair locks (persistence/pairlock_middleware.py, pairlock.py) and the    *)
(* protections that ask for them (plugins/protectionmanager.py and         *)
(* plugins/protections), as operators on the set of locks and the set of   *)
(* closed trades.  Times are in minutes.                                   *)
(***************************************************************************)
EXTENDS Integers, Sequences, FiniteSets, SequencesExt, FiniteSetsExt

CONSTANTS
  Timeframe,  \* minutes of a candle
  Minutes     \* minutes of a day

ASSUME TimeAssumption == Timeframe \in Nat \ {0} /\ Minutes \in Nat \ {0}

\* timeframe_to_next_date: a candle's first minute belongs to the candle.
NextDate(t) == (t \div Timeframe + 1) * Timeframe
-----------------------------------------------------------------------------
(* Locks.  Side "*" of a lock stands for both sides, pair "*" for all pairs. *)
(* The set holds the active locks: the code tests `active` wherever it looks  *)
(* for locks, so one that was released never matters again.                  *)

\* query_pair_locks and its twin for backtesting.
SideMatches(lock, side) == lock.side = "*" \/ (side # "*" /\ lock.side = side)

PairLocks(locks, pair, now, side) ==
  {l \in locks : l.until > now /\ l.pair = pair /\ SideMatches(l, side)}

IsGlobalLock(locks, now, side) == PairLocks(locks, "*", now, side) # {}

\* Mutant: a lock of all pairs is not looked at.
IsPairLockedAlone(locks, pair, now, side) == PairLocks(locks, pair, now, side) # {}

IsPairLocked(locks, pair, now, side) ==
  PairLocks(locks, pair, now, side) # {} \/ IsGlobalLock(locks, now, side)

\* Mutant: the end of the lock is not rounded up.
LockPairExact(locks, pair, until, reason, now, side) ==
  locks \cup {[pair |-> pair, side |-> side, reason |-> reason, until |-> until]}

\* lock_pair: an equal active lock is not added twice.
LockPair(locks, pair, until, reason, now, side) ==
  LET lock == [pair |-> pair, side |-> side, reason |-> reason,
               until |-> NextDate(until)]
  IN IF lock \in PairLocks(locks, pair, now, side) THEN locks ELSE locks \cup {lock}

\* unlock_pair as a strategy calls it, with the side left at "*".
Unlocked(locks, pair, now) == PairLocks(locks, pair, now, "*")

\* unlock_reason
UnlockedReason(locks, reason, now) == {l \in locks : l.until > now /\ l.reason = reason}

\* get_pair_locks without a side, for _rpc_delete_lock
LocksOfPair(locks, pair, now) == {l \in locks : l.until > now /\ l.pair = pair}
-----------------------------------------------------------------------------
(* Protections: records with a method and its configuration.  A closed trade *)
(* has an id, a pair, a side, the time of its closing, its profit in percent *)
(* and whether a stoploss closed it.                                         *)

ClosedAfter(trades, t) == {x \in trades : x.close > t}

\* calculate_lock_end: a duration, or the next time the clock shows unlock_at.
LockEnd(cfg, ts) ==
  LET last == Max({t.close : t \in ts})
      at   == (last - (last % Minutes)) + cfg.unlockAt
  IN IF cfg.unlockAt < 0 THEN last + cfg.duration
     ELSE IF at < last THEN at + Minutes ELSE at

Stop(cfg, ts, side) == {[until |-> LockEnd(cfg, ts), side |-> side, reason |-> cfg.method]}

SideOf(cfg, side) == IF cfg.perSide THEN side ELSE "*"

\* _cooldown_period: the pair's latest trade.
CooldownPeriod(cfg, trades, now) ==
  LET ts == ClosedAfter(trades, now - cfg.lookback) IN
  IF ts = {} THEN {} ELSE Stop(cfg, ts, "*")

\* _stoploss_guard: trade_limit losing stoplosses.  A profit of 0 does not count.
StoplossGuard(cfg, trades, now, side) ==
  LET ts == {t \in ClosedAfter(trades, now - cfg.lookback) :
               /\ t.stop /\ t.profit # 0 /\ t.profit < cfg.profit
               /\ cfg.perSide => t.side = side}
  IN IF Cardinality(ts) < cfg.limit THEN {} ELSE Stop(cfg, ts, SideOf(cfg, side))

TotalProfit(ts) == MapThenSumSet(LAMBDA t : t.profit, ts)

\* _low_profit: the limit counts the trades of both sides.
LowProfitPairs(cfg, trades, now, side) ==
  LET ts == ClosedAfter(trades, now - cfg.lookback)
      counted == {t \in ts : cfg.perSide => t.side = side}
  IN IF Cardinality(ts) < cfg.limit \/ TotalProfit(counted) >= cfg.profit
     THEN {} ELSE Stop(cfg, ts, SideOf(cfg, side))

\* calculate_max_drawdown of the ratios of trades in the order of their closing.
Drawdown(ts) ==
  LET order == SetToSortSeq(ts, LAMBDA a, b : a.close < b.close \/ (a.close = b.close /\ a.id < b.id))
      cum   == [i \in 0..Len(order) |-> MapThenSumSet(LAMBDA j : order[j].profit, 1..i)]
  IN Max({cum[p[1]] - cum[p[2]] : p \in {q \in (DOMAIN cum) \X (DOMAIN cum) : q[1] <= q[2]}})

\* _max_drawdown, calculation_mode "ratios"
MaxDrawdown(cfg, trades, now) ==
  LET ts == ClosedAfter(trades, now - cfg.lookback) IN
  IF Cardinality(ts) < cfg.limit \/ ts = {} \/ Drawdown(ts) <= cfg.profit THEN {}
  ELSE Stop(cfg, ts, "*")

\* stop_per_pair of one protection
PairStop(cfg, trades, pair, now, side) ==
  LET ts == {t \in trades : t.pair = pair} IN
  CASE cfg.method = "CooldownPeriod" -> CooldownPeriod(cfg, ts, now)
    [] cfg.method = "StoplossGuard"  -> StoplossGuard(cfg, ts, now, side)
    [] cfg.method = "LowProfitPairs" -> LowProfitPairs(cfg, ts, now, side)
    [] OTHER -> {}

\* global_stop of one protection
AllPairsStop(cfg, trades, now, side) ==
  CASE cfg.method = "StoplossGuard" /\ ~cfg.perPair -> StoplossGuard(cfg, trades, now, side)
    [] cfg.method = "MaxDrawdown" -> MaxDrawdown(cfg, trades, now)
    [] OTHER -> {}

\* Mutant: the lock of any side keeps the lock of both sides from being set.
WithStopsAnySide(locks, pair, stops, now) ==
  locks \cup UNION {LockPair(locks, pair, s.until, s.reason, now, s.side) :
                    s \in {x \in stops : LocksOfPair(locks, pair, x.until) = {}}}

\* ProtectionManager: the locks after one protection's stop, if it has one, and if
\* that is longer than what the pair is locked for already.
WithStops(locks, pair, stops, now) ==
  locks \cup UNION {LockPair(locks, pair, s.until, s.reason, now, s.side) :
                    s \in {x \in stops : ~IsPairLocked(locks, pair, x.until, x.side)}}

\* The stops of all protections, one after the other.
WithAllStops(locks, pair, stops, now) ==
  FoldLeft(LAMBDA ls, ss : WithStops(ls, pair, ss, now), locks, stops)

\* ProtectionManager.stop_per_pair
StopPerPair(protections, locks, trades, pair, now, side) ==
  WithAllStops(locks, pair,
               [i \in DOMAIN protections |-> PairStop(protections[i], trades, pair, now, side)], now)

\* ProtectionManager.global_stop
GlobalStop(protections, locks, trades, now, side) ==
  WithAllStops(locks, "*",
               [i \in DOMAIN protections |-> AllPairsStop(protections[i], trades, now, side)], now)
=============================================================================
