----------------------------- MODULE PairLocking -----------------------------
(***************************************************************************)
(* Locks and protections in the running bot.  The bot enters and closes    *)
(* trades under its lock, one task at a time: a pass over the pairs that   *)
(* may be entered, or a closed trade that sets its locks one commit after  *)
(* the other.  Time passes, requests add and delete locks, and the process *)
(* may die between any two steps.                                          *)
(***************************************************************************)
EXTENDS Protections

CONSTANTS
  Pairs, Sides,  \* Sides: "long", "short"
  Configs,       \* configurations to choose from: sequences of protections
  Outcomes,      \* how a trade may close: profit in percent, by a stoploss or not
  MaxTime,       \* bound: minutes
  MaxTrades,     \* bound: closed trades
  MaxEvents      \* bound: locks added or released by hand, and crashes

\* A protection has a limit of one trade at least: calculate_lock_end asks for the
\* latest of the trades.
ProtectionType ==
  [method : {"CooldownPeriod", "StoplossGuard", "LowProfitPairs", "MaxDrawdown"},
   lookback : Int, duration : Int, unlockAt : Int, limit : Nat \ {0},
   perPair : BOOLEAN, perSide : BOOLEAN, profit : Int]

ASSUME LockingAssumption ==
  /\ Sides = {"long", "short"} /\ "*" \notin Pairs /\ IsFiniteSet(Pairs)
  /\ \A config \in Configs : config \in Seq(ProtectionType)
  /\ Outcomes \subseteq [profit : Int, stop : BOOLEAN]
  /\ MaxTime \in Nat /\ MaxTrades \in Nat
  /\ MaxEvents \in Nat

VARIABLES
  now, config,
  locks,     \* the active rows of table pairlocks
  open,      \* the open trades: the side of each pair, or "none"
  trades,    \* the closed trades
  task,      \* what the bot is doing under its lock
  events,    \* locks added or released by hand, and crashes, so far
  \* what the properties need to know of the past
  demands,   \* pauses that were asked for and not released: pair, side, until
  ran        \* when the last lock of a closed trade was set; -1: not
             \* (yet), -2: locks were released since it was closed

vars == <<now, config, locks, open, trades, task, events, demands, ran>>
ghosts == <<demands, ran>>

Idle == [at |-> "idle"]

\* The type of the state; a lock ends with a candle.
TypeOK ==
  /\ now \in 0..MaxTime /\ config \in Configs
  /\ \A l \in locks : /\ l.pair \in Pairs \cup {"*"} /\ l.side \in Sides \cup {"*"}
                    /\ l.until \in Nat /\ l.until % Timeframe = 0
  /\ open \in [Pairs -> Sides \cup {"none"}]
  /\ \A t \in trades : t.pair \in Pairs /\ t.side \in Sides /\ t.close \in 0..now
  /\ task.at \in {"idle", "entering", "auto", "pair", "global"}
  /\ events \in 0..MaxEvents
-----------------------------------------------------------------------------
\* Time passes, also while entries are placed and while an exit is announced;
\* the locks of a closed trade are then set within a minute.
Clock ==
  /\ now < MaxTime /\ task.at \notin {"pair", "global"}
  /\ now' = now + 1
  /\ locks' = {l \in locks : l.until > now - 2 * Timeframe}  \* older ones never matter again
  /\ demands' = {d \in demands : d.until > now + 1}
  /\ UNCHANGED <<config, open, trades, task, events, ran>>

Steady == UNCHANGED <<now, config, events>>

\* The start of the candle that has just begun or, while its candle has not
\* been fetched, of the one before: where the latest analyzed candle ends.
Analyzed == {(now \div Timeframe) * Timeframe, (now \div Timeframe - 1) * Timeframe} \cap Nat

\* enter_positions: nothing, if all pairs are locked on both sides for now.
StartEntering ==
  /\ task = Idle
  /\ ~IsGlobalLock(locks, now, "*")
  /\ \E end \in Analyzed : task' = [at |-> "entering", end |-> end]
  /\ UNCHANGED <<locks, open, trades>> /\ Steady /\ UNCHANGED ghosts

\* create_trade: is_pair_locked with the date of the analyzed candle.
Locked(p, side) == IsPairLocked(locks, p, task.end, side)

\* create_trade with a signal: an entry is placed.  Pairs without a signal, and
\* those that are locked, are passed over.
CreateTrade ==
  /\ task.at = "entering"
  /\ \E p \in Pairs, s \in Sides :
       /\ open[p] = "none" /\ ~Locked(p, s)
       /\ open' = [open EXCEPT ![p] = s]
  /\ UNCHANGED <<locks, trades, task>> /\ Steady /\ UNCHANGED ghosts

EndEntering ==
  /\ task.at = "entering"
  /\ task' = Idle
  /\ UNCHANGED <<locks, open, trades>> /\ Steady /\ UNCHANGED ghosts

\* A trade is closed, by a stoploss or otherwise; its locks are still to come.
CloseTrade ==
  /\ task = Idle /\ Cardinality(trades) < MaxTrades
  /\ \E p \in Pairs, how \in Outcomes :
       /\ open[p] # "none"
       /\ open' = [open EXCEPT ![p] = "none"]
       /\ LET id == Cardinality(trades) + 1 IN
          /\ trades' = trades \cup {[id |-> id, pair |-> p, side |-> open[p], close |-> now,
                                     profit |-> how.profit, stop |-> how.stop]}
          /\ task' = [at |-> "auto", id |-> id, pair |-> p, side |-> open[p]]
  /\ UNCHANGED locks /\ Steady /\ UNCHANGED ghosts

WithAutoLock == LockPair(locks, task.pair, now, "Auto lock", now, task.side)

\* handle_protections: the pair is locked for the rest of the candle ...
AutoLock ==
  /\ task.at = "auto"
  /\ locks' = WithAutoLock
  /\ demands' = demands \cup {[pair |-> task.pair, side |-> task.side, until |-> NextDate(now)]}
  /\ task' = [task EXCEPT !.at = "pair"]
  /\ UNCHANGED <<open, trades, ran>> /\ Steady

\* What protections ask for, as the properties see it.
Asked(pair, stops) == {[pair |-> pair, side |-> s.side, until |-> s.until] : s \in stops}

\* ... then what the protections ask for the pair ...
LockPerPair ==
  /\ task.at = "pair"
  /\ locks' = StopPerPair(config, locks, trades, task.pair, now, task.side)
  /\ demands' = demands \cup
       UNION {Asked(task.pair, PairStop(config[i], trades, task.pair, now, task.side)) : i \in DOMAIN config}
  /\ task' = [task EXCEPT !.at = "global"]
  /\ UNCHANGED <<open, trades, ran>> /\ Steady

\* ... then what they ask for all pairs.
LockGlobally ==
  /\ task.at = "global"
  /\ locks' = GlobalStop(config, locks, trades, now, task.side)
  /\ demands' = demands \cup
       UNION {Asked("*", AllPairsStop(config[i], trades, now, task.side)) : i \in DOMAIN config}
  /\ ran' = [ran EXCEPT ![task.id] = IF @ = -2 THEN @ ELSE now]
  /\ task' = Idle
  /\ UNCHANGED <<open, trades>> /\ Steady
-----------------------------------------------------------------------------
(* Requests, the strategy, crashes *)

Event ==
  /\ events < MaxEvents /\ events' = events + 1
  /\ UNCHANGED <<now, config, open, trades>>

\* _rpc_add_lock
AddLock ==
  /\ Event /\ UNCHANGED task /\ UNCHANGED ghosts
  /\ \E p \in Pairs \cup {"*"}, s \in Sides \cup {"*"} :
       locks' = LockPair(locks, p, now + Timeframe, "manual", now, s)

Release(ls) ==
  /\ Event /\ UNCHANGED task
  /\ ls # {} /\ locks' = locks \ ls
  \* a lock of all pairs may stand for a pause of one of them, which was not set beside it
  /\ demands' = {d \in demands : \A l \in ls : l.pair \notin {d.pair, "*"}}
  /\ ran' = [i \in DOMAIN ran |-> IF \E t \in trades : t.id = i THEN -2 ELSE -1]

\* _rpc_delete_lock, by pair or by id
DeleteLocks ==
  \/ \E p \in Pairs \cup {"*"} : Release(LocksOfPair(locks, p, now))
  \/ \E l \in locks : Release({l})

\* A strategy that calls unlock_pair or unlock_reason in one of its callbacks.
StrategyUnlocks ==
  \/ \E p \in Pairs : Release(Unlocked(locks, p, now))
  \/ \E l \in locks : Release(UnlockedReason(locks, l.reason, now))

\* The process dies and starts again: what it was doing is not resumed.
Crash ==
  /\ Event
  /\ task # Idle /\ task' = Idle
  /\ UNCHANGED locks /\ UNCHANGED ghosts
-----------------------------------------------------------------------------
Init ==
  /\ now = 0 /\ config \in Configs
  /\ locks = {} /\ open = [p \in Pairs |-> "none"] /\ trades = {} /\ task = Idle
  /\ events = 0
  /\ demands = {} /\ ran = [i \in 1..MaxTrades |-> -1]

Next ==
  \/ Clock \/ StartEntering \/ CreateTrade \/ EndEntering \/ CloseTrade
  \/ AutoLock \/ LockPerPair \/ LockGlobally
  \/ AddLock \/ DeleteLocks \/ StrategyUnlocks \/ Crash

Spec == Init /\ [][Next]_vars
-----------------------------------------------------------------------------
(* Properties *)

Enters(p, side) == open[p] = "none" /\ open'[p] = side

\* No entry is placed while a protection, or the lock after an exit, asked for a
\* pause that was not released: rounding, the test against locks that are already
\* there, locks of one side and of all pairs, and stale candles lose nothing.
DemandsHold ==
  [][\A p \in Pairs, s \in Sides, d \in demands :
       Enters(p, s) /\ d.pair \in {p, "*"} /\ d.side \in {s, "*"} => now >= d.until]_vars

\* Once the locks after an exit are set, a pair is not entered again on the same
\* side in the candle it was closed in, unless locks were released or a crash
\* came in between.
NoReentry ==
  [][\A p \in Pairs, s \in Sides, t \in trades :
       Enters(p, s) /\ t.pair = p /\ t.side = s /\ ran[t.id] >= 0 => now >= NextDate(t.close)]_vars

Guards == {i \in DOMAIN config : config[i].method = "StoplossGuard" /\ ~config[i].perPair}

\* After the limit of losing stoplosses in the lookback of a guard that stops all
\* pairs, nothing is entered for its duration: the losses may be of any pair, and
\* their own locks were set one closed trade at a time.  A crash before the locks of
\* the last of them are set is left out: then no guard has counted it (ran).
StopsAfterLosses ==
  [][\A i \in Guards, p \in Pairs, s \in Sides, last \in trades :
       LET g == config[i]
           losses == {t \in trades : /\ t.stop /\ t.profit < g.profit /\ t.profit # 0
                                     /\ t.id <= last.id /\ t.close > ran[last.id] - g.lookback
                                     /\ g.perSide => t.side = last.side}
       IN /\ Enters(p, s) /\ ran[last.id] >= 0 /\ g.unlockAt < 0
          /\ last \in losses /\ Cardinality(losses) >= g.limit
          /\ g.perSide => s = last.side
          => now >= last.close + g.duration]_vars

\* What unlock_pair, called by a strategy without a side, leaves of the locks of
\* the pair: nothing.
UnlockReleases ==
  \A p \in Pairs : LocksOfPair(locks \ Unlocked(locks, p, now), p, now) = {}
=============================================================================
