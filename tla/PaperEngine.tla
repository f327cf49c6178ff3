----------------------------- MODULE PaperEngine -----------------------------
(***************************************************************************)
(* The paper trader (freqtrade/papertrade): an engine polls the latest     *)
(* candle, opens and closes one simulated position, and keeps its account  *)
(* in memory and, row by row, in tables.                                   *)
(*                                                                         *)
(* Every write to a table commits on its own.  Between two of them the     *)
(* process may die, and any of them may fail: the loop around tick logs    *)
(* the exception and goes on with what is in memory by then.  recover      *)
(* rebuilds part of the memory from the tables.  A reload of the bot       *)
(* (Worker._init) starts one more engine beside the one that runs.         *)
(*                                                                         *)
(* Orders, fills and snapshots are written and never read; a position has  *)
(* a fixed size, the profit of a trade is any member of Pnls.              *)
(***************************************************************************)
EXTENDS TradeGate, Sequences, FiniteSets, FiniteSetsExt, Functions

CONSTANTS
  Engines,          \* engines the process has started, 1 .. n
  MaxBars,          \* bound: candles
  MaxBeside,        \* bound: candles while two engines run
  BarsPerDay,       \* candles of a day
  MaxPositions,     \* bound: rows of paper_positions
  MaxTopUps,        \* bound: top-ups
  MaxFaults,        \* bound: crashes and failed commits
  InitialCapital,   \* initial_capital
  Quantity, Fee,    \* size of a position, commission of an entry
  TopUpAmount,
  Pnls,             \* net_pnl of a trade
  HoldingBars,      \* holding_bars
  MaxDailyDrawdown, MaxTotalDrawdown  \* in percent of the initial capital

ASSUME PaperAssumption ==
  /\ MaxBars \in Nat /\ MaxBeside \in Nat /\ BarsPerDay \in Nat \ {0} /\ MaxPositions \in Nat
  /\ MaxTopUps \in Nat /\ MaxFaults \in Nat /\ HoldingBars \in Nat \ {0}
  /\ InitialCapital \in Nat \ {0} /\ Quantity \in Nat /\ Fee \in Nat
  /\ TopUpAmount \in Nat \ {0} /\ Pnls \subseteq Int /\ IsFiniteSet(Pnls)
  /\ MaxDailyDrawdown \in Nat /\ MaxTotalDrawdown \in Nat
  /\ Engines \subseteq Nat \ {0} /\ IsFiniteSet(Engines)

VARIABLES
  bar,        \* the latest candle in the candles table; 0: none
  positions,  \* paper_positions: day of the entry, bars_held, status
  trades,     \* paper_trades: the profits booked for each position
  engine,     \* the engines' memory
  serving,    \* the engine the REST server talks to (set_engine); 0: none
  topUps,     \* top-ups so far
  faults,     \* crashes and failed commits so far
  torn,       \* positions whose trade was booked and whose row stayed open
  beside,     \* two engines have run beside each other
  shared      \* positions that two engines knew

vars == <<bar, positions, trades, engine, serving, topUps, faults, torn, beside, shared>>

Positions == 1..MaxPositions
Day(b)    == b \div BarsPerDay
Days      == 0..(Day(MaxBars) + 1)

NoPosition == [status |-> "none", day |-> 0, bars |-> 0]

Engine == [at      : {"off", "idle", "bars", "day", "features", "trade", "close", "account", "open"},
           position: Positions \cup {0},
           bars    : Nat,             \* position["bars_held"]
           last    : 0..MaxBars,      \* _last_bar_ts; 0: None
           isNew   : BOOLEAN,         \* the local is_new_bar
           pnl     : Int,             \* the local net_pnl
           day     : Days,            \* _current_day
           dayPnl  : Int, dayTrades : Nat, total : Int,
           balance : Int, equity : Int,
           state   : {"running", "stopped"},
           gate    : GateType,
           \* what the properties need to know of the past
           own     : BOOLEAN,         \* the trades it closes are entered in its day
           booked  : BOOLEAN,         \* it closed a trade since it took up its day
           \* what it booked and failed to count: in all, and of its day
           missed  : Int, dayMissed : Int, tradesMissed : Nat]

Off == [at |-> "off", position |-> 0, bars |-> 0, last |-> 0, isNew |-> FALSE, pnl |-> 0,
        day |-> 0, dayPnl |-> 0, dayTrades |-> 0, total |-> 0, balance |-> 0, equity |-> 0,
        state |-> "running", gate |-> NewGate(InitialCapital),
        own |-> FALSE, booked |-> FALSE, missed |-> 0, dayMissed |-> 0, tradesMissed |-> 0]

\* The type of the state.
TypeOK ==
  /\ bar \in 0..MaxBars
  /\ positions \in [Positions -> [status : {"none", "open", "closed"}, day : Days, bars : Nat]]
  /\ trades \in [Positions -> Seq(Int)]
  /\ engine \in [Engines -> Engine]
  /\ serving \in Engines \cup {0}
  /\ topUps \in 0..MaxTopUps /\ faults \in 0..MaxFaults
  /\ torn \subseteq Positions /\ shared \subseteq Positions /\ beside \in BOOLEAN
-----------------------------------------------------------------------------
(* The tables *)

Profit(p)  == SumFunction(trades[p])
Booked(ps) == SumFunctionOnSet([p \in Positions |-> Profit(p)], ps)

\* load_daily_stats: trades count for the day their position was entered.
EnteredOn(d) == {p \in Positions : positions[p].status # "none" /\ positions[p].day = d}
DailyPnl(d)    == Booked(EnteredOn(d))
DailyTrades(d) == SumFunctionOnSet([p \in Positions |-> Len(trades[p])], EnteredOn(d))

\* load_total_pnl
TotalPnl == Booked(Positions)

OpenRows == {p \in Positions : positions[p].status = "open"}

\* load_open_position: the newest.
OpenPosition == IF OpenRows = {} THEN 0 ELSE Max(OpenRows)

Running    == {e \in Engines : engine[e].at # "off"}
Set(e, r)  == engine' = [engine EXCEPT ![e] = r]
Tables     == UNCHANGED <<positions, trades>>
Elsewhere  == UNCHANGED <<bar, serving, topUps>>
Ghosts     == UNCHANGED <<torn, beside, shared>>
-----------------------------------------------------------------------------
(* The feed: another process writes the candles.  Features may come late: those
   of an earlier candle stand in for them, and without any a tick ends as it
   does without a signal.  A position has been opened with features. *)

NewCandle ==
  /\ bar < MaxBars
  /\ bar < MaxBeside \/ Cardinality(Running) <= 1
  /\ bar' = bar + 1
  /\ UNCHANGED <<positions, trades, engine, serving, topUps, faults>> /\ Ghosts
-----------------------------------------------------------------------------
(* Start, recovery, top-ups *)

\* Mutant: recover forgets the open position.
RecoveredFlat(d) ==
  LET b == InitialCapital + TotalPnl
  IN [Off EXCEPT !.at = "idle", !.total = TotalPnl, !.balance = b, !.equity = b,
                 !.day = d, !.dayPnl = DailyPnl(d), !.dayTrades = DailyTrades(d), !.own = TRUE]

\* The engine that recover builds from the tables when the clock says d.
Recovered(d) ==
  LET p == OpenPosition
      b == InitialCapital + TotalPnl
  IN [Off EXCEPT !.at = "idle", !.position = p,
                 !.bars = IF p = 0 THEN 0 ELSE positions[p].bars,
                 !.total = TotalPnl, !.balance = b, !.equity = b,
                 !.day = d, !.dayPnl = DailyPnl(d), !.dayTrades = DailyTrades(d),
                 !.own = (p = 0)]

\* start_paper_trader: recover, then set_engine.  A candle is named after its
\* first moment and stored at its last: the clock is in the one after it, or
\* still in it when the feed stores unfinished candles.
Start(e) ==
  /\ engine[e].at = "off"
  /\ \A f \in Engines : f < e => engine[f].at # "off"
  /\ \E d \in {Day(bar), Day(bar + 1)} : Set(e, Recovered(d))
  /\ serving' = e
  /\ beside' = (beside \/ Running # {})
  /\ shared' = shared \cup IF Running # {} THEN {OpenPosition} \ {0} ELSE {}
  /\ UNCHANGED <<bar, topUps, faults, torn>> /\ Tables

\* Mutant: a top-up is not added to the equity.
AddedToBalance(r) == [r EXCEPT !.balance = @ + TopUpAmount, !.gate.capital = @ + TopUpAmount]

Added(r) == [r EXCEPT !.balance = @ + TopUpAmount, !.equity = @ + TopUpAmount,
                      !.gate.capital = @ + TopUpAmount]

\* top_up, in the REST server's thread.  Its three additions have no call
\* between them, so the interpreter does not switch threads there.  The row it
\* writes afterwards is never read.
TopUp(e) ==
  /\ serving = e /\ topUps < MaxTopUps
  /\ topUps' = topUps + 1
  /\ Set(e, Added(engine[e]))
  /\ UNCHANGED <<bar, serving, faults>> /\ Tables /\ Ghosts
-----------------------------------------------------------------------------
(* tick *)

\* A new day is taken up only without a position.
WantsReset(r) == r.position = 0 /\ Day(bar) # r.day

\* tick up to its first write: the first candle after a start is not "new".
Tick(e) ==
  /\ engine[e].at = "idle"
  /\ bar > 0 /\ engine[e].last # bar
  /\ LET isNew == engine[e].last # 0
         r == [engine[e] EXCEPT !.last = bar, !.isNew = isNew,
                                !.gate = IF isNew THEN OnBar(@) ELSE @]
     IN Set(e, CASE ~isNew -> [r EXCEPT !.at = "features"]
                 [] isNew /\ r.position # 0 -> [r EXCEPT !.at = "bars", !.bars = @ + 1]
                 [] isNew /\ r.position = 0 ->
                      [r EXCEPT !.at = IF WantsReset(r) THEN "day" ELSE "features"])
  /\ UNCHANGED faults /\ Tables /\ Elsewhere /\ Ghosts

\* update_bars_held
UpdateBars(e) ==
  /\ engine[e].at = "bars"
  /\ positions' = [positions EXCEPT ![engine[e].position].bars = engine[e].bars]
  /\ Set(e, [engine[e] EXCEPT !.at = "features"])
  /\ UNCHANGED <<trades, faults>> /\ Elsewhere /\ Ghosts

\* Mutant: the day's loss is not reset in the gate and the engine.
ResetDayTradesOnly(e) ==
  /\ engine[e].at = "day"
  /\ LET d == Day(engine[e].last) IN
     Set(e, [engine[e] EXCEPT !.at = "features", !.day = d, !.state = "running",
                              !.gate = ResetGate(@, engine[e].dayPnl), !.own = TRUE, !.booked = FALSE,
                              !.dayMissed = 0, !.tradesMissed = 0])
  /\ UNCHANGED faults /\ Tables /\ Elsewhere /\ Ghosts

\* _reset_day resumes an engine that was stopped, whatever stopped it.
ResetDay(e) ==
  /\ engine[e].at = "day"
  /\ LET d == Day(engine[e].last) IN
     Set(e, [engine[e] EXCEPT !.at = "features", !.day = d, !.state = "running",
                              !.dayPnl = DailyPnl(d), !.dayTrades = DailyTrades(d),
                              !.gate = ResetGate(@, DailyPnl(d)),
                              !.own = TRUE, !.booked = FALSE, !.dayMissed = 0, !.tradesMissed = 0])
  /\ UNCHANGED faults /\ Tables /\ Elsewhere /\ Ghosts

\* The maximum holding time; a stop or an opposite signal may come any time.
MustExit(r) == r.bars >= HoldingBars

\* tick after the features: _check_exit of a position, or the way to an entry.
Decide(e) ==
  /\ engine[e].at = "features"
  /\ LET r == engine[e] IN
     \/ /\ r.position = 0 \/ ~MustExit(r)
        /\ Set(e, [r EXCEPT !.at = "idle"])
     \/ /\ r.position # 0
        /\ \E n \in Pnls : Set(e, [r EXCEPT !.at = "trade", !.pnl = n])
     \/ /\ r.position = 0
        /\ r.isNew /\ r.state # "stopped" /\ Accepts(r.gate, TRUE) /\ r.equity > 0
        /\ Set(e, [r EXCEPT !.at = "open"])
  /\ UNCHANGED faults /\ Tables /\ Elsewhere /\ Ghosts

\* _open_position: order, fill, position; then the memory.
OpenPositionRow(e) ==
  /\ engine[e].at = "open"
  /\ \E p \in Positions :
       /\ positions[p].status = "none"
       /\ \A q \in Positions : q < p => positions[q].status # "none"
       /\ LET d == Day(engine[e].last) IN
          /\ positions' = [positions EXCEPT ![p] = [status |-> "open", day |-> d, bars |-> 0]]
          /\ Set(e, [engine[e] EXCEPT !.at = "idle", !.position = p, !.bars = 0,
                                      !.balance = @ - Fee, !.gate = OnTradePlaced(@)])
  /\ UNCHANGED <<trades, faults>> /\ Elsewhere /\ Ghosts

\* _close_position, insert_trade
InsertTrade(e) ==
  /\ engine[e].at = "trade"
  /\ trades' = [trades EXCEPT ![engine[e].position] = Append(@, engine[e].pnl)]
  /\ Set(e, [engine[e] EXCEPT !.at = "close"])
  /\ UNCHANGED <<positions, faults>> /\ Elsewhere /\ Ghosts

Exceeds(pnl, pct) == pnl * 100 <= -(pct * InitialCapital)

\* Mutant: only the total loss stops the engine.
StopsTotal(r) == Exceeds(r.total, MaxTotalDrawdown)

Stops(r) == Exceeds(r.dayPnl, MaxDailyDrawdown) \/ Exceeds(r.total, MaxTotalDrawdown)

\* close_position, then the totals in memory
ClosePosition(e) ==
  /\ engine[e].at = "close"
  /\ positions' = [positions EXCEPT ![engine[e].position].status = "closed"]
  /\ LET n == engine[e].pnl IN
     Set(e, [engine[e] EXCEPT !.at = "account", !.balance = @ + n + Quantity,
                              !.total = @ + n, !.dayPnl = @ + n, !.dayTrades = @ + 1])
  /\ UNCHANGED <<trades, faults>> /\ Elsewhere /\ Ghosts

\* Mutant: the position stays in memory.
FlatKept(r) == [r EXCEPT !.equity = r.balance]

Flat(r) == [r EXCEPT !.equity = r.balance, !.position = 0, !.bars = 0]

\* The rest of _close_position: the gate, the stops, the equity.  A top-up may
\* have come in between.
Account(e) ==
  /\ engine[e].at = "account"
  /\ LET r == [Flat(engine[e]) EXCEPT !.at = "idle", !.booked = TRUE,
                                      !.gate = OnTradeClosed(UpdatePnl(@, engine[e].pnl))]
     IN Set(e, IF Stops(r) THEN [r EXCEPT !.state = "stopped"] ELSE r)
  /\ UNCHANGED faults /\ Tables /\ Elsewhere /\ Ghosts
-----------------------------------------------------------------------------
(* Faults *)

HalfClosed == {engine[e].position : e \in {f \in Engines : engine[f].at = "close"}}

\* The trade is in the table, its position is not closed, and no total has it.
Uncounted(r) == [r EXCEPT !.missed = @ + r.pnl, !.dayMissed = @ + r.pnl, !.tradesMissed = @ + 1]

\* A statement of tick fails; the loop logs it and goes on.
Fail(e) ==
  /\ engine[e].at \notin {"off", "idle", "account"} /\ faults < MaxFaults
  /\ faults' = faults + 1
  /\ torn' = torn \cup IF engine[e].at = "close" THEN {engine[e].position} ELSE {}
  /\ LET r == IF engine[e].at = "close" THEN Uncounted(engine[e]) ELSE engine[e]
     IN Set(e, [r EXCEPT !.at = "idle"])
  /\ UNCHANGED <<beside, shared>> /\ Tables /\ Elsewhere

\* The process dies, with every engine in it.
Crash ==
  /\ faults < MaxFaults /\ Running # {}
  /\ faults' = faults + 1
  /\ torn' = torn \cup HalfClosed
  /\ engine' = [e \in Engines |-> Off]
  /\ serving' = 0
  /\ UNCHANGED <<bar, topUps, beside, shared>> /\ Tables
-----------------------------------------------------------------------------
Init ==
  /\ bar = 0
  /\ positions = [p \in Positions |-> NoPosition]
  /\ trades = [p \in Positions |-> <<>>]
  /\ engine = [e \in Engines |-> Off]
  /\ serving = 0 /\ topUps = 0 /\ faults = 0
  /\ torn = {} /\ shared = {} /\ beside = FALSE

Work(e) ==
  \/ Tick(e) \/ UpdateBars(e) \/ ResetDay(e) \/ Decide(e)
  \/ OpenPositionRow(e) \/ InsertTrade(e) \/ ClosePosition(e) \/ Account(e)

Next ==
  \/ NewCandle \/ Crash
  \/ \E e \in Engines : Start(e) \/ TopUp(e) \/ Work(e) \/ Fail(e)

Spec == Init /\ [][Next]_vars
-----------------------------------------------------------------------------
(* Properties *)

\* A position is booked as a trade once.  The only ways to book it twice are a
\* failure between the two commits of _close_position, and a second engine that
\* recovered a position the first one still holds.
BookedOnce ==
  \A p \in Positions : Len(trades[p]) > 1 => p \in torn \/ p \in shared

\* Between two ticks a lone engine holds what is the open row of the table,
\* through every crash, recovery and failed commit.
HoldsOpenRow ==
  ~beside => \A e \in Engines : engine[e].at = "idle" => engine[e].position = OpenPosition

\* Between two ticks the totals in memory, which decide about stops, are those
\* of the tables, but for the trades whose booking was followed by a failure to
\* close the position: these are in the tables and never in the memory, until a
\* restart or, for the day's totals, until the next day.  The day's totals of an
\* engine that recovered a position of an earlier day are out of this, and two
\* engines beside each other do not know of each other's trades.
TotalsAgree ==
  ~beside => \A e \in Engines : LET r == engine[e] IN r.at = "idle" =>
    /\ r.total + r.missed = TotalPnl
    /\ r.own => /\ r.dayPnl + r.dayMissed = DailyPnl(r.day)
                /\ r.dayTrades + r.tradesMissed = DailyTrades(r.day)

\* A lone engine for which the tables show a loss of the day at the limit places no
\* entry, once it has closed a trade since it took up the day.  Not counted are the
\* trades it booked and failed to close (TotalsAgree); before that first trade
\* an engine that was restarted, or resumed by a new day, trades whatever the day
\* has lost: recover and _reset_day set it running.
StopsAtLoss ==
  ~beside => \A e \in Engines : LET r == engine[e] IN
    r.own /\ r.booked /\ Exceeds(DailyPnl(r.day) - r.dayMissed, MaxDailyDrawdown) => r.at # "open"

\* The balance of an engine without a position is the capital, the top-ups and what
\* the trades made.  This does not hold: a closed trade adds its whole quantity, an
\* entry deducts the commission that the trade's profit contains as well, and
\* recover, which leaves both out, forgets the top-ups too.
BalanceIsEarned ==
  \A e \in Engines : engine[e].at = "idle" /\ engine[e].position = 0
    => engine[e].balance = InitialCapital + topUps * TopUpAmount + TotalPnl

\* Between two ticks the equity, which sizes the next position, is the balance
\* of an engine without a position: a top-up in the middle of a tick reaches both.
EquityAgrees ==
  \A e \in Engines : engine[e].at = "idle" /\ engine[e].position = 0
    => engine[e].equity = engine[e].balance
=============================================================================
