# A TLA+ model of freqcustom

freqcustom is a fork of the freqtrade crypto trading bot. One process runs a
worker thread that trades through an exchange, threads that serve the operator
(Telegram, a REST server), and, in this fork, a paper trader in a background
thread that reads candles and features a separate Go collector writes to a
database.

This directory models the parts of it that move money or decide when it moves,
and are hard to test: what the bot believes about its orders and trades, against an
exchange that goes on without it, a process that may die at any moment, and
requests that other threads make at any moment; the paper trader and its tables;
the price of a stoploss; locks and protections; the simulation of the same rules in
backtesting; and the two ways candles come in, over a websocket or from another
bot. TLC checks small instances; TLAPS proves the main invariants for every size.

    tlasany TradeLifecycle.tla
    tlc -config spot.cfg MCTradeLifecycle
    tlapm TradeLifecycle_proofs.tla

## 1. The system

### 1.1 Components

| component | state it keeps | operations | talks to | hard behaviour |
|---|---|---|---|---|
| Order and trade lifecycle (`freqtradebot.py`, `persistence/trade_model.py`) | Trade and Order rows: a session, and the committed database | create_trade, execute_entry, execute_trade_exit, manage_open_orders, handle_cancel_*, replace_order, handle_stoploss_on_exchange, handle_onexchange_order, startup_update_open_orders | the exchange, several calls per handler | orders fill or vanish between two calls, a crash between a call and the commit, lost replies, refused cancels |
| Exchange access (`exchange/exchange.py`) | none for live orders | create_order, fetch_order(s), cancel_order, cancel_order_with_result | ccxt | errors that do not say whether the call took effect; answers made up when an order is not found |
| Worker (`worker.py`) | the bot object, old state | run, _worker, _process_running, _reconfigure | FreqtradeBot | a state shared with request threads, sampled once per iteration; exceptions; reload |
| Iteration and lock (`FreqtradeBot.process`, `_exit_lock`) | state, lock | process, startup, process_stopped, cleanup, enter_positions | requests | what is read before the lock, what runs without it |
| RPC (`rpc/rpc.py`, `rpc_manager.py`) | none | start, stop, pause, reload_config, forceenter, forceexit, cancel_open_order, delete, reload_trade | state and trades of the bot | check, then wait for the lock, then act |
| Paper engine (`papertrade/`) | balance, equity, position, day's totals; five tables | tick, top_up, recover | trade gate, REST server | separate commits, recovery from part of the state, an unlocked top-up, a second engine after a reload |
| Trade gate (`user_data/strategies/agents/trade_gate.py`) | IDLE / COOLDOWN / STOPPED, trades today, day's loss | evaluate, on_bar, on_trade_placed, on_trade_closed, update_pnl, reset_day | paper engine, strategy | order of calls |
| Pair locks, protections (`persistence/pairlock*.py`, `plugins/protection*`) | lock rows with end times | lock_pair, unlock, global_stop, stop_per_pair | enter_positions, RPC | time, deduplication |
| Wallets (`wallets.py`) | cached balances | update, get_trade_stake_amount | exchange, trades | staleness (an hour), rounding, minimum stakes |
| Stop-loss price (`Trade.adjust_stop_loss`, `strategy/interface.py`) | stop_loss, stop_loss_pct, initial_stop_loss_pct, is_stop_loss_trailing | adjust, reinitialize, ft_stoploss_adjust, ft_stoploss_reached | exits, the stoploss order on the exchange | must only walk towards the rate, through fills, reloads and rounding |
| Backtesting (`optimize/backtesting.py`) | open and closed trades, orders, caches of candles and directions, locks | backtest, backtest_loop, manage_open_orders, _enter_trade, handle_left_open | protections, stop-loss price | order of steps within a candle; detail candles; orders that never fill |
| Message stream, external message consumer, data provider | the stream's waiter, subscriptions, the producers' data frames | publish, broadcast, subscribe, analyzed_df, add_external_df | another bot's server | threads that publish without a lock, reconnects, holes |
| Exchange websocket and candle cache (`exchange/exchange.py`, `exchange_ws.py`) | `_klines`, refresh times, tasks of an event loop in a thread of its own | refresh_latest_ohlcv, schedule_ohlcv, _continuously_async_watch_ohlcv, _continuous_stopped | ccxt | data that change between choosing and reading; tasks that end and begin |
| REST server, Telegram, backtest job | connections | | rpc | threads |
| Go collector | candles, features | | TimescaleDB | (section 6) |

`PROJECT.json` lists every component, with the reason for those left out.

### 1.2 What makes each correct

* Lifecycle: every live order has a row that will be looked at again; what was
  bought is neither forgotten nor sold twice; a closed trade holds nothing, a
  deleted one never held anything; an open one has a position or an order;
  replacing an order never leaves two; handlers end.
* Worker, lock and requests: max_open_trades; one trade per pair; the worker of a
  bot that was built starts up before it trades; requests take effect and are answered;
  nothing hangs in a reload.
* Paper engine: what it has in memory is what its tables say, before and after a
  restart; a position is booked once; a day that lost its limit is over. That the balance
  is the capital plus top-ups plus what trades made would be the first thing to ask of
  it, and does not hold (section 5, BalanceIsEarned).
* Gate: STOPPED outlives the day's trades; the number of trades per day is bounded.
* Pair locks: a pause that was asked for holds until its end, however it is
  rounded, overlapped by other locks, or asked about; and it is asked for.
* Stop-loss: it moves away from the rate only where the code resets it, a rate that passed it is an
  exit, and the order on the exchange follows it.
* Backtesting: one open order at a time, no filled order is forgotten, pauses hold. What a
  simulated partial fill bought does get lost (section 5, PartialFillsCount).
* Candles and messages: what the strategy sees is over, complete, in order, or
  asked for again; one task watches a pair, and lets it go.

## 2. Modules

| module | what it is |
|---|---|
| `TradeLifecycle` | one spot trade, its orders, the exchange, the database |
| `TradeLifecycle_proofs` | its four inductive invariants; type correctness, KnownOrders, NoEmptyTrade, DeletedTradeHoldsNothing, FillsNeverForgotten, the balances and SingleEntryOrder |
| `MCTradeLifecycle` | the module its configurations run |
| `TradeSlots` | abstract: a set of open trades, a limit, one per pair |
| `BotControl` | worker, state machine, lock, requests; implements TradeSlots |
| `BotControl_proofs` | type correctness, the refinement, the limit and how far it is passed, startup first |
| `MCBotControl` | model values, sets and symmetry for its configurations |
| `TradeGate` | operators: the gate's methods |
| `PaperEngine`, `MCPaperEngine` | the paper trader, its tables, its threads; uses TradeGate |
| `PaperEngine_proofs` | its invariant; EquityAgrees, HoldsOpenRow, BookedOnce, TotalsAgree and StopsAtLoss |
| `Protections` | operators: locks, the four protections |
| `PairLocking`, `MCPairLocking` | the running bot's use of them, with time and crashes |
| `PairLocking_proofs` | its inductive invariant; DemandsHold, NoReentry and StopsAfterLosses |
| `Backtesting`, `MCBacktesting` | the simulation; uses Protections |
| `Backtesting_proofs` | its two inductive invariants; SingleOpenOrder, SoldWhatWasBought, NothingForgotten and ReentryWaits |
| `StopLoss`, `MCStopLoss` | the price of a stoploss and the order that follows it |
| `StopLoss_proofs` | its inductive invariant; NeverDown, NoEscape and TrailingFollows |
| `SignalFeed`, `MCSignalFeed` | message stream, channel and consumer |
| `SignalFeed_proofs` | its inductive invariants; NoHoles, HolesAskedFor and InOrder |
| `CandleCache`, `MCCandleCache` | the bot's candles, from REST or websocket |
| `CandleCache_proofs` | OnlyFinished and OneWatcher |

TradeLifecycle and BotControl split the bot along `_exit_lock`. TradeLifecycle looks
at one trade from inside a handler, where the other party is the exchange and
only one handler works on the trade. BotControl looks at all threads from
outside the handlers, where a handler opens or closes trades in one step, and
what matters is who holds the lock and what was read before. The exceptions to
the lock that BotControl finds (`overlap`) are the exceptions to the assumption
TradeLifecycle makes.

### 2.1 TradeLifecycle

| variable | in the code |
|---|---|
| `ex` | the exchange's orders for this trade: side, amount, filled, status |
| `rows` | the session's `Order` rows, of the same form: `rows[o] # ex[o]` means the bot's view is stale |
| `trade`, `amount` | `Trade.is_open` (or no row, or deleted), `Trade.amount` |
| `db` | all three as of the last `Trade.commit()` |
| `task` | the handler in progress: the next call (`at`), where the routine it is in returns to (`then`, `after`) and its local variables |
| `unknown` | ghost: orders whose row was lost to a crash or a lost reply |
| `faults` | bound on those |

An action is what happens from one call of the exchange to the next. `Market`
(Fill, ExchangeCancel) and `Crash` may come between any two. A handler that
returns goes through `Commit`: process and the RPC handlers commit before they
look at the next trade. A routine that several handlers share is one operator
with a continuation: `UpdateTradeState(o, snap, sending, k)` is
`update_trade_state` (update_order, update_trade, recalc_trade_from_orders,
_update_trade_after_fill, commit) and goes on at `k` after the stoploss orders it
has to cancel.

Kept: every guard and order of steps; the difference between an order dict that
was fetched and the row; the uncommitted updates of `update_trade_state` (it does
not commit for an order cancelled without a fill) and of `create_stoploss_order`;
the comparisons of amounts that close a trade; the made-up answer of
`cancel_order_with_result`; `sub_trade_amt or trade.amount`, where 0 means all.
Left out: prices, fees, precision and the 2 % and 0.98 tolerances that go with
them; futures; notifications; `rejected` and `cancelled`, which the code treats as
`expired` and `canceled`; the strategy, whose answers are free choices; the three
retries of a replacing cancel.

### 2.2 BotControl

| variable | in the code |
|---|---|
| `state` | `FreqtradeBot.state`, written by the worker and by requests |
| `lock` | who holds `_exit_lock` (an RLock: the worker may take it again) |
| `worker` | where the worker is, the state it saw last, the pairs it has still to enter |
| `client` | per request thread: the request, and the trade it decided on |
| `trades` | the open trades |
| `halted`, `new` | ghosts: an OperationalException stopped the bot and nobody asked for more; this bot object has not started up |

`Unlocked` and `Refresh` are the places where the worker changes trades without
the lock (startup, process_stopped, cleanup) or before the locked part.
`CheckRunning` and `Lookup` are what requests read before they wait for the lock.
A forced exit closes one trade or, for "all", several in one step. After a reload the bot has a new lock; `Join` waits for the request threads, as
`rpc.cleanup` does. Left out: `max_open_trades = -1` (no limit, nothing to
check), trades already in the database at the first start, and an exception in
startup or in the constructor, which ends the process.

### 2.3 PaperEngine and TradeGate

`engine[e]` is the memory of one engine: the fields of `PaperEngine`, its gate,
and `at`, the next write to a table in `tick`. `positions`, `trades` are the
tables it reads back; every action ends with one commit. A write may fail: `run`
logs the exception and the next tick goes on from what is in memory (`Fail`).
`Crash` drops all memory; `Start` is `recover` and, after a reload of the bot,
which leaves the old engine's thread running, a second engine. `TopUp` comes from the
REST server's thread; its additions happen at once, as the interpreter's lock lets
them, and come between any two writes of a tick.

Ghosts of an engine: `own`, its day's totals are those of the day (not those of a
position recovered from an earlier one); `booked`, it has closed a trade since it
started or took up the day; `missed`, `dayMissed` and `tradesMissed`, what the trades come
to that it inserted before `close_position` failed, which no total in memory has.

The gate is a record and its methods are operators from gate to gate. Of
`evaluate` the tests of the agents' scores are one free choice. What the code
really does is kept where it looks odd: a closed trade adds the whole quantity
to the balance although its entry deducted the commission only; the count of the
day's trades starts at zero after a restart; and the next day resumes an engine
that the total drawdown stopped. `docs/ai-trading.md:60` speaks of exits at a
drawdown; the code only enters no more.

### 2.4 Protections, PairLocking

`Protections` has `PairLocks` (lock_pair with the rounding of `until` up to a
candle, is_pair_locked, is_global_lock, unlocking) and the four protections, as
operators on sets of locks and trades and a time. `PairLocking` puts them into the running bot: `StartEntering` and
`CreateTrade` (enter_positions), `CloseTrade`, then `AutoLock`, `LockPerPair` and
`LockGlobally` (handle_protections, one commit after the other), `AddLock`,
`DeleteLocks` and `StrategyUnlocks`, time and crashes. Time is in minutes, a candle has `Timeframe` of them, and entries are asked
about with the date of the last analysed candle, which may be one behind. Locks do
not stop forced entries, and are not meant to. A crash between closing a trade and
`handle_protections` loses the locks of that trade: `NoReentry` says so. The manager
sets no lock of a pair during a longer one of all pairs; who deletes that one
(`/unlock`, `_rpc_delete_lock`) also ends the pauses of single pairs it stood for, and
`Release` takes them out of `demands`. In a simulation `unlock_reason`
uses the wall clock; no caller in the repository does that.

### 2.5 StopLoss

One trade, long or short, and everything that moves its stoploss:
`AdjustStopLoss` is `Trade.adjust_stop_loss` branch by branch, with prices rounded
towards the rate; `Recalc`, `InitStopLoss`, `ClosedBt` are what
`recalc_trade_from_orders`, the first fill and a simulation do with it.
A simulation recalculates a trade again
if its entry is filled as it is placed, and may fill an order in parts first (`PartialFill`).
`ShouldExit` is the stoploss half of `should_exit` on a rate or on a candle's low
and high; `Fill`, `Reduce` are entries and partial exits; `Reload` is
`stoploss_reinitialization`; `PlaceStop` and `MoveStop` are
`handle_trailing_stoploss_on_exchange`, once per `Interval`. The strategy's `custom_stoploss` is a free choice of `Percents`.

### 2.6 Backtesting

One action per phase of `backtest_loop` for one pair and one trade: `NextCandle`,
`NextStep` and `NextPair` walk as `time_pair_generator` does; then come
`ManageOpenOrders`, `EnterTrade`, `FillEntry`, `Adjust`, `CheckExit`, `Sell` and,
when a position is reversed, `Again`; `HandleLeftOpen` and `ForceExit` end it. Orders
have a price and fill if the candle reaches it. A partial fill of the simulation
is remembered on the open order only, as in the code, where `recalc_trade_from_orders`
leaves out open orders: if such an order times out, is cancelled or is replaced, what it
bought or sold is gone. A stoploss is sold within the candle, or at any price with
`backtest_stoploss_slippage` (`ClosePrices`), when it may not fill. Money is not modelled (the stake a changed
order needs is not reserved in the code either); trades left open are closed in the order
of their opening. The code's list of open trades is a function from their ids here: ids
are given in the order of the list, and the trade a phase takes next is the least id of
`todo`, a set. `Filled` adds up a trade's orders with a recursive function. Of the
protections a simulation can have, the model takes cooldowns: what it keeps of a closed
trade is enough for them.

### 2.7 SignalFeed

The producer's `MessageStream` as it is written: a list of futures, a waiter, and
`publish` in three steps, in any thread (`Take`, `Store`, `SetResult`). A channel's broadcaster
walks the futures; its reader answers requests with the cached candles. The
consumer sends its initial requests, sends the requests its data provider
publishes, and appends or replaces what arrives (`AddExternal`). A
connection may end at any time; the consumer's tasks swallow the exception and it
connects again. Whitelist messages are left out, and `initial_candle_limit`, which
the code never reads. A request published before the consumer listens for them is lost, and
is made again with the next candle.

### 2.8 CandleCache

`bot` is a call of `refresh_latest_ohlcv`: the pairs to look at and the jobs it
has built; the jobs' results are processed one by one, which no other thread can
tell from all at once, since only the bot's thread uses the cache. The event loop of `ExchangeWS` is a set of
tasks; a task that never awaits (`"spin"`) stops the others. Between a choice of the source and
the reading of it anything may happen on the loop. What ccxt does is external:
it keeps candles over lost connections, a REST answer ends with the current
candle, and candles of a subscription that lasts are complete. A watch may fail with an error of ccxt,
be closed, or raise anything else (`WatchBreaks`). Left out: the several calls of a longer
first history, and the empty frame that an answer without candles leaves in the cache. Time is in half
candles; a reset of the connections is due at one given time.

## 3. Runs

Every run checks all interleavings of its instance. `PROJECT.json` lists the runs;
each of the other `.cfg` files ends in a counterexample that section 5 explains.

### 3.1 TradeLifecycle

Bounds: 3 or 4 orders per trade (entry, exit and a replacement of either; or a
stoploss and its successor), entries of amount 2, so that an order is unfilled,
half filled or filled, and at most one crash or lost reply. Deadlock is not
checked: when the orders are used up, or the trade is closed, the model stops.

| run | shows |
|---|---|
| `spot` | between handlers, when all rows say what the exchange says, an open trade's amount is what is held and a closed trade holds nothing (OpenTradeBalances, ClosedTradeHoldsNothing); a deleted trade has no fill and no live order (DeletedTradeHoldsNothing); no handler replaces a row by an older order dict (FillsNeverForgotten) |
| `stoploss` | HandlerEnds, OrderReconciled, SingleEntryOrder: an entry is replaced only once it is gone; with stoploss orders, replacements and a crash |
| `adjusting` | with everything else on (position adjustment, stoploss, immediate answers in any state, reloads, cancelled orders that can not be fetched): KnownOrders, and NoEmptyTrade while there is no crash and no lost reply |

Where one run checks a property and another finds it violated, the difference is
a constant: `DeletedTradeHoldsNothing` holds without price adjustment
(`replace_failed` has it) and if cancelled orders can be fetched
(`fabricated.cfg` can not); `ClosedTradeHoldsNothing` holds without manual reloads
(`reload.cfg`).

### 3.2 BotControl

Bounds: two or three pairs, limit one or two, one or two request threads (the
counterexamples need one). Two ids per pair where a second trade of a pair could
be opened. Nothing else is bounded: the state has no counters. Deadlock is checked.

| run | shows |
|---|---|
| `slots` | without forced entries, WithinLimit, OnePerPair, the refinement KeepsSlots of TradeSlots, and StartsUpFirst (of the worker) under every order of state changes, reloads and exceptions |
| `live` | two request threads with forced entries: reloads happen, the worker never hangs, requests are answered; forced entries overshoot the limit by one per request thread at most (OvershootBounded); a bot that stays paused becomes quiet (PausedBecomesQuiet) |

### 3.3 Paper trader, locks, simulation, stoploss

`paper`: up to eight candles, a day of seven, so that a trade spans midnight; three
positions, one crash or failed commit, one top-up, and a second engine that runs
for two candles beside the first. A position is booked once (BookedOnce), unless the
process dies, or a write fails, between booking it and closing its row, or two engines
know it: these exceptions are in the code, and in the property. While one engine runs, the position
in memory between ticks is the open row (HoldsOpenRow) and the equity of a flat one its balance
(EquityAgrees), through every crash and failed write. The totals in memory are those of the
tables except for one failure, which TotalsAgree states with its amount: when
`close_position` fails after `insert_trade`, the trade is in the table and in no total,
until a restart or, for the day's totals, the next day. StopsAtLoss looks at the day's trades in the table: once they lose the
limit, an engine that has closed a trade in that day enters no more. What it does not count
are the trades of that failure, and it says nothing of an engine before its first closed
trade of the day: recover and `_reset_day` set it running whatever the day has lost.

`locks`: two pairs, both sides, candles of two minutes, four minutes, two
closed trades, one lock by hand, release or crash, and four configurations with all
protections. No entry comes before the end of a pause that was asked for
(DemandsHold); no pair is entered again on the same side in the candle it was closed
in (NoReentry); after the losses a StoplossGuard counts, nothing is entered for its
duration (StopsAfterLosses: this one is stated on trades, not on locks). The last two are
about trades whose locks were set: a crash may come before. Symmetric in the pairs.

`backtest`: two candles of two detail candles, the second pair with data for one
of them; two prices, amounts up to two, one adjustment; six setups that combine
detail candles, stacked positions, short trades, partial fills, adjustments and
protections. A trade has one open order at a time, what a comment in the code assumes
(SingleOpenOrder); a closed trade sold what it bought (SoldWhatWasBought); no step loses a
filled order, and none is left in an open trade at the end (NothingForgotten); pauses hold
(ReentryWaits). The second and the third are about filled orders, which is all the results
know; partial fills that are lost with their orders are in section 5.
Slippage is zero here (section 5 says what it does), but a stoploss may slip out of its candle. With detail candles, ReentryWaits
asks that a pair whose trade was closed is not entered again in the candle for setups
with one position at a time only (`OneAtATime`): a position that is reversed, or one
beside it, makes the code call the pair again in the same candle, and TLC finds the
second entry. The pause of a cooldown holds for all setups.

`stops`: twelve setups (six, long and short), three prices, two fills, three checks, one
reload. A trade's stoploss only walks towards the rate, except where the code
resets it: at a reload of another configuration, at the first fill of a simulation
and when a custom stoploss is asked for after a fill (NeverDown); a rate that has
passed it is reported (NoEscape); a trailing stoploss is where the best rate puts it (TrailingFollows, for one
entry, without a custom stoploss and before a reload);
the order on the exchange reaches the stoploss (ExchangeFollows).

### 3.4 Candles and messages

`feed`: one pair, three candles of the market, frames of three and four candles in
place of 500 and 1500, two publishing threads, one lost connection, restart or foreign message. A
consumer's candles have no hole (NoHoles), a hole it saw is asked for until it is
filled (HolesAskedFor), and messages arrive in the order they were published in
(InOrder).

`candles`: two pairs asked for in turn, three half candles after the start, REST answers
of four candles, one retry in place of five, one lost or reset connection. No candle that is not over reaches
the cache (OnlyFinished), and a pair is watched by one task at most, whose end
forgets its history (OneWatcher).

### 3.5 Fairness

`TradeLifecycle!FairSpec`: weak fairness of `Continue` (the thread that holds the
lock runs on; every call of the exchange returns or raises). Strong fairness of
`ManageOpenOrder(o)` and `ManageStoploss`: process visits each open order and
each stoploss once per iteration, whatever requests and strategy do in between;
this assumes a running bot, so `OrderReconciled` says nothing of a stopped one.
None for the market, crashes or errors.

`BotControl!FairSpec`: weak fairness of the worker and of each request thread,
and strong fairness of taking the lock: it is free again and again, and a thread
that waits for an RLock gets it some time. Python's RLock does not promise that
to a thread, but the worker sleeps between iterations without the lock.
No fairness for requests: the operator need not make any.

`StopLoss!Spec`: weak fairness of placing and moving the order on the exchange and of
the interval between moves: process calls `handle_stoploss_on_exchange` in every
iteration. None for prices, fills or reloads.

`SignalFeed!FairSpec` (in `short_frame` only) and `CandleCache!FairSpec`
(`endless`): the threads and the event loop run what is ready, and the exchange sends
candles. A counterexample under it is one of a system that works on.

## 4. Proofs

What TLC sees for three orders or two pairs, the proof modules show for every
value of the constants.

**TradeLifecycle_proofs.** `InductiveInvariant`, `TypeCorrect`, `NoOrderForgotten`
(`KnownOrders`). KnownOrders alone is not inductive: a step that follows a
handler's local variables needs to know what they may be. The invariant `Inv`
adds

* that the bot is never ahead of the exchange: a row is of an order the exchange
  accepted, and a row that is not open is of an order that is no longer live
  (`NeverAhead(rows, ex)`);
* the same for the committed rows, which a crash brings back
  (`NeverAhead(db.rows, ex)`);
* what a handler's locals may be (`TaskOK`): the order it is about exists; the
  order dict it holds while it cancels or records is open if the order is live; a
  loop visits orders that exist; and which routine may return to where.

Assumptions, beside `TradeAssumption`: no price adjustment by the strategy
(`~AdjustOrderPrice`), since `replace_failed` shows that replacing an order may
delete the row of a live one; and `Missing \subseteq NonOpen`, exchanges may forget
orders, but not live ones, since startup takes an order it does not find for
cancelled. The proof has one step per action; the actions that go through
`UpdateTradeState` share one lemma about it.

`BooksInOrder`, `NoTradeIsLeftEmpty` (NoEmptyTrade), `OnlyEmptyTradesAreDeleted`
(DeletedTradeHoldsNothing), `FillsAreKept` (FillsNeverForgotten). A second invariant,
`Whole`, on top of `Inv`, says what the rows know of the fills:

* `Books`: a row never says more than was filled, and all of it once it is no longer
  open; what the session has not committed changes no position (`Saved`), so that a
  crash takes no fill away; the trade has an amount, and can be closed, only after an
  entry was filled (`Paid`); sell orders exist only then;
* `Locals`: the order dict a handler holds fits the row it is about (`Fits`), a loop has
  open rows still to visit and not the one in hand;
* `Gone`: a trade that is not there has no rows, and nothing is done about it;
* `RowOrDead`: an order without a row is being recorded, is unknown, or bought nothing;
* `KeptBy`: without a crash or a lost reply an open trade has a filled entry or an open
  order, except while `handle_onexchange_order` rebuilds it.

`DeletedTradeHoldsNothing` and `FillsNeverForgotten` assume `Missing = {}`: the answers
made up for orders that are not found leave out their fills (`fabricated` shows it).
NoEmptyTrade does not need that.

`BalanceKept`, and from it `OpenTradesBalance` (OpenTradeBalances) and
`ClosedTradesHoldNothing` (ClosedTradeHoldsNothing). The third invariant, `Balanced`, is about sums over the orders:

* `Unsold(ex) >= 0`: even if every live sell order is filled, no more is sold than was
  bought. This, and not `Held >= 0`, is inductive, since a sell that is filled
  leaves it as it is; it is what the exchange checks (`Free`) when it takes an order;
* `OneEntry`: of the entries at most one lives or was filled;
* `AddsUp`: the amount of an open trade is what `recalc_trade_from_orders` makes of its
  rows, and the rows of a closed one come to nothing. The recalculation ignores results
  of zero or less and open rows; a lemma shows that, once something was bought, the rows
  never add up to less than the position (an open row is a live sell or one that was
  filled later), so that what `Closes` compares decides the same;
* the committed rows add up to the same;
* `Tame`: where a handler may be as long as no order is unknown: it neither replaces nor
  rebuilds, and a loop visits rows that are open as long as the trade is.

The step that carries it is `UpdatedBalance`: update_trade_state with a final order dict
keeps `AddsUp` whether it closes the trade or not. Assumptions: no price adjustment, no
position adjustment (`~PositionAdjustment`; `reopened` shows a closed trade with an open
entry), no `/reload_trade` (`reload`), `Missing = {}`, and create_order does not answer
"canceled": execute_trade_exit updates the trade for "closed" and "expired" answers
only, so that the fill of an exit cancelled at once is in its row but not in the amount.
The theorems say `Spec /\ []NothingLost => ...`: no crash has
taken a row and no reply was lost. The properties themselves excuse the states in which
an order is unknown, but adopting the unknown orders again does not restore the balance
in every case: after three lost replies (the runs have one fault) a counterexample
exists. Crashes that take no row are covered.

`OneEntryAtATime` (SingleEntryOrder) is where entries are replaced: the strategy may adjust the
price of every order, cancels may fail or be refused, and stoplosses, reloads and crashes
come in between. The fourth invariant, `OneBuys`, stands on its own, since a replacement that
fails may delete the trade of a live order (`replace_failed`), which `Inv` excludes:

* `Tracks`: no row is ahead of the exchange or of another side, in the session and in the
  database, and one open row at most buys;
* `RowOfEntry`: a live entry has an open row, or is being recorded, unless the trade was deleted;
* `NoSecondEntry`: a handler that is about to place an entry, or has the entry it replaces
  cancelled, sees no open row of one; while it cancels it, no other;
* `Labelled`, `Lists`, `OrderAt`, `AtWork`: which locals a handler can have, where; only the first
  entry is worked on without a row, so that nothing is placed for a deleted trade.

Assumed are no position adjustments (they buy more even if an entry they tried to cancel is
still live) and `Missing \subseteq NonOpen`.

**BotControl_proofs.** `ControlTyped` (TypeOK and that a request that enters or
exits holds a trade), `SlotsImplemented` (`KeepsSlots`), and from it alone `LimitHolds`
(`WithinLimit`) and `PairsTradedOnce` (`OnePerPair`); `StartupComesFirst`
(`StartsUpFirst`) and `OvershootIsBounded` (`OvershootBounded`) without any assumption
about the requests. The refinement needs one more fact: while
`enter_positions` is in its loop, no pair it has still to visit has an open trade.
It holds since the list was read once under the lock and only the worker opens
trades then; this is where the assumption `"forceenter" \notin Requests` is used,
and `twice` shows that it is needed. Trades may be closed in the
middle of the loop, with or without the lock, and that does no harm.

`StartsUpFirst` follows from the state the worker saw last: a bot that is new has not
been seen started, and nothing but `_worker` with a new started state leads to work.
For `OvershootBounded` the invariant counts the trades that forced entries have decided
on together with the open ones: a thread decides below the limit and on one trade at a
time, so that all of them are at most the limit and one per thread. The threads are
assumed to be finitely many.

**PaperEngine_proofs.** `EquityAlwaysAgrees` (EquityAgrees), `OpenRowHeld`
(HoldsOpenRow), `NeverBookedTwice` (BookedOnce), `TotalsAlwaysAgree` (TotalsAgree),
`AlwaysStopsAtLoss` (StopsAtLoss), for every number of engines,
positions, candles, top-ups and faults. The invariant has five parts.

* `Memory`: the place of an engine says whether it has a position, and an engine
  without one has its balance as its equity.
* `Lone`: while no two engines have run, the open rows are what the engine holds
  (nothing once it has closed the row and has not yet let go of it), and a dead
  process leaves one open row at most, which is what the next one recovers.
* `Booking`, for each position: nobody holds a row that was never written; one that
  was neither torn by a fault nor shared by a second engine is held by one engine at
  most, which has not booked it, or is about to close its row, or has just done so.
* `Totals`: what a lone engine has in memory, plus the trade it has inserted and not
  yet accounted for, plus those whose position it failed to close, is what the tables sum to: for all trades, and for the day it is
  in unless it recovered a position of an earlier one.
* `Daily`: the day of an engine is the day of the position it opened, and one that
  has accounted for a trade of its day, and lost the limit, is stopped and does not open.

Each operation has one lemma that says what it makes of the engine's place and
position (`TickGoes` ... `FailGoes`); the first three parts are proved from those lemmas,
the other two from what an operation does to the sums.

**Sets and sums.** Several modules begin with the facts about CHOOSE and the folds of the
community modules that they rest on: a set of naturals has a least member and a bounded
one a greatest (`LeastExists`, `GreatestExists`), and a sum over a finite set changes by what
one of its terms changes. `SumFunctionOnSet` is a fold over a CHOOSE; `SumIsChosen` and `SumIsFold`
show that on a finite set it is the number any order of adding gives, by a smallest
counterexample (the library's induction takes an operator). `SumOfParts` splits a sum by a subset.

**StopLoss_proofs.** `AlwaysHasStop`, `StopNeverDown` (NeverDown), `StopNeverEscapes`
(NoEscape), for all prices, profits, stoploss settings and sequences of fills, checks,
reductions and reloads. The action property is not inductive: without an initial
stoploss adjust_stop_loss sets any price. `TrailingAlwaysFollows`
(TrailingFollows) adds that the trailing stoploss of a trade with one entry, no custom
stoploss and no reload keeps to the best rate it was checked at, through partial fills and
partial exits too, which recalculate it: its invariant says so of the
stoploss price itself, before and after the offset was reached. `HasStop` says that a trade has one from its
first moment on, and that a trade of the running bot which does not trail has the
configured one, without which a reload of the same configuration might move it.

**CandleCache_proofs.** `AlwaysPast`, `FinishedOnly` (OnlyFinished), `OneTaskWatches`
(OneWatcher), for every number of pairs, every limit, any delay and all time.
`Past`: the bot's cache ends before the current candle, ccxt's memory with it, and a
job was made for a candle that had begun; only the newest candle of an answer or of
that memory can be unfinished, and it is dropped. `Watched`: a task of a pair
stands for an entry in the set of scheduled pairs, and there is one task at most, so
that the loop that schedules cannot add a second.

**SignalFeed_proofs.** `FramesHaveNoHoles` (NoHoles), `HolesStayAskedFor`
(HolesAskedFor), `CandlesInOrder` (InOrder), for any number of pairs, publishers and
candles, any limit and any sequence of disconnects and restarts. `FeedTyped` is what the first
two rest on: messages and frames are runs of candles without a gap, no message is ahead
of what was analysed, and nothing of a connection outlives it. For the order of a
channel's candles the futures of the stream have to be compared, and their
numbers do not do: two publishers may take the same waiter, and a future made earlier may become
the waiter later. The proof gives each future a rank, its place in the order in which
they became the waiter. No variable of the model records it; the invariant says that
some rank exists which grows along the chain, with which the candles of a
pair grow, and ahead of which the channel has sent nothing. It needs no assumption
about the publishers, except that one of them, the worker, sends candles.

**PairLocking_proofs.** `PausesAreCovered`, and from it `PausesHold` (DemandsHold),
`NotReentered` (NoReentry) and `StoppedAfterLosses` (StopsAfterLosses), for any number
of pairs, trades, locks by hand, releases and crashes, any list of protections and any
timeframe. `Covers` says that a lock of the pair or of all pairs, of the side or of both, ends no
earlier than a given time. The invariant:

* `Demanded`: every pause that was asked for is covered;
* `Paused`: so is the rest of the candle a trade was closed in, from the moment its
  first lock is set, whatever becomes of the handler;
* `Stopped`: so is the duration of a guard that was tripped. The losses a guard counts are
  those with numbers up to the last trade's, so that later trades change nothing;
* `Numbered`: trades are numbered as they are closed, and the one whose locks are being
  set is the last.

`LockPairCovers`: rounding to the next candle never ends a lock early, and an equal lock does
as well. `StopsCovered`: a protection's stop that is not set is covered by what kept
it from being set. `AllStopsCovered` carries both through the protections in their
order, a fold; `GuardStops` says that a tripped guard does ask for the pause.
`CoveredIsNotEntered` is the other half: create_trade asks with a candle that has
ended. Assumed of the configuration: the types of its numbers, and limits of one
trade at least (`ProtectionType`); with a limit of 0 calculate_lock_end fails.

**Backtesting_proofs.** `OneOrder` (SingleOpenOrder), `AllSold` (SoldWhatWasBought), `AllBooked`
and `AllInResults` (NothingForgotten), `AlwaysWaits` (ReentryWaits) and `Types`, for any
pairs, data, prices, timeframe, number of candles and setups. None of the properties is
inductive. The first invariant, `Inv`:

* `Trades`: an open trade is `Sound`: only its last order may be open, what is left of an
  open order is at least one, an exit is not larger than the position, and the amount is
  what the filled orders come to, and not zero once anything was bought. The last part
  makes an exit of the whole position sell exactly what was bought; the first makes
  `Place`, which removes what is open and appends, keep one open order;
* `Results`: a closed trade sold what it bought and has no open order;
* `Turn`: the trades a phase has yet to process are open, but for the one that was
  closed while it is processed; at the end, without slippage, they are all that are open;
* `Chart`: a pair with an open trade has a candle, or gets one in this step, so that there
  is a price to sell it at when the data ends;
* `Forced`: the order of a forced exit is for the whole position, at the open of the last
  candle, which lies in that candle: it is filled.

Each action has one lemma that says that it keeps `Inv`, and that a trade it takes away has
no filled entry or is in the results with all its filled orders (`Carried`). What the orders come to is a recursive
function over a sequence; `RunningExists`, `SumSame` and their neighbours show what it
computes when an order is appended, removed or filled. `AllBooked` holds for any
slippage; `AllInResults`, which also says that no trade is open in the end, for none:
section 5 has the counterexample.

The second invariant, `Waiting`, is about the candles while they are walked:

* `Closings`: closed trades were closed by now, in this candle or an earlier one;
* `Locked`: the pause a cooldown asks for after a closed trade is covered by a lock of both
  sides, and every lock ends with a candle. A stop that is not set is
  covered by the lock that kept it from being set: that one ends after the stop, and at
  the end of a candle, so not before the stop rounded up to its own (`EndsLater`);
* `Coarse`: without detail candles, trades are closed at the first moment of a candle;
* `Fine`: with detail candles and one position at a time, a pair whose trade was closed in
  this candle is among `seen` and has no open trade, which is when NextPair skips
  it; the trades being processed are the called pair's, and they were opened now or the pair is among `seen`.

Assumed are the types of the setups, prices above zero, slippage that is not more than a price,
and data that lies within the candles (`BacktestAssumption`).

Only model-checked: all liveness (TLAPS 1.4.5 has no ENABLED); the balances of a trade
with lost orders, position adjustments or reloads.

## 5. Disagreements found

Each is a configuration that TLC ends with a counterexample. The first is a run of
the project, `PROJECT.json` quotes its lines; the others are run by hand
(`tlc -config restart.cfg MCTradeLifecycle`).

| configuration | property | what happens |
|---|---|---|
| `endless` (MCCandleCache) | RemovedIsLetGo | exchange_ws.py:136 removes pairs "if they've not been requested within the last timeframe", but the task of such a pair leaves only its inner loop; the outer one goes round without awaiting anything, and the event loop runs nothing else any more (245) |
| `reopened` (MCTradeLifecycle), with `INVARIANT ClosedTradeHasNoOpenOrders` for its property | ClosedTradeHasNoOpenOrders | a filled exit closes the trade beside an open entry, which nobody looks at any more |
| `replace_failed` | DeletedTradeHoldsNothing | a replacement that fails deletes the trade while its entry is live or filled |
| `replaced_exit` | ReplacementSellsRemaining | an exit filled while being replaced is replaced by one for the whole position |
| `restart` | RestartLeavesNoEmptyTrade | an entry cancelled while the bot was down leaves an open trade with nothing in it: startup_update_open_orders ignores what update_trade_state returns (freqtradebot.py:428) |
| `reopened` | ClosedTradeStaysClosed | an adjustment cancels an exit that was filled, which closes the trade, and opens it again (freqtradebot.py:1064; "Only adjust positions that are actively open.", 732) |
| `fabricated` | DeletedTradeHoldsNothing | a partial fill is lost when the cancelled order can not be fetched (exchange.py:1833) |
| `reload` | ClosedTradeHoldsNothing | a reload takes a partial exit that equals the remaining amount for the last one (trade_model.py:930; "only coming out to 0 can force a close") |
| `twice` (MCBotControl) | OnePerPair | a forced entry looks for a trade of the pair before it waits for the lock |
| `twice`, with `MaxOpenTrades = 1` | WithinLimit | it counts open trades before it waits for the lock, too (rpc.py:1189) |
| `entry_paused` | NoEntryWhilePaused | entries go on after a pause was answered, until the loop ends |
| `overwritten` | RequestsKept | a request made during construction is undone by the initial state (freqtradebot.py:153, against the comment at 121) |
| `overlap` | ProcessAlone | reload_trade runs without the lock (rpc.py:1022, against the comment at freqtradebot.py:289) |
| `resumed` | StaysHalted | a pause restarts a bot that an error has just stopped (rpc.py:1000, worker.py:221) |
| `reload_lost` | ReloadAlwaysHappens | an error undoes a requested reload (worker.py:228) |
| `locks` (MCPairLocking), with `INVARIANT UnlockReleases` for its properties | UnlockReleases | unlock_pair, "Release all locks for this pair." (pairlock_middleware.py:121), without a side keeps locks of one side |
| `last_candle` (MCBacktesting) | NoEntryInLastCandle | "don't open on the last row" compares with the end of the data, and detail candles of the last row still enter |
| `backtest`, with `Setups <- Slipping` | NothingForgotten | an exit forced at the end is placed below the candle's low by the slippage, does not fill, and its trade is in no result (backtesting.py:1289) |
| `backtest`, with `Setups <- PartialFills` and PartialFillsCount for its properties | PartialFillsCount | an entry that was filled in part times out and is removed, with its trade if it is the first (backtesting.py:1406), or is replaced by one for the rest (1451-1474): what it bought is in no order and no result; the same of an exit |
| `paper`, with `INVARIANT BalanceIsEarned` for its invariants | BalanceIsEarned | a closed trade adds its whole quantity to the balance, from which the entry took the commission only (engine.py:472); after a restart the top-ups are gone (recover) |
| `custom_stop` (MCStopLoss) | FillKeepsDistance | another entry moves the open rate, and the stoploss taken from it may pass the current rate (trade_model.py:1314; interface.py:469, "New stoploss value, relative to the current_rate") |
| `new_stoploss` | NewStoplossApplied | a new stoploss is applied to trades whose stoploss has not trailed only (docs/stoploss.md:269) |
| `short_frame` (MCSignalFeed) | HasCopy | a pair with fewer candles than a full frame is asked for again and again and never stored (docs/producer-consumer.md, "full copy of the analyzed dataframes") |
| `deaf` | NeverDeaf | two threads publish at once, one future is never resolved, and a channel that waits for it gets no message any more (message_stream.py:17) |
| `holes` (MCCandleCache) | NoHoles | "Usable result, candle contains the previous candle." (exchange.py:2692): after a lost connection it may lack others, the holes are filled with made-up candles, and these stay |
| `skipped` | RefreshedIsCached | "keeping last candle time as last refreshed time" (exchange.py:2824): the history was emptied and begun again between choice and reading, nothing is left after the current candle is dropped, and the pair is not refreshed for a whole candle |

## 6. Not modelled

* **Go collector.** It does not get past its first confirmed candle:
  `extractTimeframe("kline.15m.SOLUSDT")` returns `"15m.SOLUSDT"`, no such key is in
  the map of prices, and the assignment into the nil map panics (and the numeric
  `start` of a message does not unmarshal). There is no behaviour to model. In PaperEngine the
  candles just come.
* **Wallets, agents' scores, FreqAI, indicators.** Floating-point arithmetic
  without state that steps of others change. Their results are free choices.
* **Strategies.** User code; every answer it may give is a choice.
* **Exchange classes and ccxt.** Tables and conversions for each exchange; what the bot
  does with their answers is in TradeLifecycle and CandleCache.
* **Telegram, webhook, discord, REST serving, reports, configuration, commands, pair
  lists, hyperopt, migrations.** Parsing, formatting and I/O; their threads are the
  request threads of BotControl. This is most of the program's lines: about two
  thirds of them are formatting, schemas, indicators, exchange tables, machine learning
  and statistics, without a state two steps could disagree about. The map names what
  definitions translate, and no more.
* **Futures**: leverage beyond its effect on the stoploss, funding, liquidation.
* `_rpc_delete` inside TradeLifecycle; in BotControl a deletion is one step.

Some hazards that none of the properties covers: an exit that is refused when one of
several entries was cancelled without a fill (rpc.py:1049); the amount of an exit,
fixed before open orders are cancelled (freqtradebot.py:2150); an exit that is
answered as cancelled with a partial fill and recorded without update_trade_state
(2205); the test for orders older than five days at startup (437); forceexit, which
tests STOPPED before it waits for the lock (rpc.py:1102). The list in `PROJECT.json`
has the others, with the reason where no property covers one.
