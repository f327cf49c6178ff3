----------------------------- MODULE Backtesting -----------------------------
(***************************************************************************)
(* The simulation of optimize/backtesting.py: candles, and their detail    *)
(* candles, are walked in the order of time; for every pair in turn the    *)
(* orders of its trades are managed, a trade is entered, and entry and     *)
(* exit orders are filled if the candle reaches their price.  What the     *)
(* strategy answers, and the candles, are free choices.                    *)
(*                                                                         *)
(* A candle has Timeframe detail candles; times count detail candles.      *)
(***************************************************************************)
EXTENDS Protections

CONSTANTS
  Pairs,
  FirstRow, LastRow,  \* the candles a pair has data for
  Candles,   \* bound: main candles
  MaxAdjust, \* max_entry_position_adjustment; -1: unlimited
  Prices,    \* bound: small integers
  MaxAmount, \* bound: the amount of an order
  Setups     \* configurations to choose from

End   == Candles * Timeframe
Rows  == {r \in [low : Prices, open : Prices, high : Prices] : r.low <= r.open /\ r.open <= r.high}

\* The setup says which features are used.  Of the protections, what is kept of a
\* trade here is enough for the cooldown.
SetupType ==
  [pairs : Seq(Pairs), detail : BOOLEAN, stacking : BOOLEAN, short : BOOLEAN,
   partial : BOOLEAN, adjust : BOOLEAN, slippage : Nat,
   stopSlippage : BOOLEAN,  \* backtest_stoploss_slippage is set
   maxOpen : Nat,  \* 0: unlimited
   protections : Seq([method : {"CooldownPeriod"}, lookback : Nat, duration : Nat, unlockAt : Int])]

\* Slippage is a share of the price.
ASSUME BacktestAssumption ==
  /\ Candles \in Nat \ {0} /\ MaxAdjust \in Nat \cup {-1}
  /\ Prices \subseteq Nat \ {0} /\ MaxAmount \in Nat \ {0}
  /\ FirstRow \in [Pairs -> 1..Candles] /\ LastRow \in [Pairs -> 1..Candles]
  /\ Setups \subseteq SetupType /\ \A s \in Setups, p \in Prices : s.slippage <= p

VARIABLES
  setup,
  phase,   \* what comes next
  candle, step,  \* the main candle and the detail candle in it
  queue,   \* the pairs that are still to be processed in this step
  main,    \* the pairs' main candles
  dirs,    \* pair_tradedir_cache
  details, \* the pairs in pair_detail_cache
  seen,    \* pairs_with_open_trades
  now_row, \* the candle being processed: row, direction, position to be left, second call
  todo,    \* the trades that are still to be processed in this phase
  open, closed,  \* bt_trades_open by the trades' ids, which are in its order; bt_trades
  count,   \* trade_id_counter
  locks

vars == <<setup, phase, candle, step, queue, main, dirs, details, seen, now_row, todo,
          open, closed, count, locks>>
walk == <<candle, step, queue, main, dirs, details, seen>>

NoRow == [dir |-> "none", exiting |-> "none", second |-> FALSE]
now   == candle * Timeframe + step

\* The k-th smallest of a set of numbers, and the elements of s at the indices I, in
\* their order.
Nth(I, k) == CHOOSE i \in I : Cardinality({j \in I : j <= i}) = k
At(s, I)  == [k \in 1..Cardinality(I) |-> s[Nth(I, k)]]

\* The state has its type.
TypeOK ==
  /\ setup \in SetupType
  /\ candle \in 0..Candles /\ step \in 0..(Timeframe - 1)
  /\ DOMAIN open \subseteq 1..count
  /\ \A i \in DOMAIN open :
       /\ open[i].id = i /\ open[i].amount \in Nat
       /\ \A j \in DOMAIN open[i].orders :
            open[i].orders[j].left \in IF open[i].orders[j].open THEN 1..open[i].orders[j].amount ELSE {0}
-----------------------------------------------------------------------------
(* Orders of a trade *)

OpenOnes(t)  == {i \in DOMAIN t.orders : t.orders[i].open}
HasOpen(t)   == OpenOnes(t) # {}
OpenOf(t, kind) == {i \in OpenOnes(t) : t.orders[i].kind = kind}

\* What the filled orders of a kind come to.  Like recalc_trade_from_orders this leaves
\* out an order that is open, whatever a simulated partial fill made of it.
Worth(o, kind)  == IF ~o.open /\ o.kind = kind THEN o.amount ELSE 0
Filled(t, kind) ==
  LET upTo[n \in 0..Len(t.orders)] == IF n = 0 THEN 0 ELSE upTo[n - 1] + Worth(t.orders[n], kind)
  IN upTo[Len(t.orders)]
Successful(t) == \E i \in DOMAIN t.orders : ~t.orders[i].open /\ t.orders[i].kind = "entry"

\* recalc_trade_from_orders: a trade that has sold everything keeps its amount.
Recalc(t) ==
  LET amount == Filled(t, "entry") - Filled(t, "exit") IN
  IF amount > 0 THEN [t EXCEPT !.amount = amount] ELSE t

Slipped(price, side, kind) ==
  price + (IF (side = "long") = (kind = "entry") THEN setup.slippage ELSE -setup.slippage)

\* Price of the order, and ft_price, which the candle has to reach.
NewOrder(t, kind, price, amount) ==
  LET slipped == Slipped(price, t.side, kind) IN
  [kind |-> kind, price |-> IF kind = "entry" THEN price ELSE slipped, ft |-> slipped,
   amount |-> amount, left |-> amount, open |-> TRUE, placed |-> now]

Without(t, i) == [t EXCEPT !.orders = RemoveAt(@, i)]
\* cancel_open_orders: they are removed from the trade.
WithoutOpen(t) == [t EXCEPT !.orders = At(@, DOMAIN @ \ OpenOnes(t))]

\* handle_similar_order
Similar(t, order) ==
  LET oo == OpenOf(t, order.kind) IN
  oo # {} /\ t.orders[Max(oo)].price = order.price /\ t.orders[Max(oo)].amount = order.amount

\* Mutant: the trade's other orders are left alone.
PlaceBeside(t, order) == [t EXCEPT !.orders = Append(@, order)]

Place(t, order) == [t EXCEPT !.orders = Append(WithoutOpen(t).orders, order)]

Reached(order, row) == row.low <= order.ft /\ order.ft <= row.high
SellsAll(t, order)  == order.kind = "exit" /\ order.amount = t.amount

\* close_bt_order
CloseOrder(t, i) ==
  LET x == [t EXCEPT !.orders[i].open = FALSE, !.orders[i].left = 0] IN
  IF t.orders[i].kind = "entry" THEN Recalc(x) ELSE x

\* _try_close_open_order: what may become of the trade.  What a simulated partial
\* fill has bought is remembered on the order only.
TryClose(t, i, row) ==
  LET o == t.orders[i] IN
  IF ~Reached(o, row) THEN {t}
  ELSE {CloseOrder(t, i)} \cup
       IF setup.partial /\ ~SellsAll(t, o)
       THEN {t} \cup {[t EXCEPT !.orders[i].left = o.amount - f] : f \in 1..(o.amount - 1)}
       ELSE {}

\* _exit_trade
Exit(t, price, amount) ==
  LET order == NewOrder(t, "exit", price, amount) IN
  IF Similar(t, order) THEN t ELSE Place(t, order)

\* _enter_trade, of an amount that may be too small, or refused by
\* confirm_trade_entry: 0.
Enter(t, price, amount, row) ==
  LET order == NewOrder(t, "entry", price, amount) IN
  IF amount = 0 \/ Similar(t, order) THEN {t}
  ELSE LET placed == Place(t, order)
       IN {Recalc(x) : x \in TryClose(placed, Len(placed.orders), row)}

\* An entry is not placed above the candle, an exit not below it (long).
EntryPrices(side, row) == {p \in Prices : IF side = "long" THEN p <= row.high ELSE p >= row.low}
ExitPrices(side, row)  == {p \in Prices : IF side = "long" THEN p >= row.low ELSE p <= row.high}

\* _get_close_rate: the slippage of a stoploss may take it out of the candle on the other
\* side, and then the order is not filled in it.
ClosePrices(side, row) == IF setup.stopSlippage THEN Prices ELSE ExitPrices(side, row)
-----------------------------------------------------------------------------
(* time_pair_generator *)

Ids       == DOMAIN open
OfPair(p) == {id \in Ids : open[id].pair = p}
OpenPairs == At([id \in Ids |-> open[id].pair], Ids)
\* Pairs with open trades first, each once.
InOrder ==
  LET all == OpenPairs \o setup.pairs
  IN At(all, {i \in DOMAIN all : \A j \in 1..(i - 1) : all[j] # all[i]})

Trading == UNCHANGED <<open, closed, count, locks>>

\* The next main candle, or the end.
NextCandle ==
  /\ phase = "candle" /\ Trading /\ UNCHANGED <<setup, now_row>>
  /\ IF candle = Candles
     THEN /\ phase' = "left" /\ todo' = Ids
          /\ UNCHANGED walk
     ELSE /\ phase' = "pair" /\ todo' = {}
          /\ candle' = candle + 1 /\ step' = 0 /\ queue' = InOrder
          /\ main' = [p \in Pairs |-> IF candle < LastRow[p] THEN <<>> ELSE main[p]]
          /\ dirs' = [p \in Pairs |-> "none"] /\ details' = {}
          /\ seen' = {open[id].pair : id \in Ids}

\* All pairs are done: the next detail candle.  The code also tries the one after
\* the last, which no pair has.
NextStep ==
  /\ phase = "pair" /\ queue = <<>> /\ Trading /\ UNCHANGED <<setup, now_row, todo>>
  /\ IF setup.detail /\ step < Timeframe - 1
     THEN step' = step + 1 /\ queue' = InOrder /\ UNCHANGED <<candle, main, dirs, details, seen, phase>>
     ELSE phase' = "candle" /\ UNCHANGED walk

\* check_for_trade_entry
Signals == {"enter_long", "exit_long", "enter_short", "exit_short"}
Direction(signals) ==
  LET s == IF setup.short THEN signals ELSE signals \ {"enter_short", "exit_short"} IN
  CASE "enter_long" \in s /\ s \cap {"exit_long", "enter_short"} = {} -> "long"
    [] "enter_short" \in s /\ s \cap {"exit_short", "enter_long"} = {} -> "short"
    [] OTHER -> "none"

Inside(main_row) == {r \in Rows : r.low >= main_row.low /\ r.high <= main_row.high}

\* The pair had a trade that was closed in this candle.
Skip(p) == p \in seen /\ OfPair(p) = {}

HasRow(p) == IF step = 0 THEN candle \in FirstRow[p]..LastRow[p] ELSE p \in details

\* backtest_loop is called for this row.
Call(p, row, dir) ==
  /\ phase' = "manage" /\ todo' = OfPair(p)
  /\ now_row' = [pair |-> p, row |-> row, dir |-> dir, second |-> FALSE,
                 exiting |-> IF setup.stacking \/ OfPair(p) = {} THEN "none" ELSE open[Min(OfPair(p))].side]

NextPair ==
  /\ phase = "pair" /\ queue # <<>>
  /\ Trading /\ UNCHANGED <<setup, candle, step>>
  /\ queue' = Tail(queue)
  /\ LET p == Head(queue) held == OfPair(p) # {} IN
     IF ~HasRow(p)
     THEN UNCHANGED <<main, dirs, details, seen, phase, todo, now_row>>
     ELSE \E dir \in IF step = 0 THEN {Direction(s) : s \in SUBSET Signals} ELSE {dirs[p], "none"},
             m \in IF step = 0 THEN Rows ELSE {main[p]} :
          /\ dirs' = [dirs EXCEPT ![p] = IF step = 0 THEN dir ELSE @]
          /\ main' = [main EXCEPT ![p] = m]
          /\ IF Skip(p)
             THEN UNCHANGED <<details, seen, phase, todo, now_row>>
             ELSE LET spread == setup.detail /\ step = 0 /\ (dir # "none" \/ held) IN
                  /\ seen' = IF held THEN seen \cup {p} ELSE seen
                  /\ details' = IF spread THEN details \cup {p} ELSE details
                  /\ \E row \in IF p \in details' THEN Inside(m) ELSE {m} :
                       /\ step = 0 => row.open = m.open
                       /\ Call(p, row, dir)
-----------------------------------------------------------------------------
(* backtest_loop *)

Row == now_row.row
WithTrade(t) == [id \in Ids \cup {t.id} |-> IF id = t.id THEN t ELSE open[id]]
Gone(id) == [other \in Ids \ {id} |-> open[other]]

\* The trade that is processed next.
Current == Min(todo)

Advance(to) == phase' = to /\ UNCHANGED <<setup, now_row>> /\ UNCHANGED walk
\* The trade is done with in this phase.
Next1 == todo' = todo \ {Current}

\* Mutant: the trade of a timed out entry is removed whatever was bought before.
RemovedAlways(t, i) ==
  [trade |-> Without(t, i), remove |-> t.orders[i].kind = "entry"]

\* check_order_cancel: a timed out order is removed, a trade that bought nothing
\* is removed with it.
Removed(t, i) ==
  [trade |-> Without(t, i), remove |-> t.orders[i].kind = "entry" /\ ~Successful(t)]

\* check_order_replace, at a new price: what is left of the order, for the same
\* stake.  The trade of an entry that was not placed is removed if it has bought nothing.
Replaced(t, i, price) ==
  LET o == t.orders[i] rest == Without(t, i) IN
  IF o.kind = "exit" THEN {[trade |-> Exit(rest, price, o.left), remove |-> FALSE]}
  ELSE {[trade |-> x, remove |-> ~HasOpen(x) /\ ~Successful(x)] :
        x \in UNION {Enter(rest, price, a, Row) : a \in {0, (o.left * o.ft) \div price}}}

\* manage_open_orders, of the trade's open order: SingleOpenOrder.
ManageOrder(t) ==
  IF ~HasOpen(t) THEN {[trade |-> t, remove |-> FALSE]}
  ELSE LET i == Max(OpenOnes(t)) o == t.orders[i] IN
       {[trade |-> t, remove |-> FALSE], Removed(t, i)} \cup
       IF now > o.placed
       THEN {Removed(t, i)} \cup UNION {Replaced(t, i, price) : price \in Prices \ {o.ft}}
       ELSE {}

ManageOpenOrders ==
  /\ phase = "manage" /\ UNCHANGED <<closed, count, locks>>
  /\ IF todo = {} THEN Advance("enter") /\ UNCHANGED <<open, todo>>
     ELSE /\ Advance("manage") /\ Next1
          /\ \E r \in ManageOrder(open[Current]) :
               open' = IF r.remove THEN Gone(Current) ELSE WithTrade(r.trade)

\* trade_slot_available
SlotAvailable == setup.maxOpen <= 0 \/ Cardinality(Ids) < setup.maxOpen

CanEnter ==
  /\ now # End  \* is_last_row
  /\ now_row.dir # "none"
  /\ setup.stacking \/ OfPair(now_row.pair) = {}
  /\ ~IsPairLocked(locks, now_row.pair, now, now_row.dir)
  /\ SlotAvailable

NewTrade == [id |-> count + 1, pair |-> now_row.pair, side |-> now_row.dir, opened |-> now,
             amount |-> 0, orders |-> <<>>, close |-> -1]

Processed(ts) == todo' = {id \in DOMAIN ts : ts[id].pair = now_row.pair}

\* Step 2: a trade is entered, unless its stake is too small or it is refused.
EnterTrade ==
  /\ phase = "enter" /\ Advance("fill") /\ UNCHANGED <<closed, locks>>
  /\ \/ open' = open /\ count' = count
     \/ /\ CanEnter /\ count' = count + 1
        /\ \E price \in EntryPrices(now_row.dir, Row), amount \in 1..MaxAmount :
           \E t \in Enter(NewTrade, price, amount, Row) : open' = WithTrade(t)
  /\ Processed(open')

\* Step 3: the open entry order, if the candle reaches it.
FillEntry ==
  /\ phase = "fill" /\ UNCHANGED <<closed, count, locks>>
  /\ IF todo = {} THEN Advance("again") /\ UNCHANGED <<open, todo>>
     ELSE /\ Advance("adjust") /\ UNCHANGED todo
          /\ LET t == open[Current] oo == OpenOf(t, "entry") IN
             \E x \in IF oo = {} THEN {t} ELSE TryClose(t, Max(oo), Row) : open' = WithTrade(x)

\* run_protections
Protect(p, side, done) ==
  LET trades == {[id |-> t.id, pair |-> t.pair, side |-> t.side, close |-> t.close] : t \in done}
  IN locks' = GlobalStop(setup.protections,
                         StopPerPair(setup.protections, locks, trades, p, now, side),
                         trades, now, side)

\* Mutant: locks are set from the trades closed before.
ProcessExitLate(t, i, when) ==
  \E x \in TryClose(t, i, Row) :
    IF x.orders[i].open
    THEN open' = WithTrade(x) /\ UNCHANGED <<closed, locks>>
    ELSE /\ IF x.orders[i].amount # t.amount
            THEN open' = WithTrade(Recalc(x)) /\ UNCHANGED closed
            ELSE open' = Gone(t.id) /\ closed' = closed \cup {[x EXCEPT !.close = when]}
         /\ Protect(t.pair, t.side, closed)

\* _process_exit_order: an order for all of the amount closes the trade.
ProcessExit(t, i, when) ==
  \E x \in TryClose(t, i, Row) :
    IF x.orders[i].open
    THEN open' = WithTrade(x) /\ UNCHANGED <<closed, locks>>
    ELSE /\ IF x.orders[i].amount # t.amount
            THEN open' = WithTrade(Recalc(x)) /\ UNCHANGED closed
            ELSE open' = Gone(t.id) /\ closed' = closed \cup {[x EXCEPT !.close = when]}
         /\ Protect(t.pair, t.side, closed')

Entries(t) == Cardinality({i \in DOMAIN t.orders : ~t.orders[i].open /\ t.orders[i].kind = "entry"})

\* _check_adjust_trade_for_candle: nothing, an entry beside the position, or a part
\* of it is sold.
Adjust ==
  /\ phase = "adjust" /\ Advance("exit") /\ UNCHANGED <<count, todo>>
  /\ LET t == open[Current] IN
     \/ UNCHANGED <<open, closed, locks>>
     \/ /\ setup.adjust /\ t.amount > 0 /\ (MaxAdjust = -1 \/ Entries(t) <= MaxAdjust)
        /\ \E price \in EntryPrices(t.side, Row) :
           \E x \in Enter(t, price, IF t.amount <= MaxAmount THEN 1 ELSE 0, Row) : open' = WithTrade(x)
        /\ UNCHANGED <<closed, locks>>
     \/ /\ setup.adjust /\ t.amount > 0
        /\ \E price \in ExitPrices(t.side, Row), amount \in 1..t.amount :
             LET x == Exit(t, price, amount) IN
             IF x = t THEN UNCHANGED <<open, closed, locks>>
             ELSE ProcessExit(x, Len(x.orders), now)

\* Step 4: an exit of the whole position, if should_exit says so.
CheckExit ==
  /\ phase = "exit" /\ Advance("sell") /\ UNCHANGED <<closed, count, locks, todo>>
  /\ LET id == Current IN
     \/ UNCHANGED open
     \/ /\ id \in Ids /\ open[id].amount > 0
        /\ LET t == open[id] IN
           \E price \in ClosePrices(t.side, Row) : open' = WithTrade(Exit(t, price, t.amount))

\* Step 5: the open exit order.
Sell ==
  /\ phase = "sell" /\ Advance("fill") /\ Next1 /\ UNCHANGED count
  /\ LET id == Current IN
     IF id \notin Ids \/ OpenOf(open[id], "exit") = {}
     THEN UNCHANGED <<open, closed, locks>>
     ELSE ProcessExit(open[id], Max(OpenOf(open[id], "exit")), now)

\* A position that was closed may be reversed: a second call with the same row.
Again ==
  /\ phase = "again" /\ Trading /\ UNCHANGED <<setup, todo>> /\ UNCHANGED walk
  /\ IF /\ setup.short /\ now_row.dir # "none" /\ ~now_row.second
        /\ now_row.exiting \notin {"none", now_row.dir} /\ OfPair(now_row.pair) = {}
     THEN phase' = "manage" /\ now_row' = [now_row EXCEPT !.second = TRUE, !.exiting = "none"]
     ELSE phase' = "pair" /\ now_row' = NoRow

\* handle_left_open: what is open at the end is removed or sold at the open of the
\* pair's last candle.
HandleLeftOpen ==
  /\ phase = "left" /\ UNCHANGED <<setup, count>> /\ UNCHANGED walk
  /\ IF todo = {}
     THEN phase' = "done" /\ now_row' = NoRow /\ UNCHANGED <<todo, open, closed, locks>>
     ELSE LET t == open[Current] IN
          IF (HasOpen(t) /\ ~Successful(t)) \/ t.amount = 0
          THEN open' = Gone(t.id) /\ Next1 /\ UNCHANGED <<phase, now_row, closed, locks>>
          ELSE /\ phase' = "force" /\ UNCHANGED <<todo, closed, locks>>
               /\ now_row' = [row |-> main[t.pair]]
               /\ open' = WithTrade(Exit(t, main[t.pair].open, t.amount))

ForceExit ==
  /\ phase = "force" /\ phase' = "left" /\ Next1 /\ UNCHANGED <<setup, count, now_row>> /\ UNCHANGED walk
  /\ LET t == open[Current] IN
     ProcessExit(t, Len(t.orders), LastRow[t.pair] * Timeframe)
-----------------------------------------------------------------------------
\* reset_backtest
Init ==
  /\ setup \in Setups
  /\ phase = "candle" /\ candle = 0 /\ step = 0 /\ queue = <<>>
  /\ main = [p \in Pairs |-> <<>>] /\ dirs = [p \in Pairs |-> "none"]
  /\ details = {} /\ seen = {} /\ now_row = NoRow /\ todo = {}
  /\ open = <<>> /\ closed = {} /\ count = 0 /\ locks = {}

Next ==
  \/ NextCandle \/ NextStep \/ NextPair
  \/ ManageOpenOrders \/ EnterTrade \/ FillEntry \/ Adjust \/ CheckExit \/ Sell \/ Again
  \/ HandleLeftOpen \/ ForceExit

Spec == Init /\ [][Next]_vars
-----------------------------------------------------------------------------
(* Properties *)

\* check_order_replace says of it "assumption: there can't be multiple open entry
\* orders at any given time"; manage_open_orders rests on it for every order.
SingleOpenOrder == \A i \in DOMAIN open : Cardinality(OpenOnes(open[i])) <= 1

\* By its orders, a closed trade has sold what it had bought, neither more nor less, and
\* has no order left: through adjustments, replaced orders, and orders filled in several
\* candles.  Its orders are all that the results know: what a simulated partial fill
\* bought or sold before its order was dropped is not among them (PartialFillsCount).
SoldWhatWasBought ==
  \A t \in closed : Filled(t, "exit") = Filled(t, "entry") /\ ~HasOpen(t)

Kinds == {"entry", "exit"}

\* What becomes of a trade in a step: it stays open, or it is in the results.
Heirs(i) == {t \in closed : t.id = i} \cup {open[j] : j \in DOMAIN open \cap {i}}

\* No step loses an order that was filled: a trade that has one stays open or comes to the
\* results, with all that its filled orders bought and sold; and at the end none is open.
NothingForgotten ==
  [][/\ \A i \in DOMAIN open : Filled(open[i], "entry") > 0 =>
          \E t \in Heirs(i)' : \A kind \in Kinds : Filled(t, kind) >= Filled(open[i], kind)
     /\ phase' = "done" => DOMAIN open' = {}]_vars

\* The trade, if its open order ended with what a partial fill has made of it.
Ended(t) ==
  [t EXCEPT !.orders = [i \in DOMAIN t.orders |->
     [t.orders[i] EXCEPT !.open = FALSE, !.amount = t.orders[i].amount - t.orders[i].left]]]

\* The same of partial fills: what an order has bought or sold in part is not lost with
\* the order.  This does not hold: an order that times out or is replaced at a new price
\* is removed from the trade, and a new entry that bought a part only takes its trade
\* with it; the order that replaces it is for what was left.
PartialFillsCount ==
  [][\A i \in DOMAIN open, kind \in Kinds : LET bought == Filled(Ended(open[i]), kind) IN
       bought > 0 => \E t \in Heirs(i)' : Filled(Ended(t), kind) >= bought]_vars

Enters(p) == count' > count /\ now_row.pair = p

CandleOf(time) == time \div Timeframe

\* A position is neither reversed nor another one opened beside it.
OneAtATime == ~setup.short /\ ~setup.stacking

\* A cooldown of a duration, that looks back.
Pauses(cfg) == cfg.method = "CooldownPeriod" /\ cfg.unlockAt < 0 /\ cfg.lookback > 0

\* After a trade of the pair, the pause that a CooldownPeriod asks for holds in the
\* simulation, from the candle the trade was closed in to the end of a candle.  A pair
\* whose trade was closed after it had been seen open is not entered again in that
\* candle, but at the very detail candle; with detail candles, this asks for one position
\* at a time.
ReentryWaits ==
  [][\A p \in Pairs, t \in closed : Enters(p) /\ t.pair = p =>
       /\ t.opened < t.close /\ (setup.detail => OneAtATime) => CandleOf(now) # CandleOf(t.close) \/ now = t.close
       /\ \A i \in DOMAIN setup.protections :
            Pauses(setup.protections[i]) => now >= NextDate(t.close + setup.protections[i].duration)]_vars

\* backtest_loop: "don't open on the last row".
NoEntryInLastCandle == [][\A p \in Pairs : Enters(p) => candle < Candles]_vars
=============================================================================
