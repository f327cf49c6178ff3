------------------------------ MODULE StopLoss ------------------------------
(***************************************************************************)
(* The price of a trade's stoploss: Trade.adjust_stop_loss and its callers *)
(* (strategy/interface.py, persistence/trade_model.py, freqtradebot.py,    *)
(* optimize/backtesting.py), and the order on the exchange that follows it. *)
(* Prices are integers, rounded as price_to_precision does; percentages    *)
(* are of 100; fees are left out.                                          *)
(***************************************************************************)
EXTENDS Integers, FiniteSets

CONSTANTS
  Prices,    \* prices of the market and of orders
  Percents,  \* what custom_stoploss may return, and what the configuration may be changed to
  Setups,    \* configurations, see SetupOK
  MaxFills, MaxTicks, MaxReloads  \* bounds: orders filled, checks at a new price, reloads

NONE == -1
SetupOK(c) ==
  /\ c.side \in {"long", "short"} /\ c.leverage \in Nat \ {0}
  /\ c.stoploss \in Nat
  /\ {c.backtest, c.trailing, c.only_offset, c.custom, c.after_fill, c.on_exchange} \subseteq BOOLEAN
  /\ c.positive \in Nat \cup {NONE} /\ c.offset \in Nat

ASSUME StopAssumption ==
  /\ Prices \subseteq Nat \ {0} /\ Percents \subseteq 1..99
  /\ \A c \in Setups : SetupOK(c)
  /\ MaxFills \in Nat /\ MaxTicks \in Nat /\ MaxReloads \in Nat

VARIABLES
  setup,
  stoploss,  \* the configured stoploss; changes with a reload
  trade,     \* open_rate, stop_loss, initial_stop_loss_pct, stop_loss_pct, is_stop_loss_trailing,
             \* and the amount and cost of what was bought
  row,       \* the latest rate, or candle: low and high
  exits,     \* whether the last check reported the stoploss
  order,     \* the stop price of the order on the exchange, or NONE
  due,       \* stoploss_on_exchange_interval has passed since it was placed
  fills, ticks, reloads,
  best       \* the best rate a check has trailed to; what the properties need

vars == <<setup, stoploss, trade, row, exits, order, due, fills, ticks, reloads, best>>
bot  == <<setup, stoploss, exits, fills, ticks, reloads>>

Long == setup.side = "long"

\* The state has its type: a position has a stoploss.
TypeOK ==
  /\ setup \in Setups /\ stoploss \in Nat
  /\ trade.stop \in Nat /\ trade.rate \in Nat \ {0}
  /\ trade.bought > 0 => trade.pct # NONE /\ trade.initial_pct # NONE
  /\ exits \in BOOLEAN /\ due \in BOOLEAN
  /\ order \in Nat \cup {NONE}
-----------------------------------------------------------------------------
(* adjust_stop_loss *)

Ceil(a, b) == (a + b - 1) \div b

\* The price the stoploss has at this rate, rounded towards it.
NewLoss(rate, pct) ==
  IF Long THEN Ceil(rate * (100 * setup.leverage - pct), 100 * setup.leverage)
          ELSE (rate * (100 * setup.leverage + pct)) \div (100 * setup.leverage)

Better(a, b) == IF Long THEN a > b ELSE a < b

\* Mutant: a stoploss of a short trade walks up, too.
WalksUp(a, b) == a > b

\* "stop losses only walk up, never down!"
Walks(a, b) == Better(a, b)

SetStop(t, stop, pct) == [t EXCEPT !.stop = stop, !.pct = pct]

AdjustStopLoss(t, rate, pct, refresh) ==
  LET stop == NewLoss(rate, pct) IN
  IF pct = NONE THEN t
  ELSE IF t.initial_pct = NONE
  THEN [SetStop(t, stop, pct) EXCEPT !.initial_pct = pct]
  ELSE IF refresh THEN SetStop(t, stop, pct)
  ELSE IF Walks(stop, t.stop) THEN [SetStop(t, stop, pct) EXCEPT !.trailing = TRUE]
  ELSE t

\* With initial=True: nothing, if there is a stoploss.
InitStopLoss(t) == IF t.stop # 0 THEN t ELSE AdjustStopLoss(t, t.rate, stoploss, FALSE)

\* stoploss_reinitialization of one trade
Reinitialized(t, desired) ==
  IF t.trailing \/ t.initial_pct = desired THEN t
  ELSE AdjustStopLoss([t EXCEPT !.stop = 0, !.initial_pct = NONE], t.rate, desired, FALSE)
-----------------------------------------------------------------------------
(* ft_stoploss_adjust and ft_stoploss_reached.  A live check has one rate, a *)
(* simulated one a candle; it trails the candle's best and is hit by its worst. *)

At(rate) == [low |-> rate, high |-> rate]

\* Mutant: it trails the candle's worst.
BoundWorst(r) == IF Long THEN r.low ELSE r.high

Bound(r) == IF Long THEN r.high ELSE r.low

Reached(t, r) == IF Long THEN t.stop >= r.low ELSE t.stop <= r.high

\* calc_profit_ratio(rate) compared with a percentage.
Profit(t, rate) == (IF Long THEN rate - t.rate ELSE t.rate - rate) * setup.leverage * 100
ProfitAbove(t, rate, pct) == Profit(t, rate) > pct * t.rate
ProfitBelow(t, rate, pct) == Profit(t, rate) < pct * t.rate

\* The stoploss trails at its own distance, or that of custom_stoploss, or, once the
\* profit is above the offset, at trailing_stop_positive.
Trailed(t, r, pct) ==
  IF ~setup.trailing \/ (setup.only_offset /\ ProfitBelow(t, Bound(r), setup.offset)) THEN t
  ELSE IF setup.positive # NONE /\ ProfitAbove(t, Bound(r), setup.offset)
  THEN AdjustStopLoss(t, Bound(r), setup.positive, FALSE)
  ELSE AdjustStopLoss(t, Bound(r), pct, FALSE)

\* custom_stoploss, which may return nothing, and trailing.
Moved(t, r, refresh) ==
  {Trailed(t, r, stoploss)} \cup
  IF setup.custom
  THEN {Trailed(AdjustStopLoss(t, Bound(r), pct, refresh), r, pct) : pct \in Percents}
  ELSE {}

\* Mutant: the stoploss is adjusted although the rate has reached it.
StoplossAdjustBlind(t, r, after_fill) == Moved(InitStopLoss(t), r, TRUE)

\* ft_stoploss_adjust: what may become of the trade.
StoplossAdjust(t, r, after_fill) ==
  LET s == InitStopLoss(t) IN
  IF after_fill /\ ~setup.after_fill THEN {t}
  ELSE IF Reached(s, r) THEN {s}
  ELSE Moved(s, r, after_fill)
-----------------------------------------------------------------------------
(* Orders that are filled *)

\* recalc_trade_from_orders: with a position, the stoploss is adjusted to the open rate.
Recalc(t) ==
  LET rate == (2 * t.cost + t.bought) \div (2 * t.bought)  \* rounded
      u == [t EXCEPT !.rate = rate]
  IN AdjustStopLoss(u, rate, u.pct, FALSE)

\* close_bt_order: the first entry sets the stoploss anew.
ClosedBt(t) ==
  LET r == Recalc(t) IN
  AdjustStopLoss(IF t.bought = 1 THEN [r EXCEPT !.initial_pct = NONE, !.trailing = FALSE] ELSE r,
                 r.rate, r.pct, FALSE)

\* update_trade and _update_trade_after_fill, or their like in a simulation, where a
\* trade whose entry is filled at once is recalculated again.
AfterEntry(t) ==
  IF setup.backtest
  THEN LET s == StoplossAdjust(ClosedBt(t), At(t.rate), TRUE) IN s \cup {Recalc(u) : u \in s}
  ELSE LET s == InitStopLoss(Recalc(t)) IN IF setup.custom THEN StoplossAdjust(s, row, TRUE) ELSE {s}

\* An entry of one unit is filled; the order on the exchange is cancelled.
Fill ==
  /\ fills < MaxFills /\ fills' = fills + 1
  /\ \E price \in Prices :
       trade' \in AfterEntry([trade EXCEPT !.bought = @ + 1, !.cost = @ + price, !.rate = price])
  /\ order' = NONE
  /\ UNCHANGED <<setup, stoploss, row, exits, due, ticks, reloads, best>>

\* A simulation fills a part of an entry, or of an exit that leaves something, and the
\* order stays open.
PartialFill ==
  /\ setup.backtest
  /\ LET t == IF trade.bought > 0 THEN Recalc(trade) ELSE trade
     IN trade' = t \/ \E price \in Prices : trade' = AdjustStopLoss(t, price, t.pct, FALSE)
  /\ UNCHANGED <<row, order, due, best>> /\ UNCHANGED bot

\* A part of the position is sold, at the same average cost; the order on the
\* exchange was cancelled before.
Reduce ==
  /\ fills < MaxFills /\ fills' = fills + 1 /\ trade.bought > 0
  /\ \E price \in Prices :
       trade' \in
         IF setup.backtest THEN {Recalc(t) : t \in StoplossAdjust(trade, At(price), TRUE)}
         ELSE IF setup.custom THEN StoplossAdjust(Recalc(trade), row, TRUE)
         ELSE {Recalc(trade)}
  /\ order' = NONE
  /\ UNCHANGED <<setup, stoploss, row, exits, due, ticks, reloads, best>>
-----------------------------------------------------------------------------
(* Checks *)

Rows == IF setup.backtest THEN {r \in [low : Prices, high : Prices] : r.low <= r.high}
        ELSE {r \in [low : Prices, high : Prices] : r.low = r.high}

\* The rate moves.
Market ==
  /\ ticks < MaxTicks /\ ticks' = ticks + 1
  /\ \E r \in Rows : row' = r /\ r # row
  /\ UNCHANGED <<setup, stoploss, trade, exits, order, due, fills, reloads, best>>

\* should_exit: the stoploss is adjusted, then looked at, unless it is on the exchange.
ShouldExit ==
  /\ trade.bought > 0
  /\ trade' \in StoplossAdjust(trade, row, FALSE)
  /\ exits' = (~setup.on_exchange /\ Reached(trade', row))
  /\ LET rate == IF Long THEN row.high ELSE row.low IN
     best' = IF ~Reached(trade, row) /\ (best = NONE \/ Better(rate, best)) THEN rate ELSE best
  /\ UNCHANGED <<setup, stoploss, row, order, due, fills, ticks, reloads>>

\* handle_stoploss_on_exchange: an order is placed, if there is none.
PlaceStop ==
  /\ setup.on_exchange /\ trade.bought > 0 /\ order = NONE
  /\ order' = trade.stop /\ due' = FALSE
  /\ UNCHANGED <<trade, row, best>> /\ UNCHANGED bot

\* Mutant: the order of a short trade is moved up, too.
AdjustNeededUp == trade.stop > order

\* stoploss_adjust: whether the order needs to be moved.
AdjustNeeded == Better(trade.stop, order)

\* handle_trailing_stoploss_on_exchange: it is cancelled and placed anew.
MoveStop ==
  /\ setup.on_exchange /\ order # NONE /\ due
  /\ setup.trailing \/ setup.custom
  /\ AdjustNeeded
  /\ order' = trade.stop /\ due' = FALSE
  /\ UNCHANGED <<trade, row, best>> /\ UNCHANGED bot

\* Some time later.
Interval ==
  /\ order # NONE /\ ~due /\ due' = TRUE
  /\ UNCHANGED <<trade, row, order, best>> /\ UNCHANGED bot

\* reload_config, with another stoploss: startup.
Reload ==
  /\ ~setup.backtest /\ reloads < MaxReloads /\ reloads' = reloads + 1
  /\ \E pct \in Percents : stoploss' = pct /\ trade' = Reinitialized(trade, pct)
  /\ UNCHANGED <<setup, row, exits, order, due, fills, ticks, best>>
-----------------------------------------------------------------------------
\* execute_entry, _enter_trade: a trade with an entry that is not yet filled.
Init ==
  /\ setup \in Setups /\ stoploss = setup.stoploss
  /\ \E price \in Prices :
       /\ trade = InitStopLoss([rate |-> price, bought |-> 0, cost |-> 0, stop |-> 0,
                                initial_pct |-> NONE, pct |-> NONE, trailing |-> FALSE])
       /\ row = At(price)
  /\ exits = FALSE /\ best = NONE /\ order = NONE /\ due = FALSE
  /\ fills = 0 /\ ticks = 0 /\ reloads = 0

Next == Fill \/ PartialFill \/ Reduce \/ Market \/ ShouldExit \/ PlaceStop \/ MoveStop \/ Interval \/ Reload

\* The worker looks at every trade again and again, and time passes.
Fairness == WF_vars(PlaceStop) /\ WF_vars(MoveStop) /\ WF_vars(Interval)

Spec == Init /\ [][Next]_vars /\ Fairness
-----------------------------------------------------------------------------
(* Properties *)

\* The stoploss of a position moves away from the rate only if the configuration
\* changed, if custom_stoploss refreshed it after a fill, or with the first entry of
\* a simulation.
NeverDown ==
  [][\/ ~Better(trade.stop, trade'.stop)
     \/ stoploss' # stoploss
     \/ fills' # fills /\ setup.custom /\ setup.after_fill
     \/ setup.backtest /\ trade.bought = 0]_vars

\* A rate that has reached the stoploss is reported: adjusting it first, by any of
\* its sources, never moves it out of the rate's way.
NoEscape ==
  [][(ShouldExit /\ ~setup.on_exchange /\ Reached(trade, row)) => exits']_vars

\* A trailing stoploss is as close to the best rate it was checked at as configured,
\* and, if that rate was above the offset, as trailing_stop_positive asks for.
TrailingFollows ==
  LET closer(pct) == ~Better(NewLoss(best, pct), trade.stop) IN
  setup.trailing /\ ~setup.custom /\ reloads = 0 /\ trade.bought = 1 /\ best # NONE
  => /\ setup.positive # NONE /\ ProfitAbove(trade, best, setup.offset) => closer(setup.positive)
     /\ ~setup.only_offset => closer(stoploss) \/ closer(setup.positive)

\* When rates, fills and reloads have come to an end, an order is on the exchange
\* and has been moved to where the stoploss is, or is closer to the rate.
ExchangeFollows ==
  <>[](setup.on_exchange /\ trade.bought > 0 /\ (setup.trailing \/ setup.custom)
       => order # NONE /\ ~Better(trade.stop, order))

\* custom_stoploss: "New stoploss value, relative to the current_rate": selling a part
\* of a position never moves the stoploss past the rate.
FillKeepsDistance ==
  [][fills' # fills /\ trade.bought > 0 /\ trade'.bought = trade.bought /\ ~Reached(trade, row)
     => ~Reached(trade', row)]_vars

\* docs/stoploss.md: "The new stoploss value will be applied to open trades", but
\* not "if trailing_stop is enabled and the stoploss has already been adjusted".
NewStoplossApplied ==
  [][stoploss' # stoploss /\ trade.bought > 0 /\ ~setup.trailing /\ ~setup.custom
     => trade'.stop = NewLoss(trade.rate, stoploss')]_vars
=============================================================================
