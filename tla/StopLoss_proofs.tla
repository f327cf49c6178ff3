--------------------------- MODULE StopLoss_proofs ---------------------------
(***************************************************************************)
(* Proofs about StopLoss for all prices, percentages and configurations:   *)
(* whatever adjusts the stoploss, it only walks towards the rate, and a    *)
(* rate that has reached it is reported.  What makes both inductive is     *)
(* that a trade has an initial stoploss from its first moment on: without  *)
(* one, adjust_stop_loss would set the price to anything.                  *)
(***************************************************************************)
EXTENDS StopLoss, TLAPS

Trades == [rate : Int, bought : Nat, cost : Int, stop : Int,
           initial_pct : Int, pct : Int, trailing : BOOLEAN]

\* A trade that has a stoploss.
Protected == {t \in Trades : t.initial_pct # NONE /\ t.pct # NONE}

SetupType ==
  /\ setup \in Setups /\ SetupOK(setup) /\ setup.stoploss \in Nat
  /\ stoploss \in Nat

RowType == row \in [low : Prices, high : Prices]

\* What every step keeps.  A trade whose stoploss has not trailed still has the one
\* that is configured: reloading the same configuration does not change it.
HasStop ==
  /\ SetupType /\ RowType /\ fills \in Nat
  /\ trade \in Protected
  /\ ~setup.backtest /\ ~trade.trailing => trade.initial_pct = stoploss

\* A trade of the same amount that still has a stoploss,
Same(t, u) == u \in Protected /\ u.bought = t.bought

\* and its initial stoploss,
Held(t, u) ==
  /\ Same(t, u)
  /\ t.initial_pct # NONE => u.initial_pct = t.initial_pct /\ (t.trailing => u.trailing)

\* and one whose stoploss has not moved away from the rate, either.
Kept(t, u) == Held(t, u) /\ ~Better(t.stop, u.stop)

LEMMA TradesWith ==
  ASSUME NEW t \in Trades, NEW price \in Int, NEW pct \in Int
  PROVE  /\ [t EXCEPT !.bought = @ + 1, !.cost = @ + price, !.rate = price] \in Trades
         /\ [t EXCEPT !.stop = 0, !.initial_pct = pct] \in Trades
         /\ [t EXCEPT !.initial_pct = pct, !.trailing = FALSE] \in Trades
<1>1. [t EXCEPT !.bought = @ + 1, !.cost = @ + price, !.rate = price] \in Trades
  <2> DEFINE u == [t EXCEPT !.bought = @ + 1]
             v == [u EXCEPT !.cost = @ + price]
  <2>1. u \in Trades
    BY DEF Trades
  <2> HIDE DEF u
  <2>2. v \in Trades
    BY <2>1 DEF Trades
  <2> HIDE DEF v
  <2>3. [v EXCEPT !.rate = price] \in Trades
    BY <2>2 DEF Trades
  <2>4. u.cost = t.cost
    BY DEF Trades, u
  <2> QED BY <2>3, <2>4 DEF u, v
<1>2. [t EXCEPT !.stop = 0, !.initial_pct = pct] \in Trades
  <2> DEFINE u == [t EXCEPT !.stop = 0]
  <2>1. u \in Trades
    BY DEF Trades
  <2> HIDE DEF u
  <2>2. [u EXCEPT !.initial_pct = pct] \in Trades
    BY <2>1 DEF Trades
  <2> QED BY <2>2 DEF u
<1>3. [t EXCEPT !.initial_pct = pct, !.trailing = FALSE] \in Trades
  <2> DEFINE u == [t EXCEPT !.initial_pct = pct]
  <2>1. u \in Trades
    BY DEF Trades
  <2> HIDE DEF u
  <2>2. [u EXCEPT !.trailing = FALSE] \in Trades
    BY <2>1 DEF Trades
  <2> QED BY <2>2 DEF u
<1> QED BY <1>1, <1>2, <1>3

LEMMA RowRates ==
  ASSUME NEW r \in [low : Prices, high : Prices]
  PROVE  Bound(r) \in Int /\ r.low \in Int /\ r.high \in Int
<1>1. Prices \subseteq Int
  BY StopAssumption
<1> QED BY <1>1 DEF Bound, Long

LEMMA LossIsInt ==
  ASSUME SetupType, NEW rate \in Int, NEW pct \in Int
  PROVE  NewLoss(rate, pct) \in Int
<1>1. setup.leverage \in Nat \ {0}
  BY DEF SetupType, SetupOK
<1>2. 100 * setup.leverage \in Nat \ {0}
  BY <1>1
<1>3. rate * (100 * setup.leverage - pct) \in Int /\ rate * (100 * setup.leverage + pct) \in Int
  BY <1>2
<1> QED BY <1>2, <1>3 DEF NewLoss, Ceil, Long

LEMMA KeptIsTransitive ==
  ASSUME NEW t \in Protected, NEW u, NEW v, Kept(t, u), Kept(u, v)
  PROVE  Kept(t, v)
  BY DEF Kept, Held, Same, Better, Long, Protected, Trades

LEMMA KeptIsReflexive ==
  ASSUME NEW t \in Protected
  PROVE  Kept(t, t)
  BY DEF Kept, Held, Same, Better, Long, Protected, Trades

\* adjust_stop_loss of a trade that has one, not refreshed.
LEMMA AdjustKeeps ==
  ASSUME SetupType, NEW t \in Protected, NEW rate \in Int, NEW pct \in Int
  PROVE  Kept(t, AdjustStopLoss(t, rate, pct, FALSE))
<1> DEFINE stop == NewLoss(rate, pct)
           moved == [SetStop(t, stop, pct) EXCEPT !.trailing = TRUE]
<1>1. stop \in Int
  BY LossIsInt
<1>2. AdjustStopLoss(t, rate, pct, FALSE) \in {t} \/
      (Better(stop, t.stop) /\ AdjustStopLoss(t, rate, pct, FALSE) = moved)
  BY DEF AdjustStopLoss, Protected, Walks
<1>3. pct # NONE => moved \in Protected /\ moved.stop = stop /\ moved.bought = t.bought
                    /\ moved.initial_pct = t.initial_pct /\ moved.trailing
  BY <1>1 DEF SetStop, Protected, Trades
<1>4. Better(stop, t.stop) => ~Better(t.stop, stop)
  BY <1>1 DEF Better, Long, Protected, Trades
<1>5. pct = NONE => AdjustStopLoss(t, rate, pct, FALSE) = t
  BY DEF AdjustStopLoss
<1> QED BY <1>2, <1>3, <1>4, <1>5, KeptIsReflexive DEF Kept, Held, Same, Protected

\* Refreshed, or of a trade without one, it gives the trade a stoploss.
LEMMA AdjustHolds ==
  ASSUME SetupType, NEW t \in Trades, NEW rate \in Int, NEW pct \in Int, NEW refresh \in BOOLEAN,
         pct # NONE, t \in Protected \/ t.initial_pct = NONE
  PROVE  /\ Held(t, AdjustStopLoss(t, rate, pct, refresh))
         /\ t.initial_pct = NONE => AdjustStopLoss(t, rate, pct, refresh).initial_pct = pct
<1>1. NewLoss(rate, pct) \in Int
  BY LossIsInt
<1> QED
  BY <1>1 DEF AdjustStopLoss, SetStop, Protected, Trades, Held, Same

LEMMA InitKeeps ==
  ASSUME SetupType, NEW t \in Protected
  PROVE  Kept(t, InitStopLoss(t))
<1>1. t.rate \in Int /\ stoploss \in Int
  BY DEF SetupType, Protected, Trades
<1> QED BY <1>1, AdjustKeeps, KeptIsReflexive DEF InitStopLoss
-----------------------------------------------------------------------------
(* ft_stoploss_adjust *)

RowsOf == [low : Prices, high : Prices]

LEMMA TrailedKeeps ==
  ASSUME SetupType, NEW t \in Protected, NEW r \in RowsOf, NEW pct \in Int
  PROVE  Kept(t, Trailed(t, r, pct))
<1>1. Bound(r) \in Int
  BY RowRates DEF RowsOf
<1>2. setup.positive \in Int
  BY DEF SetupType, SetupOK, NONE
<1>3. Kept(t, AdjustStopLoss(t, Bound(r), setup.positive, FALSE))
  BY <1>1, <1>2, AdjustKeeps
<1>4. Kept(t, AdjustStopLoss(t, Bound(r), pct, FALSE))
  BY <1>1, AdjustKeeps
<1>5. Kept(t, t)
  BY KeptIsReflexive
<1> QED BY <1>3, <1>4, <1>5 DEF Trailed

\* Unless custom_stoploss refreshes it, the stoploss stays where it is or moves on.
LEMMA MovedKeeps ==
  ASSUME SetupType, NEW t \in Protected, NEW r \in RowsOf, NEW refresh \in BOOLEAN,
         NEW u \in Moved(t, r, refresh)
  PROVE  /\ Held(t, u)
         /\ ~(refresh /\ setup.custom) => Kept(t, u)
<1>1. stoploss \in Int /\ Bound(r) \in Int
  BY RowRates DEF SetupType, RowsOf
<1>2. CASE u = Trailed(t, r, stoploss)
  BY <1>1, <1>2, TrailedKeeps DEF Kept
<1>3. CASE setup.custom /\ u \in {Trailed(AdjustStopLoss(t, Bound(r), pct, refresh), r, pct) : pct \in Percents}
  <2> PICK pct \in Percents : u = Trailed(AdjustStopLoss(t, Bound(r), pct, refresh), r, pct)
    BY <1>3
  <2> DEFINE v == AdjustStopLoss(t, Bound(r), pct, refresh)
  <2>1. pct \in Int /\ pct # NONE
    BY StopAssumption DEF NONE
  <2>2. Held(t, v)
    <3>1. t \in Trades
      BY DEF Protected
    <3> QED BY <1>1, <2>1, <3>1, AdjustHolds
  <2>3. ~refresh => Kept(t, v)
    <3>1. refresh = FALSE => Kept(t, v)
      BY <1>1, <2>1, AdjustKeeps
    <3> QED BY <3>1
  <2>4. Kept(v, u)
    BY <2>1, <2>2, TrailedKeeps DEF Held, Same, Protected
  <2>5. Held(t, u)
    BY <2>2, <2>4 DEF Kept, Held, Same, Protected
  <2> QED BY <1>3, <2>3, <2>4, <2>5, KeptIsTransitive
<1> QED BY <1>2, <1>3 DEF Moved

LEMMA StoplossAdjustKeeps ==
  ASSUME SetupType, NEW t \in Protected, NEW r \in RowsOf, NEW after_fill \in BOOLEAN,
         NEW u \in StoplossAdjust(t, r, after_fill)
  PROVE  /\ Held(t, u)
         /\ ~(after_fill /\ setup.after_fill /\ setup.custom) => Kept(t, u)
<1> DEFINE s == InitStopLoss(t)
<1>1. Kept(t, s) /\ s \in Protected
  BY InitKeeps DEF Kept, Held, Same, Protected
<1>2. CASE after_fill /\ ~setup.after_fill
  BY <1>2, KeptIsReflexive DEF StoplossAdjust, Kept
<1>3. CASE u = s
  BY <1>1, <1>3 DEF Kept
<1>4. CASE ~(after_fill /\ ~setup.after_fill) /\ u \in Moved(s, r, after_fill)
  <2>1. Held(s, u) /\ (~(after_fill /\ setup.custom) => Kept(s, u))
    BY <1>1, <1>4, MovedKeeps
  <2>2. Held(t, u)
    BY <1>1, <2>1 DEF Kept, Held, Same, Protected
  <2> QED BY <1>1, <1>4, <2>1, <2>2, KeptIsTransitive
<1> QED BY <1>2, <1>3, <1>4 DEF StoplossAdjust
-----------------------------------------------------------------------------
(* Orders that are filled *)

LEMMA RecalcKeeps ==
  ASSUME SetupType, NEW t \in Protected, t.bought > 0
  PROVE  Kept(t, Recalc(t))
<1> DEFINE rate == (2 * t.cost + t.bought) \div (2 * t.bought)
           u == [t EXCEPT !.rate = rate]
<1>1. rate \in Int
  <2>1. t.cost \in Int /\ t.bought \in Nat
    BY DEF Protected, Trades
  <2>2. 2 * t.cost + t.bought \in Int /\ 2 * t.bought \in Nat \ {0}
    BY <2>1
  <2>3. \A a \in Int, b \in Nat \ {0} : a \div b \in Int
    OBVIOUS
  <2> QED BY <2>2, <2>3
<1>2. u \in Protected /\ u.stop = t.stop /\ u.bought = t.bought /\ u.pct \in Int
  BY <1>1 DEF Protected, Trades
<1>3. u.initial_pct = t.initial_pct /\ u.trailing = t.trailing
  BY DEF Protected, Trades
<1>4. Recalc(t) = AdjustStopLoss(u, rate, u.pct, FALSE)
  BY DEF Recalc
<1> HIDE DEF rate, u
<1>5. u.pct # NONE
  BY <1>2 DEF Protected
<1>6. Kept(u, Recalc(t))
  BY <1>1, <1>2, <1>4, <1>5, AdjustKeeps
<1> QED BY <1>2, <1>3, <1>6 DEF Kept, Held, Same

\* In a simulation the first entry sets the stoploss anew.
LEMMA ClosedBtKeeps ==
  ASSUME SetupType, NEW t \in Protected, t.bought > 0
  PROVE  /\ Same(t, ClosedBt(t))
         /\ t.bought # 1 => Kept(t, ClosedBt(t))
<1> DEFINE r == Recalc(t)
           fresh == [r EXCEPT !.initial_pct = NONE, !.trailing = FALSE]
<1>1. Kept(t, r) /\ r \in Protected
  BY RecalcKeeps DEF Kept, Held, Same, Protected
<1> HIDE DEF r
<1>2. r \in Trades /\ r.rate \in Int /\ r.pct \in Int /\ r.pct # NONE /\ NONE \in Int
  BY <1>1 DEF Protected, Trades, NONE
<1>3. fresh \in Trades /\ fresh.initial_pct = NONE /\ fresh.bought = r.bought
  <2>1. fresh \in Trades
    BY <1>2, TradesWith
  <2>2. fresh.initial_pct = NONE /\ fresh.bought = r.bought
    BY <1>2 DEF Trades
  <2> QED BY <2>1, <2>2
<1>4. CASE t.bought = 1
  <2>1. ClosedBt(t) = AdjustStopLoss(fresh, r.rate, r.pct, FALSE)
    BY <1>4 DEF ClosedBt, r
  <2> HIDE DEF fresh
  <2>2. Held(fresh, ClosedBt(t))
    BY <1>2, <1>3, <2>1, AdjustHolds
  <2> QED BY <1>1, <1>3, <1>4, <2>2 DEF Held, Same, Kept
<1>5. CASE t.bought # 1
  <2>1. ClosedBt(t) = AdjustStopLoss(r, r.rate, r.pct, FALSE)
    BY <1>5 DEF ClosedBt, r
  <2>2. Kept(r, ClosedBt(t))
    BY <1>1, <1>2, <2>1, AdjustKeeps
  <2>3. Kept(t, ClosedBt(t))
    BY <1>1, <2>2, KeptIsTransitive
  <2> QED BY <2>3 DEF Kept, Held
<1> QED BY <1>4, <1>5

LEMMA AtRow ==
  ASSUME NEW price \in Prices
  PROVE  At(price) \in RowsOf
  BY DEF At, RowsOf

\* A filled entry moves the stoploss away from the rate only if it is the first of
\* a simulation, or custom_stoploss refreshes it.
LEMMA AfterEntryKeeps ==
  ASSUME SetupType, RowType, NEW t \in Protected, t.bought > 0, t.rate \in Prices, NEW u \in AfterEntry(t)
  PROVE  /\ Same(t, u)
         /\ ~setup.backtest => Held(t, u)
         /\ ~(setup.after_fill /\ setup.custom) /\ ~(setup.backtest /\ t.bought = 1) => Kept(t, u)
<1>1. CASE setup.backtest
  <2>1. Same(t, ClosedBt(t)) /\ (t.bought # 1 => Kept(t, ClosedBt(t)))
    BY ClosedBtKeeps
  <2>2. PICK w \in StoplossAdjust(ClosedBt(t), At(t.rate), TRUE) : u = w \/ u = Recalc(w)
    BY <1>1 DEF AfterEntry
  <2>5. ClosedBt(t) \in Protected /\ At(t.rate) \in RowsOf
    BY <2>1, AtRow DEF Same
  <2>6. Held(ClosedBt(t), w) /\ (~(setup.after_fill /\ setup.custom) => Kept(ClosedBt(t), w))
    BY <2>2, <2>5, StoplossAdjustKeeps
  <2>7. w \in Protected /\ w.bought > 0
    BY <2>1, <2>6 DEF Held, Same
  <2>8. Kept(w, u)
    BY <2>2, <2>7, RecalcKeeps, KeptIsReflexive
  <2>3. Held(ClosedBt(t), u) /\ (~(setup.after_fill /\ setup.custom) => Kept(ClosedBt(t), u))
    <3>1. Held(ClosedBt(t), u)
      BY <2>5, <2>6, <2>8 DEF Held, Same, Kept, Protected
    <3> QED BY <2>5, <2>6, <2>8, <3>1, KeptIsTransitive
  <2>4. Same(t, u)
    BY <2>1, <2>3 DEF Held, Same, Protected
  <2> QED BY <1>1, <2>1, <2>3, <2>4, KeptIsTransitive
<1>2. CASE ~setup.backtest
  <2> DEFINE s == InitStopLoss(Recalc(t))
  <2>1. Kept(t, Recalc(t)) /\ Recalc(t) \in Protected
    BY RecalcKeeps DEF Kept, Held, Same, Protected
  <2>2. Kept(Recalc(t), s) /\ s \in Protected
    BY <2>1, InitKeeps DEF Kept, Held, Same, Protected
  <2>3. Kept(t, s)
    BY <2>1, <2>2, KeptIsTransitive
  <2>4. u \in IF setup.custom THEN StoplossAdjust(s, row, TRUE) ELSE {s}
    BY <1>2 DEF AfterEntry
  <2> HIDE DEF s
  <2>5. CASE setup.custom
    <3>1. u \in StoplossAdjust(s, row, TRUE) /\ row \in RowsOf
      BY <2>4, <2>5 DEF RowType, RowsOf
    <3>2. Held(s, u) /\ (~(setup.after_fill /\ setup.custom) => Kept(s, u))
      BY <2>2, <3>1, StoplossAdjustKeeps
    <3>3. Held(t, u) /\ Same(t, u)
      BY <2>3, <3>2 DEF Held, Same, Kept, Protected
    <3>4. ~(setup.after_fill /\ setup.custom) => Kept(t, u)
      BY <2>2, <2>3, <3>2, KeptIsTransitive
    <3> QED BY <3>3, <3>4
  <2>6. CASE ~setup.custom
    BY <2>3, <2>4, <2>6 DEF Kept, Held
  <2> QED BY <2>5, <2>6
<1> QED BY <1>1, <1>2
-----------------------------------------------------------------------------
(* The steps *)

\* What a step may do to the stoploss: NeverDown without its brackets.
WalksOnly ==
  \/ ~Better(trade.stop, trade'.stop)
  \/ stoploss' # stoploss
  \/ fills' # fills /\ setup.custom /\ setup.after_fill
  \/ setup.backtest /\ trade.bought = 0

\* What it leaves of the trade.
KeepsStop ==
  /\ trade' \in Protected
  /\ ~setup.backtest => trade'.initial_pct = trade.initial_pct /\ (trade.trailing => trade'.trailing)

LEMMA FillStep ==
  ASSUME HasStop, Fill
  PROVE  KeepsStop /\ WalksOnly
<1>1. PICK price \in Prices :
        trade' \in AfterEntry([trade EXCEPT !.bought = @ + 1, !.cost = @ + price, !.rate = price])
  BY DEF Fill
<1> DEFINE t == [trade EXCEPT !.bought = @ + 1, !.cost = @ + price, !.rate = price]
<1>2. price \in Int
  BY StopAssumption
<1>3. trade \in Trades /\ trade.initial_pct # NONE /\ trade.pct # NONE
  BY DEF HasStop, Protected
<1>4. t \in Trades
  BY <1>2, <1>3, TradesWith
<1>5. /\ t.bought = trade.bought + 1 /\ trade.bought \in Nat /\ t.bought > 0
      /\ t.stop = trade.stop /\ t.rate = price
      /\ t.initial_pct = trade.initial_pct /\ t.trailing = trade.trailing /\ t.pct = trade.pct
  BY <1>3 DEF Trades
<1>6. t \in Protected
  BY <1>3, <1>4, <1>5 DEF Protected
<1>7. trade' \in AfterEntry(t) /\ SetupType /\ RowType
  BY <1>1 DEF HasStop
<1> HIDE DEF t
<1>8. /\ Same(t, trade')
      /\ ~setup.backtest => Held(t, trade')
      /\ ~(setup.after_fill /\ setup.custom) /\ ~(setup.backtest /\ t.bought = 1) => Kept(t, trade')
  BY <1>5, <1>6, <1>7, AfterEntryKeeps
<1>9. fills' # fills
  BY DEF Fill, HasStop
<1>10. t.bought = 1 <=> trade.bought = 0
  BY <1>5
<1>11. KeepsStop
  BY <1>3, <1>5, <1>8 DEF Held, Same, Protected, KeepsStop
<1>12. CASE setup.after_fill /\ setup.custom
  BY <1>9, <1>11, <1>12 DEF WalksOnly
<1>13. CASE setup.backtest /\ trade.bought = 0
  BY <1>11, <1>13 DEF WalksOnly
<1>14. CASE Kept(t, trade')
  BY <1>5, <1>11, <1>14 DEF WalksOnly, Kept
<1> QED BY <1>8, <1>10, <1>12, <1>13, <1>14

LEMMA ReduceStep ==
  ASSUME HasStop, Reduce
  PROVE  KeepsStop /\ WalksOnly
<1>1. trade \in Protected /\ trade.bought > 0 /\ fills' # fills /\ SetupType /\ row \in RowsOf
  BY DEF Reduce, HasStop, RowType, RowsOf
<1>2. Kept(trade, Recalc(trade)) /\ Recalc(trade) \in Protected
  BY <1>1, RecalcKeeps DEF Kept, Held, Same, Protected
<1>3. Held(trade, trade') /\ (~(setup.after_fill /\ setup.custom) => Kept(trade, trade'))
  <2>1. CASE setup.backtest
    <3>1. PICK price \in Prices : trade' \in {Recalc(t) : t \in StoplossAdjust(trade, At(price), TRUE)}
      BY <2>1 DEF Reduce
    <3>2. PICK t \in StoplossAdjust(trade, At(price), TRUE) : trade' = Recalc(t)
      BY <3>1
    <3>3. Held(trade, t) /\ (~(setup.after_fill /\ setup.custom) => Kept(trade, t))
      BY <1>1, AtRow, StoplossAdjustKeeps
    <3>4. Kept(t, trade')
      BY <1>1, <3>2, <3>3, RecalcKeeps DEF Held, Same, Protected
    <3>5. Held(trade, trade')
      BY <3>3, <3>4 DEF Held, Same, Kept, Protected
    <3> QED BY <1>1, <3>3, <3>4, <3>5, KeptIsTransitive
  <2>2. CASE ~setup.backtest /\ setup.custom
    <3>1. trade' \in StoplossAdjust(Recalc(trade), row, TRUE)
      BY <2>2 DEF Reduce
    <3>2. Held(Recalc(trade), trade') /\ (~(setup.after_fill /\ setup.custom) => Kept(Recalc(trade), trade'))
      BY <1>1, <1>2, <3>1, StoplossAdjustKeeps
    <3>3. Held(trade, trade')
      BY <1>2, <3>2 DEF Held, Same, Kept, Protected
    <3> QED BY <1>1, <1>2, <3>2, <3>3, KeptIsTransitive
  <2>3. CASE ~setup.backtest /\ ~setup.custom
    <3>1. trade' = Recalc(trade)
      BY <2>3 DEF Reduce
    <3> QED BY <1>2, <3>1 DEF Kept
  <2> QED BY <2>1, <2>2, <2>3
<1>4. KeepsStop
  BY <1>1, <1>3 DEF KeepsStop, Held, Same, Protected
<1> QED BY <1>1, <1>3, <1>4 DEF Kept, WalksOnly

\* A part of an order is filled: the stoploss walks, and the rest of the trade stays.
LEMMA PartialKeeps ==
  ASSUME HasStop, PartialFill
  PROVE  /\ Kept(trade, trade')
         /\ trade.bought = 0 => trade' = trade \/ \E price \in Prices :
                                 trade' = AdjustStopLoss(trade, price, trade.pct, FALSE)
<1>1. trade \in Protected /\ SetupType /\ trade.bought \in Nat
  BY DEF HasStop, Protected, Trades
<1> DEFINE t == IF trade.bought > 0 THEN Recalc(trade) ELSE trade
<1>2. trade' = t \/ \E price \in Prices : trade' = AdjustStopLoss(t, price, t.pct, FALSE)
  BY DEF PartialFill
<1>3. Kept(trade, t) /\ t \in Protected
  <2>1. Kept(trade, t)
    BY <1>1, RecalcKeeps, KeptIsReflexive
  <2> QED BY <2>1 DEF Kept, Held, Same
<1>4. trade.bought = 0 => t = trade
  BY <1>1
<1> HIDE DEF t
<1>5. Kept(t, trade')
  <2>1. ASSUME NEW price \in Prices, trade' = AdjustStopLoss(t, price, t.pct, FALSE) PROVE Kept(t, trade')
    <3>1. price \in Int /\ t.pct \in Int
      BY <1>3, StopAssumption DEF Protected, Trades
    <3> QED BY <1>1, <1>3, <2>1, <3>1, AdjustKeeps
  <2> QED BY <1>2, <1>3, <2>1, KeptIsReflexive
<1> QED BY <1>1, <1>2, <1>3, <1>4, <1>5, KeptIsTransitive

LEMMA PartialStep ==
  ASSUME HasStop, PartialFill
  PROVE  KeepsStop /\ WalksOnly
<1>1. Kept(trade, trade') /\ trade \in Protected
  BY PartialKeeps DEF HasStop
<1>2. KeepsStop
  BY <1>1 DEF KeepsStop, Kept, Held, Same, Protected
<1> QED BY <1>1, <1>2 DEF Kept, WalksOnly

LEMMA CheckStep ==
  ASSUME HasStop, ShouldExit
  PROVE  KeepsStop /\ WalksOnly
<1>1. SetupType /\ trade \in Protected /\ row \in RowsOf /\ trade' \in StoplossAdjust(trade, row, FALSE)
  BY DEF ShouldExit, HasStop, RowType, RowsOf
<1>2. Kept(trade, trade')
  BY <1>1, StoplossAdjustKeeps
<1>3. KeepsStop
  BY <1>1, <1>2 DEF KeepsStop, Kept, Held, Same, Protected
<1> QED BY <1>2, <1>3 DEF Kept, WalksOnly

LEMMA ReloadStep ==
  ASSUME HasStop, Reload
  PROVE  /\ trade' \in Protected /\ stoploss' \in Nat /\ WalksOnly
         /\ ~trade'.trailing => trade'.initial_pct = stoploss'
<1>1. PICK pct \in Percents : stoploss' = pct /\ trade' = Reinitialized(trade, pct)
  BY DEF Reload
<1>2. pct \in Nat /\ pct # NONE /\ trade \in Protected /\ SetupType /\ ~setup.backtest
  BY StopAssumption DEF NONE, HasStop, Reload
<1> DEFINE t == [trade EXCEPT !.stop = 0, !.initial_pct = NONE]
<1> DEFINE u == AdjustStopLoss(t, trade.rate, pct, FALSE)
<1>3. t \in Trades /\ t.initial_pct = NONE /\ trade.rate \in Int
  <2>1. trade \in Trades /\ NONE \in Int
    BY <1>2 DEF Protected, NONE
  <2>2. t \in Trades
    BY <2>1, TradesWith
  <2>3. t.initial_pct = NONE
    BY <2>1 DEF Trades
  <2>4. trade.rate \in Int
    BY <2>1 DEF Trades
  <2> QED BY <2>2, <2>3, <2>4
<1> HIDE DEF t, u
<1>4. Held(t, u) /\ u.initial_pct = pct
  <2>1. pct \in Int
    BY <1>2
  <2> QED BY <1>2, <1>3, <2>1, AdjustHolds DEF u
<1> USE DEF t, u
<1>5. CASE trade.trailing \/ trade.initial_pct = pct
  <2>1. trade' = trade
    BY <1>1, <1>5 DEF Reinitialized
  <2>2. ~Better(trade.stop, trade.stop)
    BY <1>2 DEF Better, Long, Protected, Trades
  <2> QED BY <1>1, <1>2, <1>5, <2>1, <2>2 DEF WalksOnly
<1>6. CASE ~(trade.trailing \/ trade.initial_pct = pct)
  <2>1. trade' = AdjustStopLoss(t, trade.rate, pct, FALSE)
    BY <1>1, <1>6 DEF Reinitialized
  <2>2. stoploss' # stoploss
    BY <1>1, <1>2, <1>6 DEF HasStop
  <2> QED BY <1>1, <1>2, <1>4, <2>1, <2>2 DEF WalksOnly, Held, Same
<1> QED BY <1>5, <1>6

\* The first entry of a trade comes with the configured stoploss.
LEMMA InitHasStop == Init => HasStop
<1> SUFFICES ASSUME Init PROVE HasStop
  OBVIOUS
<1>1. SetupType
  BY StopAssumption DEF Init, SetupType, SetupOK
<1>2. PICK price \in Prices :
        /\ trade = InitStopLoss([rate |-> price, bought |-> 0, cost |-> 0, stop |-> 0,
                                 initial_pct |-> NONE, pct |-> NONE, trailing |-> FALSE])
        /\ row = At(price)
  BY DEF Init
<1> DEFINE t == [rate |-> price, bought |-> 0, cost |-> 0, stop |-> 0,
                 initial_pct |-> NONE, pct |-> NONE, trailing |-> FALSE]
<1>3. t \in Trades /\ t.initial_pct = NONE /\ t.rate = price /\ price \in Int /\ t.stop = 0
  BY StopAssumption DEF Trades, NONE
<1>4. stoploss \in Int /\ stoploss # NONE
  BY <1>1 DEF SetupType, NONE
<1>5. trade = AdjustStopLoss(t, price, stoploss, FALSE)
  BY <1>2, <1>3 DEF InitStopLoss
<1> HIDE DEF t
<1>6. trade \in Protected /\ trade.initial_pct = stoploss
  BY ZenonT(40), <1>1, <1>3, <1>4, <1>5, AdjustHolds DEF Held, Same
<1>7. RowType
  BY <1>2, AtRow DEF RowType, RowsOf
<1> QED BY <1>1, <1>6, <1>7 DEF HasStop, Init

LEMMA StepHasStop ==
  ASSUME HasStop, [Next]_vars
  PROVE  HasStop' /\ (WalksOnly \/ UNCHANGED vars)
<1>1. CASE Fill
  <2>1. KeepsStop /\ WalksOnly
    BY <1>1, FillStep
  <2> QED BY <1>1, <2>1 DEF Fill, HasStop, KeepsStop, SetupType, RowType
<1>2. CASE Reduce
  <2>1. KeepsStop /\ WalksOnly
    BY <1>2, ReduceStep
  <2> QED BY <1>2, <2>1 DEF Reduce, HasStop, KeepsStop, SetupType, RowType
<1>3. CASE ShouldExit
  <2>1. KeepsStop /\ WalksOnly
    BY <1>3, CheckStep
  <2> QED BY <1>3, <2>1 DEF ShouldExit, HasStop, KeepsStop, SetupType, RowType
<1>4. CASE Reload
  <2>1. /\ trade' \in Protected /\ stoploss' \in Nat /\ WalksOnly
        /\ ~trade'.trailing => trade'.initial_pct = stoploss'
    BY <1>4, ReloadStep
  <2> QED BY <1>4, <2>1 DEF Reload, HasStop, SetupType, RowType
<1>5. CASE Market
  <2>1. trade' = trade /\ UNCHANGED <<setup, stoploss, fills>> /\ RowType'
    BY <1>5 DEF Market, Rows, RowType
  <2>2. ~Better(trade.stop, trade'.stop)
    BY <2>1 DEF HasStop, Protected, Trades, Better, Long
  <2> QED BY <2>1, <2>2 DEF HasStop, SetupType, WalksOnly
<1>6. CASE PlaceStop \/ MoveStop \/ Interval \/ UNCHANGED vars
  <2>1. UNCHANGED <<setup, stoploss, trade, row, fills>>
    BY <1>6 DEF PlaceStop, MoveStop, Interval, bot, vars
  <2>2. ~Better(trade.stop, trade'.stop)
    BY <2>1 DEF HasStop, Protected, Trades, Better, Long
  <2> QED BY <2>1, <2>2 DEF HasStop, SetupType, RowType, WalksOnly
<1>7. CASE PartialFill
  <2>1. KeepsStop /\ WalksOnly
    BY <1>7, PartialStep
  <2> QED BY <1>7, <2>1 DEF PartialFill, bot, HasStop, KeepsStop, SetupType, RowType
<1> QED BY <1>1, <1>2, <1>3, <1>4, <1>5, <1>6, <1>7 DEF Next

\* In every state of the system the trade has a stoploss (trade_model.py, adjust_stop_loss
\* and execute_entry), and until it trails it is the configured one.
THEOREM AlwaysHasStop == Spec => []HasStop
<1>1. HasStop /\ [Next]_vars => HasStop'
  BY StepHasStop
<1> QED BY InitHasStop, <1>1, PTL DEF Spec

\* adjust_stop_loss says of the stoploss "they only walk up, never down": with its
\* exceptions named, this is so for every step of the system.
THEOREM StopNeverDown == Spec => NeverDown
<1>1. HasStop /\ [Next]_vars => [WalksOnly]_vars
  BY StepHasStop
<1> QED BY AlwaysHasStop, <1>1, PTL DEF Spec, NeverDown, WalksOnly

\* What is tested after it was adjusted: a rate that had reached the stoploss still does.
LEMMA CheckReports ==
  ASSUME HasStop, ShouldExit, ~setup.on_exchange, Reached(trade, row)
  PROVE  exits'
<1> DEFINE s == InitStopLoss(trade)
<1>1. SetupType /\ trade \in Protected /\ row.low \in Int /\ row.high \in Int
  BY RowRates DEF HasStop, RowType
<1>2. Kept(trade, s)
  BY <1>1, InitKeeps
<1>3. Reached(s, row)
  BY <1>1, <1>2 DEF Kept, Held, Same, Better, Reached, Long, Protected, Trades
<1>4. trade' = s
  BY <1>3 DEF ShouldExit, StoplossAdjust
<1> QED BY <1>3, <1>4 DEF ShouldExit, Reached, Long

\* should_exit (interface.py) reports a rate that has reached the stoploss, although it
\* adjusts the stoploss first.
THEOREM StopNeverEscapes == Spec => NoEscape
<1> DEFINE Reports == (ShouldExit /\ ~setup.on_exchange /\ Reached(trade, row)) => exits'
<1>1. HasStop /\ [Next]_vars => [Reports]_vars
  BY CheckReports
<1> QED BY AlwaysHasStop, <1>1, PTL DEF Spec, NoEscape

-----------------------------------------------------------------------------
(* A trailing stoploss follows the best rate.                              *)

\* How close the stoploss is: TrailingFollows, for a trade and a rate.
Close(t, b, pct) == ~Better(NewLoss(b, pct), t.stop)

Trails(t, b) ==
  /\ setup.positive # NONE /\ ProfitAbove(t, b, setup.offset) => Close(t, b, setup.positive)
  /\ ~setup.only_offset => Close(t, b, stoploss) \/ Close(t, b, setup.positive)

\* While the distance is the configured one.
PlainTrail == setup.trailing /\ ~setup.custom /\ reloads = 0

\* A distance of less than the whole price.
Partial == Long /\ stoploss < 100 * setup.leverage

\* What TrailingFollows needs to be inductive: a trade that has bought nothing has
\* not been checked; that of one entry is at the price of this entry; and a stop
\* price of 0, with which the next check would set it anew, means that the whole
\* price may be lost.
Follows ==
  /\ reloads \in Nat /\ best \in Int
  /\ trade.bought = 0 => best = NONE /\ trade.cost = 0
  /\ trade.bought = 0 /\ reloads = 0 => trade.pct = stoploss
  /\ PlainTrail /\ trade.bought = 1 => trade.rate = trade.cost /\ trade.cost \in Nat \ {0}
  /\ PlainTrail /\ Partial => trade.stop > 0
  /\ PlainTrail /\ trade.bought = 1 /\ best # NONE => Trails(trade, best)

\* The stoploss is all of the trade that adjusting it changes.
Bare(t, u) == u.rate = t.rate /\ u.cost = t.cost /\ u.bought = t.bought

LEMMA AdjustBare ==
  ASSUME NEW t \in Trades, NEW rate, NEW pct, NEW refresh
  PROVE  Bare(t, AdjustStopLoss(t, rate, pct, refresh))
  BY DEF Bare, AdjustStopLoss, SetStop, Trades

LEMMA InitBare ==
  ASSUME NEW t \in Trades
  PROVE  Bare(t, InitStopLoss(t))
<1>1. Bare(t, AdjustStopLoss(t, t.rate, stoploss, FALSE))
  BY AdjustBare
<1>2. Bare(t, t)
  BY DEF Bare
<1> QED BY <1>1, <1>2 DEF InitStopLoss

LEMMA TrailedBare ==
  ASSUME NEW t \in Trades, NEW r, NEW pct
  PROVE  Bare(t, Trailed(t, r, pct))
<1>1. /\ Bare(t, AdjustStopLoss(t, Bound(r), setup.positive, FALSE))
      /\ Bare(t, AdjustStopLoss(t, Bound(r), pct, FALSE))
  BY AdjustBare
<1>2. Bare(t, t)
  BY DEF Bare
<1> QED BY <1>1, <1>2 DEF Trailed

LEMMA StoplossAdjustBare ==
  ASSUME SetupType, NEW t \in Protected, NEW r \in RowsOf, NEW after_fill \in BOOLEAN,
         ~setup.custom, NEW u \in StoplossAdjust(t, r, after_fill)
  PROVE  Bare(t, u) /\ Kept(t, u)
<1> DEFINE s == InitStopLoss(t)
<1>1. Bare(t, s) /\ s \in Protected
  BY InitBare, InitKeeps DEF Kept, Held, Same, Protected
<1>2. Bare(s, Trailed(s, r, stoploss))
  BY <1>1, TrailedBare DEF Protected
<1> HIDE DEF s
<1>3. u \in {t, s, Trailed(s, r, stoploss)}
  BY DEF StoplossAdjust, Moved, s
<1> QED BY <1>1, <1>2, <1>3, StoplossAdjustKeeps DEF Bare

\* The average price of one entry is its price.
LEMMA RecalcBare ==
  ASSUME NEW t \in Trades, t.bought = 1, t.rate = t.cost
  PROVE  Bare(t, Recalc(t)) /\ Recalc(t).pct = t.pct
<1> DEFINE rate == (2 * t.cost + t.bought) \div (2 * t.bought)
           u == [t EXCEPT !.rate = rate]
<1>1. rate = t.rate
  <2>1. \A c \in Int : (2 * c + 1) \div 2 = c
    OBVIOUS
  <2> QED BY <2>1 DEF Trades
<1>2. u = t
  BY <1>1 DEF Trades
<1>3. Recalc(t) = AdjustStopLoss(t, t.rate, t.pct, FALSE)
  BY <1>1, <1>2 DEF Recalc
<1>4. Recalc(t).pct = t.pct
  BY <1>3 DEF AdjustStopLoss, SetStop, Trades
<1> QED BY <1>3, <1>4, AdjustBare

\* The price of a stoploss: of a positive rate, some of it is kept if the distance is
\* less than the whole, and none otherwise.
LEMMA CeilSign ==
  ASSUME NEW a \in Int, NEW b \in Nat \ {0}
  PROVE  (a > 0 => Ceil(a, b) > 0) /\ (a <= 0 => Ceil(a, b) <= 0)
  BY DEF Ceil

LEMMA ProductSign ==
  ASSUME NEW a \in Nat \ {0}, NEW b \in Int
  PROVE  (b > 0 => a * b > 0) /\ (b <= 0 => a * b <= 0)
  OBVIOUS

LEMMA LossSign ==
  ASSUME SetupType, Long, NEW rate \in Nat \ {0}
  PROVE  IF Partial THEN NewLoss(rate, stoploss) > 0 ELSE NewLoss(rate, stoploss) <= 0
<1> DEFINE whole == 100 * setup.leverage
           kept == whole - stoploss
<1>1. setup.leverage \in Nat \ {0} /\ stoploss \in Nat
  BY DEF SetupType, SetupOK
<1>2. whole \in Nat \ {0} /\ kept \in Int
  BY <1>1
<1>3. (Partial => kept > 0) /\ (~Partial => kept <= 0)
  BY <1>1 DEF Partial
<1>4. NewLoss(rate, stoploss) = Ceil(rate * kept, whole)
  BY DEF NewLoss
<1> HIDE DEF whole, kept
<1>5. rate * kept \in Int
  BY <1>2
<1>6. (kept > 0 => rate * kept > 0) /\ (kept <= 0 => rate * kept <= 0)
  BY <1>2, ProductSign
<1> QED BY <1>2, <1>3, <1>4, <1>5, <1>6, CeilSign
-----------------------------------------------------------------------------
\* Where the stoploss moves towards the rate, it stays as close as it was.
LEMMA CloseKept ==
  ASSUME SetupType, NEW t \in Protected, NEW u, Kept(t, u), NEW b \in Int, NEW pct \in Int,
         Close(t, b, pct)
  PROVE  Close(u, b, pct)
<1>1. NewLoss(b, pct) \in Int
  BY LossIsInt
<1> QED BY <1>1 DEF Close, Kept, Held, Same, Better, Long, Protected, Trades

LEMMA TrailsKept ==
  ASSUME SetupType, NEW t \in Protected, NEW u, Kept(t, u), Bare(t, u), NEW b \in Int,
         Trails(t, b)
  PROVE  Trails(u, b)
<1>1. setup.positive \in Int /\ stoploss \in Int
  BY DEF SetupType, SetupOK, NONE
<1>2. ProfitAbove(u, b, setup.offset) => ProfitAbove(t, b, setup.offset)
  BY DEF Bare, ProfitAbove, Profit
<1> QED BY <1>1, <1>2, CloseKept DEF Trails

\* adjust_stop_loss brings it as close as it is asked to.
LEMMA AdjustCloses ==
  ASSUME SetupType, NEW t \in Protected, NEW rate \in Int, NEW pct \in Int, pct # NONE
  PROVE  Close(AdjustStopLoss(t, rate, pct, FALSE), rate, pct)
<1>1. NewLoss(rate, pct) \in Int
  BY LossIsInt
<1> QED BY <1>1 DEF Close, AdjustStopLoss, SetStop, Walks, Better, Long, Protected, Trades

\* So a check that trails to a rate brings it as close to this rate as configured.
LEMMA TrailedTrails ==
  ASSUME SetupType, setup.trailing, NEW t \in Protected, NEW r \in RowsOf
  PROVE  Trails(Trailed(t, r, stoploss), Bound(r))
<1> DEFINE b == Bound(r)
           u == Trailed(t, r, stoploss)
<1>1. b \in Int /\ t.rate \in Int /\ setup.leverage \in Int
  BY RowRates DEF RowsOf, SetupType, SetupOK, Protected, Trades
<1>2. setup.positive \in Int /\ stoploss \in Int /\ stoploss # NONE /\ setup.offset \in Int
  BY DEF SetupType, SetupOK, NONE
<1>3. ProfitAbove(u, b, setup.offset) <=> ProfitAbove(t, b, setup.offset)
  BY TrailedBare DEF Protected, Bare, ProfitAbove, Profit
<1>4. CASE setup.only_offset /\ ProfitBelow(t, b, setup.offset)
  <2>1. ~ProfitAbove(t, b, setup.offset)
    <3>1. Profit(t, b) \in Int /\ setup.offset * t.rate \in Int
      BY <1>1, <1>2 DEF Profit
    <3> QED BY <1>4, <3>1 DEF ProfitAbove, ProfitBelow
  <2> QED BY <1>3, <1>4, <2>1 DEF Trails
<1>5. CASE /\ ~(setup.only_offset /\ ProfitBelow(t, b, setup.offset))
           /\ setup.positive # NONE /\ ProfitAbove(t, b, setup.offset)
  <2>1. u = AdjustStopLoss(t, b, setup.positive, FALSE)
    BY <1>5 DEF Trailed
  <2>2. Close(u, b, setup.positive)
    BY <1>1, <1>2, <1>5, <2>1, AdjustCloses
  <2> QED BY <2>2 DEF Trails
<1>6. CASE /\ ~(setup.only_offset /\ ProfitBelow(t, b, setup.offset))
           /\ ~(setup.positive # NONE /\ ProfitAbove(t, b, setup.offset))
  <2>1. u = AdjustStopLoss(t, b, stoploss, FALSE)
    BY <1>6 DEF Trailed
  <2>2. Close(u, b, stoploss)
    BY <1>1, <1>2, <2>1, AdjustCloses
  <2> QED BY <1>3, <1>6, <2>2 DEF Trails
<1> QED BY <1>4, <1>5, <1>6

\* A check that finds the stoploss out of reach trails: initialising it changes
\* nothing.
LEMMA CheckTrails ==
  ASSUME HasStop, Follows, PlainTrail, trade.bought = 1, ShouldExit, ~Reached(trade, row)
  PROVE  trade' = Trailed(trade, row, stoploss)
<1>1. /\ SetupType /\ trade \in Protected /\ row \in RowsOf
      /\ row.low \in Nat \ {0} /\ row.high \in Nat \ {0}
  BY StopAssumption DEF HasStop, RowType, RowsOf
<1>2. trade.rate \in Nat \ {0} /\ trade.stop \in Int /\ trade.initial_pct # NONE
  BY <1>1 DEF Follows, Protected, Trades
<1>3. InitStopLoss(trade) = trade
  <2>1. CASE trade.stop = 0
    <3>1. Long
      BY <1>1, <2>1 DEF Reached
    <3>2. ~Partial
      BY <2>1 DEF Follows
    <3>3. NewLoss(trade.rate, stoploss) <= 0 /\ NewLoss(trade.rate, stoploss) \in Int
      <4>1. stoploss \in Int /\ trade.rate \in Int
        BY <1>1, <1>2 DEF SetupType
      <4> QED BY <1>1, <1>2, <3>1, <3>2, <4>1, LossSign, LossIsInt
    <3>4. ~Walks(NewLoss(trade.rate, stoploss), trade.stop)
      BY <2>1, <3>1, <3>3 DEF Walks, Better
    <3> QED BY <1>2, <3>4 DEF InitStopLoss, AdjustStopLoss
  <2> QED BY <2>1 DEF InitStopLoss
<1> QED BY <1>3 DEF ShouldExit, StoplossAdjust, Moved, PlainTrail

LEMMA CheckFollows ==
  ASSUME HasStop, Follows, PlainTrail, trade.bought = 1, ShouldExit, best' # NONE
  PROVE  best' \in Int /\ Trails(trade', best')
<1>1. /\ SetupType /\ trade \in Protected /\ row \in RowsOf
      /\ trade' \in StoplossAdjust(trade, row, FALSE)
  BY DEF ShouldExit, HasStop, RowType, RowsOf
<1>2. Bare(trade, trade') /\ Kept(trade, trade')
  BY <1>1, StoplossAdjustBare DEF PlainTrail
<1>3. CASE best' = best
  BY <1>1, <1>2, <1>3, TrailsKept DEF Follows
<1>4. CASE best' # best
  <2>1. ~Reached(trade, row) /\ best' = Bound(row)
    BY <1>4 DEF ShouldExit, Bound
  <2>2. trade' = Trailed(trade, row, stoploss)
    BY <2>1, CheckTrails
  <2>3. Bound(row) \in Int
    BY <1>1, RowRates DEF RowsOf
  <2> QED BY <1>1, <2>1, <2>2, <2>3, TrailedTrails DEF PlainTrail
<1> QED BY <1>3, <1>4

-----------------------------------------------------------------------------
\* What Follows says of a trade that the stoploss' distance, and the reloads, allow.
LEMMA StopKept ==
  ASSUME HasStop, Follows, WalksOnly, trade' \in Protected,
         UNCHANGED <<setup, stoploss, reloads>>,
         ~(setup.backtest /\ trade.bought = 0)
  PROVE  PlainTrail /\ Partial => trade'.stop > 0
<1>1. trade \in Protected
  BY DEF HasStop
<1> QED BY <1>1 DEF Follows, WalksOnly, PlainTrail, Partial, Better, Long, Protected, Trades

\* The first entry of a trade, at the price it was filled at.
LEMMA FirstFill ==
  ASSUME HasStop, Follows, PlainTrail, NEW price \in Prices, NEW t \in Protected,
         t.bought = 1, t.cost = price, t.rate = price, t.pct = stoploss,
         NEW u \in AfterEntry(t)
  PROVE  /\ Bare(t, u)
         /\ setup.backtest /\ Partial => u.stop > 0
<1>1. SetupType /\ row \in RowsOf /\ price \in Nat \ {0} /\ ~setup.custom
  BY StopAssumption DEF HasStop, RowType, RowsOf, PlainTrail
<1>2. t \in Trades
  BY DEF Protected
<1>3. Bare(t, Recalc(t)) /\ Recalc(t).pct = stoploss /\ Recalc(t) \in Protected
  <2>1. Kept(t, Recalc(t))
    BY <1>1, RecalcKeeps
  <2> QED BY <1>2, <2>1, RecalcBare DEF Kept, Held, Same
<1>4. CASE ~setup.backtest
  <2>1. u = InitStopLoss(Recalc(t))
    BY <1>1, <1>4 DEF AfterEntry
  <2>2. Bare(Recalc(t), u)
    BY <1>3, <2>1, InitBare DEF Protected
  <2> QED BY <1>3, <1>4, <2>2 DEF Bare
<1>5. CASE setup.backtest
  <2> DEFINE r == Recalc(t)
             fresh == [r EXCEPT !.initial_pct = NONE, !.trailing = FALSE]
             c == AdjustStopLoss(fresh, price, stoploss, FALSE)
  <2>1. r \in Protected /\ r.rate = price /\ r.pct = stoploss /\ r.bought = 1 /\ r.cost = price
    BY <1>3 DEF Bare
  <2>2. ClosedBt(t) = c
    BY <2>1 DEF ClosedBt
  <2> HIDE DEF r
  <2>3. fresh \in Trades /\ fresh.initial_pct = NONE /\ Bare(r, fresh)
    <3>1. r \in Trades /\ NONE \in Int
      BY <2>1 DEF Protected, NONE
    <3>2. fresh \in Trades
      BY <3>1, TradesWith
    <3> QED BY <3>1, <3>2 DEF Trades, Bare
  <2> HIDE DEF fresh
  <2>4. stoploss \in Int /\ stoploss # NONE /\ price \in Int
    BY <1>1 DEF SetupType, NONE
  <2>5. Bare(fresh, c)
    BY <2>3, AdjustBare
  <2>6. c \in Protected
    BY <1>1, <2>3, <2>4, AdjustHolds DEF Held, Same
  <2>7. c.stop = NewLoss(price, stoploss)
    BY <2>3, <2>4 DEF AdjustStopLoss, SetStop, Trades
  <2>8. Partial => c.stop > 0
    BY <1>1, <2>7, LossSign DEF Partial
  <2> HIDE DEF c
  <2>9. Bare(c, u) /\ Kept(c, u)
    <3>1. PICK w \in StoplossAdjust(c, At(price), TRUE) : u = w \/ u = Recalc(w)
      BY <1>5, <2>2 DEF AfterEntry
    <3>2. Bare(c, w) /\ Kept(c, w)
      BY <1>1, <2>6, <3>1, AtRow, StoplossAdjustBare
    <3>3. w \in Protected /\ w \in Trades /\ w.bought = 1 /\ w.rate = w.cost
      BY <2>1, <2>3, <2>5, <3>2 DEF Bare, Kept, Held, Same, Protected
    <3>4. Bare(w, Recalc(w)) /\ Kept(w, Recalc(w))
      BY <1>1, <3>3, RecalcBare, RecalcKeeps
    <3> QED BY <2>6, <3>1, <3>2, <3>4, KeptIsTransitive DEF Bare
  <2>10. Partial => u.stop > 0
    BY <2>6, <2>8, <2>9 DEF Partial, Kept, Held, Same, Better, Protected, Trades
  <2> QED BY <2>1, <2>3, <2>5, <2>9, <2>10 DEF Bare
<1> QED BY <1>4, <1>5

\* Selling a part of what one entry bought leaves its price alone.
LEMMA ReduceBare ==
  ASSUME HasStop, Follows, PlainTrail, trade.bought = 1, Reduce
  PROVE  Bare(trade, trade') /\ Kept(trade, trade')
<1>1. SetupType /\ trade \in Protected /\ trade.rate = trade.cost /\ ~setup.custom
  BY DEF HasStop, Follows, PlainTrail
<1>2. ASSUME NEW t \in Protected, Bare(trade, t) PROVE Bare(trade, Recalc(t)) /\ Kept(t, Recalc(t))
  <2>1. t \in Trades /\ t.bought = 1 /\ t.rate = t.cost
    BY <1>1, <1>2 DEF Bare, Protected
  <2>2. Kept(t, Recalc(t))
    BY <1>1, <1>2, <2>1, RecalcKeeps
  <2> QED BY <1>2, <2>1, <2>2, RecalcBare DEF Bare
<1>3. CASE setup.backtest
  <2>1. PICK price \in Prices : trade' \in {Recalc(t) : t \in StoplossAdjust(trade, At(price), TRUE)}
    BY <1>3 DEF Reduce
  <2>2. PICK t \in StoplossAdjust(trade, At(price), TRUE) : trade' = Recalc(t)
    BY <2>1
  <2>3. Bare(trade, t) /\ Kept(trade, t) /\ t \in Protected
    BY <1>1, AtRow, StoplossAdjustBare DEF Kept, Held, Same
  <2> QED BY <1>1, <1>2, <2>2, <2>3, KeptIsTransitive
<1>4. CASE ~setup.backtest
  <2>1. trade' = Recalc(trade)
    BY <1>1, <1>4 DEF Reduce
  <2> QED BY <1>1, <1>2, <2>1 DEF Bare
<1> QED BY <1>3, <1>4

\* The trade as Fill hands it to those who adjust its stoploss.
LEMMA FilledTrade ==
  ASSUME HasStop, Fill
  PROVE  \E price \in Prices, t \in Protected :
           /\ t.bought = trade.bought + 1 /\ t.cost = trade.cost + price /\ t.rate = price
           /\ t.pct = trade.pct
           /\ trade' \in AfterEntry(t) /\ Same(t, trade')
<1>1. PICK price \in Prices :
        trade' \in AfterEntry([trade EXCEPT !.bought = @ + 1, !.cost = @ + price, !.rate = price])
  BY DEF Fill
<1> DEFINE t == [trade EXCEPT !.bought = @ + 1, !.cost = @ + price, !.rate = price]
<1>2. price \in Int
  BY StopAssumption
<1>3. trade \in Trades /\ trade.initial_pct # NONE /\ trade.pct # NONE
  BY DEF HasStop, Protected
<1>4. t \in Trades
  BY <1>2, <1>3, TradesWith
<1>5. /\ t.bought = trade.bought + 1 /\ t.cost = trade.cost + price /\ t.rate = price
      /\ t.initial_pct = trade.initial_pct /\ t.pct = trade.pct /\ trade.bought \in Nat
  BY <1>3 DEF Trades
<1>6. t \in Protected
  BY <1>3, <1>4, <1>5 DEF Protected
<1>7. trade' \in AfterEntry(t)
  BY <1>1
<1> HIDE DEF t
<1>8. Same(t, trade')
  BY <1>5, <1>6, <1>7, AfterEntryKeeps DEF HasStop
<1> QED BY <1>5, <1>6, <1>7, <1>8

LEMMA FollowsFill ==
  ASSUME HasStop, Follows, Fill
  PROVE  Follows'
<1>1. PICK price \in Prices, t \in Protected :
           /\ t.bought = trade.bought + 1 /\ t.cost = trade.cost + price /\ t.rate = price
           /\ t.pct = trade.pct
           /\ trade' \in AfterEntry(t) /\ Same(t, trade')
  BY FilledTrade
<1>2. /\ UNCHANGED <<setup, stoploss, reloads, best>>
      /\ price \in Nat \ {0} /\ trade.bought \in Nat
      /\ trade' \in Protected /\ trade'.bought = trade.bought + 1
  BY <1>1, StopAssumption DEF Fill, HasStop, Same, Protected, Trades
<1>3. CASE trade.bought # 0
  <2>1. WalksOnly
    BY FillStep
  <2>2. PlainTrail /\ Partial => trade'.stop > 0
    BY <1>2, <1>3, <2>1, StopKept
  <2>3. trade'.bought # 0 /\ trade'.bought # 1
    BY <1>2, <1>3
  <2> QED BY <1>2, <2>2, <2>3 DEF Follows, PlainTrail, Partial, Long
<1>4. CASE trade.bought = 0
  <2>1. best' = NONE /\ trade'.bought = 1 /\ t.bought = 1 /\ t.cost = price
    BY <1>1, <1>2, <1>4 DEF Follows
  <2>2. CASE PlainTrail
    <3>1. t.pct = stoploss
      BY <1>1, <1>4, <2>2 DEF Follows, PlainTrail
    <3>2. Bare(t, trade') /\ (setup.backtest /\ Partial => trade'.stop > 0)
      BY <1>1, <2>1, <2>2, <3>1, FirstFill
    <3>3. Partial => trade'.stop > 0
      <4>1. CASE ~setup.backtest
        BY <1>2, <2>2, <4>1, FillStep, StopKept
      <4> QED BY <3>2, <4>1
    <3> QED BY <1>1, <1>2, <2>1, <3>2, <3>3 DEF Follows, Bare, PlainTrail, Partial, Long
  <2>3. CASE ~PlainTrail
    BY <1>2, <2>1, <2>3 DEF Follows, PlainTrail
  <2> QED BY <2>2, <2>3
<1> QED BY <1>3, <1>4

LEMMA ReduceSells ==
  ASSUME HasStop, Reduce
  PROVE  trade'.bought = trade.bought
<1>1. trade \in Protected /\ trade.bought > 0 /\ SetupType /\ row \in RowsOf
  BY DEF Reduce, HasStop, RowType, RowsOf
<1>2. CASE setup.backtest
  <2>1. PICK price \in Prices : trade' \in {Recalc(t) : t \in StoplossAdjust(trade, At(price), TRUE)}
    BY <1>2 DEF Reduce
  <2>2. PICK t \in StoplossAdjust(trade, At(price), TRUE) : trade' = Recalc(t)
    BY <2>1
  <2>3. t \in Protected /\ t.bought = trade.bought
    BY <1>1, AtRow, StoplossAdjustKeeps DEF Held, Same
  <2> QED BY <1>1, <2>2, <2>3, RecalcKeeps DEF Kept, Held, Same
<1>3. CASE ~setup.backtest
  <2>1. Recalc(trade) \in Protected /\ Recalc(trade).bought = trade.bought
    BY <1>1, RecalcKeeps DEF Kept, Held, Same
  <2>2. trade' = Recalc(trade) \/ trade' \in StoplossAdjust(Recalc(trade), row, TRUE)
    BY <1>3 DEF Reduce
  <2> QED BY <1>1, <2>1, <2>2, StoplossAdjustKeeps DEF Held, Same
<1> QED BY <1>2, <1>3

LEMMA FollowsReduce ==
  ASSUME HasStop, Follows, Reduce
  PROVE  Follows'
<1>1. /\ UNCHANGED <<setup, stoploss, reloads, best>> /\ trade.bought > 0
      /\ SetupType /\ trade \in Protected /\ trade.bought \in Nat
  BY DEF Reduce, HasStop, Protected, Trades
<1>2. WalksOnly /\ trade' \in Protected
  BY ReduceStep DEF KeepsStop
<1>3. PlainTrail /\ Partial => trade'.stop > 0
  BY <1>1, <1>2, StopKept
<1>4. trade'.bought = trade.bought
  BY ReduceSells
<1>5. CASE PlainTrail /\ trade.bought = 1
  <2>1. Bare(trade, trade') /\ Kept(trade, trade')
    BY <1>5, ReduceBare
  <2>2. best # NONE => Trails(trade', best)
    BY <1>1, <1>5, <2>1, TrailsKept DEF Follows
  <2>3. best' # NONE => Trails(trade, best)'
    BY <1>1, <2>2 DEF Trails, Close, NewLoss, Better, Long, ProfitAbove, Profit
  <2> QED BY <1>1, <1>3, <1>4, <2>1, <2>3 DEF Follows, PlainTrail, Partial, Long, Bare
<1>6. CASE ~(PlainTrail /\ trade.bought = 1)
  BY <1>1, <1>3, <1>4, <1>6 DEF Follows, PlainTrail, Partial, Long
<1> QED BY <1>5, <1>6

LEMMA FollowsPartial ==
  ASSUME HasStop, Follows, PartialFill
  PROVE  Follows'
<1>1. /\ UNCHANGED <<setup, stoploss, reloads, best>> /\ SetupType /\ trade \in Protected /\ trade.bought \in Nat
      /\ trade \in Trades
  BY DEF PartialFill, bot, HasStop, Protected, Trades
<1>2. Kept(trade, trade') /\ trade' \in Protected /\ trade'.bought = trade.bought
  BY PartialKeeps DEF Kept, Held, Same
<1>3. PlainTrail /\ Partial => trade'.stop > 0
  BY <1>1, <1>2 DEF Follows, Kept, Better, Partial, Long, Protected, Trades
<1>4. CASE trade.bought = 0
  <2>1. trade'.cost = trade.cost /\ trade'.pct = trade.pct
    <3>1. trade' = trade \/ \E price \in Prices : trade' = AdjustStopLoss(trade, price, trade.pct, FALSE)
      BY <1>4, PartialKeeps
    <3> QED BY <1>1, <3>1 DEF AdjustStopLoss, SetStop, Trades
  <2> QED BY <1>1, <1>2, <1>3, <1>4, <2>1 DEF Follows, PlainTrail, Partial, Long
<1>5. CASE PlainTrail /\ trade.bought = 1
  <2>1. Bare(trade, trade')
    <3>1. Bare(trade, Recalc(trade)) /\ Recalc(trade) \in Trades
      BY <1>1, <1>5, RecalcBare, RecalcKeeps DEF Follows, Kept, Held, Same, Protected
    <3>2. trade' = Recalc(trade) \/ \E price \in Prices :
            trade' = AdjustStopLoss(Recalc(trade), price, Recalc(trade).pct, FALSE)
      <4>1. trade.bought > 0
        BY <1>5
      <4> HIDE <1>5
      <4> QED BY <4>1, Zenon DEF PartialFill
    <3>3. CASE trade' = Recalc(trade)
      BY <3>1, <3>3
    <3>4. ASSUME NEW price \in Prices, trade' = AdjustStopLoss(Recalc(trade), price, Recalc(trade).pct, FALSE)
          PROVE  Bare(trade, trade')
      <4>1. Bare(Recalc(trade), trade')
        BY <3>1, <3>4, AdjustBare
      <4> QED BY <3>1, <4>1 DEF Bare
    <3> QED BY <3>2, <3>3, <3>4
  <2>2. best # NONE => Trails(trade', best)
    BY <1>1, <1>2, <1>5, <2>1, TrailsKept DEF Follows
  <2>3. best' # NONE => Trails(trade, best)'
    BY <1>1, <2>2 DEF Trails, Close, NewLoss, Better, Long, ProfitAbove, Profit
  <2> QED BY <1>1, <1>2, <1>3, <1>5, <2>1, <2>3 DEF Follows, PlainTrail, Partial, Long, Bare
<1>6. CASE trade.bought # 0 /\ ~(PlainTrail /\ trade.bought = 1)
  BY <1>1, <1>2, <1>3, <1>6 DEF Follows, PlainTrail, Partial, Long
<1> QED BY <1>4, <1>5, <1>6

LEMMA FollowsCheck ==
  ASSUME HasStop, Follows, ShouldExit
  PROVE  Follows'
<1>1. /\ UNCHANGED <<setup, stoploss, reloads>> /\ trade.bought > 0
      /\ SetupType /\ trade \in Protected /\ trade.bought \in Nat
      /\ row \in RowsOf /\ trade' \in StoplossAdjust(trade, row, FALSE)
  BY DEF ShouldExit, HasStop, Protected, Trades, RowType, RowsOf
<1>2. WalksOnly /\ trade' \in Protected
  BY CheckStep DEF KeepsStop
<1>3. PlainTrail /\ Partial => trade'.stop > 0
  BY <1>1, <1>2, StopKept
<1>4. trade'.bought = trade.bought
  BY <1>1, StoplossAdjustKeeps DEF Held, Same
<1>5. best' \in Int
  BY <1>1, RowRates DEF ShouldExit, Follows, RowsOf
<1>6. CASE PlainTrail /\ trade.bought = 1
  <2>1. Bare(trade, trade')
    BY <1>1, <1>6, StoplossAdjustBare DEF PlainTrail
  <2>2. best' # NONE => Trails(trade', best')
    BY <1>6, CheckFollows
  <2>3. best' # NONE => Trails(trade, best)'
    BY <1>1, <2>2 DEF Trails, Close, NewLoss, Better, Long, ProfitAbove, Profit
  <2> QED BY <1>1, <1>3, <1>4, <1>5, <1>6, <2>1, <2>3 DEF Follows, PlainTrail, Partial, Long, Bare
<1>7. CASE ~(PlainTrail /\ trade.bought = 1)
  BY <1>1, <1>3, <1>4, <1>5, <1>7 DEF Follows, PlainTrail, Partial, Long
<1> QED BY <1>6, <1>7

LEMMA FollowsReload ==
  ASSUME HasStop, Follows, Reload
  PROVE  Follows'
<1>1. /\ reloads \in Nat /\ reloads' = reloads + 1 /\ UNCHANGED <<setup, best>>
      /\ trade \in Trades
  BY DEF Reload, Follows, HasStop, Protected
<1>2. reloads' \in Nat /\ reloads' # 0
  BY <1>1
<1>3. Bare(trade, trade')
  <2>1. PICK pct \in Percents : trade' = Reinitialized(trade, pct)
    BY DEF Reload
  <2> DEFINE t == [trade EXCEPT !.stop = 0, !.initial_pct = NONE]
  <2>2. t \in Trades /\ Bare(trade, t)
    <3>1. NONE \in Int
      BY DEF NONE
    <3>2. t \in Trades
      BY <1>1, <3>1, TradesWith
    <3> QED BY <1>1, <3>2 DEF Trades, Bare
  <2> HIDE DEF t
  <2>3. Bare(t, AdjustStopLoss(t, trade.rate, pct, FALSE))
    BY <2>2, AdjustBare
  <2>4. trade' \in {trade, AdjustStopLoss(t, trade.rate, pct, FALSE)}
    BY <2>1 DEF Reinitialized, t
  <2> QED BY <2>2, <2>3, <2>4 DEF Bare
<1> QED BY <1>1, <1>2, <1>3 DEF Follows, PlainTrail, Bare

LEMMA FollowsInit == Init => Follows
<1> SUFFICES ASSUME Init PROVE Follows
  OBVIOUS
<1>1. SetupType /\ HasStop
  BY InitHasStop DEF HasStop
<1>2. PICK price \in Prices :
        trade = InitStopLoss([rate |-> price, bought |-> 0, cost |-> 0, stop |-> 0,
                              initial_pct |-> NONE, pct |-> NONE, trailing |-> FALSE])
  BY DEF Init
<1> DEFINE t == [rate |-> price, bought |-> 0, cost |-> 0, stop |-> 0,
                 initial_pct |-> NONE, pct |-> NONE, trailing |-> FALSE]
<1>3. /\ t \in Trades /\ t.initial_pct = NONE /\ t.rate = price /\ price \in Nat \ {0}
      /\ t.stop = 0 /\ t.bought = 0 /\ t.cost = 0
  BY StopAssumption DEF Trades, NONE
<1>4. stoploss \in Int /\ stoploss # NONE
  BY <1>1 DEF SetupType, NONE
<1>5. trade = AdjustStopLoss(t, price, stoploss, FALSE)
  BY <1>2, <1>3 DEF InitStopLoss
<1> HIDE DEF t
<1>6. trade.stop = NewLoss(price, stoploss) /\ trade.pct = stoploss
  BY <1>3, <1>4, <1>5 DEF AdjustStopLoss, SetStop, Trades
<1>7. Bare(t, trade)
  BY <1>3, <1>5, AdjustBare
<1>8. Partial => trade.stop > 0
  BY <1>1, <1>3, <1>6, LossSign DEF Partial
<1>9. best = NONE /\ reloads = 0 /\ NONE \in Int
  BY DEF Init, NONE
<1> QED BY <1>3, <1>6, <1>7, <1>8, <1>9 DEF Follows, Bare

\* The trailing stoploss (ft_stoploss_adjust) of a trade with one entry, no custom
\* stoploss and no reload stays as close to the best rate it was checked at as the
\* configuration asks for, with its offset and the closer distance above it, whatever
\* is sold meanwhile.
THEOREM TrailingAlwaysFollows == Spec => []TrailingFollows
<1>1. HasStop /\ Follows /\ [Next]_vars => Follows'
  <2> SUFFICES ASSUME HasStop, Follows, [Next]_vars PROVE Follows'
    OBVIOUS
  <2>1. CASE Market \/ PlaceStop \/ MoveStop \/ Interval \/ UNCHANGED vars
    <3>1. UNCHANGED <<setup, stoploss, trade, reloads, best>>
      BY <2>1 DEF Market, PlaceStop, MoveStop, Interval, bot, vars
    <3>2. Trails(trade, best)' <=> Trails(trade, best)
      BY <3>1 DEF Trails, Close, NewLoss, Better, Long, ProfitAbove, Profit
    <3> QED BY <3>1, <3>2 DEF Follows, PlainTrail, Partial, Long
  <2> QED BY <2>1, FollowsFill, FollowsPartial, FollowsReduce, FollowsCheck, FollowsReload DEF Next
<1>2. HasStop /\ Follows => TrailingFollows
  BY DEF Follows, TrailingFollows, Trails, Close, PlainTrail
<1> QED BY <1>1, <1>2, FollowsInit, AlwaysHasStop, PTL DEF Spec
=============================================================================
