------------------------------ MODULE TradeGate ------------------------------
(***************************************************************************)
(* agents/trade_gate.py: the gate that every entry of the paper trader has *)
(* to pass.  It counts the trades of the day, pauses after a closed trade  *)
(* and stops at a loss.  A gate is a record; every method of Gate is an    *)
(* operator from the gate before to the gate after.                        *)
(***************************************************************************)
EXTENDS Integers

CONSTANTS
  CooldownBars,     \* cooldown_bars
  MaxTradesPerDay,  \* max_trades_per_day
  GateDrawdown      \* drawdown_limit, in percent of the starting capital

ASSUME GateAssumption ==
  CooldownBars \in Nat /\ MaxTradesPerDay \in Nat /\ GateDrawdown \in Nat

GateType == [state   : {"idle", "cooldown", "stopped"},
             cool    : Int,    \* _cooldown_bars_remaining
             count   : Nat,    \* _trade_count
             dayPnl  : Int,    \* _day_pnl
             capital : Int]    \* cfg.starting_capital

NewGate(capital) ==
  [state |-> "idle", cool |-> 0, count |-> 0, dayPnl |-> 0, capital |-> capital]

\* evaluate: `signal` stands for all that depends on the scores alone (minimum
\* scores, model probability, regime, confidence, size).
Accepts(g, signal) ==
  /\ signal
  /\ g.state # "stopped"
  /\ g.count < MaxTradesPerDay
  /\ g.state # "cooldown"

OnTradePlaced(g) == [g EXCEPT !.count = @ + 1]

OnTradeClosed(g) == [g EXCEPT !.state = "cooldown", !.cool = CooldownBars]

OnBar(g) ==
  IF g.state # "cooldown" THEN g
  ELSE [g EXCEPT !.cool = @ - 1, !.state = IF g.cool - 1 <= 0 THEN "idle" ELSE @]

\* The capital includes what was added by top-ups.
UpdatePnl(g, pnl) ==
  [g EXCEPT !.dayPnl = @ + pnl,
            !.state = IF (g.dayPnl + pnl) * 100 <= -(GateDrawdown * g.capital)
                      THEN "stopped" ELSE @]

ResetGate(g, pnl) ==
  [g EXCEPT !.count = 0, !.dayPnl = pnl,
            !.state = IF @ = "stopped" THEN "idle" ELSE @]
=============================================================================
