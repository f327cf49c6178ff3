----------------------------- MODULE MCStopLoss -----------------------------
(* Small instances of StopLoss. *)
EXTENDS StopLoss

Plain == [side |-> "long", leverage |-> 1, stoploss |-> 25, trailing |-> FALSE, positive |-> NONE,
          offset |-> 0, only_offset |-> FALSE, custom |-> FALSE, after_fill |-> FALSE,
          on_exchange |-> FALSE, backtest |-> FALSE]
Trailing == [Plain EXCEPT !.trailing = TRUE, !.positive = 10, !.offset = 20]
Custom   == [Plain EXCEPT !.custom = TRUE, !.after_fill = TRUE]
BothSides(c) == {c, [c EXCEPT !.side = "short"]}
Each == UNION {BothSides(c) : c \in
  {Trailing,
   [Trailing EXCEPT !.only_offset = TRUE, !.backtest = TRUE],
   [Trailing EXCEPT !.on_exchange = TRUE, !.leverage = 2],
   Custom,
   [Custom EXCEPT !.backtest = TRUE, !.trailing = TRUE],
   [Custom EXCEPT !.on_exchange = TRUE, !.after_fill = FALSE]}}
CustomOnly == {[Plain EXCEPT !.custom = TRUE]}
PlainOnly  == {Plain}
=============================================================================
