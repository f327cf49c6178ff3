---------------------------- MODULE MCBacktesting ----------------------------
(* Small instances of Backtesting. *)
EXTENDS Backtesting

CONSTANTS p1, p2

TwoPairs == {p1, p2}
\* The second pair has data for the first candle only.
FromStart == [p \in {p1, p2} |-> 1]
ToEnd     == [p \in {p1, p2} |-> IF p = p1 THEN Candles ELSE 1]

Plain == [pairs |-> <<p1, p2>>, detail |-> FALSE, stacking |-> FALSE, short |-> FALSE,
          partial |-> FALSE, adjust |-> FALSE, slippage |-> 0, stopSlippage |-> FALSE,
          maxOpen |-> 1, protections |-> <<>>]
Cooldown == <<[method |-> "CooldownPeriod", lookback |-> 4, duration |-> 1, unlockAt |-> -1]>>
WithDetail == [Plain EXCEPT !.detail = TRUE, !.pairs = <<p1>>]
Each ==
  {[Plain EXCEPT !.partial = TRUE, !.adjust = TRUE],
   [Plain EXCEPT !.short = TRUE, !.adjust = TRUE, !.stopSlippage = TRUE],
   [Plain EXCEPT !.short = TRUE, !.protections = Cooldown],
   WithDetail,
   [WithDetail EXCEPT !.protections = Cooldown],
   [Plain EXCEPT !.stacking = TRUE, !.maxOpen = 2]}
Detailed == {WithDetail}
PartialFills == {[Plain EXCEPT !.partial = TRUE]}
Slipping == {[Plain EXCEPT !.slippage = 1]}
=============================================================================
