---------------------------- MODULE MCPairLocking ----------------------------
(* Small instances of PairLocking. *)
EXTENDS PairLocking

CONSTANTS p1, p2

TwoPairs  == {p1, p2}
BothSides == {"long", "short"}
StopOrWin == {[profit |-> -2, stop |-> TRUE], [profit |-> 1, stop |-> FALSE]}
Symmetric == Permutations({p1, p2})

Protection(method) ==
  [method |-> method, lookback |-> 6, duration |-> 3, unlockAt |-> -1, limit |-> 1,
   perPair |-> FALSE, perSide |-> FALSE, profit |-> 0]

\* A cooldown and low profits; guards for one side, and for one pair and for all
\* until a fixed time; a drawdown after two trades.
EachProtection ==
  {<<Protection("CooldownPeriod"), [Protection("LowProfitPairs") EXCEPT !.limit = 2]>>,
   <<[Protection("StoplossGuard") EXCEPT !.limit = 2, !.lookback = 2, !.perSide = TRUE]>>,
   <<[Protection("StoplossGuard") EXCEPT !.perPair = TRUE, !.duration = 2],
     [Protection("StoplossGuard") EXCEPT !.limit = 2, !.unlockAt = 5]>>,
   <<[Protection("MaxDrawdown") EXCEPT !.limit = 2, !.profit = 1]>>}
=============================================================================
