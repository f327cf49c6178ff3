----------------------------- MODULE TradeSlots -----------------------------
(***************************************************************************)
(* What max_open_trades promises: never more open trades than that, and    *)
(* one trade per pair.  A trade is opened when both allow it; open trades  *)
(* close, or are deleted, at any time.                                     *)
(***************************************************************************)
EXTENDS Integers, FiniteSets

CONSTANTS Trades,        \* the trades there can be
          Pair,          \* Pair[t] is the pair of the trade t
          MaxOpenTrades  \* max_open_trades

VARIABLE trades          \* the open trades

Init == trades = {}

Open(t) ==
  /\ Cardinality(trades) < MaxOpenTrades
  /\ \A u \in trades : Pair[u] # Pair[t]
  /\ trades' = trades \cup {t}

Close == trades' \in SUBSET trades

Next == Close \/ \E t \in Trades : Open(t)

Spec == Init /\ [][Next]_trades
-----------------------------------------------------------------------------
\* Never more open trades than max_open_trades.
WithinLimit == Cardinality(trades) <= MaxOpenTrades

\* Never two open trades for one pair.
OnePerPair == \A t, u \in trades : Pair[t] = Pair[u] => t = u
=============================================================================
