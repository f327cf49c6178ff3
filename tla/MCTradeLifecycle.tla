-------------------------- MODULE MCTradeLifecycle --------------------------
(* Instances of TradeLifecycle for TLC; the .cfg files give the constants. *)
EXTENDS TradeLifecycle
=============================================================================
