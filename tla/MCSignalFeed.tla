---------------------------- MODULE MCSignalFeed ----------------------------
(* Small instances of SignalFeed. *)
EXTENDS SignalFeed

CONSTANTS p1, p2
OnePair == {p1}
OnePairOld == (p1 :> 1)
OnePairYoung == (p1 :> 4)
=============================================================================
