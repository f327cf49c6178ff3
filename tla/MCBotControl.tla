---------------------------- MODULE MCBotControl ----------------------------
(* Small instances of BotControl. *)
EXTENDS BotControl, TLC

CONSTANTS p1, p2, p3, c1, c2

TwoPairs   == {p1, p2}
ThreePairs == {p1, p2, p3}
OneClient  == {c1}
TwoClients == {c1, c2}
Symmetry   == Permutations(TwoPairs) \cup Permutations(TwoClients)
=============================================================================
