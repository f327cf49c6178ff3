---------------------------- MODULE MCCandleCache ----------------------------
(* Small instances of CandleCache. *)
EXTENDS CandleCache

CONSTANTS p1, p2

\* A pair that leaves the whitelist and comes back.
Leaving == {{p1}, {p2}}
Alone == {{p1}}
=============================================================================
