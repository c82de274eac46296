----------------------------- MODULE MCEdgeSafety -----------------------------
(* Values for the constants of EdgeSafety: one page.  A tick is 500 ms in   *)
(* the timing run; in the others the timeout is cut down to two ticks.      *)
EXTENDS EdgeSafety, TLC

CONSTANT one

NoPages == {}

OnePage == {one}

OneEpoch == one :> 1

\* How many commands the page sends.
Four == one :> 4
=============================================================================
