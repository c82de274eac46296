----------------------------- MODULE MCEdgeRecords -----------------------------
(***************************************************************************)
(* Two edges: the first with telemetry, signalled twice; the second to     *)
(* register at the same time.                                              *)
(***************************************************************************)
EXTENDS EdgeRecords, TLC

CONSTANTS first, second

MCSignals == first :> 2 @@ second :> 1

MCLines == first :> 1 @@ second :> 0

MCSeq == first :> 2 @@ second :> 0
===============================================================================
