------------------------------ MODULE Supervisor ------------------------------
(***************************************************************************)
(* What the manager of a video publisher promises: one process at a time,  *)
(* a limited number of starts, and no start once it was asked to stop.     *)
(***************************************************************************)
EXTENDS Naturals

CONSTANT MaxStarts

VARIABLES alive, starts, closed

supervisorVars == <<alive, starts, closed>>

Init == alive = FALSE /\ starts = 0 /\ closed = FALSE

\* The program may turn out not to be startable.
Start ==
    /\ ~alive
    /\ ~closed
    /\ starts < MaxStarts
    /\ starts' = starts + 1
    /\ alive' \in BOOLEAN
    /\ UNCHANGED closed

End == alive /\ alive' = FALSE /\ UNCHANGED <<starts, closed>>

Close == ~closed /\ closed' = TRUE /\ UNCHANGED <<alive, starts>>

Next == Start \/ End \/ Close

Spec == Init /\ [][Next]_supervisorVars
=============================================================================
