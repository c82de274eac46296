------------------------------ MODULE LeaseLock ------------------------------
(***************************************************************************)
(* What the control lease promises: a vehicle has at most one holder, and  *)
(* the lease changes hands only when it was given back, by its holder or   *)
(* by an admin who takes it over, or has run out.                          *)
(* Its holder may renew it.  A claim may take effect late, so the time it  *)
(* runs until is counted from some moment no later than the present.       *)
(***************************************************************************)
EXTENDS Integers

CONSTANTS Users, Nobody, LeaseTTL

VARIABLES holder, until, clock

lockVars == <<holder, until, clock>>

Init ==
    /\ holder = Nobody
    /\ until = 0
    /\ clock = 0

Available(u) == holder \in {Nobody, u} \/ until <= clock

Acquire(u) ==
    /\ Available(u)
    /\ holder' = u
    /\ until' \in LeaseTTL .. clock + LeaseTTL
    /\ UNCHANGED clock

GiveBack ==
    /\ holder' = Nobody
    /\ until' = 0
    /\ UNCHANGED clock

Tick ==
    /\ clock' = clock + 1
    /\ UNCHANGED <<holder, until>>

Next == (\E u \in Users : Acquire(u)) \/ GiveBack \/ Tick

Spec == Init /\ [][Next]_lockVars
=============================================================================
