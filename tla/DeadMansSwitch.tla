---------------------------- MODULE DeadMansSwitch ----------------------------
(***************************************************************************)
(* What safe mode promises: a vehicle is armed only by an operator it has  *)
(* just heard from, and time does not pass Limit while it is armed and     *)
(* nobody is heard.  It may be stopped at any time.                        *)
(***************************************************************************)
EXTENDS Integers

CONSTANTS Never, Limit, Window

VARIABLES safe, age

switchVars == <<safe, age>>

Init == safe = TRUE /\ age = Never

Hear == age' = 0 /\ UNCHANGED safe

Arm ==
    /\ age # Never
    /\ age <= Window
    /\ safe' = FALSE
    /\ UNCHANGED age

\* A restart forgets when the operator was last heard.
Stop == safe' = TRUE /\ age' \in {age, Never}

Wait ==
    /\ age # Never
    /\ safe \/ age < Limit
    /\ age' = age + 1
    /\ UNCHANGED safe

Next == Hear \/ Arm \/ Stop \/ Wait

Spec == Init /\ [][Next]_switchVars
=============================================================================
