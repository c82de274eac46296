------------------------------ MODULE TokenChain ------------------------------
(***************************************************************************)
(* What rotating refresh tokens promise: of all the tokens ever issued to  *)
(* a user at most one is live, and a token that is dead stays dead.  A     *)
(* token may be dead on arrival.                                           *)
(***************************************************************************)
EXTENDS FiniteSets

VARIABLES live, dead

Init ==
    /\ live = {}
    /\ dead = {}

Revoke ==
    /\ live' = {}
    /\ dead' = dead \cup live

IssueLive ==
    /\ live = {}
    /\ dead' = dead
    /\ \E token \in live' : live' = {token} /\ token \notin dead

IssueDead ==
    /\ live' = live
    /\ \E token \in dead' : dead' = dead \cup {token} /\ token \notin live \cup dead

Next == Revoke \/ IssueLive \/ IssueDead

Spec == Init /\ [][Next]_<<live, dead>>
===============================================================================
