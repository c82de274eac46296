------------------------------ MODULE MCApiClient ------------------------------
(***************************************************************************)
(* Symmetry for the safety run of ApiClient: neither tabs nor call slots   *)
(* are told apart.                                                         *)
(***************************************************************************)
EXTENDS ApiClient, TLC

Symmetry == Permutations(Tabs) \cup Permutations(Calls)
================================================================================
