------------------------------ MODULE MCEngine ------------------------------
(* Small instances of BillingEngine for TLC.                               *)
EXTENDS BillingEngine, TLC

Symmetry == Permutations(Cycles) \cup Permutations(Requests) \cup Permutations(Sweepers)
=============================================================================
