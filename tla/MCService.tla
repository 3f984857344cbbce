----------------------------- MODULE MCService -----------------------------
(* Small instances of BillingService for TLC.                              *)
EXTENDS BillingService, TLC

Symmetry == Permutations(Cycles) \cup Permutations(Requests) \cup Permutations(Sweepers)
=============================================================================
