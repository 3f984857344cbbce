------------------------------ MODULE MCIndexer ------------------------------
(* Batches with nothing, one event, two of one transaction, and an unreadable one. *)
EXTENDS ChainIndexer, TLC

Of(n, named) == [n |-> n, named |-> named]

MCBatches ==
  { << >>, <<Of(1, TRUE)>>, <<Of(1, TRUE), Of(1, TRUE)>>, <<Of(1, FALSE), Of(2, TRUE)>> }

Symmetry == Permutations(Pollers)
=============================================================================
