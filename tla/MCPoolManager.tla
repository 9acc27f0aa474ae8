--------------------------- MODULE MCPoolManager ---------------------------
(* Small instances of PoolManager for TLC: the goroutines are              *)
(* interchangeable model values.                                           *)
EXTENDS PoolManager, TLC

Interchangeable == Permutations(Procs)
=============================================================================
