--------------------------- MODULE MCWorkerPool ---------------------------
(***************************************************************************)
(* Instances of WorkerPool for TLC.                                        *)
(***************************************************************************)
EXTENDS WorkerPool, TLC

Symmetry == Permutations(Goroutines) \cup Permutations(Loops)
===========================================================================
