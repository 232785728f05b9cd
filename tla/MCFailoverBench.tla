-------------------------- MODULE MCFailoverBench --------------------------
(***************************************************************************)
(* FailoverBench.tla with interchangeable workers.                         *)
(***************************************************************************)
EXTENDS FailoverBench, TLC

CONSTANTS w1, w2

WorkerSymmetry == Permutations(Workers)
=============================================================================
