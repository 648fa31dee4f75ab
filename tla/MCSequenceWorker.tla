-------------------------- MODULE MCSequenceWorker --------------------------
(* Small instances of the scheduled worker.                                  *)
EXTENDS SequenceWorker, TLC

CONSTANTS r1, r2

SameCode == Permutations(Runs)
=============================================================================
