-------------------------- MODULE MCFreshnessWorker --------------------------
(* Small instances of FreshnessWorker: see the .cfg files. *)
EXTENDS FreshnessWorker

Workers == Permutations(Worker)
=============================================================================
