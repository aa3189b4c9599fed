----------------------------- MODULE MCCribLock -----------------------------
(* Small instances of CribLock: see the .cfg files for the environments. *)
EXTENDS CribLock
=============================================================================
