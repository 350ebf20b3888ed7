------------------------------- MODULE MCDLock -------------------------------
(* DLock on small instances. *)
EXTENDS DLock, TLC
MCSymmetry == Permutations(Process)
=============================================================================
