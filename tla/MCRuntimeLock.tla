--------------------------- MODULE MCRuntimeLock ----------------------------
(* Small instances of RuntimeLock for TLC: the runs are interchangeable. *)
EXTENDS RuntimeLock, TLC

ProcSymmetry == Permutations(Procs)
=============================================================================
