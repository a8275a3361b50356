------------------------------- MODULE MCStore --------------------------------
(* Small instances of Store for TLC.  Runs and keys are interchangeable, and *)
(* what a run that has ended had in its memory or left in its partial backup *)
(* is never read again: states that differ in no more than that are one.     *)
EXTENDS Store, TLC

StoreSymmetry == Permutations(Procs) \cup Permutations(Keys)

OwnState(p) == <<staging[p], option[p], memory[p]>>

StoreView ==
  <<file, aside, backup, lock, pc, step, [p \in Active |-> OwnState(p)],
    deaths, torn, overlapped, stray, hadLedger>>
===============================================================================
