SPECIFICATION Spec
CONSTANTS
  Procs = {p1, p2, p3, p4}
  NoFile = NoFile
  MaxCrashes = 3
SYMMETRY ProcSymmetry
INVARIANTS
  ExclusiveUnlessStolen
PROPERTIES
  BackupSparesTheRunning
CHECK_DEADLOCK FALSE
