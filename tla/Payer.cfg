SPECIFICATION Spec
CONSTANTS
  Intents = {a, b}
  Notes = {x, y}
  Runs = {r1, r2, r3}
  NoTx = NoTx
  NoRun = NoRun
  MaxRetries = 1
  Commands = {"self", "broadcast", "retry", "recover"}
SYMMETRY PayerSymmetry
INVARIANTS
  TypeOK
  WriteAheadUnlessOverwritten
  PaidAtMostOnce
  BroadcasterReservationsHold
  JournalTellsTheTruth
PROPERTIES
  TerminalIsFinal
CHECK_DEADLOCK FALSE
