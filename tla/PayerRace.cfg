SPECIFICATION Spec
CONSTANTS
  Intents = {a, b}
  Notes = {x, y}
  Runs = {r1, r2, r3}
  NoTx = NoTx
  NoRun = NoRun
  MaxRetries = 1
  Commands = {"broadcast", "recover"}
SYMMETRY PayerSymmetry
INVARIANT WriteAhead
CHECK_DEADLOCK FALSE
