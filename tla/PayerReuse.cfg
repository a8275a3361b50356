SPECIFICATION Spec
CONSTANTS
  Intents = {a, b}
  Notes = {x, y}
  Runs = {r1, r2, r3}
  NoTx = NoTx
  NoRun = NoRun
  MaxRetries = 1
  Commands = {"self", "broadcast"}
SYMMETRY PayerSymmetry
INVARIANT NoCrossIntentReuse
CHECK_DEADLOCK FALSE
