SPECIFICATION Spec
CONSTANTS
  b1 = b1
  b1blank = b1blank
  b2 = b2
  Calls = {c1, c2, c3, c4}
  Keys = {k1, k2}
  Bodies = {b1, b1blank, b2}
  Fingerprint <- MCFingerprint
  ExpiresAt <- MCExpiresAt
  MaxTime = 2
  MaxCrashes = 1
SYMMETRY CallSymmetry
INVARIANTS
  OneIntentPerKey
  RetryIsReplay
CHECK_DEADLOCK FALSE
