SPECIFICATION Spec
CONSTANTS
  honest1 = honest1
  honest2 = honest2
  liar = liar
  Providers = {honest1, honest2, liar}
  Liars = {liar}
  None = None
  MaxBlockLag = 1
  MaxHeight = 3
  PaidAt = 2
  Confirmations = 2
  MaxRequests = 1
  MaxStaleness = 2
  StallAfter = 1
INVARIANTS
  InUseIsOpen
  FinalityIsReal
PROPERTIES
  HangIsNoticed
  RunsUntilStopped
