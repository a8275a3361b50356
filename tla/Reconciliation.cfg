SPECIFICATION Spec
CONSTANTS
  i1 = i1
  n1 = n1
  n2 = n2
  n3 = n3
  NoIntent = NoIntent
  NoTime = NoTime
  Intents = {i1}
  Notes = {n1, n2, n3}
  Amount <- MCAmount
  Reference <- MCReference
  Position <- MCPosition
  Expected <- MCExpected
  ExpiresAt <- MCExpiresAt
  Blocks = {1, 2}
  BlockTime <- MCBlockTime
  MaxTime = 1
  MaxRevision = 4
  RecheckWindow = 0
  SeenBuckets = {"Spendable", "SpentUnproven"}
  SeenReceipts = {"missing", "final"}
INVARIANTS
  ProjectionMatchesLedger
  EventsTellWhatIsPaid
  ExpiryIsTold
  PaidMeansEnoughInTime
  CheckoutKnowsThePayments
PROPERTIES
  SpendingKeepsEligibility
  IsAPaymentFeed
CHECK_DEADLOCK FALSE
