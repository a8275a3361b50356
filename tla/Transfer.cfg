SPECIFICATION Spec
CONSTANTS
  A = A
  B = B
  C = C
  Broadcasters <- MCBroadcasters
  QuoteSpace <- MCQuotes
  ChangedRequests <- MCChanged
  MinValidity = 1
  Providers = {p1, p2, p3}
  Faulty = {p3}
  Amount = 2
  ExpiresAt = 1
  Commands = {"prepare-self-signed", "pay-self-signed", "prepare-broadcaster", "pay-broadcaster", "retry-broadcaster"}
  Prices = {1, 2}
  Gas = {1}
  FeeLimit = 3
  GasCostLimit = 3
  Balances = {3, 6}
  MaxTime = 1
  MaxBoard = 2
  MaxNonce = 1
INVARIANTS
  SubmissionMatchesProof
  CostIsBounded
  ChangedRequestIsNotPaid
  RecordTellsTheTruth
  ReadinessAgrees
PROPERTIES
  EachBroadcasterOnce
  CommandEnds
CHECK_DEADLOCK FALSE
