SPECIFICATION FairSpec
CONSTANTS
  MaxEvents = 2
  MaxAttempts = 3
  BatchLimit = 1
  BaseRetryMs = 900
  MaxRetryMs = 2000
  MaxPause = 1
  MaxCrashes = 1
  MaxReplays = 1
INVARIANTS
  DeliveredWasAccepted
  FirstAttemptsInOrder
  RetriesAreMetered
PROPERTIES
  DeliveredIsFinal
  EveryEventIsSettled
