SPECIFICATION MerchantSpec
CONSTANTS
  MaxEvents = 3
  MaxAttempts = 2
  BatchLimit = 25
  BaseRetryMs = 500
  MaxRetryMs = 2000
  MaxPause = 1
  MaxCrashes = 0
  MaxReplays = 0
INVARIANTS
  FulfilledOnce
  DeliveredIsRecorded
  RevertedGoToReviewInOrder
