\* The log says a consumed nonce means a fulfilled request.
CONSTANTS
  NumRequests = 1
  BatchSize = 1
  MaxRetries = 1
  ParallelSigning = TRUE
  LostReplies = FALSE
SPECIFICATION Spec
INVARIANT ConsumedMeansFulfilled
