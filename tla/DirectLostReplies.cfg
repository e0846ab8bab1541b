\* A wallet whose sends may be accepted although their reply is lost.
CONSTANTS
  NumRequests = 2
  BatchSize = 2
  MaxRetries = 2
  ParallelSigning = TRUE
  LostReplies = TRUE
SPECIFICATION FairSpec
INVARIANT AtMostOnce
INVARIANT ResolvedIsFinal
INVARIANT OwnNonce
INVARIANT RetryBudget
PROPERTY DeliverySpec
