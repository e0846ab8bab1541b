\* The tests say rejected validators are collected.
CONSTANTS
  NumRequests = 2
  BatchSize = 2
  MaxRetries = 1
  ParallelSigning = FALSE
  LostReplies = FALSE
SPECIFICATION Spec
INVARIANT RejectedAreListed
