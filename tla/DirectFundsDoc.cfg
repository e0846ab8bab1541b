\* The README says missing funds abort all remaining batches.
CONSTANTS
  NumRequests = 2
  BatchSize = 1
  MaxRetries = 1
  ParallelSigning = TRUE
  LostReplies = FALSE
SPECIFICATION Spec
PROPERTY FundsErrorAborts
