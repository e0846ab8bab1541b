\* Three requests in batches of two and one on a Ledger whose replies may be lost.
CONSTANTS
  NumRequests = 3
  BatchSize = 2
  MaxRetries = 1
  ParallelSigning = FALSE
  LostReplies = TRUE
SPECIFICATION FairSpec
INVARIANT TypeOK
INVARIANT DirectInv
INVARIANT BookkeepingInv
INVARIANT ReportComplete
INVARIANT NoNonceGap
PROPERTY NewNonceOnlyAfterRevert
PROPERTY FundsAbort
PROPERTY Terminates
