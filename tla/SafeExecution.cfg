SPECIFICATION Spec
CONSTANTS
  o1 = o1
  o2 = o2
  Owners = {o1, o2}
  NumBatches = 1
  MaxProposals = 2
  MaxFee = 2
  Threshold = 2
  MaxWait = 1
  MaxLost = 0
  ForeignTools = TRUE
  Commands <- BothExecute
INVARIANT ReportedExecuted
PROPERTY RejectionWins
PROPERTY BatchDeliverySpec
