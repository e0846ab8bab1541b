SPECIFICATION FairSpec
CONSTANTS
  o1 = o1
  o2 = o2
  Owners = {o1, o2}
  NumBatches = 1
  MaxProposals = 2
  MaxFee = 2
  Threshold = 1
  MaxWait = 2
  MaxLost = 1
  ForeignTools = FALSE
  Commands <- OneExecutes
INVARIANT QueueInv
PROPERTY RejectionStopsSigning
PROPERTY RunsEnd
