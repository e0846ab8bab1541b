SPECIFICATION Spec
CONSTANTS
  o1 = o1
  o2 = o2
  Owners = {o1, o2}
  NumBatches = 2
  MaxProposals = 2
  MaxFee = 2
  Threshold = 1
  MaxWait = 1
  MaxLost = 0
  ForeignTools = FALSE
  Commands <- BothPropose
INVARIANT RemainingArePrinted
