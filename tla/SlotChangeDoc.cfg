\* The README says no transaction is broadcast right at a slot change.
CONSTANTS
  MaxBacklog = 3
  MaxOthers = 1
  MaxRetries = 1
  Delays = {1, 3}
  SentFees <- SomeSentFees
  NetworkFees <- SomeNetworkFees
SPECIFICATION SlotSpec
PROPERTY NeverAtSlotChange
\* A request ends.
CHECK_DEADLOCK FALSE
