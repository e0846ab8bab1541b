CONSTANTS
  c1 = c1
  c2 = c2
  h0 = h0
  h1 = h1
  MaxExcess = 48
  MaxOffer = 18
  MaxFeeWait = 10
  MaxRequests = 3
  MaxBacklog = 13
  MaxOthers = 2
  MaxRetries = 2
  Delays = {1, 3}
  SentFees <- SomeSentFees
  NetworkFees <- SomeNetworkFees
  Callers <- TwoCallers
  Limits = {1, 5, 6}
  AuthenticatedLimit = 6
  MaxStamps = 8
  Clients <- TwoCallers
  Hashes <- TwoHashes
  NonceOf <- NonceByHash
  MaxNonce = 2
  MaxFailAfter = 1
SPECIFICATION PartsSpec
INVARIANT WaitInv
INVARIANT SearchIsExact
INVARIANT EstimateIsExact
INVARIANT QuietWaitSucceeds
INVARIANT SlotInv
INVARIANT QuickFeeSuffices
INVARIANT RefusedOnlyIfTiny
INVARIANT CallsInv
INVARIANT StoreInv
INVARIANT ConfirmationsKept
INVARIANT ClosedIsPast
PROPERTY NoSelfExhaustion
\* The check of a transaction ends, and so does a request.
CHECK_DEADLOCK FALSE
