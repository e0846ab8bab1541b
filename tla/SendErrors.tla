----------------------------- MODULE SendErrors -----------------------------
(***************************************************************************)
(* What a send can throw, and how the tool tells the errors apart: the     *)
(* errors of the Ledger device, which classifyLedgerError sorts by class   *)
(* and status code, and those of the node, which carry an ethers.js code.  *)
(***************************************************************************)

\* classifyLedgerError: the type of each error of the device library.
LedgerErrorType ==
  [ConnectionTimeout |-> "CONNECTION_TIMEOUT",
   LockedDeviceError |-> "LOCKED_DEVICE",
   DisconnectedDeviceDuringOperation |-> "DISCONNECTED_DURING_OPERATION",
   DisconnectedDevice |-> "DISCONNECTED",
   UserRefusedOnDevice |-> "USER_REJECTED",
   EthAppPleaseEnableContractData |-> "BLIND_SIGNING_REQUIRED",
   Status6985 |-> "USER_REJECTED",
   Status6d02 |-> "ETH_APP_NOT_OPEN",
   OtherStatus |-> "UNKNOWN"]

LedgerErrors == DOMAIN LedgerErrorType

\* NETWORK_ERROR stands for all others, timeouts and lost replies included.
NodeErrors == {"INSUFFICIENT_FUNDS", "NONCE_EXPIRED", "REPLACEMENT_UNDERPRICED",
               "NETWORK_ERROR"}

FatalErrorTypes == {"BLIND_SIGNING_REQUIRED", "DISCONNECTED",
                    "DISCONNECTED_DURING_OPERATION", "CONNECTION_TIMEOUT"}

IsLedgerError(e) == e \in LedgerErrors
IsFatalLedgerError(e) == IsLedgerError(e) /\ LedgerErrorType[e] \in FatalErrorTypes
IsUserRejectedError(e) == IsLedgerError(e) /\ LedgerErrorType[e] = "USER_REJECTED"
IsInsufficientFundsError(e) == e = "INSUFFICIENT_FUNDS"
IsNonceExpiredError(e) == e = "NONCE_EXPIRED"

\* What makes SequentialBroadcastStrategy give up on the rest of the batch.
StopsBroadcast(e) == IsFatalLedgerError(e) \/ IsInsufficientFundsError(e)
=============================================================================
