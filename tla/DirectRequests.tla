--------------------------- MODULE DirectRequests ---------------------------
(***************************************************************************)
(* The direct mode of eth-valctl: TransactionBatchOrchestrator sends the   *)
(* execution-layer requests of one run batch by batch, watches their       *)
(* receipts (TransactionMonitor) and, on every new block, replaces what is *)
(* not mined (TransactionReplacer), through a software wallet that sends   *)
(* in parallel or a Ledger that signs one transaction at a time.           *)
(*                                                                         *)
(* Every await of the program is a step of its own, so blocks and lost     *)
(* replies fall between any two of them.  A request is its position in the *)
(* request list; its pending-transaction info is the record tracked[r] of  *)
(* the one transaction hash the program remembers for it.  Fees are        *)
(* abstracted: whether an included request reverts is the chain's choice.  *)
(***************************************************************************)
EXTENDS ExecutionLayer, SendErrors

CONSTANTS
  NumRequests,      \* validators on the command line
  BatchSize,        \* --max-requests-per-block
  MaxRetries,       \* MAX_TRANSACTION_RETRIES
  ParallelSigning,  \* signer.capabilities.supportsParallelSigning
  LostReplies       \* the node may accept a transaction and the reply be lost

ASSUME DirectAssumption ==
  /\ NumRequests \in Nat \ {0}
  /\ BatchSize \in Nat \ {0}
  /\ MaxRetries \in Nat
  /\ ParallelSigning \in BOOLEAN
  /\ LostReplies \in BOOLEAN

VARIABLES
  pc,            \* where sendExecutionLayerRequests stands
  batch,         \* batchIndex + 1
  job,           \* what the current phase still has to do for each request
  pending,       \* pendingTransactions of the current batch
  tracked,       \* response hash and nonce kept for each request
  nextNonce,     \* NonceManager's next nonce, or LedgerSigner.nonce
  retry,         \* retryCount
  failedBatch,   \* failedValidatorPubkeys of the current batch
  rejectedBatch, \* rejectedValidatorPubkeys of the current batch
  fundsError,    \* hasInsufficientFunds of the current batch
  allFailed,     \* allFailedValidators
  allRejected,   \* allRejectedValidators
  resolved,      \* history: requests the program logged as mined or fulfilled
  attempts,      \* history: submissions made for each request
  fundsLogged,   \* history: "insufficient funds" was logged, in any phase
  unsure         \* history: requests one of whose replies was lost

reportVars == <<allFailed, allRejected>>
batchVars == <<batch, failedBatch, rejectedBatch, fundsError>>
histVars == <<attempts, fundsLogged, unsure>>
vars == <<chain, pool, newHead, pc, batch, job, pending, tracked, nextNonce, retry,
          failedBatch, rejectedBatch, fundsError, allFailed, allRejected,
          resolved, attempts, fundsLogged, unsure>>

Requests == 1..NumRequests

\* Slips: how a small mistake in the code below would read.  They are here to
\* measure the properties; no specification uses them.
FirstFromZero(b) == (b - 1) * BatchSize

\* splitToBatches: batch b holds the positions First(b) .. Last(b).
First(b) == (b - 1) * BatchSize + 1
Last(b) == IF b * BatchSize < NumRequests THEN b * BatchSize ELSE NumRequests
Batch(b) == First(b) .. Last(b)

Phases == {"init", "broadcast", "monitor", "fees", "replace", "finish", "done"}
Jobs == {"idle", "todo", "noReceipt", "resend", "replace", "recheck", "sign"}

Working(kinds) == {r \in Requests : job[r] \in kinds}
AllIdle == \A r \in Requests : job[r] = "idle"
JobFor(S) == [r \in Requests |-> IF r \in S THEN "todo" ELSE "idle"]
Become(r, j) == job' = [job EXCEPT ![r] = j]

Init ==
  /\ ELInit
  /\ pc = "init"
  /\ batch = 1
  /\ job = JobFor({})
  /\ pending = {}
  /\ tracked = [r \in Requests |-> [req |-> r, nonce |-> 0, ver |-> 0]]
  /\ nextNonce = 1
  /\ retry = 0
  /\ failedBatch = {}
  /\ rejectedBatch = {}
  /\ fundsError = FALSE
  /\ allFailed = {}
  /\ allRejected = {}
  /\ resolved = {}
  /\ attempts = [r \in Requests |-> 0]
  /\ fundsLogged = FALSE
  /\ unsure = {}

-----------------------------------------------------------------------------
(* Decisions of the code that several actions share.                       *)

BudgetOffByOne(k) == k <= MaxRetries
OutageIsFree(k) == k
RejectionBurnsNonce(n) == n + 1

\* The retry loop's test, and how it goes on with the transactions in S.
BudgetLeft(k) == k < MaxRetries

RetryLoop(S, k) ==
  /\ retry' = k
  /\ IF S # {} /\ BudgetLeft(k)
     THEN pc' = "monitor" /\ job' = JobFor(S)
     ELSE pc' = "finish" /\ job' = JobFor({})

\* The retry count after a failed block-number or fee query.
AfterOutage(k) == k + 1

\* The nonce counters: the Ledger signer advances only when a send succeeds,
\* NonceManager before it is known whether the send succeeds.
NonceAfterSuccess(n) == n + 1
NonceAfterFailure(n) == IF ParallelSigning THEN n + 1 ELSE n

\* A request that needs no further work: mined, or its nonce was consumed.
Drop(r) ==
  /\ pending' = pending \ {r}
  /\ resolved' = resolved \cup {r}
  /\ Become(r, "idle")

\* What a send of this run's signer can throw.
SignerErrors == IF ParallelSigning THEN NodeErrors ELSE LedgerErrors \cup NodeErrors

\* A send that succeeds: the program keeps the hash and the nonce of the reply.
Delivered(r, n) ==
  /\ ~Consumed(n)
  /\ tracked' = [tracked EXCEPT ![r] = NewTx(r, n)]
  /\ pool' = PoolWith(r, n)

\* A send that throws e: the node may have taken it, its reply lost.
FailedSend(r, n, e) ==
  \/ UNCHANGED <<pool, unsure>>
  \/ /\ LostReplies /\ e = "NETWORK_ERROR"
     /\ pool' = PoolWith(r, n)
     /\ unsure' = unsure \cup {r}

CountAttempt(r) == attempts' = [attempts EXCEPT ![r] = @ + 1]

\* The end of a batch: go on with the next one, or report.
NextBatch ==
  /\ pending' = {}
  /\ failedBatch' = {}
  /\ rejectedBatch' = {}
  /\ retry' = 0
  /\ IF First(batch + 1) <= NumRequests
     THEN batch' = batch + 1 /\ pc' = "init"
     ELSE batch' = batch /\ pc' = "done"

-----------------------------------------------------------------------------
(* processBatch: block number and contract fee, then the broadcast.        *)

\* Either query throws: BlockchainStateError, the whole batch has failed.
StartBatchFails ==
  /\ pc = "init"
  /\ newHead' \in {FALSE, newHead}
  /\ allFailed' = allFailed \cup Batch(batch)
  /\ NextBatch
  /\ UNCHANGED <<chain, pool, job, tracked, nextNonce, fundsError, allRejected,
                 resolved, histVars>>

\* A wallet's NonceManager hands out the nonces of the batch in one go.
StartBatch ==
  /\ pc = "init"
  /\ pc' = "broadcast"
  /\ newHead' = FALSE
  /\ job' = JobFor(Batch(batch))
  /\ IF ParallelSigning
     THEN /\ tracked' = [r \in Requests |-> IF r \in Batch(batch)
                 THEN [req |-> r, nonce |-> nextNonce + (r - First(batch)), ver |-> 0]
                 ELSE tracked[r]]
          /\ nextNonce' = nextNonce + (Last(batch) + 1 - First(batch))
     ELSE UNCHANGED <<tracked, nextNonce>>
  /\ UNCHANGED <<chain, pool, batchVars, pending, retry, reportVars, resolved, histVars>>

\* ParallelBroadcastStrategy: the sends of a batch complete in any order.
ParallelSend(r) ==
  /\ pc = "broadcast" /\ ParallelSigning
  /\ job[r] = "todo"
  /\ Become(r, "idle")
  /\ CountAttempt(r)
  /\ \/ /\ Delivered(r, tracked[r].nonce)
        /\ pending' = pending \cup {r}
        /\ UNCHANGED <<failedBatch, fundsError, fundsLogged, unsure>>
     \/ \E e \in SignerErrors :
          /\ failedBatch' = failedBatch \cup {r}
          /\ FailedSend(r, tracked[r].nonce, e)
          /\ fundsError' = (fundsError \/ IsInsufficientFundsError(e))
          /\ fundsLogged' = (fundsLogged \/ IsInsufficientFundsError(e))
          /\ UNCHANGED <<tracked, pending>>
  /\ UNCHANGED <<chain, newHead, pc, batch, nextNonce, retry, rejectedBatch,
                 reportVars, resolved>>

\* SequentialBroadcastStrategy: one request after the other, in list order.
\* A user rejection skips the request, a generic error fails it, and a fatal
\* device error or missing funds fail everything behind it too.
SequentialSend(r) ==
  /\ pc = "broadcast" /\ ~ParallelSigning
  /\ job[r] = "todo" /\ \A q \in Working({"todo"}) : r <= q
  /\ CountAttempt(r)
  /\ \/ /\ Delivered(r, nextNonce)
        /\ nextNonce' = NonceAfterSuccess(nextNonce)
        /\ pending' = pending \cup {r}
        /\ Become(r, "idle")
        /\ UNCHANGED <<failedBatch, rejectedBatch, fundsError, fundsLogged, unsure>>
     \/ \E e \in SignerErrors :
          /\ nextNonce' = NonceAfterFailure(nextNonce)
          /\ \/ /\ IsUserRejectedError(e)
                /\ rejectedBatch' = rejectedBatch \cup {r}
                /\ Become(r, "idle")
                /\ UNCHANGED <<pool, failedBatch, fundsError, fundsLogged, unsure>>
             \/ /\ ~IsUserRejectedError(e) /\ ~StopsBroadcast(e)
                /\ failedBatch' = failedBatch \cup {r}
                /\ FailedSend(r, nextNonce, e)
                /\ Become(r, "idle")
                /\ UNCHANGED <<rejectedBatch, fundsError, fundsLogged>>
             \/ /\ StopsBroadcast(e)
                /\ failedBatch' = failedBatch \cup Working({"todo"})
                /\ job' = JobFor({})
                /\ fundsError' = (fundsError \/ IsInsufficientFundsError(e))
                /\ fundsLogged' = (fundsLogged \/ IsInsufficientFundsError(e))
                /\ UNCHANGED <<pool, rejectedBatch, unsure>>
          /\ UNCHANGED <<tracked, pending>>
  /\ UNCHANGED <<chain, newHead, pc, batch, retry, reportVars, resolved>>

\* The block number is read again; on an error the older one is kept.
EndBroadcast ==
  /\ pc = "broadcast" /\ AllIdle
  /\ newHead' \in {FALSE, newHead}
  /\ RetryLoop(pending, 0)
  /\ UNCHANGED <<chain, pool, batchVars, pending, tracked, nextNonce, reportVars,
                 resolved, histVars>>

-----------------------------------------------------------------------------
(* retryPendingTransactions: receipts, then the block number.              *)

\* checkTransactionReceipt: mined resolves; a revert, a missing receipt and
\* errors until the timeout all leave the transaction to be retried.
CheckReceipt(r) ==
  /\ pc = "monitor"
  /\ job[r] = "todo"
  /\ \/ MinedOk(tracked[r]) /\ Drop(r)
     \/ Become(r, "idle") /\ UNCHANGED <<pending, resolved>>
  /\ UNCHANGED <<elVars, pc, batchVars, tracked, nextNonce, retry, reportVars, histVars>>

\* checkAndExtractUnresolvedTransactions returned null.
AllResolved ==
  /\ pc = "monitor" /\ AllIdle /\ pending = {}
  /\ pc' = "finish"
  /\ UNCHANGED <<elVars, batchVars, job, pending, tracked, nextNonce, retry,
                 reportVars, resolved, histVars>>

\* No new block: wait and check the receipts again, at no cost of retries.
SameBlock ==
  /\ pc = "monitor" /\ AllIdle /\ pending # {}
  /\ ~newHead
  /\ RetryLoop(pending, retry)
  /\ UNCHANGED <<elVars, batchVars, pending, tracked, nextNonce, reportVars,
                 resolved, histVars>>

BlockNumberUnavailable ==
  /\ pc = "monitor" /\ AllIdle /\ pending # {}
  /\ RetryLoop(pending, AfterOutage(retry))
  /\ UNCHANGED <<elVars, batchVars, pending, tracked, nextNonce, reportVars,
                 resolved, histVars>>

BlockChanged ==
  /\ pc = "monitor" /\ AllIdle /\ pending # {}
  /\ newHead
  /\ newHead' = FALSE
  /\ pc' = "fees"
  /\ UNCHANGED <<chain, pool, batchVars, job, pending, tracked, nextNonce, retry,
                 reportVars, resolved, histVars>>

\* handleBlockChange catches: the contract fee or the network fees are missing.
FeesUnavailable ==
  /\ pc = "fees"
  /\ RetryLoop(pending, AfterOutage(retry))
  /\ UNCHANGED <<elVars, batchVars, pending, tracked, nextNonce, reportVars,
                 resolved, histVars>>

FeesFetched ==
  /\ pc = "fees"
  /\ pc' = "replace"
  /\ job' = JobFor(pending)
  /\ UNCHANGED <<elVars, batchVars, pending, tracked, nextNonce, retry, reportVars,
                 resolved, histVars>>

-----------------------------------------------------------------------------
(* replaceTransactions: status of all, then the reverted, then the rest.   *)

NonceConsumedMeansReverted(r) == Consumed(tracked[r].nonce)
NoReceiptMeansReverted(r) == ~HasReceipt(tracked[r])
Reverted(r) == MinedReverted(tracked[r])

\* getTransactionStatus, first await: the receipt.  An error means pending.
CategorizeByReceipt(r) ==
  /\ pc = "replace"
  /\ job[r] = "todo"
  /\ \/ MinedOk(tracked[r]) /\ Drop(r)
     \/ /\ \/ Reverted(r) /\ Become(r, "resend")
           \/ ~HasReceipt(tracked[r]) /\ Become(r, "noReceipt")
           \/ Become(r, "replace")
        /\ UNCHANGED <<pending, resolved>>
  /\ UNCHANGED <<elVars, pc, batchVars, tracked, nextNonce, retry, reportVars, histVars>>

NoncePassedOffByOne(n) == n <= Len(chain) + 1

\* getTransactionStatus, second await: has the account moved past the nonce?
\* If so the request counts as mined (MINED_BY_COMPETITOR).
NoncePassed(n) == Consumed(n)

CategorizeByNonce(r) ==
  /\ pc = "replace"
  /\ job[r] = "noReceipt"
  /\ \/ NoncePassed(tracked[r].nonce) /\ Drop(r)
     \/ Become(r, "replace") /\ UNCHANGED <<pending, resolved>>
  /\ UNCHANGED <<elVars, pc, batchVars, tracked, nextNonce, retry, reportVars, histVars>>

\* The user declines on the device: a final answer, not retried.
RejectByUser(r) ==
  /\ rejectedBatch' = rejectedBatch \cup {r}
  /\ pending' = pending \ {r}

\* A reverted request is sent anew with a fresh nonce, one after the other.
\* After an error it stays tracked under its reverted transaction.
Resend(r) ==
  /\ pc = "replace"
  /\ job[r] = "resend" /\ Working({"todo", "noReceipt"}) = {}
  /\ Become(r, "idle")
  /\ CountAttempt(r)
  /\ \/ /\ Delivered(r, nextNonce)
        /\ nextNonce' = NonceAfterSuccess(nextNonce)
        /\ UNCHANGED <<pending, rejectedBatch, fundsLogged, unsure>>
     \/ \E e \in SignerErrors :
          /\ nextNonce' = NonceAfterFailure(nextNonce)
          /\ fundsLogged' = (fundsLogged \/ IsInsufficientFundsError(e))
          /\ \/ IsUserRejectedError(e) /\ RejectByUser(r) /\ UNCHANGED <<pool, unsure>>
             \/ /\ ~IsUserRejectedError(e)
                /\ FailedSend(r, nextNonce, e)
                /\ UNCHANGED <<pending, rejectedBatch>>
          /\ UNCHANGED tracked
  /\ UNCHANGED <<chain, newHead, pc, batch, retry, failedBatch, fundsError,
                 reportVars, resolved>>

\* checkIfAlreadyMined, before each Ledger prompt, again in two awaits.  A
\* revert and an error both go on to the prompt.
Recheck(r) ==
  /\ pc = "replace" /\ ~ParallelSigning
  /\ Working({"todo", "noReceipt", "resend"}) = {}
  /\ \/ /\ job[r] = "replace" /\ Working({"recheck", "sign"}) = {}
        /\ \/ MinedOk(tracked[r]) /\ Drop(r)
           \/ /\ \/ ~HasReceipt(tracked[r]) /\ Become(r, "recheck")
                 \/ Become(r, "sign")
              /\ UNCHANGED <<pending, resolved>>
     \/ /\ job[r] = "recheck"
        /\ \/ NoncePassed(tracked[r].nonce) /\ Drop(r)
           \/ Become(r, "sign") /\ UNCHANGED <<pending, resolved>>
  /\ UNCHANGED <<elVars, pc, batchVars, tracked, nextNonce, retry, reportVars, histVars>>

\* A pending request is replaced under its own nonce.  "Nonce expired" counts
\* as mined; underpriced, missing funds and other errors keep the old version.
Replace(r) ==
  /\ pc = "replace"
  /\ job[r] = (IF ParallelSigning THEN "replace" ELSE "sign")
  /\ Working({"todo", "noReceipt", "resend"}) = {}
  /\ CountAttempt(r)
  /\ \/ /\ Delivered(r, tracked[r].nonce)
        /\ Become(r, "idle")
        /\ UNCHANGED <<pending, rejectedBatch, resolved, fundsLogged, unsure>>
     \/ \E e \in SignerErrors :
          /\ \/ /\ IsUserRejectedError(e)
                /\ RejectByUser(r) /\ Become(r, "idle")
                /\ UNCHANGED <<pool, resolved, unsure>>
             \/ /\ IsNonceExpiredError(e) /\ Consumed(tracked[r].nonce)
                /\ Drop(r)
                /\ UNCHANGED <<pool, rejectedBatch, unsure>>
             \/ /\ ~IsUserRejectedError(e) /\ ~IsNonceExpiredError(e)
                /\ FailedSend(r, tracked[r].nonce, e) /\ Become(r, "idle")
                /\ UNCHANGED <<pending, rejectedBatch, resolved>>
          /\ fundsLogged' = (fundsLogged \/ IsInsufficientFundsError(e))
          /\ UNCHANGED tracked
  /\ UNCHANGED <<chain, newHead, pc, batch, nextNonce, retry, failedBatch, fundsError,
                 reportVars>>

\* All replacement results are in; a replacement round costs one retry.
EndReplacement ==
  /\ pc = "replace" /\ AllIdle
  /\ RetryLoop(pending, retry + 1)
  /\ UNCHANGED <<elVars, batchVars, pending, tracked, nextNonce, reportVars,
                 resolved, histVars>>

-----------------------------------------------------------------------------
(* The end of processBatch and of sendExecutionLayerRequests.              *)

OnlyBroadcastFailures == failedBatch
FundsErrorIgnored == FALSE

\* What a finished batch reports as failed: its broadcasts that failed and
\* the transactions that were still pending when the retries ran out.
BatchFailures == failedBatch \cup pending

AbortsRun == fundsError

\* InsufficientFundsAbortError carries the failed requests only; the batches
\* behind are reported as failed without being sent.
AbortBatch ==
  /\ pc = "finish" /\ AbortsRun
  /\ allFailed' = allFailed \cup BatchFailures \cup {r \in Requests : r > Last(batch)}
  /\ pc' = "done"
  /\ pending' = {}
  /\ UNCHANGED <<elVars, batchVars, job, tracked, nextNonce, retry, allRejected,
                 resolved, histVars>>

FinishBatch ==
  /\ pc = "finish" /\ ~AbortsRun
  /\ allFailed' = allFailed \cup BatchFailures
  /\ allRejected' = allRejected \cup rejectedBatch
  /\ NextBatch
  /\ UNCHANGED <<elVars, job, tracked, nextNonce, fundsError, resolved, histVars>>

-----------------------------------------------------------------------------
(* The specification.                                                      *)

BatchStep == StartBatchFails \/ StartBatch \/ EndBroadcast \/ AbortBatch \/ FinishBatch
LoopStep ==
  \/ AllResolved \/ SameBlock \/ BlockNumberUnavailable \/ BlockChanged
  \/ FeesUnavailable \/ FeesFetched \/ EndReplacement
RequestStep(r) ==
  \/ ParallelSend(r) \/ SequentialSend(r) \/ CheckReceipt(r)
  \/ CategorizeByReceipt(r) \/ CategorizeByNonce(r)
  \/ Resend(r) \/ Recheck(r) \/ Replace(r)

Tool == BatchStep \/ LoopStep \/ \E r \in Requests : RequestStep(r)

ChainStep ==
  /\ NewBlock
  /\ UNCHANGED <<pc, batchVars, job, pending, tracked, nextNonce, retry, reportVars,
                 resolved, histVars>>

\* The process has ended; the chain goes on without it.
Ended == pc = "done" /\ UNCHANGED vars

Next == Tool \/ ChainStep \/ Ended

Spec == Init /\ [][Next]_vars

\* Every await of the tool returns or times out, and blocks keep coming; which
\* transactions the blocks include is left open.
FairSpec == Spec /\ WF_vars(Tool) /\ WF_vars(ChainStep)
=============================================================================
