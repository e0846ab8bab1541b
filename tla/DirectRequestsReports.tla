------------------------ MODULE DirectRequestsReports ------------------------
(***************************************************************************)
(* BookkeepingInv is an invariant of the direct mode, and with it what the *)
(* user is told at the end, the bound on submissions and on fees, and what *)
(* the nonces stand for, for every value of the constants.                 *)
(***************************************************************************)
EXTENDS DirectRequestsSafety

-----------------------------------------------------------------------------
(* The report.                                                             *)

\* A batch starts where the one before it has ended, and the last one ends with
\* the list.
LEMMA BatchesTile ==
  ASSUME NEW b \in Nat \ {0}
  PROVE  IF First(b + 1) <= NumRequests THEN First(b + 1) = Last(b) + 1
         ELSE Last(b) = NumRequests
<1>. DEFINE m == b * BatchSize
<1>1. m \in Nat
  BY DirectAssumption
<1>2. First(b + 1) = m + 1
  BY DirectAssumption DEF First
<1>. HIDE DEF m
<1>3. Last(b) = IF m < NumRequests THEN m ELSE NumRequests
  BY DEF Last, m
<1>. QED
  BY <1>1, <1>2, <1>3, DirectAssumption

\* What is over with the batch is on a list: the next step of the run, a batch
\* or the end, finds nobody missing.
LEMMA BatchIsReported ==
  ASSUME TypeInv, Accounted, NextBatch, NEW q \in Requests,
         allFailed \subseteq allFailed', allRejected \subseteq allRejected', resolved' = resolved,
         q \in failedBatch \cup pending => q \in allFailed',
         q \in rejectedBatch => q \in allRejected',
         NotYetSent(q) => q > Last(batch) \/ q \in allFailed'
  PROVE  \/ NotYetSent(q)' /\ pc' = "init"
         \/ q \in resolved' \cup allFailed' \cup allRejected'
<1>0. batch \in Nat \ {0} /\ q \in Nat /\ q <= NumRequests
  BY DirectAssumption DEF TypeInv, TypeOK, Requests
<1>1. CASE q > Last(batch)
  <2>1. batch' = batch + 1 /\ pc' = "init" /\ First(batch') = Last(batch) + 1
    BY <1>0, <1>1, BatchesTile, BatchBounds, DirectAssumption DEF NextBatch
  <2>. QED
    BY <1>0, <1>1, <2>1, BatchBounds DEF NotYetSent
<1>2. CASE NotYetSent(q) /\ ~(q > Last(batch))
  BY <1>2
<1>3. CASE ~NotYetSent(q)
  BY <1>3 DEF Accounted
<1>. QED
  BY <1>1, <1>2, <1>3

\* The numbers of the current batch.
LEMMA BatchNumbers ==
  ASSUME TypeInv
  PROVE  /\ batch \in Nat \ {0} /\ First(batch) \in Nat /\ Last(batch) \in Nat
         /\ \A q \in Requests : q \in Nat
<1>1. batch \in Nat \ {0}
  BY DEF TypeInv, TypeOK
<1>. QED
  BY <1>1, BatchBounds, DirectAssumption DEF Requests

\* A batch begins with empty lists.
LEMMA ListsStartEmptyStep ==
  ASSUME ListsStartEmpty, [Next]_vars
  PROVE  ListsStartEmpty'
<1>. USE DEF elVars, histVars, batchVars, reportVars
<1>1. CASE StartBatchFails \/ FinishBatch
  BY <1>1 DEF StartBatchFails, FinishBatch, NextBatch, ListsStartEmpty
<1>2. CASE StartBatch \/ EndBroadcast \/ AbortBatch \/ LoopStep
  BY <1>2 DEF ListsStartEmpty, StartBatch, EndBroadcast, AbortBatch, LoopStep, AllResolved,
     SameBlock, RetryLoop, BlockNumberUnavailable, BlockChanged, FeesUnavailable, FeesFetched,
     EndReplacement
<1>3. ASSUME NEW r \in Requests, RequestStep(r) PROVE ListsStartEmpty'
  BY <1>3 DEF ListsStartEmpty, RequestStep, ParallelSend, SequentialSend, CheckReceipt,
     CategorizeByReceipt, CategorizeByNonce, Resend, Recheck, Replace
<1>4. CASE ChainStep \/ UNCHANGED vars
  BY <1>4 DEF ChainStep, vars, ListsStartEmpty
<1>. QED
  BY <1>1, <1>2, <1>3, <1>4 DEF Next, Tool, BatchStep, Ended

\* Every step keeps every request accounted for, and the end leaves out only
\* whom the user rejected before the funds ran out.
LEMMA ReportStep ==
  ASSUME DirectInv, ListsStartEmpty, Accounted, ReportComplete, [Next]_vars
  PROVE  Accounted' /\ ReportComplete'
<1>. USE DEF elVars, histVars, batchVars, reportVars
<1>0. TypeInv /\ BatchInProgress /\ FundsFlag
  BY DEF DirectInv, TypeInv, BatchInProgress
<1>1. CASE StartBatchFails \/ FinishBatch
  <2>1. ASSUME NEW q \in Requests
        PROVE  \/ NotYetSent(q)' /\ pc' = "init"
               \/ q \in resolved' \cup allFailed' \cup allRejected'
    <3>1. CASE StartBatchFails
      <4>1. NotYetSent(q) => q > Last(batch) \/ q \in Batch(batch)
        BY <1>0, <3>1, BatchNumbers DEF StartBatchFails, NotYetSent, Batch
      <4>2. pending = {} /\ failedBatch \cup rejectedBatch \subseteq allFailed'
        BY <3>1 DEF StartBatchFails, DirectInv, PendingWasSent, ListsStartEmpty
      <4>. QED
        BY <1>0, <3>1, <4>1, <4>2, BatchIsReported DEF StartBatchFails
    <3>2. CASE FinishBatch
      <4>1. NotYetSent(q) => q > Last(batch)
        BY <3>2 DEF FinishBatch, NotYetSent
      <4>. QED
        BY <1>0, <3>2, <4>1, BatchIsReported DEF FinishBatch, BatchFailures
    <3>. QED
      BY <1>1, <3>1, <3>2
  <2>. QED
    BY <2>1 DEF Accounted, ReportComplete
<1>2. CASE AbortBatch
  <2>1. ASSUME NEW q \in Requests
        PROVE  q \in resolved' \cup allFailed' \cup allRejected' \cup rejectedBatch'
    BY <1>2 DEF AbortBatch, BatchFailures, NotYetSent, Accounted
  <2>2. fundsError'
    BY <1>2 DEF AbortBatch, AbortsRun
  <2>. QED
    BY <2>1, <2>2 DEF Accounted, ReportComplete
<1>3. CASE StartBatch
  <2>1. pc' = "broadcast" /\ batch' = batch /\ job' = JobFor(Batch(batch)) /\ pc = "init"
    BY <1>3 DEF StartBatch
  <2>2. ASSUME NEW q \in Requests, NotYetSent(q) PROVE NotYetSent(q)'
    BY <1>0, <2>1, <2>2, BatchNumbers DEF NotYetSent, JobFor, Batch
  <2>. QED
    BY <1>3, <2>1, <2>2 DEF StartBatch, Accounted, ReportComplete
<1>4. CASE EndBroadcast \/ LoopStep
  <2>1. /\ batch' = batch /\ pc' # "done"
        /\ UNCHANGED <<resolved, allFailed, allRejected, failedBatch, rejectedBatch, pending>>
    BY <1>4 DEF EndBroadcast, LoopStep, AllResolved, SameBlock, RetryLoop,
       BlockNumberUnavailable, BlockChanged, FeesUnavailable, FeesFetched, EndReplacement
  <2>2. ASSUME NEW q \in Requests, NotYetSent(q) PROVE q > Last(batch)
    BY <1>4, <2>2 DEF NotYetSent, EndBroadcast, LoopStep, AllResolved, SameBlock, AllIdle,
       BlockNumberUnavailable, BlockChanged, FeesUnavailable, FeesFetched, EndReplacement
  <2>. QED
    BY <2>1, <2>2 DEF Accounted, ReportComplete, NotYetSent
<1>5. ASSUME NEW r \in Requests, ParallelSend(r) \/ SequentialSend(r)
      PROVE  Accounted' /\ ReportComplete'
  <2>1. /\ batch' = batch /\ pc = "broadcast" /\ pc' = "broadcast"
        /\ UNCHANGED <<resolved, allFailed, allRejected>>
        /\ failedBatch \subseteq failedBatch' /\ rejectedBatch \subseteq rejectedBatch'
        /\ pending \subseteq pending'
    BY <1>5 DEF ParallelSend, SequentialSend
  <2>2. ASSUME NEW q \in Requests, job[q] = "todo"
        PROVE  job'[q] = "todo" \/ q \in failedBatch' \cup rejectedBatch' \cup pending'
    BY <1>0, <1>5, <2>2 DEF ParallelSend, SequentialSend, Become, Working, TypeInv, TypeOK
  <2>. QED
    BY <2>1, <2>2 DEF Accounted, ReportComplete, NotYetSent
<1>6. ASSUME NEW r \in Requests, QuietOf(r) \/ Resend(r) \/ Replace(r)
      PROVE  Accounted' /\ ReportComplete'
  <2>1. /\ batch' = batch /\ pc' = pc /\ pc \in {"monitor", "replace"}
        /\ UNCHANGED <<allFailed, allRejected, failedBatch>>
        /\ resolved \subseteq resolved' /\ rejectedBatch \subseteq rejectedBatch'
        /\ pending \subseteq pending' \cup resolved' \cup rejectedBatch'
    BY <1>6 DEF QuietOf, CheckReceipt, CategorizeByReceipt, CategorizeByNonce, Recheck,
       Resend, Replace, Drop, RejectByUser
  <2>. QED
    BY <2>1 DEF Accounted, ReportComplete, NotYetSent
<1>7. CASE ChainStep \/ UNCHANGED vars
  BY <1>7 DEF ChainStep, vars, Accounted, ReportComplete, NotYetSent
<1>. QED
  BY <1>1, <1>2, <1>3, <1>4, <1>5, <1>6, <1>7
  DEF Next, Tool, BatchStep, RequestStep, QuietOf, Ended

\* What becomes of a request is decided when its turn is over or its transaction
\* is given up, and not before.
LEMMA UndecidedStep ==
  ASSUME DirectInv, ListsStartEmpty, Undecided, [Next]_vars
  PROVE  Undecided'
<1>. USE DEF elVars, histVars, batchVars, reportVars
<1>0. /\ TypeInv /\ BatchInProgress /\ PendingWasSent
      /\ pending \subseteq Requests
      /\ \A r \in pending : r <= Last(batch)
  BY DEF DirectInv, TypeInv, TypeOK, BatchInProgress
<1>1. CASE StartBatchFails
  <2>1. pending' = {} /\ \A r \in Requests : NotYetSent(r)' /\ pc' # "done" => r \notin Batch(batch)
    BY <1>0, <1>1, BatchNumbers, BatchBounds DEF StartBatchFails, NextBatch, NotYetSent, Batch
  <2>2. \A r \in Requests : NotYetSent(r)' => NotYetSent(r)
    BY <1>0, TurnComesOnce
  <2>. QED
    BY <1>1, <2>1, <2>2 DEF StartBatchFails, NextBatch, Undecided
<1>2. CASE FinishBatch
  <2>1. pending' = {} /\ \A r \in Requests : NotYetSent(r)' => NotYetSent(r)
    BY <1>0, <1>2, TurnComesOnce DEF FinishBatch, NextBatch
  <2>2. \A r \in Requests : NotYetSent(r) => r \notin pending
    BY <1>0, <1>2, BatchNumbers DEF FinishBatch, NotYetSent
  <2>. QED
    BY <1>2, <2>1, <2>2 DEF FinishBatch, NextBatch, BatchFailures, Undecided
<1>3. CASE AbortBatch
  BY <1>3 DEF AbortBatch, Undecided
<1>4. CASE StartBatch \/ EndBroadcast \/ LoopStep \/ ChainStep \/ UNCHANGED vars
  <2>1. UNCHANGED <<resolved, allFailed, allRejected, failedBatch, rejectedBatch, pending>>
    BY <1>4 DEF StartBatch, EndBroadcast, LoopStep, AllResolved, SameBlock, ChainStep, vars,
       BlockNumberUnavailable, BlockChanged, FeesUnavailable, FeesFetched, EndReplacement
  <2>2. \A r \in Requests : NotYetSent(r)' => NotYetSent(r)
    BY <1>0, TurnComesOnce
  <2>3. pc = "done" => pc' = "done"
    BY <1>4 DEF StartBatch, EndBroadcast, LoopStep, AllResolved, SameBlock, ChainStep, vars,
       BlockNumberUnavailable, BlockChanged, FeesUnavailable, FeesFetched, EndReplacement
  <2>. QED
    BY <2>1, <2>2, <2>3 DEF Undecided
<1>5. ASSUME NEW r \in Requests, ParallelSend(r) \/ SequentialSend(r) PROVE Undecided'
  <2>1. /\ pc = "broadcast" /\ pc' = "broadcast" /\ batch' = batch
        /\ UNCHANGED <<resolved, allFailed, allRejected>>
    BY <1>5 DEF ParallelSend, SequentialSend
  <2>2. NotYetSent(r)
    BY <1>5 DEF ParallelSend, SequentialSend, NotYetSent
  <2>3. ASSUME NEW q \in Requests, q \in failedBatch' \cup rejectedBatch'
        PROVE  \/ q \in failedBatch \cup rejectedBatch
               \/ job[q] = "todo" /\ job'[q] = "idle" /\ pending' = pending
    BY <1>0, <1>5, <2>3 DEF ParallelSend, SequentialSend, Become, Working, JobFor, TypeInv, TypeOK
  <2>4. ASSUME NEW q \in Requests, job[q] = "todo", job'[q] = "idle"
        PROVE  ~NotYetSent(q)' /\ q \notin pending
    BY <1>0, <2>1, <2>4, BatchNumbers DEF NotYetSent, BatchInProgress, PendingWasSent
  <2>5. ASSUME NEW q \in Requests, NotYetSent(q)' \/ q \in pending'
        PROVE  NotYetSent(q) \/ q \in pending
    BY <1>0, <1>5, <2>2, <2>5, TurnComesOnce DEF ParallelSend, SequentialSend
  <2>. QED
    BY <2>1, <2>3, <2>4, <2>5 DEF Undecided
<1>6. ASSUME NEW r \in Requests, QuietOf(r) \/ Resend(r) \/ Replace(r) PROVE Undecided'
  <2>1. /\ batch' = batch /\ pc' = pc /\ pc \in {"monitor", "replace"}
        /\ UNCHANGED <<allFailed, allRejected, failedBatch>>
        /\ \/ UNCHANGED <<resolved, rejectedBatch, pending>>
           \/ /\ r \in pending /\ pending' = pending \ {r}
              /\ resolved' \subseteq resolved \cup {r}
              /\ rejectedBatch' \subseteq rejectedBatch \cup {r}
    BY <1>0, <1>6 DEF QuietOf, CheckReceipt, CategorizeByReceipt, CategorizeByNonce, Recheck,
       Resend, Replace, Drop, RejectByUser, PendingWasSent
  <2>2. ~(r > Last(batch)) \/ r \notin pending
    BY <1>0, BatchNumbers
  <2>. QED
    BY <1>0, <2>1, <2>2 DEF Undecided, NotYetSent
<1>. QED
  BY <1>1, <1>2, <1>3, <1>4, <1>5, <1>6
  DEF Next, Tool, BatchStep, RequestStep, QuietOf, Ended

-----------------------------------------------------------------------------
(* The retry budget.                                                       *)

\* A step that submits r adds one to its count; every other count stays.
LEMMA AttemptSteps ==
  ASSUME TypeInv, [Next]_vars
  PROVE  \/ attempts' = attempts
         \/ \E r \in Requests :
              /\ SubmissionStep(r)
              /\ attempts'[r] = attempts[r] + 1
              /\ \A q \in Requests : q # r => attempts'[q] = attempts[q]
<1>1. ASSUME NEW r \in Requests, CountAttempt(r)
      PROVE  /\ attempts'[r] = attempts[r] + 1
             /\ \A q \in Requests : q # r => attempts'[q] = attempts[q]
  BY <1>1 DEF CountAttempt, TypeInv, TypeOK
<1>. QED
  BY <1>1, StepKinds, SubmissionSteps DEF Quiet, Submission, StartBatch, ChainStep, histVars

\* A round of replacements submits each watched request once, and costs a retry.
LEMMA BudgetStep ==
  ASSUME DirectInv, AttemptsPerRound, RetryBudget, [Next]_vars
  PROVE  AttemptsPerRound' /\ RetryBudget'
<1>. USE DEF elVars, histVars, batchVars, reportVars
<1>0. /\ TypeInv /\ PendingWasSent /\ Unsent /\ pending \subseteq Requests
      /\ retry \in Nat /\ MaxRetries \in Nat /\ attempts \in [Requests -> Nat]
      /\ \A r \in Requests : attempts[r] \in Nat
  BY DirectAssumption DEF DirectInv, TypeInv, TypeOK, BatchInProgress
<1>1. CASE StartBatchFails \/ FinishBatch
  BY <1>1 DEF StartBatchFails, FinishBatch, NextBatch, AttemptsPerRound, RetryBudget
<1>2. CASE StartBatch \/ AbortBatch \/ AllResolved \/ BlockChanged \/ FeesFetched
  BY <1>0, <1>2 DEF StartBatch, AbortBatch, AllResolved, BlockChanged, FeesFetched, JobFor,
     PendingWasSent, AttemptsPerRound, RetryBudget
<1>3. CASE EndBroadcast \/ SameBlock \/ BlockNumberUnavailable \/ FeesUnavailable \/ EndReplacement
  <2>1. ASSUME NEW k \in Nat, RetryLoop(pending, k), attempts' = attempts, pending' = pending,
               \A r \in pending : attempts[r] <= k + 1
        PROVE  AttemptsPerRound' /\ RetryBudget'
    BY <2>1 DEF RetryLoop, BudgetLeft, AttemptsPerRound, RetryBudget
  <2>2. CASE EndBroadcast
    BY <1>0, <2>1, <2>2 DEF EndBroadcast, AttemptsPerRound
  <2>3. CASE SameBlock
    BY <1>0, <2>1, <2>3 DEF SameBlock, AttemptsPerRound
  <2>4. CASE BlockNumberUnavailable \/ FeesUnavailable
    <3>1. \A r \in pending : attempts[r] <= (retry + 1) + 1
      BY <1>0, <2>4 DEF BlockNumberUnavailable, FeesUnavailable, AttemptsPerRound
    <3>. QED
      BY <1>0, <2>1, <2>4, <3>1 DEF BlockNumberUnavailable, FeesUnavailable, AfterOutage
  <2>5. CASE EndReplacement
    <3>1. \A r \in pending : attempts[r] <= (retry + 1) + 1
      BY <1>0, <2>5 DEF EndReplacement, AllIdle, AttemptsPerRound
    <3>. QED
      BY <1>0, <2>1, <2>5, <3>1 DEF EndReplacement
  <2>. QED
    BY <1>3, <2>2, <2>3, <2>4, <2>5
<1>4. ASSUME NEW r \in Requests, ParallelSend(r) \/ SequentialSend(r)
      PROVE  AttemptsPerRound' /\ RetryBudget'
  <2>1. pc = "broadcast" /\ pc' = "broadcast" /\ pending' \subseteq pending \cup {r}
    BY <1>4 DEF ParallelSend, SequentialSend
  <2>2. attempts[r] = 0
    BY <1>0, <1>4 DEF ParallelSend, SequentialSend, Unsent, NotYetSent
  <2>3. /\ attempts'[r] = 1 /\ \A q \in Requests : q # r => attempts'[q] = attempts[q]
    BY <1>0, <1>4, <2>2 DEF ParallelSend, SequentialSend, CountAttempt
  <2>. QED
    BY <1>0, <2>1, <2>3 DEF AttemptsPerRound, RetryBudget
<1>5. ASSUME NEW r \in Requests, QuietOf(r)
      PROVE  AttemptsPerRound' /\ RetryBudget'
  <2>1. /\ pc' = pc /\ attempts' = attempts /\ retry' = retry
        /\ pc \in {"monitor", "replace"}
        /\ \/ pending' = pending
           \/ pending' = pending \ {r} /\ job'[r] = "idle"
        /\ \A q \in Requests : q # r => job'[q] = job[q]
        /\ job[r] # "idle"
    BY <1>0, <1>5 DEF QuietOf, CheckReceipt, CategorizeByReceipt, CategorizeByNonce, Recheck,
       Drop, Become, TypeInv, TypeOK
  <2>. QED
    BY <1>0, <2>1 DEF AttemptsPerRound, RetryBudget
<1>6. ASSUME NEW r \in Requests, Resend(r) \/ Replace(r)
      PROVE  AttemptsPerRound' /\ RetryBudget'
  <2>1. /\ pc' = pc /\ retry' = retry /\ pc = "replace"
        /\ pending' \subseteq pending
        /\ \A q \in Requests : q # r => job'[q] = job[q] /\ (q \in pending => q \in pending')
        /\ job[r] # "idle" /\ job'[r] = "idle"
    BY <1>0, <1>6 DEF Resend, Replace, Drop, Become, RejectByUser, TypeInv, TypeOK
  <2>2. /\ attempts'[r] = attempts[r] + 1
        /\ \A q \in Requests : q # r => attempts'[q] = attempts[q]
    BY <1>0, <1>6 DEF Resend, Replace, CountAttempt
  <2>3. attempts[r] <= retry + 1 /\ retry < MaxRetries
    BY <1>0, <2>1 DEF AttemptsPerRound
  <2>. QED
    BY <1>0, <2>1, <2>2, <2>3 DEF AttemptsPerRound, RetryBudget
<1>7. CASE ChainStep \/ UNCHANGED vars
  BY <1>7 DEF ChainStep, vars, AttemptsPerRound, RetryBudget
<1>. QED
  BY <1>1, <1>2, <1>3, <1>4, <1>5, <1>6, <1>7
  DEF Next, Tool, BatchStep, LoopStep, RequestStep, QuietOf, Ended

-----------------------------------------------------------------------------
(* Nonces.                                                                 *)

\* A submission of r under the nonce tracked for it, which the counter is not
\* asked for.
Reuses(r) ==
  LET n == tracked[r].nonce
  IN /\ n # 0 /\ nextNonce' = nextNonce
     /\ (Accepted(r, n) /\ ~Consumed(n)) \/ Refused \/ ReplyLost(r, n)

\* A submission of r under the next nonce: the counter of a wallet advances
\* whatever comes of it, that of a Ledger when the node has accepted.
TakesNew(r) ==
  \/ /\ Accepted(r, nextNonce) /\ ~Consumed(nextNonce)
     /\ nextNonce' = nextNonce + 1
  \/ /\ Refused \/ ReplyLost(r, nextNonce)
     /\ nextNonce' = IF ParallelSigning THEN nextNonce + 1 ELSE nextNonce

\* There are no other submissions.
LEMMA NonceOfSubmission ==
  ASSUME TypeInv, SubmittedHasNonce, PendingWasSent, NEW r \in Requests, SubmissionStep(r)
  PROVE  Reuses(r) \/ TakesNew(r)
<1>1. CASE ParallelSend(r)
  <2>1. tracked[r].nonce # 0
    BY <1>1 DEF ParallelSend, SubmittedHasNonce
  <2>. QED
    BY <1>1, <2>1 DEF ParallelSend, FailedSend, Delivered, Reuses, Accepted, Refused, ReplyLost
<1>2. CASE SequentialSend(r)
  BY <1>2 DEF SequentialSend, FailedSend, Delivered, TakesNew, Accepted, Refused, ReplyLost,
     NonceAfterSuccess, NonceAfterFailure
<1>3. CASE Resend(r)
  BY <1>3 DEF Resend, FailedSend, Delivered, TakesNew, Accepted, Refused, ReplyLost,
     NonceAfterSuccess, NonceAfterFailure
<1>4. CASE Replace(r)
  <2>1. tracked[r].nonce # 0
    BY <1>4 DEF Replace, SubmittedHasNonce, PendingWasSent
  <2>. QED
    BY <1>4, <2>1 DEF Replace, FailedSend, Delivered, Reuses, Accepted, Refused, ReplyLost
<1>. QED
  BY <1>1, <1>2, <1>3, <1>4 DEF SubmissionStep

\* A step that submits nothing leaves the counter alone, but for the start of a
\* batch, where a wallet takes the nonces of all its requests.
LEMMA NonceCounter ==
  ASSUME [Next]_vars
  PROVE  \/ nextNonce' = nextNonce /\ Quiet
         \/ StartBatch
         \/ \E r \in Requests : SubmissionStep(r)
         \/ ChainStep
<1>. USE DEF elVars, histVars, batchVars, reportVars
<1>1. StartBatchFails \/ EndBroadcast \/ AbortBatch \/ FinishBatch \/ LoopStep
        => nextNonce' = nextNonce
  BY DEF StartBatchFails, EndBroadcast, AbortBatch, FinishBatch, LoopStep, AllResolved,
     SameBlock, BlockNumberUnavailable, BlockChanged, FeesUnavailable, FeesFetched,
     EndReplacement
<1>2. \A r \in Requests : QuietOf(r) => nextNonce' = nextNonce
  BY DEF QuietOf, CheckReceipt, CategorizeByReceipt, CategorizeByNonce, Recheck
<1>3. UNCHANGED vars => nextNonce' = nextNonce
  BY DEF vars
<1>. QED
  BY <1>1, <1>2, <1>3, StepKinds
  DEF Next, Tool, BatchStep, RequestStep, SubmissionStep, QuietOf, Ended

\* On a Ledger the nonce advances only when the node has the transaction, and a
\* nonce leaves the mempool only by being mined.
LEMMA NoNonceGapStep ==
  ASSUME TypeInv, NoNonceGap, SubmittedHasNonce, PendingWasSent, [Next]_vars
  PROVE  NoNonceGap'
<1>. SUFFICES ASSUME ~ParallelSigning, NEW n \in Len(chain') + 1 .. nextNonce' - 1
              PROVE  \E t \in pool' : t.nonce = n
  BY DEF NoNonceGap, Versions
<1>0. /\ Len(chain) \in Nat /\ nextNonce \in Nat
      /\ \A m \in Len(chain) + 1 .. nextNonce - 1 : \E t \in pool : t.nonce = m
  BY DEF TypeInv, TypeOK, NoNonceGap, Versions
<1>1. CASE UNCHANGED <<chain, pool, nextNonce>>
  BY <1>0, <1>1
<1>2. ASSUME NEW r \in Requests, SubmissionStep(r) PROVE \E t \in pool' : t.nonce = n
  <2>1. chain' = chain /\ pool \subseteq pool'
    BY <1>2, SubmissionSteps DEF Submission, Accepted, Refused, ReplyLost, PoolWith
  <2>2. CASE nextNonce' = nextNonce
    BY <1>0, <2>1, <2>2
  <2>3. CASE nextNonce' # nextNonce
    <3>1. nextNonce' = nextNonce + 1 /\ Accepted(r, nextNonce) /\ ~Consumed(nextNonce)
      BY <1>0, <1>2, <2>3, NonceOfSubmission DEF Reuses, TakesNew
    <3>2. NewTx(r, nextNonce) \in pool' /\ NewTx(r, nextNonce).nonce = nextNonce
      BY <3>1 DEF Accepted, PoolWith, NewTx
    <3>. QED
      BY <1>0, <2>1, <3>1, <3>2
  <2>. QED
    BY <2>2, <2>3
<1>3. ASSUME NEW t \in pool, NEW ok \in BOOLEAN, Mine(t, ok), nextNonce' = nextNonce
      PROVE  \E u \in pool' : u.nonce = n
  <2>1. Len(chain') = Len(chain) + 1 /\ t.nonce = Len(chain) + 1
    BY <1>3 DEF Mine, TypeInv, TypeOK
  <2>2. PICK u \in pool : u.nonce = n
    BY <1>0, <1>3, <2>1
  <2>. QED
    BY <1>0, <1>3, <2>1, <2>2 DEF Mine
<1>4. StartBatch => UNCHANGED <<chain, pool, nextNonce>>
  BY DEF StartBatch
<1>. QED
  BY <1>1, <1>2, <1>3, <1>4, NonceCounter DEF Quiet, ChainStep, NewBlock, EmptyBlock

\* Only what was accepted, or has a nonce of a wallet's batch, is sent again.
LEMMA SubmittedHasNonceStep ==
  ASSUME DirectInv, SubmittedHasNonce, [Next]_vars
  PROVE  SubmittedHasNonce'
<1>. USE DEF elVars, histVars, batchVars, reportVars
<1>0. /\ TypeInv /\ PendingWasSent /\ pending \subseteq Requests
      /\ tracked \in [Requests -> Transactions] /\ nextNonce \in Nat \ {0}
  BY DEF DirectInv, TypeInv, TypeOK, BatchInProgress
<1>1. CASE StartBatch
  <2>1. pending' = {}
    BY <1>0, <1>1 DEF StartBatch, PendingWasSent
  <2>2. ASSUME ParallelSigning, NEW q \in Batch(batch), q \in Requests
        PROVE  tracked'[q].nonce # 0
    <3>1. tracked'[q].nonce = nextNonce + (q - First(batch))
      BY <1>0, <1>1, <2>2 DEF StartBatch
    <3>2. q - First(batch) \in Nat
      BY <1>0, <2>2, BatchNumbers DEF Batch
    <3>. QED
      BY <1>0, <3>1, <3>2
  <2>3. \A q \in Requests : job'[q] = "todo" => q \in Batch(batch)
    BY <1>1 DEF StartBatch, JobFor
  <2>. QED
    BY <2>1, <2>2, <2>3 DEF SubmittedHasNonce
<1>2. CASE StartBatchFails \/ FinishBatch \/ EndBroadcast \/ AbortBatch \/ LoopStep \/ ChainStep
           \/ UNCHANGED vars
  <2>1. pending' \subseteq pending /\ tracked' = tracked
    BY <1>2 DEF StartBatchFails, FinishBatch, NextBatch, EndBroadcast, AbortBatch, LoopStep,
       ChainStep, vars, AllResolved, SameBlock, BlockNumberUnavailable, BlockChanged,
       FeesUnavailable, FeesFetched, EndReplacement
  <2>2. pc' = "broadcast" => pc = "broadcast" /\ job' = job
    BY <1>2 DEF StartBatchFails, FinishBatch, NextBatch, EndBroadcast, AbortBatch, LoopStep,
       ChainStep, vars, AllResolved, SameBlock, RetryLoop, BlockNumberUnavailable,
       BlockChanged, FeesUnavailable, FeesFetched, EndReplacement
  <2>. QED
    BY <2>1, <2>2 DEF SubmittedHasNonce
<1>3. ASSUME NEW r \in Requests, QuietOf(r) PROVE SubmittedHasNonce'
  BY <1>3 DEF QuietOf, CheckReceipt, CategorizeByReceipt, CategorizeByNonce, Recheck, Drop,
     SubmittedHasNonce
<1>4. ASSUME NEW r \in Requests, SubmissionStep(r) PROVE SubmittedHasNonce'
  <2>1. /\ \A q \in Requests : q # r => tracked'[q] = tracked[q]
        /\ tracked'[r] = tracked[r] \/ tracked'[r].nonce # 0
    BY <1>0, <1>4, NonceOfSubmission
    DEF Reuses, TakesNew, Accepted, Refused, ReplyLost, NewTx
  <2>2. /\ r \in pending' => r \in pending \/ tracked'[r].nonce # 0
        /\ \A q \in Requests : q # r /\ q \in pending' => q \in pending
        /\ pending' \subseteq Requests
        /\ pc' = pc
    <3>1. CASE ParallelSend(r) \/ SequentialSend(r)
      <4>1. tracked[r].nonce # 0 \/ ~ParallelSigning
        BY <3>1 DEF ParallelSend, SequentialSend, SubmittedHasNonce
      <4>. QED
        BY <1>0, <3>1, <4>1 DEF ParallelSend, SequentialSend, Delivered, NewTx
    <3>2. CASE Resend(r) \/ Replace(r)
      BY <1>0, <3>2 DEF Resend, Replace, RejectByUser, Drop
    <3>. QED
      BY <1>4, <3>1, <3>2 DEF SubmissionStep
  <2>3. pc = "broadcast" => \A q \in Requests : job'[q] = "todo" => job[q] = "todo"
    BY <1>0, <1>4 DEF SubmissionStep, ParallelSend, SequentialSend, Resend, Replace, Become,
       JobFor, TypeInv, TypeOK
  <2>. QED
    BY <2>1, <2>2, <2>3 DEF SubmittedHasNonce
<1>. QED
  BY <1>1, <1>2, <1>3, <1>4
  DEF Next, Tool, BatchStep, RequestStep, SubmissionStep, QuietOf, Ended

\* The nonces of all transactions are natural numbers.
LEMMA NonceTypes ==
  ASSUME TypeInv
  PROVE  /\ nextNonce \in Nat \ {0}
         /\ \A r \in Requests : tracked[r].nonce \in Nat
         /\ \A t \in pool : t.nonce \in Nat
         /\ \A n \in DOMAIN chain : n \in Nat
<1>1. \A t \in Transactions : t.nonce \in Nat
  BY DEF Transactions
<1>2. \A n \in DOMAIN chain : n \in Nat
  BY DEF TypeInv, TypeOK
<1>. QED
  BY <1>1, <1>2 DEF TypeInv, TypeOK

\* A wallet hands out each nonce once when it starts a batch.
LEMMA BatchNonces ==
  ASSUME TypeInv, ParallelSigning, StartBatch, NoncesApart
  PROVE  /\ nextNonce' > nextNonce
         /\ \A r \in Requests :
              \/ tracked'[r] = tracked[r]
              \/ tracked'[r].nonce >= nextNonce /\ tracked'[r].nonce < nextNonce'
         /\ \A r, q \in Requests :
              tracked'[r].nonce # 0 /\ tracked'[r].nonce = tracked'[q].nonce => r = q
<1>0. /\ First(batch) \in Nat /\ Last(batch) \in Nat /\ First(batch) <= Last(batch)
      /\ nextNonce \in Nat \ {0} /\ \A r \in Requests : r \in Nat
  BY BatchNumbers, BatchBounds DEF TypeInv, TypeOK
<1>1. nextNonce' = nextNonce + (Last(batch) + 1 - First(batch))
  BY DEF StartBatch
<1>2. ASSUME NEW r \in Requests, r \in Batch(batch)
      PROVE  /\ tracked'[r].nonce = nextNonce + (r - First(batch))
             /\ r >= First(batch) /\ r <= Last(batch)
  BY <1>0, <1>2 DEF StartBatch, Batch
<1>3. ASSUME NEW r \in Requests, r \notin Batch(batch) PROVE tracked'[r] = tracked[r]
  BY <1>3 DEF StartBatch
<1>4. \A r \in Requests : tracked[r].nonce \in Nat /\ tracked[r].nonce < nextNonce
  BY NonceTypes DEF NoncesApart
<1>5. \A r, q \in Requests : tracked[r].nonce # 0 /\ tracked[r].nonce = tracked[q].nonce => r = q
  BY DEF NoncesApart
<1>. QED
  BY <1>0, <1>1, <1>2, <1>3, <1>4, <1>5

\* Every nonce belongs to one request.
LEMMA NoncesApartStep ==
  ASSUME DirectInv, SubmittedHasNonce, NoncesApart, [Next]_vars
  PROVE  NoncesApart'
<1>0. TypeInv /\ PendingWasSent /\ TypeInv'
  BY TypeStep DEF DirectInv, TypeInv, BatchInProgress
<1>. SUFFICES ASSUME ParallelSigning \/ unsure' = {} PROVE NoncesApart'
  BY DEF NoncesApart
<1>1. unsure \subseteq unsure'
  <2>1. Quiet \/ StartBatch \/ ChainStep => unsure' = unsure
    BY DEF Quiet, StartBatch, ChainStep, histVars
  <2>. QED
    BY <1>0, <2>1, StepKinds, SubmissionSteps DEF Submission, Accepted, Refused, ReplyLost
<1>2. ParallelSigning \/ unsure = {}
  BY <1>1
<1>3. CASE UNCHANGED <<chain, pool, tracked, nextNonce, unsure>>
  BY <1>3 DEF NoncesApart
<1>4. CASE StartBatch
  <2>1. CASE ParallelSigning
    <3>1. chain' = chain /\ pool' = pool
      BY <1>4 DEF StartBatch
    <3>2. /\ \A t \in pool : t.nonce < nextNonce /\ \A r \in Requests : tracked[r].nonce = t.nonce => t.req = r
          /\ \A n \in DOMAIN chain : n < nextNonce /\ \A r \in Requests : tracked[r].nonce = n => chain[n].tx.req = r
          /\ \A r \in Requests : tracked[r].nonce < nextNonce
      BY <1>2 DEF NoncesApart
    <3>3. /\ nextNonce' \in Nat
          /\ \A r \in Requests : tracked'[r].nonce \in Nat
      <4>1. \A t \in Transactions : t.nonce \in Nat
        BY DEF Transactions
      <4>. QED
        BY <1>0, <4>1 DEF TypeInv, TypeOK
    <3>. QED
      BY <1>0, <1>4, <2>1, <3>1, <3>2, <3>3, BatchNonces, NonceTypes DEF NoncesApart
  <2>2. CASE ~ParallelSigning
    BY <1>3, <1>4, <2>2 DEF StartBatch, histVars
  <2>. QED
    BY <2>1, <2>2
<1>5. ASSUME NEW r \in Requests, SubmissionStep(r) PROVE NoncesApart'
  <2>0. chain' = chain
    BY <1>0, <1>5, SubmissionSteps DEF Submission
  <2>1. CASE Refused
    <3>1. nextNonce' \in {nextNonce, nextNonce + 1}
      BY <1>0, <1>5, <2>1, NonceOfSubmission DEF Reuses, TakesNew, Accepted, ReplyLost
    <3>2. \A m \in Nat : m < nextNonce => m < nextNonce'
      BY <1>0, <3>1, NonceTypes
    <3>. QED
      BY <1>0, <1>2, <2>0, <2>1, <3>2, NonceTypes DEF Refused, NoncesApart
  <2>2. ASSUME NEW n \in Nat,
               n # 0,
               \/ n = tracked[r].nonce /\ nextNonce' = nextNonce
               \/ n = nextNonce /\ nextNonce' = n + 1,
               pool' = PoolWith(r, n),
               tracked' = tracked \/ tracked' = [tracked EXCEPT ![r] = NewTx(r, n)]
        PROVE  NoncesApart'
    <3>1. \A t \in pool' : t \in pool \/ (t.req = r /\ t.nonce = n)
      BY <2>2, PoolElements
    <3>2. /\ \A q \in Requests : q # r => tracked'[q] = tracked[q]
          /\ tracked'[r].nonce \in {tracked[r].nonce, n}
      BY <1>0, <2>2 DEF NewTx, TypeInv, TypeOK
    <3>3. \A q \in Requests : q # r => tracked[q].nonce # n
      BY <1>0, <1>2, <2>2, NonceTypes DEF NoncesApart
    <3>4. \A m \in Nat : m < nextNonce => m < nextNonce'
      BY <1>0, <2>2, NonceTypes
    <3>5. n < nextNonce'
      BY <1>0, <1>2, <2>2, NonceTypes DEF NoncesApart
    <3>6. /\ \A q \in Requests : tracked'[q].nonce < nextNonce'
          /\ \A p, q \in Requests :
               tracked'[p].nonce # 0 /\ tracked'[p].nonce = tracked'[q].nonce => p = q
      BY <1>0, <1>2, <3>2, <3>3, <3>4, <3>5, NonceTypes DEF NoncesApart
    <3>7. ASSUME NEW t \in pool'
          PROVE  t.nonce < nextNonce' /\ \A q \in Requests : tracked'[q].nonce = t.nonce => t.req = q
      <4>1. CASE t \in pool
        BY <1>0, <1>2, <2>2, <3>2, <3>4, <4>1, NonceTypes DEF NoncesApart
      <4>2. CASE t.req = r /\ t.nonce = n
        BY <3>2, <3>3, <3>5, <4>2
      <4>. QED
        BY <3>1, <4>1, <4>2
    <3>8. ASSUME NEW m \in DOMAIN chain
          PROVE  m < nextNonce' /\ \A q \in Requests : tracked'[q].nonce = m => chain[m].tx.req = q
      BY <1>0, <1>2, <2>2, <3>2, <3>4, NonceTypes DEF NoncesApart
    <3>. QED
      BY <2>0, <3>6, <3>7, <3>8 DEF NoncesApart
  <2>3. tracked[r].nonce \in Nat /\ nextNonce \in Nat \ {0}
    BY <1>0, NonceTypes
  <2>4. ReplyLost(r, tracked[r].nonce) \/ ReplyLost(r, nextNonce) => ParallelSigning
    BY DEF ReplyLost
  <2>5. CASE Reuses(r)
    <3>1. PICK n \in Nat : n = tracked[r].nonce
      BY <2>3
    <3>2. /\ n # 0 /\ nextNonce' = nextNonce
          /\ Accepted(r, n) \/ Refused \/ ReplyLost(r, n)
      BY <2>5, <3>1 DEF Reuses
    <3>3. CASE Accepted(r, n)
      BY <2>2, <3>1, <3>2, <3>3 DEF Accepted
    <3>4. CASE ReplyLost(r, n)
      BY <2>2, <3>1, <3>2, <3>4 DEF ReplyLost
    <3>. QED
      BY <2>1, <3>2, <3>3, <3>4
  <2>6. CASE TakesNew(r)
    BY <2>1, <2>2, <2>3, <2>4, <2>6 DEF TakesNew, Accepted, ReplyLost
  <2>. QED
    BY <1>0, <1>5, <2>5, <2>6, NonceOfSubmission
<1>6. CASE ChainStep
  <2>1. nextNonce' = nextNonce /\ tracked' = tracked /\ unsure' = unsure
    BY <1>6 DEF ChainStep, histVars
  <2>2. CASE EmptyBlock
    BY <1>3, <2>1, <2>2 DEF EmptyBlock
  <2>3. ASSUME NEW t \in pool, NEW ok \in BOOLEAN, Mine(t, ok) PROVE NoncesApart'
    <3>1. /\ DOMAIN chain' = DOMAIN chain \cup {t.nonce}
          /\ \A n \in DOMAIN chain : chain'[n] = chain[n]
          /\ chain'[t.nonce].tx = t
          /\ pool' \subseteq pool
      BY <1>0, <2>3, MineFacts
    <3>2. ASSUME NEW n \in DOMAIN chain'
          PROVE  n < nextNonce' /\ \A r \in Requests : tracked'[r].nonce = n => chain'[n].tx.req = r
      <4>1. CASE n \in DOMAIN chain
        BY <1>2, <2>1, <3>1, <4>1 DEF NoncesApart
      <4>2. CASE n = t.nonce
        BY <1>2, <2>1, <3>1, <4>2 DEF NoncesApart
      <4>. QED
        BY <3>1, <4>1, <4>2
    <3>. QED
      BY <1>2, <2>1, <3>1, <3>2 DEF NoncesApart
  <2>. QED
    BY <1>6, <2>2, <2>3 DEF ChainStep, NewBlock
<1>. QED
  BY <1>3, <1>4, <1>5, <1>6, NonceCounter DEF Quiet

-----------------------------------------------------------------------------
(* The theorems.                                                           *)

\* The bookkeeping is right initially.
LEMMA BookkeepingInit == Init => BookkeepingInv
<1>. SUFFICES ASSUME Init PROVE BookkeepingInv
  OBVIOUS
<1>1. /\ pc = "init" /\ batch = 1 /\ pending = {} /\ failedBatch = {} /\ rejectedBatch = {}
      /\ attempts = [r \in Requests |-> 0] /\ pool = {} /\ chain = <<>> /\ nextNonce = 1
      /\ tracked = [r \in Requests |-> [req |-> r, nonce |-> 0, ver |-> 0]]
  BY DEF Init, ELInit
<1>2. \A r \in Requests : NotYetSent(r)
  <2>1. (1 - 1) * BatchSize = 0
    BY DirectAssumption
  <2>2. First(batch) = 1
    BY <1>1, <2>1 DEF First
  <2>. QED
    BY <1>1, <2>2, DirectAssumption DEF NotYetSent, Requests
<1>3. ListsStartEmpty /\ Accounted /\ ReportComplete /\ Undecided
  <2>1. resolved = {} /\ allFailed = {} /\ allRejected = {}
    BY DEF Init
  <2>. QED
    BY <1>1, <1>2, <2>1 DEF ListsStartEmpty, Accounted, ReportComplete, Undecided
<1>4. AttemptsPerRound /\ RetryBudget
  BY <1>1, DirectAssumption DEF AttemptsPerRound, RetryBudget
<1>5. SubmittedHasNonce /\ NoncesApart /\ NoNonceGap
  BY <1>1 DEF SubmittedHasNonce, NoncesApart, NoNonceGap
<1>. QED
  BY <1>3, <1>4, <1>5 DEF BookkeepingInv

\* Every step of the orchestrator and of the chain keeps the books.
LEMMA BookkeepingStep == DirectInv /\ BookkeepingInv /\ [Next]_vars => BookkeepingInv'
<1>. SUFFICES ASSUME DirectInv, BookkeepingInv, [Next]_vars PROVE BookkeepingInv'
  OBVIOUS
<1>0. TypeInv /\ PendingWasSent
  BY DEF DirectInv, TypeInv, BatchInProgress
<1>. QED
  BY <1>0, ListsStartEmptyStep, ReportStep, UndecidedStep, BudgetStep, SubmittedHasNonceStep, NoncesApartStep,
     NoNonceGapStep DEF BookkeepingInv

\* The accounting of requests, submissions and nonces is right in every reachable
\* state.
THEOREM BookkeepingInvariant == Spec => []BookkeepingInv
  BY DirectInvariant, BookkeepingInit, BookkeepingStep, PTL DEF Spec

\* At the end every request was counted as done or is on a list the user gets,
\* but for rejections in the batch that ran out of funds.
THEOREM ReportIsComplete == Spec => []ReportComplete
<1>1. BookkeepingInv => ReportComplete
  BY DEF BookkeepingInv
<1>. QED
  BY <1>1, BookkeepingInvariant, PTL

\* No request is submitted more often than the retry limit allows, whatever
\* reverts, outages and replacements a run goes through.
THEOREM BudgetIsKept == Spec => []RetryBudget
<1>1. BookkeepingInv => RetryBudget
  BY DEF BookkeepingInv
<1>. QED
  BY <1>1, BookkeepingInvariant, PTL

\* On a Ledger every nonce that was given out waits in the mempool or is consumed.
THEOREM NoncesWithoutGap == Spec => []NoNonceGap
<1>1. BookkeepingInv => NoNonceGap
  BY DEF BookkeepingInv
<1>. QED
  BY <1>1, BookkeepingInvariant, PTL

\* A request counted as done owes it to a transaction of its own.
THEOREM ResolvedByOwnNonce == Spec => []OwnNonce
<1>1. DirectInv /\ BookkeepingInv => OwnNonce
  BY DEF DirectInv, TypeOK, BookkeepingInv, ResolvedIsDone, Consumed, NoncesApart, OwnNonce
<1>. QED
  BY <1>1, DirectInvariant, BookkeepingInvariant, PTL
=============================================================================
