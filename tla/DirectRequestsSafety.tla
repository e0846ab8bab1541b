------------------------ MODULE DirectRequestsSafety ------------------------
(***************************************************************************)
(* Proofs about the direct mode, for every number of requests, every batch *)
(* size and retry limit, both kinds of signer, with and without lost       *)
(* replies: types, the invariant DirectInv, and with it the safety         *)
(* properties that matter most.  The proof of DirectInv sorts the steps by *)
(* what they do to transactions: most are quiet, a few submit one          *)
(* transaction, one hands out nonces, and the chain mines.                 *)
(***************************************************************************)
EXTENDS DirectRequestsInvariant, FiniteSetTheorems, TLAPS

-----------------------------------------------------------------------------
(* Batches.                                                                *)

\* splitToBatches cuts the list into consecutive, non-overlapping pieces.
LEMMA BatchBounds ==
  ASSUME NEW b \in Nat \ {0}
  PROVE  /\ First(b) \in Nat \ {0}
         /\ Last(b) \in Nat
         /\ Last(b) <= NumRequests
         /\ First(b) <= NumRequests => First(b) <= Last(b)
         /\ Last(b) < First(b + 1)
         /\ Last(b) <= Last(b + 1)
<1>. DEFINE m == (b - 1) * BatchSize
<1>1. m \in Nat
  BY DirectAssumption
<1>2. b * BatchSize = m + BatchSize /\ (b + 1) * BatchSize = m + BatchSize + BatchSize
  BY DirectAssumption
<1>. HIDE DEF m
<1>3. First(b) = m + 1
  BY DEF First, m
<1>4. First(b + 1) = m + BatchSize + 1
  BY <1>2, DirectAssumption DEF First
<1>. QED
  BY <1>1, <1>2, <1>3, <1>4, DirectAssumption DEF Last

\* A batch consists of requests of the list.
LEMMA BatchInRequests ==
  ASSUME NEW b \in Nat \ {0}
  PROVE  Batch(b) \subseteq Requests
  BY BatchBounds, DirectAssumption DEF Batch, Requests

-----------------------------------------------------------------------------
(* Transactions.                                                           *)

\* The version number of a new transaction counts a finite set.
LEMMA NewTxType ==
  ASSUME IsFiniteSet(pool), NEW r \in Requests, NEW n \in Nat
  PROVE  NewTx(r, n) \in Transactions
<1>1. IsFiniteSet(Versions(n))
  BY FS_Subset DEF Versions
<1>2. Cardinality(Versions(n)) \in Nat
  BY <1>1, FS_CardinalityType
<1>. QED
  BY <1>2 DEF NewTx, Transactions

\* Delivering a transaction keeps the mempool a finite set of transactions.
LEMMA PoolWithType ==
  ASSUME pool \subseteq Transactions, IsFiniteSet(pool),
         NEW r \in Requests, NEW n \in Nat
  PROVE  PoolWith(r, n) \subseteq Transactions /\ IsFiniteSet(PoolWith(r, n))
<1>1. NewTx(r, n) \in Transactions
  BY NewTxType
<1>2. IsFiniteSet(pool \cup {NewTx(r, n)})
  BY FS_AddElement
<1>. QED
  BY <1>1, <1>2 DEF PoolWith
-----------------------------------------------------------------------------
(* Type correctness.                                                       *)

TypeInv == TypeOK /\ First(batch) <= NumRequests

\* The types hold initially.
THEOREM TypeInit == Init => TypeInv
<1>. SUFFICES ASSUME Init PROVE TypeInv
  OBVIOUS
<1>1. First(batch) <= NumRequests
  <2>1. batch = 1
    BY DEF Init
  <2>2. (batch - 1) * BatchSize = 0
    BY <2>1, DirectAssumption
  <2>. QED
    BY <2>2, DirectAssumption DEF First
<1>2. chain \in Seq([tx : Transactions, ok : BOOLEAN])
  <2>1. chain = <<>>
    BY DEF Init, ELInit
  <2>. QED
    BY <2>1
<1>3. pool \subseteq Transactions /\ IsFiniteSet(pool) /\ newHead \in BOOLEAN
  BY FS_EmptySet DEF Init, ELInit
<1>4. job \in [Requests -> Jobs] /\ pc \in Phases
  BY DEF Init, JobFor, Jobs, Phases
<1>5. tracked \in [Requests -> Transactions]
  <2>1. \A r \in Requests : [req |-> r, nonce |-> 0, ver |-> 0] \in Transactions
    BY DEF Transactions
  <2>2. tracked = [r \in Requests |-> [req |-> r, nonce |-> 0, ver |-> 0]]
    BY DEF Init
  <2>. QED
    BY <2>1, <2>2
<1>6. attempts \in [Requests -> Nat]
  BY DEF Init
<1>7. batch \in Nat \ {0} /\ nextNonce \in Nat \ {0} /\ retry \in Nat
  BY DEF Init
<1>8. /\ pending = {} /\ failedBatch = {} /\ rejectedBatch = {}
      /\ allFailed = {} /\ allRejected = {} /\ resolved = {} /\ unsure = {}
      /\ fundsError = FALSE /\ fundsLogged = FALSE
  BY DEF Init
<1>. QED
  BY <1>1, <1>2, <1>3, <1>4, <1>5, <1>6, <1>7, <1>8 DEF TypeInv, TypeOK

\* The helpers that several actions share keep the types of what they change.
LEMMA BecomeType ==
  ASSUME TypeOK, NEW r \in Requests, NEW j \in Jobs, Become(r, j)
  PROVE  job' \in [Requests -> Jobs]
  BY DEF TypeOK, Become

\* Counting an attempt keeps the counters natural numbers.
LEMMA CountAttemptType ==
  ASSUME TypeOK, NEW r \in Requests, CountAttempt(r)
  PROVE  attempts' \in [Requests -> Nat]
  BY DEF TypeOK, CountAttempt

\* A new round gives every request a job.
LEMMA JobForType ==
  ASSUME NEW S
  PROVE  JobFor(S) \in [Requests -> Jobs]
  BY DEF JobFor, Jobs

\* The retry loop keeps its counter, phase and jobs.
LEMMA RetryLoopType ==
  ASSUME NEW S, NEW k \in Nat, RetryLoop(S, k)
  PROVE  retry' \in Nat /\ pc' \in Phases /\ job' \in [Requests -> Jobs]
  BY JobForType DEF RetryLoop, Phases

\* A failed send leaves a well-typed mempool, lost reply or not.
LEMMA FailedSendType ==
  ASSUME TypeOK, NEW r \in Requests, NEW n \in Nat, NEW e, FailedSend(r, n, e)
  PROVE  /\ pool' \subseteq Transactions /\ IsFiniteSet(pool')
         /\ unsure' \subseteq Requests
  BY PoolWithType DEF TypeOK, FailedSend

\* Resolving a request keeps the types of the three sets it moves between.
LEMMA DropType ==
  ASSUME TypeOK, NEW r \in Requests, Drop(r)
  PROVE  /\ pending' \subseteq Requests /\ resolved' \subseteq Requests
         /\ job' \in [Requests -> Jobs]
  BY BecomeType DEF TypeOK, Drop, Jobs

\* A delivery keeps the types of the tracked records and of the mempool.
LEMMA DeliveredType ==
  ASSUME TypeOK, NEW r \in Requests, NEW n \in Nat, Delivered(r, n)
  PROVE  /\ tracked' \in [Requests -> Transactions]
         /\ pool' \subseteq Transactions /\ IsFiniteSet(pool')
  BY NewTxType, PoolWithType DEF TypeOK, Delivered

\* A note of missing funds is a Boolean.
LEMMA FundsNoteType ==
  ASSUME NEW b \in BOOLEAN, NEW e
  PROVE  (b \/ IsInsufficientFundsError(e)) \in BOOLEAN
  BY DEF IsInsufficientFundsError

\* Going on with the next batch keeps the types of the batch variables.
LEMMA NextBatchType ==
  ASSUME TypeInv, NextBatch
  PROVE  /\ batch' \in Nat \ {0} /\ First(batch') <= NumRequests
         /\ pc' \in Phases /\ retry' \in Nat
         /\ pending' \subseteq Requests
         /\ failedBatch' \subseteq Requests /\ rejectedBatch' \subseteq Requests
  BY DEF TypeInv, TypeOK, NextBatch, Phases

\* Every step keeps the types, one case per action.
THEOREM TypeStep == TypeInv /\ [Next]_vars => TypeInv'
<1>. SUFFICES ASSUME TypeInv, [Next]_vars PROVE TypeInv'
  OBVIOUS
<1>. USE DEF elVars, histVars, batchVars, reportVars
<1>1. CASE StartBatchFails
  BY <1>1, NextBatchType, BatchInRequests DEF StartBatchFails, TypeInv, TypeOK
<1>2. CASE StartBatch
  <2>1. job' \in [Requests -> Jobs] /\ pc' \in Phases
    BY <1>2, JobForType DEF StartBatch, Phases
  <2>2. CASE ParallelSigning
    <3>0. /\ First(batch) \in Nat /\ Last(batch) \in Nat /\ First(batch) <= Last(batch)
          /\ nextNonce \in Nat \ {0} /\ Batch(batch) \subseteq Requests
      BY BatchBounds, BatchInRequests DEF TypeInv, TypeOK
    <3>1. nextNonce' \in Nat \ {0}
      <4>1. nextNonce' = nextNonce + (Last(batch) + 1 - First(batch))
        BY <1>2, <2>2 DEF StartBatch
      <4>. QED
        BY <3>0, <4>1
    <3>2. \A r \in Batch(batch) :
            [req |-> r, nonce |-> nextNonce + (r - First(batch)), ver |-> 0] \in Transactions
      <4>. TAKE r \in Batch(batch)
      <4>1. r \in Requests /\ nextNonce + (r - First(batch)) \in Nat
        BY <3>0 DEF Batch
      <4>. QED
        BY <4>1 DEF Transactions
    <3>3. tracked' \in [Requests -> Transactions]
      BY <1>2, <2>2, <3>2 DEF StartBatch, TypeInv, TypeOK
    <3>. QED
      BY <1>2, <2>1, <3>1, <3>3 DEF StartBatch, TypeInv, TypeOK
  <2>3. CASE ~ParallelSigning
    BY <1>2, <2>1, <2>3 DEF StartBatch, TypeInv, TypeOK
  <2>. QED
    BY <2>2, <2>3
<1>3. ASSUME NEW r \in Requests, ParallelSend(r) PROVE TypeInv'
  <2>1. job' \in [Requests -> Jobs] /\ attempts' \in [Requests -> Nat]
    BY <1>3, BecomeType, CountAttemptType DEF ParallelSend, TypeInv, Jobs
  <2>2. tracked[r].nonce \in Nat
    BY DEF TypeInv, TypeOK, Transactions
  <2>3. tracked' \in [Requests -> Transactions]
    BY <1>3, <2>2, DeliveredType DEF ParallelSend, TypeInv, TypeOK
  <2>4. pool' \subseteq Transactions /\ IsFiniteSet(pool') /\ unsure' \subseteq Requests
    BY <1>3, <2>2, DeliveredType, FailedSendType DEF ParallelSend, TypeInv, TypeOK
  <2>. QED
    BY <1>3, <2>1, <2>3, <2>4, FundsNoteType DEF ParallelSend, TypeInv, TypeOK
<1>4. ASSUME NEW r \in Requests, SequentialSend(r) PROVE TypeInv'
  <2>1. attempts' \in [Requests -> Nat]
    BY <1>4, CountAttemptType DEF SequentialSend, TypeInv
  <2>2. job' \in [Requests -> Jobs]
    BY <1>4, BecomeType, JobForType DEF SequentialSend, TypeInv, Jobs
  <2>3. tracked' \in [Requests -> Transactions]
    BY <1>4, DeliveredType DEF SequentialSend, TypeInv, TypeOK
  <2>4. pool' \subseteq Transactions /\ IsFiniteSet(pool') /\ unsure' \subseteq Requests
    BY <1>4, DeliveredType, FailedSendType DEF SequentialSend, TypeInv, TypeOK
  <2>5. nextNonce' \in Nat \ {0}
    <3>1. nextNonce \in Nat \ {0}
      BY DEF TypeInv, TypeOK
    <3>2. nextNonce' \in {NonceAfterSuccess(nextNonce), NonceAfterFailure(nextNonce)}
      BY <1>4 DEF SequentialSend
    <3>. QED
      BY <3>1, <3>2 DEF NonceAfterSuccess, NonceAfterFailure
  <2>6. failedBatch' \subseteq Requests /\ rejectedBatch' \subseteq Requests
    BY <1>4 DEF SequentialSend, Working, TypeInv, TypeOK
  <2>7. fundsError' \in BOOLEAN /\ fundsLogged' \in BOOLEAN
    BY <1>4, FundsNoteType DEF SequentialSend, TypeInv, TypeOK
  <2>8. pending' \subseteq Requests
    BY <1>4 DEF SequentialSend, TypeInv, TypeOK
  <2>. QED
    BY <1>4, <2>1, <2>2, <2>3, <2>4, <2>5, <2>6, <2>7, <2>8 DEF SequentialSend, TypeInv, TypeOK
<1>5. CASE EndBroadcast
  BY <1>5, RetryLoopType DEF EndBroadcast, TypeInv, TypeOK
<1>6. ASSUME NEW r \in Requests, CheckReceipt(r) PROVE TypeInv'
  BY <1>6, DropType, BecomeType DEF CheckReceipt, Jobs, TypeInv, TypeOK
<1>7. CASE AllResolved \/ BlockChanged
  BY <1>7 DEF AllResolved, BlockChanged, Phases, TypeInv, TypeOK
<1>8. CASE SameBlock \/ BlockNumberUnavailable \/ FeesUnavailable \/ EndReplacement
  <2>1. retry' \in Nat /\ pc' \in Phases /\ job' \in [Requests -> Jobs]
    BY <1>8, RetryLoopType
    DEF SameBlock, BlockNumberUnavailable, FeesUnavailable, EndReplacement,
        AfterOutage, TypeInv, TypeOK
  <2>. QED
    BY <1>8, <2>1
    DEF SameBlock, BlockNumberUnavailable, FeesUnavailable, EndReplacement, TypeInv, TypeOK
<1>9. CASE FeesFetched
  BY <1>9, JobForType DEF FeesFetched, Phases, TypeInv, TypeOK
<1>10. ASSUME NEW r \in Requests, CategorizeByReceipt(r) PROVE TypeInv'
  BY <1>10, DropType, BecomeType DEF CategorizeByReceipt, Jobs, TypeInv, TypeOK
<1>11. ASSUME NEW r \in Requests, CategorizeByNonce(r) PROVE TypeInv'
  BY <1>11, DropType, BecomeType DEF CategorizeByNonce, Jobs, TypeInv, TypeOK
<1>12. ASSUME NEW r \in Requests, Resend(r) PROVE TypeInv'
  <2>1. job' \in [Requests -> Jobs] /\ attempts' \in [Requests -> Nat]
    BY <1>12, BecomeType, CountAttemptType DEF Resend, TypeInv, Jobs
  <2>2. tracked' \in [Requests -> Transactions]
    BY <1>12, DeliveredType DEF Resend, TypeInv, TypeOK
  <2>3. pool' \subseteq Transactions /\ IsFiniteSet(pool') /\ unsure' \subseteq Requests
    BY <1>12, DeliveredType, FailedSendType DEF Resend, TypeInv, TypeOK
  <2>4. nextNonce' \in Nat \ {0}
    <3>1. nextNonce \in Nat \ {0}
      BY DEF TypeInv, TypeOK
    <3>2. nextNonce' \in {NonceAfterSuccess(nextNonce), NonceAfterFailure(nextNonce)}
      BY <1>12 DEF Resend
    <3>. QED
      BY <3>1, <3>2 DEF NonceAfterSuccess, NonceAfterFailure
  <2>5. pending' \subseteq Requests /\ rejectedBatch' \subseteq Requests /\ fundsLogged' \in BOOLEAN
    BY <1>12, FundsNoteType DEF Resend, RejectByUser, TypeInv, TypeOK
  <2>. QED
    BY <1>12, <2>1, <2>2, <2>3, <2>4, <2>5 DEF Resend, TypeInv, TypeOK
<1>13. ASSUME NEW r \in Requests, Recheck(r) PROVE TypeInv'
  BY <1>13, DropType, BecomeType DEF Recheck, Jobs, TypeInv, TypeOK
<1>14. ASSUME NEW r \in Requests, Replace(r) PROVE TypeInv'
  <2>1. attempts' \in [Requests -> Nat]
    BY <1>14, CountAttemptType DEF Replace, TypeInv
  <2>2. tracked[r].nonce \in Nat
    BY DEF TypeInv, TypeOK, Transactions
  <2>3. job' \in [Requests -> Jobs] /\ resolved' \subseteq Requests
    BY <1>14, DropType, BecomeType DEF Replace, Jobs, TypeInv, TypeOK
  <2>4. tracked' \in [Requests -> Transactions]
    BY <1>14, <2>2, DeliveredType DEF Replace, TypeInv, TypeOK
  <2>5. pool' \subseteq Transactions /\ IsFiniteSet(pool') /\ unsure' \subseteq Requests
    BY <1>14, <2>2, DeliveredType, FailedSendType DEF Replace, TypeInv, TypeOK
  <2>6. pending' \subseteq Requests /\ rejectedBatch' \subseteq Requests /\ fundsLogged' \in BOOLEAN
    BY <1>14 DEF Replace, Drop, RejectByUser, TypeInv, TypeOK
  <2>. QED
    BY <1>14, <2>1, <2>3, <2>4, <2>5, <2>6 DEF Replace, TypeInv, TypeOK
<1>15. CASE AbortBatch
  BY <1>15 DEF AbortBatch, BatchFailures, Phases, TypeInv, TypeOK
<1>16. CASE FinishBatch
  BY <1>16, NextBatchType DEF FinishBatch, BatchFailures, TypeInv, TypeOK
<1>17. CASE ChainStep
  <2>1. CASE EmptyBlock
    BY <1>17, <2>1 DEF ChainStep, EmptyBlock, TypeInv, TypeOK
  <2>2. ASSUME NEW t \in pool, NEW ok \in BOOLEAN, Mine(t, ok) PROVE TypeInv'
    <3>1. chain' \in Seq([tx : Transactions, ok : BOOLEAN])
      BY <2>2 DEF Mine, TypeInv, TypeOK
    <3>2. IsFiniteSet(pool') /\ pool' \subseteq Transactions
      BY <2>2, FS_Subset DEF Mine, TypeInv, TypeOK
    <3>. QED
      BY <1>17, <2>2, <3>1, <3>2 DEF ChainStep, Mine, TypeInv, TypeOK
  <2>. QED
    BY <1>17, <2>1, <2>2 DEF ChainStep, NewBlock
<1>18. CASE UNCHANGED vars
  BY <1>18 DEF vars, TypeInv, TypeOK
<1>. QED
  BY <1>1, <1>2, <1>3, <1>4, <1>5, <1>6, <1>7, <1>8, <1>9, <1>10, <1>11, <1>12,
     <1>13, <1>14, <1>15, <1>16, <1>17, <1>18
  DEF Next, Tool, BatchStep, LoopStep, RequestStep, Ended

\* Every variable of the direct mode keeps its type, for every value of the
\* constants: in particular no request outside the list is ever reported, and
\* the version counter and the nonces stay natural numbers.
THEOREM TypeCorrect == Spec => []TypeOK
<1>1. TypeInv => TypeOK
  BY DEF TypeInv
<1>. QED
  BY <1>1, TypeInit, TypeStep, PTL DEF Spec


-----------------------------------------------------------------------------
(* What the steps do to transactions.                                      *)

\* Steps that submit nothing and leave every transaction alone.
Quiet == UNCHANGED <<chain, pool, tracked, attempts, unsure>>

\* The three outcomes of handing r to the network: accepted at nonce n,
\* refused, and accepted at nonce n with the reply lost.
Accepted(r, n) ==
  /\ tracked' = [tracked EXCEPT ![r] = NewTx(r, n)]
  /\ pool' = PoolWith(r, n)
  /\ unsure' = unsure
Refused == UNCHANGED <<tracked, pool, unsure>>
ReplyLost(r, n) ==
  /\ tracked' = tracked
  /\ pool' = PoolWith(r, n)
  /\ unsure' = unsure \cup {r}

\* A step that submits r: under the nonce it has, or under a new one if it was
\* never sent or has been seen reverted.
Submission(r) ==
  /\ chain' = chain
  /\ CountAttempt(r)
  /\ \/ \E n \in Nat :
          /\ Accepted(r, n)
          /\ n = tracked[r].nonce \/ NotYetSent(r) \/ job[r] = "resend"
     \/ Refused
     \/ \E n \in Nat : ReplyLost(r, n)

SubmissionStep(r) == ParallelSend(r) \/ SequentialSend(r) \/ Resend(r) \/ Replace(r)

\* The submission counters only grow.
LEMMA CountAttemptGrows ==
  ASSUME TypeInv, NEW r \in Requests, CountAttempt(r)
  PROVE  \A q \in Requests :
           /\ attempts[q] \in Nat /\ attempts'[q] \in Nat
           /\ attempts'[q] >= attempts[q]
           /\ attempts'[r] > 0
           /\ q # r => attempts'[q] = attempts[q]
<1>1. attempts \in [Requests -> Nat] /\ attempts' = [attempts EXCEPT ![r] = attempts[r] + 1]
  BY DEF TypeInv, TypeOK, CountAttempt
<1>. QED
  BY <1>1

\* Every step that submits r is a submission in this sense.
LEMMA SubmissionSteps ==
  ASSUME TypeInv, NEW r \in Requests, SubmissionStep(r)
  PROVE  Submission(r)
<1>1. tracked[r].nonce \in Nat /\ nextNonce \in Nat
  BY DEF TypeInv, TypeOK, Transactions
<1>2. CASE ParallelSend(r)
  BY <1>1, <1>2 DEF ParallelSend, FailedSend, Delivered, Submission, Accepted, Refused, ReplyLost
<1>3. CASE SequentialSend(r)
  BY <1>1, <1>3
  DEF SequentialSend, FailedSend, Delivered, Submission, Accepted, Refused, ReplyLost, NotYetSent
<1>4. CASE Resend(r)
  BY <1>1, <1>4 DEF Resend, FailedSend, Delivered, Submission, Accepted, Refused, ReplyLost
<1>5. CASE Replace(r)
  BY <1>1, <1>5 DEF Replace, FailedSend, Delivered, Submission, Accepted, Refused, ReplyLost
<1>. QED
  BY <1>2, <1>3, <1>4, <1>5 DEF SubmissionStep

\* The steps of the program that submit nothing, sorted by request.
QuietOf(r) == CheckReceipt(r) \/ CategorizeByReceipt(r) \/ CategorizeByNonce(r) \/ Recheck(r)

\* Every step is quiet, starts a batch, submits one request, or is the chain's.
LEMMA StepKinds ==
  ASSUME [Next]_vars
  PROVE  \/ Quiet
         \/ StartBatch
         \/ \E r \in Requests : SubmissionStep(r)
         \/ ChainStep
<1>. USE DEF elVars, histVars, batchVars, reportVars
<1>1. StartBatchFails \/ EndBroadcast \/ AbortBatch \/ FinishBatch \/ LoopStep => Quiet
  BY DEF Quiet, StartBatchFails, EndBroadcast, AbortBatch, FinishBatch, LoopStep,
     AllResolved, SameBlock, BlockNumberUnavailable, BlockChanged, FeesUnavailable,
     FeesFetched, EndReplacement
<1>2. \A r \in Requests : QuietOf(r) => Quiet
  BY DEF Quiet, QuietOf, CheckReceipt, CategorizeByReceipt, CategorizeByNonce, Recheck
<1>3. UNCHANGED vars => Quiet
  BY DEF Quiet, vars
<1>. QED
  BY <1>1, <1>2, <1>3
  DEF Next, Tool, BatchStep, RequestStep, SubmissionStep, QuietOf, Ended

\* Every transaction belongs to a request of the list.
LEMMA TransactionTypes ==
  ASSUME TypeInv
  PROVE  /\ \A t \in pool : t.req \in Requests
         /\ \A n \in DOMAIN chain : chain[n].tx.req \in Requests
<1>1. \A t \in Transactions : t.req \in Requests
  BY DEF Transactions
<1>. DEFINE Block == [tx : Transactions, ok : BOOLEAN]
<1>2. chain \in Seq(Block) /\ pool \subseteq Transactions
  BY DEF TypeInv, TypeOK
<1>3. \A b \in Block : b.tx \in Transactions
  OBVIOUS
<1>. HIDE DEF Block
<1>4. \A n \in DOMAIN chain : chain[n] \in Block
  BY <1>2
<1>. QED
  BY <1>1, <1>2, <1>3, <1>4

\* What the mempool holds after a delivery.
LEMMA PoolElements ==
  ASSUME NEW r, NEW n, NEW t \in PoolWith(r, n)
  PROVE  t \in pool \/ (t = NewTx(r, n) /\ t.req = r /\ t.nonce = n /\ ~Consumed(n))
  BY DEF PoolWith, NewTx

\* Mining appends one transaction to the chain and takes its rivals out of the pool.
LEMMA MineFacts ==
  ASSUME TypeInv, NEW t \in pool, NEW ok \in BOOLEAN, Mine(t, ok)
  PROVE  /\ ~Consumed(t.nonce)
         /\ DOMAIN chain' = DOMAIN chain \cup {t.nonce}
         /\ \A n \in DOMAIN chain : chain'[n] = chain[n]
         /\ chain'[t.nonce].tx = t
         /\ \A u \in pool' : u \in pool /\ u.nonce # t.nonce
<1>1. chain \in Seq([tx : Transactions, ok : BOOLEAN]) /\ t \in Transactions
  BY DEF TypeInv, TypeOK
<1>2. /\ t.nonce = Len(chain) + 1
      /\ chain' = Append(chain, [tx |-> t, ok |-> ok])
      /\ pool' = {u \in pool : u.nonce # t.nonce}
  BY DEF Mine
<1>. QED
  BY <1>1, <1>2 DEF Consumed

\* A transaction that was seen reverted stays reverted.
LEMMA RevertIsFinal ==
  ASSUME TypeInv, [Next]_vars, NEW t, MinedReverted(t)
  PROVE  MinedReverted(t)'
<1>1. chain' = chain => MinedReverted(t)'
  BY DEF MinedReverted, Consumed
<1>2. ASSUME NEW u \in pool, NEW ok \in BOOLEAN, Mine(u, ok) PROVE MinedReverted(t)'
  BY <1>2, MineFacts DEF MinedReverted, Consumed
<1>3. ChainStep => MinedReverted(t)'
  BY <1>1, <1>2 DEF ChainStep, NewBlock, EmptyBlock
<1>4. ASSUME NEW r \in Requests, SubmissionStep(r) PROVE chain' = chain
  BY <1>4, SubmissionSteps DEF Submission
<1>. QED
  BY <1>1, <1>3, <1>4, StepKinds DEF Quiet, StartBatch

\* A consumed nonce stays consumed.
LEMMA ConsumedIsFinal ==
  ASSUME TypeInv, [Next]_vars, NEW n, Consumed(n)
  PROVE  Consumed(n)'
<1>1. chain' = chain => Consumed(n)'
  BY DEF Consumed
<1>2. ASSUME NEW u \in pool, NEW ok \in BOOLEAN, Mine(u, ok) PROVE Consumed(n)'
  BY <1>2, MineFacts DEF Consumed
<1>3. ChainStep => Consumed(n)'
  BY <1>1, <1>2 DEF ChainStep, NewBlock, EmptyBlock
<1>4. ASSUME NEW r \in Requests, SubmissionStep(r) PROVE chain' = chain
  BY <1>4, SubmissionSteps DEF Submission
<1>. QED
  BY <1>1, <1>3, <1>4, StepKinds DEF Quiet, StartBatch

-----------------------------------------------------------------------------
(* Control: batches, jobs and the pending set.                             *)

\* The batch index moves only when a batch is over, and then to a fresh start.
LEMMA BatchMoves ==
  ASSUME [Next]_vars
  PROVE  \/ batch' = batch
         \/ /\ batch' = batch + 1 /\ pc' = "init" /\ First(batch + 1) <= NumRequests
            /\ pending' = {} /\ job' = job
<1>. USE DEF elVars, histVars, batchVars, reportVars
<1>1. StartBatch \/ EndBroadcast \/ AbortBatch \/ LoopStep \/ ChainStep => batch' = batch
  BY DEF StartBatch, EndBroadcast, AbortBatch, LoopStep, ChainStep, AllResolved, SameBlock,
     BlockNumberUnavailable, BlockChanged, FeesUnavailable, FeesFetched, EndReplacement
<1>2. \A r \in Requests : RequestStep(r) => batch' = batch
  BY DEF RequestStep, ParallelSend, SequentialSend, CheckReceipt, CategorizeByReceipt,
     CategorizeByNonce, Resend, Recheck, Replace
<1>3. ASSUME StartBatchFails \/ FinishBatch
      PROVE  \/ batch' = batch
             \/ /\ batch' = batch + 1 /\ pc' = "init" /\ First(batch + 1) <= NumRequests
                /\ pending' = {} /\ job' = job
  BY <1>3 DEF StartBatchFails, FinishBatch, NextBatch
<1>4. UNCHANGED vars => batch' = batch
  BY DEF vars
<1>. QED
  BY <1>1, <1>2, <1>3, <1>4 DEF Next, Tool, BatchStep, Ended

\* Within a batch, no request becomes "todo" in the broadcast after its start,
\* and a submission is the end of it.
LEMMA BroadcastShrinks ==
  ASSUME TypeInv, [Next]_vars, batch' = batch, NEW q \in Requests
  PROVE  /\ pc' = "init" => pc = "init" /\ job' = job
         /\ pc' = "broadcast" /\ job'[q] = "todo"
              => StartBatch \/ (pc = "broadcast" /\ job[q] = "todo")
<1>. USE DEF elVars, histVars, batchVars, reportVars
<1>1. ChainStep \/ UNCHANGED vars => pc' = pc /\ job' = job
  BY DEF ChainStep, vars
<1>2. StartBatch => pc' # "init"
  BY DEF StartBatch
<1>3. StartBatchFails \/ FinishBatch => pc' \notin {"init", "broadcast"}
  <2>1. batch + 1 # batch
    BY DEF TypeInv, TypeOK
  <2>2. NextBatch => pc' = "done"
    BY <2>1 DEF NextBatch
  <2>. QED
    BY <2>2 DEF StartBatchFails, FinishBatch
<1>4. EndBroadcast \/ AbortBatch \/ LoopStep => pc' \notin {"init", "broadcast"}
  BY DEF EndBroadcast, AbortBatch, LoopStep, AllResolved, SameBlock, RetryLoop,
     BlockNumberUnavailable, BlockChanged, FeesUnavailable, FeesFetched, EndReplacement
<1>5. ASSUME NEW r \in Requests, QuietOf(r) \/ Resend(r) \/ Replace(r)
      PROVE  pc' \notin {"init", "broadcast"}
  BY <1>5 DEF QuietOf, CheckReceipt, CategorizeByReceipt, CategorizeByNonce, Recheck,
     Resend, Replace
<1>6. ASSUME NEW r \in Requests, ParallelSend(r) \/ SequentialSend(r)
      PROVE  pc = "broadcast" /\ pc' = "broadcast" /\ (job'[q] = "todo" => job[q] = "todo")
  BY <1>6 DEF ParallelSend, SequentialSend, Become, JobFor, TypeInv, TypeOK
<1>. QED
  BY <1>1, <1>2, <1>3, <1>4, <1>5, <1>6 DEF Next, Tool, BatchStep, RequestStep, QuietOf, Ended

\* A submission happens in its own batch, and is the end of the request's turn.
LEMMA SubmissionEndsTurn ==
  ASSUME TypeInv, BatchInProgress, NEW q \in Requests, SubmissionStep(q)
  PROVE  q <= Last(batch) /\ ~NotYetSent(q)'
<1>. USE DEF elVars, histVars, batchVars, reportVars
<1>1. q <= Last(batch) /\ batch' = batch
  BY DEF SubmissionStep, ParallelSend, SequentialSend, Resend, Replace, BatchInProgress
<1>2. pc' \in {"broadcast", "replace"} /\ (pc' = "broadcast" => job'[q] # "todo")
  BY DEF SubmissionStep, ParallelSend, SequentialSend, Resend, Replace, Become, JobFor,
     TypeInv, TypeOK
<1>3. Last(batch) \in Nat /\ q \in Nat
  BY BatchBounds, DirectAssumption DEF TypeInv, TypeOK, Requests
<1>. QED
  BY <1>1, <1>2, <1>3 DEF NotYetSent

\* The turn of a request comes once: what was submitted or passed over never
\* counts as unsent again.
LEMMA TurnComesOnce ==
  ASSUME TypeInv, BatchInProgress, [Next]_vars, NEW q \in Requests, NotYetSent(q)'
  PROVE  NotYetSent(q)
<1>1. /\ First(batch) \in Nat /\ Last(batch) \in Nat
      /\ Last(batch) < First(batch + 1) /\ Last(batch) <= Last(batch + 1)
      /\ First(batch + 1) \in Nat /\ Last(batch + 1) \in Nat /\ q \in Nat
  BY BatchBounds, DirectAssumption DEF TypeInv, TypeOK, Requests
<1>2. CASE batch' = batch
  <2>1. StartBatch /\ job'[q] = "todo" => q \in Batch(batch)
    BY DEF StartBatch, JobFor
  <2>2. StartBatch => pc = "init"
    BY DEF StartBatch
  <2>. QED
    BY <1>1, <1>2, <2>1, <2>2, BroadcastShrinks DEF NotYetSent, Batch
<1>3. CASE batch' = batch + 1 /\ pc' = "init"
  BY <1>1, <1>3 DEF NotYetSent
<1>. QED
  BY <1>2, <1>3, BatchMoves

\* Only requests of the current batch are pending or worked on.
LEMMA BatchInProgressStep ==
  ASSUME DirectInv, [Next]_vars
  PROVE  BatchInProgress'
<1>. USE DEF elVars, histVars, batchVars, reportVars
<1>0. TypeInv /\ batch \in Nat \ {0} /\ BatchInProgress
  BY DEF DirectInv, TypeInv, TypeOK, BatchInProgress
<1>1. First(batch') <= NumRequests
  BY <1>0, TypeStep DEF TypeInv
<1>2. /\ Last(batch) \in Nat /\ Last(batch + 1) \in Nat /\ Last(batch) <= Last(batch + 1)
  BY <1>0, BatchBounds
<1>3. CASE batch' = batch + 1 /\ pending' = {} /\ job' = job
  BY <1>0, <1>1, <1>2, <1>3, DirectAssumption DEF BatchInProgress, Requests
<1>4. ASSUME batch' = batch, NEW q \in Requests
      PROVE  q \in pending' \/ job'[q] # "idle" => q <= Last(batch)
  <2>1. ASSUME NEW S \in SUBSET Requests, NEW k, RetryLoop(S, k), job'[q] # "idle"
        PROVE  q \in S
    BY <2>1 DEF RetryLoop, JobFor
  <2>2. CASE EndBroadcast \/ SameBlock \/ BlockNumberUnavailable \/ FeesUnavailable \/ EndReplacement
    BY <1>0, <2>1, <2>2 DEF EndBroadcast, SameBlock, BlockNumberUnavailable, FeesUnavailable,
       EndReplacement, BatchInProgress, TypeInv, TypeOK
  <2>3. CASE AllResolved \/ BlockChanged \/ ChainStep \/ UNCHANGED vars
    BY <1>0, <2>3 DEF AllResolved, BlockChanged, ChainStep, vars, BatchInProgress
  <2>4. CASE FeesFetched
    BY <1>0, <2>4 DEF FeesFetched, JobFor, BatchInProgress
  <2>5. CASE StartBatch
    BY <1>0, <1>2, <2>5, BatchBounds DEF StartBatch, JobFor, Batch, BatchInProgress
  <2>6. CASE StartBatchFails \/ FinishBatch \/ AbortBatch
    BY <1>0, <2>6 DEF StartBatchFails, FinishBatch, AbortBatch, NextBatch, BatchInProgress
  <2>7. ASSUME NEW r \in Requests, RequestStep(r)
        PROVE  /\ pending' \subseteq pending \cup {r}
               /\ job'[q] # "idle" => job[q] # "idle"
               /\ job[r] # "idle"
    BY <1>0, <2>7 DEF RequestStep, ParallelSend, SequentialSend, CheckReceipt,
       CategorizeByReceipt, CategorizeByNonce, Resend, Recheck, Replace, Become, Drop,
       JobFor, RejectByUser, TypeInv, TypeOK
  <2>. QED
    BY <1>0, <2>2, <2>3, <2>4, <2>5, <2>6, <2>7
    DEF Next, Tool, BatchStep, LoopStep, Ended, BatchInProgress
<1>. QED
  BY <1>1, <1>3, <1>4, BatchMoves DEF BatchInProgress

\* What is watched or replaced stays pending and sent.
LEMMA PendingWasSentStep ==
  ASSUME DirectInv, [Next]_vars
  PROVE  PendingWasSent'
<1>. USE DEF elVars, histVars, batchVars, reportVars
<1>0. TypeInv /\ PendingWasSent
  BY DEF DirectInv, TypeInv, BatchInProgress
<1>1. CASE StartBatchFails \/ FinishBatch
  BY <1>0, <1>1 DEF StartBatchFails, FinishBatch, NextBatch, PendingWasSent
<1>2. CASE StartBatch
  BY <1>0, <1>2 DEF StartBatch, JobFor, PendingWasSent
<1>3. CASE EndBroadcast \/ SameBlock \/ BlockNumberUnavailable \/ FeesUnavailable \/ EndReplacement
  <2>1. ASSUME NEW S, NEW k, RetryLoop(S, k)
        PROVE  /\ pc' \in {"monitor", "finish"}
               /\ \A r \in Requests : job'[r] # "idle" => r \in S
    BY <2>1 DEF RetryLoop, JobFor
  <2>. QED
    BY <1>0, <1>3, <2>1 DEF EndBroadcast, SameBlock, BlockNumberUnavailable, FeesUnavailable,
       EndReplacement, PendingWasSent
<1>4. CASE AllResolved \/ BlockChanged \/ FeesFetched \/ AbortBatch \/ ChainStep \/ UNCHANGED vars
  BY <1>0, <1>4 DEF AllResolved, BlockChanged, FeesFetched, JobFor, AbortBatch, ChainStep, vars,
     PendingWasSent
<1>5. ASSUME NEW r \in Requests, ParallelSend(r) \/ SequentialSend(r) PROVE PendingWasSent'
  <2>1. /\ pc = "broadcast" /\ pc' = "broadcast"
        /\ pending' \in {pending, pending \cup {r}}
        /\ job'[r] = "idle" /\ \A q \in Requests : job'[q] \in {"idle", job[q]}
    BY <1>0, <1>5 DEF ParallelSend, SequentialSend, Become, JobFor, TypeInv, TypeOK
  <2>2. \A q \in Requests : attempts'[q] >= attempts[q] /\ attempts'[r] > 0
    BY <1>0, <1>5, CountAttemptGrows DEF ParallelSend, SequentialSend
  <2>3. pending \subseteq Requests /\ attempts \in [Requests -> Nat] /\ attempts' \in [Requests -> Nat]
    BY <1>0, <1>5, CountAttemptType DEF ParallelSend, SequentialSend, TypeInv, TypeOK
  <2>. QED
    BY <1>0, <2>1, <2>2, <2>3 DEF PendingWasSent
<1>6. ASSUME NEW r \in Requests, QuietOf(r) \/ Resend(r) \/ Replace(r) PROVE PendingWasSent'
  <2>1. /\ pc \in {"monitor", "replace"} /\ pc' = pc
        /\ \A q \in Requests : job'[q] # "idle" => job[q] # "idle"
        /\ pending' = pending \/ (pending' = pending \ {r} /\ job'[r] = "idle")
    BY <1>0, <1>6 DEF QuietOf, CheckReceipt, CategorizeByReceipt, CategorizeByNonce, Recheck,
       Resend, Replace, Drop, RejectByUser, Become, TypeInv, TypeOK
  <2>2. \A q \in Requests : attempts[q] > 0 => attempts'[q] > 0
    <3>1. QuietOf(r) => attempts' = attempts
      BY DEF QuietOf, CheckReceipt, CategorizeByReceipt, CategorizeByNonce, Recheck
    <3>2. Resend(r) \/ Replace(r) => CountAttempt(r)
      BY DEF Resend, Replace
    <3>3. CountAttempt(r) => \A q \in Requests : attempts[q] > 0 => attempts'[q] > 0
      BY <1>0, CountAttemptGrows
    <3>. QED
      BY <1>6, <3>1, <3>2, <3>3
  <2>3. pending \subseteq Requests
    BY <1>0 DEF TypeInv, TypeOK
  <2>. QED
    BY <1>0, <2>1, <2>2, <2>3 DEF PendingWasSent
<1>. QED
  BY <1>1, <1>2, <1>3, <1>4, <1>5, <1>6
  DEF Next, Tool, BatchStep, LoopStep, RequestStep, QuietOf, Ended

\* A request that is neither worked on nor pending is left alone until its
\* batch starts.
LEMMA IdleStays ==
  ASSUME TypeInv, [Next]_vars, NEW q \in Requests, job[q] = "idle", q \notin pending,
         StartBatch => q \notin Batch(batch)
  PROVE  /\ job'[q] = "idle" /\ q \notin pending'
         /\ tracked'[q] = tracked[q] /\ attempts'[q] = attempts[q]
<1>. USE DEF elVars, histVars, batchVars, reportVars
<1>0. /\ job \in [Requests -> Jobs] /\ tracked \in [Requests -> Transactions]
      /\ attempts \in [Requests -> Nat] /\ pending \subseteq Requests
  BY DEF TypeInv, TypeOK
<1>1. CASE StartBatch
  BY <1>1 DEF StartBatch, JobFor
<1>2. CASE StartBatchFails \/ FinishBatch
  BY <1>2 DEF StartBatchFails, FinishBatch, NextBatch
<1>3. CASE EndBroadcast \/ SameBlock \/ BlockNumberUnavailable \/ FeesUnavailable \/ EndReplacement
  BY <1>3 DEF EndBroadcast, SameBlock, BlockNumberUnavailable, FeesUnavailable, EndReplacement,
     RetryLoop, JobFor
<1>4. CASE AllResolved \/ BlockChanged \/ FeesFetched \/ AbortBatch \/ ChainStep \/ UNCHANGED vars
  BY <1>4 DEF AllResolved, BlockChanged, FeesFetched, JobFor, AbortBatch, ChainStep, vars
<1>5. ASSUME NEW r \in Requests, RequestStep(r)
      PROVE  /\ r # q
             /\ pending' \subseteq pending \cup {r}
             /\ job'[q] = "idle"
             /\ tracked'[q] = tracked[q] /\ attempts'[q] = attempts[q]
  <2>1. r # q /\ pending' \subseteq pending \cup {r}
    BY <1>5 DEF RequestStep, ParallelSend, SequentialSend, CheckReceipt, CategorizeByReceipt,
       CategorizeByNonce, Resend, Recheck, Replace, Drop, RejectByUser
  <2>2. job'[q] = "idle"
    BY <1>0, <1>5, <2>1 DEF RequestStep, ParallelSend, SequentialSend, CheckReceipt,
       CategorizeByReceipt, CategorizeByNonce, Resend, Recheck, Replace, Drop, Become, JobFor
  <2>3. tracked'[q] = tracked[q]
    BY <1>0, <1>5, <2>1 DEF RequestStep, ParallelSend, SequentialSend, CheckReceipt,
       CategorizeByReceipt, CategorizeByNonce, Resend, Recheck, Replace, Delivered
  <2>4. attempts'[q] = attempts[q]
    BY <1>0, <1>5, <2>1 DEF RequestStep, ParallelSend, SequentialSend, CheckReceipt,
       CategorizeByReceipt, CategorizeByNonce, Resend, Recheck, Replace, CountAttempt
  <2>. QED
    BY <2>1, <2>2, <2>3, <2>4
<1>. QED
  BY <1>1, <1>2, <1>3, <1>4, <1>5 DEF Next, Tool, BatchStep, LoopStep, Ended

\* Only a request with a consumed nonce of its own is resolved, and only once sent.
LEMMA NewlyResolved ==
  ASSUME DirectInv, [Next]_vars, NEW q \in resolved' \ resolved
  PROVE  /\ q \in Requests /\ attempts'[q] > 0
         /\ Consumed(tracked[q].nonce) /\ tracked' = tracked /\ chain' = chain
         /\ q \notin pending' /\ job'[q] = "idle"
<1>. USE DEF elVars, histVars, batchVars, reportVars
<1>0. TypeInv /\ PendingWasSent
  BY DEF DirectInv, TypeInv, BatchInProgress
<1>1. ASSUME ~(\E r \in Requests : RequestStep(r)) PROVE FALSE
  BY <1>1 DEF Next, Tool, BatchStep, LoopStep, Ended, vars, StartBatch, StartBatchFails,
     FinishBatch, EndBroadcast, SameBlock, BlockNumberUnavailable, FeesUnavailable,
     EndReplacement, AllResolved, BlockChanged, FeesFetched, AbortBatch, ChainStep
<1>2. PICK r \in Requests : RequestStep(r)
  BY <1>1
<1>3. Drop(r) /\ tracked' = tracked /\ chain' = chain /\ Consumed(tracked[r].nonce)
  BY <1>2 DEF RequestStep, ParallelSend, SequentialSend, CheckReceipt, CategorizeByReceipt,
     CategorizeByNonce, Resend, Recheck, Replace, MinedOk, NoncePassed
<1>4. q = r /\ q \notin pending' /\ job'[q] = "idle"
  BY <1>0, <1>3 DEF Drop, Become, TypeInv, TypeOK
<1>5. pc \in {"monitor", "replace"} /\ job[r] # "idle"
  BY <1>2, <1>3 DEF RequestStep, ParallelSend, SequentialSend, CheckReceipt,
     CategorizeByReceipt, CategorizeByNonce, Resend, Recheck, Replace
<1>6. attempts[r] > 0
  BY <1>0, <1>5 DEF PendingWasSent
<1>7. attempts' = attempts \/ CountAttempt(r)
  BY <1>2 DEF RequestStep, ParallelSend, SequentialSend, CheckReceipt,
     CategorizeByReceipt, CategorizeByNonce, Resend, Recheck, Replace
<1>8. attempts'[r] > 0
  BY <1>0, <1>6, <1>7, CountAttemptGrows
<1>. QED
  BY <1>3, <1>4, <1>8

\* Resolved requests stay out of the work of every later step.
LEMMA ResolvedIsDoneStep ==
  ASSUME DirectInv, [Next]_vars
  PROVE  ResolvedIsDone'
<1>0. TypeInv /\ ResolvedIsDone /\ Unsent
  BY DEF DirectInv, TypeInv, BatchInProgress
<1>1. ASSUME NEW q \in resolved
      PROVE  /\ attempts'[q] > 0 /\ tracked'[q].nonce \in DOMAIN chain'
             /\ q \notin pending' /\ job'[q] = "idle"
  <2>1. q \in Requests /\ batch \in Nat \ {0}
    BY <1>0 DEF TypeInv, TypeOK
  <2>2. attempts[q] > 0 /\ Consumed(tracked[q].nonce) /\ q \notin pending /\ job[q] = "idle"
    BY <1>0 DEF ResolvedIsDone
  <2>3. attempts[q] # 0
    BY <1>0, <2>1, <2>2 DEF TypeInv, TypeOK
  <2>4. ~NotYetSent(q)
    BY <1>0, <2>1, <2>3 DEF Unsent
  <2>5. StartBatch => q \notin Batch(batch)
    BY <2>1, <2>4, BatchBounds DEF StartBatch, NotYetSent, Batch
  <2>6. /\ job'[q] = "idle" /\ q \notin pending'
        /\ tracked'[q] = tracked[q] /\ attempts'[q] = attempts[q]
    BY <1>0, <2>1, <2>2, <2>5, IdleStays
  <2>7. tracked[q].nonce \in DOMAIN chain'
    BY <1>0, <2>2, ConsumedIsFinal DEF Consumed
  <2>. QED
    BY <2>2, <2>6, <2>7
<1>2. ASSUME NEW q \in resolved', q \notin resolved
      PROVE  /\ attempts'[q] > 0 /\ tracked'[q].nonce \in DOMAIN chain'
             /\ q \notin pending' /\ job'[q] = "idle"
  BY <1>2, NewlyResolved DEF Consumed
<1>. QED
  BY <1>1, <1>2 DEF ResolvedIsDone, Consumed

\* A batch only starts when no broadcast has met missing funds.
LEMMA FundsFlagStep ==
  ASSUME DirectInv, [Next]_vars
  PROVE  FundsFlag'
<1>. USE DEF elVars, histVars, batchVars, reportVars
<1>0. FundsFlag
  BY DEF DirectInv
<1>1. CASE StartBatchFails \/ FinishBatch
  BY <1>0, <1>1 DEF StartBatchFails, FinishBatch, AbortsRun, FundsFlag
<1>2. CASE ChainStep \/ UNCHANGED vars
  BY <1>0, <1>2 DEF ChainStep, vars, FundsFlag
<1>3. CASE StartBatch \/ EndBroadcast \/ AbortBatch \/ LoopStep
  BY <1>3 DEF FundsFlag, StartBatch, EndBroadcast, AbortBatch, LoopStep, AllResolved, SameBlock,
     RetryLoop, BlockNumberUnavailable, BlockChanged, FeesUnavailable, FeesFetched, EndReplacement
<1>4. ASSUME NEW r \in Requests, RequestStep(r) PROVE FundsFlag'
  BY <1>4 DEF FundsFlag, RequestStep, ParallelSend, SequentialSend, CheckReceipt,
     CategorizeByReceipt, CategorizeByNonce, Resend, Recheck, Replace
<1>. QED
  BY <1>1, <1>2, <1>3, <1>4 DEF Next, Tool, BatchStep, Ended

-----------------------------------------------------------------------------
(* Data: the mempool, the chain and the tracked nonces.                    *)

\* Mining takes every transaction with the consumed nonce out of the mempool.
LEMMA PoolAheadStep ==
  ASSUME DirectInv, [Next]_vars
  PROVE  PoolAhead'
<1>0. TypeInv /\ PoolAhead
  BY DEF DirectInv, TypeInv, BatchInProgress
<1>1. CASE chain' = chain /\ pool' = pool
  BY <1>0, <1>1 DEF PoolAhead, Consumed
<1>2. ASSUME NEW r \in Requests, Submission(r) PROVE PoolAhead'
  BY <1>0, <1>1, <1>2, PoolElements
  DEF Submission, Accepted, Refused, ReplyLost, PoolAhead, Consumed
<1>3. ASSUME NEW t \in pool, NEW ok \in BOOLEAN, Mine(t, ok) PROVE PoolAhead'
  <2>1. /\ DOMAIN chain' = DOMAIN chain \cup {t.nonce}
        /\ \A u \in pool' : u \in pool /\ u.nonce # t.nonce
    BY <1>0, <1>3, MineFacts
  <2>. QED
    BY <1>0, <2>1 DEF PoolAhead, Consumed
<1>. QED
  BY <1>0, <1>1, <1>2, <1>3, StepKinds, SubmissionSteps
  DEF Quiet, StartBatch, ChainStep, NewBlock, EmptyBlock

\* What is about to be resent was seen reverted, and blocks do not change that.
LEMMA ResendIsSafeStep ==
  ASSUME DirectInv, [Next]_vars
  PROVE  ResendIsSafe'
<1>. USE DEF elVars, histVars, batchVars, reportVars
<1>0. TypeInv /\ ResendIsSafe
  BY DEF DirectInv, TypeInv, BatchInProgress
<1>. SUFFICES ASSUME NEW q \in Requests, job'[q] = "resend" PROVE MinedReverted(tracked[q])'
  BY DEF ResendIsSafe
<1>1. CASE StartBatch
  BY <1>1 DEF StartBatch, JobFor
<1>2. CASE StartBatchFails \/ FinishBatch \/ EndBroadcast \/ AbortBatch \/ LoopStep \/ ChainStep
           \/ UNCHANGED vars
  <2>1. job[q] = "resend" /\ tracked' = tracked
    BY <1>2 DEF StartBatchFails, FinishBatch, EndBroadcast, AbortBatch, LoopStep, ChainStep, vars,
       AllResolved, SameBlock, RetryLoop, BlockNumberUnavailable, BlockChanged,
       FeesUnavailable, FeesFetched, EndReplacement, JobFor
  <2>2. MinedReverted(tracked[q])
    BY <1>0, <2>1 DEF ResendIsSafe
  <2>. QED
    BY <1>0, <2>1, <2>2, RevertIsFinal DEF MinedReverted
<1>3. ASSUME NEW r \in Requests, QuietOf(r) PROVE MinedReverted(tracked[q])'
  <2>1. tracked' = tracked /\ chain' = chain
    BY <1>3 DEF QuietOf, CheckReceipt, CategorizeByReceipt, CategorizeByNonce, Recheck
  <2>2. job[q] = "resend" \/ MinedReverted(tracked[q])
    BY <1>0, <1>3 DEF QuietOf, CheckReceipt, CategorizeByReceipt, CategorizeByNonce, Recheck,
       Become, Drop, Reverted, TypeInv, TypeOK
  <2>. QED
    BY <1>0, <2>1, <2>2 DEF ResendIsSafe, MinedReverted, Consumed
<1>4. ASSUME NEW r \in Requests, SubmissionStep(r) PROVE MinedReverted(tracked[q])'
  <2>1. job[q] = "resend" /\ r # q
    BY <1>0, <1>4 DEF SubmissionStep, ParallelSend, SequentialSend, Resend, Replace, Drop,
       Become, JobFor, TypeInv, TypeOK
  <2>2. tracked'[q] = tracked[q] /\ chain' = chain
    BY <1>0, <1>4, <2>1, SubmissionSteps
    DEF Submission, Accepted, Refused, ReplyLost, TypeInv, TypeOK
  <2>. QED
    BY <1>0, <2>1, <2>2 DEF ResendIsSafe, MinedReverted, Consumed
<1>. QED
  BY <1>1, <1>2, <1>3, <1>4 DEF Next, Tool, BatchStep, RequestStep, QuietOf, SubmissionStep, Ended

\* An unsent request has no transaction in the mempool or on chain.
LEMMA NoTraceOfUnsent ==
  ASSUME TypeInv, Unsent, NEW r \in Requests, NotYetSent(r)
  PROVE  /\ \A t \in pool : t.req # r
         /\ \A n \in DOMAIN chain : chain[n].tx.req # r
<1>1. attempts[r] = 0
  BY DEF Unsent
<1>. QED
  BY <1>1 DEF Unsent

\* Transactions come only from submissions.
LEMMA UnsentStep ==
  ASSUME DirectInv, [Next]_vars
  PROVE  Unsent'
<1>0. TypeInv /\ Unsent /\ BatchInProgress
  BY DEF DirectInv, TypeInv, BatchInProgress
<1>1. CASE chain' = chain /\ pool' = pool /\ attempts' = attempts
  BY <1>0, <1>1, TurnComesOnce DEF Unsent
<1>2. ASSUME NEW r \in Requests, SubmissionStep(r) PROVE Unsent'
  <2>0. Submission(r)
    BY <1>0, <1>2, SubmissionSteps
  <2>1. \A q \in Requests : attempts[q] > 0 => attempts'[q] > 0
    BY <1>0, <2>0, CountAttemptGrows DEF Submission
  <2>2. attempts'[r] > 0
    BY <1>0, <2>0, CountAttemptGrows DEF Submission
  <2>3. ASSUME NEW q \in Requests, NotYetSent(q)' PROVE attempts'[q] = 0
    <3>1. q # r
      BY <1>0, <1>2, <2>3, SubmissionEndsTurn
    <3>. QED
      BY <1>0, <2>0, <2>3, <3>1, CountAttemptGrows, TurnComesOnce DEF Submission, Unsent
  <2>4. \A t \in pool' : t \in pool \/ t.req = r
    BY <2>0, PoolElements DEF Submission, Accepted, Refused, ReplyLost
  <2>5. chain' = chain
    BY <2>0 DEF Submission
  <2>. QED
    BY <1>0, <2>1, <2>2, <2>3, <2>4, <2>5, TransactionTypes DEF Unsent
<1>3. ASSUME NEW t \in pool, NEW ok \in BOOLEAN, Mine(t, ok), attempts' = attempts
      PROVE Unsent'
  <2>1. \A q \in Requests : NotYetSent(q)' => attempts'[q] = 0
    BY <1>0, <1>3, TurnComesOnce DEF Unsent
  <2>2. \A u \in pool' : attempts'[u.req] > 0
    BY <1>0, <1>3, MineFacts DEF Unsent
  <2>3. ASSUME NEW n \in DOMAIN chain' PROVE attempts'[chain'[n].tx.req] > 0
    <3>1. CASE n \in DOMAIN chain
      BY <1>0, <1>3, <3>1, MineFacts DEF Unsent
    <3>2. CASE n = t.nonce
      <4>1. chain'[n].tx = t
        BY <1>0, <1>3, <3>2, MineFacts
      <4>2. attempts'[t.req] > 0
        BY <1>0, <1>3 DEF Unsent
      <4>. QED
        BY <4>1, <4>2
    <3>3. DOMAIN chain' = DOMAIN chain \cup {t.nonce}
      BY <1>0, <1>3, MineFacts
    <3>. QED
      BY <3>1, <3>2, <3>3
  <2>. QED
    BY <2>1, <2>2, <2>3 DEF Unsent
<1>. QED
  BY <1>1, <1>2, <1>3, StepKinds
  DEF Quiet, StartBatch, ChainStep, NewBlock, EmptyBlock, histVars

\* Only StartBatch gives a nonce to a request that is not sent yet.
LEMMA NoNonceYetStep ==
  ASSUME DirectInv, [Next]_vars
  PROVE  NoNonceYet'
<1>0. TypeInv /\ NoNonceYet /\ BatchInProgress
  BY DEF DirectInv, TypeInv, BatchInProgress
<1>. SUFFICES ASSUME NEW q \in Requests, NotYetSent(q)', tracked'[q].nonce # 0
              PROVE  ParallelSigning /\ pc' = "broadcast" /\ q <= Last(batch')
  BY DEF NoNonceYet
<1>1. NotYetSent(q) /\ ~SubmissionStep(q)
  BY <1>0, TurnComesOnce, SubmissionEndsTurn
<1>2. CASE StartBatch
  <2>1. pc = "init" /\ pc' = "broadcast" /\ batch' = batch
    BY <1>2 DEF StartBatch, batchVars
  <2>2. tracked[q].nonce = 0
    BY <1>0, <1>1, <2>1 DEF NoNonceYet
  <2>3. ParallelSigning /\ q \in Batch(batch)
    BY <1>0, <1>2, <2>2 DEF StartBatch, TypeInv, TypeOK
  <2>. QED
    BY <1>0, <2>1, <2>3, BatchBounds DEF Batch, TypeInv, TypeOK
<1>3. CASE ~StartBatch
  <2>1. tracked'[q] = tracked[q]
    <3>1. ASSUME NEW r \in Requests, SubmissionStep(r) PROVE tracked'[q] = tracked[q]
      BY <1>0, <1>1, <3>1, SubmissionSteps
      DEF Submission, Accepted, Refused, ReplyLost, TypeInv, TypeOK
    <3>. QED
      BY <1>3, <3>1, StepKinds DEF Quiet, ChainStep
  <2>2. ParallelSigning /\ pc = "broadcast" /\ q <= Last(batch)
    BY <1>0, <1>1, <2>1 DEF NoNonceYet
  <2>3. /\ Last(batch) \in Nat /\ q \in Nat /\ Last(batch + 1) \in Nat
        /\ First(batch + 1) \in Nat
        /\ Last(batch) < First(batch + 1) /\ Last(batch) <= Last(batch + 1)
    BY <1>0, BatchBounds, DirectAssumption DEF TypeInv, TypeOK, Requests
  <2>4. batch' = batch
    BY <2>2, <2>3, BatchMoves DEF NotYetSent
  <2>5. pc' # "init"
    BY <1>0, <2>2, <2>4, BroadcastShrinks
  <2>. QED
    BY <2>2, <2>3, <2>4, <2>5 DEF NotYetSent
<1>. QED
  BY <1>2, <1>3

\* The heart of the proof: whatever carries a request has the nonce tracked for
\* it.  A new nonce comes only where nothing else of the request is left.
LEMMA OneNonceStep ==
  ASSUME DirectInv, [Next]_vars
  PROVE  OneNonce'
<1>0. TypeInv /\ OneNonce /\ Unsent /\ PoolAhead /\ ResendIsSafe
  BY DEF DirectInv, TypeInv, BatchInProgress
<1>1. CASE Quiet
  BY <1>0, <1>1 DEF Quiet, OneNonce
<1>2. CASE StartBatch
  <2>1. chain' = chain /\ pool' = pool /\ unsure' = unsure
    BY <1>2 DEF StartBatch, histVars
  <2>2. ASSUME NEW q \in Requests, tracked'[q] # tracked[q] PROVE NotYetSent(q)
    <3>1. q \in Batch(batch) /\ pc = "init"
      BY <1>0, <1>2, <2>2 DEF StartBatch, TypeInv, TypeOK
    <3>2. First(batch) \in Nat /\ Last(batch) \in Nat /\ q \in Nat
      BY <1>0, BatchBounds, DirectAssumption DEF TypeInv, TypeOK, Requests
    <3>. QED
      BY <3>1, <3>2 DEF NotYetSent, Batch
  <2>3. /\ \A t \in pool : tracked'[t.req] = tracked[t.req]
        /\ \A n \in DOMAIN chain : tracked'[chain[n].tx.req] = tracked[chain[n].tx.req]
    BY <1>0, <2>2, TransactionTypes, NoTraceOfUnsent
  <2>. QED
    BY <1>0, <2>1, <2>3 DEF OneNonce
<1>3. ASSUME NEW r \in Requests, SubmissionStep(r) PROVE OneNonce'
  <2>0. Submission(r) /\ chain' = chain
    BY <1>0, <1>3, SubmissionSteps DEF Submission
  <2>1. CASE Refused
    BY <1>0, <2>0, <2>1 DEF Refused, OneNonce
  <2>2. ASSUME NEW n \in Nat, ReplyLost(r, n) PROVE OneNonce'
    BY <1>0, <2>0, <2>2, PoolElements DEF ReplyLost, OneNonce
  <2>3. ASSUME NEW n \in Nat, Accepted(r, n),
               n = tracked[r].nonce \/ NotYetSent(r) \/ job[r] = "resend"
        PROVE  OneNonce'
    <3>1. tracked'[r].nonce = n /\ \A q \in Requests : q # r => tracked'[q] = tracked[q]
      BY <1>0, <2>3 DEF Accepted, NewTx, TypeInv, TypeOK
    <3>2. \/ n = tracked[r].nonce
          \/ r \in unsure
          \/ /\ \A t \in pool : t.req # r
             /\ \A i \in DOMAIN chain : ~(chain[i].tx.req = r /\ chain[i].ok)
      <4>1. CASE NotYetSent(r)
        BY <1>0, <4>1, NoTraceOfUnsent
      <4>2. CASE job[r] = "resend" /\ r \notin unsure
        <5>1. MinedReverted(tracked[r])
          BY <1>0, <4>2 DEF ResendIsSafe
        <5>2. \A t \in pool : t.req # r
          BY <1>0, <4>2, <5>1 DEF OneNonce, PoolAhead, MinedReverted
        <5>3. \A i \in DOMAIN chain : ~(chain[i].tx.req = r /\ chain[i].ok)
          BY <1>0, <4>2, <5>1 DEF OneNonce, MinedReverted
        <5>. QED
          BY <5>2, <5>3
      <4>. QED
        BY <2>3, <4>1, <4>2
    <3>3. \A t \in pool' : t \in pool \/ (t.req = r /\ t.nonce = n)
      BY <2>3, PoolElements DEF Accepted
    <3>4. unsure' = unsure
      BY <2>3 DEF Accepted
    <3>. QED
      BY <1>0, <2>0, <3>1, <3>2, <3>3, <3>4, TransactionTypes DEF OneNonce
  <2>. QED
    BY <2>0, <2>1, <2>2, <2>3 DEF Submission
<1>4. CASE ChainStep
  <2>1. tracked' = tracked /\ unsure' = unsure
    BY <1>4 DEF ChainStep, histVars
  <2>2. CASE EmptyBlock
    BY <1>0, <2>1, <2>2 DEF EmptyBlock, OneNonce
  <2>3. ASSUME NEW t \in pool, NEW ok \in BOOLEAN, Mine(t, ok) PROVE OneNonce'
    <3>1. \A u \in pool' : u.req \notin unsure' => u.nonce = tracked'[u.req].nonce
      BY <1>0, <2>1, <2>3, MineFacts DEF OneNonce
    <3>2. ASSUME NEW n \in DOMAIN chain', chain'[n].ok, chain'[n].tx.req \notin unsure'
          PROVE  n = tracked'[chain'[n].tx.req].nonce
      <4>1. CASE n \in DOMAIN chain
        BY <1>0, <2>1, <2>3, <3>2, <4>1, MineFacts DEF OneNonce
      <4>2. CASE n = t.nonce
        <5>1. chain'[n].tx = t
          BY <1>0, <2>3, <4>2, MineFacts
        <5>2. t.req \notin unsure' => t.nonce = tracked'[t.req].nonce
          BY <1>0, <2>1 DEF OneNonce
        <5>. QED
          BY <3>2, <4>2, <5>1, <5>2
      <4>3. DOMAIN chain' = DOMAIN chain \cup {t.nonce}
        BY <1>0, <2>3, MineFacts
      <4>. QED
        BY <4>1, <4>2, <4>3
    <3>. QED
      BY <3>1, <3>2 DEF OneNonce
  <2>. QED
    BY <1>4, <2>2, <2>3 DEF ChainStep, NewBlock
<1>. QED
  BY <1>1, <1>2, <1>3, <1>4, StepKinds

-----------------------------------------------------------------------------
(* The theorems.                                                           *)

\* The inductive invariant holds initially: nothing sent, nothing tracked.
THEOREM DirectInvInit == Init => DirectInv
<1>. SUFFICES ASSUME Init PROVE DirectInv
  OBVIOUS
<1>1. TypeInv
  BY TypeInit
<1>2. /\ pc = "init" /\ batch = 1 /\ pending = {} /\ resolved = {} /\ fundsError = FALSE
      /\ job = [r \in Requests |-> "idle"] /\ attempts = [r \in Requests |-> 0]
      /\ pool = {} /\ chain = <<>>
      /\ tracked = [r \in Requests |-> [req |-> r, nonce |-> 0, ver |-> 0]]
  BY DEF Init, ELInit, JobFor
<1>3. BatchInProgress
  BY <1>1, <1>2 DEF TypeInv, BatchInProgress
<1>4. NoNonceYet
  BY <1>2 DEF NoNonceYet
<1>. QED
  BY <1>1, <1>2, <1>3, <1>4
  DEF DirectInv, TypeInv, Unsent, PoolAhead, OneNonce, ResendIsSafe, PendingWasSent,
      ResolvedIsDone, FundsFlag

\* Every step of the orchestrator and of the chain keeps the inductive invariant.
THEOREM DirectInvStep == DirectInv /\ [Next]_vars => DirectInv'
<1>. SUFFICES ASSUME DirectInv, [Next]_vars PROVE DirectInv'
  OBVIOUS
<1>1. TypeInv'
  BY TypeStep DEF DirectInv, TypeInv, BatchInProgress
<1>. QED
  BY <1>1, BatchInProgressStep, UnsentStep, NoNonceYetStep, PoolAheadStep, OneNonceStep,
     ResendIsSafeStep, PendingWasSentStep, ResolvedIsDoneStep, FundsFlagStep
  DEF DirectInv, TypeInv

\* All parts of the inductive invariant hold in every reachable state.
THEOREM DirectInvariant == Spec => []DirectInv
  BY DirectInvInit, DirectInvStep, PTL DEF Spec

\* No request takes effect twice on chain, whatever the sizes of list and
\* batches, the retry limit, the signer and the losses, as long as no reply of
\* that request itself was lost.
THEOREM EffectAtMostOnce == Spec => []AtMostOnce
<1>1. DirectInv => AtMostOnce
  BY DEF DirectInv, OneNonce, AtMostOnce, Landings
<1>. QED
  BY <1>1, DirectInvariant, PTL

\* A request counted as done leaves nothing behind that could still be mined.
THEOREM ResolvedStaysFinal == Spec => []ResolvedIsFinal
<1>1. DirectInv => ResolvedIsFinal
  BY DEF DirectInv, OneNonce, PoolAhead, ResolvedIsDone, ResolvedIsFinal
<1>. QED
  BY <1>1, DirectInvariant, PTL

\* A request leaves a nonce only for a fresh one, and only when the transaction
\* tracked for it has reverted.
LEMMA NewNonceStep ==
  ASSUME DirectInv, [Next]_vars, NEW q \in Requests,
         tracked[q].nonce # 0, tracked'[q].nonce # tracked[q].nonce
  PROVE  MinedReverted(tracked[q])
<1>0. TypeInv /\ NoNonceYet /\ ResendIsSafe
  BY DEF DirectInv, TypeInv, BatchInProgress
<1>1. ~Quiet /\ ~ChainStep
  BY DEF Quiet, ChainStep
<1>2. CASE StartBatch
  <2>1. pc = "init" /\ q \in Batch(batch)
    BY <1>0, <1>2 DEF StartBatch, TypeInv, TypeOK
  <2>2. First(batch) \in Nat /\ Last(batch) \in Nat /\ q \in Nat
    <3>1. batch \in Nat \ {0}
      BY <1>0 DEF TypeInv, TypeOK
    <3>. QED
      BY <3>1, BatchBounds, DirectAssumption DEF Requests
  <2>3. NotYetSent(q)
    BY <2>1, <2>2 DEF NotYetSent, Batch
  <2>. QED
    BY <1>0, <2>1, <2>3 DEF NoNonceYet
<1>3. ASSUME NEW r \in Requests, SubmissionStep(r) PROVE MinedReverted(tracked[q])
  <2>1. r = q
    BY <1>0, <1>3, SubmissionSteps
    DEF Submission, Accepted, Refused, ReplyLost, TypeInv, TypeOK
  <2>2. ~ParallelSend(r) /\ ~Replace(r)
    <3>1. NewTx(r, tracked[r].nonce).nonce = tracked[r].nonce
      BY DEF NewTx
    <3>2. ParallelSend(r) \/ Replace(r) =>
            tracked' \in {tracked, [tracked EXCEPT ![r] = NewTx(r, tracked[r].nonce)]}
      BY DEF ParallelSend, Replace, Drop, Delivered
    <3>. QED
      BY <1>0, <2>1, <3>1, <3>2 DEF TypeInv, TypeOK
  <2>3. ~SequentialSend(r)
    BY <1>0, <2>1 DEF SequentialSend, NoNonceYet, NotYetSent
  <2>4. job[q] = "resend"
    BY <1>3, <2>1, <2>2, <2>3 DEF SubmissionStep, Resend
  <2>. QED
    BY <1>0, <2>4 DEF ResendIsSafe
<1>. QED
  BY <1>1, <1>2, <1>3, StepKinds

\* A second nonce is given to a request only when the transaction tracked for
\* it has reverted.
THEOREM NonceReusePolicy == Spec => NewNonceOnlyAfterRevert
<1>1. DirectInv /\ [Next]_vars =>
        [\A r \in Requests :
           tracked[r].nonce # 0 /\ tracked'[r].nonce # tracked[r].nonce
             => MinedReverted(tracked[r])]_vars
  BY NewNonceStep
<1>. QED
  BY <1>1, DirectInvariant, PTL DEF Spec, NewNonceOnlyAfterRevert

\* Once a broadcast has failed for lack of funds, no request behind the current
\* batch is ever submitted, and no batch is started.
LEMMA FundsAbortStep ==
  ASSUME DirectInv, [Next]_vars, fundsError
  PROVE  batch' = batch /\ \A q \in Requests : q > Last(batch) => attempts'[q] = 0
<1>0. TypeInv /\ Unsent /\ BatchInProgress /\ FundsFlag
  BY DEF DirectInv, TypeInv, BatchInProgress
<1>1. batch' = batch
  <2>1. ~StartBatchFails /\ ~FinishBatch
    BY <1>0 DEF StartBatchFails, FinishBatch, AbortsRun, FundsFlag
  <2>2. StartBatch \/ EndBroadcast \/ AbortBatch \/ LoopStep \/ ChainStep => batch' = batch
    BY DEF StartBatch, EndBroadcast, AbortBatch, LoopStep, ChainStep, AllResolved, SameBlock,
       BlockNumberUnavailable, BlockChanged, FeesUnavailable, FeesFetched, EndReplacement, batchVars
  <2>3. \A r \in Requests : RequestStep(r) => batch' = batch
    BY DEF RequestStep, ParallelSend, SequentialSend, CheckReceipt, CategorizeByReceipt,
       CategorizeByNonce, Resend, Recheck, Replace, batchVars
  <2>. QED
    BY <2>1, <2>2, <2>3 DEF Next, Tool, BatchStep, Ended, vars
<1>2. Unsent'
  BY UnsentStep
<1>. QED
  BY <1>1, <1>2 DEF Unsent, NotYetSent

\* Missing funds in a broadcast end the run with the batch they occurred in.
THEOREM FundsAbortPolicy == Spec => FundsAbort
<1>1. DirectInv /\ [Next]_vars =>
        [fundsError => /\ batch' = batch
                       /\ \A r \in Requests : r > Last(batch) => attempts'[r] = 0]_vars
  BY FundsAbortStep
<1>. QED
  BY <1>1, DirectInvariant, PTL DEF Spec, FundsAbort
=============================================================================
