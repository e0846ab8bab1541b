---------------------- MODULE DirectRequestsProperties ----------------------
(***************************************************************************)
(* What the direct mode must guarantee, and what its documentation says.   *)
(***************************************************************************)
EXTENDS DirectRequests

Transactions == [req : Requests, nonce : Nat, ver : Nat]

\* The type invariant: what each variable of the orchestrator and of the chain holds.
TypeOK ==
  /\ chain \in Seq([tx : Transactions, ok : BOOLEAN])
  /\ pool \subseteq Transactions /\ IsFiniteSet(pool)
  /\ newHead \in BOOLEAN
  /\ pc \in Phases
  /\ batch \in Nat \ {0}
  /\ job \in [Requests -> Jobs]
  /\ pending \subseteq Requests
  /\ tracked \in [Requests -> Transactions]
  /\ nextNonce \in Nat \ {0}
  /\ retry \in Nat
  /\ failedBatch \subseteq Requests /\ rejectedBatch \subseteq Requests
  /\ allFailed \subseteq Requests /\ allRejected \subseteq Requests
  /\ fundsError \in BOOLEAN /\ fundsLogged \in BOOLEAN
  /\ resolved \subseteq Requests
  /\ attempts \in [Requests -> Nat]
  /\ unsure \subseteq Requests

-----------------------------------------------------------------------------
(* Safety.                                                                 *)

\* A request takes effect on chain at most once, whatever the retries did.  A
\* second effect is a second withdrawal or consolidation of the same validator.
\* Only a request one of whose replies was lost is excepted.
AtMostOnce == \A r \in Requests \ unsure : \A m, n \in Landings(r) : m = n

\* A request that the program counts as done (mined, "nonce consumed", "nonce
\* expired") has had its nonce consumed by a transaction of its own.
\* A lost reply on a Ledger leaves two requests with one nonce, hence the guard.
OwnNonce ==
  (ParallelSigning \/ unsure = {}) => \A r \in resolved :
    Consumed(tracked[r].nonce) /\ chain[tracked[r].nonce].tx.req = r

\* Nothing of a request counted as done is left in the mempool: what may still
\* happen on chain was reported to the user as failed or rejected.
ResolvedIsFinal == \A t \in pool : t.req \notin resolved \ unsure

\* The Ledger signer leaves no hole in the nonces, whatever was refused on the
\* device: every nonce it has given out is backed by a transaction that waits.
NoNonceGap ==
  ~ParallelSigning =>
    \A n \in Len(chain) + 1 .. nextNonce - 1 : Versions(n) # {}

\* The retry budget is a bound on the submissions of one request, and with a
\* 12 percent bump per replacement a bound on what it may cost.
RetryBudget == \A r \in Requests : attempts[r] <= MaxRetries + 1

\* When the run ends, every request was counted as done or is on one of the
\* two lists the user gets, except those the user rejected in the batch that
\* ran out of funds.
ReportComplete ==
  pc = "done" =>
    Requests \ (resolved \cup allFailed \cup allRejected)
      \subseteq (IF fundsError THEN rejectedBatch ELSE {})

-----------------------------------------------------------------------------
(* Actions and refinement.                                                 *)

\* A request gets a second nonce only when the transaction the program tracks
\* for it has reverted: never while an earlier one could still take effect.
NewNonceOnlyAfterRevert ==
  [][\A r \in Requests :
       tracked[r].nonce # 0 /\ tracked'[r].nonce # tracked[r].nonce
         => MinedReverted(tracked[r])]_vars

\* Once a broadcast has failed for lack of funds, the run stays with that batch
\* and none of the requests behind it is ever submitted.
FundsAbort ==
  [][fundsError => /\ batch' = batch
                   /\ \A r \in Requests : r > Last(batch) => attempts'[r] = 0]_vars

\* How often r took effect; the effects of a request one of whose replies was
\* lost count as one.
Effects(r) ==
  IF r \in unsure /\ Landings(r) # {} THEN 1 ELSE Cardinality(Landings(r))

\* What the lists of the program say of r.
Outcome(r) ==
  IF r \in resolved THEN "executed"
  ELSE IF r \in failedBatch \cup allFailed THEN "failed"
  ELSE IF r \in rejectedBatch \cup allRejected THEN "rejected"
  ELSE "open"

Landed == [r \in Requests |-> Effects(r)]
Decided == [r \in Requests |-> Outcome(r)]

\* The direct mode implements the abstract promise about each request: at most
\* one effect, submissions only while the outcome is open, final outcomes.
Delivery == INSTANCE RequestDelivery WITH
  submissions <- attempts,
  landings <- Landed,
  outcome <- Decided

DeliverySpec == Delivery!Spec

-----------------------------------------------------------------------------
(* Liveness.                                                               *)

\* The run ends: unmined transactions, dead RPC endpoints and reverts all use
\* up the retry budget, as long as blocks keep coming.
Terminates == <>(pc = "done")

-----------------------------------------------------------------------------
(* What the documentation says.                                            *)

\* constants/logging.ts: a consumed nonce means the "request [was] fulfilled by
\* original or competing transaction".
ConsumedMeansFulfilled == \A r \in resolved : Landings(r) # {}

\* README: "An INSUFFICIENT_FUNDS error aborts all remaining batches immediately".
FundsErrorAborts == [][fundsLogged => batch' = batch]_vars

\* Rejected validators are listed for the user at the end of the run.
RejectedAreListed ==
  pc = "done" => rejectedBatch \subseteq allRejected
=============================================================================
