----------------------- MODULE DirectRequestsInvariant -----------------------
(***************************************************************************)
(* The inductive invariant behind the safety of the direct mode.  The      *)
(* properties say what was reached; the parts below say why: which          *)
(* requests nothing was sent for yet, where the transactions of the others  *)
(* can be, and what the program's bookkeeping knows about them.             *)
(***************************************************************************)
EXTENDS DirectRequestsProperties

\* The requests whose first submission is still ahead.
NotYetSent(r) ==
  \/ r > Last(batch)
  \/ pc = "init" /\ r >= First(batch)
  \/ pc = "broadcast" /\ job[r] = "todo"

\* The current batch is not empty, and only its requests are worked on.
BatchInProgress ==
  /\ First(batch) <= NumRequests
  /\ \A r \in Requests : r \in pending \/ job[r] # "idle" => r <= Last(batch)

\* Nothing was sent for a request whose turn has not come, and what was never
\* sent is neither in the mempool nor on chain.
Unsent ==
  /\ \A r \in Requests : NotYetSent(r) => attempts[r] = 0
  /\ \A t \in pool : attempts[t.req] > 0
  /\ \A n \in DOMAIN chain : attempts[chain[n].tx.req] > 0

\* Only a wallet that has started the batch has given a nonce to an unsent request.
NoNonceYet ==
  \A r \in Requests :
    NotYetSent(r) /\ tracked[r].nonce # 0
      => ParallelSigning /\ pc = "broadcast" /\ r <= Last(batch)

\* What waits in the mempool has a nonce that is still free.
PoolAhead == \A t \in pool : ~Consumed(t.nonce)

\* Every transaction that can still take effect, or did, carries the nonce that
\* is tracked for its request, unless a reply was lost.
OneNonce ==
  /\ \A t \in pool : t.req \notin unsure => t.nonce = tracked[t.req].nonce
  /\ \A n \in DOMAIN chain :
       chain[n].ok /\ chain[n].tx.req \notin unsure => n = tracked[chain[n].tx.req].nonce

\* The program resends only what it has seen reverted, and that is final.
ResendIsSafe == \A r \in Requests : job[r] = "resend" => MinedReverted(tracked[r])

\* What is watched or replaced is pending, and was sent.
PendingWasSent ==
  /\ \A r \in pending : attempts[r] > 0
  /\ pc \in {"monitor", "fees", "replace"} =>
       \A r \in Requests : job[r] # "idle" => r \in pending
  /\ pc = "broadcast" => \A r \in pending : job[r] = "idle"
  /\ pc = "broadcast" => \A r \in Requests : job[r] \in {"idle", "todo"}
  /\ pc = "init" => pending = {}

\* A resolved request was sent, its tracked nonce is consumed, and it is never
\* worked on again.
ResolvedIsDone ==
  \A r \in resolved :
    /\ attempts[r] > 0
    /\ Consumed(tracked[r].nonce)
    /\ r \notin pending
    /\ job[r] = "idle"

\* A batch that starts has not met missing funds.
FundsFlag == pc = "init" => ~fundsError

\* The invariant that every step of the direct mode keeps: all parts together.
DirectInv ==
  /\ TypeOK
  /\ BatchInProgress
  /\ Unsent
  /\ NoNonceYet
  /\ PoolAhead
  /\ OneNonce
  /\ ResendIsSafe
  /\ PendingWasSent
  /\ ResolvedIsDone
  /\ FundsFlag
-----------------------------------------------------------------------------
(* What the reports, the retry budget and the nonces rest on.              *)

\* Whoever had a turn is accounted for: counted as done, reported, on a list of
\* the current batch, or still watched.
Accounted ==
  \A r \in Requests :
    \/ NotYetSent(r)
    \/ r \in resolved \cup allFailed \cup allRejected
    \/ r \in failedBatch \cup rejectedBatch \cup pending

\* Nobody is on a list of a batch that has not started.
ListsStartEmpty == pc = "init" => failedBatch = {} /\ rejectedBatch = {}

\* Whoever still has a turn, or is watched, is on no list and not counted as done.
Undecided ==
  pc # "done" =>
    \A r \in Requests :
      NotYetSent(r) \/ r \in pending
        => r \notin resolved \cup allFailed \cup allRejected \cup failedBatch \cup rejectedBatch

\* A request that is watched was submitted once by the broadcast and at most once
\* in each round of replacements; the round that goes on counts when its turn is
\* over.
AttemptsPerRound ==
  /\ \A r \in pending :
       /\ pc = "broadcast" => attempts[r] <= 1
       /\ pc \in {"monitor", "fees"} => attempts[r] <= retry + 1
       /\ pc = "replace" =>
            attempts[r] <= (IF job[r] = "idle" THEN retry + 2 ELSE retry + 1)
  /\ pc \in {"monitor", "fees", "replace"} => retry < MaxRetries
  /\ pc = "replace" => \A r \in Requests : job[r] # "idle" => r \in pending

\* Whatever is submitted again, or by a wallet for the first time, has a nonce.
SubmittedHasNonce ==
  /\ \A r \in pending : tracked[r].nonce # 0
  /\ ParallelSigning /\ pc = "broadcast" =>
       \A r \in Requests : job[r] = "todo" => tracked[r].nonce # 0

\* No two requests have a nonce in common: not in what is tracked for them, not
\* in the mempool and not on chain.  New nonces are above all that were used.
NoncesApart ==
  ParallelSigning \/ unsure = {} =>
    /\ \A r \in Requests : tracked[r].nonce < nextNonce
    /\ \A r, q \in Requests :
         tracked[r].nonce # 0 /\ tracked[r].nonce = tracked[q].nonce => r = q
    /\ \A t \in pool :
         t.nonce < nextNonce
         /\ \A r \in Requests : tracked[r].nonce = t.nonce => t.req = r
    /\ \A n \in DOMAIN chain :
         n < nextNonce /\ \A r \in Requests : tracked[r].nonce = n => chain[n].tx.req = r

\* The second inductive invariant, on top of the first.
BookkeepingInv ==
  /\ ListsStartEmpty
  /\ Accounted
  /\ ReportComplete
  /\ Undecided
  /\ AttemptsPerRound
  /\ RetryBudget
  /\ SubmittedHasNonce
  /\ NoncesApart
  /\ NoNonceGap
=============================================================================
