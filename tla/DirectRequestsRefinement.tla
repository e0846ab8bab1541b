---------------------- MODULE DirectRequestsRefinement ----------------------
(***************************************************************************)
(* The direct mode implements RequestDelivery, for every value of the      *)
(* constants: every step of the program and of the chain is a step of the  *)
(* abstract promise about the requests, or invisible to it.                *)
(***************************************************************************)
EXTENDS DirectRequestsReports

-----------------------------------------------------------------------------
(* Effects.                                                                *)

\* A request has taken effect once or not at all, for all that counts.
FewEffects == \A r \in Requests : Effects(r) = IF Landings(r) = {} THEN 0 ELSE 1

\* What every step of the refinement may rely on.
MappingInv == DirectInv /\ BookkeepingInv /\ FewEffects

\* The nonce that is tracked for a request is the only one it can take effect at.
LEMMA EffectsAreFew == DirectInv => FewEffects
<1>. SUFFICES ASSUME DirectInv, NEW r \in Requests
              PROVE  Effects(r) = IF Landings(r) = {} THEN 0 ELSE 1
  BY DEF FewEffects
<1>1. CASE Landings(r) = {}
  BY <1>1, FS_EmptySet DEF Effects
<1>2. CASE Landings(r) # {} /\ r \in unsure
  BY <1>2 DEF Effects
<1>3. CASE Landings(r) # {} /\ r \notin unsure
  <2>1. PICK n : n \in Landings(r)
    BY <1>3
  <2>2. Landings(r) = {n}
    BY <1>3, <2>1 DEF DirectInv, OneNonce, Landings
  <2>3. Cardinality({n}) = 1
    BY FS_Singleton
  <2>. QED
    BY <1>3, <2>2, <2>3 DEF Effects
<1>. QED
  BY <1>1, <1>2, <1>3

\* The invariants hold in every reachable state.
LEMMA MappingInvariant == Spec => []MappingInv
  BY DirectInvariant, BookkeepingInvariant, EffectsAreFew, PTL DEF MappingInv

\* Only a block changes what took effect.
LEMMA EffectsStay ==
  ASSUME MappingInv, MappingInv', chain' = chain
  PROVE  Landed' = Landed
<1>1. ASSUME NEW r \in Requests PROVE Effects(r)' = Effects(r)
  BY DEF MappingInv, FewEffects, Landings
<1>. QED
  BY <1>1 DEF Landed

\* A block that mines a transaction of r changes at most the effects of r, which
\* was submitted.
LEMMA MiningLands ==
  ASSUME MappingInv, MappingInv', NEW t \in pool, NEW ok \in BOOLEAN, Mine(t, ok)
  PROVE  /\ t.req \in Requests /\ attempts[t.req] > 0
         /\ \/ Landed' = Landed
            \/ Landed[t.req] = 0 /\ Landed' = [Landed EXCEPT ![t.req] = 1]
<1>0. TypeInv /\ Unsent
  BY DEF MappingInv, DirectInv, TypeInv, BatchInProgress
<1>1. /\ t.req \in Requests /\ attempts[t.req] > 0
  BY <1>0, TransactionTypes DEF Unsent
<1>2. /\ DOMAIN chain' = DOMAIN chain \cup {t.nonce} /\ ~Consumed(t.nonce)
      /\ \A n \in DOMAIN chain : chain'[n] = chain[n]
      /\ chain'[t.nonce].tx = t
  BY <1>0, MineFacts
<1>3. ASSUME NEW q \in Requests, q # t.req PROVE Effects(q)' = Effects(q)
  <2>1. Landings(q)' = Landings(q)
    BY <1>2, <1>3 DEF Landings
  <2>. QED
    BY <2>1 DEF MappingInv, FewEffects
<1>4. Landings(t.req) \subseteq Landings(t.req)'
  BY <1>2 DEF Landings
<1>5. Effects(t.req)' = Effects(t.req) \/ (Effects(t.req) = 0 /\ Effects(t.req)' = 1)
  BY <1>1, <1>4 DEF MappingInv, FewEffects
<1>. QED
  BY <1>1, <1>3, <1>5 DEF Landed

-----------------------------------------------------------------------------
(* Outcomes.                                                               *)

\* Whoever has a turn or is watched is still open.
LEMMA StillOpen ==
  ASSUME MappingInv, pc # "done", NEW r \in Requests, NotYetSent(r) \/ r \in pending
  PROVE  Decided[r] = "open"
  BY DEF MappingInv, BookkeepingInv, Undecided, Decided, Outcome

\* Requests that are open and end up on a list are settled, the others stay.
SettledAs(S, o) ==
  /\ S \subseteq Requests
  /\ \A r \in S : Decided[r] = "open"
  /\ Decided' = [r \in Requests |-> IF r \in S THEN o ELSE Decided[r]]

\* The end of a batch fails what is still pending and, without funds, what is
\* behind; everything else keeps its outcome when the lists are merged.
LEMMA BatchEndSettles ==
  ASSUME MappingInv, StartBatchFails \/ FinishBatch \/ AbortBatch
  PROVE  \E S \in SUBSET Requests : SettledAs(S, "failed")
<1>. USE DEF elVars, histVars, batchVars, reportVars
<1>0. TypeInv /\ pending \subseteq Requests
  BY DEF MappingInv, DirectInv, TypeInv, TypeOK, BatchInProgress
<1>1. CASE StartBatchFails
  <2>1. Batch(batch) \subseteq Requests
    BY <1>0, BatchInRequests, BatchNumbers
  <2>2. \A r \in Batch(batch) : NotYetSent(r)
    BY <1>0, <1>1, BatchNumbers DEF StartBatchFails, NotYetSent, Batch
  <2>3. \A r \in Batch(batch) : Decided[r] = "open"
    BY <1>1, <2>1, <2>2, StillOpen DEF StartBatchFails
  <2>4. Decided' = [r \in Requests |-> IF r \in Batch(batch) THEN "failed" ELSE Decided[r]]
    <3>1. ASSUME NEW r \in Requests
          PROVE  Outcome(r)' = IF r \in Batch(batch) THEN "failed" ELSE Decided[r]
      BY <1>1, <2>3 DEF StartBatchFails, NextBatch, MappingInv, BookkeepingInv, ListsStartEmpty,
         Decided, Outcome
    <3>. QED
      BY <3>1 DEF Decided
  <2>. QED
    BY <2>1, <2>3, <2>4 DEF SettledAs
<1>2. CASE FinishBatch
  <2>1. \A r \in pending : Decided[r] = "open"
    BY <1>0, <1>2, StillOpen DEF FinishBatch
  <2>2. ASSUME NEW r \in Requests
        PROVE  Outcome(r)' = IF r \in pending THEN "failed" ELSE Decided[r]
    BY <1>2, <2>1 DEF FinishBatch, NextBatch, BatchFailures, Decided, Outcome
  <2>. QED
    BY <1>0, <2>1, <2>2 DEF SettledAs, Decided
<1>3. CASE AbortBatch
  <2>. DEFINE S == pending \cup {r \in Requests : r > Last(batch)}
  <2>1. \A r \in S : Decided[r] = "open"
    BY <1>0, <1>3, StillOpen DEF AbortBatch, NotYetSent
  <2>2. ASSUME NEW r \in Requests
        PROVE  Outcome(r)' = IF r \in S THEN "failed" ELSE Decided[r]
    BY <1>3, <2>1 DEF AbortBatch, BatchFailures, Decided, Outcome
  <2>. QED
    BY <1>0, <2>1, <2>2 DEF SettledAs, Decided
<1>. QED
  BY <1>1, <1>2, <1>3

\* The steps in between settle nothing.
LEMMA LoopSettlesNothing ==
  ASSUME StartBatch \/ EndBroadcast \/ LoopStep \/ ChainStep \/ UNCHANGED vars
  PROVE  Decided' = Decided
<1>. USE DEF elVars, histVars, batchVars, reportVars
<1>1. UNCHANGED <<resolved, allFailed, allRejected, failedBatch, rejectedBatch>>
  BY DEF StartBatch, EndBroadcast, LoopStep, AllResolved, SameBlock, ChainStep, vars,
     BlockNumberUnavailable, BlockChanged, FeesUnavailable, FeesFetched, EndReplacement
<1>. QED
  BY <1>1 DEF Decided, Outcome

\* A request that is dropped or rejected while it is watched settles it alone.
LEMMA OneIsSettled ==
  ASSUME MappingInv, NEW r \in Requests, Decided[r] = "open",
         UNCHANGED <<allFailed, allRejected>>,
         \/ resolved' = resolved /\ failedBatch' = failedBatch /\ rejectedBatch' = rejectedBatch
         \/ resolved' = resolved \cup {r} /\ failedBatch' = failedBatch /\ rejectedBatch' = rejectedBatch
         \/ resolved' = resolved /\ failedBatch' = failedBatch \cup {r} /\ rejectedBatch' = rejectedBatch
         \/ resolved' = resolved /\ failedBatch' = failedBatch /\ rejectedBatch' = rejectedBatch \cup {r}
  PROVE  \E o \in {"executed", "failed", "rejected", "open"} :
           Decided' = [Decided EXCEPT ![r] = o]
<1>1. r \notin resolved \cup failedBatch \cup allFailed \cup rejectedBatch \cup allRejected
  BY DEF Decided, Outcome
<1>2. \A q \in Requests : q # r => Outcome(q)' = Outcome(q)
  BY DEF Outcome
<1>3. Outcome(r)' \in {"executed", "failed", "rejected", "open"}
  BY DEF Outcome
<1>. QED
  BY <1>2, <1>3 DEF Decided

-----------------------------------------------------------------------------
(* The refinement, step by step.                                           *)

\* Every status check that settles a request settles it while it is open.
LEMMA QuietRefines ==
  ASSUME MappingInv, MappingInv', NEW r \in Requests, QuietOf(r)
  PROVE  Delivery!Next
<1>. USE DEF elVars, histVars, batchVars, reportVars
<1>0. TypeInv /\ PendingWasSent
  BY DEF MappingInv, DirectInv, TypeInv, BatchInProgress
<1>1. Decided[r] = "open"
  <2>1. r \in pending /\ pc # "done"
    BY <1>0 DEF QuietOf, CheckReceipt, CategorizeByReceipt, CategorizeByNonce, Recheck,
       PendingWasSent
  <2>. QED
    BY <2>1, StillOpen
<1>2. PICK o \in {"executed", "failed", "rejected", "open"} :
        Decided' = [Decided EXCEPT ![r] = o]
  BY <1>1, OneIsSettled
  DEF QuietOf, CheckReceipt, CategorizeByReceipt, CategorizeByNonce, Recheck, Drop
<1>3. attempts' = attempts /\ Landed' = Landed
  BY EffectsStay DEF QuietOf, CheckReceipt, CategorizeByReceipt, CategorizeByNonce, Recheck
<1>. QED
  <2>1. CASE o = "open"
    <3>1. Decided' = [q \in Requests |-> IF q \in {} THEN "failed" ELSE Decided[q]]
      BY <1>1, <1>2, <2>1 DEF Decided
    <3>2. Delivery!Settle({}, "failed")
      BY <1>3, <3>1 DEF Delivery!Settle
    <3>. QED
      BY <3>2 DEF Delivery!Next, Delivery!Outcomes
  <2>2. CASE o # "open"
    <3>1. Decided' = [q \in Requests |-> IF q \in {r} THEN o ELSE Decided[q]]
      BY <1>2 DEF Decided
    <3>2. Delivery!Settle({r}, o)
      BY <1>1, <1>3, <3>1 DEF Delivery!Settle
    <3>. QED
      BY <2>2, <3>2 DEF Delivery!Next, Delivery!Outcomes
  <2>. QED
    BY <2>1, <2>2

\* Every submission is one of a request that is open, and settles it, and those
\* behind it if the broadcast is given up.
LEMMA SubmissionRefines ==
  ASSUME MappingInv, MappingInv', NEW r \in Requests, SubmissionStep(r)
  PROVE  Delivery!Next
<1>0. TypeInv /\ PendingWasSent
  BY DEF MappingInv, DirectInv, TypeInv, BatchInProgress
<1>1. Decided[r] = "open"
  <2>1. pc # "done" /\ (NotYetSent(r) \/ r \in pending)
    BY <1>0 DEF SubmissionStep, ParallelSend, SequentialSend, Resend, Replace, NotYetSent,
       PendingWasSent
  <2>. QED
    BY <2>1, StillOpen
<1>2. attempts' = [attempts EXCEPT ![r] = attempts[r] + 1]
  BY DEF SubmissionStep, ParallelSend, SequentialSend, Resend, Replace, CountAttempt
<1>3. Landed' = Landed
  BY <1>0, EffectsStay, SubmissionSteps DEF Submission
<1>. DEFINE S == Working({"todo"})
<1>4. \/ \E o \in {"executed", "failed", "rejected", "open"} :
           Decided' = [Decided EXCEPT ![r] = o]
      \/ /\ r \in S /\ \A q \in S : Decided[q] = "open"
         /\ Decided' = [q \in Requests |-> IF q \in S THEN "failed" ELSE Decided[q]]
  <2>1. CASE ParallelSend(r) \/ Resend(r) \/ Replace(r)
    BY <1>1, <2>1, OneIsSettled DEF ParallelSend, Resend, Replace, RejectByUser, Drop,
       reportVars
  <2>2. CASE SequentialSend(r)
    <3>1. CASE /\ UNCHANGED <<resolved, allFailed, allRejected>>
               /\ \/ failedBatch' = failedBatch /\ rejectedBatch' = rejectedBatch
                  \/ failedBatch' = failedBatch \cup {r} /\ rejectedBatch' = rejectedBatch
                  \/ failedBatch' = failedBatch /\ rejectedBatch' = rejectedBatch \cup {r}
      BY <1>1, <3>1, OneIsSettled
    <3>2. CASE /\ UNCHANGED <<resolved, allFailed, allRejected, rejectedBatch>>
               /\ failedBatch' = failedBatch \cup S
      <4>1. r \in S /\ pc = "broadcast"
        BY <2>2 DEF SequentialSend, Working
      <4>2. \A q \in S : q \in Requests /\ NotYetSent(q)
        BY <4>1 DEF Working, NotYetSent
      <4>3. \A q \in S : Decided[q] = "open"
        BY <4>1, <4>2, StillOpen
      <4>4. ASSUME NEW q \in Requests
            PROVE  Outcome(q)' = IF q \in S THEN "failed" ELSE Decided[q]
        BY <3>2, <4>3 DEF Decided, Outcome
      <4>. QED
        BY <4>1, <4>3, <4>4 DEF Decided
    <3>. QED
      BY <2>2, <3>1, <3>2 DEF SequentialSend, reportVars
  <2>. QED
    BY <2>1, <2>2 DEF SubmissionStep
<1>. QED
  <2>1. ASSUME NEW o \in {"executed", "failed", "rejected", "open"},
               Decided' = [Decided EXCEPT ![r] = o]
        PROVE  Delivery!Next
    <3>1. Delivery!Submit(r)
      BY <1>1, <1>2, <1>3, <2>1 DEF Delivery!Submit, Delivery!Outcomes
    <3>. QED
      BY <3>1 DEF Delivery!Next
  <2>2. ASSUME r \in S, \A q \in S : Decided[q] = "open",
               Decided' = [q \in Requests |-> IF q \in S THEN "failed" ELSE Decided[q]]
        PROVE  Delivery!Next
    <3>1. S \subseteq Requests
      BY DEF Working
    <3>2. S \cup {r} = S
      BY <2>2
    <3>3. Delivery!SubmitAndGiveUp(r, S)
      BY <1>1, <1>2, <1>3, <2>2, <3>2 DEF Delivery!SubmitAndGiveUp
    <3>. QED
      BY <3>1, <3>3 DEF Delivery!Next
  <2>. QED
    BY <1>4, <2>1, <2>2

\* A block makes at most one request take effect.
LEMMA ChainRefines ==
  ASSUME MappingInv, MappingInv', ChainStep
  PROVE  Delivery!Next \/ UNCHANGED <<attempts, Landed, Decided>>
<1>1. attempts' = attempts /\ Decided' = Decided
  BY LoopSettlesNothing DEF ChainStep, histVars
<1>2. CASE EmptyBlock
  BY <1>1, <1>2, EffectsStay DEF EmptyBlock
<1>3. ASSUME NEW t \in pool, NEW ok \in BOOLEAN, Mine(t, ok), Landed' # Landed
      PROVE  Delivery!Next
  <2>1. /\ t.req \in Requests /\ attempts[t.req] > 0
        /\ Landed[t.req] = 0 /\ Landed' = [Landed EXCEPT ![t.req] = 1]
    BY <1>3, MiningLands
  <2>2. Delivery!Land(t.req)
    BY <1>1, <2>1 DEF Delivery!Land
  <2>. QED
    BY <2>1, <2>2 DEF Delivery!Next
<1>. QED
  BY <1>1, <1>2, <1>3 DEF ChainStep, NewBlock

\* Every step of the direct mode is one of the abstract promise, or invisible to it.
LEMMA StepRefines ==
  MappingInv /\ MappingInv' /\ [Next]_vars => [Delivery!Next]_(Delivery!vars)
<1>. SUFFICES ASSUME MappingInv, MappingInv', [Next]_vars
              PROVE  Delivery!Next \/ UNCHANGED <<attempts, Landed, Decided>>
  BY DEF Delivery!vars
<1>1. CASE StartBatchFails \/ FinishBatch \/ AbortBatch
  <2>1. attempts' = attempts /\ Landed' = Landed
    BY <1>1, EffectsStay DEF StartBatchFails, FinishBatch, AbortBatch, histVars, elVars
  <2>2. PICK S \in SUBSET Requests : SettledAs(S, "failed")
    BY <1>1, BatchEndSettles
  <2>3. Delivery!Settle(S, "failed")
    BY <2>1, <2>2 DEF SettledAs, Delivery!Settle
  <2>. QED
    BY <2>3 DEF Delivery!Next, Delivery!Outcomes
<1>2. CASE StartBatch \/ EndBroadcast \/ LoopStep \/ UNCHANGED vars
  <2>1. attempts' = attempts /\ chain' = chain
    BY <1>2 DEF StartBatch, EndBroadcast, LoopStep, AllResolved, SameBlock, vars,
       BlockNumberUnavailable, BlockChanged, FeesUnavailable, FeesFetched, EndReplacement,
       histVars, elVars
  <2>. QED
    BY <1>2, <2>1, EffectsStay, LoopSettlesNothing
<1>. QED
  BY <1>1, <1>2, QuietRefines, SubmissionRefines, ChainRefines
  DEF Next, Tool, BatchStep, RequestStep, SubmissionStep, QuietOf, Ended

\* Initially nothing was submitted, nothing took effect and nothing is decided.
LEMMA InitRefines == Init /\ MappingInv => Delivery!Init
<1>. SUFFICES ASSUME Init, MappingInv PROVE Delivery!Init
  OBVIOUS
<1>1. Landed = [r \in Requests |-> 0]
  BY DEF Init, ELInit, Landed, Landings, MappingInv, FewEffects
<1>2. Decided = [r \in Requests |-> "open"]
  BY DEF Init, Decided, Outcome
<1>. QED
  BY <1>1, <1>2 DEF Init, Delivery!Init

\* The direct mode implements the promise of RequestDelivery: each request takes
\* effect at most once, is submitted only while it is open, and what became of it
\* is said once.
THEOREM DirectImplementsDelivery == Spec => DeliverySpec
  BY MappingInvariant, InitRefines, StepRefines, PTL DEF Spec, DeliverySpec, Delivery!Spec
=============================================================================
