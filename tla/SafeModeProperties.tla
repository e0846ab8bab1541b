------------------------- MODULE SafeModeProperties -------------------------
(***************************************************************************)
(* What several owners may rely on when they run the Safe commands at the  *)
(* same time, and what the documentation of the Safe mode says.            *)
(***************************************************************************)
EXTENDS SafeMode

Runs == [pc : Phases, work : SUBSET Batches, nonce : Nat, fee : 0..MaxFee,
         seen : Nat, todo : SUBSET SafeTxs, loaded : SUBSET SafeTxs, waited : Nat]

\* The type invariant: what the service, the chain and each run hold.
TypeOK ==
  /\ proposals \in Seq([tx : SafeTxs, seen : Nat])
  /\ signed \subseteq SafeTxs \X Owners
  /\ executed \in Seq(SafeTxs)
  /\ fee \in Fees
  /\ inflight \subseteq [owner : Owners, tx : SafeTxs, lost : BOOLEAN]
  /\ run \in [Owners -> Runs]
  /\ printed \subseteq Batches /\ started \subseteq Batches /\ doubtful \subseteq Batches
  /\ done \subseteq SafeTxs

\* No batch of requests is executed twice, although users propose again what a
\* failed run has listed and what was rejected on chain.  Excepted are batches
\* whose proposal was accepted although its reply was lost, and batches that
\* two owners began to propose at the same time.
BatchAtMostOnce ==
  \A b \in Batches \ doubtful :
    \A m, n \in DOMAIN executed : executed[m].batch = b /\ executed[n].batch = b => m = n

\* What has become of a batch, as BatchDelivery sees it: it was executed, or a
\* proposal of it can be, or none can.  BatchDelivery knows no batch of which several
\* proposals were executed or can be.
ProposalsOf(b) == {t \in Proposed : t.batch = b}
Live(b) == {t \in ProposalsOf(b) : ~Superseded(t)}
Fate(b) ==
  IF b \in doubtful THEN "unknown"
  ELSE IF \E t, u \in Live(b) : t # u THEN "several"
  ELSE IF \E n \in DOMAIN executed : executed[n].batch = b THEN "executed"
  ELSE IF Live(b) # {} THEN "open"
  ELSE "absent"
BatchFates == [b \in Batches |-> Fate(b)]
ReportedBatches == {t.batch : t \in done} \cap Batches

\* A batch is proposed only while nothing of it can be carried out, what was executed
\* stays so and is never proposed again, and only that is reported.
Delivery == INSTANCE BatchDelivery WITH fate <- BatchFates, reported <- ReportedBatches
BatchDeliverySpec == Delivery!Spec

\* Two transactions compete for one Safe nonce by accident only if two runs
\* overlapped: the later proposer chose its nonce before the earlier proposal.
ConflictOnlyByOverlap ==
  \A i, j \in DOMAIN proposals :
    (/\ i < j
     /\ proposals[j].tx.kind = "request"
     /\ proposals[i].tx.nonce = proposals[j].tx.nonce) => proposals[j].seen < i

\* What the tool reports as executed was executed, also when two owners execute
\* the same queue at once and all but one of their transactions revert.
ReportedExecuted == \A t \in done : t.nonce \in DOMAIN executed /\ executed[t.nonce] = t

\* Once a nonce is up for rejection, no run that has seen it adds a confirmation
\* to a request at that nonce.
RejectionStopsSigning ==
  [][\A c \in signed' \ signed :
       c[1].kind = "request" =>
         \A i \in 1..run[c[2]].seen : proposals[i].tx # Rejection(c[1].nonce)]_vars

\* A run that has loaded a confirmed rejection never sends the request that the
\* rejection is to cancel.
RejectionWins ==
  [][\A e \in inflight' \ inflight :
       e.tx.kind = "request" => Rejection(e.tx.nonce) \notin run[e.owner].loaded]_vars

\* Every run ends: the wait for a lower fee is bounded however the fee moves,
\* and no list is ever extended.
RunsEnd == \A o \in Owners : [](~At(o, "idle") => <>At(o, "idle"))

-----------------------------------------------------------------------------
(* What the documentation says.                                            *)

\* proposeSafeTransactions: if a proposal fails, the "remaining pubkeys [are]
\* printed to stderr".
RemainingArePrinted ==
  \A b \in started :
    \/ b \in printed
    \/ \E t \in Proposed : t.batch = b
    \/ \E o \in Owners : b \in run[o].work
=============================================================================
