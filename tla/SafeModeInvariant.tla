------------------------- MODULE SafeModeInvariant -------------------------
(***************************************************************************)
(* The inductive invariants behind what the owners of a Safe may rely on:  *)
(* what a run knows of the queue although its lists are snapshots, and     *)
(* where a batch of requests can be.                                       *)
(***************************************************************************)
EXTENDS SafeModeProperties

Proposing == {"getNonce", "propose"}

\* A run has batches while it proposes, and transactions while it does anything
\* else.
WorkByPlace ==
  \A o \in Owners :
    /\ run[o].work # {} <=> run[o].pc \in Proposing
    /\ run[o].todo # {} <=> run[o].pc \notin Proposing \cup {"idle"}

\* What a proposal of each kind looks like: only a request carries a batch, and
\* of each nonce there is one rejection.
WellFormed(t) ==
  /\ t.kind = "request" => t.batch \in Batches
  /\ t.kind = "rejection" => t = Rejection(t.nonce)
  /\ t.kind = "foreign" => t = Foreign(t.nonce)

ProposalsWellFormed == \A t \in Proposed : WellFormed(t)

\* Whatever is confirmed, sent or carried out was proposed before; only the
\* rejections a run still has to propose are new.
QueueWasProposed ==
  /\ \A o \in Owners :
       IF At(o, "reject") THEN \A t \in run[o].todo : t = Rejection(t.nonce)
                          ELSE run[o].todo \subseteq Proposed
  /\ \A e \in inflight : e.tx \in Proposed
  /\ \A n \in DOMAIN executed : executed[n] \in Proposed

\* The contract carries out the transactions in the order of their nonces.
ExecutedInOrder == \A n \in DOMAIN executed : executed[n].nonce = n

\* A run waits for the Ethereum transaction it has sent for the transaction it is
\* at, and once that is mined it was carried out.
OneAtATime ==
  /\ \A e \in inflight : ~e.lost => At(e.owner, "sent") /\ e.tx = Current(e.owner)
  /\ \A o \in Owners :
       At(o, "mined") => /\ Current(o).nonce \in DOMAIN executed
                         /\ executed[Current(o).nonce] = Current(o)

\* No list a run works on holds a request next to a rejection the run has seen,
\* among what it loaded or among what was proposed by then.
ListsWithoutRejected ==
  \A o \in Owners : \A t \in run[o].todo :
    t.kind = "request" =>
      /\ Rejection(t.nonce) \notin run[o].loaded
      /\ \A i \in 1..run[o].seen : proposals[i].tx # Rejection(t.nonce)

\* What a run had seen when it chose its nonce lies behind that nonce, for the
\* nonces still to be used and for those that were.
BehindNonce(n, seen) == \A i \in 1..seen : proposals[i].tx.nonce < n
ChosenBehind ==
  /\ \A o \in Owners :
       /\ run[o].seen <= Len(proposals)
       /\ At(o, "propose") => BehindNonce(run[o].nonce, run[o].seen)
  /\ \A j \in DOMAIN proposals :
       /\ proposals[j].seen < j
       /\ proposals[j].tx.kind = "request" =>
            BehindNonce(proposals[j].tx.nonce, proposals[j].seen)

\* All parts about the queue together.
QueueInv ==
  /\ TypeOK
  /\ WorkByPlace
  /\ ProposalsWellFormed
  /\ QueueWasProposed
  /\ ExecutedInOrder
  /\ OneAtATime
  /\ ListsWithoutRejected
  /\ ChosenBehind
  /\ ReportedExecuted

-----------------------------------------------------------------------------
(* Where a batch can be.                                                   *)

InWork(b) == \E o \in Owners : b \in run[o].work
MayBeProposed(b) == InWork(b) \/ b \in printed \/ b \notin started

\* One run proposes a batch at a time; while one does, or may begin to, nothing of
\* the batch can be carried out any more; and what is being proposed is not on a
\* list of what remains.
OneProposer(b) == \A o, p \in Owners : b \in run[o].work \cap run[p].work => o = p
NothingOpen(b) == MayBeProposed(b) => \A t \in ProposalsOf(b) : Superseded(t)
Registered(b) ==
  \A o \in Owners :
    At(o, "propose") /\ b \in run[o].work => b \in started /\ b \notin printed

\* Of all proposals of a batch at most one can be carried out, or was.
OneOpen(b) ==
  \A t, u \in ProposalsOf(b) : t = u \/ Superseded(t) \/ Superseded(u)

\* Requests use nonces of the contract, which counts from 1.
NoncesFromOne ==
  /\ \A o \in Owners : At(o, "propose") => run[o].nonce >= 1
  /\ \A t \in Proposed : t.kind = "request" => t.nonce >= 1

\* All parts about batches together.
BatchInv ==
  /\ NoncesFromOne
  /\ \A b \in Batches \ doubtful :
       OneProposer(b) /\ NothingOpen(b) /\ Registered(b) /\ OneOpen(b)
=============================================================================
