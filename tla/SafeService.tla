----------------------------- MODULE SafeService -----------------------------
(***************************************************************************)
(* What the Safe mode of eth-valctl talks to: the Safe Transaction Service *)
(* with its proposals and confirmations (as the repository's own mock of   *)
(* it implements them), the Safe contract, and the contract fee.           *)
(*                                                                         *)
(* A Safe transaction is identified by what is hashed: its nonce and what  *)
(* it does.  A request transaction carries one batch of requests with the  *)
(* fee that was frozen into it, a rejection does nothing but use its       *)
(* nonce, and a foreign transaction is one that another tool proposed.     *)
(***************************************************************************)
EXTENDS Integers, Sequences, FiniteSetsExt

CONSTANTS
  Owners,        \* the owners of the Safe that use the tool
  NumBatches,    \* batches of requests that are to be carried out
  MaxProposals,  \* bound: proposals the service ever receives
  MaxFee,        \* bound: the contract fee varies between 1 and MaxFee
  Threshold      \* confirmations the Safe requires

ASSUME SafeServiceAssumption ==
  /\ IsFiniteSet(Owners)
  /\ NumBatches \in Nat \ {0}
  /\ MaxProposals \in Nat
  /\ MaxFee \in Nat \ {0}
  /\ Threshold \in Nat \ {0}

VARIABLES
  proposals,  \* every proposal in the order of its submission
  signed,     \* confirmations: pairs of a transaction and an owner
  executed,   \* executed[n]: the Safe transaction that used nonce n
  fee,        \* the current fee of the system contract
  inflight    \* Ethereum transactions on their way to the Safe contract

serviceVars == <<proposals, signed, executed, fee, inflight>>

Batches == 1..NumBatches
Fees == 1..MaxFee
Kinds == {"request", "rejection", "foreign"}
SafeTxs == [nonce : Nat, kind : Kinds, batch : 0..NumBatches, fee : 0..MaxFee]

Request(n, b, f) == [nonce |-> n, kind |-> "request", batch |-> b, fee |-> f]
Rejection(n) == [nonce |-> n, kind |-> "rejection", batch |-> 0, fee |-> 0]
Foreign(n) == [nonce |-> n, kind |-> "foreign", batch |-> 0, fee |-> 0]

ServiceInit ==
  /\ proposals = <<>>
  /\ signed = {}
  /\ executed = <<>>
  /\ fee \in Fees
  /\ inflight = {}

\* The contract's next nonce.  (Real Safe nonces start at 0.)
OnChainNonce == Len(executed) + 1

Proposed == {proposals[i].tx : i \in DOMAIN proposals}
Pending == {t \in Proposed : t.nonce >= OnChainNonce}

\* getNextNonce: behind everything that is pending.
NextNonce == Max({OnChainNonce - 1} \cup {t.nonce : t \in Pending}) + 1

SubmissionOf(t) == CHOOSE i \in DOMAIN proposals : proposals[i].tx = t

\* A new proposal comes with the proposer's confirmation; "seen" is history:
\* how many proposals there were when the proposer chose the nonce.
Accept(t, o, seen) ==
  /\ t \notin Proposed
  /\ proposals' = Append(proposals, [tx |-> t, seen |-> seen])
  /\ signed' = signed \cup {<<t, o>>}

Confirmations(t) == {o \in Owners : <<t, o>> \in signed}
Executable(t) == Cardinality(Confirmations(t)) >= Threshold

\* The contract carries out a confirmed transaction with its next nonce.  A
\* request whose frozen fee is too low reverts, and a revert uses no nonce.
Succeeds(t) ==
  /\ t.nonce = OnChainNonce
  /\ Executable(t)
  /\ t.kind = "request" => t.fee >= fee

-----------------------------------------------------------------------------
(* What happens without the tool.                                          *)

FeeChanges ==
  /\ fee' \in Fees \ {fee}
  /\ UNCHANGED <<proposals, signed, executed, inflight>>

\* Another tool proposes a transaction, perhaps at a nonce that is taken.
ForeignProposal(o) ==
  /\ Len(proposals) < MaxProposals
  /\ \E n \in OnChainNonce .. NextNonce : Accept(Foreign(n), o, Len(proposals))
  /\ UNCHANGED <<executed, fee, inflight>>

\* ... and executes it, confirmed by owners who do not use this tool.
ForeignExecution ==
  /\ Foreign(OnChainNonce) \in Proposed
  /\ executed' = Append(executed, Foreign(OnChainNonce))
  /\ UNCHANGED <<proposals, signed, fee, inflight>>
=============================================================================
