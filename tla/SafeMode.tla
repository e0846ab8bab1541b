------------------------------ MODULE SafeMode ------------------------------
(***************************************************************************)
(* The Safe mode of eth-valctl: owners of one Safe propose batches of      *)
(* requests, confirm what is pending, and execute what is confirmed, each  *)
(* with runs of the command line tool of their own, at the same time.      *)
(*                                                                         *)
(* run[o] is the run that owner o has going: which command, where in it,   *)
(* and what it loaded from the service.  Every call to the service, the    *)
(* node or the user is a step of its own, and every list is a snapshot.    *)
(* Prompts and the options that answer them are free choices.              *)
(***************************************************************************)
EXTENDS SafeService

CONSTANTS
  Commands,     \* the commands each owner runs
  MaxWait,      \* --max-fee-wait-blocks
  MaxLost,      \* bound: Ethereum transactions on their way that no run waits for
  ForeignTools  \* other tools use the Safe too

AllCommands == {"propose", "sign", "execute"}

ASSUME SafeModeAssumption ==
  /\ Commands \in [Owners -> SUBSET AllCommands]
  /\ MaxWait \in Nat
  /\ MaxLost \in Nat
  /\ ForeignTools \in BOOLEAN

VARIABLES
  run,       \* the run of each owner
  printed,   \* batches listed as "not yet proposed" by a run that failed
  started,   \* history: batches some run began to propose
  doubtful,  \* history: batches with a lost reply, or in two runs at once
  done       \* history: transactions some run reported as executed

reportVars == <<printed, started, doubtful, done>>
vars == <<proposals, signed, executed, fee, inflight, run, printed, started,
          doubtful, done>>

Phases == {"idle", "getNonce", "propose", "sign", "validate", "reject", "nonceCheck",
           "feeCheck", "wait", "poll", "send", "sent", "mined", "reverted"}

NoRun == [pc |-> "idle", work |-> {}, nonce |-> 0, fee |-> 0, seen |-> 0,
          todo |-> {}, loaded |-> {}, waited |-> 0]

Init ==
  /\ ServiceInit
  /\ run = [o \in Owners |-> NoRun]
  /\ printed = {}
  /\ started = {}
  /\ doubtful = {}
  /\ done = {}

At(o, pc) == run[o].pc = pc
Goto(o, pc) == run' = [run EXCEPT ![o].pc = pc]
EndRun(o) == run' = [run EXCEPT ![o] = NoRun]
Lowest(S) == CHOOSE t \in S : \A u \in S : t.nonce <= u.nonce

-----------------------------------------------------------------------------
(* Slips: how a small mistake in the code below would read.  They are here *)
(* to measure the properties; no specification uses them.                  *)

NonceFromChain == OnChainNonce
PrintedFromStart(o) == {b \in started : b <= Min(run[o].work)} \cup run[o].work
EarliestOnly(t, u) == SubmissionOf(t) <= SubmissionOf(u)
AnyReceipt(o) == At(o, "mined") \/ At(o, "reverted")
SleepNotCounted(n) == n
AllPending(S) == S

-----------------------------------------------------------------------------
(* Proposing: executeSafePipeline and proposeSafeTransactions.             *)

\* The batches a user asks for: new ones, those a failed run has listed, and
\* those whose every proposal lost its nonce to something else.
Superseded(t) == t.nonce < OnChainNonce /\ executed[t.nonce] # t
Wanted ==
  {b \in Batches :
    \/ b \notin started \/ b \in printed
    \/ /\ \E t \in Proposed : t.batch = b
       /\ \A t \in Proposed : t.batch = b => Superseded(t)
       /\ \A o \in Owners : b \notin run[o].work}

\* The contract fee is read before the nonce; --safe-fee-tip adds to it.
ProposeStart(o) ==
  /\ At(o, "idle")
  /\ \E W \in (SUBSET Wanted) \ {{}}, offer \in fee..MaxFee :
       /\ Len(proposals) + Cardinality(W) <= MaxProposals
       /\ run' = [run EXCEPT ![o] = [NoRun EXCEPT !.pc = "getNonce", !.work = W, !.fee = offer]]
       /\ doubtful' = doubtful \cup {b \in W : \E p \in Owners : b \in run[p].work}
  /\ UNCHANGED <<serviceVars, printed, started, done>>

\* startingNonce; an error here ends the run before anything is proposed.
StartingNonce == NextNonce

ProposeNonce(o) ==
  /\ At(o, "getNonce")
  /\ \/ /\ run' = [run EXCEPT ![o].pc = "propose", ![o].nonce = StartingNonce,
                              ![o].seen = Len(proposals)]
        /\ started' = started \cup run[o].work
        /\ printed' = printed \ run[o].work
     \/ EndRun(o) /\ UNCHANGED <<printed, started>>
  /\ UNCHANGED <<serviceVars, doubtful, done>>

\* printRemainingPubkeys: everything from the failed batch on.
RemainingPubkeys(o) == run[o].work

\* withRateRetry: an exhausted rate limit or a refused API key exits the process
\* on the spot.
ProcessExit(o) == EndRun(o)

\* One batch: create, sign, propose.  A duplicate counts as proposed.  An error
\* (perhaps only of the reply) ends the run and lists what remains.
ProposeBatch(o) ==
  /\ At(o, "propose")
  /\ LET b == Min(run[o].work)
         t == Request(run[o].nonce, b, run[o].fee)
         rest == run[o].work \ {b}
     IN \/ /\ \/ Accept(t, o, run[o].seen)
              \/ t \in Proposed /\ UNCHANGED <<proposals, signed>>
           /\ IF rest = {}
              THEN EndRun(o)
              ELSE run' = [run EXCEPT ![o].work = rest, ![o].nonce = @ + 1]
           /\ UNCHANGED <<printed, doubtful>>
        \/ /\ \/ UNCHANGED <<proposals, signed, doubtful>>
              \/ Accept(t, o, run[o].seen) /\ doubtful' = doubtful \cup {b}
           /\ printed' = printed \cup RemainingPubkeys(o)
           /\ EndRun(o)
        \/ /\ ProcessExit(o)
           /\ UNCHANGED <<proposals, signed, printed, doubtful>>
  /\ UNCHANGED <<executed, fee, inflight, started, done>>

-----------------------------------------------------------------------------
(* Which transactions a run works on: filter and deduplication.            *)

\* filterEthValctlTransactions
Ours == {t \in Pending : t.kind # "foreign"}

\* selectPrioritizedTransaction: a rejection before anything else, then the
\* latest submission.
Outranks(t, u) ==
  \/ t.kind = "rejection" /\ u.kind # "rejection"
  \/ t.kind = u.kind /\ SubmissionOf(t) >= SubmissionOf(u)

\* deduplicateByNonce
Dedup(S) == {t \in S : \A u \in S : u.nonce = t.nonce => Outranks(t, u)}

-----------------------------------------------------------------------------
(* Confirming: signPendingTransactions.                                    *)

ToSign(o) == {t \in Dedup(Ours) : <<t, o>> \notin signed}

SignStart(o) ==
  /\ At(o, "idle")
  /\ ToSign(o) # {}
  /\ run' = [run EXCEPT ![o] = [NoRun EXCEPT !.pc = "sign", !.todo = ToSign(o),
                                             !.seen = Len(proposals)]]
  /\ UNCHANGED <<serviceVars, reportVars>>

\* An error, of the device, the service or only the reply, ends the run.
SignOne(o) ==
  /\ At(o, "sign")
  /\ \E t \in run[o].todo :
       \/ /\ signed' = signed \cup {<<t, o>>}
          /\ IF run[o].todo = {t} THEN EndRun(o)
             ELSE run' = [run EXCEPT ![o].todo = @ \ {t}]
       \/ signed' \in {signed, signed \cup {<<t, o>>}} /\ EndRun(o)
  /\ UNCHANGED <<proposals, executed, fee, inflight, reportVars>>

-----------------------------------------------------------------------------
(* Executing: executeReadyTransactions.                                    *)

\* loadExecutableTransactions: only what has enough confirmations, then one
\* transaction per nonce.
Confirmed(S) == {t \in S : Executable(t)}
Loaded == Confirmed(Ours)

ExecuteStart(o) ==
  /\ At(o, "idle")
  /\ Loaded # {}
  /\ run' = [run EXCEPT ![o] = [NoRun EXCEPT
       !.pc = IF \A t \in Dedup(Loaded) : t.kind = "rejection"
              THEN "nonceCheck" ELSE "validate",
       !.todo = Dedup(Loaded), !.loaded = Loaded]]
  /\ UNCHANGED <<serviceVars, reportVars>>

\* extractFeeInfo: a request carries the fee of its first call of a system
\* contract, a rejection none.
BearsFee(t) == t.kind = "request"
Stale(t) == BearsFee(t) /\ t.fee < fee

\* validateTransactionFees and handleFeeValidationResult.  Unreadable fees stop
\* the run or are waved through; stale ones are left to the loop, or their
\* nonces are rejected under --stale-fee-action reject.
ValidateFees(o) ==
  /\ At(o, "validate")
  /\ \/ Goto(o, "nonceCheck")
     \/ EndRun(o)
     \/ LET stale == {t \in run[o].todo : Stale(t)}
        IN /\ stale # {}
           /\ run' = [run EXCEPT ![o].pc = "reject",
                                 ![o].todo = {Rejection(t.nonce) : t \in stale}]
  /\ UNCHANGED <<serviceVars, reportVars>>

\* rejectStaleTransactions, in nonce order.  A rejection that exists already is
\* an error like any other: it ends the run.
RejectOne(o) ==
  /\ At(o, "reject")
  /\ LET t == Lowest(run[o].todo)
     IN \/ /\ Len(proposals) < MaxProposals
           /\ Accept(t, o, 0)
           /\ IF run[o].todo = {t} THEN EndRun(o)
              ELSE run' = [run EXCEPT ![o].todo = @ \ {t}]
        \/ /\ EndRun(o)
           /\ \/ UNCHANGED <<proposals, signed>>
              \/ Len(proposals) < MaxProposals /\ Accept(t, o, 0)
  /\ UNCHANGED <<executed, fee, inflight, reportVars>>

\* validateNonceSequence looks at the lowest nonce only; then the user agrees.
CheckNonces(o) ==
  /\ At(o, "nonceCheck")
  /\ \/ Lowest(run[o].todo).nonce <= OnChainNonce /\ Goto(o, "feeCheck")
     \/ EndRun(o)
  /\ UNCHANGED <<serviceVars, reportVars>>

Current(o) == Lowest(run[o].todo)

\* checkFeePerTransaction: a fee that is sufficient, cannot be read or does not
\* apply lets the transaction through; a stale one is waited for or ends the run.
CheckFee(o) ==
  /\ At(o, "feeCheck")
  /\ \/ Goto(o, "send")
     \/ /\ Stale(Current(o))
        /\ \/ MaxWait > 0 /\ run' = [run EXCEPT ![o].pc = "wait", ![o].waited = 0]
           \/ EndRun(o)
  /\ UNCHANGED <<serviceVars, reportVars>>

\* waitForSufficientFee: sleep a slot, look again; an error after the last one.
Slept(n) == n + 1

Sleep(o) ==
  /\ At(o, "wait")
  /\ run' = [run EXCEPT ![o].pc = "poll", ![o].waited = Slept(@)]
  /\ UNCHANGED <<serviceVars, reportVars>>

PollFee(o) ==
  /\ At(o, "poll")
  /\ \/ Goto(o, "send")
     \/ /\ Stale(Current(o))
        /\ IF run[o].waited < MaxWait THEN Goto(o, "wait") ELSE EndRun(o)
  /\ UNCHANGED <<serviceVars, reportVars>>

MayLose == Cardinality({e \in inflight : e.lost}) < MaxLost

\* executeTransaction: on an error the Ethereum transaction may be out anyway.
Send(o) ==
  /\ At(o, "send")
  /\ LET eth(lost) == [owner |-> o, tx |-> Current(o), lost |-> lost]
     IN \/ inflight' = inflight \cup {eth(FALSE)} /\ Goto(o, "sent")
        \/ EndRun(o) /\ UNCHANGED inflight
        \/ EndRun(o) /\ MayLose /\ inflight' = inflight \cup {eth(TRUE)}
  /\ UNCHANGED <<proposals, signed, executed, fee, reportVars>>

\* A block includes one of the transactions on their way.
Include(e) ==
  /\ inflight' = inflight \ {e}
  /\ executed' = IF Succeeds(e.tx) THEN Append(executed, e.tx) ELSE executed
  /\ run' = IF e.lost THEN run
            ELSE [run EXCEPT ![e.owner].pc = IF Succeeds(e.tx) THEN "mined" ELSE "reverted"]
  /\ UNCHANGED <<proposals, signed, fee, reportVars>>

\* waitForTransaction returned: on to the next transaction, or the end.
GoodReceipt(o) == At(o, "mined")

ReceiptOk(o) ==
  /\ GoodReceipt(o)
  /\ done' = done \cup {Current(o)}
  /\ IF run[o].todo = {Current(o)} THEN EndRun(o)
     ELSE run' = [run EXCEPT ![o].pc = "feeCheck", ![o].todo = @ \ {Current(o)}]
  /\ UNCHANGED <<serviceVars, printed, started, doubtful>>

\* A reverted transaction, or an error while waiting for the receipt.
ReceiptBad(o) ==
  /\ \/ run[o].pc \in {"mined", "reverted"}
     \/ At(o, "sent") /\ MayLose
  /\ EndRun(o)
  /\ inflight' = {IF e.owner = o THEN [e EXCEPT !.lost = TRUE] ELSE e : e \in inflight}
  /\ UNCHANGED <<proposals, signed, executed, fee, reportVars>>
-----------------------------------------------------------------------------
(* The specification.                                                      *)

RunStep(o) ==
  \/ ProposeNonce(o) \/ ProposeBatch(o)
  \/ SignOne(o)
  \/ ValidateFees(o) \/ RejectOne(o) \/ CheckNonces(o)
  \/ CheckFee(o) \/ Sleep(o) \/ PollFee(o) \/ Send(o) \/ ReceiptOk(o) \/ ReceiptBad(o)

NewRun(o) ==
  \/ "propose" \in Commands[o] /\ ProposeStart(o)
  \/ "sign" \in Commands[o] /\ SignStart(o)
  \/ "execute" \in Commands[o] /\ ExecuteStart(o)

Elsewhere ==
  \/ FeeChanges /\ UNCHANGED <<run, reportVars>>
  \/ /\ ForeignTools
     /\ ForeignExecution \/ \E o \in Owners : ForeignProposal(o)
     /\ UNCHANGED <<run, reportVars>>

Next ==
  \/ \E o \in Owners : RunStep(o) \/ NewRun(o)
  \/ \E e \in inflight : Include(e)
  \/ Elsewhere

Spec == Init /\ [][Next]_vars

\* A run goes on: calls return or fail, prompts are answered, and the one
\* Ethereum transaction it waits for is included in a block.
Fairness ==
  \A o \in Owners :
    /\ WF_vars(RunStep(o))
    /\ WF_vars(\E e \in inflight : e.owner = o /\ ~e.lost /\ Include(e))

FairSpec == Spec /\ Fairness
=============================================================================
