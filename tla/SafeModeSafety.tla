--------------------------- MODULE SafeModeSafety ---------------------------
(***************************************************************************)
(* No batch of requests is executed twice, however the runs of the owners  *)
(* interleave: where a batch can be, step by step.                         *)
(***************************************************************************)
EXTENDS SafeModeProofs

-----------------------------------------------------------------------------
(* What is known of a single batch.                                        *)

BatchOK(b) == OneProposer(b) /\ NothingOpen(b) /\ Registered(b) /\ OneOpen(b)

\* Proposals of a batch are requests, so they use nonces of the contract.
LEMMA ProposalsOfBatch ==
  ASSUME QueueInv, NoncesFromOne, NEW b \in Batches, NEW t \in ProposalsOf(b)
  PROVE  t \in Proposed /\ t \in SafeTxs /\ t.batch = b /\ t.kind = "request"
         /\ t.nonce \in Nat \ {0}
<1>1. t \in Proposed /\ t.batch = b /\ b # 0
  BY SafeServiceAssumption DEF ProposalsOf, Batches
<1>2. t \in SafeTxs /\ t.nonce \in Nat /\ t.kind \in Kinds
  BY <1>1, ProposedTypes DEF QueueInv, SafeTxs
<1>3. t.kind = "request"
  BY <1>1, <1>2 DEF QueueInv, ProposalsWellFormed, WellFormed, Rejection, Foreign, Kinds
<1>. QED
  BY <1>1, <1>2, <1>3 DEF NoncesFromOne

\* What lost its nonce to something else has lost it for ever.
LEMMA SupersededStays ==
  ASSUME QueueInv, NoncesFromOne, [Next]_vars,
         NEW b \in Batches, NEW t \in ProposalsOf(b), Superseded(t)
  PROVE  Superseded(t)'
<1>1. t.nonce \in Nat \ {0} /\ t.nonce < OnChainNonce /\ executed[t.nonce] # t
  BY ProposalsOfBatch DEF Superseded
<1>2. /\ OnChainNonce <= OnChainNonce' /\ DOMAIN executed = 1..(OnChainNonce - 1)
      /\ \A n \in DOMAIN executed : executed'[n] = executed[n]
      /\ OnChainNonce \in Nat /\ OnChainNonce' \in Nat
  BY ExecutedGrows, ProposedTypes DEF QueueInv, OnChainNonce
<1>3. t.nonce \in DOMAIN executed /\ t.nonce < OnChainNonce'
  BY <1>1, <1>2
<1>4. executed'[t.nonce] # t
  BY <1>1, <1>2, <1>3
<1>. QED
  BY <1>3, <1>4 DEF Superseded, OnChainNonce

\* A step after which a batch can be where it was before, or nowhere, and that adds
\* no proposal of it, leaves everything known of it true.
LEMMA Settled ==
  ASSUME QueueInv, NoncesFromOne, [Next]_vars, NEW b \in Batches, BatchOK(b),
         ProposalsOf(b)' = ProposalsOf(b),
         OneProposer(b)', Registered(b)', MayBeProposed(b)' => MayBeProposed(b)
  PROVE  BatchOK(b)'
<1>1. ASSUME NEW t \in ProposalsOf(b), Superseded(t) PROVE Superseded(t)'
  BY <1>1, SupersededStays
<1>2. NothingOpen(b)'
  <2>1. SUFFICES ASSUME MayBeProposed(b)', NEW t \in ProposalsOf(b)' PROVE Superseded(t)'
    BY DEF NothingOpen
  <2>2. t \in ProposalsOf(b) /\ Superseded(t)
    BY <2>1 DEF BatchOK, NothingOpen
  <2>. QED
    BY <1>1, <2>2
<1>3. OneOpen(b)'
  <2>1. SUFFICES ASSUME NEW t \in ProposalsOf(b)', NEW u \in ProposalsOf(b)'
                 PROVE  t = u \/ Superseded(t)' \/ Superseded(u)'
    BY DEF OneOpen
  <2>2. t \in ProposalsOf(b) /\ u \in ProposalsOf(b)
    BY <2>1
  <2>3. t = u \/ Superseded(t) \/ Superseded(u)
    BY <2>2 DEF BatchOK, OneOpen
  <2>. QED
    BY <1>1, <2>2, <2>3
<1>. QED
  BY <1>2, <1>3 DEF BatchOK

-----------------------------------------------------------------------------
(* Steps that propose nothing.                                             *)

ProposeStep(o) == ProposeStart(o) \/ ProposeNonce(o) \/ ProposeBatch(o)

\* A run that is not proposing does not begin to, except by ProposeStart.
LEMMA WorkOnlyToPropose ==
  ASSUME QueueInv, [Next]_vars, \A o \in Owners : ~ProposeStep(o)
  PROVE  /\ \A p \in Owners : run'[p] = run[p] \/ run'[p].pc \notin Proposing
         /\ UNCHANGED <<printed, started, doubtful>>
<1>0. /\ TypeOK /\ run \in [Owners -> Runs]
      /\ inflight \subseteq [owner : Owners, tx : SafeTxs, lost : BOOLEAN]
  BY DEF QueueInv, TypeOK
<1>1. ASSUME NEW o \in Owners, QuietStep(o) \/ ProposeBatch(o) \/ RejectOne(o), NEW p \in Owners
      PROVE  run'[p] = run[p] \/ run'[p].pc \notin Proposing
  <2>1. CASE p # o
    BY <1>1, <2>1, OthersStay
  <2>2. CASE p = o
    <3>0. run[p] \in Runs
      BY <1>0
    <3>1. CASE EndRun(p)
      BY <1>0, <3>1 DEF EndRun, NoRun, Proposing
    <3>2. CASE SignStart(p) \/ ExecuteStart(p)
      BY <1>0, <3>2 DEF SignStart, ExecuteStart, NoRun, Proposing
    <3>3. CASE ~EndRun(p) /\ (SignOne(p) \/ RejectOne(p))
      BY <1>0, <3>0, <3>3 DEF SignOne, RejectOne, At, Runs, Proposing
    <3>4. CASE ~EndRun(p) /\ (ValidateFees(p) \/ CheckNonces(p))
      BY <1>0, <3>0, <3>4 DEF ValidateFees, CheckNonces, Goto, Runs, Proposing
    <3>5. CASE ~EndRun(p) /\ (CheckFee(p) \/ Sleep(p) \/ PollFee(p))
      BY <1>0, <3>0, <3>5 DEF CheckFee, Sleep, PollFee, Goto, Runs, Proposing
    <3>6. CASE ~EndRun(p) /\ (Send(p) \/ ReceiptOk(p) \/ ReceiptBad(p))
      BY <1>0, <3>0, <3>6 DEF Send, ReceiptOk, ReceiptBad, Goto, Runs, Proposing
    <3>. QED
      BY <1>1, <2>2, <3>1, <3>2, <3>3, <3>4, <3>5, <3>6 DEF QuietStep, ProposeStep
  <2>. QED
    BY <2>1, <2>2
<1>2. ASSUME NEW e \in inflight, Include(e), NEW p \in Owners
      PROVE  run'[p] = run[p] \/ run'[p].pc \notin Proposing
  BY <1>0, <1>2 DEF Include, Runs, Proposing
<1>3. UNCHANGED <<printed, started, doubtful>>
  BY ReportsChange DEF ProposeStep, reportVars, ReceiptOk
<1>. QED
  BY <1>1, <1>2, <1>3, StepCases

\* Only the run that proposes a batch adds to its proposals, the request it has built.
LEMMA ProposalsOfBatchChange ==
  ASSUME QueueInv, [Next]_vars, NEW b \in Batches
  PROVE  \/ ProposalsOf(b)' = ProposalsOf(b)
         \/ \E o \in Owners :
              /\ ProposeBatch(o) /\ b = Min(run[o].work) /\ proposals' # proposals
              /\ ProposalsOf(b)' = ProposalsOf(b) \cup {Request(run[o].nonce, b, run[o].fee)}
<1>0. TypeOK /\ WorkByPlace /\ b # 0
  BY SafeServiceAssumption DEF QueueInv, Batches
<1>1. CASE proposals' = proposals
  BY <1>1 DEF ProposalsOf, Proposed
<1>2. CASE proposals' # proposals
  <2>1. PICK t \in SafeTxs, o \in Owners, seen \in Nat : Accept(t, o, seen) /\ Origin(t, o, seen)
    BY <1>0, <1>2, Submissions
  <2>2. Proposed' = Proposed \cup {t}
    BY <1>0, <2>1, AcceptEffect
  <2>3. ProposalsOf(b)' = IF t.batch = b THEN ProposalsOf(b) \cup {t} ELSE ProposalsOf(b)
    BY <2>2 DEF ProposalsOf
  <2>4. CASE t = Foreign(t.nonce)
    <3>1. t.batch = 0
      BY <2>4 DEF Foreign
    <3>. QED
      BY <1>0, <2>3, <3>1
  <2>5. CASE At(o, "reject") /\ t = Current(o)
    <3>1. run[o].pc \notin Proposing \cup {"idle"}
      BY <2>5 DEF At, Proposing
    <3>2. Current(o) \in run[o].todo
      BY <3>1, CurrentWasProposed
    <3>3. t = Rejection(t.nonce)
      BY <2>5, <3>2 DEF QueueInv, QueueWasProposed
    <3>4. t.batch = 0
      BY <3>3 DEF Rejection
    <3>. QED
      BY <1>0, <2>3, <3>4
  <2>6. CASE ProposeBatch(o) /\ t = Request(run[o].nonce, Min(run[o].work), run[o].fee)
    <3>1. t.batch = Min(run[o].work)
      BY <2>6 DEF Request
    <3>. QED
      BY <1>2, <2>3, <2>6, <3>1
  <2>. QED
    BY <2>1, <2>4, <2>5, <2>6 DEF Origin
<1>. QED
  BY <1>1, <1>2

\* A step of a run that is not proposing tells nothing new of a batch.
LEMMA BatchRests ==
  ASSUME QueueInv, NoncesFromOne, [Next]_vars, \A o \in Owners : ~ProposeStep(o),
         NEW b \in Batches, BatchOK(b)
  PROVE  BatchOK(b)'
<1>1. /\ \A p \in Owners : run'[p] = run[p] \/ run'[p].pc \notin Proposing
      /\ UNCHANGED <<printed, started, doubtful>>
  BY WorkOnlyToPropose
<1>2. WorkByPlace'
  BY TypeStep DEF QueueInv
<1>3. ASSUME NEW p \in Owners PROVE run'[p] = run[p] \/ (run'[p].work = {} /\ run'[p].pc # "propose")
  BY <1>1, <1>2 DEF WorkByPlace, Proposing
<1>4. OneProposer(b)' /\ Registered(b)' /\ (MayBeProposed(b)' => MayBeProposed(b))
  BY <1>1, <1>3 DEF BatchOK, OneProposer, Registered, MayBeProposed, InWork, At
<1>5. ProposalsOf(b)' = ProposalsOf(b)
  BY ProposalsOfBatchChange DEF ProposeStep
<1>. QED
  BY <1>4, <1>5, Settled
-----------------------------------------------------------------------------
(* Steps that propose.                                                     *)

\* The other runs keep what they propose.
LEMMA OthersKeepWork ==
  ASSUME QueueInv, NEW o \in Owners, ProposeStep(o), NEW p \in Owners, p # o
  PROVE  run'[p] = run[p]
BY OthersStay DEF ProposeStep, QuietStep

\* Whoever begins to propose a batch that no run has takes one that is new, or was
\* listed, or lost all its nonces: nothing of it can be carried out any more.
LEMMA BatchIsTaken ==
  ASSUME QueueInv, NoncesFromOne, [Next]_vars, NEW o \in Owners, ProposeStart(o),
         NEW b \in Batches \ doubtful', BatchOK(b)
  PROVE  BatchOK(b)'
<1>0. run \in [Owners -> Runs] /\ b \notin doubtful
  BY DEF QueueInv, TypeOK, ProposeStart
<1>1. PICK W \in (SUBSET Wanted) \ {{}}, offer \in fee..MaxFee :
        /\ run' = [run EXCEPT ![o] = [NoRun EXCEPT !.pc = "getNonce", !.work = W, !.fee = offer]]
        /\ doubtful' = doubtful \cup {c \in W : \E p \in Owners : c \in run[p].work}
        /\ UNCHANGED <<serviceVars, printed, started, done>>
  BY DEF ProposeStart
<1>2. run'[o].work = W /\ run'[o].pc = "getNonce"
  BY <1>0, <1>1 DEF NoRun
<1>3. \A p \in Owners : p # o => run'[p] = run[p]
  BY OthersKeepWork DEF ProposeStep
<1>4. b \in W => \A p \in Owners : b \notin run[p].work
  BY <1>1
<1>5. OneProposer(b)'
  BY <1>2, <1>3, <1>4 DEF BatchOK, OneProposer
<1>6. Registered(b)'
  BY <1>1, <1>2, <1>3 DEF BatchOK, Registered, At
<1>7. UNCHANGED <<proposals, executed>>
  BY <1>1 DEF serviceVars
<1>8. ProposalsOf(b)' = ProposalsOf(b) /\ \A t : Superseded(t)' <=> Superseded(t)
  BY <1>7 DEF ProposalsOf, Proposed, Superseded, OnChainNonce
<1>9. NothingOpen(b)'
  <2>1. CASE b \in W
    <3>1. MayBeProposed(b) \/ \A t \in Proposed : t.batch = b => Superseded(t)
      BY <2>1 DEF Wanted, MayBeProposed
    <3>2. \A t \in ProposalsOf(b) : Superseded(t)
      BY <3>1 DEF BatchOK, NothingOpen, ProposalsOf
    <3>. QED
      BY <1>8, <3>2 DEF NothingOpen
  <2>2. CASE b \notin W
    <3>1. MayBeProposed(b)' => MayBeProposed(b)
      BY <1>1, <1>2, <1>3, <2>2 DEF MayBeProposed, InWork
    <3>. QED
      BY <1>8, <3>1 DEF BatchOK, NothingOpen
  <2>. QED
    BY <2>1, <2>2
<1>10. OneOpen(b)'
  BY <1>8 DEF BatchOK, OneOpen
<1>. QED
  BY <1>5, <1>6, <1>9, <1>10 DEF BatchOK

\* Once the nonce is known the batches of the run are under way.
LEMMA BatchIsUnderWay ==
  ASSUME QueueInv, NoncesFromOne, [Next]_vars, NEW o \in Owners, ProposeNonce(o),
         NEW b \in Batches, BatchOK(b)
  PROVE  BatchOK(b)'
<1>0. run \in [Owners -> Runs] /\ run[o] \in Runs
  BY DEF QueueInv, TypeOK
<1>1. \A p \in Owners : p # o => run'[p] = run[p]
  BY OthersKeepWork DEF ProposeStep
<1>2. ProposalsOf(b)' = ProposalsOf(b)
  BY DEF ProposeNonce, serviceVars, ProposalsOf, Proposed
<1>3. CASE EndRun(o) /\ UNCHANGED <<printed, started>>
  <2>1. run'[o].work = {} /\ run'[o].pc = "idle"
    BY <1>0, <1>3 DEF EndRun, NoRun
  <2>2. OneProposer(b)' /\ Registered(b)' /\ (MayBeProposed(b)' => MayBeProposed(b))
    BY <1>1, <1>3, <2>1 DEF BatchOK, OneProposer, Registered, MayBeProposed, InWork, At
  <2>. QED
    BY <1>2, <2>2, Settled
<1>4. CASE /\ run' = [run EXCEPT ![o].pc = "propose", ![o].nonce = StartingNonce,
                                 ![o].seen = Len(proposals)]
           /\ started' = started \cup run[o].work
           /\ printed' = printed \ run[o].work
  <2>1. run'[o].work = run[o].work
    BY <1>0, <1>4 DEF Runs
  <2>2. OneProposer(b)'
    BY <1>1, <2>1 DEF BatchOK, OneProposer
  <2>3. MayBeProposed(b)' => MayBeProposed(b)
    BY <1>1, <1>4, <2>1 DEF MayBeProposed, InWork
  <2>4. ASSUME NEW p \in Owners, At(p, "propose")', b \in run'[p].work
        PROVE  b \in started' /\ b \notin printed'
    <3>1. CASE p = o
      BY <1>4, <2>1, <2>4, <3>1
    <3>2. CASE p # o
      BY <1>1, <1>4, <2>4, <3>2 DEF BatchOK, Registered, At
    <3>. QED
      BY <3>1, <3>2
  <2>. QED
    BY <1>2, <2>2, <2>3, <2>4, Settled DEF Registered
<1>. QED
  BY <1>3, <1>4 DEF ProposeNonce

\* A batch whose proposal is accepted, or was before, leaves the run; a run that
\* fails lists what it has left.
LEMMA ProposeBatchEnds ==
  ASSUME QueueInv, NEW o \in Owners, ProposeBatch(o)
  PROVE  /\ At(o, "propose") /\ UNCHANGED <<executed, started>>
         /\ Min(run[o].work) \in run[o].work \ run'[o].work
         /\ run'[o].work \subseteq run[o].work
         /\ \/ UNCHANGED <<printed, doubtful>>
            \/ /\ run'[o].work = {} /\ printed' = printed \cup run[o].work
               /\ proposals' = proposals \/ Min(run[o].work) \in doubtful'
            \/ run'[o].work = {} /\ UNCHANGED <<proposals, printed, doubtful>>
<1>0. /\ TypeOK /\ WorkByPlace /\ run \in [Owners -> Runs] /\ run[o] \in Runs
      /\ At(o, "propose") /\ UNCHANGED <<executed, started>>
  BY DEF QueueInv, TypeOK, ProposeBatch
<1>1. Min(run[o].work) \in run[o].work
  BY <1>0, RunTypes DEF WorkByPlace, Proposing, At
<1>2. EndRun(o) => run'[o].work = {}
  BY <1>0 DEF EndRun, NoRun
<1>. DEFINE rest == run[o].work \ {Min(run[o].work)}
<1>3. run' = [run EXCEPT ![o].work = rest, ![o].nonce = @ + 1] => run'[o].work = rest
  BY <1>0 DEF Runs
<1>4. CASE /\ IF rest = {} THEN EndRun(o)
              ELSE run' = [run EXCEPT ![o].work = rest, ![o].nonce = @ + 1]
           /\ UNCHANGED <<printed, doubtful>>
  BY <1>0, <1>1, <1>2, <1>3, <1>4
<1>5. CASE EndRun(o) /\ printed' = printed \cup run[o].work
           /\ (proposals' = proposals \/ Min(run[o].work) \in doubtful')
  BY <1>0, <1>1, <1>2, <1>5
<1>6. CASE EndRun(o) /\ UNCHANGED <<proposals, printed, doubtful>>
  BY <1>0, <1>1, <1>2, <1>6
<1>. QED
  BY <1>4, <1>5, <1>6 DEF ProposeBatch, RemainingPubkeys, ProcessExit

\* The one request that is proposed for a batch is all of it that can be carried out.
LEMMA BatchIsProposed ==
  ASSUME QueueInv, NoncesFromOne, [Next]_vars, NEW o \in Owners, ProposeBatch(o),
         NEW b \in Batches \ doubtful', BatchOK(b)
  PROVE  BatchOK(b)'
<1>. DEFINE c == Min(run[o].work)
            t == Request(run[o].nonce, c, run[o].fee)
<1>0. /\ At(o, "propose") /\ UNCHANGED <<executed, started>>
      /\ c \in run[o].work \ run'[o].work /\ run'[o].work \subseteq run[o].work
  BY ProposeBatchEnds
<1>1. \A p \in Owners : p # o => run'[p] = run[p]
  BY OthersKeepWork DEF ProposeStep
<1>2. OneProposer(b)'
  BY <1>0, <1>1 DEF BatchOK, OneProposer
<1>3. \A u : Superseded(u)' <=> Superseded(u)
  BY <1>0 DEF Superseded, OnChainNonce
<1>4. \/ ProposalsOf(b)' = ProposalsOf(b)
      \/ /\ b = c /\ proposals' # proposals
         /\ ProposalsOf(b)' = ProposalsOf(b) \cup {Request(run[o].nonce, b, run[o].fee)}
  <2>1. ASSUME NEW p \in Owners, ProposeBatch(p) PROVE p = o
    BY <1>0, <2>1, OthersKeepWork DEF ProposeStep
  <2>. QED
    BY <2>1, ProposalsOfBatchChange
<1>5. CASE b = c /\ UNCHANGED <<printed, doubtful>>
  <2>1. b \in started /\ b \notin printed
    BY <1>0, <1>5 DEF BatchOK, Registered
  <2>2. \A p \in Owners : b \notin run'[p].work
    BY <1>0, <1>1, <1>5 DEF BatchOK, OneProposer
  <2>3. ~MayBeProposed(b)'
    BY <1>0, <1>5, <2>1, <2>2 DEF MayBeProposed, InWork
  <2>4. \A u \in ProposalsOf(b) : Superseded(u)
    BY <1>0, <1>5 DEF BatchOK, NothingOpen, MayBeProposed, InWork
  <2>5. ProposalsOf(b)' \subseteq ProposalsOf(b) \cup {Request(run[o].nonce, b, run[o].fee)}
    BY <1>4
  <2>6. OneOpen(b)'
    BY <1>3, <2>4, <2>5 DEF OneOpen
  <2>. QED
    BY <1>2, <2>2, <2>3, <2>6 DEF BatchOK, NothingOpen, Registered
<1>6. CASE \/ b # c /\ UNCHANGED <<printed, doubtful>>
           \/ run'[o].work = {} /\ UNCHANGED <<proposals, printed, doubtful>>
           \/ /\ run'[o].work = {} /\ printed' = printed \cup run[o].work
              /\ proposals' = proposals \/ c \in doubtful'
  <2>1. ProposalsOf(b)' = ProposalsOf(b)
    BY <1>6, <1>4
  <2>2. Registered(b)'
    <3>1. SUFFICES ASSUME NEW p \in Owners, At(p, "propose")', b \in run'[p].work
                   PROVE  b \in started' /\ b \notin printed'
      BY DEF Registered
    <3>2. CASE p = o
      BY <1>0, <1>6, <3>1, <3>2 DEF BatchOK, Registered, At
    <3>3. CASE p # o
      <4>1. At(p, "propose") /\ b \in run[p].work
        BY <1>1, <3>1, <3>3 DEF At
      <4>2. b \in started /\ b \notin printed /\ b \notin run[o].work
        BY <3>3, <4>1 DEF BatchOK, Registered, OneProposer
      <4>. QED
        BY <1>0, <1>6, <4>2
    <3>. QED
      BY <3>2, <3>3
  <2>3. MayBeProposed(b)' => MayBeProposed(b)
    BY <1>0, <1>1, <1>6 DEF MayBeProposed, InWork
  <2>. QED
    BY <1>2, <2>1, <2>2, <2>3, Settled
<1>. QED
  BY <1>0, <1>5, <1>6, ProposeBatchEnds

-----------------------------------------------------------------------------
(* All together.                                                           *)

\* A nonce is chosen behind the contract's, and only counted up from there.
LEMMA NoncesFromOneStep ==
  ASSUME QueueInv, NoncesFromOne, [Next]_vars
  PROVE  NoncesFromOne'
<1>0. /\ TypeOK /\ WorkByPlace /\ run \in [Owners -> Runs]
      /\ OnChainNonce \in Nat \ {0} /\ NextNonce \in Nat /\ NextNonce >= OnChainNonce
  BY ProposedTypes, NextNonceIsBehind DEF QueueInv, TypeOK, ProposalRecords
<1>1. ASSUME NEW o \in Owners, At(o, "propose")' PROVE run'[o].nonce >= 1
  <2>0. run[o] \in Runs /\ run[o].nonce \in Nat /\ run'[o].pc = "propose"
    BY <1>0, <1>1, RunTypes DEF At
  <2>1. CASE run'[o] = NoRun
    BY <2>0, <2>1 DEF NoRun
  <2>2. CASE Proposes(run[o], run'[o])
    <3>1. run'[o].nonce = NextNonce \/ (run[o].pc = "propose" /\ run'[o].nonce = run[o].nonce + 1)
      BY <2>0, <2>2 DEF Proposes
    <3>. QED
      BY <1>0, <2>0, <3>1
  <2>3. CASE FromQueue(run'[o]) \/ FromStale(run[o], run'[o])
    BY <2>0, <2>3 DEF FromQueue, FromStale
  <2>4. CASE Shortened(run[o], run'[o])
    BY <2>0, <2>4 DEF Shortened, NoncesFromOne, At
  <2>. QED
    BY <2>1, <2>2, <2>3, <2>4, RunProceeds
<1>2. ASSUME NEW t \in Proposed', t.kind = "request" PROVE t.nonce >= 1
  <2>1. CASE t \in Proposed
    BY <1>2, <2>1 DEF NoncesFromOne
  <2>2. CASE t \notin Proposed
    <3>1. proposals' # proposals
      BY <2>2 DEF Proposed
    <3>2. PICK u \in SafeTxs, o \in Owners, seen \in Nat : Accept(u, o, seen) /\ Origin(u, o, seen)
      BY <1>0, <3>1, Submissions
    <3>3. t = u
      <4>1. Proposed' = Proposed \cup {u}
        BY <1>0, <3>2, AcceptEffect
      <4>. QED
        BY <2>2, <4>1
    <3>4. CASE u = Foreign(u.nonce)
      BY <1>2, <3>3, <3>4 DEF Foreign
    <3>5. CASE At(o, "reject") /\ u = Current(o)
      <4>1. run[o].pc \notin Proposing \cup {"idle"}
        BY <3>5 DEF At, Proposing
      <4>2. Current(o) \in run[o].todo
        BY <4>1, CurrentWasProposed
      <4>3. u = Rejection(u.nonce)
        BY <3>5, <4>2 DEF QueueInv, QueueWasProposed
      <4>. QED
        BY <1>2, <3>3, <4>3 DEF Rejection
    <3>6. CASE At(o, "propose") /\ u = Request(run[o].nonce, Min(run[o].work), run[o].fee)
      BY <3>3, <3>6 DEF Request, NoncesFromOne
    <3>. QED
      BY <3>2, <3>4, <3>5, <3>6 DEF Origin
  <2>. QED
    BY <2>1, <2>2
<1>. QED
  BY <1>1, <1>2 DEF NoncesFromOne

\* At the start no batch is anywhere.
LEMMA BatchInit ==
  ASSUME Init
  PROVE  BatchInv
<1>1. Proposed = {} /\ \A o \in Owners : run[o] = NoRun
  BY DEF Init, ServiceInit, Proposed
<1>2. \A o \in Owners : ~At(o, "propose") /\ run[o].work = {}
  BY <1>1 DEF NoRun, At
<1>. QED
  BY <1>1, <1>2 DEF BatchInv, NoncesFromOne, OneProposer, NothingOpen, Registered, OneOpen,
     ProposalsOf

\* Every step keeps what is known of the batches that are not doubtful after it.
LEMMA BatchStep ==
  ASSUME QueueInv, BatchInv, [Next]_vars
  PROVE  BatchInv'
<1>1. NoncesFromOne /\ NoncesFromOne'
  BY NoncesFromOneStep DEF BatchInv
<1>2. ASSUME NEW b \in Batches \ doubtful', b \notin doubtful PROVE BatchOK(b)'
  <2>1. BatchOK(b)
    BY <1>2 DEF BatchInv, BatchOK
  <2>2. CASE \A o \in Owners : ~ProposeStep(o)
    BY <1>1, <2>1, <2>2, BatchRests
  <2>3. ASSUME NEW o \in Owners, ProposeStart(o) PROVE BatchOK(b)'
    BY <1>1, <1>2, <2>1, <2>3, BatchIsTaken
  <2>4. ASSUME NEW o \in Owners, ProposeNonce(o) PROVE BatchOK(b)'
    BY <1>1, <2>1, <2>4, BatchIsUnderWay
  <2>5. ASSUME NEW o \in Owners, ProposeBatch(o) PROVE BatchOK(b)'
    BY <1>1, <1>2, <2>1, <2>5, BatchIsProposed
  <2>. QED
    BY <2>2, <2>3, <2>4, <2>5 DEF ProposeStep
<1>3. doubtful \subseteq doubtful'
  <2>1. CASE \E o \in Owners : ProposeStart(o)
    BY <2>1 DEF ProposeStart
  <2>2. CASE \E o \in Owners : ProposeNonce(o)
    BY <2>2 DEF ProposeNonce
  <2>3. CASE \E o \in Owners : ProposeBatch(o)
    BY <2>3 DEF ProposeBatch
  <2>4. CASE \A o \in Owners : ~ProposeStep(o)
    BY <2>4, WorkOnlyToPropose
  <2>. QED
    BY <2>1, <2>2, <2>3, <2>4 DEF ProposeStep
<1>. QED
  BY <1>1, <1>2, <1>3 DEF BatchInv, BatchOK

\* One run at a time proposes a batch, and only while nothing of it can be carried
\* out any more: the inductive invariant.
THEOREM BatchInvariant == Spec => []BatchInv
<1>1. Init => BatchInv
  BY BatchInit
<1>2. QueueInv /\ BatchInv /\ [Next]_vars => BatchInv'
  BY BatchStep
<1>. QED
  BY <1>1, <1>2, QueueInvariant, PTL DEF Spec

\* No batch of requests is executed twice, unless its proposal was accepted without a
\* reply or two owners began to propose it at the same time.
THEOREM BatchesAtMostOnce == Spec => []BatchAtMostOnce
<1>1. QueueInv /\ BatchInv => BatchAtMostOnce
  <2>1. SUFFICES ASSUME QueueInv, BatchInv, NEW b \in Batches \ doubtful,
                        NEW m \in DOMAIN executed, NEW n \in DOMAIN executed,
                        executed[m].batch = b, executed[n].batch = b
                 PROVE  m = n
    BY DEF BatchAtMostOnce
  <2>2. /\ executed[m] \in ProposalsOf(b) /\ executed[n] \in ProposalsOf(b)
        /\ executed[m].nonce = m /\ executed[n].nonce = n
    BY <2>1 DEF QueueInv, QueueWasProposed, ExecutedInOrder, ProposalsOf
  <2>3. ~Superseded(executed[m]) /\ ~Superseded(executed[n])
    BY <2>2 DEF Superseded
  <2>4. executed[m] = executed[n]
    BY <2>1, <2>2, <2>3 DEF BatchInv, OneOpen
  <2>. QED
    BY <2>2, <2>4
<1>. QED
  BY <1>1, QueueInvariant, BatchInvariant, PTL

-----------------------------------------------------------------------------
(* The Safe mode implements the promise of BatchDelivery.                  *)

\* What was carried out of a batch is a proposal of it that was not superseded.
LEMMA ExecutedOfBatch ==
  ASSUME QueueInv, NEW b \in Batches, NEW n \in DOMAIN executed, executed[n].batch = b
  PROVE  executed[n] \in ProposalsOf(b) /\ executed[n].nonce = n /\ ~Superseded(executed[n])
<1>1. executed[n] \in ProposalsOf(b) /\ executed[n].nonce = n
  BY DEF QueueInv, QueueWasProposed, ExecutedInOrder, ProposalsOf
<1>. QED
  BY <1>1 DEF Superseded

\* Nothing of a batch that may still be proposed was carried out or can be.
LEMMA MayBeProposedIsAbsent ==
  ASSUME QueueInv, NEW b \in Batches \ doubtful, BatchOK(b), MayBeProposed(b)
  PROVE  Fate(b) = "absent"
<1>1. \A t \in ProposalsOf(b) : Superseded(t)
  BY DEF BatchOK, NothingOpen
<1>2. ~\E n \in DOMAIN executed : executed[n].batch = b
  BY <1>1, ExecutedOfBatch
<1>. QED
  BY <1>1, <1>2 DEF Fate, Live

\* The fate of a batch hangs on its proposals and on what was carried out.
LEMMA FateKept ==
  ASSUME NEW b \in Batches, UNCHANGED executed, ProposalsOf(b)' = ProposalsOf(b),
         b \in doubtful' <=> b \in doubtful
  PROVE  Fate(b)' = Fate(b)
BY DEF Fate, Live, Superseded, OnChainNonce

\* A step that carries out a transaction of a batch ends what was open of it, and of
\* another batch at most takes away the nonce.
LEMMA FateAtExecution ==
  ASSUME QueueInv, NoncesFromOne, [Next]_vars,
         NEW u \in Proposed, executed' = Append(executed, u), u.nonce = OnChainNonce,
         proposals' = proposals, doubtful' = doubtful,
         NEW b \in Batches, b \notin doubtful => OneOpen(b) /\ OneOpen(b)'
  PROVE  IF b = u.batch /\ b \notin doubtful
         THEN Fate(b) = "open" /\ Fate(b)' = "executed"
         ELSE Fate(b)' = Fate(b) \/ (Fate(b) = "open" /\ Fate(b)' = "absent")
<1>0. /\ executed \in Seq(SafeTxs) /\ u \in SafeTxs /\ DOMAIN executed = 1..Len(executed)
      /\ Len(executed) \in Nat /\ OnChainNonce = Len(executed) + 1
  BY ProposedTypes DEF QueueInv, TypeOK, OnChainNonce
<1>1. /\ DOMAIN executed' = DOMAIN executed \cup {OnChainNonce}
      /\ executed'[OnChainNonce] = u
      /\ \A n \in DOMAIN executed : executed'[n] = executed[n]
  BY <1>0
<1>2. ProposalsOf(b)' = ProposalsOf(b)
  BY DEF ProposalsOf, Proposed
<1>3. CASE b \in doubtful
  BY <1>3 DEF Fate
<1>4. CASE b = u.batch /\ b \notin doubtful
  <2>1. u \in ProposalsOf(b) /\ ~Superseded(u)
    BY <1>0, <1>4 DEF ProposalsOf, Superseded
  <2>2. ASSUME NEW n \in DOMAIN executed, executed[n].batch = b PROVE FALSE
    <3>1. executed[n] \in ProposalsOf(b) /\ executed[n].nonce = n /\ ~Superseded(executed[n])
      BY <2>2, ExecutedOfBatch
    <3>2. executed[n] = u
      BY <1>4, <2>1, <3>1 DEF OneOpen
    <3>. QED
      BY <1>0, <3>1, <3>2
  <2>3. Fate(b) = "open"
    BY <1>4, <2>1, <2>2 DEF Fate, Live, OneOpen
  <2>4. Fate(b)' = "executed"
    BY <1>1, <1>4 DEF Fate, Live, OneOpen
  <2>. QED
    BY <1>4, <2>3, <2>4
<1>5. CASE b # u.batch /\ b \notin doubtful
  <2>1. (\E n \in DOMAIN executed : executed[n].batch = b)' <=>
        (\E n \in DOMAIN executed : executed[n].batch = b)
    BY <1>1, <1>5
  <2>2. \A t \in ProposalsOf(b) : Superseded(t) => Superseded(t)'
    BY SupersededStays
  <2>. QED
    BY <1>2, <1>5, <2>1, <2>2 DEF Fate, Live, OneOpen
<1>. QED
  BY <1>3, <1>4, <1>5

\* The abstract steps, in terms of what they make of the two abstract variables.
AbstractStep == Delivery!Next \/ UNCHANGED <<BatchFates, ReportedBatches>>

\* A step that changes no fate and reports nothing is invisible.
LEMMA NothingSeen ==
  ASSUME \A b \in Batches : Fate(b)' = Fate(b), UNCHANGED done
  PROVE  AbstractStep
<1>1. BatchFates' = BatchFates
  BY DEF BatchFates
<1>. QED
  BY <1>1 DEF AbstractStep, ReportedBatches

\* A block that carries out a transaction executes its batch and cancels what competes.
LEMMA ExecutionRefines ==
  ASSUME QueueInv, BatchInv, [Next]_vars, executed' # executed
  PROVE  AbstractStep
<1>1. UNCHANGED reportVars
  <2>1. ASSUME NEW o \in Owners PROVE
          ~ProposeStart(o) /\ ~ProposeNonce(o) /\ ~ProposeBatch(o) /\ ~ReceiptOk(o)
    BY DEF ProposeStart, ProposeNonce, ProposeBatch, ReceiptOk, serviceVars
  <2>. QED
    BY <2>1, ReportsChange
<1>2. PICK u \in Proposed : /\ executed' = Append(executed, u) /\ u.nonce = OnChainNonce
                            /\ proposals' = proposals
  <2>1. TypeOK /\ WorkByPlace /\ \A e \in inflight : e.tx \in Proposed
    BY DEF QueueInv, QueueWasProposed
  <2>. QED
    BY <2>1, Executions
<1>3. UNCHANGED ReportedBatches /\ doubtful' = doubtful
  BY <1>1 DEF ReportedBatches, reportVars
<1>4. \A b \in Batches :
        IF b = u.batch /\ b \notin doubtful
        THEN Fate(b) = "open" /\ Fate(b)' = "executed"
        ELSE Fate(b)' = Fate(b) \/ (Fate(b) = "open" /\ Fate(b)' = "absent")
  <2>1. NoncesFromOne /\ \A b \in Batches : b \notin doubtful => OneOpen(b) /\ OneOpen(b)'
    BY <1>3, BatchStep DEF BatchInv
  <2>. QED
    BY <1>2, <1>3, <2>1, FateAtExecution
<1>. DEFINE S == {b \in Batches : Fate(b) = "open" /\ Fate(b)' = "absent"}
<1>5. S \in SUBSET Batches /\ \A b \in S : BatchFates[b] = "open"
  BY DEF BatchFates
<1>6. CASE u.batch \in Batches \ doubtful
  <2>1. u.batch \in Batches \ S /\ BatchFates[u.batch] = "open"
    BY <1>4, <1>6 DEF BatchFates
  <2>2. BatchFates' = [b \in Batches |-> IF b = u.batch THEN "executed"
                                         ELSE IF b \in S THEN "absent" ELSE BatchFates[b]]
    BY <1>4, <1>6 DEF BatchFates
  <2>3. Delivery!Execute(u.batch, S)
    BY <1>3, <1>5, <2>1, <2>2 DEF Delivery!Execute, Delivery!All
  <2>. QED
    BY <1>5, <2>1, <2>3 DEF AbstractStep, Delivery!Next
<1>7. CASE u.batch \notin Batches \ doubtful
  <2>1. BatchFates' = [b \in Batches |-> IF b \in S THEN "absent" ELSE BatchFates[b]]
    BY <1>4, <1>7 DEF BatchFates
  <2>2. Delivery!Cancel(S)
    BY <1>3, <1>5, <2>1 DEF Delivery!Cancel, Delivery!All
  <2>. QED
    BY <1>5, <2>2 DEF AbstractStep, Delivery!Next
<1>. QED
  BY <1>6, <1>7

\* A run that begins to propose what another run has in work loses track of it; nothing
\* of that could be carried out.
LEMMA TakingRefines ==
  ASSUME QueueInv, BatchInv, [Next]_vars, NEW o \in Owners, ProposeStart(o)
  PROVE  AbstractStep
<1>1. PICK W \in SUBSET Batches :
        doubtful' = doubtful \cup {b \in W : \E p \in Owners : b \in run[p].work}
  BY DEF ProposeStart, Wanted
<1>2. UNCHANGED <<proposals, executed, done>>
  BY DEF ProposeStart, serviceVars
<1>. DEFINE S == {b \in W \ doubtful : \E p \in Owners : b \in run[p].work}
<1>3. ASSUME NEW b \in S PROVE Fate(b) = "absent" /\ Fate(b)' = "unknown"
  <2>1. b \in Batches \ doubtful /\ MayBeProposed(b) /\ b \in doubtful'
    BY <1>1 DEF MayBeProposed, InWork
  <2>2. BatchOK(b)
    BY <2>1 DEF BatchInv, BatchOK
  <2>. QED
    BY <2>1, <2>2, MayBeProposedIsAbsent DEF Fate
<1>4. ASSUME NEW b \in Batches \ S PROVE Fate(b)' = Fate(b)
  <2>1. ProposalsOf(b)' = ProposalsOf(b)
    BY <1>2 DEF ProposalsOf, Proposed
  <2>2. b \in doubtful' <=> b \in doubtful
    BY <1>1
  <2>. QED
    BY <1>2, <2>1, <2>2, FateKept
<1>5. BatchFates' = [b \in Batches |-> IF b \in S THEN "unknown" ELSE BatchFates[b]]
  BY <1>3, <1>4 DEF BatchFates
<1>6. S \in SUBSET Batches /\ \A b \in S : BatchFates[b] = "absent"
  BY <1>3 DEF BatchFates
<1>7. Delivery!LoseTrack(S)
  BY <1>2, <1>5, <1>6 DEF Delivery!LoseTrack, Delivery!All, ReportedBatches
<1>. QED
  BY <1>6, <1>7 DEF AbstractStep, Delivery!Next

\* A batch that is proposed can be carried out from then on, unless its nonce was used
\* in the meantime; if the reply was lost nobody knows.
LEMMA ProposingRefines ==
  ASSUME QueueInv, BatchInv, [Next]_vars, NEW o \in Owners, ProposeBatch(o)
  PROVE  AbstractStep
<1>0. Min(run[o].work) \in Batches
  <2>1. Min(run[o].work) \in run[o].work
    BY ProposeBatchEnds
  <2>. QED
    BY <2>1 DEF QueueInv, TypeOK, Runs
<1>. PICK c \in Batches : c = Min(run[o].work)
  BY <1>0
<1>1. /\ UNCHANGED <<executed, done>> /\ MayBeProposed(c)
      /\ doubtful' \in {doubtful, doubtful \cup {c}}
  <2>1. UNCHANGED <<executed, done>> /\ doubtful' \in {doubtful, doubtful \cup {c}}
    BY DEF ProposeBatch
  <2>2. c \in run[o].work
    BY ProposeBatchEnds
  <2>. QED
    BY <2>1, <2>2 DEF MayBeProposed, InWork
<1>2. ASSUME NEW b \in Batches, b # c PROVE Fate(b)' = Fate(b)
  <2>1. ASSUME NEW p \in Owners, ProposeBatch(p) PROVE p = o
    <3>1. At(o, "propose") /\ c \in run[o].work \ run'[o].work
      BY ProposeBatchEnds
    <3>. QED
      BY <2>1, <3>1, OthersKeepWork DEF ProposeStep
  <2>2. ProposalsOf(b)' = ProposalsOf(b)
    BY <1>2, <2>1, ProposalsOfBatchChange
  <2>. QED
    BY <1>1, <1>2, <2>2, FateKept
<1>3. UNCHANGED ReportedBatches
  BY <1>1 DEF ReportedBatches
<1>4. CASE c \in doubtful
  <2>1. Fate(c)' = Fate(c)
    BY <1>1, <1>4 DEF Fate, Live, OneOpen
  <2>. QED
    BY <1>1, <1>2, <2>1, NothingSeen
<1>5. CASE c \notin doubtful
  <2>1. BatchOK(c) /\ Fate(c) = "absent"
    BY <1>1, <1>5, MayBeProposedIsAbsent DEF BatchInv, BatchOK
  <2>2. CASE c \in doubtful'
    <3>1. Fate(c)' = "unknown"
      BY <2>2 DEF Fate
    <3>2. BatchFates' = [b \in Batches |-> IF b \in {c} THEN "unknown" ELSE BatchFates[b]]
      BY <1>2, <3>1 DEF BatchFates
    <3>3. BatchFates[c] = "absent" /\ {c} \in SUBSET Batches
      BY <1>1, <2>1 DEF BatchFates
    <3>4. Delivery!LoseTrack({c})
      BY <1>3, <3>2, <3>3 DEF Delivery!LoseTrack, Delivery!All
    <3>. QED
      BY <3>3, <3>4 DEF AbstractStep, Delivery!Next
  <2>3. CASE c \notin doubtful'
    <3>1. Fate(c)' \in {"open", "absent"}
      <4>1. ~\E n \in DOMAIN executed' : executed'[n].batch = c
        BY <1>1, <1>5, <2>1 DEF Fate
      <4>2. OneOpen(c)'
        BY <2>3, BatchStep DEF BatchInv
      <4>. QED
        BY <2>3, <4>1, <4>2 DEF Fate, Live, OneOpen
    <3>2. CASE Fate(c)' = "absent"
      BY <1>1, <1>2, <2>1, <3>2, NothingSeen
    <3>3. CASE Fate(c)' = "open"
      <4>1. BatchFates[c] = "absent" /\ BatchFates' = [BatchFates EXCEPT ![c] = "open"]
        BY <1>1, <1>2, <2>1, <3>3 DEF BatchFates
      <4>2. Delivery!Propose(c)
        BY <1>3, <4>1 DEF Delivery!Propose
      <4>. QED
        BY <1>1, <4>2 DEF AbstractStep, Delivery!Next
    <3>. QED
      BY <3>1, <3>2, <3>3
  <2>. QED
    BY <2>2, <2>3
<1>. QED
  BY <1>4, <1>5

\* Every other step is invisible, except that a transaction is reported.
LEMMA RestRefines ==
  ASSUME QueueInv, BatchInv, [Next]_vars, executed' = executed,
         \A o \in Owners : ~ProposeStart(o) /\ ~ProposeBatch(o)
  PROVE  AbstractStep
<1>1. doubtful' = doubtful
  <2>1. \A o \in Owners : ProposeNonce(o) \/ ReceiptOk(o) => doubtful' = doubtful
    BY DEF ProposeNonce, ReceiptOk
  <2>. QED
    BY <2>1, ReportsChange DEF reportVars
<1>2. ASSUME NEW b \in Batches PROVE Fate(b)' = Fate(b)
  <2>1. ProposalsOf(b)' = ProposalsOf(b)
    BY ProposalsOfBatchChange
  <2>. QED
    BY <1>1, <2>1, FateKept
<1>3. CASE done' = done
  BY <1>2, <1>3, NothingSeen
<1>4. ASSUME NEW o \in Owners, ReceiptOk(o) PROVE AbstractStep
  <2>. DEFINE t == Current(o)
  <2>1. /\ At(o, "mined") /\ done' = done \cup {t} /\ BatchFates' = BatchFates
        /\ t.nonce \in DOMAIN executed /\ executed[t.nonce] = t
    BY <1>2, <1>4 DEF ReceiptOk, GoodReceipt, BatchFates, QueueInv, OneAtATime
  <2>2. CASE t.batch \in Batches
    <3>1. Fate(t.batch) \in {"executed", "unknown"}
      BY <2>1, <2>2 DEF Fate, Live, OneOpen, BatchInv
    <3>2. BatchFates[t.batch] \in {"executed", "unknown"}
      BY <2>2, <3>1 DEF BatchFates
    <3>3. ReportedBatches' = ReportedBatches \cup {t.batch}
      BY <2>1, <2>2 DEF ReportedBatches
    <3>4. Delivery!Report(t.batch)
      BY <2>1, <3>2, <3>3 DEF Delivery!Report
    <3>. QED
      BY <2>2, <3>4 DEF AbstractStep, Delivery!Next
  <2>3. CASE t.batch \notin Batches
    <3>1. ReportedBatches' = ReportedBatches
      BY <2>1, <2>3 DEF ReportedBatches
    <3>. QED
      BY <2>1, <3>1 DEF AbstractStep
  <2>. QED
    BY <2>2, <2>3
<1>5. \A o \in Owners : ProposeNonce(o) => done' = done
  BY DEF ProposeNonce
<1>. QED
  BY <1>3, <1>4, <1>5, ReportsChange DEF reportVars

\* Every step of the Safe mode is one of the abstract promise, or invisible to it.
LEMMA SafeStepRefines ==
  QueueInv /\ BatchInv /\ [Next]_vars => [Delivery!Next]_(Delivery!vars)
<1>. SUFFICES ASSUME QueueInv, BatchInv, [Next]_vars PROVE AbstractStep
  BY DEF AbstractStep, Delivery!vars
<1>1. CASE executed' # executed
  BY <1>1, ExecutionRefines
<1>2. CASE executed' = executed
  BY <1>2, TakingRefines, ProposingRefines, RestRefines
<1>. QED
  BY <1>1, <1>2

\* At the start no batch was proposed, and none is reported.
LEMMA SafeInitRefines == Init => Delivery!Init
<1>. SUFFICES ASSUME Init PROVE Delivery!Init
  OBVIOUS
<1>1. proposals = <<>> /\ executed = <<>> /\ doubtful = {} /\ done = {}
  BY DEF Init, ServiceInit
<1>2. Proposed = {} /\ DOMAIN executed = {}
  BY <1>1 DEF Proposed
<1>3. \A b \in Batches : Fate(b) = "absent"
  BY <1>1, <1>2 DEF Fate, Live, ProposalsOf
<1>. QED
  BY <1>1, <1>3 DEF Delivery!Init, BatchFates, ReportedBatches

\* The Safe mode implements the promise of BatchDelivery: a batch is proposed only while
\* nothing of it can be carried out, is executed at most once, and is reported only if it
\* was, except where a reply was lost or two owners began to propose it together.
THEOREM SafeImplementsDelivery == Spec => BatchDeliverySpec
  BY QueueInvariant, BatchInvariant, SafeInitRefines, SafeStepRefines, PTL
  DEF Spec, BatchDeliverySpec, Delivery!Spec
=============================================================================
