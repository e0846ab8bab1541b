--------------------------- MODULE SafeModeProofs ---------------------------
(***************************************************************************)
(* The Safe mode, for all sets of owners with whatever commands, and all   *)
(* numbers of batches, thresholds and bounds.                              *)
(***************************************************************************)
EXTENDS SafeModeInvariant, WellFoundedInduction,
        SequenceTheorems, TLAPS

ProposalRecords == [tx : SafeTxs, seen : Nat]

-----------------------------------------------------------------------------
(* The lowest and the highest of some naturals.                            *)

\* A set of naturals has a least element.
LEMMA LeastNatural ==
  ASSUME NEW S \in SUBSET Nat, S # {}
  PROVE  \E m \in S : \A n \in S : m <= n
<1>1. IsWellFoundedOn(OpToRel(<, Nat), Nat)
  BY NatLessThanWellFounded
<1>2. PICK m \in S : \A n \in S : <<n, m>> \notin OpToRel(<, Nat)
  BY <1>1, WFMin
<1>3. \A n \in S : ~(n < m)
  BY <1>2 DEF OpToRel
<1>. QED
  BY <1>3

\* The batch a run proposes next is one of those it has left.
LEMMA MinIsMember ==
  ASSUME NEW S \in SUBSET Nat, S # {}
  PROVE  Min(S) \in S /\ \A n \in S : Min(S) <= n
BY LeastNatural DEF Min

\* The transaction a run works on is one of those it has left.
LEMMA LowestIsMember ==
  ASSUME NEW S \in SUBSET SafeTxs, S # {}
  PROVE  Lowest(S) \in S /\ \A u \in S : Lowest(S).nonce <= u.nonce
<1>. DEFINE N == {t.nonce : t \in S}
<1>1. N \in SUBSET Nat /\ N # {}
  BY DEF SafeTxs
<1>2. PICK m \in N : \A n \in N : m <= n
  <2>. HIDE DEF N
  <2>. QED
    BY <1>1, LeastNatural
<1>3. \E t \in S : \A u \in S : t.nonce <= u.nonce
  BY <1>2
<1>. QED
  BY <1>3 DEF Lowest

\* A bounded set of naturals has a greatest element.
LEMMA GreatestNatural ==
  ASSUME NEW S \in SUBSET Nat, S # {}, NEW b \in Nat, \A n \in S : n <= b
  PROVE  \E m \in S : \A n \in S : m >= n
<1>. DEFINE D == {d \in Nat : \E n \in S : n + d = b}
<1>0. \A n \in S : n \in Nat /\ b - n \in Nat /\ n + (b - n) = b
  OBVIOUS
<1>1. D \in SUBSET Nat /\ D # {}
  BY <1>0
<1>2. PICK d \in D : \A e \in D : d <= e
  <2>. HIDE DEF D
  <2>. QED
    BY <1>1, LeastNatural
<1>3. PICK m \in S : m + d = b
  BY <1>2
<1>4. ASSUME NEW n \in S PROVE m >= n
  <2>1. b - n \in D
    BY <1>0
  <2>2. d \in Nat /\ d <= b - n
    BY <1>2, <2>1
  <2>. HIDE DEF D
  <2>. QED
    BY <1>0, <1>3, <2>2
<1>. QED
  BY <1>4

\* The nonces of a list of proposals are bounded: otherwise there were a shortest
\* beginning of the list of which they are not.
LEMMA NoncesBounded ==
  ASSUME NEW list \in Seq(ProposalRecords)
  PROVE  \E b \in Nat : \A i \in DOMAIN list : list[i].tx.nonce <= b
<1>. DEFINE at(i) == list[i].tx.nonce
            Bounded(k) == \E b \in Nat : \A i \in 1..k : at(i) <= b
            Bad == {k \in 0..Len(list) : ~Bounded(k)}
<1>1. Len(list) \in Nat /\ DOMAIN list = 1..Len(list)
  OBVIOUS
<1>2. ASSUME NEW i \in 1..Len(list) PROVE at(i) \in Nat
  <2>1. list[i] \in ProposalRecords
    BY ElementOfSeq
  <2>2. list[i].tx \in SafeTxs
    BY <2>1 DEF ProposalRecords
  <2>. QED
    BY <2>2 DEF SafeTxs
<1>. HIDE DEF at
<1>3. ASSUME NEW k \in 1..Len(list), Bounded(k - 1) PROVE Bounded(k)
  <2>1. k \in Nat /\ at(k) \in Nat
    BY <1>1, <1>2
  <2>2. PICK b \in Nat : \A i \in 1..(k - 1) : at(i) <= b
    BY <1>3
  <2>. DEFINE c == IF b >= at(k) THEN b ELSE at(k)
  <2>3. c \in Nat /\ c >= b /\ c >= at(k)
    BY <2>1, <2>2
  <2>. HIDE DEF c
  <2>4. ASSUME NEW i \in 1..k PROVE at(i) <= c
    <3>1. i = k \/ i \in 1..(k - 1)
      BY <2>1
    <3>2. i \in 1..Len(list)
      BY <1>1, <2>1
    <3>3. at(i) \in Nat
      BY <1>2, <3>2
    <3>. QED
      BY <2>1, <2>2, <2>3, <3>1, <3>3
  <2>. QED
    BY <2>3, <2>4
<1>4. Bounded(0)
  OBVIOUS
<1>. HIDE DEF Bounded
<1>5. Bad = {}
  <2>1. SUFFICES ASSUME Bad # {} PROVE FALSE
    OBVIOUS
  <2>2. Bad \in SUBSET Nat
    BY <1>1
  <2>3. PICK k \in Bad : \A n \in Bad : k <= n
    <3>. HIDE DEF Bad
    <3>. QED
      BY <2>1, <2>2, LeastNatural
  <2>4. k \in 1..Len(list) /\ k - 1 \in 0..Len(list) /\ ~(k <= k - 1)
    BY <1>1, <1>4, <2>3
  <2>5. Bounded(k - 1)
    BY <2>3, <2>4
  <2>. QED
    BY <1>3, <2>3, <2>4, <2>5
<1>6. Bounded(Len(list))
  BY <1>1, <1>5
<1>. QED
  BY <1>1, <1>6 DEF Bounded, at

\* The service's next nonce lies behind every nonce that was proposed or used.
LEMMA NextNonceIsBehind ==
  ASSUME proposals \in Seq(ProposalRecords), executed \in Seq(SafeTxs)
  PROVE  /\ NextNonce \in Nat
         /\ NextNonce >= OnChainNonce
         /\ \A t \in Proposed : t.nonce < NextNonce
<1>. DEFINE S == {OnChainNonce - 1} \cup {t.nonce : t \in Pending}
<1>0. Proposed \in SUBSET SafeTxs /\ OnChainNonce \in Nat /\ OnChainNonce - 1 \in Nat
  <2>1. OnChainNonce \in Nat /\ OnChainNonce - 1 \in Nat
    BY DEF OnChainNonce
  <2>2. \A i \in DOMAIN proposals : proposals[i] \in ProposalRecords
    BY ElementOfSeq
  <2>. QED
    BY <2>1, <2>2 DEF Proposed, ProposalRecords
<1>1. S \in SUBSET Nat /\ OnChainNonce - 1 \in S
  BY <1>0 DEF Pending, SafeTxs
<1>2. PICK b \in Nat : \A n \in S : n <= b
  <2>1. PICK c \in Nat : \A i \in DOMAIN proposals : proposals[i].tx.nonce <= c
    BY NoncesBounded
  <2>2. \A t \in Proposed : t.nonce <= c
    BY <2>1 DEF Proposed
  <2>3. PICK d \in Nat : d >= c /\ d >= OnChainNonce - 1
    BY <1>0
  <2>4. \A n \in S : n <= d
    BY <1>0, <2>2, <2>3 DEF Pending, SafeTxs
  <2>. QED
    BY <2>4
<1>3. Max(S) \in S /\ \A n \in S : Max(S) >= n
  <2>. HIDE DEF S
  <2>1. \E m \in S : \A n \in S : m >= n
    BY <1>1, <1>2, GreatestNatural
  <2>. QED
    BY <2>1 DEF Max
<1>. DEFINE top == Max(S)
<1>4. NextNonce = top + 1 /\ top \in Nat /\ \A n \in S : n <= top
  <2>1. NextNonce = Max(S) + 1
    BY DEF NextNonce
  <2>. HIDE DEF S
  <2>2. top \in Nat
    BY <1>1, <1>3
  <2>3. ASSUME NEW n \in S PROVE n <= top
    <3>1. n \in Nat /\ top >= n
      BY <1>1, <1>3
    <3>. HIDE DEF top
    <3>. QED
      BY <2>2, <3>1
  <2>. QED
    BY <2>1, <2>2, <2>3
<1>. HIDE DEF top
<1>5. NextNonce \in Nat /\ NextNonce >= OnChainNonce
  <2>1. OnChainNonce - 1 <= top
    BY <1>1, <1>4
  <2>. QED
    BY <1>0, <1>4, <2>1
<1>6. ASSUME NEW t \in Proposed PROVE t.nonce < NextNonce
  <2>0. t.nonce \in Nat
    BY <1>0 DEF SafeTxs
  <2>1. CASE t \in Pending
    <3>1. t.nonce \in S
      BY <2>1
    <3>2. t.nonce <= top
      BY <1>4, <3>1
    <3>. QED
      BY <1>4, <2>0, <3>2
  <2>2. CASE t \notin Pending
    BY <1>0, <1>5, <2>0, <2>2 DEF Pending
  <2>. QED
    BY <2>1, <2>2
<1>. QED
  BY <1>5, <1>6

-----------------------------------------------------------------------------
(* Types.                                                                  *)

\* What the service holds are Safe transactions.
LEMMA ProposedTypes ==
  ASSUME TypeOK
  PROVE  /\ proposals \in Seq(ProposalRecords)
         /\ Len(proposals) \in Nat /\ DOMAIN proposals = 1..Len(proposals)
         /\ \A i \in DOMAIN proposals : /\ proposals[i] \in ProposalRecords
                                        /\ proposals[i].tx \in SafeTxs
                                        /\ proposals[i].seen \in Nat
         /\ Proposed \in SUBSET SafeTxs
         /\ OnChainNonce \in Nat \ {0}
         /\ NextNonce \in Nat
<1>1. proposals \in Seq(ProposalRecords) /\ executed \in Seq(SafeTxs)
  BY DEF TypeOK, ProposalRecords
<1>2. \A i \in DOMAIN proposals : proposals[i] \in ProposalRecords
  BY <1>1, ElementOfSeq
<1>3. \A i \in DOMAIN proposals : proposals[i].tx \in SafeTxs /\ proposals[i].seen \in Nat
  BY <1>2 DEF ProposalRecords
<1>4. Proposed \in SUBSET SafeTxs
  BY <1>3 DEF Proposed
<1>5. NextNonce \in Nat
  BY <1>1, NextNonceIsBehind
<1>6. OnChainNonce \in Nat \ {0}
  BY <1>1 DEF OnChainNonce
<1>7. Len(proposals) \in Nat /\ DOMAIN proposals = 1..Len(proposals)
  BY <1>1
<1>. QED
  BY <1>1, <1>2, <1>3, <1>4, <1>5, <1>6, <1>7

\* An accepted proposal is appended to the others.
LEMMA AcceptEffect ==
  ASSUME TypeOK, NEW t \in SafeTxs, NEW o \in Owners, NEW seen \in Nat, Accept(t, o, seen)
  PROVE  /\ proposals' \in Seq(ProposalRecords)
         /\ signed' = signed \cup {<<t, o>>} /\ signed' \subseteq SafeTxs \X Owners
         /\ Len(proposals') = Len(proposals) + 1
         /\ DOMAIN proposals' = 1..(Len(proposals) + 1)
         /\ \A i \in DOMAIN proposals : proposals'[i] = proposals[i]
         /\ proposals'[Len(proposals) + 1] = [tx |-> t, seen |-> seen]
         /\ Proposed' = Proposed \cup {t}
<1>. DEFINE p == [tx |-> t, seen |-> seen]
<1>0. p \in ProposalRecords /\ p.tx = t
  BY DEF ProposalRecords
<1>. HIDE DEF p
<1>1. proposals' = Append(proposals, p)
  BY DEF Accept, p
<1>2. /\ proposals \in Seq(ProposalRecords) /\ Len(proposals) \in Nat
      /\ DOMAIN proposals = 1..Len(proposals)
  BY ProposedTypes
<1>3. /\ proposals' \in Seq(ProposalRecords)
      /\ Len(proposals') = Len(proposals) + 1
      /\ \A i \in 1..Len(proposals) : proposals'[i] = proposals[i]
      /\ proposals'[Len(proposals) + 1] = p
  BY <1>0, <1>1, <1>2, AppendProperties
<1>4. DOMAIN proposals' = 1..(Len(proposals) + 1)
  BY <1>3
<1>5. Proposed' = Proposed \cup {t}
  <2>1. Proposed' = {proposals'[i].tx : i \in 1..(Len(proposals) + 1)}
    BY <1>4 DEF Proposed
  <2>2. Proposed = {proposals[i].tx : i \in 1..Len(proposals)}
    BY <1>2 DEF Proposed
  <2>3. 1..(Len(proposals) + 1) = 1..Len(proposals) \cup {Len(proposals) + 1}
    BY <1>2
  <2>. QED
    BY <1>0, <1>3, <2>1, <2>2, <2>3
<1>6. signed' = signed \cup {<<t, o>>} /\ signed' \subseteq SafeTxs \X Owners
  BY DEF Accept, TypeOK
<1>. QED
  BY <1>2, <1>3, <1>4, <1>5, <1>6 DEF p

\* Transactions of the tool are Safe transactions.
LEMMA MakesSafeTxs ==
  ASSUME NEW n \in Nat
  PROVE  /\ Rejection(n) \in SafeTxs /\ Foreign(n) \in SafeTxs
         /\ \A b \in Batches, f \in 0..MaxFee : Request(n, b, f) \in SafeTxs
BY SafeServiceAssumption DEF Rejection, Foreign, Request, SafeTxs, Kinds, Batches

\* What a run has to work on.
LEMMA RunTypes ==
  ASSUME TypeOK, WorkByPlace, NEW o \in Owners
  PROVE  /\ run[o] \in Runs
         /\ run[o].todo \in SUBSET SafeTxs /\ run[o].loaded \in SUBSET SafeTxs
         /\ run[o].work \in SUBSET Batches /\ run[o].nonce \in Nat /\ run[o].seen \in Nat
         /\ run[o].fee \in 0..MaxFee /\ run[o].waited \in Nat
         /\ run[o].todo # {} => /\ Current(o) \in run[o].todo /\ Current(o) \in SafeTxs
                                /\ Current(o).nonce \in Nat
         /\ run[o].work # {} => /\ Min(run[o].work) \in run[o].work
                                /\ Min(run[o].work) \in Batches
                                /\ Request(run[o].nonce, Min(run[o].work), run[o].fee) \in SafeTxs
<1>1. run[o] \in Runs
  BY DEF TypeOK
<1>2. /\ run[o].todo \in SUBSET SafeTxs /\ run[o].loaded \in SUBSET SafeTxs
      /\ run[o].work \in SUBSET Batches /\ run[o].nonce \in Nat /\ run[o].seen \in Nat
      /\ run[o].fee \in 0..MaxFee /\ run[o].waited \in Nat
  BY <1>1 DEF Runs
<1>3. run[o].todo # {} => Current(o) \in run[o].todo /\ Current(o) \in SafeTxs
  BY <1>2, LowestIsMember DEF Current
<1>4. run[o].work # {} => Min(run[o].work) \in run[o].work /\ Min(run[o].work) \in Batches
  BY <1>2, SafeServiceAssumption, MinIsMember DEF Batches
<1>5. run[o].work # {} => Request(run[o].nonce, Min(run[o].work), run[o].fee) \in SafeTxs
  BY <1>2, <1>4, MakesSafeTxs
<1>6. \A t \in SafeTxs : t.nonce \in Nat
  BY DEF SafeTxs
<1>. QED
  BY <1>1, <1>2, <1>3, <1>4, <1>5, <1>6

-----------------------------------------------------------------------------
(* What a step does to the service and to the chain.                       *)

\* The actions of an owner that submit a proposal, and all others.
QuietStep(o) ==
  \/ ProposeNonce(o) \/ SignOne(o)
  \/ ValidateFees(o) \/ CheckNonces(o) \/ CheckFee(o) \/ Sleep(o) \/ PollFee(o)
  \/ Send(o) \/ ReceiptOk(o) \/ ReceiptBad(o)
  \/ ProposeStart(o) \/ SignStart(o) \/ ExecuteStart(o)

\* Every step is one of an owner, a block, or something the tool has no part in.
LEMMA StepCases ==
  ASSUME [Next]_vars
  PROVE  \/ \E o \in Owners : QuietStep(o) \/ ProposeBatch(o) \/ RejectOne(o)
         \/ \E e \in inflight : Include(e)
         \/ ForeignExecution /\ UNCHANGED <<run, reportVars>>
         \/ (\E o \in Owners : ForeignProposal(o)) /\ UNCHANGED <<run, reportVars>>
         \/ (FeeChanges \/ UNCHANGED serviceVars) /\ UNCHANGED <<run, reportVars>>
BY DEF Next, vars, serviceVars, reportVars, RunStep, NewRun, Elsewhere, QuietStep

\* Where a new proposal comes from.
Origin(t, o, seen) ==
  \/ t = Foreign(t.nonce) /\ seen = Len(proposals) /\ UNCHANGED <<run, reportVars>>
  \/ At(o, "reject") /\ t = Current(o) /\ seen = 0 /\ RejectOne(o)
  \/ /\ At(o, "propose") /\ seen = run[o].seen /\ ProposeBatch(o)
     /\ t = Request(run[o].nonce, Min(run[o].work), run[o].fee)

\* At most one proposal is added by a step, and it comes from there.
LEMMA Submissions ==
  ASSUME TypeOK, WorkByPlace, [Next]_vars
  PROVE  \/ proposals' = proposals
         \/ \E t \in SafeTxs, o \in Owners, seen \in Nat :
              Accept(t, o, seen) /\ Origin(t, o, seen) /\ UNCHANGED <<executed, fee, inflight>>
<1>1. CASE \E o \in Owners : QuietStep(o)
  BY <1>1 DEF QuietStep, serviceVars, ProposeNonce, SignOne, ValidateFees, CheckNonces, CheckFee,
     Sleep, PollFee, Send, ReceiptOk, ReceiptBad, ProposeStart, SignStart, ExecuteStart
<1>2. ASSUME NEW o \in Owners, ProposeBatch(o) PROVE
        \/ proposals' = proposals
        \/ \E t \in SafeTxs, seen \in Nat :
             Accept(t, o, seen) /\ Origin(t, o, seen) /\ UNCHANGED <<executed, fee, inflight>>
  <2>. DEFINE t == Request(run[o].nonce, Min(run[o].work), run[o].fee)
  <2>1. At(o, "propose") /\ UNCHANGED <<executed, fee, inflight>>
    BY <1>2 DEF ProposeBatch
  <2>2. run[o].seen \in Nat /\ t \in SafeTxs
    BY <2>1, RunTypes DEF WorkByPlace, Proposing, At
  <2>3. proposals' = proposals \/ Accept(t, o, run[o].seen)
    BY <1>2 DEF ProposeBatch
  <2>4. Origin(t, o, run[o].seen)
    BY <1>2, <2>1 DEF Origin
  <2>. HIDE DEF t
  <2>. QED
    BY <2>1, <2>2, <2>3, <2>4
<1>3. ASSUME NEW o \in Owners, RejectOne(o) PROVE
        \/ proposals' = proposals
        \/ \E t \in SafeTxs, seen \in Nat :
             Accept(t, o, seen) /\ Origin(t, o, seen) /\ UNCHANGED <<executed, fee, inflight>>
  <2>1. At(o, "reject") /\ UNCHANGED <<executed, fee, inflight>>
    BY <1>3 DEF RejectOne
  <2>2. Current(o) \in SafeTxs
    BY <2>1, RunTypes DEF WorkByPlace, Proposing, At
  <2>3. proposals' = proposals \/ Accept(Current(o), o, 0)
    BY <1>3 DEF RejectOne, Current
  <2>4. Origin(Current(o), o, 0)
    BY <1>3, <2>1 DEF Origin
  <2>. QED
    BY <2>1, <2>2, <2>3, <2>4
<1>4. CASE (\E o \in Owners : ForeignProposal(o)) /\ UNCHANGED <<run, reportVars>>
  <2>1. PICK o \in Owners : ForeignProposal(o)
    BY <1>4
  <2>2. PICK n \in OnChainNonce .. NextNonce : Accept(Foreign(n), o, Len(proposals))
    BY <2>1 DEF ForeignProposal
  <2>3. n \in Nat /\ Len(proposals) \in Nat
    BY ProposedTypes
  <2>4. Foreign(n) \in SafeTxs /\ Foreign(n) = Foreign(Foreign(n).nonce)
    BY <2>3, MakesSafeTxs DEF Foreign
  <2>5. Origin(Foreign(n), o, Len(proposals))
    BY <1>4, <2>4 DEF Origin
  <2>6. UNCHANGED <<executed, fee, inflight>>
    BY <2>1 DEF ForeignProposal
  <2>. QED
    BY <2>2, <2>3, <2>4, <2>5, <2>6
<1>5. CASE \E e \in inflight : Include(e)
  BY <1>5 DEF Include
<1>6. CASE ForeignExecution
  BY <1>6 DEF ForeignExecution
<1>7. CASE FeeChanges \/ UNCHANGED serviceVars
  BY <1>7 DEF FeeChanges, serviceVars
<1>. QED
  BY <1>1, <1>2, <1>3, <1>4, <1>5, <1>6, <1>7, StepCases

\* At most one transaction is carried out by a step: one that was sent for
\* execution, or one of another tool.
LEMMA Executions ==
  ASSUME TypeOK, WorkByPlace, [Next]_vars
  PROVE  \/ executed' = executed
         \/ \E t \in SafeTxs :
              /\ executed' = Append(executed, t)
              /\ t.nonce = OnChainNonce
              /\ t \in Proposed \/ \E e \in inflight : e.tx = t
              /\ proposals' = proposals
<1>1. CASE \E o \in Owners : QuietStep(o) \/ ProposeBatch(o) \/ RejectOne(o)
  BY <1>1 DEF QuietStep, serviceVars, ProposeNonce, SignOne, ValidateFees, CheckNonces, CheckFee,
     Sleep, PollFee, Send, ReceiptOk, ReceiptBad, ProposeStart, SignStart, ExecuteStart,
     ProposeBatch, RejectOne
<1>2. ASSUME NEW e \in inflight, Include(e) PROVE
        \/ executed' = executed
        \/ /\ e.tx \in SafeTxs /\ executed' = Append(executed, e.tx)
           /\ e.tx.nonce = OnChainNonce /\ proposals' = proposals
  <2>1. e.tx \in SafeTxs
    BY DEF TypeOK
  <2>. QED
    BY <1>2, <2>1 DEF Include, Succeeds
<1>3. CASE ForeignExecution
  <2>1. Foreign(OnChainNonce) \in SafeTxs /\ Foreign(OnChainNonce).nonce = OnChainNonce
    BY ProposedTypes, MakesSafeTxs DEF Foreign
  <2>. QED
    BY <1>3, <2>1 DEF ForeignExecution
<1>4. CASE \E o \in Owners : ForeignProposal(o)
  BY <1>4 DEF ForeignProposal
<1>5. CASE FeeChanges \/ UNCHANGED serviceVars
  BY <1>5 DEF FeeChanges, serviceVars
<1>. QED
  BY <1>1, <1>2, <1>3, <1>4, <1>5, StepCases

\* The list of proposals only grows, by one at a time.
LEMMA ProposalsGrow ==
  ASSUME TypeOK, WorkByPlace, [Next]_vars
  PROVE  /\ proposals' \in Seq(ProposalRecords)
         /\ Len(proposals') \in {Len(proposals), Len(proposals) + 1}
         /\ DOMAIN proposals' = 1..Len(proposals')
         /\ \A i \in DOMAIN proposals : i \in DOMAIN proposals' /\ proposals'[i] = proposals[i]
         /\ Proposed \subseteq Proposed'
<1>0. /\ proposals \in Seq(ProposalRecords) /\ Len(proposals) \in Nat
      /\ DOMAIN proposals = 1..Len(proposals)
  BY ProposedTypes
<1>1. CASE proposals' = proposals
  BY <1>0, <1>1 DEF Proposed
<1>2. CASE \E t \in SafeTxs, o \in Owners, seen \in Nat : Accept(t, o, seen)
  <2>1. PICK t \in SafeTxs, o \in Owners, seen \in Nat : Accept(t, o, seen)
    BY <1>2
  <2>2. /\ proposals' \in Seq(ProposalRecords)
        /\ Len(proposals') = Len(proposals) + 1
        /\ DOMAIN proposals' = 1..(Len(proposals) + 1)
        /\ \A i \in DOMAIN proposals : proposals'[i] = proposals[i]
        /\ Proposed' = Proposed \cup {t}
    BY <2>1, AcceptEffect
  <2>. QED
    BY <1>0, <2>2
<1>. QED
  BY <1>1, <1>2, Submissions

\* The list of what was carried out only grows, by one at a time.
LEMMA ExecutedGrows ==
  ASSUME TypeOK, WorkByPlace, [Next]_vars
  PROVE  /\ executed' \in Seq(SafeTxs)
         /\ OnChainNonce <= OnChainNonce'
         /\ \A n \in DOMAIN executed : n \in DOMAIN executed' /\ executed'[n] = executed[n]
         /\ \A n \in DOMAIN executed' \ DOMAIN executed :
              /\ n = OnChainNonce /\ executed'[n].nonce = n
              /\ executed'[n] \in Proposed \/ \E e \in inflight : e.tx = executed'[n]
         /\ DOMAIN executed = 1..(OnChainNonce - 1) /\ DOMAIN executed' = 1..(OnChainNonce' - 1)
<1>0. /\ executed \in Seq(SafeTxs) /\ Len(executed) \in Nat
      /\ DOMAIN executed = 1..Len(executed) /\ OnChainNonce = Len(executed) + 1
      /\ OnChainNonce' = Len(executed') + 1
  BY DEF TypeOK, OnChainNonce
<1>1. CASE executed' = executed
  BY <1>0, <1>1
<1>2. ASSUME NEW t \in SafeTxs, executed' = Append(executed, t), t.nonce = OnChainNonce,
             t \in Proposed \/ \E e \in inflight : e.tx = t
      PROVE  /\ executed' \in Seq(SafeTxs)
             /\ OnChainNonce <= OnChainNonce'
             /\ \A n \in DOMAIN executed : n \in DOMAIN executed' /\ executed'[n] = executed[n]
             /\ \A n \in DOMAIN executed' \ DOMAIN executed :
                  /\ n = OnChainNonce /\ executed'[n].nonce = n
                  /\ executed'[n] \in Proposed \/ \E e \in inflight : e.tx = executed'[n]
             /\ DOMAIN executed' = 1..(OnChainNonce' - 1)
  <2>1. /\ executed' \in Seq(SafeTxs)
        /\ Len(executed') = Len(executed) + 1
        /\ \A n \in 1..Len(executed) : executed'[n] = executed[n]
        /\ executed'[Len(executed) + 1] = t
    BY <1>0, <1>2, AppendProperties
  <2>2. DOMAIN executed' = 1..(Len(executed) + 1)
    BY <2>1
  <2>3. \A n \in DOMAIN executed' \ DOMAIN executed : n = OnChainNonce /\ executed'[n] = t
    BY <1>0, <2>1, <2>2
  <2>. QED
    BY <1>0, <1>2, <2>1, <2>2, <2>3
<1>. QED
  BY <1>0, <1>1, <1>2, Executions

-----------------------------------------------------------------------------
(* The filter and the deduplication of the queue.                          *)

\* What is in the queue was proposed and is one of the tool's transactions.
LEMMA QueueOfTool ==
  ASSUME TypeOK, NEW S \in SUBSET Ours
  PROVE  /\ S \subseteq Proposed /\ S \subseteq SafeTxs
         /\ \A t \in S : t.kind \in {"request", "rejection"}
         /\ Dedup(S) \subseteq S
<1>1. S \subseteq Proposed /\ \A t \in S : t.kind # "foreign"
  BY DEF Ours, Pending
<1>2. S \subseteq SafeTxs
  BY <1>1, ProposedTypes
<1>3. \A t \in SafeTxs : t.kind \in Kinds
  BY DEF SafeTxs
<1>. QED
  BY <1>1, <1>2, <1>3 DEF Dedup, Kinds

\* Every transaction has the place in the list where it was submitted.
LEMMA SubmissionPlace ==
  ASSUME TypeOK, NEW t \in Proposed
  PROVE  SubmissionOf(t) \in DOMAIN proposals /\ proposals[SubmissionOf(t)].tx = t
<1>1. \E i \in DOMAIN proposals : proposals[i].tx = t
  BY DEF Proposed
<1>. QED
  BY <1>1 DEF SubmissionOf

\* Of each nonce with transactions one is left by the deduplication.
LEMMA DedupKeepsOne ==
  ASSUME TypeOK, ProposalsWellFormed, NEW S \in SUBSET Ours, S # {}
  PROVE  Dedup(S) # {}
<1>1. PICK s \in S : TRUE
  OBVIOUS
<1>. DEFINE n == s.nonce
            r == Rejection(n)
<1>2. /\ S \subseteq Proposed /\ S \subseteq SafeTxs
      /\ \A t \in S : t.kind \in {"request", "rejection"}
  BY QueueOfTool
<1>3. \A t \in S : t.kind = "rejection" => t = Rejection(t.nonce)
  BY <1>2 DEF ProposalsWellFormed, WellFormed
<1>4. \A t \in S : SubmissionOf(t) \in 1..Len(proposals)
  BY <1>2, SubmissionPlace, ProposedTypes
<1>5. Len(proposals) \in Nat
  BY ProposedTypes
<1>6. CASE r \in S
  <2>1. r.kind = "rejection" /\ r.nonce = n
    BY DEF Rejection
  <2>2. ASSUME NEW u \in S, u.nonce = n PROVE Outranks(r, u)
    <3>1. CASE u.kind = "rejection"
      <4>1. u = r
        BY <1>3, <2>2, <3>1
      <4>2. SubmissionOf(r) >= SubmissionOf(r)
        BY <1>4, <1>5, <1>6
      <4>. QED
        BY <4>1, <4>2 DEF Outranks
    <3>2. CASE u.kind # "rejection"
      BY <2>1, <3>2 DEF Outranks
    <3>. QED
      BY <3>1, <3>2
  <2>3. r \in Dedup(S)
    BY <1>6, <2>1, <2>2 DEF Dedup
  <2>. QED
    BY <2>3
<1>7. CASE r \notin S
  <2>. DEFINE T == {t \in S : t.nonce = n}
              I == {SubmissionOf(t) : t \in T}
  <2>1. I \in SUBSET Nat /\ I # {} /\ \A i \in I : i <= Len(proposals)
    BY <1>1, <1>4, <1>5
  <2>2. PICK i \in I : \A j \in I : i >= j
    <3>. HIDE DEF I
    <3>. QED
      BY <1>5, <2>1, GreatestNatural
  <2>3. PICK t \in T : SubmissionOf(t) = i
    BY <2>2
  <2>4. \A u \in T : SubmissionOf(t) >= SubmissionOf(u)
    BY <2>2, <2>3
  <2>5. \A u \in T : u.kind = "request"
    BY <1>2, <1>3, <1>7
  <2>6. t \in Dedup(S)
    BY <2>3, <2>4, <2>5 DEF Dedup, Outranks
  <2>. QED
    BY <2>6
<1>. QED
  BY <1>6, <1>7

\* No list of the deduplication holds a request whose rejection was in the queue.
LEMMA DedupPrefersRejections ==
  ASSUME NEW S, NEW t \in Dedup(S), t.kind = "request"
  PROVE  Rejection(t.nonce) \notin S
<1>1. /\ Rejection(t.nonce).kind = "rejection"
      /\ Rejection(t.nonce).nonce = t.nonce
  BY DEF Rejection
<1>. QED
  BY <1>1 DEF Dedup, Outranks

-----------------------------------------------------------------------------
(* What a step does to the run of an owner.                                *)

PlaceOK(r) ==
  /\ r.work # {} <=> r.pc \in Proposing
  /\ r.todo # {} <=> r.pc \notin Proposing \cup {"idle"}

\* A run that stands where it may.
GoodRuns == {r \in Runs : PlaceOK(r)}

RunBecomes(o, r) == run' = [run EXCEPT ![o] = r]

\* The end of a run and a move within it are proper.
LEMMA EndsAndMoves ==
  ASSUME TypeOK, WorkByPlace, NEW o \in Owners
  PROVE  /\ run[o] \in GoodRuns /\ NoRun \in GoodRuns
         /\ EndRun(o) => RunBecomes(o, NoRun)
         /\ \A pc \in Phases : Goto(o, pc) => RunBecomes(o, [run[o] EXCEPT !.pc = pc])
         /\ \A pc \in Phases \ (Proposing \cup {"idle"}) :
              run[o].pc \notin Proposing \cup {"idle"} => [run[o] EXCEPT !.pc = pc] \in GoodRuns
         /\ \A t : /\ run[o].pc \notin Proposing \cup {"idle"} /\ run[o].todo # {t}
                   /\ t \in run[o].todo
                   => [run[o] EXCEPT !.todo = @ \ {t}] \in GoodRuns
<1>1. run[o] \in GoodRuns
  BY RunTypes DEF GoodRuns, PlaceOK, WorkByPlace
<1>2. NoRun \in GoodRuns
  BY SafeServiceAssumption DEF NoRun, GoodRuns, PlaceOK, Runs, Phases, Proposing
<1>3. EndRun(o) => RunBecomes(o, NoRun)
  BY DEF EndRun, RunBecomes
<1>4. \A pc \in Phases : Goto(o, pc) => RunBecomes(o, [run[o] EXCEPT !.pc = pc])
  BY DEF Goto, RunBecomes
<1>5. ASSUME NEW pc \in Phases \ (Proposing \cup {"idle"}),
             run[o].pc \notin Proposing \cup {"idle"}
      PROVE  [run[o] EXCEPT !.pc = pc] \in GoodRuns
  BY <1>1, <1>5 DEF GoodRuns, PlaceOK, Runs, Proposing
<1>6. ASSUME NEW t \in run[o].todo, run[o].pc \notin Proposing \cup {"idle"}, run[o].todo # {t}
      PROVE  [run[o] EXCEPT !.todo = @ \ {t}] \in GoodRuns
  BY <1>1, <1>6 DEF GoodRuns, PlaceOK, Runs
<1>. QED
  BY <1>1, <1>2, <1>3, <1>4, <1>5, <1>6

\* While proposing.
LEMMA ProposingMoves ==
  ASSUME TypeOK, WorkByPlace, NEW o \in Owners,
         ProposeStart(o) \/ ProposeNonce(o) \/ ProposeBatch(o)
  PROVE  \E r \in GoodRuns : RunBecomes(o, r)
<1>0. /\ run[o] \in GoodRuns /\ run[o] \in Runs /\ NoRun \in GoodRuns /\ NoRun \in Runs
      /\ EndRun(o) => RunBecomes(o, NoRun)
  BY EndsAndMoves, RunTypes DEF GoodRuns
<1>1. CASE ProposeStart(o)
  <2>1. PICK W \in (SUBSET Wanted) \ {{}}, offer \in fee..MaxFee :
          run' = [run EXCEPT ![o] = [NoRun EXCEPT !.pc = "getNonce", !.work = W, !.fee = offer]]
    BY <1>1 DEF ProposeStart
  <2>. DEFINE r == [NoRun EXCEPT !.pc = "getNonce", !.work = W, !.fee = offer]
  <2>2. W \in SUBSET Batches /\ W # {} /\ offer \in 0..MaxFee
    BY DEF Wanted, TypeOK, Fees
  <2>3. r \in GoodRuns
    BY <2>2 DEF GoodRuns, PlaceOK, Runs, Phases, NoRun, Proposing
  <2>. QED
    BY <2>1, <2>3 DEF RunBecomes
<1>2. CASE ProposeNonce(o)
  <2>. DEFINE r == [run[o] EXCEPT !.pc = "propose", !.nonce = NextNonce, !.seen = Len(proposals)]
  <2>1. CASE EndRun(o)
    BY <1>0, <2>1
  <2>2. CASE ~EndRun(o)
    <3>1. run' = [run EXCEPT ![o].pc = "propose", ![o].nonce = NextNonce,
                             ![o].seen = Len(proposals)]
      BY <1>2, <2>2 DEF ProposeNonce, StartingNonce
    <3>2. RunBecomes(o, r)
      BY <3>1 DEF RunBecomes
    <3>3. run[o].pc = "getNonce"
      BY <1>2 DEF ProposeNonce, At
    <3>4. NextNonce \in Nat /\ Len(proposals) \in Nat
      BY ProposedTypes
    <3>5. r \in Runs
      BY <1>0, <3>4 DEF Runs, Phases
    <3>6. r \in GoodRuns
      BY <1>0, <3>3, <3>5 DEF GoodRuns, PlaceOK, Proposing, Runs
    <3>. QED
      BY <3>2, <3>6
  <2>. QED
    BY <2>1, <2>2
<1>3. CASE ProposeBatch(o)
  <2>. DEFINE rest == run[o].work \ {Min(run[o].work)}
              r == [run[o] EXCEPT !.work = rest, !.nonce = @ + 1]
  <2>1. EndRun(o) \/ (rest # {} /\ run' = [run EXCEPT ![o].work = rest, ![o].nonce = @ + 1])
    BY <1>3 DEF ProposeBatch, ProcessExit
  <2>2. CASE EndRun(o)
    BY <1>0, <2>2
  <2>3. CASE rest # {} /\ run' = [run EXCEPT ![o].work = rest, ![o].nonce = @ + 1]
    <3>1. RunBecomes(o, r)
      BY <2>3 DEF RunBecomes
    <3>2. rest \in SUBSET Batches /\ run[o].nonce + 1 \in Nat
      BY RunTypes
    <3>3. r \in Runs
      BY <1>0, <3>2 DEF Runs
    <3>4. run[o].pc = "propose"
      BY <1>3 DEF ProposeBatch, At
    <3>5. r \in GoodRuns
      BY <1>0, <2>3, <3>3, <3>4 DEF GoodRuns, PlaceOK, Proposing, Runs
    <3>. QED
      BY <3>1, <3>5
  <2>. QED
    BY <2>1, <2>2, <2>3
<1>. QED
  BY <1>1, <1>2, <1>3

\* While confirming, and while rejecting what is stale.
LEMMA ConfirmingMoves ==
  ASSUME TypeOK, WorkByPlace, NEW o \in Owners, SignStart(o) \/ SignOne(o) \/ RejectOne(o)
  PROVE  \E r \in GoodRuns : RunBecomes(o, r)
<1>0. /\ run[o] \in GoodRuns /\ NoRun \in GoodRuns
      /\ EndRun(o) => RunBecomes(o, NoRun)
      /\ \A t : /\ run[o].pc \notin Proposing \cup {"idle"} /\ run[o].todo # {t}
                /\ t \in run[o].todo
                => [run[o] EXCEPT !.todo = @ \ {t}] \in GoodRuns
  BY EndsAndMoves
<1>1. CASE SignStart(o)
  <2>. DEFINE r == [NoRun EXCEPT !.pc = "sign", !.todo = ToSign(o), !.seen = Len(proposals)]
  <2>1. RunBecomes(o, r)
    BY <1>1 DEF SignStart, RunBecomes
  <2>2. ToSign(o) \subseteq SafeTxs
    BY QueueOfTool DEF ToSign
  <2>3. ToSign(o) # {} /\ Len(proposals) \in Nat
    BY <1>1, ProposedTypes DEF SignStart
  <2>4. r \in GoodRuns
    BY <1>0, <2>2, <2>3 DEF GoodRuns, PlaceOK, Runs, Phases, NoRun, Proposing
  <2>. QED
    BY <2>1, <2>4
<1>2. CASE SignOne(o)
  <2>1. EndRun(o) \/ \E t \in run[o].todo : run[o].todo # {t} /\ run' = [run EXCEPT ![o].todo = @ \ {t}]
    BY <1>2 DEF SignOne
  <2>2. ASSUME NEW t \in run[o].todo, run[o].todo # {t}, run' = [run EXCEPT ![o].todo = @ \ {t}]
        PROVE  \E r \in GoodRuns : RunBecomes(o, r)
    <3>1. RunBecomes(o, [run[o] EXCEPT !.todo = @ \ {t}])
      BY <2>2 DEF RunBecomes
    <3>2. run[o].pc \notin Proposing \cup {"idle"}
      BY <1>2 DEF SignOne, At, Proposing
    <3>. QED
      BY <1>0, <2>2, <3>1, <3>2
  <2>. QED
    BY <1>0, <2>1, <2>2
<1>3. CASE RejectOne(o)
  <2>0. run[o].pc \notin Proposing \cup {"idle"}
    BY <1>3 DEF RejectOne, At, Proposing
  <2>. DEFINE t == Current(o)
  <2>1. t \in run[o].todo
    BY <2>0, RunTypes DEF WorkByPlace
  <2>2. EndRun(o) \/ (run[o].todo # {t} /\ run' = [run EXCEPT ![o].todo = @ \ {t}])
    BY <1>3 DEF RejectOne, Current
  <2>. HIDE DEF t
  <2>3. CASE EndRun(o)
    BY <1>0, <2>3
  <2>4. CASE run[o].todo # {t} /\ run' = [run EXCEPT ![o].todo = @ \ {t}]
    <3>1. RunBecomes(o, [run[o] EXCEPT !.todo = @ \ {t}])
      BY <2>4 DEF RunBecomes
    <3>. QED
      BY <1>0, <2>0, <2>1, <2>4, <3>1
  <2>. QED
    BY <2>2, <2>3, <2>4
<1>. QED
  BY <1>1, <1>2, <1>3

\* While executing.
LEMMA ExecutingMoves ==
  ASSUME TypeOK, WorkByPlace, ProposalsWellFormed, NEW o \in Owners,
         \/ ExecuteStart(o) \/ ValidateFees(o) \/ CheckNonces(o) \/ CheckFee(o) \/ Sleep(o)
         \/ PollFee(o) \/ Send(o) \/ ReceiptOk(o) \/ ReceiptBad(o)
  PROVE  \E r \in GoodRuns : RunBecomes(o, r)
<1>0. /\ run[o] \in GoodRuns /\ run[o] \in Runs /\ NoRun \in GoodRuns
      /\ EndRun(o) => RunBecomes(o, NoRun)
      /\ \A pc \in Phases : Goto(o, pc) => RunBecomes(o, [run[o] EXCEPT !.pc = pc])
      /\ \A pc \in Phases \ (Proposing \cup {"idle"}) :
           run[o].pc \notin Proposing \cup {"idle"} => [run[o] EXCEPT !.pc = pc] \in GoodRuns
  BY EndsAndMoves DEF GoodRuns
<1>1. CASE ExecuteStart(o)
  <2>. DEFINE pc == IF \A t \in Dedup(Loaded) : t.kind = "rejection" THEN "nonceCheck" ELSE "validate"
              r == [NoRun EXCEPT !.pc = pc, !.todo = Dedup(Loaded), !.loaded = Loaded]
  <2>1. RunBecomes(o, r)
    BY <1>1 DEF ExecuteStart, RunBecomes
  <2>2. Loaded \in SUBSET Ours /\ Loaded # {}
    BY <1>1 DEF ExecuteStart, Loaded, Confirmed
  <2>3. Dedup(Loaded) # {} /\ Dedup(Loaded) \subseteq SafeTxs /\ Loaded \subseteq SafeTxs
    BY <2>2, DedupKeepsOne, QueueOfTool
  <2>4. pc \in {"nonceCheck", "validate"}
    OBVIOUS
  <2>. HIDE DEF pc
  <2>5. r \in GoodRuns
    BY <1>0, <2>3, <2>4 DEF GoodRuns, PlaceOK, Runs, Phases, NoRun, Proposing
  <2>. QED
    BY <2>1, <2>5
<1>2. ASSUME NEW pc \in Phases \ (Proposing \cup {"idle"}), Goto(o, pc),
             run[o].pc \notin Proposing \cup {"idle"}
      PROVE  \E r \in GoodRuns : RunBecomes(o, r)
  BY <1>0, <1>2
<1>3. CASE EndRun(o)
  BY <1>0, <1>3
<1>4. CASE ValidateFees(o)
  <2>0. run[o].pc \notin Proposing \cup {"idle"}
    BY <1>4 DEF ValidateFees, At, Proposing
  <2>. DEFINE stale == {t \in run[o].todo : Stale(t)}
              todo == {Rejection(t.nonce) : t \in stale}
              r == [run[o] EXCEPT !.pc = "reject", !.todo = todo]
  <2>1. \/ Goto(o, "nonceCheck") \/ EndRun(o)
        \/ stale # {} /\ RunBecomes(o, r)
    BY <1>4 DEF ValidateFees, RunBecomes
  <2>2. CASE stale # {} /\ RunBecomes(o, r)
    <3>1. \A t \in run[o].todo : t.nonce \in Nat
      BY RunTypes DEF SafeTxs
    <3>2. todo \in SUBSET SafeTxs /\ todo # {}
      BY <2>2, <3>1, MakesSafeTxs
    <3>. HIDE DEF todo
    <3>3. r \in GoodRuns
      BY <1>0, <2>0, <3>2 DEF GoodRuns, PlaceOK, Runs, Phases, Proposing
    <3>. QED
      BY <2>2, <3>3
  <2>. QED
    BY <1>2, <1>3, <2>0, <2>1, <2>2 DEF Phases, Proposing
<1>5. CASE CheckNonces(o)
  BY <1>2, <1>3, <1>5 DEF CheckNonces, At, Phases, Proposing
<1>6. CASE CheckFee(o)
  <2>. DEFINE r == [run[o] EXCEPT !.pc = "wait", !.waited = 0]
  <2>0. run[o].pc \notin Proposing \cup {"idle"}
    BY <1>6 DEF CheckFee, At, Proposing
  <2>1. Goto(o, "send") \/ EndRun(o) \/ RunBecomes(o, r)
    BY <1>6 DEF CheckFee, RunBecomes
  <2>2. r \in GoodRuns
    BY <1>0, <2>0 DEF GoodRuns, PlaceOK, Runs, Phases, Proposing
  <2>. QED
    BY <1>2, <1>3, <2>0, <2>1, <2>2 DEF Phases, Proposing
<1>7. CASE Sleep(o)
  <2>. DEFINE r == [run[o] EXCEPT !.pc = "poll", !.waited = @ + 1]
  <2>0. run[o].pc \notin Proposing \cup {"idle"} /\ run[o].waited + 1 \in Nat
    BY <1>7, RunTypes DEF Sleep, At, Proposing
  <2>1. RunBecomes(o, r)
    BY <1>7 DEF Sleep, Slept, RunBecomes
  <2>2. r \in GoodRuns
    BY <1>0, <2>0 DEF GoodRuns, PlaceOK, Runs, Phases, Proposing
  <2>. QED
    BY <2>1, <2>2
<1>8. CASE PollFee(o)
  BY <1>2, <1>3, <1>8 DEF PollFee, At, Phases, Proposing
<1>9. CASE Send(o)
  BY <1>2, <1>3, <1>9 DEF Send, At, Phases, Proposing
<1>10. CASE ReceiptOk(o)
  <2>0. run[o].pc \notin Proposing \cup {"idle"}
    BY <1>10 DEF ReceiptOk, GoodReceipt, At, Proposing
  <2>. DEFINE t == Current(o)
              rest == run[o].todo \ {t}
              r == [run[o] EXCEPT !.pc = "feeCheck", !.todo = rest]
  <2>1. t \in run[o].todo
    BY <2>0, RunTypes DEF WorkByPlace
  <2>2. EndRun(o) \/ (run[o].todo # {t} /\ RunBecomes(o, r))
    BY <1>10 DEF ReceiptOk, RunBecomes
  <2>. HIDE DEF t
  <2>3. CASE run[o].todo # {t} /\ RunBecomes(o, r)
    <3>1. rest # {} /\ rest \in SUBSET SafeTxs
      BY <2>1, <2>3, RunTypes
    <3>. HIDE DEF rest
    <3>2. r \in GoodRuns
      BY <1>0, <2>0, <3>1 DEF GoodRuns, PlaceOK, Runs, Phases, Proposing
    <3>. QED
      BY <2>3, <3>2
  <2>. QED
    BY <1>3, <2>2, <2>3
<1>11. CASE ReceiptBad(o)
  BY <1>3, <1>11 DEF ReceiptBad
<1>. QED
  BY <1>1, <1>4, <1>5, <1>6, <1>7, <1>8, <1>9, <1>10, <1>11

\* A block that includes the transaction a run waits for moves that run.
LEMMA BlockMoves ==
  ASSUME TypeOK, WorkByPlace, OneAtATime, NEW e \in inflight, Include(e), ~e.lost
  PROVE  \E r \in GoodRuns : RunBecomes(e.owner, r)
<1>. DEFINE pc == IF Succeeds(e.tx) THEN "mined" ELSE "reverted"
<1>1. e.owner \in Owners /\ run[e.owner].pc = "sent"
  BY DEF TypeOK, OneAtATime, At
<1>2. RunBecomes(e.owner, [run[e.owner] EXCEPT !.pc = pc])
  BY DEF Include, RunBecomes
<1>3. pc \in Phases \ (Proposing \cup {"idle"})
  BY DEF Phases, Proposing
<1>. HIDE DEF pc
<1>4. [run[e.owner] EXCEPT !.pc = pc] \in GoodRuns
  BY <1>1, <1>3, EndsAndMoves DEF Proposing
<1>. QED
  BY <1>2, <1>4

\* A step changes at most one run, and leaves it where it may stand.
LEMMA RunsChange ==
  ASSUME TypeOK, WorkByPlace, ProposalsWellFormed, OneAtATime, [Next]_vars
  PROVE  run' = run \/ \E o \in Owners, r \in GoodRuns : RunBecomes(o, r)
<1>1. ASSUME NEW o \in Owners, QuietStep(o) \/ ProposeBatch(o) \/ RejectOne(o)
      PROVE  \E r \in GoodRuns : RunBecomes(o, r)
  <2>1. CASE ProposeStart(o) \/ ProposeNonce(o) \/ ProposeBatch(o)
    BY <2>1, ProposingMoves
  <2>2. CASE SignStart(o) \/ SignOne(o) \/ RejectOne(o)
    BY <2>2, ConfirmingMoves
  <2>3. CASE \/ ExecuteStart(o) \/ ValidateFees(o) \/ CheckNonces(o) \/ CheckFee(o) \/ Sleep(o)
             \/ PollFee(o) \/ Send(o) \/ ReceiptOk(o) \/ ReceiptBad(o)
    BY <2>3, ExecutingMoves
  <2>. QED
    BY <1>1, <2>1, <2>2, <2>3 DEF QuietStep
<1>2. ASSUME NEW e \in inflight, Include(e)
      PROVE  run' = run \/ \E o \in Owners, r \in GoodRuns : RunBecomes(o, r)
  <2>1. CASE e.lost
    BY <1>2, <2>1 DEF Include
  <2>2. CASE ~e.lost
    <3>1. e.owner \in Owners
      BY DEF TypeOK
    <3>. QED
      BY <1>2, <2>2, <3>1, BlockMoves
  <2>. QED
    BY <2>1, <2>2
<1>3. CASE UNCHANGED <<run, reportVars>>
  BY <1>3
<1>. QED
  BY <1>1, <1>2, <1>3, StepCases

\* Types of what the runs are.
LEMMA RunTypesStep ==
  ASSUME TypeOK, WorkByPlace, ProposalsWellFormed, OneAtATime, [Next]_vars
  PROVE  run' \in [Owners -> Runs] /\ WorkByPlace'
<1>1. run \in [Owners -> Runs]
  BY DEF TypeOK
<1>2. CASE run' = run
  BY <1>1, <1>2 DEF WorkByPlace
<1>3. ASSUME NEW o \in Owners, NEW r \in GoodRuns, RunBecomes(o, r)
      PROVE  run' \in [Owners -> Runs] /\ WorkByPlace'
  <2>1. /\ run' \in [Owners -> Runs] /\ run'[o] = r
        /\ \A p \in Owners \ {o} : run'[p] = run[p]
    BY <1>1, <1>3 DEF RunBecomes, GoodRuns
  <2>2. PlaceOK(r) /\ \A p \in Owners : PlaceOK(run[p])
    BY <1>3 DEF GoodRuns, PlaceOK, WorkByPlace
  <2>3. \A p \in Owners : PlaceOK(run'[p])
    BY <2>1, <2>2
  <2>. QED
    BY <2>1, <2>3 DEF WorkByPlace, PlaceOK
<1>. QED
  BY <1>2, <1>3, RunsChange

\* Types of confirmations, the fee and transactions on their way.
LEMMA ServiceTypesStep ==
  ASSUME TypeOK, WorkByPlace, [Next]_vars
  PROVE  /\ signed' \subseteq SafeTxs \X Owners /\ fee' \in Fees
         /\ inflight' \subseteq [owner : Owners, tx : SafeTxs, lost : BOOLEAN]
<1>0. /\ signed \subseteq SafeTxs \X Owners /\ fee \in Fees
      /\ inflight \subseteq [owner : Owners, tx : SafeTxs, lost : BOOLEAN]
  BY DEF TypeOK
<1>1. signed' \subseteq SafeTxs \X Owners
  <2>1. ASSUME NEW t \in SafeTxs, NEW o \in Owners, NEW seen \in Nat, Accept(t, o, seen)
        PROVE  signed' \subseteq SafeTxs \X Owners
    BY <1>0, <2>1 DEF Accept
  <2>2. ASSUME NEW o \in Owners, SignOne(o) PROVE signed' \subseteq SafeTxs \X Owners
    <3>1. run[o].todo \subseteq SafeTxs
      BY RunTypes
    <3>2. \A t \in SafeTxs : signed \cup {<<t, o>>} \subseteq SafeTxs \X Owners
      BY <1>0
    <3>3. \E t \in run[o].todo : signed' \in {signed, signed \cup {<<t, o>>}}
      BY <2>2 DEF SignOne
    <3>. QED
      BY <1>0, <3>1, <3>2, <3>3
  <2>3. ASSUME NEW o \in Owners, QuietStep(o), ~SignOne(o) PROVE signed' = signed
    BY <2>3 DEF QuietStep, serviceVars, ProposeNonce, ValidateFees, CheckNonces, CheckFee,
       Sleep, PollFee, Send, ReceiptOk, ReceiptBad, ProposeStart, SignStart, ExecuteStart
  <2>4. ASSUME NEW o \in Owners, ProposeBatch(o) PROVE signed' \subseteq SafeTxs \X Owners
    <3>. DEFINE t == Request(run[o].nonce, Min(run[o].work), run[o].fee)
    <3>1. t \in SafeTxs /\ run[o].seen \in Nat
      BY <2>4, RunTypes DEF ProposeBatch, WorkByPlace, Proposing, At
    <3>2. signed' = signed \/ Accept(t, o, run[o].seen)
      BY <2>4 DEF ProposeBatch
    <3>. HIDE DEF t
    <3>. QED
      BY <1>0, <2>1, <3>1, <3>2
  <2>5. ASSUME NEW o \in Owners, RejectOne(o) PROVE signed' \subseteq SafeTxs \X Owners
    <3>1. Current(o) \in SafeTxs
      BY <2>5, RunTypes DEF RejectOne, WorkByPlace, Proposing, At
    <3>2. signed' = signed \/ Accept(Current(o), o, 0)
      BY <2>5 DEF RejectOne, Current
    <3>. QED
      BY <1>0, <2>1, <3>1, <3>2
  <2>6. ASSUME NEW o \in Owners, ForeignProposal(o) PROVE signed' \subseteq SafeTxs \X Owners
    <3>1. PICK n \in OnChainNonce .. NextNonce : Accept(Foreign(n), o, Len(proposals))
      BY <2>6 DEF ForeignProposal
    <3>2. n \in Nat /\ Len(proposals) \in Nat /\ Foreign(n) \in SafeTxs
      BY ProposedTypes, MakesSafeTxs
    <3>. QED
      BY <2>1, <3>1, <3>2
  <2>7. (\E e \in inflight : Include(e)) \/ ForeignExecution \/ FeeChanges \/ UNCHANGED serviceVars
        => signed' = signed
    BY DEF Include, ForeignExecution, FeeChanges, serviceVars
  <2>. QED
    BY <1>0, <2>2, <2>3, <2>4, <2>5, <2>6, <2>7, StepCases
<1>2. fee' \in Fees
  <2>1. FeeChanges \/ UNCHANGED fee
    <3>1. \A o \in Owners : QuietStep(o) => UNCHANGED fee
      BY DEF QuietStep, serviceVars, ProposeNonce, SignOne, ValidateFees, CheckNonces,
         CheckFee, Sleep, PollFee, Send, ReceiptOk, ReceiptBad, ProposeStart, SignStart, ExecuteStart
    <3>2. \A o \in Owners : ProposeBatch(o) \/ RejectOne(o) \/ ForeignProposal(o) => UNCHANGED fee
      BY DEF ProposeBatch, RejectOne, ForeignProposal
    <3>. QED
      BY <3>1, <3>2, StepCases DEF Include, ForeignExecution, serviceVars
  <2>. QED
    BY <1>0, <2>1 DEF FeeChanges
<1>3. inflight' \subseteq [owner : Owners, tx : SafeTxs, lost : BOOLEAN]
  <2>1. ASSUME NEW o \in Owners, Send(o)
        PROVE  inflight' \subseteq [owner : Owners, tx : SafeTxs, lost : BOOLEAN]
    <3>1. Current(o) \in SafeTxs
      BY <2>1, RunTypes DEF Send, WorkByPlace, Proposing, At
    <3>2. \E lost \in BOOLEAN :
            inflight' \subseteq inflight \cup {[owner |-> o, tx |-> Current(o), lost |-> lost]}
      BY <2>1 DEF Send
    <3>. QED
      BY <1>0, <3>1, <3>2
  <2>2. ASSUME NEW o \in Owners, ReceiptBad(o)
        PROVE  inflight' \subseteq [owner : Owners, tx : SafeTxs, lost : BOOLEAN]
    <3>1. \A e \in inflight : [e EXCEPT !.lost = TRUE] \in [owner : Owners, tx : SafeTxs, lost : BOOLEAN]
      BY <1>0
    <3>. QED
      BY <1>0, <2>2, <3>1 DEF ReceiptBad
  <2>3. ASSUME NEW o \in Owners, QuietStep(o), ~Send(o), ~ReceiptBad(o) PROVE inflight' = inflight
    BY <2>3 DEF QuietStep, serviceVars, ProposeNonce, SignOne, ValidateFees, CheckNonces, CheckFee,
       Sleep, PollFee, ReceiptOk, ProposeStart, SignStart, ExecuteStart
  <2>4. \A o \in Owners : ProposeBatch(o) \/ RejectOne(o) \/ ForeignProposal(o) => UNCHANGED inflight
    BY DEF ProposeBatch, RejectOne, ForeignProposal
  <2>5. \A e \in inflight : Include(e) => inflight' \subseteq inflight
    BY DEF Include
  <2>6. ForeignExecution \/ FeeChanges \/ UNCHANGED serviceVars => inflight' = inflight
    BY DEF ForeignExecution, FeeChanges, serviceVars
  <2>. QED
    BY <1>0, <2>1, <2>2, <2>3, <2>4, <2>5, <2>6, StepCases
<1>. QED
  BY <1>1, <1>2, <1>3

\* The steps that list batches, and the one that reports a transaction.
LEMMA ReportsChange ==
  ASSUME [Next]_vars
  PROVE  \/ UNCHANGED reportVars
         \/ \E o \in Owners : ProposeStart(o) \/ ProposeNonce(o) \/ ProposeBatch(o) \/ ReceiptOk(o)
<1>1. \A o \in Owners : QuietStep(o) \/ RejectOne(o) =>
        \/ UNCHANGED reportVars
        \/ ProposeStart(o) \/ ProposeNonce(o) \/ ReceiptOk(o)
  BY DEF QuietStep, reportVars, SignOne, ValidateFees, CheckNonces, CheckFee, Sleep, PollFee,
     Send, ReceiptBad, SignStart, ExecuteStart, RejectOne
<1>2. \A e \in inflight : Include(e) => UNCHANGED reportVars
  BY DEF Include
<1>3. UNCHANGED <<run, reportVars>> => UNCHANGED reportVars
  BY DEF reportVars
<1>. QED
  BY <1>1, <1>2, <1>3, StepCases

\* Types of what was listed and reported.
LEMMA ReportTypesStep ==
  ASSUME TypeOK, WorkByPlace, [Next]_vars
  PROVE  /\ printed' \subseteq Batches /\ started' \subseteq Batches /\ doubtful' \subseteq Batches
         /\ done' \subseteq SafeTxs
<1>0. /\ printed \subseteq Batches /\ started \subseteq Batches /\ doubtful \subseteq Batches
      /\ done \subseteq SafeTxs
  BY DEF TypeOK
<1>1. CASE UNCHANGED reportVars
  BY <1>0, <1>1 DEF reportVars
<1>2. ASSUME NEW o \in Owners, ProposeStart(o)
      PROVE  /\ printed' \subseteq Batches /\ started' \subseteq Batches
             /\ doubtful' \subseteq Batches /\ done' \subseteq SafeTxs
  <2>1. \E W \in SUBSET Wanted : doubtful' \subseteq doubtful \cup W
    BY <1>2 DEF ProposeStart
  <2>2. Wanted \subseteq Batches
    BY DEF Wanted
  <2>. QED
    BY <1>0, <1>2, <2>1, <2>2 DEF ProposeStart
<1>3. ASSUME NEW o \in Owners, ProposeNonce(o)
      PROVE  /\ printed' \subseteq Batches /\ started' \subseteq Batches
             /\ doubtful' \subseteq Batches /\ done' \subseteq SafeTxs
  <2>1. run[o].work \subseteq Batches
    BY RunTypes
  <2>. QED
    BY <1>0, <1>3, <2>1 DEF ProposeNonce
<1>4. ASSUME NEW o \in Owners, ProposeBatch(o)
      PROVE  /\ printed' \subseteq Batches /\ started' \subseteq Batches
             /\ doubtful' \subseteq Batches /\ done' \subseteq SafeTxs
  <2>1. run[o].work \subseteq Batches /\ Min(run[o].work) \in Batches
    BY <1>4, RunTypes DEF ProposeBatch, WorkByPlace, Proposing, At
  <2>2. /\ printed' \subseteq printed \cup run[o].work
        /\ doubtful' \subseteq doubtful \cup {Min(run[o].work)}
        /\ started' = started /\ done' = done
    BY <1>4 DEF ProposeBatch, RemainingPubkeys
  <2>. QED
    BY <1>0, <2>1, <2>2
<1>5. ASSUME NEW o \in Owners, ReceiptOk(o)
      PROVE  /\ printed' \subseteq Batches /\ started' \subseteq Batches
             /\ doubtful' \subseteq Batches /\ done' \subseteq SafeTxs
  <2>1. Current(o) \in SafeTxs
    BY <1>5, RunTypes DEF ReceiptOk, GoodReceipt, WorkByPlace, Proposing, At
  <2>. QED
    BY <1>0, <1>5, <2>1 DEF ReceiptOk
<1>. QED
  BY <1>1, <1>2, <1>3, <1>4, <1>5, ReportsChange

\* All types together.
LEMMA TypeStep ==
  ASSUME TypeOK, WorkByPlace, ProposalsWellFormed, OneAtATime, [Next]_vars
  PROVE  TypeOK' /\ WorkByPlace'
<1>1. proposals' \in Seq([tx : SafeTxs, seen : Nat])
  BY ProposalsGrow DEF ProposalRecords
<1>2. executed' \in Seq(SafeTxs)
  BY ExecutedGrows
<1>. QED
  BY <1>1, <1>2, RunTypesStep, ServiceTypesStep, ReportTypesStep DEF TypeOK

-----------------------------------------------------------------------------
(* The queue.                                                              *)

\* No proposal is malformed.
LEMMA WellFormedStep ==
  ASSUME QueueInv, [Next]_vars
  PROVE  ProposalsWellFormed'
<1>0. TypeOK /\ WorkByPlace /\ ProposalsWellFormed /\ QueueWasProposed
  BY DEF QueueInv
<1>1. CASE proposals' = proposals
  BY <1>0, <1>1 DEF ProposalsWellFormed, Proposed, WellFormed
<1>2. ASSUME NEW t \in SafeTxs, NEW o \in Owners, NEW seen \in Nat,
             Accept(t, o, seen), Origin(t, o, seen)
      PROVE  ProposalsWellFormed'
  <2>1. Proposed' = Proposed \cup {t}
    BY <1>0, <1>2, AcceptEffect
  <2>2. CASE t = Foreign(t.nonce)
    <3>1. t.kind = "foreign"
      BY <2>2 DEF Foreign
    <3>2. WellFormed(t)
      BY <2>2, <3>1 DEF WellFormed
    <3>. QED
      BY <1>0, <2>1, <3>2 DEF ProposalsWellFormed, WellFormed
  <2>3. CASE At(o, "reject") /\ t = Current(o)
    <3>1. t \in run[o].todo
      BY <1>0, <2>3, RunTypes DEF WorkByPlace, Proposing, At
    <3>2. t = Rejection(t.nonce)
      BY <1>0, <2>3, <3>1 DEF QueueWasProposed
    <3>3. t.kind = "rejection"
      BY <3>2 DEF Rejection
    <3>4. WellFormed(t)
      BY <3>2, <3>3 DEF WellFormed
    <3>. QED
      BY <1>0, <2>1, <3>4 DEF ProposalsWellFormed, WellFormed
  <2>4. CASE At(o, "propose") /\ t = Request(run[o].nonce, Min(run[o].work), run[o].fee)
    <3>1. Min(run[o].work) \in Batches
      BY <1>0, <2>4, RunTypes DEF WorkByPlace, Proposing, At
    <3>2. t.kind = "request" /\ t.batch \in Batches
      BY <2>4, <3>1 DEF Request
    <3>3. WellFormed(t)
      BY <3>2 DEF WellFormed
    <3>. QED
      BY <1>0, <2>1, <3>3 DEF ProposalsWellFormed, WellFormed
  <2>. QED
    BY <1>2, <2>2, <2>3, <2>4 DEF Origin
<1>. QED
  BY <1>0, <1>1, <1>2, Submissions

\* What was carried out is in the order of the nonces and was proposed.
LEMMA ExecutedStep ==
  ASSUME QueueInv, [Next]_vars
  PROVE  ExecutedInOrder' /\ \A n \in DOMAIN executed' : executed'[n] \in Proposed'
<1>0. TypeOK /\ WorkByPlace /\ QueueWasProposed /\ ExecutedInOrder
  BY DEF QueueInv
<1>1. Proposed \subseteq Proposed'
  BY <1>0, ProposalsGrow
<1>2. ASSUME NEW n \in DOMAIN executed'
      PROVE  executed'[n].nonce = n /\ executed'[n] \in Proposed'
  <2>1. CASE n \in DOMAIN executed
    <3>1. executed'[n] = executed[n]
      BY <1>0, <2>1, ExecutedGrows
    <3>. QED
      BY <1>0, <1>1, <2>1, <3>1 DEF ExecutedInOrder, QueueWasProposed
  <2>2. CASE n \notin DOMAIN executed
    <3>1. /\ executed'[n].nonce = n
          /\ executed'[n] \in Proposed \/ \E e \in inflight : e.tx = executed'[n]
      BY <1>0, <2>2, ExecutedGrows
    <3>. QED
      BY <1>0, <1>1, <3>1 DEF QueueWasProposed
  <2>. QED
    BY <2>1, <2>2
<1>. QED
  BY <1>2 DEF ExecutedInOrder

\* How a run proceeds: it ends, it proposes, or it works on a list that comes from
\* the queue, from stale transactions or from the list it had.
Proposes(r, q) ==
  /\ q.todo = {}
  /\ \/ q.pc = "getNonce" /\ q.seen = 0
     \/ q.pc = "propose" /\ q.nonce = NextNonce /\ q.seen = Len(proposals) /\ UNCHANGED serviceVars
     \/ q.pc = "propose" /\ r.pc = "propose" /\ q.nonce = r.nonce + 1 /\ q.seen = r.seen
Shortened(r, q) ==
  /\ q.todo \subseteq r.todo /\ q.loaded = r.loaded /\ q.seen = r.seen
  /\ q.pc = "reject" <=> r.pc = "reject"
  /\ q.pc = "propose" => q = r
FromQueue(q) ==
  \/ /\ q.pc = "sign" /\ q.todo \subseteq Dedup(Ours) /\ q.loaded = {}
     /\ q.seen = Len(proposals)
  \/ /\ q.pc \in {"nonceCheck", "validate"} /\ q.todo = Dedup(Loaded) /\ q.loaded = Loaded
     /\ q.seen = 0
FromStale(r, q) == q.pc = "reject" /\ q.seen = r.seen /\ \A t \in q.todo : t = Rejection(t.nonce)

\* There is no other way.
LEMMA RunProceeds ==
  ASSUME QueueInv, [Next]_vars, NEW p \in Owners
  PROVE  \/ run'[p] = NoRun
         \/ Proposes(run[p], run'[p])
         \/ FromQueue(run'[p]) /\ UNCHANGED serviceVars
         \/ FromStale(run[p], run'[p])
         \/ Shortened(run[p], run'[p])
<1>0. /\ TypeOK /\ WorkByPlace /\ run \in [Owners -> Runs] /\ run' \in [Owners -> Runs]
      /\ OneAtATime
  BY RunTypesStep DEF QueueInv, TypeOK
<1>1. CASE run'[p] = run[p]
  BY <1>1 DEF Shortened
<1>2. ASSUME NEW o \in Owners, run'[p] # run[p], run' = [run EXCEPT ![o] = NoRun]
      PROVE  run'[p] = NoRun
  BY <1>0, <1>2
<1>3. ASSUME NEW o \in Owners, run'[p] # run[p],
             ProposeStart(o) \/ ProposeNonce(o) \/ ProposeBatch(o)
      PROVE  run'[p] = NoRun \/ Proposes(run[p], run'[p])
  <2>1. run[o].pc \in Proposing \cup {"idle"} /\ run[o].todo = {}
    BY <1>0, <1>3 DEF ProposeStart, ProposeNonce, ProposeBatch, At, WorkByPlace, Proposing
  <2>2. CASE run' = [run EXCEPT ![o] = NoRun]
    BY <1>2, <1>3, <2>2
  <2>3. CASE ProposeStart(o)
    <3>1. PICK W \in (SUBSET Wanted) \ {{}}, offer \in fee..MaxFee :
            run' = [run EXCEPT ![o] = [NoRun EXCEPT !.pc = "getNonce", !.work = W, !.fee = offer]]
      BY <2>3 DEF ProposeStart
    <3>. QED
      BY <1>0, <1>3, <3>1 DEF NoRun, Proposes
  <2>4. CASE run' # [run EXCEPT ![o] = NoRun] /\ ProposeNonce(o)
    <3>1. run' = [run EXCEPT ![o].pc = "propose", ![o].nonce = NextNonce,
                             ![o].seen = Len(proposals)]
      BY <2>4 DEF ProposeNonce, StartingNonce, EndRun
    <3>2. run' = [run EXCEPT ![o] = [run[o] EXCEPT !.pc = "propose", !.nonce = NextNonce,
                                                   !.seen = Len(proposals)]]
      BY <3>1
    <3>. QED
      BY <1>0, <1>3, <2>1, <2>4, <3>2 DEF Runs, Proposes, ProposeNonce
  <2>5. CASE run' # [run EXCEPT ![o] = NoRun] /\ ProposeBatch(o)
    <3>. DEFINE rest == run[o].work \ {Min(run[o].work)}
    <3>1. run' = [run EXCEPT ![o].work = rest, ![o].nonce = @ + 1]
      BY <2>5 DEF ProposeBatch, ProcessExit, EndRun
    <3>2. run' = [run EXCEPT ![o] = [run[o] EXCEPT !.work = rest, !.nonce = @ + 1]]
      BY <3>1
    <3>3. run[o].pc = "propose"
      BY <2>5 DEF ProposeBatch, At
    <3>. HIDE DEF rest
    <3>. QED
      BY <1>0, <1>3, <2>1, <3>2, <3>3 DEF Runs, Proposes
  <2>. QED
    BY <1>3, <2>2, <2>3, <2>4, <2>5
<1>4. ASSUME NEW o \in Owners, run'[p] # run[p], SignStart(o) \/ ExecuteStart(o)
      PROVE  FromQueue(run'[p]) /\ UNCHANGED serviceVars
  <2>1. CASE SignStart(o)
    <3>1. run' = [run EXCEPT ![o] = [NoRun EXCEPT !.pc = "sign", !.todo = ToSign(o),
                                                  !.seen = Len(proposals)]]
      BY <2>1 DEF SignStart
    <3>2. ToSign(o) \subseteq Dedup(Ours)
      BY DEF ToSign
    <3>3. UNCHANGED serviceVars
      BY <2>1 DEF SignStart
    <3>. QED
      BY <1>0, <1>4, <3>1, <3>2, <3>3 DEF NoRun, FromQueue
  <2>2. CASE ExecuteStart(o)
    <3>1. \E pc \in {"nonceCheck", "validate"} :
            run' = [run EXCEPT ![o] = [NoRun EXCEPT !.pc = pc, !.todo = Dedup(Loaded),
                                                    !.loaded = Loaded]]
      BY <2>2 DEF ExecuteStart
    <3>2. UNCHANGED serviceVars
      BY <2>2 DEF ExecuteStart
    <3>. QED
      BY <1>0, <1>4, <3>1, <3>2 DEF NoRun, FromQueue
  <2>. QED
    BY <1>4, <2>1, <2>2
<1>5. ASSUME NEW o \in Owners, NEW pc \in Phases \ {"reject", "propose"}, run[o].pc # "reject", Goto(o, pc)
      PROVE  Shortened(run[p], run'[p])
  <2>1. run' = [run EXCEPT ![o] = [run[o] EXCEPT !.pc = pc]]
    BY <1>5 DEF Goto
  <2>. QED
    BY <1>0, <1>5, <2>1 DEF Shortened, Runs
<1>6. ASSUME NEW o \in Owners, SignOne(o) \/ RejectOne(o)
      PROVE  \/ run' = [run EXCEPT ![o] = NoRun]
             \/ Shortened(run[p], run'[p])
  <2>1. \/ run' = [run EXCEPT ![o] = NoRun]
        \/ \E t \in SafeTxs : run' = [run EXCEPT ![o].todo = @ \ {t}]
    <3>1. run[o].todo \subseteq SafeTxs /\ (run[o].todo # {} => Current(o) \in SafeTxs)
      BY <1>0, RunTypes
    <3>2. RejectOne(o) => Current(o) \in SafeTxs
      BY <1>0, <3>1 DEF RejectOne, At, WorkByPlace, Proposing
    <3>. QED
      BY <1>6, <3>1, <3>2 DEF SignOne, RejectOne, EndRun, Current
  <2>2. ASSUME NEW t \in SafeTxs, run' = [run EXCEPT ![o].todo = @ \ {t}]
        PROVE  Shortened(run[p], run'[p])
    <3>1. run' = [run EXCEPT ![o] = [run[o] EXCEPT !.todo = @ \ {t}]]
      BY <2>2
    <3>2. run[o].pc # "propose"
      BY <1>6 DEF SignOne, RejectOne, At
    <3>. QED
      BY <1>0, <3>1, <3>2 DEF Shortened, Runs
  <2>. QED
    BY <2>1, <2>2
<1>7. ASSUME NEW o \in Owners, run'[p] # run[p], ValidateFees(o)
      PROVE  \/ run' = [run EXCEPT ![o] = NoRun]
             \/ FromStale(run[p], run'[p]) \/ Shortened(run[p], run'[p])
  <2>. DEFINE todo == {Rejection(t.nonce) : t \in {t \in run[o].todo : Stale(t)}}
  <2>1. \/ Goto(o, "nonceCheck") \/ EndRun(o)
        \/ run' = [run EXCEPT ![o].pc = "reject", ![o].todo = todo]
    BY <1>7 DEF ValidateFees
  <2>2. CASE run' = [run EXCEPT ![o].pc = "reject", ![o].todo = todo]
    <3>1. \A t \in todo : t = Rejection(t.nonce)
      BY DEF Rejection
    <3>. HIDE DEF todo
    <3>2. run' = [run EXCEPT ![o] = [run[o] EXCEPT !.pc = "reject", !.todo = todo]]
      BY <2>2
    <3>. QED
      BY <1>0, <1>7, <3>1, <3>2 DEF FromStale, Runs
  <2>. QED
    BY <1>5, <1>7, <2>1, <2>2 DEF ValidateFees, At, Phases, EndRun
<1>8. ASSUME NEW o \in Owners,
             \/ CheckNonces(o) \/ CheckFee(o) \/ Sleep(o) \/ PollFee(o)
             \/ Send(o) \/ ReceiptOk(o) \/ ReceiptBad(o)
      PROVE  \/ run' = [run EXCEPT ![o] = NoRun]
             \/ Shortened(run[p], run'[p])
  <2>1. run[o].pc # "reject"
    BY <1>8 DEF CheckNonces, CheckFee, Sleep, PollFee, Send, ReceiptOk, ReceiptBad, GoodReceipt, At
  <2>2. \/ run' = [run EXCEPT ![o] = NoRun]
        \/ \E pc \in Phases \ {"reject", "propose"} : Goto(o, pc)
        \/ run' = [run EXCEPT ![o].pc = "wait", ![o].waited = 0]
        \/ run' = [run EXCEPT ![o].pc = "poll", ![o].waited = Slept(@)]
        \/ run' = [run EXCEPT ![o].pc = "feeCheck", ![o].todo = @ \ {Current(o)}]
    BY <1>8 DEF CheckNonces, CheckFee, Sleep, PollFee, Send, ReceiptOk, ReceiptBad, EndRun, Phases
  <2>3. CASE run' = [run EXCEPT ![o].pc = "wait", ![o].waited = 0]
    <3>1. run' = [run EXCEPT ![o] = [run[o] EXCEPT !.pc = "wait", !.waited = 0]]
      BY <2>3
    <3>. QED
      BY <1>0, <2>1, <3>1 DEF Shortened, Runs
  <2>4. CASE run' = [run EXCEPT ![o].pc = "poll", ![o].waited = Slept(@)]
    <3>1. run' = [run EXCEPT ![o] = [run[o] EXCEPT !.pc = "poll", !.waited = Slept(@)]]
      BY <2>4
    <3>. QED
      BY <1>0, <2>1, <3>1 DEF Shortened, Runs
  <2>5. CASE run' = [run EXCEPT ![o].pc = "feeCheck", ![o].todo = @ \ {Current(o)}]
    <3>1. run' = [run EXCEPT ![o] = [run[o] EXCEPT !.pc = "feeCheck", !.todo = @ \ {Current(o)}]]
      BY <2>5
    <3>. QED
      BY <1>0, <2>1, <3>1 DEF Shortened, Runs
  <2>. QED
    BY <1>5, <2>1, <2>2, <2>3, <2>4, <2>5
<1>9. ASSUME NEW e \in inflight, Include(e) PROVE Shortened(run[p], run'[p])
  <2>. DEFINE pc == IF Succeeds(e.tx) THEN "mined" ELSE "reverted"
  <2>1. CASE e.lost
    BY <1>9, <2>1 DEF Include, Shortened
  <2>2. CASE ~e.lost
    <3>1. e.owner \in Owners /\ run[e.owner].pc = "sent"
      BY <1>0, <2>2 DEF TypeOK, OneAtATime, At
    <3>2. Goto(e.owner, pc)
      BY <1>9, <2>2 DEF Include, Goto
    <3>3. pc \in Phases \ {"reject", "propose"}
      BY DEF Phases
    <3>. QED
      BY <1>5, <3>1, <3>2, <3>3
  <2>. QED
    BY <2>1, <2>2
<1>10. CASE \E o \in Owners : QuietStep(o) \/ ProposeBatch(o) \/ RejectOne(o)
  BY <1>1, <1>2, <1>3, <1>4, <1>6, <1>7, <1>8, <1>10 DEF QuietStep
<1>11. CASE \E e \in inflight : Include(e)
  BY <1>9, <1>11
<1>12. CASE UNCHANGED <<run, reportVars>>
  BY <1>1, <1>12
<1>. QED
  BY <1>10, <1>11, <1>12, StepCases

\* What is on its way was so before, perhaps with a run waiting for it, or it was
\* sent by this step.
LEMMA InflightChange ==
  ASSUME TypeOK, [Next]_vars, NEW e \in inflight'
  PROVE  \/ \E f \in inflight : e.tx = f.tx /\ e.owner = f.owner /\ (e.lost \/ e = f)
         \/ /\ e.owner \in Owners /\ Send(e.owner) /\ e.tx = Current(e.owner)
            /\ e.lost \/ Goto(e.owner, "sent")
<1>0. inflight \subseteq [owner : Owners, tx : SafeTxs, lost : BOOLEAN]
  BY DEF TypeOK
<1>1. CASE e \in inflight
  BY <1>1
<1>2. ASSUME NEW o \in Owners, Send(o), e \notin inflight
      PROVE  /\ e.owner = o /\ e.tx = Current(o)
             /\ e.lost \/ Goto(o, "sent")
  BY <1>2 DEF Send
<1>3. ASSUME NEW o \in Owners, ReceiptBad(o), e \notin inflight
      PROVE  \E f \in inflight : e.tx = f.tx /\ e.owner = f.owner /\ e.lost
  <2>1. PICK f \in inflight : e = IF f.owner = o THEN [f EXCEPT !.lost = TRUE] ELSE f
    BY <1>3 DEF ReceiptBad
  <2>2. e = [f EXCEPT !.lost = TRUE]
    BY <1>3, <2>1
  <2>. QED
    BY <1>0, <2>2
<1>4. ASSUME NEW o \in Owners, QuietStep(o), ~Send(o), ~ReceiptBad(o) PROVE inflight' = inflight
  BY <1>4 DEF QuietStep, serviceVars, ProposeNonce, SignOne, ValidateFees, CheckNonces, CheckFee,
     Sleep, PollFee, ReceiptOk, ProposeStart, SignStart, ExecuteStart
<1>5. \A o \in Owners : ProposeBatch(o) \/ RejectOne(o) \/ ForeignProposal(o) => UNCHANGED inflight
  BY DEF ProposeBatch, RejectOne, ForeignProposal
<1>6. \A f \in inflight : Include(f) => inflight' \subseteq inflight
  BY DEF Include
<1>7. ForeignExecution \/ FeeChanges \/ UNCHANGED serviceVars => inflight' = inflight
  BY DEF ForeignExecution, FeeChanges, serviceVars
<1>. QED
  BY <1>1, <1>2, <1>3, <1>4, <1>5, <1>6, <1>7, StepCases

\* A run that is not proposing rejections works on what was proposed.
LEMMA CurrentWasProposed ==
  ASSUME QueueInv, NEW o \in Owners, run[o].pc \notin Proposing \cup {"idle"}
  PROVE  /\ Current(o) \in run[o].todo /\ Current(o) \in SafeTxs
         /\ ~At(o, "reject") => Current(o) \in Proposed
BY RunTypes DEF QueueInv, WorkByPlace, QueueWasProposed

\* Whatever is confirmed, sent or carried out was proposed before.
LEMMA QueueProposedStep ==
  ASSUME QueueInv, [Next]_vars
  PROVE  QueueWasProposed'
<1>0. TypeOK /\ WorkByPlace /\ QueueWasProposed
  BY DEF QueueInv
<1>1. Proposed \subseteq Proposed'
  BY <1>0, ProposalsGrow
<1>2. ASSUME NEW o \in Owners
      PROVE  IF run'[o].pc = "reject" THEN \A t \in run'[o].todo : t = Rejection(t.nonce)
                                      ELSE run'[o].todo \subseteq Proposed'
  <2>1. CASE run'[o] = NoRun \/ Proposes(run[o], run'[o])
    BY <2>1 DEF NoRun, Proposes
  <2>2. CASE FromQueue(run'[o])
    <3>1. Dedup(Ours) \subseteq Proposed /\ Dedup(Loaded) \subseteq Proposed
      <4>1. Loaded \in SUBSET Ours
        BY DEF Loaded, Confirmed
      <4>. QED
        BY <1>0, <4>1, QueueOfTool
    <3>. QED
      BY <1>1, <2>2, <3>1 DEF FromQueue
  <2>3. CASE FromStale(run[o], run'[o])
    BY <2>3 DEF FromStale
  <2>4. CASE Shortened(run[o], run'[o])
    BY <1>0, <1>1, <2>4 DEF Shortened, QueueWasProposed, At
  <2>. QED
    BY <2>1, <2>2, <2>3, <2>4, RunProceeds
<1>3. ASSUME NEW e \in inflight' PROVE e.tx \in Proposed'
  <2>1. CASE \E f \in inflight : e.tx = f.tx
    BY <1>0, <1>1, <2>1 DEF QueueWasProposed
  <2>2. CASE e.owner \in Owners /\ Send(e.owner) /\ e.tx = Current(e.owner)
    <3>1. run[e.owner].pc = "send"
      BY <2>2 DEF Send, At
    <3>. QED
      BY <1>1, <2>2, <3>1, CurrentWasProposed DEF Proposing, At
  <2>. QED
    BY <1>0, <2>1, <2>2, InflightChange
<1>. QED
  BY <1>2, <1>3, ExecutedStep DEF QueueWasProposed, At

\* No list holds a request next to a rejection the run has seen.
LEMMA ListsStep ==
  ASSUME QueueInv, [Next]_vars
  PROVE  ListsWithoutRejected'
<1>0. TypeOK /\ WorkByPlace /\ ListsWithoutRejected /\ ChosenBehind
  BY DEF QueueInv
<1>1. SUFFICES ASSUME NEW o \in Owners, NEW t \in run'[o].todo, t.kind = "request"
               PROVE  /\ Rejection(t.nonce) \notin run'[o].loaded
                      /\ \A i \in 1..run'[o].seen : proposals'[i].tx # Rejection(t.nonce)
  BY DEF ListsWithoutRejected
<1>2. /\ Len(proposals) \in Nat /\ DOMAIN proposals = 1..Len(proposals)
      /\ Proposed \in SUBSET SafeTxs
  BY <1>0, ProposedTypes
<1>3. CASE FromQueue(run'[o]) /\ UNCHANGED serviceVars
  <2>1. CASE run'[o].todo \subseteq Dedup(Ours) /\ run'[o].loaded = {} /\ run'[o].seen = Len(proposals)
    <3>1. t \in Dedup(Ours) /\ t \in Ours /\ t \in Pending
      BY <1>1, <2>1 DEF Dedup, Ours
    <3>2. Rejection(t.nonce) \notin Ours
      BY <1>1, <3>1, DedupPrefersRejections
    <3>3. Rejection(t.nonce).nonce = t.nonce /\ Rejection(t.nonce).kind = "rejection"
      BY DEF Rejection
    <3>4. Rejection(t.nonce) \notin Proposed
      BY <3>1, <3>2, <3>3 DEF Ours, Pending
    <3>5. \A i \in 1..Len(proposals) : proposals[i].tx # Rejection(t.nonce)
      BY <1>2, <3>4 DEF Proposed
    <3>. QED
      BY <1>3, <2>1, <3>5 DEF serviceVars
  <2>2. CASE run'[o].todo = Dedup(Loaded) /\ run'[o].loaded = Loaded /\ run'[o].seen = 0
    BY <1>1, <2>2, DedupPrefersRejections
  <2>. QED
    BY <1>3, <2>1, <2>2 DEF FromQueue
<1>4. CASE FromStale(run[o], run'[o])
  BY <1>1, <1>4 DEF FromStale, Rejection
<1>5. CASE Shortened(run[o], run'[o])
  <2>1. /\ Rejection(t.nonce) \notin run[o].loaded
        /\ \A i \in 1..run[o].seen : proposals[i].tx # Rejection(t.nonce)
    BY <1>0, <1>1, <1>5 DEF Shortened, ListsWithoutRejected
  <2>2. run[o].seen \in Nat /\ run[o].seen <= Len(proposals)
    BY <1>0, RunTypes DEF ChosenBehind
  <2>3. \A i \in 1..run[o].seen : proposals'[i] = proposals[i]
    BY <1>0, <1>2, <2>2, ProposalsGrow
  <2>. QED
    BY <1>5, <2>1, <2>3 DEF Shortened
<1>6. ~(run'[o] = NoRun \/ Proposes(run[o], run'[o]))
  BY <1>1 DEF NoRun, Proposes
<1>. QED
  BY <1>1, <1>3, <1>4, <1>5, <1>6, RunProceeds

\* What a run had seen when it chose its nonce lies behind that nonce.
LEMMA RunsBehindStep ==
  ASSUME QueueInv, [Next]_vars, NEW o \in Owners
  PROVE  /\ run'[o].seen <= Len(proposals')
         /\ run'[o].pc = "propose" =>
              \A i \in 1..run'[o].seen : proposals'[i].tx.nonce < run'[o].nonce
<1>0. TypeOK /\ WorkByPlace /\ ChosenBehind
  BY DEF QueueInv
<1>1. /\ Len(proposals) \in Nat /\ DOMAIN proposals = 1..Len(proposals)
      /\ \A i \in DOMAIN proposals : proposals[i].tx \in SafeTxs
      /\ proposals \in Seq(ProposalRecords) /\ executed \in Seq(SafeTxs)
  BY <1>0, ProposedTypes DEF TypeOK
<1>2. /\ Len(proposals') \in {Len(proposals), Len(proposals) + 1}
      /\ \A i \in DOMAIN proposals : proposals'[i] = proposals[i]
  BY <1>0, ProposalsGrow
<1>3. run[o].seen \in Nat /\ run[o].nonce \in Nat /\ run[o].seen <= Len(proposals)
  BY <1>0, RunTypes DEF ChosenBehind
<1>4. At(o, "propose") => \A i \in 1..run[o].seen : proposals[i].tx.nonce < run[o].nonce
  BY <1>0 DEF ChosenBehind, BehindNonce
<1>5. CASE run'[o] = NoRun
  BY <1>1, <1>2, <1>5 DEF NoRun
<1>6. CASE Proposes(run[o], run'[o])
  <2>1. CASE run'[o].pc = "getNonce" /\ run'[o].seen = 0
    BY <1>1, <1>2, <2>1
  <2>2. CASE /\ run'[o].pc = "propose" /\ run'[o].nonce = NextNonce
             /\ run'[o].seen = Len(proposals) /\ UNCHANGED serviceVars
    <3>1. \A i \in 1..Len(proposals) : proposals[i].tx \in Proposed
      BY <1>1 DEF Proposed
    <3>2. \A i \in 1..Len(proposals) : proposals[i].tx.nonce < NextNonce
      BY <1>1, <3>1, NextNonceIsBehind
    <3>. QED
      BY <1>1, <2>2, <3>2 DEF serviceVars
  <2>3. CASE /\ run'[o].pc = "propose" /\ run[o].pc = "propose"
             /\ run'[o].nonce = run[o].nonce + 1 /\ run'[o].seen = run[o].seen
    <3>0. \A t \in SafeTxs : t.nonce \in Nat
      BY DEF SafeTxs
    <3>1. ASSUME NEW i \in 1..run[o].seen
          PROVE  proposals'[i] = proposals[i] /\ proposals[i].tx.nonce \in Nat
      <4>1. i \in DOMAIN proposals
        BY <1>1, <1>3
      <4>. QED
        BY <1>1, <1>2, <3>0, <4>1
    <3>. QED
      BY <1>1, <1>2, <1>3, <1>4, <2>3, <3>1 DEF At
  <2>. QED
    BY <1>6, <2>1, <2>2, <2>3 DEF Proposes
<1>7. CASE FromQueue(run'[o])
  BY <1>1, <1>2, <1>7 DEF FromQueue
<1>8. CASE FromStale(run[o], run'[o])
  BY <1>1, <1>2, <1>3, <1>8 DEF FromStale
<1>9. CASE Shortened(run[o], run'[o])
  BY <1>1, <1>2, <1>3, <1>4, <1>9 DEF Shortened, At
<1>. QED
  BY <1>5, <1>6, <1>7, <1>8, <1>9, RunProceeds

\* ... for the nonces that are still to be used and for those that were.
LEMMA BehindStep ==
  ASSUME QueueInv, [Next]_vars
  PROVE  ChosenBehind'
<1>0. TypeOK /\ WorkByPlace /\ QueueWasProposed /\ ChosenBehind
  BY DEF QueueInv
<1>1. /\ Len(proposals) \in Nat /\ DOMAIN proposals = 1..Len(proposals)
      /\ \A i \in DOMAIN proposals : proposals[i].seen \in Nat
  BY <1>0, ProposedTypes
<1>2. \A j \in DOMAIN proposals :
        /\ proposals[j].seen < j
        /\ proposals[j].tx.kind = "request" =>
             \A i \in 1..proposals[j].seen : proposals[i].tx.nonce < proposals[j].tx.nonce
  BY <1>0 DEF ChosenBehind, BehindNonce
<1>. DEFINE Behind(j) ==
       /\ proposals'[j].seen < j
       /\ proposals'[j].tx.kind = "request" =>
            \A i \in 1..proposals'[j].seen : proposals'[i].tx.nonce < proposals'[j].tx.nonce
<1>3. ASSUME NEW j \in DOMAIN proposals, \A i \in DOMAIN proposals : proposals'[i] = proposals[i]
      PROVE  Behind(j)
  BY <1>1, <1>2, <1>3
<1>4. ASSUME proposals' = proposals
      PROVE  \A j \in DOMAIN proposals' : Behind(j)
  BY <1>3, <1>4
<1>5. ASSUME NEW t \in SafeTxs, NEW o \in Owners, NEW seen \in Nat,
             Accept(t, o, seen), Origin(t, o, seen)
      PROVE  \A j \in DOMAIN proposals' : Behind(j)
  <2>. DEFINE n == Len(proposals) + 1
  <2>1. /\ DOMAIN proposals' = 1..n
        /\ \A i \in DOMAIN proposals : proposals'[i] = proposals[i]
        /\ proposals'[n] = [tx |-> t, seen |-> seen]
    BY <1>0, <1>5, AcceptEffect
  <2>a. proposals'[n].tx = t /\ proposals'[n].seen = seen
    BY <2>1
  <2>2. CASE t = Foreign(t.nonce) /\ seen = Len(proposals)
    <3>1. t.kind # "request" /\ seen < n
      BY <1>1, <2>2 DEF Foreign
    <3>. QED
      BY <1>1, <1>3, <2>1, <2>a, <3>1
  <2>3. CASE At(o, "reject") /\ t = Current(o) /\ seen = 0
    <3>1. t \in run[o].todo
      BY <1>0, <2>3, RunTypes DEF WorkByPlace, Proposing, At
    <3>2. t.kind # "request" /\ seen < n
      BY <1>0, <1>1, <2>3, <3>1 DEF QueueWasProposed, Rejection
    <3>. QED
      BY <1>1, <1>3, <2>1, <2>a, <3>2
  <2>4. CASE /\ At(o, "propose") /\ seen = run[o].seen
             /\ t = Request(run[o].nonce, Min(run[o].work), run[o].fee)
    <3>1. seen <= Len(proposals) /\ t.nonce = run[o].nonce
      BY <1>0, <2>4 DEF ChosenBehind, Request
    <3>2. \A i \in 1..seen : proposals[i].tx.nonce < t.nonce
      BY <1>0, <2>4, <3>1 DEF ChosenBehind, BehindNonce
    <3>3. \A i \in 1..seen : i \in DOMAIN proposals
      BY <1>1, <3>1
    <3>4. Behind(n)
      BY <1>1, <2>1, <2>a, <3>1, <3>2, <3>3
    <3>. QED
      BY <1>1, <1>3, <2>1, <3>4
  <2>. QED
    BY <1>5, <2>2, <2>3, <2>4 DEF Origin
<1>6. \A j \in DOMAIN proposals' : Behind(j)
  <2>. HIDE DEF Behind
  <2>. QED
    BY <1>0, <1>4, <1>5, Submissions
<1>. QED
  BY <1>6, RunsBehindStep DEF ChosenBehind, BehindNonce, At

-----------------------------------------------------------------------------
(* What a run waits for.                                                   *)

AtChain(r) == r.pc \in {"sent", "mined"}

\* A step of an owner leaves the runs of the others alone.
LEMMA OthersStay ==
  ASSUME QueueInv, NEW o \in Owners, QuietStep(o) \/ ProposeBatch(o) \/ RejectOne(o),
         NEW p \in Owners, p # o
  PROVE  run'[p] = run[p]
<1>0. TypeOK /\ WorkByPlace /\ ProposalsWellFormed /\ run \in [Owners -> Runs]
  BY DEF QueueInv, TypeOK
<1>1. \E r \in GoodRuns : RunBecomes(o, r)
  <2>1. CASE ProposeStart(o) \/ ProposeNonce(o) \/ ProposeBatch(o)
    BY <1>0, <2>1, ProposingMoves
  <2>2. CASE SignStart(o) \/ SignOne(o) \/ RejectOne(o)
    BY <1>0, <2>2, ConfirmingMoves
  <2>3. CASE \/ ExecuteStart(o) \/ ValidateFees(o) \/ CheckNonces(o) \/ CheckFee(o) \/ Sleep(o)
             \/ PollFee(o) \/ Send(o) \/ ReceiptOk(o) \/ ReceiptBad(o)
    BY <1>0, <2>3, ExecutingMoves
  <2>. QED
    BY <2>1, <2>2, <2>3 DEF QuietStep
<1>. QED
  BY <1>0, <1>1 DEF RunBecomes

\* Before the receipt a run waits for its block, and only that leads there.
LEMMA AtChainSteps ==
  ASSUME QueueInv, [Next]_vars, NEW p \in Owners, AtChain(run[p]) \/ AtChain(run'[p])
  PROVE  \/ run'[p] = run[p]
         \/ (ReceiptBad(p) \/ ReceiptOk(p)) /\ ~AtChain(run'[p])
         \/ Send(p) /\ Goto(p, "sent")
         \/ \E e \in inflight : Include(e) /\ ~e.lost /\ e.owner = p
<1>0. TypeOK /\ WorkByPlace /\ run \in [Owners -> Runs]
  BY DEF QueueInv, TypeOK
<1>1. EndRun(p) => ~AtChain(run'[p])
  BY <1>0 DEF EndRun, NoRun, AtChain
<1>2. \A pc \in Phases : Goto(p, pc) => run'[p].pc = pc
  BY <1>0 DEF Goto, Runs
<1>3. CASE ReceiptBad(p) \/ ReceiptOk(p)
  <2>1. \/ EndRun(p)
        \/ run' = [run EXCEPT ![p].pc = "feeCheck", ![p].todo = @ \ {Current(p)}]
    BY <1>3 DEF ReceiptBad, ReceiptOk
  <2>2. CASE run' = [run EXCEPT ![p].pc = "feeCheck", ![p].todo = @ \ {Current(p)}]
    <3>1. run'[p] = [run[p] EXCEPT !.pc = "feeCheck", !.todo = @ \ {Current(p)}]
      BY <1>0, <2>2
    <3>. QED
      BY <1>0, <1>3, <3>1 DEF AtChain, Runs
  <2>. QED
    BY <1>1, <1>3, <2>1, <2>2
<1>4. CASE Send(p)
  BY <1>0, <1>1, <1>4 DEF Send, At, AtChain
<1>5. CASE ProposeNonce(p) \/ ProposeBatch(p) \/ SignOne(p) \/ RejectOne(p)
  <2>1. run[p].pc \in {"getNonce", "propose", "sign", "reject"}
    BY <1>5 DEF ProposeNonce, ProposeBatch, SignOne, RejectOne, At
  <2>2. AtChain(run'[p])
    BY <2>1 DEF AtChain
  <2>3. run'[p].pc \in {"idle", "propose", "sign", "reject"}
    <3>1. CASE ProposeNonce(p) \/ ProposeBatch(p)
      <4>1. \/ EndRun(p)
            \/ run' = [run EXCEPT ![p].pc = "propose", ![p].nonce = StartingNonce,
                                  ![p].seen = Len(proposals)]
            \/ /\ run[p].pc = "propose"
               /\ run' = [run EXCEPT ![p].work = run[p].work \ {Min(run[p].work)}, ![p].nonce = @ + 1]
        BY <3>1 DEF ProposeNonce, ProposeBatch, ProcessExit, At
      <4>2. CASE EndRun(p)
        BY <1>0, <4>2 DEF EndRun, NoRun
      <4>3. CASE run' = [run EXCEPT ![p].pc = "propose", ![p].nonce = StartingNonce,
                                    ![p].seen = Len(proposals)]
        <5>1. run'[p] = [run[p] EXCEPT !.pc = "propose", !.nonce = StartingNonce,
                                       !.seen = Len(proposals)]
          BY <1>0, <4>3
        <5>. QED
          BY <1>0, <5>1 DEF Runs
      <4>4. CASE /\ run[p].pc = "propose"
                 /\ run' = [run EXCEPT ![p].work = run[p].work \ {Min(run[p].work)}, ![p].nonce = @ + 1]
        <5>1. run'[p] = [run[p] EXCEPT !.work = run[p].work \ {Min(run[p].work)}, !.nonce = @ + 1]
          BY <1>0, <4>4
        <5>. QED
          BY <1>0, <4>4, <5>1 DEF Runs
      <4>. QED
        BY <4>1, <4>2, <4>3, <4>4
    <3>2. CASE SignOne(p) \/ RejectOne(p)
      <4>1. EndRun(p) \/ \E t : run' = [run EXCEPT ![p].todo = @ \ {t}]
        BY <3>2 DEF SignOne, RejectOne
      <4>2. CASE EndRun(p)
        BY <1>0, <4>2 DEF EndRun, NoRun
      <4>3. ASSUME NEW t, run' = [run EXCEPT ![p].todo = @ \ {t}]
            PROVE  run'[p].pc \in {"sign", "reject"}
        <5>1. run'[p] = [run[p] EXCEPT !.todo = @ \ {t}]
          BY <1>0, <4>3
        <5>2. run[p].pc \in {"sign", "reject"}
          BY <3>2 DEF SignOne, RejectOne, At
        <5>. QED
          BY <1>0, <5>1, <5>2 DEF Runs
      <4>. QED
        BY <4>1, <4>2, <4>3
    <3>. QED
      BY <1>5, <3>1, <3>2
  <2>. QED
    BY <2>2, <2>3 DEF AtChain
<1>6. CASE ProposeStart(p) \/ SignStart(p) \/ ExecuteStart(p)
  <2>1. run[p].pc = "idle"
    BY <1>6 DEF ProposeStart, SignStart, ExecuteStart, At
  <2>2. AtChain(run'[p])
    BY <2>1 DEF AtChain
  <2>3. CASE ProposeStart(p)
    <3>1. PICK W \in (SUBSET Wanted) \ {{}}, offer \in fee..MaxFee :
            run' = [run EXCEPT ![p] = [NoRun EXCEPT !.pc = "getNonce", !.work = W, !.fee = offer]]
      BY <2>3 DEF ProposeStart
    <3>. QED
      BY <1>0, <2>2, <3>1 DEF NoRun, AtChain
  <2>4. CASE SignStart(p)
    BY <1>0, <2>2, <2>4 DEF SignStart, NoRun, AtChain
  <2>5. CASE ExecuteStart(p)
    BY <1>0, <2>2, <2>5 DEF ExecuteStart, NoRun, AtChain
  <2>. QED
    BY <1>6, <2>3, <2>4, <2>5
<1>7. CASE ValidateFees(p) \/ CheckNonces(p) \/ CheckFee(p) \/ Sleep(p) \/ PollFee(p)
  <2>1. run[p].pc \in {"validate", "nonceCheck", "feeCheck", "wait", "poll"}
    BY <1>7 DEF ValidateFees, CheckNonces, CheckFee, Sleep, PollFee, At
  <2>2. AtChain(run'[p])
    BY <2>1 DEF AtChain
  <2>3. \/ EndRun(p) \/ \E pc \in {"nonceCheck", "feeCheck", "send", "wait"} : Goto(p, pc)
        \/ \E todo : run' = [run EXCEPT ![p].pc = "reject", ![p].todo = todo]
        \/ run' = [run EXCEPT ![p].pc = "wait", ![p].waited = 0]
        \/ run' = [run EXCEPT ![p].pc = "poll", ![p].waited = Slept(@)]
    BY <1>7 DEF ValidateFees, CheckNonces, CheckFee, Sleep, PollFee
  <2>4. CASE \E pc \in {"nonceCheck", "feeCheck", "send", "wait"} : Goto(p, pc)
    BY <1>2, <2>2, <2>4 DEF Phases, AtChain
  <2>5. ASSUME NEW todo, run' = [run EXCEPT ![p].pc = "reject", ![p].todo = todo] PROVE FALSE
    <3>1. run'[p] = [run[p] EXCEPT !.pc = "reject", !.todo = todo]
      BY <1>0, <2>5
    <3>. QED
      BY <1>0, <2>2, <3>1 DEF AtChain, Runs
  <2>6. CASE run' = [run EXCEPT ![p].pc = "wait", ![p].waited = 0]
    <3>1. run'[p] = [run[p] EXCEPT !.pc = "wait", !.waited = 0]
      BY <1>0, <2>6
    <3>. QED
      BY <1>0, <2>2, <3>1 DEF AtChain, Runs
  <2>7. CASE run' = [run EXCEPT ![p].pc = "poll", ![p].waited = Slept(@)]
    <3>1. run'[p] = [run[p] EXCEPT !.pc = "poll", !.waited = Slept(@)]
      BY <1>0, <2>7
    <3>. QED
      BY <1>0, <2>2, <3>1 DEF AtChain, Runs
  <2>. QED
    BY <1>1, <2>2, <2>3, <2>4, <2>5, <2>6, <2>7
<1>8. CASE \E o \in Owners : QuietStep(o) \/ ProposeBatch(o) \/ RejectOne(o)
  <2>1. PICK o \in Owners : QuietStep(o) \/ ProposeBatch(o) \/ RejectOne(o)
    BY <1>8
  <2>2. CASE o # p
    BY <2>1, <2>2, OthersStay
  <2>3. CASE o = p
    BY <1>3, <1>4, <1>5, <1>6, <1>7, <2>1, <2>3 DEF QuietStep
  <2>. QED
    BY <2>2, <2>3
<1>9. ASSUME NEW e \in inflight, Include(e)
      PROVE  run'[p] = run[p] \/ (~e.lost /\ e.owner = p)
  <2>1. CASE e.lost
    BY <1>9, <2>1 DEF Include
  <2>2. CASE e.owner # p
    BY <1>0, <1>9, <2>2 DEF Include
  <2>3. e.lost \in BOOLEAN
    BY <1>0 DEF TypeOK
  <2>. QED
    BY <2>1, <2>2, <2>3
<1>10. CASE UNCHANGED <<run, reportVars>>
  BY <1>10
<1>. QED
  BY <1>8, <1>9, <1>10, StepCases

\* A run waits for what it has sent, and once that is mined it was carried out.
LEMMA OneAtATimeStep ==
  ASSUME QueueInv, [Next]_vars
  PROVE  OneAtATime'
<1>0. /\ TypeOK /\ WorkByPlace /\ OneAtATime /\ run \in [Owners -> Runs]
      /\ inflight \subseteq [owner : Owners, tx : SafeTxs, lost : BOOLEAN]
  BY DEF QueueInv, TypeOK
<1>. DEFINE Now(o) == Lowest(run'[o].todo)
<1>1. ASSUME NEW e \in inflight', ~e.lost
      PROVE  run'[e.owner].pc = "sent" /\ e.tx = Now(e.owner)
  <2>1. CASE e \in inflight
    <3>1. e.owner \in Owners /\ run[e.owner].pc = "sent" /\ e.tx = Lowest(run[e.owner].todo)
      BY <1>0, <1>1, <2>1 DEF OneAtATime, At, Current
    <3>2. CASE run'[e.owner] = run[e.owner]
      BY <3>1, <3>2
    <3>3. CASE ReceiptBad(e.owner)
      <4>1. PICK g \in inflight : e = IF g.owner = e.owner THEN [g EXCEPT !.lost = TRUE] ELSE g
        BY <1>1, <3>3 DEF ReceiptBad
      <4>2. g.owner = e.owner
        BY <4>1
      <4>. QED
        BY <1>0, <1>1, <4>1, <4>2
    <3>4. CASE ReceiptOk(e.owner) \/ Send(e.owner)
      BY <3>1, <3>4 DEF ReceiptOk, GoodReceipt, Send, At
    <3>5. ASSUME NEW g \in inflight, Include(g), ~g.lost, g.owner = e.owner PROVE FALSE
      <4>1. g.tx = e.tx
        BY <1>0, <3>1, <3>5 DEF OneAtATime, Current
      <4>2. g = e
        BY <1>0, <1>1, <2>1, <3>5, <4>1
      <4>. QED
        BY <1>1, <3>5, <4>2 DEF Include
    <3>. QED
      BY <3>1, <3>2, <3>3, <3>4, <3>5, AtChainSteps DEF AtChain
  <2>2. CASE /\ e.owner \in Owners /\ e.tx = Current(e.owner) /\ Goto(e.owner, "sent")
    <3>1. run'[e.owner] = [run[e.owner] EXCEPT !.pc = "sent"] /\ run[e.owner] \in Runs
      BY <1>0, <2>2 DEF Goto
    <3>2. run'[e.owner].pc = "sent" /\ run'[e.owner].todo = run[e.owner].todo
      BY <3>1 DEF Runs
    <3>. QED
      BY <2>2, <3>2 DEF Current
  <2>. QED
    BY <1>0, <1>1, <2>1, <2>2, InflightChange
<1>2. ASSUME NEW o \in Owners, run'[o].pc = "mined"
      PROVE  Now(o).nonce \in DOMAIN executed' /\ executed'[Now(o).nonce] = Now(o)
  <2>1. CASE run'[o] = run[o]
    <3>1. Now(o) = Current(o)
      BY <2>1 DEF Current
    <3>2. Current(o).nonce \in DOMAIN executed /\ executed[Current(o).nonce] = Current(o)
      BY <1>0, <1>2, <2>1 DEF OneAtATime, At
    <3>. HIDE DEF Now
    <3>. QED
      BY <1>0, <3>1, <3>2, ExecutedGrows
  <2>2. CASE Goto(o, "sent")
    BY <1>0, <1>2, <2>2 DEF Goto, Runs
  <2>3. ASSUME NEW e \in inflight, Include(e), ~e.lost, e.owner = o
        PROVE  Now(o).nonce \in DOMAIN executed' /\ executed'[Now(o).nonce] = Now(o)
    <3>1. e.tx = Current(o) /\ e.tx \in SafeTxs
      BY <1>0, <2>3 DEF OneAtATime
    <3>. DEFINE pc == IF Succeeds(e.tx) THEN "mined" ELSE "reverted"
    <3>2. run' = [run EXCEPT ![o].pc = pc]
      BY <2>3 DEF Include
    <3>. HIDE DEF pc
    <3>3. run'[o].pc = pc /\ run'[o].todo = run[o].todo
      BY <1>0, <3>2 DEF Runs
    <3>4. Succeeds(e.tx) /\ Now(o) = e.tx
      BY <1>2, <3>1, <3>3 DEF pc, Current
    <3>5. executed' = Append(executed, e.tx) /\ e.tx.nonce = Len(executed) + 1
      BY <2>3, <3>4 DEF Include, Succeeds, OnChainNonce
    <3>6. executed \in Seq(SafeTxs) /\ Len(executed) \in Nat
      BY <1>0 DEF TypeOK
    <3>7. /\ executed' \in Seq(SafeTxs) /\ Len(executed') = Len(executed) + 1
          /\ executed'[Len(executed) + 1] = e.tx
      BY <3>1, <3>5, <3>6, AppendProperties
    <3>8. Len(executed) + 1 \in DOMAIN executed'
      BY <3>6, <3>7
    <3>. HIDE DEF Now
    <3>. QED
      BY <3>4, <3>5, <3>7, <3>8
  <2>. QED
    BY <1>2, <2>1, <2>2, <2>3, AtChainSteps DEF AtChain
<1>. QED
  BY <1>1, <1>2 DEF OneAtATime, At, Current

\* What is reported was carried out, and stays so.
LEMMA ReportedStep ==
  ASSUME QueueInv, [Next]_vars
  PROVE  ReportedExecuted'
<1>0. TypeOK /\ WorkByPlace /\ OneAtATime /\ ReportedExecuted
  BY DEF QueueInv
<1>1. ASSUME NEW t \in done' PROVE t.nonce \in DOMAIN executed' /\ executed'[t.nonce] = t
  <2>1. \/ t \in done
        \/ \E o \in Owners : ReceiptOk(o) /\ t = Current(o)
    <3>1. UNCHANGED reportVars => done' = done
      BY DEF reportVars
    <3>2. \A o \in Owners : ProposeStart(o) \/ ProposeNonce(o) \/ ProposeBatch(o) => done' = done
      BY DEF ProposeStart, ProposeNonce, ProposeBatch
    <3>3. \A o \in Owners : ReceiptOk(o) => done' = done \cup {Current(o)}
      BY DEF ReceiptOk
    <3>. QED
      BY <1>1, <3>1, <3>2, <3>3, ReportsChange
  <2>2. t.nonce \in DOMAIN executed /\ executed[t.nonce] = t
    BY <1>0, <2>1 DEF ReportedExecuted, ReceiptOk, GoodReceipt, OneAtATime
  <2>. QED
    BY <1>0, <2>2, ExecutedGrows
<1>. QED
  BY <1>1 DEF ReportedExecuted

-----------------------------------------------------------------------------
(* The theorems.                                                           *)

\* At the start nothing is proposed and no run is going.
LEMMA QueueInit ==
  ASSUME Init
  PROVE  QueueInv
<1>. USE DEF Init, ServiceInit
<1>1. /\ \A o \in Owners : run[o] = NoRun
      /\ Proposed = {} /\ DOMAIN proposals = {} /\ DOMAIN executed = {} /\ Len(proposals) = 0
  BY DEF Proposed
<1>2. TypeOK
  <2>1. NoRun \in Runs
    BY SafeServiceAssumption DEF NoRun, Runs, Phases
  <2>. QED
    BY <2>1 DEF TypeOK
<1>3. WorkByPlace
  BY <1>1 DEF WorkByPlace, NoRun, Proposing
<1>4. ProposalsWellFormed /\ QueueWasProposed /\ ExecutedInOrder /\ ReportedExecuted
  BY <1>1 DEF ProposalsWellFormed, QueueWasProposed, ExecutedInOrder, ReportedExecuted, NoRun, At
<1>5. OneAtATime /\ ListsWithoutRejected /\ ChosenBehind
  BY <1>1 DEF OneAtATime, ListsWithoutRejected, ChosenBehind, NoRun, At
<1>. QED
  BY <1>2, <1>3, <1>4, <1>5 DEF QueueInv

\* Every step keeps what is known of the queue.
LEMMA QueueStep ==
  ASSUME QueueInv, [Next]_vars
  PROVE  QueueInv'
<1>1. TypeOK' /\ WorkByPlace'
  BY TypeStep DEF QueueInv
<1>. QED
  BY <1>1, WellFormedStep, ExecutedStep, QueueProposedStep, OneAtATimeStep, ListsStep, BehindStep,
     ReportedStep DEF QueueInv

\* What the runs, the service and the chain hold of the queue fits together, however
\* the runs of the owners interleave: the inductive invariant.
THEOREM QueueInvariant == Spec => []QueueInv
<1>1. Init => QueueInv
  BY QueueInit
<1>2. QueueInv /\ [Next]_vars => QueueInv'
  BY QueueStep
<1>. QED
  BY <1>1, <1>2, PTL DEF Spec

\* Every variable keeps its type.
THEOREM SafeTypes == Spec => []TypeOK
<1>1. QueueInv => TypeOK
  BY DEF QueueInv
<1>. QED
  BY <1>1, QueueInvariant, PTL

\* What the tool reports as executed was executed, by whichever owner.
THEOREM ReportedIsExecuted == Spec => []ReportedExecuted
<1>1. QueueInv => ReportedExecuted
  BY DEF QueueInv
<1>. QED
  BY <1>1, QueueInvariant, PTL

\* Nonces collide only when two runs overlap: a later proposal that shares a nonce
\* with an earlier one was built before that one was there.
THEOREM NoncesCollideByOverlap == Spec => []ConflictOnlyByOverlap
<1>1. ASSUME QueueInv PROVE ConflictOnlyByOverlap
  <2>1. TypeOK /\ ChosenBehind
    BY <1>1 DEF QueueInv
  <2>2. /\ \A i \in DOMAIN proposals : i \in Nat /\ i # 0 /\ proposals[i].seen \in Nat
        /\ \A i \in DOMAIN proposals : proposals[i].tx.nonce \in Nat
    BY <2>1, ProposedTypes DEF SafeTxs
  <2>3. ASSUME NEW i \in DOMAIN proposals, NEW j \in DOMAIN proposals,
               proposals[j].tx.kind = "request", proposals[i].tx.nonce = proposals[j].tx.nonce
        PROVE  proposals[j].seen < i
    <3>1. \A k \in 1..proposals[j].seen : proposals[k].tx.nonce < proposals[j].tx.nonce
      BY <2>1, <2>3 DEF ChosenBehind, BehindNonce
    <3>2. i \notin 1..proposals[j].seen
      BY <2>2, <2>3, <3>1
    <3>. QED
      BY <2>2, <3>2
  <2>. QED
    BY <2>3 DEF ConflictOnlyByOverlap
<1>. QED
  BY <1>1, QueueInvariant, PTL

\* A run that has loaded a confirmed rejection never sends the request that the
\* rejection is to cancel.
THEOREM RejectionsWin == Spec => RejectionWins
<1>1. ASSUME QueueInv, [Next]_vars,
             NEW e \in inflight' \ inflight, e.tx.kind = "request"
      PROVE  Rejection(e.tx.nonce) \notin run[e.owner].loaded
  <2>0. TypeOK /\ WorkByPlace /\ OneAtATime /\ ListsWithoutRejected
    BY <1>1 DEF QueueInv
  <2>1. e.owner \in Owners /\ e.tx \in run[e.owner].todo
    <3>1. CASE e.owner \in Owners /\ Send(e.owner) /\ e.tx = Current(e.owner)
      BY <2>0, <3>1, RunTypes DEF Send, At, WorkByPlace, Proposing
    <3>2. ASSUME NEW f \in inflight, e.tx = f.tx, e.owner = f.owner, e.lost
          PROVE  e.owner \in Owners /\ e.tx \in run[e.owner].todo
      <4>1. f.owner \in Owners /\ f.lost \in BOOLEAN
        BY <2>0 DEF TypeOK
      <4>2. ~f.lost
        <5>1. e \in [owner : Owners, tx : SafeTxs, lost : BOOLEAN]
          BY <1>1, <2>0, ServiceTypesStep
        <5>2. f \in [owner : Owners, tx : SafeTxs, lost : BOOLEAN]
          BY <2>0 DEF TypeOK
        <5>3. f.lost => e = f
          BY <3>2, <5>1, <5>2
        <5>. QED
          BY <1>1, <3>2, <5>3
      <4>. QED
        BY <2>0, <3>2, <4>1, <4>2, RunTypes DEF OneAtATime, At, WorkByPlace, Proposing
    <3>. QED
      BY <1>1, <2>0, <3>1, <3>2, InflightChange
  <2>. QED
    BY <1>1, <2>0, <2>1 DEF ListsWithoutRejected
<1>2. QueueInv /\ [Next]_vars =>
        [\A e \in inflight' \ inflight :
           e.tx.kind = "request" => Rejection(e.tx.nonce) \notin run[e.owner].loaded]_vars
  BY <1>1
<1>. QED
  BY <1>2, QueueInvariant, PTL DEF Spec, RejectionWins

\* Once a nonce is up for rejection, no run that has seen it adds a confirmation to
\* a request at that nonce.
THEOREM RejectionsStopSigning == Spec => RejectionStopsSigning
<1>1. ASSUME QueueInv, [Next]_vars,
             NEW c \in signed' \ signed, c[1].kind = "request",
             NEW i \in 1..run[c[2]].seen
      PROVE  proposals[i].tx # Rejection(c[1].nonce)
  <2>0. TypeOK /\ WorkByPlace /\ ListsWithoutRejected /\ ChosenBehind /\ QueueWasProposed
    BY <1>1 DEF QueueInv
  <2>1. CASE \E o \in Owners : SignOne(o)
    <3>1. PICK o \in Owners : SignOne(o)
      BY <2>1
    <3>2. PICK t \in run[o].todo : signed' \in {signed, signed \cup {<<t, o>>}}
      BY <3>1 DEF SignOne
    <3>3. c = <<t, o>>
      BY <1>1, <3>2
    <3>. QED
      BY <1>1, <2>0, <3>3 DEF ListsWithoutRejected
  <2>2. ASSUME NEW t \in SafeTxs, NEW o \in Owners, NEW seen \in Nat,
               Accept(t, o, seen), Origin(t, o, seen)
        PROVE  proposals[i].tx # Rejection(c[1].nonce)
    <3>1. c = <<t, o>>
      BY <1>1, <2>2 DEF Accept
    <3>2. At(o, "propose") /\ t.nonce = run[o].nonce
      <4>1. t # Foreign(t.nonce)
        BY <1>1, <3>1 DEF Foreign
      <4>2. ~(At(o, "reject") /\ t = Current(o))
        <5>1. At(o, "reject") => Current(o) \in run[o].todo
          BY <2>0, RunTypes DEF At, WorkByPlace, Proposing
        <5>. QED
          BY <1>1, <2>0, <3>1, <5>1 DEF QueueWasProposed, Rejection
      <4>. QED
        BY <2>2, <4>1, <4>2 DEF Origin, Request
    <3>3. proposals[i].tx.nonce < t.nonce
      BY <1>1, <2>0, <3>1, <3>2 DEF ChosenBehind, BehindNonce
    <3>4. t.nonce \in Nat /\ Rejection(t.nonce).nonce = t.nonce
      BY DEF SafeTxs, Rejection
    <3>. QED
      BY <3>1, <3>3, <3>4
  <2>3. CASE proposals' = proposals /\ \A o \in Owners : ~SignOne(o)
    <3>1. signed' = signed
      <4>1. \A o \in Owners : QuietStep(o) /\ ~SignOne(o) => signed' = signed
        BY DEF QuietStep, serviceVars, ProposeNonce, ValidateFees, CheckNonces, CheckFee,
           Sleep, PollFee, Send, ReceiptOk, ReceiptBad, ProposeStart, SignStart, ExecuteStart
      <4>2. \A t \in SafeTxs, o \in Owners, seen \in Nat : ~Accept(t, o, seen)
        <5>1. SUFFICES ASSUME NEW t \in SafeTxs, NEW o \in Owners, NEW seen \in Nat,
                              Accept(t, o, seen)
                       PROVE  FALSE
          OBVIOUS
        <5>2. Len(proposals') = Len(proposals) + 1 /\ Len(proposals) \in Nat
          BY <2>0, <5>1, AcceptEffect, ProposedTypes
        <5>. QED
          BY <2>3, <5>2
      <4>3. \A o \in Owners : ProposeBatch(o) => signed' = signed
        <5>1. SUFFICES ASSUME NEW o \in Owners, ProposeBatch(o) PROVE signed' = signed
          OBVIOUS
        <5>. DEFINE t == Request(run[o].nonce, Min(run[o].work), run[o].fee)
        <5>2. t \in SafeTxs /\ run[o].seen \in Nat
          BY <2>0, <5>1, RunTypes DEF ProposeBatch, WorkByPlace, Proposing, At
        <5>3. signed' = signed \/ Accept(t, o, run[o].seen)
          BY <5>1 DEF ProposeBatch
        <5>. HIDE DEF t
        <5>. QED
          BY <4>2, <5>2, <5>3
      <4>4. \A o \in Owners : RejectOne(o) => signed' = signed
        <5>1. SUFFICES ASSUME NEW o \in Owners, RejectOne(o) PROVE signed' = signed
          OBVIOUS
        <5>2. Current(o) \in SafeTxs
          BY <2>0, <5>1, RunTypes DEF RejectOne, WorkByPlace, Proposing, At
        <5>3. signed' = signed \/ Accept(Current(o), o, 0)
          BY <5>1 DEF RejectOne, Current
        <5>. QED
          BY <4>2, <5>2, <5>3
      <4>5. \A o \in Owners : ForeignProposal(o) => FALSE
        <5>1. SUFFICES ASSUME NEW o \in Owners, ForeignProposal(o) PROVE FALSE
          OBVIOUS
        <5>2. PICK n \in OnChainNonce .. NextNonce : Accept(Foreign(n), o, Len(proposals))
          BY <5>1 DEF ForeignProposal
        <5>3. n \in Nat /\ Len(proposals) \in Nat /\ Foreign(n) \in SafeTxs
          BY <2>0, ProposedTypes, MakesSafeTxs
        <5>. QED
          BY <4>2, <5>2, <5>3
      <4>6. (\E e \in inflight : Include(e)) \/ ForeignExecution \/ FeeChanges \/ UNCHANGED serviceVars
            => signed' = signed
        BY DEF Include, ForeignExecution, FeeChanges, serviceVars
      <4>. QED
        BY <1>1, <2>3, <4>1, <4>3, <4>4, <4>5, <4>6, StepCases
    <3>. QED
      BY <1>1, <3>1
  <2>. QED
    BY <1>1, <2>0, <2>1, <2>2, <2>3, Submissions
<1>2. QueueInv /\ [Next]_vars =>
        [\A c \in signed' \ signed :
           c[1].kind = "request" =>
             \A i \in 1..run[c[2]].seen : proposals[i].tx # Rejection(c[1].nonce)]_vars
  BY <1>1
<1>. QED
  BY <1>2, QueueInvariant, PTL DEF Spec, RejectionStopsSigning
=============================================================================
