---------------------------- MODULE PartsProofs ----------------------------
(***************************************************************************)
(* The store of the mock service, the throttled calls and a request in its *)
(* slot, for all numbers of clients, callers and transactions, all limits, *)
(* fees and bounds.                                                        *)
(***************************************************************************)
EXTENDS ContractFeeProofs

-----------------------------------------------------------------------------
(* The store of the mock service.                                          *)

\* What a handler is doing, by its kind.
LEMMA RequestTypes ==
  ASSUME StoreTypeOK, NEW c \in Clients
  PROVE  /\ handling[c].op \in {"idle", "list", "propose"}
         /\ handling[c].op = "idle" <=> handling[c] = Idle
         /\ handling[c].op # "idle" => /\ handling[c].since \in 0..MaxNonce
                                       /\ handling[c].cold \in BOOLEAN
         /\ handling[c].op = "propose" => handling[c].tx \in Hashes
<1>1. handling[c] \in Requests
  BY DEF StoreTypeOK
<1>2. CASE handling[c] = Idle
  BY <1>2 DEF Idle
<1>3. CASE handling[c] \in [op : {"list"}, since : 0..MaxNonce, cold : BOOLEAN]
  BY <1>3 DEF Idle
<1>4. CASE handling[c] \in [op : {"propose"}, tx : Hashes, since : 0..MaxNonce, cold : BOOLEAN]
  BY <1>4 DEF Idle
<1>. QED
  BY <1>1, <1>2, <1>3, <1>4 DEF Requests

\* Whatever a handler learns of the nonce, the Safe has reached it.
LEMMA LearnedNonce ==
  ASSUME StoreTypeOK, NonceNotAhead, NEW c \in Clients, handling[c].op # "idle",
         NEW info \in SafeInfo(c)
  PROVE  /\ info.cached \in NotLoaded..MaxNonce /\ info.cached <= safeNonce
         /\ info.seen \in NotLoaded..MaxNonce /\ info.seen <= safeNonce
<1>1. /\ handling[c].since \in Nat /\ handling[c].since <= safeNonce /\ MaxNonce \in Nat
      /\ safeNonce \in 0..MaxNonce /\ cachedNonce \in NotLoaded..MaxNonce
      /\ cachedNonce <= safeNonce
  BY RequestTypes, MockTxStoreAssumption DEF NonceNotAhead, StoreTypeOK
<1>2. CASE \E n \in handling[c].since .. safeNonce : info = [seen |-> n, cached |-> n]
  BY <1>1, <1>2 DEF NotLoaded
<1>3. CASE info = [seen |-> IF handling[c].cold THEN NotLoaded ELSE cachedNonce,
                   cached |-> cachedNonce]
  BY <1>1, <1>3 DEF NotLoaded
<1>. QED
  BY <1>2, <1>3 DEF SafeInfo

\* A new store is empty and nobody has read the chain.
LEMMA StoreInvInit ==
  ASSUME StoreInit
  PROVE  StoreInv
<1>1. StoreTypeOK
  <2>1. /\ Absent \in [stored : BOOLEAN, isExecuted : BOOLEAN, owners : SUBSET Clients]
        /\ Idle \in Requests
    BY DEF Absent, Requests
  <2>2. /\ cachedNonce \in NotLoaded..MaxNonce /\ safeNonce \in 0..MaxNonce
        /\ failAfter \in Undefined..MaxFailAfter
    BY MockTxStoreAssumption DEF StoreInit, NotLoaded, Undefined
  <2>. QED
    BY <2>1, <2>2 DEF StoreInit, StoreTypeOK
<1>2. NonceNotAhead
  BY DEF StoreInit, NonceNotAhead, Idle, NotLoaded
<1>3. StoredOnce
  BY DEF StoreInit, StoredOnce, Absent, Idle, Proposes
<1>4. ConfirmationsKept /\ ClosedIsPast
  BY DEF StoreInit, ConfirmationsKept, ClosedIsPast, Absent
<1>. QED
  BY <1>1, <1>2, <1>3, <1>4 DEF StoreInv

\* Beginning to handle a request stores nothing; a proposal of something that is
\* being stored by another handler is noted.
LEMMA BeginKeepsStore ==
  ASSUME StoreInv, NEW c \in Clients,
         BeginListing(c) \/ \E h \in Hashes : BeginProposal(c, h)
  PROVE  StoreInv'
<1>0. /\ StoreTypeOK /\ safeNonce \in 0..MaxNonce /\ Cold \in BOOLEAN
      /\ handling \in [Clients -> Requests] /\ handling[c] = Idle
  BY DEF StoreInv, StoreTypeOK, Cold, BeginListing, BeginProposal
<1>1. PICK r \in Requests :
        /\ handling' = [handling EXCEPT ![c] = r] /\ r # Idle /\ r.since = safeNonce
        /\ \/ r.op = "list" /\ UNCHANGED raced
           \/ \E h \in Hashes :
                /\ r.op = "propose" /\ r.tx = h /\ ~HasTransaction(h)
                /\ raced' = IF \E d \in Clients : Proposes(d, h) THEN raced \cup {h} ELSE raced
  <2>1. CASE BeginListing(c)
    <3>. DEFINE r == [op |-> "list", since |-> safeNonce, cold |-> Cold]
    <3>1. r \in Requests /\ r # Idle
      BY <1>0 DEF Requests, Idle
    <3>2. handling' = [handling EXCEPT ![c] = r] /\ UNCHANGED raced
      BY <2>1 DEF BeginListing
    <3>. QED
      BY <3>1, <3>2
  <2>2. ASSUME NEW h \in Hashes, BeginProposal(c, h) PROVE
          \E r \in Requests :
             /\ handling' = [handling EXCEPT ![c] = r] /\ r # Idle /\ r.since = safeNonce
             /\ r.op = "propose" /\ r.tx = h /\ ~HasTransaction(h)
             /\ raced' = IF \E d \in Clients : Proposes(d, h) THEN raced \cup {h} ELSE raced
    <3>. DEFINE r == [op |-> "propose", tx |-> h, since |-> safeNonce, cold |-> Cold]
    <3>1. r \in Requests /\ r # Idle
      BY <1>0 DEF Requests, Idle
    <3>2. /\ handling' = [handling EXCEPT ![c] = r] /\ ~HasTransaction(h)
          /\ raced' = IF \E d \in Clients : Proposes(d, h) THEN raced \cup {h} ELSE raced
      BY <2>2 DEF BeginProposal, Proposes
    <3>. QED
      BY <3>1, <3>2
  <2>. QED
    BY <2>1, <2>2
<1>2. UNCHANGED <<transactions, cachedNonce, failAfter, hidden, safeNonce, acked>>
  BY DEF BeginListing, BeginProposal
<1>3. /\ handling'[c] = r /\ \A d \in Clients \ {c} : handling'[d] = handling[d]
      /\ raced \subseteq raced' /\ raced' \subseteq Hashes
  BY <1>0, <1>1 DEF StoreTypeOK
<1>4. StoreTypeOK'
  BY <1>0, <1>1, <1>2, <1>3 DEF StoreTypeOK
<1>5. NonceNotAhead'
  BY <1>0, <1>1, <1>2, <1>3 DEF StoreInv, NonceNotAhead
<1>6. StoredOnce'
  <2>1. \A h \in Hashes : HasTransaction(h)' <=> HasTransaction(h)
    BY <1>2 DEF HasTransaction
  <2>2. ASSUME NEW h \in Hashes \ raced', NEW d \in Clients, Proposes(d, h)'
        PROVE  /\ ~HasTransaction(h)
               /\ \A e \in Clients : Proposes(e, h)' => e = d
    <3>1. \A e \in Clients \ {c} : Proposes(e, h)' <=> Proposes(e, h)
      BY <1>3 DEF Proposes
    <3>2. ~Proposes(c, h)
      BY <1>0 DEF Proposes, Idle
    <3>3. Proposes(c, h)' => /\ ~HasTransaction(h)
                             /\ \A e \in Clients : ~Proposes(e, h)
      BY <1>1, <1>3, <2>2 DEF Proposes
    <3>4. h \in Hashes \ raced
      BY <1>3
    <3>. QED
      BY <2>2, <3>1, <3>2, <3>3, <3>4 DEF StoreInv, StoredOnce
  <2>. QED
    BY <1>2, <2>1, <2>2 DEF StoreInv, StoredOnce
<1>7. ConfirmationsKept' /\ ClosedIsPast'
  BY <1>2, <1>3 DEF StoreInv, ConfirmationsKept, ClosedIsPast
<1>. QED
  BY <1>4, <1>5, <1>6, <1>7 DEF StoreInv

\* A handler that has ended proposes nothing more.
LEMMA HandlerEnds ==
  ASSUME StoreInv, NEW c \in Clients, handling' = [handling EXCEPT ![c] = Idle]
  PROVE  /\ handling' \in [Clients -> Requests]
         /\ \A d \in Clients : handling'[d] = IF d = c THEN Idle ELSE handling[d]
         /\ \A d \in Clients, h \in Hashes : Proposes(d, h)' <=> d # c /\ Proposes(d, h)
<1>1. handling \in [Clients -> Requests] /\ Idle \in Requests
  BY DEF StoreInv, StoreTypeOK, Requests
<1>2. \A d \in Clients : handling'[d] = IF d = c THEN Idle ELSE handling[d]
  BY <1>1
<1>. QED
  BY <1>1, <1>2 DEF Proposes, Idle

\* A proposal that ends is stored in an empty place, unless it was proposed twice at
\* once.
LEMMA EndProposalKeepsStore ==
  ASSUME StoreInv, NEW c \in Clients, EndProposal(c)
  PROVE  StoreInv'
<1>. DEFINE h == handling[c].tx
<1>0. /\ StoreTypeOK /\ NonceNotAhead /\ handling[c].op = "propose" /\ h \in Hashes
      /\ Proposes(c, h)
  BY RequestTypes DEF StoreInv, EndProposal, Proposes
<1>1. /\ handling' \in [Clients -> Requests]
      /\ \A d \in Clients : handling'[d] = IF d = c THEN Idle ELSE handling[d]
      /\ \A d \in Clients, g \in Hashes : Proposes(d, g)' <=> d # c /\ Proposes(d, g)
  BY HandlerEnds DEF EndProposal
<1>2. UNCHANGED <<hidden, safeNonce, raced>>
  BY DEF EndProposal
<1>3. cachedNonce' \in NotLoaded..MaxNonce /\ cachedNonce' <= safeNonce
  BY <1>0, LearnedNonce DEF EndProposal
<1>4. NonceNotAhead'
  BY <1>1, <1>2, <1>3 DEF StoreInv, NonceNotAhead, Idle
<1>. DEFINE record == [stored |-> TRUE, isExecuted |-> FALSE, owners |-> {c}]
<1>5. \/ UNCHANGED <<transactions, failAfter, acked>>
      \/ /\ transactions' = [transactions EXCEPT ![h] = record]
         /\ failAfter # 0 /\ failAfter' = CountDown(failAfter)
         /\ acked' = acked \cup {<<c, h>>}
  BY DEF EndProposal
<1>6. CASE UNCHANGED <<transactions, failAfter, acked>>
  <2>1. StoreTypeOK'
    BY <1>0, <1>1, <1>2, <1>3, <1>6 DEF StoreTypeOK
  <2>2. StoredOnce'
    BY <1>1, <1>2, <1>6 DEF StoreInv, StoredOnce, HasTransaction
  <2>3. ConfirmationsKept' /\ ClosedIsPast'
    BY <1>2, <1>6 DEF StoreInv, ConfirmationsKept, ClosedIsPast
  <2>. QED
    BY <1>4, <2>1, <2>2, <2>3 DEF StoreInv
<1>7. CASE /\ transactions' = [transactions EXCEPT ![h] = record]
           /\ failAfter # 0 /\ failAfter' = CountDown(failAfter)
           /\ acked' = acked \cup {<<c, h>>}
  <2>1. record \in [stored : BOOLEAN, isExecuted : BOOLEAN, owners : SUBSET Clients]
    OBVIOUS
  <2>2. /\ transactions'[h] = record
        /\ \A g \in Hashes : g # h => transactions'[g] = transactions[g]
    BY <1>0, <1>7 DEF StoreTypeOK
  <2>3. failAfter' \in Undefined..MaxFailAfter
    BY <1>0, <1>7, MockTxStoreAssumption DEF StoreTypeOK, CountDown, Undefined
  <2>4. acked' \subseteq Clients \X Hashes
    BY <1>0, <1>7 DEF StoreTypeOK
  <2>. HIDE DEF record
  <2>5. StoreTypeOK'
    BY <1>0, <1>1, <1>2, <1>3, <1>7, <2>1, <2>3, <2>4 DEF StoreTypeOK
  <2>6. record.stored /\ ~record.isExecuted /\ record.owners = {c}
    BY DEF record
  <2>7. StoredOnce'
    BY <1>0, <1>1, <1>2, <2>2, <2>6 DEF StoreInv, StoredOnce, HasTransaction
  <2>8. ConfirmationsKept'
    <3>1. SUFFICES ASSUME NEW a \in acked', a[2] \notin raced
                   PROVE  a[1] \in transactions'[a[2]].owners
      BY <1>2 DEF ConfirmationsKept
    <3>2. CASE a = <<c, h>>
      BY <2>2, <2>6, <3>2
    <3>3. CASE a # <<c, h>>
      <4>1. a \in acked /\ a[2] \in Hashes /\ a[1] \in transactions[a[2]].owners
        BY <1>0, <1>7, <3>1, <3>3 DEF StoreInv, ConfirmationsKept, StoreTypeOK
      <4>2. a[2] # h
        BY <1>0, <3>1, <4>1 DEF StoreInv, StoredOnce
      <4>. QED
        BY <2>2, <4>1, <4>2
    <3>. QED
      BY <3>2, <3>3
  <2>9. ClosedIsPast'
    BY <1>2, <2>2, <2>6 DEF StoreInv, ClosedIsPast
  <2>. QED
    BY <1>4, <2>5, <2>7, <2>8, <2>9 DEF StoreInv
<1>. QED
  BY <1>5, <1>6, <1>7

\* A listing closes what lies behind a nonce the Safe has reached.
LEMMA EndListingKeepsStore ==
  ASSUME StoreInv, NEW c \in Clients, EndListing(c)
  PROVE  StoreInv'
<1>0. StoreTypeOK /\ NonceNotAhead /\ handling[c].op # "idle"
  BY DEF StoreInv, EndListing
<1>1. /\ handling' \in [Clients -> Requests]
      /\ \A d \in Clients : handling'[d] = IF d = c THEN Idle ELSE handling[d]
      /\ \A d \in Clients, g \in Hashes : Proposes(d, g)' <=> d # c /\ Proposes(d, g)
  BY HandlerEnds DEF EndListing
<1>2. UNCHANGED <<failAfter, hidden, safeNonce, acked, raced>>
  BY DEF EndListing
<1>3. PICK info \in SafeInfo(c) :
        /\ cachedNonce' = info.cached
        /\ transactions' = [h \in Hashes |->
             IF HasTransaction(h) /\ BeforeNonce(h, info.seen)
               THEN [transactions[h] EXCEPT !.isExecuted = TRUE]
               ELSE transactions[h]]
  BY DEF EndListing
<1>4. /\ info.cached \in NotLoaded..MaxNonce /\ info.cached <= safeNonce
      /\ info.seen \in NotLoaded..MaxNonce /\ info.seen <= safeNonce
  BY <1>0, LearnedNonce
<1>5. NonceNotAhead'
  BY <1>1, <1>2, <1>3, <1>4 DEF StoreInv, NonceNotAhead, Idle
<1>6. ASSUME NEW h \in Hashes
      PROVE  /\ transactions'[h] \in [stored : BOOLEAN, isExecuted : BOOLEAN, owners : SUBSET Clients]
             /\ transactions'[h].stored = transactions[h].stored
             /\ transactions'[h].owners = transactions[h].owners
             /\ transactions'[h].isExecuted => transactions[h].isExecuted \/ NonceOf[h] < safeNonce
  <2>1. transactions[h] \in [stored : BOOLEAN, isExecuted : BOOLEAN, owners : SUBSET Clients]
    BY <1>0 DEF StoreTypeOK
  <2>2. CASE HasTransaction(h) /\ BeforeNonce(h, info.seen)
    <3>1. transactions'[h] = [transactions[h] EXCEPT !.isExecuted = TRUE]
      BY <1>3, <2>2
    <3>2. NonceOf[h] \in Nat /\ safeNonce \in Int /\ info.seen \in Int
      BY <1>0, <1>4, MockTxStoreAssumption DEF StoreTypeOK, NotLoaded
    <3>3. NonceOf[h] < safeNonce
      BY <1>4, <2>2, <3>2 DEF BeforeNonce
    <3>. QED
      BY <2>1, <3>1, <3>3
  <2>3. CASE ~(HasTransaction(h) /\ BeforeNonce(h, info.seen))
    BY <1>3, <2>1, <2>3
  <2>. QED
    BY <2>2, <2>3
<1>7. transactions' \in [Hashes -> [stored : BOOLEAN, isExecuted : BOOLEAN, owners : SUBSET Clients]]
  BY <1>3, <1>6
<1>8. StoreTypeOK'
  BY <1>0, <1>1, <1>2, <1>3, <1>4, <1>7 DEF StoreTypeOK
<1>9. StoredOnce' /\ ConfirmationsKept' /\ ClosedIsPast'
  BY <1>0, <1>1, <1>2, <1>6 DEF StoreInv, StoredOnce, HasTransaction, ConfirmationsKept, ClosedIsPast,
     StoreTypeOK
<1>. QED
  BY <1>5, <1>8, <1>9 DEF StoreInv

\* A confirmation is added to what is stored.
LEMMA ConfirmationKeepsStore ==
  ASSUME StoreInv, NEW c \in Clients, NEW h \in Hashes, AddConfirmation(c, h)
  PROVE  StoreInv'
<1>. DEFINE Records == [stored : BOOLEAN, isExecuted : BOOLEAN, owners : SUBSET Clients]
<1>0. StoreTypeOK /\ transactions \in [Hashes -> Records] /\ transactions[h] \in Records
  BY DEF StoreInv, StoreTypeOK
<1>1. /\ transactions' = [transactions EXCEPT ![h].owners = @ \cup {c}]
      /\ acked' = acked \cup {<<c, h>>} /\ transactions[h].stored
      /\ UNCHANGED <<cachedNonce, failAfter, hidden, handling, safeNonce, raced>>
  BY DEF AddConfirmation, HasTransaction
<1>2. /\ transactions'[h] = [transactions[h] EXCEPT !.owners = @ \cup {c}]
      /\ \A g \in Hashes : g # h => transactions'[g] = transactions[g]
      /\ DOMAIN transactions' = Hashes
  BY <1>0, <1>1
<1>3. /\ transactions'[h] \in Records /\ transactions'[h].stored
      /\ transactions'[h].isExecuted = transactions[h].isExecuted
      /\ transactions'[h].owners = transactions[h].owners \cup {c}
  BY <1>0, <1>1, <1>2
<1>4. transactions' \in [Hashes -> Records]
  BY <1>0, <1>1, <1>2, <1>3
<1>5. StoreTypeOK'
  BY <1>0, <1>1, <1>4 DEF StoreTypeOK
<1>6. NonceNotAhead'
  BY <1>1 DEF StoreInv, NonceNotAhead
<1>7. StoredOnce'
  BY <1>1, <1>2, <1>3 DEF StoreInv, StoredOnce, HasTransaction, Proposes
<1>8. ConfirmationsKept'
  <2>1. SUFFICES ASSUME NEW a \in acked', a[2] \notin raced
                 PROVE  a[1] \in transactions'[a[2]].owners
    BY <1>1 DEF ConfirmationsKept
  <2>2. CASE a = <<c, h>>
    BY <1>3, <2>2
  <2>3. CASE a # <<c, h>>
    <3>1. a[2] \in Hashes /\ a[1] \in transactions[a[2]].owners
      BY <1>0, <1>1, <2>1, <2>3 DEF StoreInv, ConfirmationsKept, StoreTypeOK
    <3>. QED
      BY <1>2, <1>3, <3>1
  <2>. QED
    BY <2>2, <2>3
<1>9. ClosedIsPast'
  BY <1>1, <1>2, <1>3 DEF StoreInv, ClosedIsPast
<1>. QED
  BY <1>5, <1>6, <1>7, <1>8, <1>9 DEF StoreInv

\* The admin routes and the chain.
LEMMA AdminKeepsStore ==
  ASSUME StoreInv, ClearPending \/ FailAfter \/ HidePending \/ SafeExecutes
  PROVE  StoreInv'
<1>. DEFINE Records == [stored : BOOLEAN, isExecuted : BOOLEAN, owners : SUBSET Clients]
<1>0. StoreTypeOK /\ transactions \in [Hashes -> Records] /\ Absent \in Records
  BY DEF StoreInv, StoreTypeOK, Absent
<1>1. CASE ClearPending
  <2>. DEFINE pending == {h \in Hashes : ~transactions[h].isExecuted}
  <2>1. /\ transactions' = [h \in Hashes |-> IF h \in pending THEN Absent ELSE transactions[h]]
        /\ acked' = {a \in acked : a[2] \notin pending}
        /\ UNCHANGED <<cachedNonce, failAfter, hidden, handling, safeNonce, raced>>
    BY <1>1 DEF ClearPending
  <2>2. \A h \in Hashes : transactions'[h] = IF h \in pending THEN Absent ELSE transactions[h]
    BY <2>1
  <2>. HIDE DEF pending
  <2>3. transactions' \in [Hashes -> Records]
    BY <1>0, <2>1
  <2>4. StoreTypeOK'
    BY <1>0, <2>1, <2>3 DEF StoreTypeOK
  <2>5. NonceNotAhead'
    BY <2>1 DEF StoreInv, NonceNotAhead
  <2>6. StoredOnce'
    BY <2>1, <2>2 DEF StoreInv, StoredOnce, HasTransaction, Proposes, Absent
  <2>7. ConfirmationsKept'
    BY <1>0, <2>1, <2>2 DEF StoreInv, ConfirmationsKept, StoreTypeOK
  <2>8. ClosedIsPast'
    BY <2>1, <2>2 DEF StoreInv, ClosedIsPast, Absent
  <2>. QED
    BY <2>4, <2>5, <2>6, <2>7, <2>8 DEF StoreInv
<1>2. CASE FailAfter \/ HidePending
  <2>1. UNCHANGED <<transactions, cachedNonce, handling, safeNonce, acked, raced>>
    BY <1>2 DEF FailAfter, HidePending
  <2>2. failAfter' \in Undefined..MaxFailAfter /\ hidden' \in BOOLEAN
    <3>1. failAfter \in Undefined..MaxFailAfter /\ hidden \in BOOLEAN
      BY <1>0 DEF StoreTypeOK
    <3>2. failAfter' = failAfter \/ failAfter' \in {Undefined} \cup 0..MaxFailAfter
      BY <1>2 DEF FailAfter, HidePending
    <3>3. {Undefined} \cup 0..MaxFailAfter \subseteq Undefined..MaxFailAfter
      BY MockTxStoreAssumption DEF Undefined
    <3>4. hidden' = hidden \/ hidden' = ~hidden
      BY <1>2 DEF FailAfter, HidePending
    <3>. QED
      BY <3>1, <3>2, <3>3, <3>4, Zenon
  <2>3. StoreTypeOK'
    BY <1>0, <2>1, <2>2 DEF StoreTypeOK
  <2>. QED
    BY <2>1, <2>3 DEF StoreInv, NonceNotAhead, StoredOnce, HasTransaction, Proposes,
       ConfirmationsKept, ClosedIsPast
<1>3. CASE SafeExecutes
  <2>1. /\ UNCHANGED <<transactions, cachedNonce, failAfter, hidden, handling, acked, raced>>
        /\ safeNonce' = safeNonce + 1 /\ safeNonce < MaxNonce
    BY <1>3 DEF SafeExecutes
  <2>2. safeNonce \in Nat /\ safeNonce' \in 0..MaxNonce /\ cachedNonce \in Int
    BY <1>0, <2>1, MockTxStoreAssumption DEF StoreTypeOK, NotLoaded
  <2>3. StoreTypeOK'
    BY <1>0, <2>1, <2>2 DEF StoreTypeOK
  <2>4. NonceNotAhead'
    <3>1. \A c \in Clients : handling[c].op # "idle" => handling[c].since \in Nat
      BY <1>0, RequestTypes
    <3>. QED
      BY <2>1, <2>2, <3>1 DEF StoreInv, NonceNotAhead
  <2>5. ClosedIsPast'
    BY <2>1, <2>2, MockTxStoreAssumption DEF StoreInv, ClosedIsPast
  <2>6. StoredOnce' /\ ConfirmationsKept'
    BY <2>1 DEF StoreInv, StoredOnce, HasTransaction, Proposes, ConfirmationsKept
  <2>. QED
    BY <2>3, <2>4, <2>5, <2>6 DEF StoreInv
<1>. QED
  BY <1>1, <1>2, <1>3

\* Confirmations are kept and only what lies in the past is closed, in whichever
\* order handlers begin and end: the inductive invariant of the store.
THEOREM StoreInvariant == StoreSpec => []StoreInv
<1>1. StoreInit => StoreInv
  BY StoreInvInit
<1>2. StoreInv /\ [StoreNext]_storeVars => StoreInv'
  <2>1. SUFFICES ASSUME StoreInv, [StoreNext]_storeVars PROVE StoreInv'
    OBVIOUS
  <2>2. CASE UNCHANGED storeVars
    BY <2>1, <2>2 DEF storeVars, StoreInv, StoreTypeOK, NonceNotAhead, StoredOnce, HasTransaction,
       Proposes, ConfirmationsKept, ClosedIsPast
  <2>3. CASE \E c \in Clients : EndProposal(c) \/ EndListing(c)
    BY <2>1, <2>3, EndProposalKeepsStore, EndListingKeepsStore
  <2>4. CASE \E c \in Clients : BeginListing(c) \/ \E h \in Hashes : BeginProposal(c, h)
    BY <2>1, <2>4, BeginKeepsStore
  <2>5. CASE \E c \in Clients, h \in Hashes : AddConfirmation(c, h)
    BY <2>1, <2>5, ConfirmationKeepsStore
  <2>6. CASE ClearPending \/ FailAfter \/ HidePending \/ SafeExecutes
    BY <2>1, <2>6, AdminKeepsStore
  <2>. QED
    BY <2>1, <2>2, <2>3, <2>4, <2>5, <2>6 DEF StoreNext
<1>. QED
  BY <1>1, <1>2, PTL DEF StoreSpec

\* However late the reads of the chain arrive and whether or not they fail, no
\* transaction is closed that the Safe could still execute.
THEOREM ClosedIsNeverOpen == StoreSpec => []ClosedIsPast
<1>1. StoreInv => ClosedIsPast
  BY DEF StoreInv
<1>. QED
  BY <1>1, StoreInvariant, PTL

\* A signature the service has confirmed to a client stays, unless equal proposals
\* were being handled at once.
THEOREM ConfirmationsStay == StoreSpec => []ConfirmationsKept
<1>1. StoreInv => ConfirmationsKept
  BY DEF StoreInv
<1>. QED
  BY <1>1, StoreInvariant, PTL

-----------------------------------------------------------------------------
(* Throttled calls.                                                        *)

\* What is left in the window of a call that tries for the second or the third time,
\* has s seconds to sleep, and of whose m requests k were answered in this attempt.
LeftOf(n, s, k, m, count) ==
  /\ n = 2 /\ s = 1 => count[0] = 0
  /\ n = 2 /\ s = 0 => count[0] + count[1] <= k
  /\ n = 3 /\ s = 2 => count[0] + count[1] <= m
  /\ n = 3 /\ s = 1 => count[0] = 0 /\ count[1] + count[2] <= m
  /\ n = 3 /\ s = 0 => count[0] + count[1] + count[2] <= m + k

WindowOf(c) == LeftOf(attempt[c], pause[c], sent[c], length[c], stamps[bucketOf[c]])

\* The cases of the invariant, one after the other.
LEMMA WindowCases ==
  WindowEmpties <=> \A c \in Callers \ contended : WindowOf(c)
BY DEF WindowEmpties, WindowOf, LeftOf

\* The variables of one caller and of its bucket.
LEMMA CallerTypes ==
  ASSUME CallsTypeOK, NEW c \in Callers
  PROVE  /\ bucketOf[c] \in Buckets /\ attempt[c] \in 0..3 /\ pause[c] \in 0..2
         /\ length[c] \in 0..3 /\ sent[c] \in 0..3
         /\ attempt[c] > 0 => sent[c] < length[c]
         /\ gone[c] \in Endings
         /\ \A b \in Buckets : /\ stamps[b] \in [Ages -> 0..MaxStamps]
                               /\ stamps[b][0] \in Nat /\ stamps[b][1] \in Nat
                               /\ stamps[b][2] \in Nat
                               /\ LimitOf(b) \in Nat
<1>1. /\ bucketOf[c] \in Buckets /\ attempt[c] \in 0..3 /\ pause[c] \in 0..2
      /\ gone[c] \in Endings
      /\ attempt[c] > 0 => sent[c] < length[c]
  BY DEF CallsTypeOK, MaxAttempts, RetryDelay
<1>2. length[c] \in 0..3 /\ sent[c] \in 0..3
  BY DEF CallsTypeOK, CallLengths
<1>3. ASSUME NEW b \in Buckets
      PROVE  /\ stamps[b] \in [Ages -> 0..MaxStamps]
             /\ stamps[b][0] \in Nat /\ stamps[b][1] \in Nat /\ stamps[b][2] \in Nat
  <2>1. stamps[b] \in [Ages -> 0..MaxStamps] /\ 0 \in Ages /\ 1 \in Ages /\ 2 \in Ages
    BY DEF CallsTypeOK, Ages, WindowSeconds
  <2>. QED
    BY <2>1, RateLimitAssumption
<1>4. \A b \in Buckets : LimitOf(b) \in Nat
  BY RateLimitAssumption DEF CallsTypeOK, LimitOf
<1>. QED
  BY <1>1, <1>2, <1>3, <1>4

\* A second that passes ages what is in the window.
LEMMA SecondKeepsCalls ==
  ASSUME CallsInv, SecondPasses
  PROVE  CallsInv'
<1>0. CallsTypeOK /\ UNCHANGED <<bucketOf, limit, attempt, length, sent, gone, contended>>
  BY DEF CallsInv, SecondPasses
<1>1. ASSUME NEW b \in Buckets
      PROVE  /\ stamps'[b] \in [Ages -> 0..MaxStamps]
             /\ stamps'[b][0] = 0 /\ stamps'[b][1] = stamps[b][0] /\ stamps'[b][2] = stamps[b][1]
  <2>1. stamps'[b] = [a \in Ages |-> IF a = 0 THEN 0 ELSE stamps[b][a - 1]]
    BY DEF SecondPasses
  <2>2. stamps[b] \in [Ages -> 0..MaxStamps] /\ 0 \in 0..MaxStamps
    BY <1>0, RateLimitAssumption DEF CallsTypeOK
  <2>3. ASSUME NEW a \in Ages, a # 0 PROVE stamps[b][a - 1] \in 0..MaxStamps
    <3>1. a - 1 \in Ages
      BY <2>3 DEF Ages, WindowSeconds
    <3>. QED
      BY <2>2, <3>1
  <2>4. 0 \in Ages /\ 1 \in Ages /\ 2 \in Ages /\ 1 - 1 = 0 /\ 2 - 1 = 1
    BY DEF Ages, WindowSeconds
  <2>5. stamps'[b] \in [Ages -> 0..MaxStamps]
    BY <2>1, <2>2, <2>3
  <2>6. stamps'[b][0] = 0 /\ stamps'[b][1] = stamps[b][0] /\ stamps'[b][2] = stamps[b][1]
    BY <2>1, <2>4
  <2>. QED
    BY <2>5, <2>6
<1>2. ASSUME NEW c \in Callers
      PROVE  pause'[c] = (IF pause[c] > 0 THEN pause[c] - 1 ELSE 0) /\ pause'[c] \in 0..2
  <2>1. pause'[c] = IF pause[c] > 0 THEN pause[c] - 1 ELSE 0
    BY DEF SecondPasses
  <2>. QED
    BY <1>0, <2>1, CallerTypes
<1>3. CallsTypeOK'
  <2>1. stamps' \in [Buckets -> [Ages -> 0..MaxStamps]]
    BY <1>1 DEF SecondPasses
  <2>2. pause' \in [Callers -> 0..RetryDelay]
    BY <1>2 DEF SecondPasses, RetryDelay
  <2>. QED
    BY <1>0, <2>1, <2>2 DEF CallsTypeOK
<1>4. ASSUME NEW c \in Callers \ contended PROVE WindowOf(c)'
  <2>. DEFINE b == bucketOf[c]
  <2>1. WindowOf(c)
    BY WindowCases DEF CallsInv
  <2>2. /\ b \in Buckets /\ attempt[c] \in 0..3 /\ pause[c] \in 0..2
        /\ length[c] \in 0..3 /\ sent[c] \in 0..3 /\ (attempt[c] > 0 => sent[c] < length[c])
        /\ stamps[b][0] \in Nat /\ stamps[b][1] \in Nat /\ stamps[b][2] \in Nat
    BY <1>0, CallerTypes
  <2>3. stamps'[b][0] = 0 /\ stamps'[b][1] = stamps[b][0] /\ stamps'[b][2] = stamps[b][1]
    BY <1>1, <2>2
  <2>4. /\ bucketOf'[c] = b /\ attempt'[c] = attempt[c]
        /\ length'[c] = length[c] /\ sent'[c] = sent[c]
    BY <1>0
  <2>5. LeftOf(attempt[c], pause[c], sent[c], length[c], stamps[b])
    BY <2>1 DEF WindowOf
  <2>. HIDE DEF b
  <2>6. LeftOf(attempt[c], pause'[c], sent[c], length[c], stamps'[b])
    BY <1>2, <2>2, <2>3, <2>5 DEF LeftOf
  <2>. QED
    BY <2>4, <2>6 DEF WindowOf
<1>5. WindowEmpties'
  <2>1. \A c \in Callers \ contended' : WindowOf(c)'
    BY <1>0, <1>4
  <2>. QED
    BY <2>1 DEF WindowEmpties, WindowOf, LeftOf
<1>. QED
  BY <1>3, <1>5 DEF CallsInv

\* A call begins: nothing is known of the window.
LEMMA BeginKeepsCalls ==
  ASSUME CallsInv, NEW c \in Callers, BeginCall(c)
  PROVE  CallsInv'
<1>0. /\ CallsTypeOK /\ attempt' = [attempt EXCEPT ![c] = 1] /\ attempt[c] = 0
      /\ contended' = contended \ {c}
      /\ UNCHANGED <<bucketOf, limit, stamps, sent, pause, gone>>
  BY DEF CallsInv, BeginCall
<1>1. PICK n \in CallLengths : length' = [length EXCEPT ![c] = n]
  BY DEF BeginCall
<1>2. ASSUME NEW d \in Callers
      PROVE  /\ d = c => attempt'[d] = 1 /\ length'[d] = n
             /\ d # c => attempt'[d] = attempt[d] /\ length'[d] = length[d]
  BY <1>0, <1>1 DEF CallsTypeOK
<1>3. CallsTypeOK'
  <2>1. attempt' \in [Callers -> 0..MaxAttempts] /\ length' \in [Callers -> {0} \cup CallLengths]
    BY <1>0, <1>1 DEF CallsTypeOK, MaxAttempts
  <2>2. sent[c] = 0
    BY <1>0 DEF CallsInv, CallsTypeOK
  <2>3. \A d \in Callers : attempt'[d] > 0 => sent'[d] < length'[d]
    BY <1>0, <1>2, <2>2 DEF CallsTypeOK, CallLengths
  <2>. QED
    BY <1>0, <2>1, <2>3 DEF CallsTypeOK
<1>4. ASSUME NEW d \in Callers \ contended' PROVE WindowOf(d)'
  <2>1. CASE d = c
    BY <1>2, <2>1 DEF WindowOf, LeftOf
  <2>2. CASE d # c
    <3>1. WindowOf(d)
      BY <1>0, <2>2, WindowCases DEF CallsInv
    <3>. QED
      BY <1>0, <1>2, <2>2, <3>1 DEF WindowOf
  <2>. QED
    BY <2>1, <2>2
<1>5. WindowEmpties'
  BY <1>4 DEF WindowEmpties, WindowOf, LeftOf
<1>. QED
  BY <1>3, <1>5 DEF CallsInv

\* A request adds to the window of its bucket; those who share it are contended.
LEMMA RequestCounts ==
  ASSUME CallsTypeOK, NEW c \in Callers, AskService(c)
  PROVE  LET b == bucketOf[c]
         IN /\ stamps' \in [Buckets -> [Ages -> 0..MaxStamps]]
            /\ stamps'[b][0] = stamps[b][0] + 1
            /\ stamps'[b][1] = stamps[b][1] /\ stamps'[b][2] = stamps[b][2]
            /\ \A a \in Buckets \ {b} : stamps'[a] = stamps[a]
            /\ contended \subseteq contended' /\ contended' \subseteq Callers
            /\ \A d \in Callers \ contended' : d # c => bucketOf[d] # b
<1>. DEFINE b == bucketOf[c]
<1>0. /\ b \in Buckets /\ stamps \in [Buckets -> [Ages -> 0..MaxStamps]]
      /\ stamps[b][0] \in Nat /\ stamps[b][1] \in Nat /\ stamps[b][2] \in Nat
      /\ 0 \in Ages /\ 1 \in Ages /\ 2 \in Ages /\ MaxStamps \in Nat
  BY CallerTypes, RateLimitAssumption DEF CallsTypeOK, Ages, WindowSeconds
<1>1. stamps' = [stamps EXCEPT ![b][0] = @ + 1] /\ Counted(b) <= MaxStamps
  BY DEF AskService
<1>2. contended' = contended \cup {d \in Callers \ {c} : bucketOf[d] = b}
  BY DEF AskService
<1>3. stamps[b][0] + 1 \in 0..MaxStamps
  BY <1>0, <1>1 DEF Counted
<1>. HIDE DEF b
<1>4. stamps'[b] = [stamps[b] EXCEPT ![0] = @ + 1] /\ \A a \in Buckets \ {b} : stamps'[a] = stamps[a]
  BY <1>0, <1>1
<1>5. stamps[b] \in [Ages -> 0..MaxStamps]
  BY <1>0
<1>6. /\ stamps'[b] \in [Ages -> 0..MaxStamps] /\ stamps'[b][0] = stamps[b][0] + 1
      /\ stamps'[b][1] = stamps[b][1] /\ stamps'[b][2] = stamps[b][2]
  BY <1>0, <1>3, <1>4, <1>5
<1>7. stamps' \in [Buckets -> [Ages -> 0..MaxStamps]]
  BY <1>0, <1>1, <1>4, <1>6
<1>8. contended \subseteq Callers
  BY DEF CallsTypeOK
<1>. QED
  BY <1>2, <1>4, <1>6, <1>7, <1>8 DEF b

\* What a request means for the caller: another request of the call, the end of the
\* call, another attempt, or the end of the process.
LEMMA RequestOutcomes ==
  ASSUME CallsTypeOK, NEW c \in Callers, Answered(c) \/ Throttled(c)
  PROVE  /\ AskService(c)
         /\ attempt[c] \in 1..3 /\ pause[c] = 0 /\ gone[c] = "runs"
         /\ attempt' \in [Callers -> 0..3] /\ pause' \in [Callers -> 0..2]
         /\ length' \in [Callers -> 0..3] /\ sent' \in [Callers -> 0..3]
         /\ gone' \in [Callers -> Endings]
         /\ \A d \in Callers \ {c} :
              /\ attempt'[d] = attempt[d] /\ pause'[d] = pause[d] /\ gone'[d] = gone[d]
              /\ length'[d] = length[d] /\ sent'[d] = sent[d]
         /\ \/ /\ attempt'[c] = attempt[c] /\ length'[c] = length[c] /\ pause'[c] = 0
               /\ sent'[c] = sent[c] + 1 /\ sent'[c] < length[c] /\ gone'[c] # "throttled"
            \/ /\ attempt'[c] = 0 /\ length'[c] = 0 /\ pause'[c] = 0
               /\ sent'[c] = 0 /\ gone'[c] # "throttled"
            \/ /\ attempt[c] <= 2 /\ attempt'[c] = attempt[c] + 1 /\ length'[c] = length[c]
               /\ sent'[c] = 0 /\ pause'[c] = 2 /\ gone'[c] # "throttled"
            \/ /\ ~Allowed(bucketOf[c]) /\ attempt[c] = 3
               /\ attempt'[c] = 0 /\ length'[c] = 0 /\ sent'[c] = 0
<1>0. /\ attempt \in [Callers -> 0..3] /\ pause \in [Callers -> 0..2]
      /\ length \in [Callers -> 0..3] /\ sent \in [Callers -> 0..3]
      /\ gone \in [Callers -> Endings]
  BY DEF CallsTypeOK, MaxAttempts, RetryDelay, CallLengths
<1>1. AskService(c) /\ attempt[c] \in 1..3 /\ pause[c] = 0 /\ gone[c] = "runs"
  BY <1>0 DEF AskService, Answered, Throttled
<1>2. CASE /\ sent[c] + 1 < length[c] /\ sent' = [sent EXCEPT ![c] = @ + 1]
           /\ UNCHANGED <<attempt, length, pause, gone>>
  <2>1. sent' \in [Callers -> 0..3] /\ sent'[c] = sent[c] + 1
    BY <1>0, <1>2
  <2>. QED
    BY <1>0, <1>1, <1>2, <2>1
<1>3. CASE CallEnds(c) /\ gone' \in {gone, [gone EXCEPT ![c] = "unauthorized"]}
  <2>1. gone'[c] # "throttled" /\ \A d \in Callers \ {c} : gone'[d] = gone[d]
    BY <1>0, <1>1, <1>3
  <2>2. gone' \in [Callers -> Endings]
    BY <1>0, <1>3 DEF Endings
  <2>3. /\ attempt' = [attempt EXCEPT ![c] = 0] /\ length' = [length EXCEPT ![c] = 0]
        /\ sent' = [sent EXCEPT ![c] = 0] /\ pause' = pause
    BY <1>3 DEF CallEnds
  <2>. QED
    BY <1>0, <1>1, <2>1, <2>2, <2>3
<1>4. CASE /\ MayRetry(attempt[c]) /\ attempt' = [attempt EXCEPT ![c] = @ + 1]
           /\ sent' = [sent EXCEPT ![c] = 0] /\ pause' = [pause EXCEPT ![c] = RetryDelay]
           /\ UNCHANGED <<length, gone>>
  <2>1. attempt[c] <= 2 /\ attempt[c] + 1 \in 0..3 /\ RetryDelay = 2
    BY <1>1, <1>4 DEF MayRetry, MaxAttempts, RetryDelay
  <2>. QED
    BY <1>0, <1>1, <1>4, <2>1
<1>5. CASE /\ ~Allowed(bucketOf[c]) /\ ~MayRetry(attempt[c]) /\ CallEnds(c)
           /\ gone' = [gone EXCEPT ![c] = "throttled"]
  <2>1. attempt[c] = 3 /\ gone' \in [Callers -> Endings]
    BY <1>0, <1>1, <1>5 DEF MayRetry, MaxAttempts, Endings
  <2>2. /\ attempt' = [attempt EXCEPT ![c] = 0] /\ length' = [length EXCEPT ![c] = 0]
        /\ sent' = [sent EXCEPT ![c] = 0] /\ pause' = pause
    BY <1>5 DEF CallEnds
  <2>. QED
    BY <1>0, <1>1, <1>5, <2>1, <2>2
<1>. QED
  BY <1>2, <1>3, <1>4, <1>5 DEF Answered, Throttled

\* A third attempt of a caller that has its bucket for itself finds what the second
\* and the third have sent.
LEMMA ThirdAttempt ==
  ASSUME CallsInv, NEW c \in Callers, AskService(c), ~Allowed(bucketOf[c]), attempt[c] = 3
  PROVE  c \in contended' \/ LimitOf(bucketOf[c]) < 2 * length[c]
<1>. DEFINE b == bucketOf[c]
<1>1. SUFFICES ASSUME c \notin contended' PROVE LimitOf(b) < 2 * length[c]
  OBVIOUS
<1>2. /\ b \in Buckets /\ length[c] \in 0..3 /\ sent[c] \in 0..3 /\ sent[c] < length[c]
      /\ stamps[b][0] \in Nat /\ stamps[b][1] \in Nat /\ stamps[b][2] \in Nat
      /\ LimitOf(b) \in Nat /\ pause[c] = 0
  BY CallerTypes DEF CallsInv, AskService
<1>3. c \notin contended
  BY <1>1, RequestCounts DEF CallsInv
<1>4. stamps[b][0] + stamps[b][1] + stamps[b][2] <= length[c] + sent[c]
  BY <1>2, <1>3, WindowCases DEF CallsInv, WindowOf, LeftOf
<1>5. ~(stamps[b][0] + stamps[b][1] + stamps[b][2] + 1 <= LimitOf(b))
  BY DEF Allowed, Counted
<1>. HIDE DEF b
<1>. QED
  BY <1>2, <1>4, <1>5

\* A request of one caller leaves the window to those that have their bucket for
\* themselves.
LEMMA RequestKeepsCalls ==
  ASSUME CallsInv, NEW c \in Callers, Answered(c) \/ Throttled(c)
  PROVE  CallsInv'
<1>. DEFINE b == bucketOf[c]
<1>0. CallsTypeOK /\ AskService(c) /\ UNCHANGED <<bucketOf, limit>> /\ b \in Buckets
  BY CallerTypes DEF CallsInv, Answered, Throttled, AskService
<1>1. /\ stamps' \in [Buckets -> [Ages -> 0..MaxStamps]]
      /\ stamps'[b][0] = stamps[b][0] + 1
      /\ stamps'[b][1] = stamps[b][1] /\ stamps'[b][2] = stamps[b][2]
      /\ \A a \in Buckets \ {b} : stamps'[a] = stamps[a]
      /\ contended \subseteq contended' /\ contended' \subseteq Callers
      /\ \A d \in Callers \ contended' : d # c => bucketOf[d] # b
  BY <1>0, RequestCounts
<1>2. /\ attempt[c] \in 1..3 /\ pause[c] = 0
      /\ attempt' \in [Callers -> 0..3] /\ pause' \in [Callers -> 0..2]
      /\ length' \in [Callers -> 0..3] /\ sent' \in [Callers -> 0..3]
      /\ gone' \in [Callers -> Endings]
      /\ \A d \in Callers \ {c} :
           /\ attempt'[d] = attempt[d] /\ pause'[d] = pause[d] /\ gone'[d] = gone[d]
           /\ length'[d] = length[d] /\ sent'[d] = sent[d]
  BY <1>0, RequestOutcomes
<1>3. \/ /\ attempt'[c] = attempt[c] /\ length'[c] = length[c] /\ pause'[c] = 0
         /\ sent'[c] = sent[c] + 1 /\ sent'[c] < length[c]
      \/ attempt'[c] = 0 /\ length'[c] = 0 /\ sent'[c] = 0
      \/ /\ attempt[c] <= 2 /\ attempt'[c] = attempt[c] + 1 /\ length'[c] = length[c]
         /\ sent'[c] = 0 /\ pause'[c] = 2
  BY <1>0, RequestOutcomes
<1>4. /\ stamps[b][0] \in Nat /\ stamps[b][1] \in Nat /\ stamps[b][2] \in Nat
      /\ length[c] \in 0..3 /\ sent[c] \in 0..3 /\ sent[c] < length[c]
  BY <1>0, <1>2, CallerTypes
<1>5. CallsTypeOK'
  <2>1. \A d \in Callers : IF attempt'[d] = 0 THEN sent'[d] = 0 ELSE sent'[d] < length'[d]
    <3>1. ASSUME NEW d \in Callers, d # c
          PROVE  IF attempt'[d] = 0 THEN sent'[d] = 0 ELSE sent'[d] < length'[d]
      BY <1>0, <1>2, <3>1 DEF CallsTypeOK
    <3>2. IF attempt'[c] = 0 THEN sent'[c] = 0 ELSE sent'[c] < length'[c]
      BY <1>2, <1>3, <1>4
    <3>. QED
      BY <3>1, <3>2
  <2>2. 0..3 = {0} \cup CallLengths
    BY DEF CallLengths
  <2>. QED
    BY <1>0, <1>1, <1>2, <2>1, <2>2 DEF CallsTypeOK, MaxAttempts, RetryDelay
<1>6. c \notin contended => LeftOf(attempt[c], 0, sent[c], length[c], stamps[b])
  BY <1>2, WindowCases DEF CallsInv, WindowOf
<1>7. c \notin contended => LeftOf(attempt'[c], pause'[c], sent'[c], length'[c], stamps'[b])
  <2>. HIDE DEF b
  <2>1. CASE /\ attempt'[c] = attempt[c] /\ length'[c] = length[c] /\ pause'[c] = 0
             /\ sent'[c] = sent[c] + 1
    BY <1>1, <1>2, <1>4, <1>6, <2>1 DEF LeftOf
  <2>2. CASE attempt'[c] = 0
    BY <2>2 DEF LeftOf
  <2>3. CASE /\ attempt[c] <= 2 /\ attempt'[c] = attempt[c] + 1 /\ length'[c] = length[c]
             /\ pause'[c] = 2
    BY <1>1, <1>2, <1>4, <1>6, <2>3 DEF LeftOf
  <2>. QED
    BY <1>3, <2>1, <2>2, <2>3
<1>8. ASSUME NEW d \in Callers \ contended' PROVE WindowOf(d)'
  <2>1. CASE d # c
    <3>1. WindowOf(d) /\ bucketOf[d] \in Buckets \ {b}
      BY <1>0, <1>1, <2>1, WindowCases, CallerTypes DEF CallsInv
    <3>2. /\ attempt'[d] = attempt[d] /\ pause'[d] = pause[d] /\ bucketOf'[d] = bucketOf[d]
          /\ length'[d] = length[d] /\ sent'[d] = sent[d]
          /\ stamps'[bucketOf[d]] = stamps[bucketOf[d]]
      BY <1>0, <1>1, <1>2, <2>1, <3>1
    <3>. QED
      BY <3>1, <3>2 DEF WindowOf
  <2>2. CASE d = c
    BY <1>0, <1>1, <1>7, <2>2 DEF WindowOf
  <2>. QED
    BY <2>1, <2>2
<1>9. WindowEmpties'
  BY <1>8 DEF WindowEmpties, WindowOf, LeftOf
<1>. QED
  BY <1>5, <1>9 DEF CallsInv

\* What is left in the window while a call is being retried: the inductive invariant,
\* for all callers, limits and lengths of calls.
THEOREM CallsInvariant == CallsSpec => []CallsInv
<1>1. CallsInit => CallsInv
  <2>1. SUFFICES ASSUME CallsInit PROVE CallsInv
    OBVIOUS
  <2>2. stamps \in [Buckets -> [Ages -> 0..MaxStamps]]
    BY <2>1, RateLimitAssumption DEF CallsInit, NoStamps
  <2>3. CallsTypeOK
    BY <2>1, <2>2 DEF CallsInit, CallsTypeOK, Endings, MaxAttempts, RetryDelay
  <2>4. \A c \in Callers : attempt[c] = 0
    BY <2>1 DEF CallsInit
  <2>5. WindowEmpties
    BY <2>4 DEF WindowEmpties
  <2>. QED
    BY <2>3, <2>5 DEF CallsInv
<1>2. CallsInv /\ [CallsNext]_callVars => CallsInv'
  <2>1. SUFFICES ASSUME CallsInv, [CallsNext]_callVars PROVE CallsInv'
    OBVIOUS
  <2>2. CASE SecondPasses
    BY <2>1, <2>2, SecondKeepsCalls
  <2>3. CASE \E c \in Callers : BeginCall(c) \/ Answered(c) \/ Throttled(c)
    BY <2>1, <2>3, BeginKeepsCalls, RequestKeepsCalls
  <2>4. CASE ResetBuckets
    <3>1. /\ stamps' = NoStamps
          /\ UNCHANGED <<bucketOf, limit, attempt, length, sent, pause, gone, contended>>
      BY <2>4 DEF ResetBuckets
    <3>2. stamps' \in [Buckets -> [Ages -> 0..MaxStamps]]
      BY <3>1, RateLimitAssumption DEF NoStamps
    <3>3. CallsTypeOK'
      BY <2>1, <3>1, <3>2 DEF CallsInv, CallsTypeOK
    <3>4. ASSUME NEW c \in Callers \ contended' PROVE WindowOf(c)'
      <4>1. bucketOf[c] \in Buckets /\ length[c] \in 0..3 /\ sent[c] \in 0..3
        BY <2>1, CallerTypes DEF CallsInv
      <4>2. \A a \in 0..2 : stamps'[bucketOf'[c]][a] = 0
        BY <3>1, <4>1 DEF NoStamps, Ages, WindowSeconds
      <4>. QED
        BY <3>1, <4>1, <4>2 DEF WindowOf, LeftOf
    <3>5. WindowEmpties'
      BY <3>4 DEF WindowEmpties, WindowOf, LeftOf
    <3>. QED
      BY <3>3, <3>5 DEF CallsInv
  <2>5. CASE UpdateLimit \/ UNCHANGED callVars
    <3>1. /\ UNCHANGED <<bucketOf, stamps, attempt, length, sent, pause, gone, contended>>
          /\ limit' \in Limits
      BY <2>1, <2>5 DEF UpdateLimit, callVars, CallsInv, CallsTypeOK
    <3>. QED
      BY <2>1, <3>1 DEF CallsInv, CallsTypeOK, WindowEmpties
  <2>. QED
    BY <2>1, <2>2, <2>3, <2>4, <2>5 DEF CallsNext
<1>. QED
  BY <1>1, <1>2, PTL DEF CallsSpec

\* It takes another process with the same key, or without one too, or a limit below
\* twice the requests of the call, to throttle a process to its end.
THEOREM NeverExhaustedAlone == CallsSpec => NoSelfExhaustion
<1>. DEFINE Exhausted(c) == gone[c] # "throttled" /\ gone'[c] = "throttled"
            Excused(c) == c \in contended' \/ LimitOf(bucketOf[c]) < 2 * length[c]
<1>1. CallsInv /\ [CallsNext]_callVars => [\A c \in Callers : Exhausted(c) => Excused(c)]_callVars
  <2>1. SUFFICES ASSUME CallsInv, CallsNext, NEW c \in Callers, Exhausted(c) PROVE Excused(c)
    OBVIOUS
  <2>2. PICK d \in Callers : Answered(d) \/ Throttled(d)
    BY <2>1 DEF CallsNext, SecondPasses, ResetBuckets, UpdateLimit, BeginCall
  <2>3. c = d
    BY <2>1, <2>2, RequestOutcomes DEF CallsInv
  <2>4. AskService(c) /\ ~Allowed(bucketOf[c]) /\ attempt[c] = 3
    BY <2>1, <2>2, <2>3, RequestOutcomes DEF CallsInv
  <2>. QED
    BY <2>1, <2>4, ThirdAttempt
<1>. QED
  BY <1>1, CallsInvariant, PTL DEF CallsSpec, NoSelfExhaustion

-----------------------------------------------------------------------------
(* One request in its slot.                                                *)

\* From 9 wei on a bump by 12 percent outbids, also in whole wei.
LEMMA BumpOutbids ==
  ASSUME NEW f \in Nat, f >= 9
  PROVE  Raised(f) \in Nat /\ Outbids(Raised(f), f)
<1>1. (f * 112) \div 100 \in Nat /\ (f * 112) \div 100 > f
  OBVIOUS
<1>2. (f * 112) \div 100 >= (f * 110) \div 100
  OBVIOUS
<1>. QED
  BY <1>1, <1>2 DEF Raised, Outbids

\* A bump keeps the order of fees.
LEMMA BumpKeepsOrder ==
  ASSUME NEW f \in Nat, NEW g \in Nat, f <= g
  PROVE  Raised(f) \in Nat /\ Raised(g) \in Nat /\ Raised(f) <= Raised(g)
BY DEF Raised

\* The positions in the slot as half seconds.
LEMMA SlotNumbers ==
  ASSUME NEW t \in 0 .. SlotTicks - 1
  PROVE  /\ SlotTicks = 24 /\ TwoSeconds = 4 /\ BoundaryThreshold * TicksPerSecond = 20
         /\ NearBoundary(t) <=> t >= 20
         /\ NearBoundary(t) => WaitTicks(t) \in 3..5 /\ t + WaitTicks(t) \in {25, 26}
         /\ WaitTicks(20) = 5
<1>1. SlotTicks = 24 /\ TwoSeconds = 4 /\ BoundaryThreshold * TicksPerSecond = 20
  BY DEF SlotTicks, SecondsPerSlot, TicksPerSecond, TwoSeconds, BoundaryThreshold
<1>2. t \in 0..23
  BY <1>1
<1>3. SecondInSlot(t) = t \div 2
  BY DEF SecondInSlot, TicksPerSecond
<1>4. NearBoundary(t) <=> t >= 20
  BY <1>2, <1>3 DEF NearBoundary, BoundaryThreshold
<1>5. WaitTicks(t) = (12 - (t \div 2)) * 2 + 1 /\ WaitTicks(20) = 5
  BY <1>3 DEF WaitTicks, SecondInSlot, SecondsPerSlot, TicksPerSecond, BufferTicks
<1>. QED
  BY <1>1, <1>2, <1>4, <1>5

\* A block changes the backlog, and the transaction if that is on its way.
LEMMA BlockEffect ==
  ASSUME SlotTypeOK, NEW n \in 0..MaxOthers, Block(n)
  PROVE  /\ backlog' \in 0..MaxBacklog
         /\ \/ /\ result \in {"accepted", "refused"} /\ phase' = "done" /\ skipped' = skipped
               /\ result' = IF fee >= Fee(backlog) THEN "mined" ELSE "reverted"
            \/ /\ phase' = phase /\ result' = result /\ skipped' \in BOOLEAN
               /\ result \in {"accepted", "refused"} => skipped'
               /\ result \notin {"accepted", "refused"} => skipped' = skipped
               /\ skipped => skipped'
<1>1. backlog' \in 0..MaxBacklog
  <2>1. backlog' = ExcessAfter(backlog, n, quota) /\ backlog' <= MaxBacklog
    BY DEF Block
  <2>2. backlog \in Nat /\ quota \in {1, 2} /\ n \in Nat /\ MaxBacklog \in Nat
    BY SlotWindowAssumption DEF SlotTypeOK
  <2>3. ExcessAfter(backlog, n, quota) \in Nat
    BY <2>2 DEF ExcessAfter
  <2>. QED
    BY <2>1, <2>2, <2>3
<1>2. CASE /\ result \in {"accepted", "refused"}
           /\ result' = IF fee >= Fee(backlog) THEN "mined" ELSE "reverted"
           /\ phase' = "done"
           /\ UNCHANGED skipped
  BY <1>1, <1>2
<1>3. CASE /\ skipped' = (skipped \/ result \in {"accepted", "refused"})
           /\ UNCHANGED <<result, phase>>
  <2>1. skipped \in BOOLEAN
    BY DEF SlotTypeOK
  <2>2. phase' = phase /\ result' = result
    BY <1>3
  <2>3. /\ skipped' \in BOOLEAN
        /\ result \in {"accepted", "refused"} => skipped'
        /\ result \notin {"accepted", "refused"} => skipped' = skipped
        /\ skipped => skipped'
    BY <1>3, <2>1, Zenon
  <2>. QED
    BY <1>1, <2>2, <2>3
<1>. QED
  BY <1>1, <1>2, <1>3 DEF Block

\* Half a second later the slot goes on or the next one has begun; before the
\* broadcast that changes nothing of the transaction.
LEMMA TimeEffect ==
  ASSUME SlotInv, TimePasses
  PROVE  /\ phase \in BeforeBroadcast /\ (phase = "wait" => wake > 0)
         /\ UNCHANGED <<skipped, result, phase, quota, postponed, hasty, fee, gas, known, draft, retry>>
         /\ backlog' \in 0..MaxBacklog /\ head' \in 0..MaxBacklog /\ delay' \in Delays
         /\ tick' >= delay' => head' = backlog'
         /\ \/ /\ tick < SlotTicks - 1 /\ tick' = tick + 1
               /\ backlog' = backlog /\ delay' = delay
            \/ tick = SlotTicks - 1 /\ tick' = 0
<1>0. /\ SlotTypeOK /\ phase \in BeforeBroadcast /\ (phase = "wait" => wake > 0)
      /\ UNCHANGED <<quota, postponed, hasty, fee, gas, known, draft, retry>>
      /\ Delays \subseteq Nat /\ delay \in Delays /\ tick \in Nat /\ backlog \in 0..MaxBacklog /\ head \in 0..MaxBacklog
      /\ SlotTicks = 24
  BY SlotWindowAssumption DEF SlotInv, TimePasses, BeforeBroadcast, SlotTypeOK, SlotTicks,
     SecondsPerSlot, TicksPerSecond
<1>1. result = "none" /\ ~skipped
  BY <1>0 DEF SlotInv, SentByPhase
<1>2. CASE TickInSlot
  BY <1>0, <1>2 DEF TickInSlot
<1>3. CASE SlotBoundary
  <2>1. backlog' \in 0..MaxBacklog /\ UNCHANGED <<skipped, result, phase>>
    <3>1. ASSUME NEW n \in 0..MaxOthers, Block(n)
          PROVE  backlog' \in 0..MaxBacklog /\ UNCHANGED <<skipped, result, phase>>
      BY <1>0, <1>1, <3>1, BlockEffect
    <3>2. CASE UNCHANGED <<backlog, skipped, result, phase>>
      BY <1>0, <3>2
    <3>. QED
      BY <1>3, <3>1, <3>2 DEF SlotBoundary
  <2>2. /\ tick = SlotTicks - 1 /\ tick' = 0 /\ delay' \in Delays
        /\ head' = backlog' \/ (delay' > 0 /\ head' = head)
    BY <1>3 DEF SlotBoundary
  <2>3. head' \in 0..MaxBacklog /\ (tick' >= delay' => head' = backlog')
    BY <1>0, <2>1, <2>2
  <2>. QED
    BY <1>0, <2>1, <2>2, <2>3
<1>. QED
  BY <1>0, <1>2, <1>3 DEF TimePasses

\* For two seconds after the test of the window no new slot begins.
LEMMA TimeKeepsSlot ==
  ASSUME SlotInv, TimePasses
  PROVE  SlotInv'
<1>0. /\ phase \in BeforeBroadcast /\ (phase = "wait" => wake > 0)
      /\ UNCHANGED <<skipped, result, phase, quota, postponed, hasty, fee, gas, known, draft, retry>>
      /\ backlog' \in 0..MaxBacklog /\ head' \in 0..MaxBacklog /\ delay' \in Delays
      /\ tick' >= delay' => head' = backlog'
      /\ \/ /\ tick < SlotTicks - 1 /\ tick' = tick + 1
            /\ backlog' = backlog /\ delay' = delay
         \/ tick = SlotTicks - 1 /\ tick' = 0
  BY TimeEffect
<1>1. /\ SlotTypeOK /\ tick \in 0..23 /\ SlotTicks = 24 /\ TwoSeconds = 4
      /\ BoundaryThreshold * TicksPerSecond = 20 /\ WaitTicks(20) = 5
      /\ since \in 0..5 /\ wake \in 0..5 /\ BufferTicks = 1
  <2>1. SlotTypeOK /\ tick \in 0 .. SlotTicks - 1
    BY DEF SlotInv, SlotTypeOK
  <2>2. /\ SlotTicks = 24 /\ TwoSeconds = 4 /\ BoundaryThreshold * TicksPerSecond = 20
        /\ WaitTicks(20) = 5
    BY <2>1, SlotNumbers
  <2>. QED
    BY <2>1, <2>2 DEF SlotTypeOK, BufferTicks
<1>2. /\ wake' = (IF phase = "wait" THEN wake - 1 ELSE wake)
      /\ since' = IF phase \in {"read", "prompt"} /\ since <= 4 THEN since + 1 ELSE since
  BY <1>1 DEF TimePasses
<1>3. tick' \in 0..23 /\ wake' \in 0..5 /\ since' \in 0..5
  BY <1>0, <1>1, <1>2
<1>4. SlotTypeOK'
  <2>1. tick' \in 0 .. SlotTicks - 1 /\ since' \in 0 .. TwoSeconds + 1
        /\ wake' \in 0 .. WaitTicks(BoundaryThreshold * TicksPerSecond)
    BY <1>1, <1>3
  <2>. QED
    BY <1>0, <1>1, <2>1 DEF SlotTypeOK
<1>5. SentByPhase'
  BY <1>0, <1>2 DEF SlotInv, SentByPhase, BeforeBroadcast
<1>6. NodeHasBlock'
  BY <1>0 DEF NodeHasBlock
<1>7. WaitLeadsToNextSlot'
  <2>1. phase = "wait" => tick + wake \in {1, 2} \/ (tick >= 20 /\ tick + wake \in {25, 26})
    BY <1>1 DEF SlotInv, WaitLeadsToNextSlot
  <2>2. phase = "wait" => tick' + wake' \in {1, 2} \/ (tick' >= 20 /\ tick' + wake' \in {25, 26})
    BY <1>0, <1>1, <1>2, <2>1
  <2>. QED
    BY <1>0, <1>1, <2>2 DEF WaitLeadsToNextSlot
<1>8. phase \in {"read", "prompt"} /\ since' <= 4 =>
        /\ tick < 20 + since /\ (postponed => tick >= 1)
        /\ since' = since + 1 /\ since <= 4 /\ tick < 23 /\ tick' = tick + 1
        /\ backlog' = backlog /\ delay' = delay
  BY <1>0, <1>1, <1>2 DEF SlotInv, StillInSlot, Quick
<1>9. StillInSlot'
  <2>1. phase \in {"read", "prompt"} /\ since' <= 4 => tick' < 20 + since' /\ (postponed => tick' >= 1)
    BY <1>1, <1>8
  <2>. QED
    BY <1>0, <1>1, <2>1 DEF StillInSlot, Quick
<1>10. FeeOfNextBlock' /\ LateBlock'
  <2>1. hasty => phase \notin {"test", "wait", "read"}
    BY DEF SlotInv, SentByPhase
  <2>. QED
    BY <1>0, <1>1, <1>8, <2>1 DEF SlotInv, FeeOfNextBlock, LateBlock, Quick, BeforeBroadcast
<1>11. FeesInOrder' /\ RefusedOnlyIfTiny'
  BY <1>0 DEF SlotInv, FeesInOrder, RefusedOnlyIfTiny
<1>. QED
  BY <1>4, <1>5, <1>6, <1>7, <1>9, <1>10, <1>11 DEF SlotInv

\* A block includes the transaction, or leaves it in the mempool for another round.
LEMMA BlockKeepsSlot ==
  ASSUME SlotInv, NextBlock
  PROVE  SlotInv'
<1>0. /\ SlotTypeOK /\ phase \in {"pool", "reprompt", "untracked"} /\ head' = backlog' /\ tick' = 0
      /\ UNCHANGED <<quota, delay, since, wake, postponed, hasty, fee, gas, known, draft, retry>>
      /\ result \in {"accepted", "refused"}
  BY DEF SlotInv, NextBlock, SentByPhase
<1>1. /\ backlog' \in 0..MaxBacklog
      /\ \/ /\ phase' = "done" /\ skipped' = skipped
            /\ result' = IF fee >= Fee(backlog) THEN "mined" ELSE "reverted"
         \/ /\ phase' = phase /\ result' = result /\ skipped' \in BOOLEAN /\ skipped'
  BY <1>0, BlockEffect DEF NextBlock
<1>2. SlotTypeOK'
  <2>1. 0 \in 0 .. SlotTicks - 1
    BY DEF SlotTicks, SecondsPerSlot, TicksPerSecond
  <2>2. phase' \in Phases /\ result' \in Results /\ skipped' \in BOOLEAN
    BY <1>0, <1>1 DEF SlotTypeOK, Phases, Results
  <2>. QED
    BY <1>0, <1>1, <2>1, <2>2 DEF SlotTypeOK
<1>3. SentByPhase'
  BY <1>0, <1>1 DEF SlotInv, SentByPhase, BeforeBroadcast
<1>4. NodeHasBlock' /\ WaitLeadsToNextSlot' /\ StillInSlot'
  BY <1>0, <1>1 DEF NodeHasBlock, WaitLeadsToNextSlot, StillInSlot
<1>5. FeeOfNextBlock' /\ LateBlock' /\ FeesInOrder'
  BY <1>0, <1>1 DEF SlotInv, FeeOfNextBlock, LateBlock, Quick, FeesInOrder
<1>6. RefusedOnlyIfTiny'
  BY <1>0, <1>1 DEF SlotInv, RefusedOnlyIfTiny
<1>. QED
  BY <1>2, <1>3, <1>4, <1>5, <1>6 DEF SlotInv

\* The test of the window leads to the reading of the fee within the same slot, at
\* once or in the next one, past the buffer.
LEMMA WindowKeepsSlot ==
  ASSUME SlotInv, TestWindow \/ WindowReached
  PROVE  SlotInv'
<1>0. /\ SlotTypeOK /\ phase \in {"test", "wait"} /\ since = 0 /\ result = "none" /\ retry = 0
      /\ ~skipped /\ ~hasty
      /\ UNCHANGED <<clockVars, chainVars, hasty, fee, gas, known, draft, retry, result>>
      /\ phase' \in {"wait", "read"}
  BY DEF SlotInv, SentByPhase, BeforeBroadcast, TestWindow, WindowReached
<1>1. UNCHANGED <<tick, since, backlog, quota, head, delay, skipped>>
  BY <1>0 DEF clockVars, chainVars
<1>2. /\ tick \in 0..23 /\ SlotTicks = 24 /\ TwoSeconds = 4 /\ wake \in 0..5
      /\ BoundaryThreshold * TicksPerSecond = 20 /\ WaitTicks(20) = 5
      /\ NearBoundary(tick) <=> tick >= 20
      /\ NearBoundary(tick) => WaitTicks(tick) \in 3..5 /\ tick + WaitTicks(tick) \in {25, 26}
      /\ BufferTicks = 1
  BY <1>0, SlotNumbers DEF SlotTypeOK, BufferTicks
<1>3. /\ wake' \in 0..5 /\ postponed' \in BOOLEAN
      /\ phase' = "wait" => tick >= 20 /\ tick + wake' \in {25, 26}
      /\ phase' = "read" => tick < 20 /\ (postponed' => tick >= 1)
  <2>1. CASE TestWindow /\ NearBoundary(tick)
    BY <1>0, <1>2, <2>1 DEF TestWindow
  <2>2. CASE TestWindow /\ ~NearBoundary(tick)
    <3>1. phase' = "read" /\ wake' = wake /\ tick < 20 /\ postponed' = postponed /\ ~postponed
      BY <1>2, <2>2 DEF TestWindow, SlotInv, SentByPhase
    <3>. QED
      BY <1>0, <1>2, <3>1 DEF SlotTypeOK
  <2>3. CASE WindowReached
    <3>1. phase = "wait" /\ wake = 0 /\ phase' = "read" /\ wake' = wake /\ postponed' = postponed
      BY <2>3 DEF WindowReached
    <3>2. tick \in {1, 2}
      BY <1>2, <3>1 DEF SlotInv, WaitLeadsToNextSlot
    <3>. QED
      BY <1>0, <1>2, <3>1, <3>2 DEF SlotTypeOK
  <2>. QED
    BY <2>1, <2>2, <2>3
<1>4. SlotTypeOK'
  <2>1. wake' \in 0 .. WaitTicks(BoundaryThreshold * TicksPerSecond) /\ phase' \in Phases
    BY <1>0, <1>2, <1>3 DEF Phases
  <2>. QED
    BY <1>0, <1>1, <1>3, <2>1 DEF SlotTypeOK
<1>5. SentByPhase'
  BY <1>0, <1>1 DEF SentByPhase, BeforeBroadcast
<1>6. NodeHasBlock' /\ WaitLeadsToNextSlot' /\ StillInSlot'
  <2>1. NodeHasBlock'
    BY <1>1 DEF SlotInv, NodeHasBlock
  <2>2. WaitLeadsToNextSlot'
    <3>1. tick' = tick /\ SlotTicks + 1 = 25 /\ SlotTicks + 2 = 26
      BY <1>1, <1>2
    <3>2. phase' = "wait" => tick' >= 20 /\ tick' + wake' \in {25, 26}
      BY <1>3, <3>1
    <3>. QED
      BY <1>2, <3>1, <3>2 DEF WaitLeadsToNextSlot
  <2>3. StillInSlot'
    BY <1>0, <1>1, <1>2, <1>3 DEF StillInSlot, Quick
  <2>. QED
    BY <2>1, <2>2, <2>3
<1>7. FeeOfNextBlock' /\ LateBlock' /\ FeesInOrder' /\ RefusedOnlyIfTiny'
  BY <1>0, <1>1 DEF SlotInv, FeeOfNextBlock, LateBlock, FeesInOrder, RefusedOnlyIfTiny
<1>. QED
  BY <1>4, <1>5, <1>6, <1>7 DEF SlotInv

\* The fee that is read from a node that has the slot's block is the one the next block
\* asks for.
LEMMA ReadKeepsSlot ==
  ASSUME SlotInv, ReadFee \/ Broadcast
  PROVE  SlotInv'
<1>0. /\ SlotTypeOK /\ phase \in {"read", "prompt"} /\ result = "none" /\ retry = 0 /\ ~skipped
      /\ UNCHANGED <<clockVars, chainVars, wake, postponed, draft, retry>>
  BY DEF SlotInv, SentByPhase, BeforeBroadcast, ReadFee, Broadcast
<1>1. UNCHANGED <<tick, since, backlog, quota, head, delay, skipped>>
  BY <1>0 DEF clockVars, chainVars
<1>2. NodeHasBlock' /\ WaitLeadsToNextSlot' /\ (phase' \in {"prompt", "pool", "untracked", "done"})
  BY <1>0, <1>1 DEF SlotInv, NodeHasBlock, WaitLeadsToNextSlot, ReadFee, Broadcast
<1>3. /\ gas' \in [max : Nat, tip : Nat] /\ gas'.tip <= gas'.max
      /\ known' \in [max : Nat, tip : Nat] /\ known'.tip <= known'.max
  BY <1>0, SlotWindowAssumption DEF SlotInv, FeesInOrder, SlotTypeOK, ReadFee, Broadcast
<1>4. CASE phase' = "done" /\ result' = "failed" /\ UNCHANGED <<fee, hasty>>
  <2>1. SlotTypeOK'
    BY <1>0, <1>1, <1>3, <1>4 DEF SlotTypeOK, Phases, Results
  <2>. QED
    BY <1>0, <1>1, <1>2, <1>3, <1>4, <2>1 DEF SlotInv, SentByPhase, BeforeBroadcast, StillInSlot,
       LateBlock, Quick, FeeOfNextBlock, FeesInOrder, RefusedOnlyIfTiny
<1>5. CASE ReadFee /\ fee' = Fee(head) /\ hasty' = (tick < delay) /\ phase' = "prompt" /\ UNCHANGED result
  <2>1. fee' \in ContractFees
    BY <1>0, <1>5 DEF SlotTypeOK, ContractFees
  <2>2. hasty' \in BOOLEAN /\ tick \in Int /\ delay \in Int
    BY <1>0, <1>5, SlotWindowAssumption DEF SlotTypeOK
  <2>3. SlotTypeOK'
    BY <1>0, <1>1, <1>3, <1>5, <2>1, <2>2 DEF SlotTypeOK, Phases
  <2>4. phase = "read"
    BY <1>5 DEF ReadFee
  <2>5. StillInSlot'
    BY <1>0, <1>1, <1>5 DEF SlotInv, StillInSlot, Quick
  <2>6. FeeOfNextBlock'
    <3>1. ~hasty' => tick >= delay
      <4>1. CASE tick < delay
        BY <1>5, <4>1, Zenon
      <4>2. CASE ~(tick < delay)
        BY <2>2, <4>2
      <4>. QED
        BY <4>1, <4>2
    <3>2. ~hasty' => head = backlog
      BY <3>1 DEF SlotInv, NodeHasBlock
    <3>. QED
      BY <1>0, <1>1, <1>5, <3>2 DEF FeeOfNextBlock
  <2>7. LateBlock'
    <3>1. postponed /\ Quick => tick >= BufferTicks
      BY <2>4 DEF SlotInv, StillInSlot
    <3>2. hasty' => tick < delay
      BY <1>5
    <3>. QED
      BY <1>0, <1>1, <2>2, <3>1, <3>2 DEF LateBlock, Quick, BufferTicks
  <2>. QED
    BY <1>0, <1>1, <1>2, <1>3, <1>5, <2>3, <2>5, <2>6, <2>7 DEF SlotInv, SentByPhase, BeforeBroadcast,
       FeesInOrder, RefusedOnlyIfTiny
<1>6. CASE phase = "prompt" /\ phase' \in {"pool", "untracked"} /\ result' = "accepted" /\ UNCHANGED <<fee, hasty>>
  <2>1. SlotTypeOK'
    BY <1>0, <1>1, <1>3, <1>6 DEF SlotTypeOK, Phases, Results
  <2>2. FeeOfNextBlock' /\ LateBlock'
    BY <1>0, <1>1, <1>6 DEF SlotInv, FeeOfNextBlock, LateBlock, Quick
  <2>. QED
    BY <1>0, <1>1, <1>2, <1>3, <1>6, <2>1, <2>2 DEF SlotInv, SentByPhase, BeforeBroadcast,
       StillInSlot, FeesInOrder, RefusedOnlyIfTiny
<1>. QED
  BY <1>4, <1>5, <1>6 DEF ReadFee, Broadcast

\* The replacement has the bumped fees of the response the tool has.
LEMMA BeginReplacementKeepsSlot ==
  ASSUME SlotInv, BeginReplacement
  PROVE  SlotInv'
<1>0. /\ SlotTypeOK /\ phase = "pool" /\ retry \in 0..MaxRetries /\ retry < MaxRetries
      /\ retry' = retry + 1
      /\ UNCHANGED <<clockVars, chainVars, wake, postponed, hasty, fee, gas, known, result>>
      /\ result \in {"accepted", "refused"}
  BY DEF SlotInv, SlotTypeOK, SentByPhase, BeginReplacement, RetriesLeft
<1>1. UNCHANGED <<tick, since, backlog, quota, head, delay, skipped>>
  BY <1>0 DEF clockVars, chainVars
<1>2. retry' \in 0..MaxRetries /\ retry' > 0
  BY <1>0, SlotWindowAssumption
<1>3. /\ draft' \in [fee : ContractFees, gas : [max : Nat, tip : Nat]]
      /\ phase' \in {"pool", "reprompt"}
      /\ phase' = "reprompt" => /\ known.max > 0 => draft'.gas.max = Raised(known.max)
                                /\ known.tip > 0 => draft'.gas.tip = Raised(known.tip)
  <2>1. CASE UNCHANGED <<draft, phase>>
    BY <1>0, <2>1 DEF SlotTypeOK
  <2>2. ASSUME NEW network \in NetworkFees, draft' = [fee |-> Fee(head), gas |-> Increased(known, network)]
        PROVE  /\ draft' \in [fee : ContractFees, gas : [max : Nat, tip : Nat]]
               /\ known.max > 0 => draft'.gas.max = Raised(known.max)
               /\ known.tip > 0 => draft'.gas.tip = Raised(known.tip)
    <3>1. network \in [max : Nat, tip : Nat] /\ known \in [max : Nat, tip : Nat]
      BY <1>0, SlotWindowAssumption DEF SlotTypeOK
    <3>2. \A f \in Nat, g \in Nat : /\ Bumped(f, g) \in Nat
                                    /\ f > 0 => Bumped(f, g) = Raised(f)
      BY DEF Bumped, Raised
    <3>3. /\ Increased(known, network) \in [max : Nat, tip : Nat]
          /\ Increased(known, network).max = Bumped(known.max, network.max)
          /\ Increased(known, network).tip = Bumped(known.tip, network.tip)
      BY <3>1, <3>2 DEF Increased
    <3>4. Fee(head) \in ContractFees
      BY <1>0 DEF SlotTypeOK, ContractFees
    <3>. QED
      BY <2>2, <3>1, <3>2, <3>3, <3>4
  <2>. QED
    BY <1>0, <2>1, <2>2 DEF BeginReplacement
<1>4. SlotTypeOK'
  BY <1>0, <1>1, <1>2, <1>3 DEF SlotTypeOK, Phases
<1>5. SentByPhase' /\ FeesInOrder' /\ FeeOfNextBlock' /\ LateBlock'
  BY <1>0, <1>1, <1>2, <1>3 DEF SlotInv, SentByPhase, BeforeBroadcast, FeesInOrder, FeeOfNextBlock,
     LateBlock, Quick
<1>6. NodeHasBlock' /\ WaitLeadsToNextSlot' /\ StillInSlot'
  BY <1>0, <1>1, <1>3 DEF SlotInv, NodeHasBlock, WaitLeadsToNextSlot, StillInSlot
<1>7. RefusedOnlyIfTiny'
  BY <1>0, <1>1 DEF SlotInv, RefusedOnlyIfTiny
<1>. QED
  BY <1>4, <1>5, <1>6, <1>7 DEF SlotInv

\* A node refuses it only if 12 percent of a fee are less than a wei, or if the tool does
\* not know what the node has.
LEMMA ReplaceKeepsSlot ==
  ASSUME SlotInv, Replace
  PROVE  SlotInv'
<1>0. /\ SlotTypeOK /\ phase = "reprompt" /\ retry > 0 /\ draft' = NoDraft
      /\ UNCHANGED <<clockVars, chainVars, wake, postponed, hasty, retry>>
      /\ result \in {"accepted", "refused"} /\ phase' \in {"pool", "untracked"}
  BY DEF SlotInv, SentByPhase, Replace
<1>1. UNCHANGED <<tick, since, backlog, quota, head, delay, skipped>>
  BY <1>0 DEF clockVars, chainVars
<1>2. /\ gas \in [max : Nat, tip : Nat] /\ known \in [max : Nat, tip : Nat]
      /\ draft \in [fee : ContractFees, gas : [max : Nat, tip : Nat]]
      /\ known.max \in Nat /\ known.tip \in Nat /\ known.tip <= known.max /\ gas.tip <= gas.max
      /\ draft' \in [fee : ContractFees, gas : [max : Nat, tip : Nat]]
      /\ retry \in Nat /\ MaxRetries \in Nat
  BY <1>0, SlotWindowAssumption DEF SlotInv, SlotTypeOK, FeesInOrder, NoDraft, NoFees, ContractFees
<1>3. /\ fee' \in ContractFees /\ gas' \in [max : Nat, tip : Nat] /\ gas'.tip <= gas'.max
      /\ known' \in [max : Nat, tip : Nat] /\ known'.tip <= known'.max
      /\ result' \in {"accepted", "refused"}
      /\ result' = "refused" => gas'.max < 9 \/ gas'.tip < 9 \/ known' # gas'
  <2>1. CASE /\ NodeAccepts(draft.gas, gas) /\ fee' = draft.fee /\ gas' = draft.gas
             /\ known' \in {draft.gas, known} /\ result' = "accepted"
    BY <1>2, <2>1 DEF NodeAccepts
  <2>2. CASE ~NodeAccepts(draft.gas, gas) /\ result' = "refused" /\ UNCHANGED <<fee, gas, known>>
    <3>1. ASSUME gas.max >= 9, gas.tip >= 9, known = gas PROVE FALSE
      <4>1. draft.gas.max = Raised(gas.max) /\ draft.gas.tip = Raised(gas.tip)
        BY <1>0, <1>2, <3>1 DEF SlotInv, FeesInOrder
      <4>2. Outbids(Raised(gas.max), gas.max) /\ Outbids(Raised(gas.tip), gas.tip)
        BY <1>2, <3>1, BumpOutbids
      <4>3. Raised(gas.tip) <= Raised(gas.max)
        BY <1>2, <3>1, BumpKeepsOrder
      <4>. QED
        BY <2>2, <4>1, <4>2, <4>3 DEF NodeAccepts
    <3>2. fee' \in ContractFees
      BY <1>0, <2>2 DEF SlotTypeOK
    <3>. QED
      BY <1>2, <2>2, <3>1, <3>2
  <2>3. CASE UNCHANGED <<fee, gas, known, result>>
    BY <1>0, <1>2, <2>3 DEF SlotInv, SlotTypeOK, RefusedOnlyIfTiny
  <2>. QED
    BY <2>1, <2>2, <2>3 DEF Replace
<1>4. SlotTypeOK'
  BY <1>0, <1>1, <1>2, <1>3 DEF SlotTypeOK, Phases, Results
<1>5. SentByPhase' /\ FeesInOrder' /\ FeeOfNextBlock' /\ LateBlock'
  BY <1>0, <1>1, <1>2, <1>3 DEF SlotInv, SentByPhase, BeforeBroadcast, FeesInOrder, FeeOfNextBlock,
     LateBlock, Quick
<1>6. NodeHasBlock' /\ WaitLeadsToNextSlot' /\ StillInSlot'
  BY <1>0, <1>1 DEF SlotInv, NodeHasBlock, WaitLeadsToNextSlot, StillInSlot
<1>7. RefusedOnlyIfTiny'
  BY <1>3 DEF RefusedOnlyIfTiny
<1>. QED
  BY <1>4, <1>5, <1>6, <1>7 DEF SlotInv

\* The inductive invariant of a request in its slot, for all delays of the node:
\* positions in the slot, the fee of the next block, fees of replacements.
THEOREM SlotInvariant == SlotSpec => []SlotInv
<1>1. SlotInit => SlotInv
  <2>1. SUFFICES ASSUME SlotInit PROVE SlotInv
    OBVIOUS
  <2>2. tick \in 0 .. SlotTicks - 1 /\ 0 \in 0 .. TwoSeconds + 1
    BY <2>1 DEF SlotInit, TwoSeconds, SlotTicks, SecondsPerSlot, TicksPerSecond
  <2>3. 0 \in 0 .. WaitTicks(BoundaryThreshold * TicksPerSecond)
    BY DEF WaitTicks, BoundaryThreshold, TicksPerSecond, SecondInSlot, SecondsPerSlot, BufferTicks
  <2>4. SlotTypeOK
    <3>1. NoFees \in [max : Nat, tip : Nat] /\ NoDraft \in [fee : ContractFees, gas : [max : Nat, tip : Nat]]
      BY DEF NoFees, NoDraft, ContractFees
    <3>2. 0 \in 0..MaxRetries /\ 0 \in ContractFees /\ "test" \in Phases /\ "none" \in Results
      BY SlotWindowAssumption DEF Phases, Results, ContractFees
    <3>3. backlog \in 0..MaxBacklog /\ head \in 0..MaxBacklog /\ quota \in {1, 2} /\ delay \in Delays
      BY <2>1 DEF SlotInit
    <3>. QED
      BY <2>1, <2>2, <2>3, <3>1, <3>2, <3>3 DEF SlotInit, SlotTypeOK
  <2>5. NodeHasBlock
    BY <2>1, <2>4, SlotWindowAssumption DEF SlotInit, SlotTypeOK, NodeHasBlock
  <2>. QED
    BY <2>1, <2>4, <2>5 DEF SlotInit, SlotInv, SentByPhase, BeforeBroadcast,
       WaitLeadsToNextSlot, StillInSlot, LateBlock, FeeOfNextBlock, FeesInOrder, NoFees, RefusedOnlyIfTiny
<1>2. SlotInv /\ [SlotNext]_slotVars => SlotInv'
  <2>1. SUFFICES ASSUME SlotInv, [SlotNext]_slotVars PROVE SlotInv'
    OBVIOUS
  <2>2. CASE UNCHANGED slotVars
    <3>1. UNCHANGED <<backlog, quota, head, delay, tick, phase, wake, since, postponed, hasty, skipped,
                      fee, gas, known, draft, retry, result>>
      BY <2>2 DEF slotVars, clockVars, requestVars, chainVars
    <3>. QED
      BY <2>1, <3>1 DEF SlotInv, SlotTypeOK, SentByPhase, BeforeBroadcast, NodeHasBlock,
         WaitLeadsToNextSlot, StillInSlot, LateBlock, Quick, FeeOfNextBlock, FeesInOrder,
         RefusedOnlyIfTiny
  <2>. QED
    BY <2>1, <2>2, TimeKeepsSlot, BlockKeepsSlot, WindowKeepsSlot, ReadKeepsSlot,
       BeginReplacementKeepsSlot, ReplaceKeepsSlot DEF SlotNext
<1>. QED
  BY <1>1, <1>2, PTL DEF SlotSpec

\* A replacement with the 12 percent bump is refused as underpriced only for fees below
\* 9 wei, or when the reply to an earlier replacement was lost.
THEOREM BumpIsEnough == SlotSpec => []RefusedOnlyIfTiny
<1>1. SlotInv => RefusedOnlyIfTiny
  BY DEF SlotInv
<1>. QED
  BY <1>1, SlotInvariant, PTL

\* Only a block decides about a request, and one that comes while the test of the window
\* holds asks for the fee that was read.
LEMMA QuickFeeStep ==
  ASSUME SlotInv, QuickFeeSuffices, [SlotNext]_slotVars
  PROVE  QuickFeeSuffices'
<1>1. SUFFICES ASSUME result' = "reverted", ~QuickFeeSuffices' PROVE FALSE
  BY DEF QuickFeeSuffices
<1>2. CASE UNCHANGED slotVars
  BY <1>1, <1>2 DEF slotVars, clockVars, requestVars, chainVars, QuickFeeSuffices
<1>3. CASE TimePasses
  <2>1. result' = "none"
    BY <1>3, TimeEffect DEF SlotInv, SentByPhase
  <2>. QED
    BY <1>1, <2>1
<1>4. CASE TestWindow \/ WindowReached \/ ReadFee \/ Broadcast
  <2>1. result = "none"
    BY <1>4 DEF SlotInv, SentByPhase, BeforeBroadcast, TestWindow, WindowReached, ReadFee, Broadcast
  <2>. QED
    BY <1>1, <1>4, <2>1 DEF TestWindow, WindowReached, ReadFee, Broadcast
<1>5. CASE BeginReplacement \/ Replace
  <2>1. result \in {"accepted", "refused"}
    BY <1>5 DEF SlotInv, SentByPhase, BeginReplacement, Replace
  <2>. QED
    BY <1>1, <1>5, <2>1 DEF BeginReplacement, Replace
<1>6. CASE NextBlock
  <2>1. /\ SlotTypeOK /\ phase \in {"pool", "reprompt", "untracked"} /\ result \in {"accepted", "refused"}
        /\ UNCHANGED <<since, delay, postponed, hasty, fee, retry>>
        /\ TwoSeconds \in Int /\ since \in Int
    BY <1>6 DEF SlotInv, NextBlock, SentByPhase, SlotTypeOK, TwoSeconds, TicksPerSecond
  <2>2. skipped' = skipped /\ ~(fee >= Fee(backlog))
    BY <1>1, <1>6, <2>1, BlockEffect DEF NextBlock
  <2>3. /\ retry = 0 /\ since <= TwoSeconds /\ ~skipped
        /\ hasty => postponed /\ ~(delay > BufferTicks)
    BY <1>1, <2>1, <2>2 DEF QuickFeeSuffices
  <2>4. phase \in {"pool", "untracked"} /\ ~hasty
    BY <2>1, <2>3 DEF SlotInv, SentByPhase, LateBlock, Quick
  <2>5. fee = Fee(backlog)
    BY <2>3, <2>4 DEF SlotInv, FeeOfNextBlock, Quick
  <2>6. Fee(backlog) \in Nat
    BY <2>1, FeeType DEF SlotTypeOK
  <2>. QED
    BY <2>2, <2>5, <2>6
<1>. QED
  BY <1>2, <1>3, <1>4, <1>5, <1>6 DEF SlotNext

\* A request confirmed within two seconds of the window test and included in the next
\* block pays what the contract asks for, whatever others request in the meantime, unless
\* the fee was read before the node had the slot's block.
THEOREM QuickFeeIsEnough == SlotSpec => []QuickFeeSuffices
<1>1. SlotInit => QuickFeeSuffices
  BY DEF SlotInit, QuickFeeSuffices
<1>2. SlotInv /\ QuickFeeSuffices /\ [SlotNext]_slotVars => QuickFeeSuffices'
  BY QuickFeeStep
<1>. QED
  BY <1>1, <1>2, SlotInvariant, PTL DEF SlotSpec
=============================================================================
