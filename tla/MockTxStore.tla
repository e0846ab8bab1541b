---------------------------- MODULE MockTxStore ----------------------------
(***************************************************************************)
(* The store of the mock transaction service, one request handler per      *)
(* client.  Proposals and listings await the state of the Safe, and in     *)
(* between other handlers, the admin routes and the chain go on.           *)
(***************************************************************************)
EXTENDS Integers

CONSTANTS
  Clients,      \* owners, each with one request at a time
  Hashes,       \* safeTxHash of the transactions they propose
  NonceOf,      \* the nonce each of them is built for
  MaxNonce,     \* bound: the nonce of the Safe
  MaxFailAfter  \* bound: the count of injected failures

ASSUME MockTxStoreAssumption ==
  /\ MaxNonce \in Nat /\ MaxFailAfter \in Nat
  /\ NonceOf \in [Hashes -> Nat]

VARIABLES
  transactions,  \* the store: the record of each hash
  cachedNonce,   \* nonce in the cached SafeInfoRecord
  failAfter,     \* failAfterCount
  hidden,        \* hidePending
  handling,      \* per client, the request whose handler awaits the chain
  safeNonce,     \* external: nonce of the Safe contract
  acked,         \* history: signatures the service has confirmed to a client
  raced          \* history: hashes two handlers were storing at once

storeVars ==
  <<transactions, cachedNonce, failAfter, hidden, handling, safeNonce, acked, raced>>

NotLoaded == -1
Undefined == -1
Absent == [stored |-> FALSE, isExecuted |-> FALSE, owners |-> {}]
Idle == [op |-> "idle"]
Requests == {Idle} \cup [op : {"list"}, since : 0..MaxNonce, cold : BOOLEAN]
              \cup [op : {"propose"}, tx : Hashes, since : 0..MaxNonce, cold : BOOLEAN]

StoreInit ==
  /\ transactions = [h \in Hashes |-> Absent]
  /\ cachedNonce = NotLoaded /\ safeNonce = 0
  /\ failAfter = Undefined /\ hidden = FALSE
  /\ handling = [c \in Clients |-> Idle]
  /\ acked = {} /\ raced = {}

-----------------------------------------------------------------------------
(* Helpers of the store.                                                   *)

\* Slips: how a small mistake in the code below would read.  They are here to
\* measure the properties; no specification uses them.
NeverFound(h) == FALSE
AlsoCurrent(h, n) == NonceOf[h] <= n
CountedBelowZero(n) == n - 1

HasTransaction(h) == transactions[h].stored
BeforeNonce(h, n) == NonceOf[h] < n

\* The failure counter after a proposal that was stored.
CountDown(n) == IF n = Undefined THEN Undefined ELSE n - 1

\* getSafeInfo asks the node, for a Safe in the cache or for one that is not.
Cold == cachedNonce = NotLoaded

\* loadSafeFromChain, refreshOnChainState: a nonce the Safe had while the request
\* waited.  Without an answer it is the cached one, or null when there was none.
SafeInfo(c) ==
  {[seen |-> n, cached |-> n] : n \in handling[c].since .. safeNonce}
    \cup {[seen |-> IF handling[c].cold THEN NotLoaded ELSE cachedNonce,
           cached |-> cachedNonce]}

-----------------------------------------------------------------------------
(* The handlers.                                                           *)

\* handleProposeTransaction up to its await; a hash in the store is answered as
\* a duplicate and changes nothing.
BeginProposal(c, h) ==
  /\ handling[c] = Idle /\ ~HasTransaction(h)
  /\ handling' = [handling EXCEPT ![c] =
                   [op |-> "propose", tx |-> h, since |-> safeNonce, cold |-> Cold]]
  /\ raced' = IF \E d \in Clients : handling[d].op = "propose" /\ handling[d].tx = h
              THEN raced \cup {h} ELSE raced
  /\ UNCHANGED <<transactions, cachedNonce, failAfter, hidden, safeNonce, acked>>

\* ... and after it: no Safe, an injected failure, or the record is set.
EndProposal(c) ==
  LET h == handling[c].tx
  IN /\ handling[c].op = "propose"
     /\ handling' = [handling EXCEPT ![c] = Idle]
     /\ \E info \in SafeInfo(c) :
          /\ cachedNonce' = info.cached
          /\ \/ /\ info.seen = NotLoaded \/ failAfter = 0
                /\ UNCHANGED <<transactions, failAfter, acked>>
             \/ /\ info.seen # NotLoaded /\ failAfter # 0
                /\ transactions' = [transactions EXCEPT ![h] =
                     [stored |-> TRUE, isExecuted |-> FALSE, owners |-> {c}]]
                /\ failAfter' = CountDown(failAfter)
                /\ acked' = acked \cup {<<c, h>>}
     /\ UNCHANGED <<hidden, safeNonce, raced>>

\* handleAddConfirmation, addConfirmation: a second signature of an owner is
\* turned away.
AddConfirmation(c, h) ==
  /\ handling[c] = Idle /\ HasTransaction(h)
  /\ c \notin transactions[h].owners
  /\ transactions' = [transactions EXCEPT ![h].owners = @ \cup {c}]
  /\ acked' = acked \cup {<<c, h>>}
  /\ UNCHANGED <<cachedNonce, failAfter, hidden, handling, safeNonce, raced>>

\* getPendingTransactions: nothing is read while the pending ones are hidden.
BeginListing(c) ==
  /\ handling[c] = Idle /\ ~hidden
  /\ handling' = [handling EXCEPT ![c] = [op |-> "list", since |-> safeNonce, cold |-> Cold]]
  /\ UNCHANGED <<transactions, cachedNonce, failAfter, hidden, safeNonce, acked, raced>>

\* Reconciliation with the nonce just read; without one it counts as zero.
EndListing(c) ==
  /\ handling[c].op = "list"
  /\ handling' = [handling EXCEPT ![c] = Idle]
  /\ \E info \in SafeInfo(c) :
       /\ cachedNonce' = info.cached
       /\ transactions' =
            [h \in Hashes |->
               IF HasTransaction(h) /\ BeforeNonce(h, info.seen)
                 THEN [transactions[h] EXCEPT !.isExecuted = TRUE]
                 ELSE transactions[h]]
  /\ UNCHANGED <<failAfter, hidden, safeNonce, acked, raced>>

-----------------------------------------------------------------------------
(* The admin routes and the chain.                                         *)

\* clearPendingTransactions
ClearPending ==
  LET pending == {h \in Hashes : ~transactions[h].isExecuted}
  IN /\ transactions' = [h \in Hashes |-> IF h \in pending THEN Absent ELSE transactions[h]]
     /\ acked' = {a \in acked : a[2] \notin pending}
     /\ UNCHANGED <<cachedNonce, failAfter, hidden, handling, safeNonce, raced>>

\* setFailAfterCount, resetFailAfter
FailAfter ==
  /\ failAfter' \in {Undefined} \cup 0..MaxFailAfter
  /\ UNCHANGED <<transactions, cachedNonce, hidden, handling, safeNonce, acked, raced>>

\* setHidePending
HidePending ==
  /\ hidden' = ~hidden
  /\ UNCHANGED <<transactions, cachedNonce, failAfter, handling, safeNonce, acked, raced>>

\* External: the Safe executes a transaction of its current nonce.
SafeExecutes ==
  /\ safeNonce < MaxNonce /\ safeNonce' = safeNonce + 1
  /\ UNCHANGED <<transactions, cachedNonce, failAfter, hidden, handling, acked, raced>>

StoreNext ==
  \/ \E c \in Clients : EndProposal(c) \/ BeginListing(c) \/ EndListing(c)
  \/ \E c \in Clients, h \in Hashes : BeginProposal(c, h) \/ AddConfirmation(c, h)
  \/ ClearPending \/ FailAfter \/ HidePending \/ SafeExecutes

StoreSpec == StoreInit /\ [][StoreNext]_storeVars

-----------------------------------------------------------------------------
(* What clients may rely on.                                               *)

\* The type invariant; the failure counter stops at zero.
StoreTypeOK ==
  /\ transactions \in [Hashes -> [stored : BOOLEAN, isExecuted : BOOLEAN,
                                  owners : SUBSET Clients]]
  /\ cachedNonce \in NotLoaded..MaxNonce /\ safeNonce \in 0..MaxNonce
  /\ failAfter \in Undefined..MaxFailAfter /\ hidden \in BOOLEAN
  /\ handling \in [Clients -> Requests]
  /\ acked \subseteq Clients \X Hashes /\ raced \subseteq Hashes

\* A signature the service has confirmed stays with its transaction until the
\* pending ones are cleared, except when two equal proposals were being handled
\* at once: the second one to finish replaces the record of the first.
ConfirmationsKept ==
  \A a \in acked : a[2] \in raced \/ a[1] \in transactions[a[2]].owners

\* However late and in whichever order the reads of the chain arrive, and also
\* when they fail, no transaction is closed that the Safe could still execute.
ClosedIsPast ==
  \A h \in Hashes : transactions[h].isExecuted => NonceOf[h] < safeNonce
=============================================================================
