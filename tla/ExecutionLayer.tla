--------------------------- MODULE ExecutionLayer ---------------------------
(***************************************************************************)
(* The execution-layer node and network as the tool sees them through      *)
(* JSON-RPC: one account, its transactions that wait for inclusion and the *)
(* blocks that consume its nonces.  The node is not part of this           *)
(* repository; it is modelled from the calls that                          *)
(* src/service/domain/request/ makes: getTransactionReceipt,               *)
(* getTransactionCount, getBlockNumber and broadcastTransaction.           *)
(*                                                                         *)
(* Nonce n is the n-th transaction of this account in this run, counted    *)
(* from 1, so chain[n] is the transaction that consumed nonce n.  Every    *)
(* version of a transaction that was ever delivered stays a candidate for  *)
(* inclusion until its nonce is consumed: a block builder may still hold a *)
(* version that the local mempool has replaced.  Whether an included       *)
(* request succeeds is decided by the system contract (it reverts when the *)
(* frozen fee is below the fee of that block), here a free choice.         *)
(***************************************************************************)
EXTENDS Naturals, Sequences, FiniteSets

VARIABLES
  chain,    \* chain[n] = [tx, ok]: what consumed nonce n and whether it succeeded
  pool,     \* delivered transactions [req, nonce, ver] whose nonce is still free
  newHead   \* a block has appeared since the tool last read the block number

elVars == <<chain, pool, newHead>>

ELInit ==
  /\ chain = <<>>
  /\ pool = {}
  /\ newHead = FALSE

\* getTransactionCount(address, 'latest') > n
Consumed(n) == n \in DOMAIN chain

\* The transactions that compete for nonce n, and the next one to join them.
Versions(n) == {t \in pool : t.nonce = n}
NewTx(r, n) == [req |-> r, nonce |-> n, ver |-> Cardinality(Versions(n))]

\* The pool after r was delivered at nonce n; a consumed nonce is refused.
PoolWith(r, n) == IF Consumed(n) THEN pool ELSE pool \cup {NewTx(r, n)}

\* getTransactionReceipt(t) with status 1, with status 0, and null.
MinedOk(t) == Consumed(t.nonce) /\ chain[t.nonce].tx = t /\ chain[t.nonce].ok
MinedReverted(t) == Consumed(t.nonce) /\ chain[t.nonce].tx = t /\ ~chain[t.nonce].ok
HasReceipt(t) == Consumed(t.nonce) /\ chain[t.nonce].tx = t

\* The positions at which request r took effect on chain.
Landings(r) == {n \in DOMAIN chain : chain[n].tx.req = r /\ chain[n].ok}

\* A block includes the account's next transaction, successful or reverted.
Mine(t, ok) ==
  /\ t.nonce = Len(chain) + 1
  /\ chain' = Append(chain, [tx |-> t, ok |-> ok])
  /\ pool' = {u \in pool : u.nonce # t.nonce}
  /\ newHead' = TRUE

\* A block that includes nothing of this account.
EmptyBlock ==
  /\ ~newHead
  /\ newHead' = TRUE
  /\ UNCHANGED <<chain, pool>>

NewBlock == EmptyBlock \/ \E t \in pool, ok \in BOOLEAN : Mine(t, ok)
=============================================================================
