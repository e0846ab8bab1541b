# A TLA+ verification project for eth-valctl

eth-valctl is a command line tool that sends execution-layer requests
(consolidation, switch of withdrawal credentials, withdrawal, exit) for
Ethereum validators. A request costs a fee that changes with every block, and a
request that takes effect twice is a second withdrawal of real money. The tool
works in two modes: it sends the requests itself (*direct mode*), or it proposes
them to a Safe multisig whose owners confirm and execute them (*Safe mode*).

This directory holds TLA+ modules of both modes and of the command around
them, the TLC configurations that check them, and theorems that TLAPS proves:
every invariant that a passing run checks, every action property, and the
refinements of both modes hold for every value of the constants.
`PROJECT.json` lists components, runs, mutants, findings, hazards and theorems,
and maps every definition to the source lines it stands for.

Run a check with `tlc -config <name>.cfg <module>.tla` (section 3 names the
module of each run), the proofs with `tlapm <module>.tla` for
`DirectRequestsSafety`, `DirectRequestsReports`, `DirectRequestsRefinement`,
`SafeModeProofs`, `SafeModeSafety`, `ContractFeeProofs`, `PartsProofs` and
`CommandRunProofs`.

## 1. Inventory

| Part of the program | State | Operations | Hard behaviour | What makes it correct |
|---|---|---|---|---|
| Batch orchestrator (`transaction-batch-orchestrator.ts`) | batch, pending transactions, retry count, lists of failed and rejected | broadcast a batch, check receipts, replace on a new block, abort | blocks and errors between any two awaits | the report is complete, the loop ends, missing funds stop the run |
| Broadcaster and strategies | results per request | parallel sends (wallet), one send after the other (Ledger) | one of several sends fails | no request is sent twice |
| Transaction monitor | none | receipt with timeout; status from receipt and nonce | two awaits per status | a status never turns an open request into a finished one |
| Transaction replacer | tracked hash and nonce per request | fresh nonce after a revert, same nonce otherwise, fee bump | old versions can be mined while new ones are signed | at most one transaction of a request can ever take effect |
| Signers | next nonce | send, send with nonce | rejection on the device, lost replies | no nonce is skipped or reused |
| Contract fee | excess of the system contract | fee, inverse, block estimate | integer exponential | the estimate is exact |
| Safe: propose | batches left, nonce, frozen fee | nonce, create, sign, propose, list what remains | two proposers, lost replies, process exit | a batch is executed once |
| Safe: sign | snapshot of the queue | confirm one after the other | rejections proposed meanwhile | a rejected request gathers no confirmations |
| Safe: execute | snapshot of the queue | validate fees, reject, wait, execute, receipts | other owners execute the same queue, fees move | what is reported was executed; a rejection wins |
| Safe: filter, deduplication | none | one transaction per nonce | rejection and request share a nonce | the rejection is kept |
| Safe Transaction Service, Safe contract | proposals, confirmations, nonce | propose, confirm, list, next nonce, execute | used by several owners and tools at once | (external) |
| Error classification | none | Ledger type, rejection, fatal, funds, nonce expired | the same error ends a batch, a request or nothing | (used by the strategies and the replacer) |
| Slot timing (`beacon-service.ts`) | genesis time | test the window, wait for the next slot | a device prompt slower than a slot; a node that gets the block after the wait | a request confirmed quickly pays the fee of its block, if the node had the block before |
| Ledger connection, address selector (`ledger-transport.ts`, `ledger-address-selector.ts`) | one transport per user of the device | connect with timeout, select, dispose | a device that opens after the timeout; another device plugged in | one transport at a time, released by a command that returns |
| Ledger EIP-1193 provider | transport, address | resolve, sign, broadcast | fails or is rejected between any two | an owner signs |
| Pre-request validation (`pre-request-validation.ts`) | offenders of the current check | read credentials, collect, filter, exit | credentials change between checks and after them | what is submitted has the credentials it needs; a switch had them when it was filtered |
| Commands (`cli/`, `consolidate.ts`, ...) | options | the order of checks, connections, requests and disposal | a network check nobody awaits; errors on every step | as above, and the signer is released |
| Safe: initialisation and preflight | none | health, Safe exists, signer, owner, `Safe.init` | every step can end the process | the signer is an owner |
| Safe: API retry; rate limiter of the mock service | attempts; request times per bucket | call, wait, retry, exit; count and drop | a call is up to three requests; throttled ones count as well; callers share a bucket | a caller does not throttle itself to its end, if the limit admits twice its call |
| Mock transaction service (`scripts/safe/mock-tx-service/`) | store, cached Safe, injected failures | propose, confirm, list, admin routes | handlers that await the chain in between | no confirmation is lost, nothing is closed too early |
| Prompts, progress logger, network configuration | none | ask, print, look up | none of their own | answers are choices of the models; the rest is left out |

The direct mode runs as one process with one call stack, but every `await` lets
blocks, replies and failures of other sends come in between. The Safe mode is
concurrent between processes: owners run the tool at the same time against one
service and one contract, and every list a run holds is a snapshot.

## 2. Modules

| Module | Models | Uses |
|---|---|---|
| `ExecutionLayer` | node and chain: mempool with one entry per nonce and version, blocks, receipts, account nonce | |
| `SendErrors` | the errors a send can throw, and how the tool classifies them | |
| `DirectRequests` | the direct mode: orchestrator, strategies, monitor, replacer, signers | extends `ExecutionLayer`, `SendErrors` |
| `RequestDelivery` | abstract promise of the direct mode about each request | |
| `DirectRequestsProperties` | its type invariant, safety, refinement, liveness, documentation | extends `DirectRequests`, instantiates `RequestDelivery` |
| `DirectRequestsInvariant` | the inductive invariants `DirectInv` and `BookkeepingInv` | extends the properties |
| `DirectRequestsSafety` | lemmas, type correctness; `DirectInv` is inductive, and what follows from it | extends the invariant, TLAPS |
| `DirectRequestsReports` | `BookkeepingInv` is inductive: reports, retry budget, nonces | extends the safety proofs |
| `DirectRequestsRefinement` | the direct mode implements `RequestDelivery` | extends the reports proofs |
| `SafeService` | transaction service, Safe contract, contract fee | |
| `SafeMode` | the runs of the owners: propose, sign, execute | extends `SafeService` |
| `BatchDelivery` | abstract promise of the Safe mode about each batch | |
| `SafeModeProperties` | what owners may rely on, refinement, documentation | extends `SafeMode`, instantiates `BatchDelivery` |
| `SafeModeInvariant` | the inductive invariants `QueueInv` and `BatchInv` | extends the properties |
| `SafeModeProofs` | `QueueInv` is inductive, and what follows from it | extends the invariant, TLAPS |
| `SafeModeSafety` | `BatchInv` is inductive: a batch is executed once; the Safe mode implements `BatchDelivery` | extends the proofs |
| `MCSafeMode` | the owners and their commands for TLC | extends the invariant |
| `FeeFormula` | the contract's fee, its inverse, the block estimate | |
| `ContractFee` | the wait for a lower fee before a Safe transaction is executed | extends `FeeFormula` |
| `SlotWindow` | one request on a Ledger in time: window test, fee read, device prompt, broadcast, fee bumps | extends `FeeFormula` |
| `MCSlotWindow` | network fees for TLC | extends `SlotWindow` |
| `RateLimitedCalls` | `withRateRetry` against the sliding window of the rate limiter | |
| `MockTxStore` | the store and the handlers of the mock transaction service | |
| `PartsInvariant` | the inductive invariants of the four parts above: `WaitInv`, `SlotInv`, `CallsInv`, `StoreInv` | extends the four |
| `ContractFeeProofs` | what the fee and its inverse compute, and the wait that rests on them | extends the invariants, TLAPS |
| `PartsProofs` | the other three parts | extends the proofs of the fee |
| `MCParts` | runs the four parts side by side | extends the invariants, `MCSlotWindow` |
| `PreRequestValidation` | the checks of validators, while the beacon chain goes on | |
| `LedgerDevice` | the transports of a command and the devices that are plugged in | |
| `CommandRun` | one command from its start to the end of its process, in either mode | extends the two above |
| `CommandRunProperties` | what a command promises | extends `CommandRun` |
| `CommandRunInvariant` | its inductive invariant `CommandInv` | extends the properties |
| `CommandRunProofs` | `CommandInv` is inductive, and what follows from it | extends the invariant, TLAPS |
| `MCCommandRun` | commands, accounts and devices for TLC | extends the invariant |

`DirectRequests` and `SafeMode` begin where a command has its signer and its
validators; `CommandRun` has what comes before and after, and one abstract
request after the other in between. `SlotWindow` and `ContractFee` give numbers
to fees and time that `DirectRequests` and `SafeMode` leave open.

### State and actions of the direct mode

A request is its position in the list. `tracked[r]` is the
`PendingTransactionInfo` of `r`: the *one* hash the program remembers, with its
nonce. `job[r]` says what the current phase still has to do for `r`; `pc` is the
phase: `init` (block number and fee), `broadcast`, `monitor` (receipts and block
number), `fees`, `replace`, `finish`, `done`.

`ParallelSend`/`SequentialSend` are the two broadcast strategies,
`CheckReceipt` the receipt wait, `SameBlock`, `BlockChanged`,
`BlockNumberUnavailable`, `FeesFetched` and `FeesUnavailable` the branches of the
retry loop, `CategorizeByReceipt` and `CategorizeByNonce` the two awaits of a
status, `Resend` the fresh nonce after a revert, `Recheck` and `Replace` the
replacement under the old nonce, `FinishBatch` and `AbortBatch` the end of a
batch. `ChainStep` makes blocks between any two of them.

Abstractions, all of which only add behaviours unless said otherwise:

- Fees are not numbers here. Whether an included request reverts, and whether a
  replacement is accepted, is the chain's choice.
- Within a round of replacements, requests of one kind are worked on in any
  order; the code uses list order.
- A send may throw any error of its signer (`SignerErrors`) at any time, but
  "nonce expired" counts as an answer of the node only when the nonce is consumed.
  Only an unclassified error can hide a send that the node has accepted.
- A wallet's nonces of a batch are taken in one go when the batch starts:
  NonceManager hands them out in call order before the first send returns.
- Block number and contract fee at the start of a batch are one step.
- *Assumptions* (they remove behaviours): the account is used by this tool
  only, blocks are not reorganised, and the process is not killed.

### State and actions of the Safe mode

`run[o]` is the run that owner `o` has going: where it is (`pc`), which batches
it still proposes (`work`), which transactions it still signs, rejects or
executes (`todo`), and what it loaded. Each action is one call to the service,
the node or the user: `ProposeStart`, `ProposeNonce`, `ProposeBatch`;
`SignStart`, `SignOne`; `ExecuteStart`, `ValidateFees`, `RejectOne`,
`CheckNonces`, `CheckFee`, `Sleep`, `PollFee`, `Send`, `ReceiptOk`,
`ReceiptBad`. `Include` is a block that calls the Safe contract; `Elsewhere` is
the fee that moves and other Safe tools that propose and execute.

Abstractions:

- Every prompt and every option that answers it is a free choice.
- An error of a call and a lost reply of a call that took effect are both
  possible at every proposal, confirmation, rejection and execution.
- One system contract, and its fee is a level between 1 and `MaxFee`; the tip is
  any amount up to that bound. `ContractFee` has the numbers.
- Transactions are confirmed in any order within a run; the code takes the order
  of the service's list.
- The order of submission stands for the submission date.
- Users propose a batch again when a run listed it as remaining, or when every
  proposal of it has lost its nonce to something else (`Wanted`).
- *Assumptions*: the service does not lag behind the chain (the mock
  reconciles on every read), and the queue fits on one page.

### State and actions of the commands

`cmd` holds the command (four on validators, in both modes, and signing and
executing the queue of a Safe) and its options, `pc` the place in it, `process`
whether it runs, has ended with an error or has returned. `checks` are the
checks that are left with the validators each of them reads, `link` the
transports of the address selector and of the signer. One action per step:
`Start`, `Connect` (node), `Preflight` (service health, Safe exists),
`ReadPrivateKey`, `AskForDevice`, `DeviceOpens`, `NoDevice` (error or timeout),
`SelectAddress`, `SignerReady`, `SafeSignerReady`, `CheckOwner`,
`InitializeSafe`; `ReadValidator`, `NextCheck`, `CheckFails`, `Validated`;
`CreatePipeline`, `BeginRequest`, `ResolveTransaction`, `SignTransaction`,
`SignMessage`, `BroadcastSigned`, `RequestFails`, `EndWork`, `Dispose`.
`NetworkAnswers` is the reply to the network check and happens beside all of them.
`World` is the beacon chain and the user's hands on the devices.

Abstractions:

- A command line is valid: one public key at least, each of a known form.
- Requests are made one after the other, in any order and each at most once;
  retries and replacements are `DirectRequests`, the queue of the Safe `SafeMode`.
- Ledger paths: each device derives one account at the path that is selected.
- Credentials only grow: from BLS to an account, then to compounding, which the
  consensus rules guarantee.
- A device with an open transport stays plugged in.

### State and actions of the slot, the rate limit and the mock service

`SlotWindow` counts half seconds (`tick`), since the tool computes with whole
seconds and waits half a second longer. `TestWindow`, `WindowReached`,
`ReadFee`, `Broadcast` are the first send; `BeginReplacement` and `Replace` a new
attempt after a block without the transaction, with `Bumped` for the 12 percent
in integer division and `Outbids` for the node's 10 percent rule (external).
`SlotBoundary` has a block or misses it; with one the excess moves, and the node
sees it `delay` half seconds later, which may be any number of `Delays` and
another one in each slot: the program reads the fee of the newest block the node
has and does not ask which one that is. `gas` are the network fees of the
transaction in the mempool, `known` those of the last response the tool received;
they differ once the reply to a replacement that was taken is lost, and then the
next bump starts from fees the node no longer has. A transaction whose first reply
was lost, or whose replacement the user rejects, is followed no further
(`untracked`).

`RateLimitedCalls` counts seconds. A call is one that `withRateRetry` wraps: one to
three requests to the service (`CallLengths`), since `getPendingTransactions` of
SafeApiKit reads the nonce and the list, and `getNextNonce` the nonce once more when
nothing is pending. Each request counts in the window of its bucket, whether it is
let through or not. `BeginCall` is the first attempt, `Answered` a request that is
let through (another one follows, or the call is over), `Throttled` one that is not:
the call is made again from its first request after two seconds, or the process
ends. `ResetBuckets` and `UpdateLimit` are the admin routes. Any limit may be set:
with the limit of 1 that `scripts/integration-test/run.sh` sets, a process alone is
throttled to its end by a call of two requests, or by one that follows another call.

`MockTxStore` splits the handlers at the `await` of the Safe's state:
`BeginProposal`/`EndProposal`, `BeginListing`/`EndListing`; `AddConfirmation`
and the admin routes `ClearPending`, `FailAfter`, `HidePending` do not wait. A read
of the Safe returns any nonce the Safe had while it was under way, or fails.

## 3. Runs and what they show

Direct mode (modules `DirectRequestsProperties`, `DirectRequestsInvariant`):

| Run | Instance | Question |
|---|---|---|
| `DirectBatches` | 3 requests, 2 batches, 1 retry, Ledger, lost replies | inductive invariants of the proofs, complete report, no nonce gap, a new nonce only after a revert, funds abort, termination |
| `DirectLostReplies` | 2 requests, 1 batch, 2 retries, wallet, lost replies | at most one effect, final outcomes, own nonces, retry budget, implements `RequestDelivery` |
| `DirectNonceConsumed` | 1 request | *violated*: a consumed nonce means a fulfilled request |
| `DirectFundsDoc` | 2 batches | *violated*: missing funds abort all remaining batches |
| `DirectRejectedDoc` | 2 requests, Ledger | *violated*: rejected validators are collected |

Two requests are enough for one request's nonce to be confused with another's,
and for a revert to be resent behind a pending one; two batches are needed for
what a batch leaves behind. With one retry a request is replaced or resent once
and the loop then ends with it pending; with two a resend is itself followed by
a replacement. Longer runs of retries are the matter of the proofs.

Safe mode (module `MCSafeMode`):

| Run | Instance | Question |
|---|---|---|
| `SafeProposals` | 2 owners propose, one executes; 2 batches, threshold 1 | a batch is executed once, with its inductive invariant `BatchInv`; nonces collide only by overlap |
| `SafeExecution` | 2 owners sign and execute, other tools; 2 proposals, threshold 2 | reported means executed; a confirmed rejection wins; implements `BatchDelivery` |
| `SafeRunsEnd` | one owner proposes and executes, one signs; threshold 1, fee swings, lost transactions, wait of 2 | every run ends; the inductive invariant `QueueInv`, which contains that reported means executed; a rejected request gathers no confirmations |
| `SafeRemainingDoc` | 2 batches | *violated*: remaining validators are printed when a proposal fails |

`MaxProposals` bounds what the service receives (two proposals are a conflict
of two owners, or a request and its rejection), `MaxFee` = 2 makes a fee stale and
sufficient, `MaxLost` bounds Ethereum transactions that no run waits for,
`MaxWait` the polls. With threshold 2 both owners have signed a request before
it can be found stale and rejected, so what a signer does next to a rejection is
asked with threshold 1. The refinement of `BatchDelivery` is checked with one batch;
what two batches do to each other's nonces is covered by its proof.

The command and the parts (modules `MCCommandRun`, `MCParts`, `MCSlotWindow`):

| Run | Instance | Question |
|---|---|---|
| `CommandRun` | all commands in both modes, key and Ledger; 2 validators, 2 devices, 3 accounts, one of them the Safe | what is submitted has the credentials it needs, an owner signs, one transport at a time and released |
| `Parts` | the four parts below | their properties and inductive invariants |
| `SlotChangeDoc` | one request, 1 replacement | *violated*: no transaction is broadcast right at a slot change |

`CommandRun` has a target and a source, or two validators to check; a device
with the owner's account and one without, so that a swap can both help and hurt.

`Parts` checks four modules without common state in one run. `part` is chosen at the
start; only the chosen part moves, and the others keep one initial state, so
that the states are the sum of the four and not their product. It changes nothing
for a part: every behaviour of each is there.

- `fee`: excess up to 48 (`MaxExcess`), above every offer of at most 18, waits of
  up to 10 blocks, both targets and blocks that grow the excess. A poll is taken to
  happen once per slot, and a slot may have no block.
- `slot`: excess up to 13 (`MaxBacklog`), where the fee rises at 12, up to 2 requests
  of others per block, 2 replacements, blocks that reach the node within the buffer of
  the wait and after it (`Delays` of 1 and 3 half seconds), and network fees of 8 and 9 wei, where the bump of integer division does and
  does not suffice, and of 25 (`SomeSentFees`, `SomeNetworkFees`).
- `calls`: two callers without a key, hence on one bucket; limits of 1, 5 and 6 (what
  the integration test sets, less and no less than twice the longest call), at most
  8 requests of a bucket within the window of three seconds (`MaxStamps`). Callers
  with a key have a bucket of their own; the proof has any number of both.
- `store`: two clients, two transactions with nonces 0 and 1, a Safe that reaches
  nonce 2, one injected failure.

Deadlock is checked except in `CommandRun`, `Parts` and `SlotChangeDoc`, where a
command, the check of a transaction or a request ends. In the direct mode `Ended`
stutters once the process is done.

### Fairness

`DirectRequests!FairSpec` assumes that the tool keeps running (every await
returns or times out: receipts have a timeout, RPC calls fail) and that blocks
keep coming, but not that any block includes a given transaction.
`SafeMode!FairSpec` assumes that each run goes on (calls return or fail,
prompts are answered) and that the *one* Ethereum transaction a run waits for is
included: `provider.waitForTransaction` has no timeout, so without that
assumption a run would not end. Fees, other tools and the start of runs have no
fairness.

### Disagreements found

1. `DirectNonceConsumed`: a request whose own earlier version reverted is
   logged as "fulfilled by original or competing transaction"
   (`transaction-replacer.ts:147`, `:460`): only the newest hash is tracked.
2. `DirectFundsDoc`: the README says missing funds abort all remaining batches;
   an error met while replacing or resending does not.
3. `DirectRejectedDoc`: validators rejected on the device in a batch that then
   runs out of funds are on no list (`transaction-batch-orchestrator.ts:164`).
4. `SafeRemainingDoc`: `withRateRetry` exits the process, so the remaining
   public keys are not printed (`safe-api-retry.ts:25`, `:35`).
5. `SlotChangeDoc`: the README says that the wait for the next slot avoids
   broadcasts right at a slot change; the slot is tested before the prompt on the
   device (`sequential-broadcast-strategy.ts:86`), the user confirms when they
   like, and replacements are not preceded by a test.

Exceptions the properties name, because the code does not do better: a request
or batch whose own reply was lost may take effect twice (`unsure`, `doubtful`),
and so may a batch that two owners begin to propose at the same time. In Safe
mode the device that signs may not be the one on which the owner's address was
selected (`OwnerSigns`). A validator that becomes compounding after the filter of
`switch` has kept it is still submitted, and the chain ignores that request
(`OnlyEligible`, `switch.ts:19`). A fee read before the node has the block of a slot
is one block old: in the first moments of a slot, and after the wait for the next
slot if the node gets the block later than the 500 ms of the buffer
(`QuickFeeSuffices`, `beacon-service.ts:88`). After the lost reply of a replacement
that was taken, the node refuses the next one as underpriced whatever its fees
(`RefusedOnlyIfTiny`, `transaction-replacer.ts:470`). A caller is throttled to its
end when others use its bucket, or when the limit is below twice the requests of its
call (`NoSelfExhaustion`): five in three seconds, say, for a `getNextNonce` of three
requests. Two handlers of the mock that store
the same proposal at once may drop a confirmation (`ConfirmationsKept`).

### Mutants

Each property has a mutant: a definition of the model replaced by a small slip
of it (a dropped condition, an off-by-one, a count that is missing) under which
TLC finds the property violated. The slips stand in the modules next to the code
they belong to; no specification uses them.

## 4. Proofs

### The direct mode

The theorems are about `Spec` of `DirectRequests`, for every number of
requests, batch size, retry limit and signer, with and without lost replies,
under `DirectAssumption` (positive list length and batch size).

- `TypeCorrect`: `[]TypeOK`.
- `DirectInvariant`: `[]DirectInv`; `BookkeepingInvariant`: `[]BookkeepingInv`.
- `EffectAtMostOnce`: a request takes effect at most once unless one of its own
  replies was lost.
- `ResolvedStaysFinal`: a request counted as done leaves nothing in the mempool.
- `NonceReusePolicy`: a second nonce only after the tracked transaction reverted.
- `FundsAbortPolicy`: after a broadcast without funds, nothing behind is sent.
- `ReportIsComplete`: at the end every request was counted as done or is on a
  list the user gets, except rejections in the batch that ran out of funds.
- `BudgetIsKept`: at most `MaxRetries + 1` submissions of a request.
- `NoncesWithoutGap`, `ResolvedByOwnNonce`: what a nonce that was given out, and
  a request that counts as done, can rely on.
- `DirectImplementsDelivery`: `Spec => DeliverySpec`. With `submissions`,
  `landings` and `outcome` read off the detailed state (`Landed`, `Decided`),
  each step is a step of `RequestDelivery` or none.

*The argument.* `AtMostOnce` is not inductive: that a request landed once says
nothing about what else of it waits. `OneNonce` strengthens it: whatever of a
request may still take effect, or did, carries the one nonce tracked for it. A
nonce is consumed once (`PoolAhead`), so two effects would be one. `OneNonce`
survives a resend because `ResendIsSafe` says the tracked transaction has
reverted, which is final and consumed the old nonce: nothing of the request can
be in the mempool then. It survives the first send because `Unsent` and
`NoNonceYet` say that nothing of a request exists before its turn, and
`BatchInProgress` and `PendingWasSent` say whose turn it is. `ResolvedIsDone`
carries the finality.

`BookkeepingInv` rests on that. `Accounted` says where a request can be found at
any time, and `Undecided` that it is not on a list before its turn is over; together
they give the report. `AttemptsPerRound` ties the submissions of a request to
the retry counter and to whether its turn in the round is over; a round spends a
retry before it replaces anything, which bounds them. `NoncesApart` says that no
two requests share a nonce and that new nonces lie above all others, for a Ledger
only while no reply was lost: after a lost reply the code does use a nonce twice.

### The commands

The theorems are about `CommandSpec`, for all sets of validators, accounts,
devices and commands, under `CommandRunAssumption` (the Safe and the devices'
accounts are accounts, the target is a validator) and `QueueCommands` (signing and
executing belong to the Safe mode).

- `CommandTypeInvariant`: `[]CommandTypeOK`.
- `RequestsAreEligible`: `[]OnlyEligible`, with the exception for a switch above.
- `OwnersSign`, `OneTransportAtATime`, `TransportsReleased`.

*The argument.* `OnlyEligible` speaks of a moment long after the checks. A
check once passed by a validator stays passed, because credentials only grow and
ownership is asked for an account, never for no one (`PassedStays`).
`ReadSoFar` and `ValidationByPlace` carry this from the first read to the last
check, and `EligibleByPlace` from there to every validator a request was, is
being or will be made for. Who sends is settled by `SignerByPlace`: in the direct
mode the account is the one of the device that is plugged in, because a device
with an open transport stays (`TransportByPlace`), and requests are validated for
that account and not for the one that was selected. The filter of the switch is not
such a check, because being not compounding does not last: `KeptBySwitch` says that
whoever it kept still is not, or has become so since (`lapsed`), and `SwitchByPlace`
that requests are made for those only.

### The Safe mode

The theorems are about `Spec` of `SafeMode`, for all owners, commands, batches,
thresholds and bounds, with and without other tools, under `SafeServiceAssumption`
(finitely many owners, a positive threshold) and `SafeModeAssumption` (types).

- `QueueInvariant`: `[]QueueInv`; `BatchInvariant`: `[]BatchInv`.
- `SafeTypes`, `ReportedIsExecuted`, `NoncesCollideByOverlap`: what follows from
  the first one for every state.
- `RejectionsWin`, `RejectionsStopSigning`: two action properties about snapshots.
- `BatchesAtMostOnce`: a batch is executed once.
- `SafeImplementsDelivery`: `Spec => BatchDeliverySpec`. What has become of a batch
  (`Fate`) is read off its proposals and what was carried out; each step is a step
  of `BatchDelivery` or none.

*The argument.* Every list of a run is a snapshot, so its properties have to be tied
to what was true when the list was loaded. `ListsWithoutRejected` ties a list
of work to the proposals the run had seen: the deduplication keeps one
transaction per nonce and prefers rejections, and lists only shrink.
`ChosenBehind` ties a nonce to what lay in the queue when it was chosen, for runs
that are still to use it and for proposals that have. `OneAtATime` connects a run
that waits with its one Ethereum transaction, and the contract's order of nonces
(`ExecutedInOrder`) makes the receipt prove the execution. `ReportedExecuted` had to
be strengthened to be inductive: that nothing else was executed at a nonce says
little unless the nonce has been used.

`BatchInv` is about batches that are neither doubtful nor proposed by two runs at
once. One run proposes such a batch at a time (`OneProposer`), and only while all
earlier proposals of it are superseded (`NothingOpen`); superseded is for ever,
since the contract's nonce never goes back. So of all proposals of the batch at
most one can still be carried out or was (`OneOpen`). `NoncesFromOne` is needed
because a nonce of 0 would be superseded at once.

The refinement rests on both. `Fate` maps a batch with two live proposals to a value
that `BatchDelivery` does not know, so that `OneOpen` is needed in every step. A batch
goes from `absent` to `open` when its proposal is accepted (and stays where it is if
its nonce was used meanwhile), from `open` to `executed` by the block that carries it
out, and back to `absent` by whatever else uses its nonce, in the same step if that
is another batch. From `absent` alone it can become `unknown`, because a run takes up
or proposes only batches of which nothing is live (`NothingOpen`). A report needs a
good receipt, and `OneAtATime` says what that proves.

### The contract fee

`SearchFindsLargest` and `FeeGrows` are about the algorithms themselves: the fee
never falls as the excess grows, and for every positive fee the binary search
returns the largest excess whose fee is covered. The theorems about `Spec` of
`ContractFee` (`WaitInvariant`, `SearchStaysExact`, `EstimateStaysExact`,
`QuietWaitsSucceed`) rest on them and hold for every excess, offer, target and
bound (`ContractFeeAssumption` gives types).

*The argument.* The three loops of the code are recursive functions that return the
result of their next turn. `TailRecursion` shows that such a function exists whatever
the turns do: the value at p is what a walk from p ends with, and a walk from p
is a walk from its next turn with one step more. Facts about the loops then come from
a least counterexample: of the excess that is left and, behind it, of the term
(`TermInduction`: behind x turns the terms shrink), of the room below 17 times
the fee (`DoublingEnds`: the fee at x is x / 17 at least), and of the length of the
interval (`HalvingEnds`). The loops of the fee for two excesses stay in
order term by term, which is `FeeGrows`. The wait is then arithmetic: in quiet blocks
the excess stays within the last target-sized step the estimate has left
(`LeftAsEstimated`).

### The store, the rate limit and the slot

The theorems are about `StoreSpec`, `CallsSpec` and `SlotSpec`, for all clients,
transactions, callers, limits, fees, retries and delays of the node.

- `StoreInvariant`, `ClosedIsNeverOpen`, `ConfirmationsStay`. What a handler or the
  cache knows of the nonce is never ahead of the Safe (`NonceNotAhead`), so a
  transaction that is closed by it is past. A record that no proposal was handled
  twice for is stored by one handler and finds nothing in its place (`StoredOnce`).
- `CallsInvariant`, `NeverExhaustedAlone`. `WindowEmpties` says how many requests
  of the same call are left in the window of three seconds at each attempt and each
  second of its pauses. Whatever others left there before is out of it at the third
  attempt; then it holds the requests of the second attempt, which are no more than the
  call is long, and those of the third so far, so that even the last request of the
  third attempt is no more than twice the length. No limit is assumed: the property
  names those that are too low.
- `SlotInvariant`, `BumpIsEnough`, `QuickFeeIsEnough`. `StillInSlot` bounds the tick
  by the threshold of the window and the time since its test, so that a quick
  confirmation meets no slot boundary, and `FeeOfNextBlock` says that the fee read is
  then the one of the next block, unless it was read before the node had the block.
  No bound on that delay is assumed; after the wait the property excepts it only
  beyond the buffer. That the bump satisfies the node needs tips below their maximum
  fee, which `SlotWindowAssumption` demands of the fees that were sent (no node takes
  another transaction), and that what the tool knows is what the node has.

### Only model-checked

- `Terminates` and `RunsEnd`: liveness under fairness.
- Nothing else that a passing run checks. That the disagreements below `Runs` exist is
  shown by the runs that expect a violation.

## 5. Plan

1. Pages of the service in `SafeService`, so that a run may miss the lowest nonces.
2. The split of a list into batches for sizes of zero and below, and validators
   that are given twice.
3. What is printed for transactions a run has not executed.

## 6. Not modelled

- The decoding of MultiSend calldata and the encoding of requests: parsers and
  printers over bytes without state.
- Parsing of the command line, and prompts and messages as text, the progress logger
  among them. Facts that messages state about requests are checked as properties.
- Network configuration and data models: constants and types.
- `create-safe`, devnet, integration and packaging scripts: tooling that runs
  once, step after step, outside the program.
- The formats of the mock service's answers, and its listing of Safes by owner.

Six hazards have no property; `PROJECT.json` says why at each: the split of
batches, rejections that exist already, the hashes printed after a wait that is
exhausted, pages of the service, the network check that no one awaits, and public
keys that are given twice.
