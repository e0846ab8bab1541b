----------------------------- MODULE SlotWindow -----------------------------
(***************************************************************************)
(* One request in direct mode on a Ledger, seen from the fees it pays: the *)
(* test of the slot window, the fee read from the node, a prompt on the    *)
(* device that takes as long as the user likes, the broadcast, and the     *)
(* replacements with a new contract fee and bumped network fees while the  *)
(* transaction is not mined.  Time is counted in half seconds of the slot. *)
(***************************************************************************)
EXTENDS FeeFormula

CONSTANTS
  MaxBacklog,    \* bound: the excess of the contract
  MaxOthers,     \* bound: requests of others in one block
  MaxRetries,    \* MAX_TRANSACTION_RETRIES
  Delays,        \* half seconds it may take the node to get the block of a slot
  SentFees,      \* network fees a transaction may be sent with
  NetworkFees    \* network fees the node may quote for a replacement

ASSUME SlotWindowAssumption ==
  /\ MaxBacklog \in Nat /\ MaxOthers \in Nat /\ MaxRetries \in Nat
  /\ Delays \subseteq Nat
  /\ SentFees \subseteq [max : Nat, tip : Nat]
  /\ \A fees \in SentFees : fees.tip <= fees.max  \* no node takes another
  /\ NetworkFees \subseteq [max : Nat, tip : Nat]

VARIABLES
  backlog,    \* storage slot 0 of the contract, after the last block
  quota,      \* requests the contract takes off its queue per block
  head,       \* storage slot 0 of the last block the node has seen
  delay,      \* half seconds it takes the node to get the block of this slot
  tick,       \* half seconds since the slot began
  phase,      \* where the request stands
  wake,       \* half seconds until the wait for the window is over
  since,      \* half seconds since the window was tested, capped
  postponed,  \* history: the test made the request wait for the next slot
  hasty,      \* history: the fee was read before the node had the slot's block
  skipped,    \* history: a block was produced without the transaction
  fee,        \* the fee read, paid by the transaction in the mempool
  gas,        \* network fees of the transaction in the mempool
  known,      \* network fees of the last response the tool received
  draft,      \* the fees of the replacement on the device
  retry,      \* replacements so far
  result      \* what became of it on chain, or of its last replacement

clockVars == <<tick, since>>
requestVars == <<phase, wake, postponed, hasty, fee, gas, known, draft, retry, result>>
chainVars == <<backlog, quota, head, delay, skipped>>
slotVars == <<clockVars, requestVars, chainVars>>

TicksPerSecond == 2
SecondsPerSlot == 12
SlotTicks == SecondsPerSlot * TicksPerSecond
BoundaryThreshold == 10
BufferTicks == 1
TwoSeconds == 2 * TicksPerSecond
NoFees == [max |-> 0, tip |-> 0]
NoDraft == [fee |-> 0, gas |-> NoFees]

\* An untracked transaction is in the mempool, but no longer followed: the reply to
\* its broadcast was lost, or the user rejected its replacement.
Phases == {"test", "wait", "read", "prompt", "pool", "reprompt", "untracked", "done"}
Results == {"none", "accepted", "mined", "reverted", "refused", "failed"}

-----------------------------------------------------------------------------
(* The window and the fees.                                                *)

\* calculateSlotPosition works on whole seconds.
SecondInSlot(t) == t \div TicksPerSecond

\* Slips: how a small mistake in the code below would read.  They are here to
\* measure the properties; no specification uses them.
ThresholdExclusive(t) == SecondInSlot(t) > BoundaryThreshold
WithoutBuffer(t) == (SecondsPerSlot - SecondInSlot(t)) * TicksPerSecond
NinePercent(f) == (f * 109) \div 100

\* The test of waitForOptimalBroadcastWindow, and how long it waits.
NearBoundary(t) == SecondInSlot(t) >= BoundaryThreshold
WaitTicks(t) == (SecondsPerSlot - SecondInSlot(t)) * TicksPerSecond + BufferTicks

\* fetchMaxNetworkFees: a fee of zero counts as missing.
Available(network) == network.max > 0 /\ network.tip > 0

\* calculateBumpedFee, increaseMaxNetworkFees
Raised(f) == (f * 112) \div 100
Bumped(old, network) == Raised(IF old > 0 THEN old ELSE network)
Increased(old, network) ==
  [max |-> Bumped(old.max, network.max), tip |-> Bumped(old.tip, network.tip)]

\* External: a node takes a replacement only if both fees rise, by a tenth.
Outbids(new, old) == new > old /\ new >= (old * 110) \div 100
NodeAccepts(new, old) ==
  /\ Outbids(new.max, old.max) /\ Outbids(new.tip, old.tip)
  /\ new.tip <= new.max

-----------------------------------------------------------------------------
(* Time and blocks.                                                        *)

SlotInit ==
  /\ backlog \in 0..MaxBacklog /\ quota \in {1, 2}
  /\ tick \in 0 .. SlotTicks - 1 /\ delay \in Delays
  /\ head \in 0..MaxBacklog
  /\ \/ head = backlog
     \/ tick < delay /\ \E n \in 0..MaxOthers : backlog = ExcessAfter(head, n, quota)
  /\ phase = "test" /\ wake = 0 /\ since = 0
  /\ postponed = FALSE /\ hasty = FALSE /\ skipped = FALSE
  /\ fee = 0 /\ gas = NoFees /\ known = NoFees /\ draft = NoDraft
  /\ retry = 0 /\ result = "none"

\* Half a second inside a slot; the slot's block arrives at the node.
TickInSlot ==
  /\ tick < SlotTicks - 1
  /\ tick' = tick + 1
  /\ head' = IF tick' >= delay THEN backlog ELSE head
  /\ UNCHANGED <<backlog, delay, skipped, result, phase>>

\* A block with n requests of others.  It includes the transaction if it can,
\* at the fee the contract asks for in this block, or leaves it out.
Block(n) ==
  /\ ExcessAfter(backlog, n, quota) <= MaxBacklog
  /\ backlog' = ExcessAfter(backlog, n, quota)
  /\ \/ /\ result \in {"accepted", "refused"}
        /\ result' = IF fee >= Fee(backlog) THEN "mined" ELSE "reverted"
        /\ phase' = "done"
        /\ UNCHANGED skipped
     \/ /\ skipped' = (skipped \/ result \in {"accepted", "refused"})
        /\ UNCHANGED <<result, phase>>

\* The slot ends: the next one begins with a block or is missed.
SlotBoundary ==
  /\ tick = SlotTicks - 1
  /\ tick' = 0
  /\ \/ \E n \in 0..MaxOthers : Block(n)
     \/ UNCHANGED <<backlog, skipped, result, phase>>
  /\ delay' \in Delays
  /\ head' \in {backlog'} \cup (IF delay' > 0 THEN {head} ELSE {})

\* Time passes while the program waits for a timer, the node or the user.
TimePasses ==
  /\ phase \in {"test", "wait", "read", "prompt"}
  /\ phase = "wait" => wake > 0
  /\ TickInSlot \/ SlotBoundary
  /\ wake' = IF phase = "wait" THEN wake - 1 ELSE wake
  /\ since' = IF phase \in {"read", "prompt"} /\ since <= TwoSeconds THEN since + 1 ELSE since
  /\ UNCHANGED <<quota, postponed, hasty, fee, gas, known, draft, retry>>

\* After the broadcast only blocks count, the time in the slot no longer.
NextBlock ==
  /\ phase \in {"pool", "reprompt", "untracked"}
  /\ \E n \in 0..MaxOthers : Block(n)
  /\ head' = backlog' /\ tick' = 0
  /\ UNCHANGED <<quota, delay, since, wake, postponed, hasty, fee, gas, known, draft, retry>>

-----------------------------------------------------------------------------
(* The request.                                                            *)

\* waitForOptimalBroadcastWindow
TestWindow ==
  /\ phase = "test"
  /\ IF NearBoundary(tick)
       THEN phase' = "wait" /\ wake' = WaitTicks(tick) /\ postponed' = TRUE
       ELSE phase' = "read" /\ UNCHANGED <<wake, postponed>>
  /\ UNCHANGED <<clockVars, chainVars, hasty, fee, gas, known, draft, retry, result>>

WindowReached ==
  /\ phase = "wait" /\ wake = 0
  /\ phase' = "read"
  /\ UNCHANGED <<clockVars, chainVars, wake, postponed, hasty, fee, gas, known, draft, retry, result>>

\* fetchContractFee in the loop of the sequential strategy: the fee of the newest block
\* the node has, whichever that is; an error of the node fails the request.
ReadFee ==
  /\ phase = "read"
  /\ \/ /\ fee' = Fee(head) /\ hasty' = (tick < delay)
        /\ phase' = "prompt" /\ UNCHANGED result
     \/ phase' = "done" /\ result' = "failed" /\ UNCHANGED <<fee, hasty>>
  /\ UNCHANGED <<clockVars, chainVars, wake, postponed, gas, known, draft, retry>>

\* The user confirms and the transaction is broadcast, the reply may get lost; or it
\* fails.
Broadcast ==
  /\ phase = "prompt"
  /\ \/ /\ result' = "accepted" /\ gas' \in SentFees
        /\ \/ phase' = "pool" /\ known' = gas'
           \/ phase' = "untracked" /\ UNCHANGED known
     \/ phase' = "done" /\ result' = "failed" /\ UNCHANGED <<gas, known>>
  /\ UNCHANGED <<clockVars, chainVars, wake, postponed, hasty, fee, draft, retry>>

\* The retry loop: another round while the budget lasts.
RetriesLeft(n) == n < MaxRetries

\* handleBlockChange: after a block without the transaction the contract fee and
\* the network fees are read; if they cannot be, the retry is spent.  The bump starts
\* from the response the tool has.
BeginReplacement ==
  /\ phase = "pool" /\ skipped /\ RetriesLeft(retry)
  /\ retry' = retry + 1
  /\ \/ \E network \in {n \in NetworkFees : Available(n)} :
          /\ draft' = [fee |-> Fee(head), gas |-> Increased(known, network)]
          /\ phase' = "reprompt"
     \/ UNCHANGED <<draft, phase>>
  /\ UNCHANGED <<clockVars, chainVars, wake, postponed, hasty, fee, gas, known, result>>

\* handlePendingTransaction, handleReplacementError: the replacement is broadcast
\* without another look at the slot.  The node takes it, and the tool goes on from its
\* response, or from the old one if the reply is lost; or the node refuses it as
\* underpriced, unless it is the very transaction it has; or it fails.  What the user
\* rejects is not tried again.
Replace ==
  /\ phase = "reprompt"
  /\ \/ /\ NodeAccepts(draft.gas, gas)
        /\ fee' = draft.fee /\ gas' = draft.gas /\ known' \in {draft.gas, known}
        /\ result' = "accepted" /\ phase' = "pool"
     \/ /\ ~NodeAccepts(draft.gas, gas) /\ draft # [fee |-> fee, gas |-> gas]
        /\ result' = "refused" /\ phase' = "pool"
        /\ UNCHANGED <<fee, gas, known>>
     \/ /\ phase' \in {"pool", "untracked"}
        /\ UNCHANGED <<fee, gas, known, result>>
  /\ draft' = NoDraft
  /\ UNCHANGED <<clockVars, chainVars, wake, postponed, hasty, retry>>

SlotNext ==
  \/ TimePasses \/ NextBlock
  \/ TestWindow \/ WindowReached \/ ReadFee \/ Broadcast
  \/ BeginReplacement \/ Replace

SlotSpec == SlotInit /\ [][SlotNext]_slotVars

-----------------------------------------------------------------------------
(* What the window and the bump are worth.                                 *)

ContractFees == {0} \cup {Fee(x) : x \in 0..MaxBacklog}

\* The type invariant: positions in the slot, waits that end, fees the contract asks
\* for, a bounded retry.
SlotTypeOK ==
  /\ backlog \in 0..MaxBacklog /\ head \in 0..MaxBacklog /\ quota \in {1, 2}
  /\ delay \in Delays
  /\ tick \in 0 .. SlotTicks - 1 /\ since \in 0 .. TwoSeconds + 1
  /\ phase \in Phases /\ wake \in 0 .. WaitTicks(BoundaryThreshold * TicksPerSecond)
  /\ postponed \in BOOLEAN /\ hasty \in BOOLEAN /\ skipped \in BOOLEAN
  /\ fee \in ContractFees
  /\ gas \in [max : Nat, tip : Nat] /\ known \in [max : Nat, tip : Nat]
  /\ draft \in [fee : ContractFees, gas : [max : Nat, tip : Nat]]
  /\ retry \in 0..MaxRetries
  /\ result \in Results

\* A request confirmed within two seconds of the window test and included in the next
\* block pays what the contract asks for in that block.  Excepted is one whose fee was
\* read before the node had the slot's block: in the first moments of a slot, or after
\* the wait for the next slot if the node gets the block later than the buffer of the
\* wait allows, which nothing in the program checks.
QuickFeeSuffices ==
  result = "reverted" /\ retry = 0 =>
    \/ since > TwoSeconds \/ skipped
    \/ hasty /\ (postponed => delay > BufferTicks)

\* A node refuses a replacement as underpriced only when a fee of the transaction in
\* the mempool is below 9 wei: there the 12 percent are lost in the division.  Excepted
\* is a transaction whose own replacement was taken while the reply was lost: the tool
\* bumps the fees it knows, which are the old ones.
RefusedOnlyIfTiny ==
  result = "refused" => gas.max < 9 \/ gas.tip < 9 \/ known # gas

-----------------------------------------------------------------------------
(* What the documentation says.                                            *)

\* README: the tool "waits for the next slot boundary if signing happens in the
\* last 2 seconds" and so "avoids broadcasting transactions right at a slot change".
NeverAtSlotChange ==
  [][result = "none" /\ result' = "accepted" => ~NearBoundary(tick)]_slotVars
=============================================================================
