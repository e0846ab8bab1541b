--------------------------- MODULE PartsInvariant ---------------------------
(***************************************************************************)
(* The inductive invariants of the small parts: the wait for the contract  *)
(* fee, the store of the mock transaction service, the throttled calls,    *)
(* and one request on a Ledger in its slot.                                *)
(***************************************************************************)
EXTENDS ContractFee, MockTxStore, RateLimitedCalls, SlotWindow

-----------------------------------------------------------------------------
(* The wait for the contract fee.                                          *)

\* Quiet blocks bring the excess down by one target each: what the estimate says is
\* left of the wait is what is left of the way to the goal of the search.
LeftAsEstimated ==
  quiet /\ estimate > 0 /\ waited <= estimate =>
    LET goal == BinarySearchMaxExcess(offer)
        left == estimate - waited
    IN /\ excess <= goal + target * left
       /\ left > 0 => goal + target * (left - 1) < excess

\* A wait begins only when the estimate is within the bound, and without others it
\* goes on only while the estimate says so.
WaitAllowed ==
  /\ pc = "check" => estimate = 0 /\ waited = 0 /\ quiet
  /\ pc = "wait" => /\ estimate \in 1..MaxFeeWait /\ waited < MaxFeeWait
                    /\ quiet => waited < estimate

WaitInv ==
  /\ TypeOK
  /\ LeftAsEstimated
  /\ WaitAllowed
  /\ QuietWaitSucceeds

-----------------------------------------------------------------------------
(* The store of the mock service.                                          *)

Proposes(c, h) == handling[c].op = "propose" /\ handling[c].tx = h

\* What a handler or the cache knows of the nonce is never ahead of the Safe.
NonceNotAhead ==
  /\ cachedNonce <= safeNonce
  /\ \A c \in Clients : handling[c].op # "idle" => handling[c].since <= safeNonce

\* Unless a proposal was handled twice at once, one handler stores it and finds
\* nothing in its place.
StoredOnce ==
  /\ \A h \in Hashes : ~HasTransaction(h) => transactions[h].owners = {}
  /\ \A h \in Hashes \ raced, c \in Clients :
       Proposes(c, h) => /\ ~HasTransaction(h)
                         /\ \A d \in Clients : Proposes(d, h) => d = c

StoreInv ==
  /\ StoreTypeOK
  /\ NonceNotAhead
  /\ StoredOnce
  /\ ConfirmationsKept
  /\ ClosedIsPast

-----------------------------------------------------------------------------
(* Throttled calls.                                                        *)

\* What is left in the window of a call that is being retried and has its bucket
\* for itself: in the third attempt, what the second and the third have sent.
WindowEmpties ==
  \A c \in Callers \ contended :
    LET counted(age) == stamps[bucketOf[c]][age]
    IN CASE attempt[c] = 2 ->
              /\ pause[c] = 1 => counted(0) = 0
              /\ pause[c] = 0 => counted(0) + counted(1) <= sent[c]
         [] attempt[c] = 3 ->
              /\ pause[c] = 2 => counted(0) + counted(1) <= length[c]
              /\ pause[c] = 1 => counted(0) = 0 /\ counted(1) + counted(2) <= length[c]
              /\ pause[c] = 0 => counted(0) + counted(1) + counted(2) <= length[c] + sent[c]
         [] OTHER -> TRUE

CallsInv ==
  /\ CallsTypeOK
  /\ WindowEmpties

-----------------------------------------------------------------------------
(* One request in its slot.                                                *)

BeforeBroadcast == {"test", "wait", "read", "prompt"}
Quick == since <= TwoSeconds

\* Nothing is on its way before the broadcast, and after it the transaction is in
\* the mempool; only a replacement counts as a retry.
SentByPhase ==
  /\ phase \in BeforeBroadcast => result = "none" /\ retry = 0 /\ ~skipped
  /\ phase \in {"test", "wait"} => since = 0
  /\ phase = "test" => ~postponed
  /\ phase \in {"test", "wait", "read"} => ~hasty
  /\ phase \in {"pool", "reprompt", "untracked"} => result \in {"accepted", "refused"}
  /\ phase = "reprompt" => retry > 0

\* When the delay is over the node has the slot's block.
NodeHasBlock == tick >= delay => head = backlog

\* The wait ends in the first second of the next slot, or just behind it.
WaitLeadsToNextSlot ==
  phase = "wait" =>
    \/ tick + wake \in {1, 2}
    \/ tick >= BoundaryThreshold * TicksPerSecond /\ tick + wake \in {SlotTicks + 1, SlotTicks + 2}

\* For two seconds the test of the window holds: the slot does not end.  A request that
\* was postponed is past the buffer.
StillInSlot ==
  phase \in {"read", "prompt"} /\ Quick =>
    /\ tick < BoundaryThreshold * TicksPerSecond + since
    /\ postponed => tick >= BufferTicks

\* So a request that was postponed reads too early only if the block takes longer than the
\* buffer.
LateBlock == hasty /\ postponed /\ Quick => delay > BufferTicks

\* And what it reads when the node has the block is the fee of the next block.
FeeOfNextBlock ==
  Quick /\ ~hasty /\ retry = 0 /\ ~skipped /\ phase \in {"prompt", "pool", "untracked"} =>
    fee = Fee(backlog)

\* Tips stay below the fees they are part of, and the bump applies to the fees the tool
\* knows.
FeesInOrder ==
  /\ gas.tip <= gas.max /\ known.tip <= known.max
  /\ phase = "reprompt" =>
       /\ known.max > 0 => draft.gas.max = Raised(known.max)
       /\ known.tip > 0 => draft.gas.tip = Raised(known.tip)

SlotInv ==
  /\ SlotTypeOK
  /\ SentByPhase
  /\ NodeHasBlock
  /\ WaitLeadsToNextSlot
  /\ StillInSlot
  /\ LateBlock
  /\ FeeOfNextBlock
  /\ FeesInOrder
  /\ RefusedOnlyIfTiny
=============================================================================
