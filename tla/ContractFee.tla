---------------------------- MODULE ContractFee ----------------------------
(***************************************************************************)
(* The wait for the fee of a system contract: the fee frozen into a Safe   *)
(* proposal no longer suffices, the tool estimates the number of blocks    *)
(* until it does again and polls once per slot, while blocks carry the     *)
(* requests of others and slots stay without a block.                      *)
(***************************************************************************)
EXTENDS FeeFormula

CONSTANTS
  MaxExcess,     \* bound: the excess of the contract
  MaxOffer,      \* bound: the fees that are frozen into proposals
  MaxFeeWait,    \* --max-fee-wait-blocks
  MaxRequests    \* bound: requests of others in one block

ASSUME ContractFeeAssumption ==
  /\ MaxExcess \in Nat /\ MaxOffer \in Nat /\ MaxFeeWait \in Nat /\ MaxRequests \in Nat

VARIABLES
  excess,    \* storage slot 0 of the contract
  target,    \* TARGET_PER_BLOCK_BY_CONTRACT: 1 consolidation, 2 withdrawals
  offer,     \* the fee frozen into the proposal
  pc,        \* where the check of this transaction stands
  estimate,  \* estimatedBlocks, when the wait began
  waited,    \* blocksWaited
  quiet      \* history: every slot since had a block, none with requests

vars == <<excess, target, offer, pc, estimate, waited, quiet>>

-----------------------------------------------------------------------------
(* The check before a Safe transaction is executed.                        *)

StaleAt(x) == offer < Fee(x)

Init ==
  /\ excess \in 0..MaxExcess
  /\ target \in {1, 2}
  /\ offer \in 1..MaxOffer
  /\ pc = "check"
  /\ estimate = 0
  /\ waited = 0
  /\ quiet = TRUE

\* checkFeePerTransaction: a stale fee is waited for if the estimate allows it
\* and the user agrees.  A fee that cannot be read lets the transaction pass.
Check ==
  /\ pc = "check"
  /\ \/ pc' = "proceed" /\ UNCHANGED estimate
     \/ /\ StaleAt(excess)
        /\ estimate' = EstimateBlocks(excess, offer, target)
        /\ pc' \in IF estimate' > MaxFeeWait THEN {"abort"} ELSE {"abort", "wait"}
  /\ UNCHANGED <<excess, target, offer, waited, quiet>>

\* A slip for the mutants: the bound of the wait is off by one.
OnceTooOften(n) == n <= MaxFeeWait

\* The loop of waitForSufficientFee ends with an error once this fails.
MayWaitOn(n) == n < MaxFeeWait

\* One turn of the loop: a slot has passed, the excess is now x.
PollOnce(x) ==
  /\ pc = "wait"
  /\ excess' = x
  /\ waited' = waited + 1
  /\ \/ pc' = "proceed"
     \/ StaleAt(x) /\ pc' = IF MayWaitOn(waited + 1) THEN "wait" ELSE "exhausted"
  /\ UNCHANGED <<target, offer, estimate>>

SlotWithBlock ==
  \E n \in 0..MaxRequests :
    /\ ExcessAfter(excess, n, target) <= MaxExcess
    /\ quiet' = (quiet /\ n = 0)
    /\ PollOnce(ExcessAfter(excess, n, target))

MissedSlot == quiet' = FALSE /\ PollOnce(excess)

Next == Check \/ SlotWithBlock \/ MissedSlot

Spec == Init /\ [][Next]_vars

-----------------------------------------------------------------------------
(* What the estimate is worth.                                             *)

\* The type invariant: a fee, an excess and a wait that stays within its bound.
TypeOK ==
  /\ excess \in 0..MaxExcess
  /\ target \in {1, 2}
  /\ offer \in 1..MaxOffer
  /\ pc \in {"check", "proceed", "abort", "wait", "exhausted"}
  /\ estimate \in Nat
  /\ waited \in 0..MaxFeeWait
  /\ quiet \in BOOLEAN

\* The search behind an estimate finds the largest excess whose fee the offer
\* still covers: the fee never falls as the excess grows, which is what a binary
\* search needs.
SearchIsExact ==
  estimate > 0 =>
    LET goal == BinarySearchMaxExcess(offer)
    IN Fee(goal) <= offer /\ \A x \in goal + 1 .. goal + MaxExcess : Fee(x) > offer

\* As long as no one else sends requests, the fee drops to the offer exactly at
\* the estimated block: not earlier, and not later.
EstimateIsExact ==
  quiet /\ estimate > 0 =>
    /\ waited < estimate => StaleAt(excess)
    /\ waited = estimate => ~StaleAt(excess)

\* A wait that was allowed to begin runs into its bound only because of others:
\* their requests or a slot without a block.
QuietWaitSucceeds == pc = "exhausted" => ~quiet
=============================================================================
