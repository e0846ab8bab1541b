--------------------------- MODULE BatchDelivery ---------------------------
(***************************************************************************)
(* What the Safe mode of the tool promises about every batch of requests,  *)
(* without runs, queues, nonces or confirmations: a batch is proposed only *)
(* while nothing of it can be carried out, it is executed at most once,    *)
(* and it is reported only when it was executed.  Batches of which the     *)
(* tool has lost track are excepted: a reply of the service was lost, or   *)
(* two owners began to propose the batch at the same time.                 *)
(***************************************************************************)

CONSTANT Batches

VARIABLES
  fate,     \* fate[b]: what can become of b, or has
  reported  \* batches some run has reported as executed

vars == <<fate, reported>>

Fates == {"absent", "open", "executed", "unknown"}

Init ==
  /\ fate = [b \in Batches |-> "absent"]
  /\ reported = {}

All(S, f) == \A b \in S : fate[b] = f

\* From now on b can be carried out.
Propose(b) ==
  /\ fate[b] = "absent"
  /\ fate' = [fate EXCEPT ![b] = "open"]
  /\ UNCHANGED reported

\* b is carried out, and other batches lose their nonce to it.
Execute(b, S) ==
  /\ All({b} \cup S, "open")
  /\ fate' = [c \in Batches |->
                IF c = b THEN "executed" ELSE IF c \in S THEN "absent" ELSE fate[c]]
  /\ UNCHANGED reported

\* Batches lose their nonce to a rejection or to something of another tool.
Cancel(S) ==
  /\ All(S, "open")
  /\ fate' = [c \in Batches |-> IF c \in S THEN "absent" ELSE fate[c]]
  /\ UNCHANGED reported

\* The tool loses track of batches while they are being proposed.
LoseTrack(S) ==
  /\ All(S, "absent")
  /\ fate' = [c \in Batches |-> IF c \in S THEN "unknown" ELSE fate[c]]
  /\ UNCHANGED reported

Report(b) ==
  /\ fate[b] \in {"executed", "unknown"}
  /\ reported' = reported \cup {b}
  /\ UNCHANGED fate

Next ==
  \/ \E b \in Batches : Propose(b) \/ Report(b)
  \/ \E S \in SUBSET Batches : Cancel(S) \/ LoseTrack(S) \/ \E b \in Batches \ S : Execute(b, S)

Spec == Init /\ [][Next]_vars
=============================================================================
