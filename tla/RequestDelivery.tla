-------------------------- MODULE RequestDelivery --------------------------
(***************************************************************************)
(* What the direct mode of the tool promises about every request, without  *)
(* batches, nonces, retries or signers: a request takes effect at most     *)
(* once, it is submitted only while its outcome is open, and an outcome    *)
(* once given (executed, failed, rejected) is final.  A request may take   *)
(* effect after its outcome was given: a transaction reported as failed    *)
(* can still be included later.                                            *)
(***************************************************************************)
EXTENDS Naturals

CONSTANT Requests

VARIABLES
  submissions,  \* submissions[r]: how often r was signed and handed to the network
  landings,     \* landings[r]: how often r took effect on chain
  outcome       \* outcome[r]: what the tool has concluded about r

vars == <<submissions, landings, outcome>>

Outcomes == {"executed", "failed", "rejected"}

Init ==
  /\ submissions = [r \in Requests |-> 0]
  /\ landings = [r \in Requests |-> 0]
  /\ outcome = [r \in Requests |-> "open"]

\* r is submitted (again), and the attempt itself may settle its outcome.
Submit(r) ==
  /\ outcome[r] = "open"
  /\ submissions' = [submissions EXCEPT ![r] = @ + 1]
  /\ outcome' \in {[outcome EXCEPT ![r] = o] : o \in Outcomes \cup {"open"}}
  /\ UNCHANGED landings

\* r takes effect: at most once, and only if it was submitted.
Land(r) ==
  /\ submissions[r] > 0
  /\ landings[r] = 0
  /\ landings' = [landings EXCEPT ![r] = 1]
  /\ UNCHANGED <<submissions, outcome>>

\* Open requests get an outcome, several at once when a batch is given up.
Settle(S, o) ==
  /\ \A r \in S : outcome[r] = "open"
  /\ outcome' = [r \in Requests |-> IF r \in S THEN o ELSE outcome[r]]
  /\ UNCHANGED <<submissions, landings>>

\* One submission fails the requests behind it as well (funds, device lost).
SubmitAndGiveUp(r, S) ==
  /\ outcome[r] = "open"
  /\ \A q \in S : outcome[q] = "open"
  /\ submissions' = [submissions EXCEPT ![r] = @ + 1]
  /\ outcome' = [q \in Requests |-> IF q \in S \cup {r} THEN "failed" ELSE outcome[q]]
  /\ UNCHANGED landings

Next ==
  \/ \E r \in Requests : Submit(r) \/ Land(r)
  \/ \E S \in SUBSET Requests, o \in Outcomes : Settle(S, o)
  \/ \E r \in Requests, S \in SUBSET Requests : SubmitAndGiveUp(r, S)

Spec == Init /\ [][Next]_vars
=============================================================================
