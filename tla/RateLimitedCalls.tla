-------------------------- MODULE RateLimitedCalls --------------------------
(***************************************************************************)
(* The retry of throttled calls against the rate limiter of the service:   *)
(* a sliding window per API key, one bucket for all callers without a key, *)
(* and callers that try three times, two seconds apart, before they end    *)
(* the process.  What is tried again is a whole call of SafeApiKit, which  *)
(* makes up to three requests, one after the other; each of them counts.   *)
(* Time is counted in seconds.                                             *)
(***************************************************************************)
EXTENDS Integers

CONSTANTS
  Callers,              \* processes that call the service
  Limits,               \* limits that are set for calls without a valid key
  AuthenticatedLimit,   \* RATE_LIMIT_AUTHENTICATED
  MaxStamps             \* bound: requests of one bucket within the window

ASSUME RateLimitAssumption ==
  /\ Limits \subseteq Nat
  /\ AuthenticatedLimit \in Nat
  /\ MaxStamps \in Nat

VARIABLES
  bucketOf,    \* the bucket of each caller, by its API key
  limit,       \* unauthenticatedLimit
  stamps,      \* per bucket, the requests counted by their age
  attempt,     \* per caller, the attempt it makes or waits for; 0: no call
  length,      \* per caller, the most requests an attempt of its call makes
  sent,        \* per caller, requests of this attempt that were answered
  pause,       \* per caller, seconds it still sleeps
  gone,        \* callers that ended their process, and why
  contended    \* history: callers whose bucket others used during their call

callVars == <<bucketOf, limit, stamps, attempt, length, sent, pause, gone, contended>>

Buckets == {"__anonymous__", "key"}
WindowSeconds == 3
Ages == 0 .. WindowSeconds - 1
MaxAttempts == 3
NoStamps == [b \in Buckets |-> [a \in Ages |-> 0]]
Endings == {"runs", "throttled", "unauthorized"}

\* getServiceInfo, getSafeInfo, proposeTransaction, confirmTransaction and
\* getTransaction make one request, getPendingTransactions two: the nonce of the Safe
\* and the list; getNextNonce asks for the nonce again if nothing is pending.
CallLengths == 1..3

-----------------------------------------------------------------------------
(* The limiter.                                                            *)

\* Slips: how a small mistake in the code below would read.  They are here to
\* measure the properties; no specification uses them.
HalfTheDelay == 1
OneAttemptMore(n) == n <= MaxAttempts

RetryDelay == 2
MayRetry(n) == n < MaxAttempts
LimitOf(b) == IF b = "key" THEN AuthenticatedLimit ELSE limit

\* check counts every request, also the ones it then turns away.
Counted(b) == stamps[b][0] + stamps[b][1] + stamps[b][2] + 1
Allowed(b) == Counted(b) <= LimitOf(b)

CallsInit ==
  /\ bucketOf \in [Callers -> Buckets]
  /\ limit \in Limits
  /\ stamps = NoStamps
  /\ attempt = [c \in Callers |-> 0]
  /\ length = [c \in Callers |-> 0]
  /\ sent = [c \in Callers |-> 0]
  /\ pause = [c \in Callers |-> 0]
  /\ gone = [c \in Callers |-> "runs"]
  /\ contended = {}

\* getActiveTimestamps drops what is as old as the window.
SecondPasses ==
  /\ stamps' = [b \in Buckets |->
                  [a \in Ages |-> IF a = 0 THEN 0 ELSE stamps[b][a - 1]]]
  /\ pause' = [c \in Callers |-> IF pause[c] > 0 THEN pause[c] - 1 ELSE 0]
  /\ UNCHANGED <<bucketOf, limit, attempt, length, sent, gone, contended>>

-----------------------------------------------------------------------------
(* The calls.                                                              *)

\* A call with its first attempt.
BeginCall(c) ==
  /\ gone[c] = "runs" /\ attempt[c] = 0
  /\ attempt' = [attempt EXCEPT ![c] = 1]
  /\ \E n \in CallLengths : length' = [length EXCEPT ![c] = n]
  /\ contended' = contended \ {c}
  /\ UNCHANGED <<bucketOf, limit, stamps, sent, pause, gone>>

\* The service is asked; every request counts in the window of its bucket.
AskService(c) ==
  LET b == bucketOf[c]
  IN /\ gone[c] = "runs" /\ attempt[c] > 0 /\ pause[c] = 0
     /\ Counted(b) <= MaxStamps
     /\ stamps' = [stamps EXCEPT ![b][0] = @ + 1]
     /\ contended' = contended \cup {d \in Callers \ {c} : bucketOf[d] = b}
     /\ UNCHANGED <<bucketOf, limit>>

CallEnds(c) ==
  /\ attempt' = [attempt EXCEPT ![c] = 0]
  /\ length' = [length EXCEPT ![c] = 0]
  /\ sent' = [sent EXCEPT ![c] = 0]
  /\ UNCHANGED pause

\* A request is answered: another one follows, or the call returns or throws; an
\* invalid key ends the process.
Answered(c) ==
  /\ AskService(c) /\ Allowed(bucketOf[c])
  /\ \/ /\ sent[c] + 1 < length[c]
        /\ sent' = [sent EXCEPT ![c] = @ + 1]
        /\ UNCHANGED <<attempt, length, pause, gone>>
     \/ /\ CallEnds(c)
        /\ gone' \in {gone, [gone EXCEPT ![c] = "unauthorized"]}

\* A request is throttled: after a pause the call is made again from its first
\* request, or the process ends.
Throttled(c) ==
  /\ AskService(c) /\ ~Allowed(bucketOf[c])
  /\ \/ /\ MayRetry(attempt[c])
        /\ attempt' = [attempt EXCEPT ![c] = @ + 1]
        /\ sent' = [sent EXCEPT ![c] = 0]
        /\ pause' = [pause EXCEPT ![c] = RetryDelay]
        /\ UNCHANGED <<length, gone>>
     \/ /\ ~MayRetry(attempt[c])
        /\ CallEnds(c)
        /\ gone' = [gone EXCEPT ![c] = "throttled"]

\* The admin route for test control: resetBuckets, updateUnauthenticatedLimit
ResetBuckets ==
  /\ stamps' = NoStamps
  /\ UNCHANGED <<bucketOf, limit, attempt, length, sent, pause, gone, contended>>

UpdateLimit ==
  /\ limit' \in Limits
  /\ UNCHANGED <<bucketOf, stamps, attempt, length, sent, pause, gone, contended>>

CallsNext ==
  \/ SecondPasses \/ ResetBuckets \/ UpdateLimit
  \/ \E c \in Callers : BeginCall(c) \/ Answered(c) \/ Throttled(c)

CallsSpec == CallsInit /\ [][CallsNext]_callVars

-----------------------------------------------------------------------------
(* What the retry is worth.                                                *)

\* The type invariant: no call makes more than its attempts, no attempt more than
\* its requests, no sleep is longer than the delay.
CallsTypeOK ==
  /\ bucketOf \in [Callers -> Buckets]
  /\ limit \in Limits
  /\ stamps \in [Buckets -> [Ages -> 0..MaxStamps]]
  /\ attempt \in [Callers -> 0..MaxAttempts]
  /\ length \in [Callers -> {0} \cup CallLengths]
  /\ sent \in [Callers -> {0} \cup CallLengths]
  /\ \A c \in Callers : IF attempt[c] = 0 THEN sent[c] = 0 ELSE sent[c] < length[c]
  /\ pause \in [Callers -> 0..RetryDelay]
  /\ gone \in [Callers -> Endings]
  /\ contended \subseteq Callers

\* However full the window is when a call begins, and although the requests that are
\* turned away count as well, a process is throttled to its end only if another one
\* used the same key, or none either, while the call was being retried, or if the limit
\* is below twice the requests of the call.
NoSelfExhaustion ==
  [][\A c \in Callers :
       gone[c] # "throttled" /\ gone'[c] = "throttled" =>
         c \in contended' \/ LimitOf(bucketOf[c]) < 2 * length[c]]_callVars
=============================================================================
