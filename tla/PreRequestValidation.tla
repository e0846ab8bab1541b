------------------------ MODULE PreRequestValidation ------------------------
(***************************************************************************)
(* The checks of validators against the beacon chain before any request:   *)
(* each check reads one validator after the other, while the beacon chain  *)
(* goes on, and every failure ends the process.                            *)
(***************************************************************************)
EXTENDS Naturals, Sequences

CONSTANTS
  Validators,
  Accounts,   \* what withdrawal credentials can point to: signers and Safes
  NoAccount   \* the last bytes of BLS credentials, no one's account

VARIABLES
  credentials,  \* external: the credentials of each validator
  checks,       \* the checks that are left, the current one first
  unread,       \* validators the current check has not read yet
  offenders,    \* those that failed it
  switchable,   \* those the filter of the switch has kept
  lapsed        \* history: those that became compounding after it kept them

beaconVars == <<credentials, lapsed>>
checkVars == <<checks, unread, offenders, switchable>>
validationVars == <<beaconVars, checkVars>>

Bls == [type |-> "0x00", owner |-> NoAccount]
Credentials == {Bls} \cup [type : {"0x01", "0x02"}, owner : Accounts]
Kinds == {"compounding", "execution", "switchable", "ownership"}
Checks == [kind : Kinds, of : SUBSET Validators, owner : Accounts \cup {NoAccount}]

-----------------------------------------------------------------------------
(* The checks.                                                             *)

\* Slips: how a small mistake in the code below would read.  They are here to
\* measure the properties; no specification uses them.
LastOneCounts(v, offends) == IF offends THEN {v} ELSE {}
NotYetCompounding(c) == c.type # "0x02"
AnyAccount(c) == c.type # "0x00"

\* checkCompoundingCredentials, checkHasExecutionCredentials,
\* filterSwitchableValidators, checkWithdrawalAddressOwnership
Offends(check, c) ==
  CASE check.kind = "compounding" -> c.type # "0x02"
    [] check.kind \in {"execution", "switchable"} -> c.type = "0x00"
    [] check.kind = "ownership" -> c.owner # check.owner

\* The other checks collect all offenders before they end the process.
EndsAtOnce(check) == check.kind = "compounding"

IsSwitchable(c) == c.type = "0x01"

Collected(v, offends) == IF offends THEN offenders \cup {v} ELSE offenders

ToRead(list) == IF list = <<>> THEN {} ELSE Head(list).of

ValidationInit ==
  /\ credentials \in [Validators -> Credentials]
  /\ checks = <<>> /\ unread = {} /\ offenders = {} /\ switchable = {}
  /\ lapsed = {}

Begin(list) ==
  /\ checks' = list
  /\ unread' = ToRead(list)
  /\ offenders' = {}

ChecksPassed == checks = <<>>

\* fetchValidatorCredentials and what the check makes of the answer.
ReadValidator(v) ==
  LET check == Head(checks)
      offends == Offends(check, credentials[v])
  IN /\ v \in unread
     /\ ~(offends /\ EndsAtOnce(check))
     /\ unread' = unread \ {v}
     /\ offenders' = Collected(v, offends)
     /\ switchable' = IF check.kind = "switchable" /\ IsSwitchable(credentials[v])
                      THEN switchable \cup {v} ELSE switchable
     /\ UNCHANGED <<beaconVars, checks>>

\* The check is through without an offender.
NextCheck ==
  /\ checks # <<>> /\ unread = {} /\ offenders = {}
  /\ checks' = Tail(checks)
  /\ unread' = ToRead(Tail(checks))
  /\ UNCHANGED <<beaconVars, offenders, switchable>>

\* The process ends: the API does not answer or with an error, a validator that
\* must be compounding is not, or a check has collected offenders.
CheckFails ==
  /\ checks # <<>>
  /\ \/ unread # {}
     \/ offenders # {}
  /\ UNCHANGED validationVars

-----------------------------------------------------------------------------
(* The beacon chain.                                                       *)

\* External: BLS credentials are changed to an account, and a validator becomes
\* compounding; neither can be undone, and the account never changes again.
CredentialsChange ==
  /\ \E v \in Validators :
       \/ /\ credentials[v].type = "0x00"
          /\ \E a \in Accounts :
               credentials' = [credentials EXCEPT ![v] = [type |-> "0x01", owner |-> a]]
          /\ UNCHANGED lapsed
       \/ /\ credentials[v].type = "0x01"
          /\ credentials' =
               [credentials EXCEPT ![v] = [type |-> "0x02", owner |-> credentials[v].owner]]
          /\ lapsed' = lapsed \cup ({v} \cap switchable)
  /\ UNCHANGED checkVars
=============================================================================
