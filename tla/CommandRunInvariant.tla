------------------------- MODULE CommandRunInvariant -------------------------
(***************************************************************************)
(* The inductive invariant behind what a command promises: what is open,   *)
(* whose account is known and which checks have passed at each place of    *)
(* the command.                                                            *)
(***************************************************************************)
EXTENDS CommandRunProperties

BeforeSigner == {"start", "precheck", "node", "service", "safeInfo", "signer"}
AfterSigner == {"owner", "kit", "validate", "pipeline", "work", "dispose"}

\* On whose behalf the requests are made.
OnBehalf == IF cmd.safe THEN Safe ELSE account

\* The types, with what they leave open: the checks are a list, and nothing is
\* read without one.
CommandTypes ==
  /\ CommandTypeOK
  /\ checks \in Seq(Checks)
  /\ checks = <<>> => unread = {}
  /\ switchable \subseteq Validators
  /\ cmd.op \in ValidatorCommands => requests \subseteq Validators

\* Which transport is in which state where.
TransportByPlace ==
  /\ pc \in BeforeSigner => \A u \in Users : link[u] = "none"
  /\ pc = "select" => cmd.ledger /\ link["signer"] = "none"
  /\ pc = "connect" => cmd.ledger /\ link["selector"] = "closed"
  /\ pc \in AfterSigner =>
       IF cmd.ledger
       THEN link["selector"] = "closed" /\ link["signer"] \in {"open", "closed"}
       ELSE \A u \in Users : link[u] = "none"
  /\ Running /\ pc \in AfterSigner /\ cmd.ledger => link["signer"] = "open"

\* Whose account is known where, and who has signed what was submitted.  In the
\* direct mode the device that is plugged in derives the account.
SignerByPlace ==
  /\ pc \in {"connect"} \cup AfterSigner => account \in Accounts
  /\ pc \in AfterSigner /\ cmd.ledger /\ ~cmd.safe => account = DeviceAccount
  /\ pc \in AfterSigner \ {"owner"} /\ cmd.safe => account \in SafeOwners
  /\ pc \in {"owner", "kit"} => cmd.safe
  /\ submitted # {} => pc \in {"work", "dispose"}
  /\ ~cmd.safe => \A r \in submitted : r.by = account

\* A check once passed by a validator stays passed: credentials only grow, and an
\* account is asked for by its owner.
Passes(check, v) == ~Offends(check, credentials[v])
HasPassed(check) == \A v \in check.of : Passes(check, v)
Lasting(check) == check.kind = "ownership" => check.owner \in Accounts

\* Of the current check, whoever was read has passed or is an offender.
ReadSoFar ==
  /\ \A i \in DOMAIN checks : Lasting(checks[i])
  /\ checks # <<>> =>
       \A v \in Head(checks).of \ unread : v \in offenders \/ Passes(Head(checks), v)

\* Every check of the command has passed or is still to come.
ValidationByPlace ==
  pc = "validate" =>
    \A i \in DOMAIN ValidateChecks(OnBehalf) :
      \/ HasPassed(ValidateChecks(OnBehalf)[i])
      \/ \E j \in DOMAIN checks : checks[j] = ValidateChecks(OnBehalf)[i]

\* What a request on v needs of the beacon chain.
EligibleOn(v) ==
  /\ credentials[v].owner = OnBehalf
  /\ cmd.op = "withdraw" => credentials[v].type = "0x02"
  /\ cmd.op = "consolidate" =>
       /\ credentials[Target].type = "0x02"
       /\ cmd.skipTarget \/ credentials[Target].owner = OnBehalf

\* The validators that requests were, are being or will be made for.
Concerned ==
  requests \cup {r.on : r \in submitted} \cup (IF stage = "idle" THEN {} ELSE {current})

\* All of them are eligible once the validation is over.
EligibleByPlace ==
  pc \in {"pipeline", "work", "dispose"} => \A v \in Concerned \cap Validators : EligibleOn(v)

\* A request is being made during the work only.
OnlyAtWork == stage # "idle" => pc = "work"

\* What is done with the queue of the Safe concerns no validator.
QueueOnly ==
  cmd.op \notin ValidatorCommands =>
    /\ pc # "validate" /\ cmd.safe
    /\ requests \subseteq {Queue} /\ current = Queue
    /\ \A r \in submitted : r.on = Queue

\* Whoever the filter of the switch has kept has not been compounding then.
KeptBySwitch == \A v \in switchable : credentials[v].type = "0x01" \/ v \in lapsed

\* A switch is made for validators that the filter has kept, and only for them.
SwitchByPlace ==
  cmd.op = "switch" =>
    /\ pc \notin {"start", "precheck"} => Concerned \subseteq switchable
    /\ \A r \in submitted : r.type = "0x01" \/ r.on \in lapsed

\* All parts together.
CommandInv ==
  /\ CommandTypes
  /\ TransportByPlace
  /\ ReturnsReleased
  /\ SignerByPlace
  /\ OwnerSigns
  /\ ReadSoFar
  /\ ValidationByPlace
  /\ EligibleByPlace
  /\ OnlyAtWork
  /\ QueueOnly
  /\ KeptBySwitch
  /\ SwitchByPlace
=============================================================================
