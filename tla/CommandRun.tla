----------------------------- MODULE CommandRun -----------------------------
(***************************************************************************)
(* One command from its start to the end of its process: the network check *)
(* that no one awaits, the checks of the validators, the connection to the *)
(* node, the Safe and the signer, the requests, and the release of what    *)
(* was opened.  What happens to the requests on the way to the chain is    *)
(* the matter of DirectRequests and SafeMode.                              *)
(***************************************************************************)
EXTENDS PreRequestValidation, LedgerDevice

CONSTANTS
  Commands,    \* the commands that may be given
  Target,      \* the validator a consolidation goes to
  Safe,        \* the account of the Safe
  SafeOwners,  \* accounts that own it
  Queue        \* stands for the Safe transactions that are signed or executed

ASSUME CommandRunAssumption ==
  /\ Safe \in Accounts /\ SafeOwners \subseteq Accounts
  /\ Target \in Validators /\ Queue \notin Validators
  /\ NoAccount \notin Accounts
  /\ DerivedAccount \in [Devices -> Accounts]

VARIABLES
  cmd,           \* the command and its options
  pc,            \* where it stands
  process,       \* running, exited with an error, or returned
  networkCheck,  \* validateNetwork: asked or answered
  account,       \* the address the command takes for its signer's
  requests,      \* what requests are still to be made for
  current,       \* the request that is being made
  stage,         \* where it stands
  submitted,     \* history: what was submitted, who signed it, and the type
                 \*   of the validator's credentials then
  failed         \* an error is on its way to main

processVars == <<pc, process>>
requestVars == <<requests, current, stage, submitted>>
runVars == <<cmd, processVars, networkCheck, account, requestVars, failed>>
commandVars == <<validationVars, ledgerVars, runVars>>

Stages == {"idle", "resolve", "sign", "broadcast"}
Places == {"start", "precheck", "node", "service", "safeInfo", "signer", "select",
           "connect", "owner", "kit", "validate", "pipeline", "work", "dispose"}
ValidatorCommands == {"consolidate", "switch", "withdraw", "exit"}

\* Safe transactions are signed and executed in the Safe mode only.
ASSUME QueueCommands == \A c \in Commands : c.op \in ValidatorCommands \/ c.safe

Running == process = "running"
At(place) == Running /\ pc = place
GoTo(place) == pc' = place /\ UNCHANGED process
Exit == process' = "exited" /\ UNCHANGED pc
Return == process' = "returned" /\ UNCHANGED pc

-----------------------------------------------------------------------------
(* What the commands ask of the validators.                                *)

Check(kind, of, owner) == [kind |-> kind, of |-> of, owner |-> owner]

\* What exit and switch check before anything else.
ExitChecks == <<Check("execution", requests, NoAccount)>>
SwitchChecks == <<Check("switchable", requests, NoAccount)>>

Prechecks ==
  CASE cmd.op = "exit" -> ExitChecks
    [] cmd.op = "switch" -> SwitchChecks
    [] OTHER -> <<>>

\* The validate callbacks, once the owner is known.
ConsolidateChecks(owner) ==
  <<Check("compounding", {Target}, NoAccount),
    Check("execution", requests, NoAccount),
    Check("ownership", requests \cup (IF cmd.skipTarget THEN {} ELSE {Target}), owner)>>
WithdrawChecks(owner) ==
  <<Check("compounding", requests, NoAccount), Check("ownership", requests, owner)>>

ValidateChecks(owner) ==
  CASE cmd.op = "consolidate" -> ConsolidateChecks(owner)
    [] cmd.op = "withdraw" -> WithdrawChecks(owner)
    [] OTHER -> <<Check("ownership", requests, owner)>>

\* The validators of a command line: one at least, all with a valid key.
GivenPubkeys == (SUBSET Validators) \ {{}}

CommandInit ==
  /\ ValidationInit /\ LedgerInit
  /\ cmd \in Commands
  /\ pc = "start" /\ process = "running"
  /\ networkCheck = "asked"
  /\ requests \in IF cmd.op \in ValidatorCommands
                    THEN GivenPubkeys ELSE {{Queue}}
  /\ account = NoAccount /\ submitted = {} /\ failed = FALSE
  /\ current = Queue /\ stage = "idle"
-----------------------------------------------------------------------------
(* From the start to the connection with the node and the Safe.            *)

\* Slips: how a small mistake in the code below would read.  They are here to
\* measure the properties; no specification uses them.
AnyoneOwns(a) == a \in Accounts
AsSelected == account

IsOwner(a) == a \in SafeOwners
OnDevice == DeviceAccount

\* validateSafeNetworkSupport, validateSafeAddress: a Safe the network does not
\* support, or one that is missing, ends the process.
MayRefuseSafe == cmd.safe

\* The preAction hook, which does not await the network check, and what the
\* commands do first.
Start ==
  /\ At("start")
  /\ \/ MayRefuseSafe /\ Exit /\ UNCHANGED checkVars
     \/ GoTo("precheck") /\ Begin(Prechecks) /\ UNCHANGED switchable
  /\ UNCHANGED <<beaconVars, ledgerVars, cmd, networkCheck, account, requestVars, failed>>

\* validateNetwork is answered, beside whatever the command does, also when it
\* has returned: the wrong network and a refused connection end the process, the
\* chosen network and every other error change nothing.
NetworkAnswers ==
  /\ process # "exited" /\ pc # "start" /\ networkCheck = "asked"
  /\ networkCheck' = "answered"
  /\ Exit \/ UNCHANGED processVars
  /\ UNCHANGED <<validationVars, ledgerVars, cmd, account, requestVars, failed>>

\* A switch goes on with what its filter has kept, or returns if that is nothing.
PrechecksPassed ==
  /\ At("precheck") /\ ChecksPassed
  /\ requests' = IF cmd.op = "switch" THEN switchable ELSE requests
  /\ IF requests' = {} THEN Return ELSE GoTo("node")
  /\ UNCHANGED <<validationVars, ledgerVars, cmd, networkCheck, account, current,
                 stage, submitted, failed>>

\* createValidatedProvider; an error reaches main, which ends the process.
Connect ==
  /\ At("node")
  /\ GoTo(IF cmd.safe THEN "service" ELSE "signer") \/ Exit
  /\ UNCHANGED <<validationVars, ledgerVars, cmd, networkCheck, account, requestVars,
                 failed>>

\* checkTransactionServiceHealth, then validateSafeExists; either ends the process.
Preflight ==
  /\ Running
  /\ \/ pc = "service" /\ GoTo("safeInfo")
     \/ pc = "safeInfo" /\ GoTo("signer")
     \/ pc \in {"service", "safeInfo"} /\ Exit
  /\ UNCHANGED <<validationVars, ledgerVars, cmd, networkCheck, account, requestVars,
                 failed>>

-----------------------------------------------------------------------------
(* The signer.                                                             *)

\* Once the signer is there: the Safe asks for an owner, the direct mode
\* validates on behalf of the signer.
SignerKnown ==
  IF cmd.safe THEN GoTo("owner") /\ UNCHANGED checkVars
  ELSE GoTo("validate") /\ Begin(ValidateChecks(account')) /\ UNCHANGED switchable

\* promptSecret: a private key, or no input or an invalid key.
ReadPrivateKey ==
  /\ At("signer") /\ ~cmd.ledger
  /\ \/ account' \in Accounts \ {Safe} /\ SignerKnown
     \/ Exit /\ UNCHANGED <<account, checkVars>>
  /\ UNCHANGED <<beaconVars, ledgerVars, cmd, networkCheck, requestVars, failed>>

\* A connection is asked for: by LedgerAddressSelector.create, and once the
\* address is selected by LedgerSigner.create or initializeSafeSigner.
AskForDevice ==
  /\ \/ At("signer") /\ cmd.ledger /\ link' = Connecting("selector") /\ GoTo("select")
     \/ /\ At("connect") /\ link["signer"] = "none"
        /\ link' = Connecting("signer") /\ UNCHANGED processVars
  /\ UNCHANGED <<validationVars, plugged, cmd, networkCheck, account, requestVars, failed>>

DeviceOpens ==
  /\ Running /\ \E u \in Users : Opens(u)
  /\ UNCHANGED <<validationVars, runVars>>

\* Every caller ends the process when no device opens in time, so that no one
\* is left to notice if it opens later.
NoDevice ==
  /\ Running /\ \E u \in Users : ConnectFails(u)
  /\ Exit
  /\ UNCHANGED <<validationVars, cmd, networkCheck, account, requestVars, failed>>

\* promptLedgerAddressSelection: the selector is disposed of whatever happens,
\* except that a cancelled selection or a first address that cannot be derived
\* ends the process at once.
SelectAddress ==
  /\ At("select") /\ link["selector"] = "open"
  /\ \/ /\ account' = DeviceAccount /\ link' = Disposed("selector")
        /\ GoTo("connect")
     \/ link' \in {link, Disposed("selector")} /\ Exit /\ UNCHANGED account
  /\ UNCHANGED <<validationVars, plugged, cmd, networkCheck, requestVars, failed>>

\* LedgerSigner.create derives the address again and closes its transport if
\* anything fails.
SignerReady ==
  /\ At("connect") /\ ~cmd.safe /\ link["signer"] = "open"
  /\ \/ account' = OnDevice /\ SignerKnown /\ UNCHANGED link
     \/ /\ link' \in {link, Disposed("signer")} /\ Exit
        /\ UNCHANGED <<account, checkVars>>
  /\ UNCHANGED <<beaconVars, plugged, cmd, networkCheck, requestVars, failed>>

\* initializeSafeSigner builds its provider for the address that was selected.
SafeSignerReady ==
  /\ At("connect") /\ cmd.safe /\ link["signer"] = "open"
  /\ SignerKnown
  /\ UNCHANGED <<beaconVars, ledgerVars, cmd, networkCheck, account, requestVars,
                 failed>>

\* validateSignerIsOwner
CheckOwner ==
  /\ At("owner")
  /\ IF IsOwner(account) THEN GoTo("kit") ELSE Exit
  /\ UNCHANGED <<validationVars, ledgerVars, cmd, networkCheck, account, requestVars, failed>>

\* Safe.init
InitializeSafe ==
  /\ At("kit")
  /\ \/ Exit /\ UNCHANGED checkVars
     \/ /\ cmd.op \in ValidatorCommands
        /\ GoTo("validate") /\ Begin(ValidateChecks(Safe)) /\ UNCHANGED switchable
     \/ /\ cmd.op \notin ValidatorCommands
        /\ GoTo("work") /\ UNCHANGED checkVars
  /\ UNCHANGED <<beaconVars, ledgerVars, cmd, networkCheck, account, requestVars, failed>>

-----------------------------------------------------------------------------
(* The validation.                                                         *)

ValidationStep ==
  /\ Running
  /\ NextCheck \/ \E v \in Validators : ReadValidator(v)
  /\ UNCHANGED <<ledgerVars, runVars>>

ValidationFails ==
  /\ Running /\ CheckFails /\ Exit
  /\ UNCHANGED <<ledgerVars, cmd, networkCheck, account, requestVars, failed>>

\* The Safe mode goes on to its proposals, the direct mode to its pipeline.
Validated ==
  /\ At("validate") /\ ChecksPassed
  /\ GoTo(IF cmd.safe THEN "work" ELSE "pipeline")
  /\ UNCHANGED <<validationVars, ledgerVars, cmd, networkCheck, account, requestVars, failed>>

\* For a Ledger the pipeline reads the genesis time; an error there reaches main.
CreatePipeline ==
  /\ At("pipeline")
  /\ GoTo("work") \/ (cmd.ledger /\ Exit)
  /\ UNCHANGED <<validationVars, ledgerVars, cmd, networkCheck, account, requestVars, failed>>

-----------------------------------------------------------------------------
(* The requests.                                                           *)

\* The direct mode and the execution of Safe transactions send transactions, the
\* other commands of the Safe mode hand signatures to the service.
Sends == ~cmd.safe \/ cmd.op = "execute"

Signer == IF cmd.ledger THEN DeviceAccount ELSE account

TypeOf(r) == IF r \in Validators THEN credentials[r].type ELSE "none"

Submit(r) ==
  submitted' = submitted \cup {[on |-> r, by |-> Signer, type |-> TypeOf(r)]}

\* The next request; nonce, fees and gas of a transaction come from the node.
BeginRequest ==
  /\ At("work") /\ stage = "idle"
  /\ \E r \in requests : current' = r /\ requests' = requests \ {r}
  /\ stage' = IF Sends THEN "resolve" ELSE "sign"
  /\ UNCHANGED <<validationVars, ledgerVars, cmd, processVars, networkCheck, account,
                 submitted, failed>>

\* resolveTransactionParams, buildUnsignedTransaction
ResolveTransaction ==
  /\ At("work") /\ stage = "resolve" /\ stage' = "sign"
  /\ UNCHANGED <<validationVars, ledgerVars, cmd, processVars, networkCheck, account,
                 requests, current, submitted, failed>>

\* The user confirms a transaction on the device, or the key signs it.
SignTransaction ==
  /\ At("work") /\ stage = "sign" /\ Sends /\ stage' = "broadcast"
  /\ UNCHANGED <<validationVars, ledgerVars, cmd, processVars, networkCheck, account,
                 requests, current, submitted, failed>>

\* The same for a proposal or confirmation, whose signature goes to the service.
SignMessage ==
  /\ At("work") /\ stage = "sign" /\ ~Sends /\ stage' = "idle" /\ Submit(current)
  /\ UNCHANGED <<validationVars, ledgerVars, cmd, processVars, networkCheck, account,
                 requests, current, failed>>

\* broadcastTransaction, also when its reply is lost.
BroadcastSigned ==
  /\ At("work") /\ stage = "broadcast" /\ stage' = "idle" /\ Submit(current)
  /\ UNCHANGED <<validationVars, ledgerVars, cmd, processVars, networkCheck, account,
                 requests, current, failed>>

\* The node or the device fails, or the user rejects.
RequestFails ==
  /\ At("work") /\ stage # "idle" /\ stage' = "idle"
  /\ UNCHANGED <<validationVars, ledgerVars, cmd, processVars, networkCheck, account,
                 requests, current, submitted, failed>>

\* The work is done, given up, or ends with an error; in Safe mode the process
\* may end in the middle of it (withRateRetry, a user who aborts).
EndWork ==
  /\ At("work") /\ stage = "idle"
  /\ \/ failed' \in BOOLEAN /\ GoTo("dispose")
     \/ cmd.safe /\ Exit /\ UNCHANGED failed
  /\ UNCHANGED <<validationVars, ledgerVars, cmd, networkCheck, account, requestVars>>

\* The finally blocks dispose of the signer; main ends the process for an error.
Dispose ==
  /\ At("dispose")
  /\ \/ /\ link' = IF cmd.ledger THEN Disposed("signer") ELSE link
        /\ IF failed THEN Exit ELSE Return
     \/ cmd.ledger /\ Exit /\ UNCHANGED link
  /\ UNCHANGED <<validationVars, plugged, cmd, networkCheck, account, requestVars, failed>>

-----------------------------------------------------------------------------
(* The command and its surroundings.                                       *)

World ==
  /\ Running
  /\ \/ CredentialsChange /\ UNCHANGED ledgerVars
     \/ Swap /\ UNCHANGED validationVars
  /\ UNCHANGED runVars

CommandNext ==
  \/ Start \/ NetworkAnswers \/ PrechecksPassed \/ Connect \/ Preflight
  \/ ReadPrivateKey \/ AskForDevice \/ DeviceOpens \/ NoDevice \/ SelectAddress
  \/ SignerReady \/ SafeSignerReady \/ CheckOwner \/ InitializeSafe
  \/ ValidationStep \/ ValidationFails \/ Validated \/ CreatePipeline
  \/ BeginRequest \/ ResolveTransaction \/ SignTransaction \/ SignMessage
  \/ BroadcastSigned \/ RequestFails \/ EndWork \/ Dispose \/ World

CommandSpec == CommandInit /\ [][CommandNext]_commandVars
=============================================================================
