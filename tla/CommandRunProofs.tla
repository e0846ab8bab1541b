-------------------------- MODULE CommandRunProofs --------------------------
(***************************************************************************)
(* What a command promises, for all sets of validators, accounts, devices  *)
(* and commands.                                                           *)
(***************************************************************************)
EXTENDS CommandRunInvariant, TLAPS

\* The actions by what they work on.
Early == Start \/ NetworkAnswers \/ PrechecksPassed \/ Connect \/ Preflight
Signing ==
  \/ ReadPrivateKey \/ AskForDevice \/ DeviceOpens \/ NoDevice \/ SelectAddress
  \/ SignerReady \/ SafeSignerReady \/ CheckOwner \/ InitializeSafe
Validating == ValidationStep \/ ValidationFails \/ Validated
Working ==
  \/ CreatePipeline \/ BeginRequest \/ ResolveTransaction \/ SignTransaction
  \/ SignMessage \/ BroadcastSigned \/ RequestFails \/ EndWork \/ Dispose

-----------------------------------------------------------------------------
(* Transports.                                                             *)

\* Where a command stands says what is open.
LEMMA TransportStep ==
  ASSUME CommandTypes, TransportByPlace, ReturnsReleased, [CommandNext]_commandVars
  PROVE  TransportByPlace' /\ ReturnsReleased'
<1>. USE DEF ledgerVars, processVars, requestVars, runVars, validationVars, beaconVars,
         checkVars, Running, At, GoTo, Exit, Return, BeforeSigner, AfterSigner, Users
<1>0. link \in [Users -> Links]
  BY DEF CommandTypes, CommandTypeOK
<1>1. CASE Early
  BY <1>0, <1>1 DEF Early, Start, NetworkAnswers, PrechecksPassed, Connect, Preflight,
     TransportByPlace, ReturnsReleased
<1>2. CASE Signing
  BY <1>0, <1>2 DEF Signing, ReadPrivateKey, AskForDevice, DeviceOpens, NoDevice, SelectAddress,
     SignerReady, SafeSignerReady, CheckOwner, InitializeSafe, SignerKnown, Connecting, Opens,
     ConnectFails, Disposed, TransportByPlace, ReturnsReleased, Links
<1>3. CASE Validating
  BY <1>0, <1>3 DEF Validating, ValidationStep, ValidationFails, Validated,
     TransportByPlace, ReturnsReleased
<1>4. CASE Working
  BY <1>0, <1>4 DEF Working, CreatePipeline, BeginRequest, ResolveTransaction, SignTransaction,
     SignMessage, BroadcastSigned, RequestFails, EndWork, Dispose, Disposed,
     TransportByPlace, ReturnsReleased
<1>5. CASE World \/ UNCHANGED commandVars
  BY <1>0, <1>5 DEF World, Swap, CredentialsChange, commandVars, TransportByPlace, ReturnsReleased
<1>. QED
  BY <1>1, <1>2, <1>3, <1>4, <1>5 DEF CommandNext, Early, Signing, Validating, Working

-----------------------------------------------------------------------------
(* Types.                                                                  *)

\* A transport is in one of its states.
LEMMA LinkType ==
  ASSUME CommandTypes, [CommandNext]_commandVars
  PROVE  link' \in [Users -> Links] /\ plugged' \in Devices
<1>. USE DEF ledgerVars, runVars, validationVars, beaconVars
<1>0. link \in [Users -> Links] /\ plugged \in Devices
  BY DEF CommandTypes, CommandTypeOK
<1>1. \A u \in Users : /\ Connecting(u) \in [Users -> Links]
                       /\ Disposed(u) \in [Users -> Links]
                       /\ Opens(u) => link' \in [Users -> Links]
                       /\ ConnectFails(u) => link' \in [Users -> Links]
  BY <1>0 DEF Connecting, Disposed, Opens, ConnectFails, Links
<1>2. CASE Early
  BY <1>0, <1>2 DEF Early, Start, NetworkAnswers, PrechecksPassed, Connect, Preflight
<1>3. CASE Signing
  <2>1. {"selector", "signer"} \subseteq Users
    BY DEF Users
  <2>2. CASE AskForDevice \/ DeviceOpens \/ NoDevice \/ SelectAddress
    BY <1>0, <1>1, <2>1, <2>2 DEF AskForDevice, DeviceOpens, NoDevice, SelectAddress, Opens,
       ConnectFails
  <2>3. CASE ReadPrivateKey \/ SignerReady \/ SafeSignerReady \/ CheckOwner \/ InitializeSafe
    BY <1>0, <1>1, <2>1, <2>3 DEF ReadPrivateKey, SignerReady, SafeSignerReady, CheckOwner,
       InitializeSafe
  <2>. QED
    BY <1>3, <2>2, <2>3 DEF Signing
<1>4. CASE Validating
  BY <1>0, <1>4 DEF Validating, ValidationStep, ValidationFails, Validated
<1>5. CASE Working
  BY <1>0, <1>1, <1>5 DEF Working, CreatePipeline, BeginRequest, ResolveTransaction, SignTransaction,
     SignMessage, BroadcastSigned, RequestFails, EndWork, Dispose, Users
<1>6. CASE World \/ UNCHANGED commandVars
  BY <1>0, <1>6 DEF World, Swap, commandVars
<1>. QED
  BY <1>2, <1>3, <1>4, <1>5, <1>6 DEF CommandNext, Early, Signing, Validating, Working

\* A list of checks begins with its first one and nothing read.
LEMMA BeginType ==
  ASSUME NEW list \in Seq(Checks), Begin(list)
  PROVE  /\ checks' \in Seq(Checks)
         /\ checks' = <<>> => unread' = {}
         /\ unread' \subseteq Validators /\ offenders' = {}
<1>1. list # <<>> => Head(list) \in Checks
  OBVIOUS
<1>2. \A c \in Checks : c.of \subseteq Validators
  BY DEF Checks
<1>. QED
  BY <1>1, <1>2 DEF Begin, ToRead

\* The checks of the commands are checks.
LEMMA CheckLists ==
  ASSUME CommandTypes, cmd.op \in ValidatorCommands, NEW a \in Accounts
  PROVE  Prechecks \in Seq(Checks) /\ ValidateChecks(a) \in Seq(Checks)
<1>0. requests \subseteq Validators /\ Target \in Validators
  BY CommandRunAssumption DEF CommandTypes
<1>1. \A S \in SUBSET Validators, k \in Kinds, o \in Accounts \cup {NoAccount} :
        Check(k, S, o) \in Checks
  BY DEF Check, Checks
<1>2. Prechecks \in Seq(Checks)
  BY <1>0, <1>1 DEF Prechecks, ExitChecks, SwitchChecks, Kinds
<1>3. ConsolidateChecks(a) \in Seq(Checks)
  <2>. DEFINE T == requests \cup (IF cmd.skipTarget THEN {} ELSE {Target})
  <2>1. T \in SUBSET Validators
    BY <1>0
  <2>. HIDE DEF T
  <2>2. /\ Check("compounding", {Target}, NoAccount) \in Checks
        /\ Check("execution", requests, NoAccount) \in Checks
        /\ Check("ownership", T, a) \in Checks
    BY <1>0, <1>1, <2>1 DEF Kinds
  <2>. QED
    BY <2>2 DEF ConsolidateChecks, T
<1>4. WithdrawChecks(a) \in Seq(Checks)
  BY <1>0, <1>1 DEF WithdrawChecks, Kinds
<1>5. <<Check("ownership", requests, a)>> \in Seq(Checks)
  BY <1>0, <1>1 DEF Kinds
<1>. QED
  BY <1>2, <1>3, <1>4, <1>5 DEF ValidateChecks

\* What the checks hold is well-typed after every step.
LEMMA ChecksType ==
  ASSUME CommandTypes, SignerByPlace, [CommandNext]_commandVars
  PROVE  /\ checks' \in Seq(Checks)
         /\ checks' = <<>> => unread' = {}
         /\ unread' \subseteq Validators /\ offenders' \subseteq Validators
         /\ switchable' \subseteq Validators
<1>. USE DEF ledgerVars, processVars, requestVars, runVars, validationVars, beaconVars,
         checkVars, Running, At, GoTo, Exit, Return
<1>0. /\ checks \in Seq(Checks) /\ (checks = <<>> => unread = {})
      /\ unread \subseteq Validators /\ offenders \subseteq Validators
      /\ switchable \subseteq Validators /\ cmd \in Commands
  BY DEF CommandTypes, CommandTypeOK
<1>1. ASSUME NEW list \in Seq(Checks), Begin(list), UNCHANGED switchable
      PROVE  /\ checks' \in Seq(Checks) /\ (checks' = <<>> => unread' = {})
             /\ unread' \subseteq Validators /\ offenders' \subseteq Validators
             /\ switchable' \subseteq Validators
  BY <1>0, <1>1, BeginType
<1>2. ASSUME SignerKnown, account' \in Accounts
      PROVE  \/ UNCHANGED checkVars
             \/ \E list \in Seq(Checks) : Begin(list) /\ UNCHANGED switchable
  BY <1>0, <1>2, CheckLists, QueueCommands DEF SignerKnown
<1>3. DeviceAccount \in Accounts
  BY CommandRunAssumption DEF CommandTypes, CommandTypeOK, DeviceAccount
<1>4. CASE Start
  <2>1. Prechecks \in Seq(Checks)
    <3>1. CASE cmd.op \in ValidatorCommands
      BY <3>1, CheckLists, CommandRunAssumption
    <3>2. CASE cmd.op \notin ValidatorCommands
      BY <3>2 DEF Prechecks, ValidatorCommands
    <3>. QED
      BY <3>1, <3>2
  <2>. QED
    BY <1>0, <1>1, <1>4, <2>1 DEF Start
<1>5. CASE ReadPrivateKey
  BY <1>0, <1>1, <1>2, <1>5 DEF ReadPrivateKey
<1>6. CASE SignerReady
  BY <1>0, <1>1, <1>2, <1>3, <1>6 DEF SignerReady, OnDevice
<1>7. CASE SafeSignerReady
  BY <1>0, <1>7 DEF SafeSignerReady, SignerKnown
<1>8. CASE InitializeSafe
  <2>1. cmd.op \in ValidatorCommands => ValidateChecks(Safe) \in Seq(Checks)
    BY CheckLists, CommandRunAssumption
  <2>. QED
    BY <1>0, <1>1, <1>8, <2>1 DEF InitializeSafe
<1>9. CASE ValidationStep
  <2>1. CASE NextCheck
    <3>1. Tail(checks) \in Seq(Checks)
      BY <1>0, <2>1 DEF NextCheck
    <3>2. ToRead(Tail(checks)) \subseteq Validators
      <4>1. Tail(checks) # <<>> => Head(Tail(checks)) \in Checks
        BY <3>1
      <4>. QED
        BY <4>1 DEF ToRead, Checks
    <3>. QED
      BY <1>0, <2>1, <3>1, <3>2 DEF NextCheck, ToRead
  <2>2. CASE \E v \in Validators : ReadValidator(v)
    BY <1>0, <2>2 DEF ReadValidator, Collected
  <2>. QED
    BY <1>9, <2>1, <2>2 DEF ValidationStep
<1>10. CASE UNCHANGED checkVars
  BY <1>0, <1>10
<1>11. CASE NetworkAnswers \/ PrechecksPassed \/ Connect \/ Preflight
  BY <1>10, <1>11 DEF NetworkAnswers, PrechecksPassed, Connect, Preflight
<1>12. CASE AskForDevice \/ DeviceOpens \/ NoDevice \/ SelectAddress \/ CheckOwner
  BY <1>10, <1>12 DEF AskForDevice, DeviceOpens, NoDevice, SelectAddress, CheckOwner
<1>13. CASE ValidationFails \/ Validated
  BY <1>10, <1>13 DEF ValidationFails, CheckFails, Validated
<1>14. CASE Working
  BY <1>10, <1>14 DEF Working, CreatePipeline, BeginRequest, ResolveTransaction,
     SignTransaction, SignMessage, BroadcastSigned, RequestFails, EndWork, Dispose
<1>15. CASE World \/ UNCHANGED commandVars
  BY <1>10, <1>15 DEF World, CredentialsChange, commandVars
<1>. QED
  BY <1>4, <1>5, <1>6, <1>7, <1>8, <1>9, <1>11, <1>12, <1>13, <1>14, <1>15
     DEF CommandNext, Working

\* Only two actions submit a request.
LEMMA Submissions ==
  ASSUME [CommandNext]_commandVars, ~SignMessage, ~BroadcastSigned
  PROVE  submitted' = submitted
<1>. USE DEF processVars, requestVars, runVars
<1>1. CASE Early
  BY <1>1 DEF Early, Start, NetworkAnswers, PrechecksPassed, Connect, Preflight
<1>2. CASE Signing
  BY <1>2 DEF Signing, ReadPrivateKey, AskForDevice, DeviceOpens, NoDevice,
     SelectAddress, SignerReady, SafeSignerReady, CheckOwner, InitializeSafe
<1>3. CASE Validating
  BY <1>3 DEF Validating, ValidationStep, ValidationFails, Validated
<1>4. CASE Working
  BY <1>4 DEF Working, CreatePipeline, BeginRequest, ResolveTransaction,
     SignTransaction, RequestFails, EndWork, Dispose
<1>5. CASE World \/ UNCHANGED commandVars
  BY <1>5 DEF World, commandVars
<1>. QED
  BY <1>1, <1>2, <1>3, <1>4, <1>5 DEF CommandNext, Early, Signing, Validating, Working

\* Credentials only grow: an account once named stays, so does a compounding
\* validator, and a validator that was kept for a switch had an account.
LEMMA Growth ==
  ASSUME CommandTypes, [CommandNext]_commandVars
  PROVE  /\ credentials' \in [Validators -> Credentials]
         /\ \A v \in Validators :
              /\ credentials[v].type # "0x00" =>
                   credentials'[v].type # "0x00" /\ credentials'[v].owner = credentials[v].owner
              /\ credentials[v].type = "0x02" => credentials'[v].type = "0x02"
         /\ \A v \in switchable' : credentials'[v].type # "0x00"
         /\ lapsed' \subseteq Validators
<1>. USE DEF ledgerVars, validationVars, beaconVars, checkVars
<1>0. /\ credentials \in [Validators -> Credentials] /\ switchable \subseteq Validators
      /\ \A v \in switchable : credentials[v].type # "0x00"
      /\ lapsed \subseteq Validators
  BY DEF CommandTypes, CommandTypeOK
<1>1. CASE UNCHANGED <<credentials, switchable, lapsed>>
  BY <1>0, <1>1
<1>2. CASE CredentialsChange
  <2>1. PICK v \in Validators :
          \/ /\ credentials[v].type = "0x00"
             /\ \E a \in Accounts :
                  credentials' = [credentials EXCEPT ![v] = [type |-> "0x01", owner |-> a]]
             /\ UNCHANGED lapsed
          \/ /\ credentials[v].type = "0x01"
             /\ credentials' =
                  [credentials EXCEPT ![v] = [type |-> "0x02", owner |-> credentials[v].owner]]
             /\ lapsed' = lapsed \cup ({v} \cap switchable)
    BY <1>2 DEF CredentialsChange
  <2>2. switchable' = switchable
    BY <1>2 DEF CredentialsChange
  <2>3. credentials[v] \in Credentials
    BY <1>0
  <2>4. credentials[v].type = "0x01" => credentials[v].owner \in Accounts
    BY <2>3 DEF Credentials, Bls
  <2>. QED
    BY <1>0, <2>1, <2>2, <2>4 DEF Credentials
<1>3. CASE ValidationStep
  BY <1>0, <1>3 DEF ValidationStep, NextCheck, ReadValidator, IsSwitchable
<1>4. CASE Early
  BY <1>1, <1>4 DEF Early, Start, NetworkAnswers, PrechecksPassed, Connect, Preflight
<1>5. CASE Signing
  BY <1>1, <1>5 DEF Signing, ReadPrivateKey, AskForDevice, DeviceOpens, NoDevice,
     SelectAddress, SignerReady, SafeSignerReady, CheckOwner, InitializeSafe, SignerKnown
<1>6. CASE ValidationFails \/ Validated
  BY <1>1, <1>6 DEF ValidationFails, CheckFails, Validated
<1>7. CASE Working
  BY <1>1, <1>7 DEF Working, CreatePipeline, BeginRequest, ResolveTransaction,
     SignTransaction, SignMessage, BroadcastSigned, RequestFails, EndWork, Dispose
<1>8. CASE World \/ UNCHANGED commandVars
  BY <1>1, <1>2, <1>8 DEF World, commandVars
<1>. QED
  BY <1>3, <1>4, <1>5, <1>6, <1>7, <1>8 DEF CommandNext, Early, Signing, Validating, Working

\* Every variable of a command keeps its type.
LEMMA TypesStep ==
  ASSUME CommandTypes, SignerByPlace, [CommandNext]_commandVars
  PROVE  CommandTypes'
<1>. USE DEF ledgerVars, processVars, requestVars, runVars, validationVars, beaconVars,
         checkVars, Running, At, GoTo, Exit, Return
<1>0. CommandTypeOK
  BY DEF CommandTypes
<1>1. pc' \in Places /\ process' \in {"running", "exited", "returned"}
  <2>0. pc \in Places /\ process \in {"running", "exited", "returned"}
    BY <1>0 DEF CommandTypeOK
  <2>1. CASE Early
    BY <2>0, <2>1 DEF Early, Start, NetworkAnswers, PrechecksPassed, Connect, Preflight, Places
  <2>2. CASE Signing
    BY <2>0, <2>2 DEF Signing, ReadPrivateKey, AskForDevice, DeviceOpens, NoDevice,
       SelectAddress, SignerReady, SafeSignerReady, CheckOwner, InitializeSafe, SignerKnown,
       Places
  <2>3. CASE Validating
    BY <2>0, <2>3 DEF Validating, ValidationStep, ValidationFails, Validated, Places
  <2>4. CASE Working
    BY <2>0, <2>4 DEF Working, CreatePipeline, BeginRequest, ResolveTransaction,
       SignTransaction, SignMessage, BroadcastSigned, RequestFails, EndWork, Dispose, Places
  <2>5. CASE World \/ UNCHANGED commandVars
    BY <2>0, <2>5 DEF World, commandVars
  <2>. QED
    BY <2>1, <2>2, <2>3, <2>4, <2>5 DEF CommandNext, Early, Signing, Validating, Working
<1>2. /\ cmd' = cmd
      /\ networkCheck' \in {"asked", "answered"} /\ failed' \in BOOLEAN
  <2>0. networkCheck \in {"asked", "answered"} /\ failed \in BOOLEAN
    BY <1>0 DEF CommandTypeOK
  <2>1. CASE Early
    BY <2>0, <2>1 DEF Early, Start, NetworkAnswers, PrechecksPassed, Connect, Preflight
  <2>2. CASE Signing
    BY <2>0, <2>2 DEF Signing, ReadPrivateKey, AskForDevice, DeviceOpens, NoDevice,
       SelectAddress, SignerReady, SafeSignerReady, CheckOwner, InitializeSafe
  <2>3. CASE Validating
    BY <2>0, <2>3 DEF Validating, ValidationStep, ValidationFails, Validated
  <2>4. CASE Working
    BY <2>0, <2>4 DEF Working, CreatePipeline, BeginRequest, ResolveTransaction,
       SignTransaction, SignMessage, BroadcastSigned, RequestFails, EndWork, Dispose
  <2>5. CASE World \/ UNCHANGED commandVars
    BY <2>0, <2>5 DEF World, commandVars
  <2>. QED
    BY <2>1, <2>2, <2>3, <2>4, <2>5 DEF CommandNext, Early, Signing, Validating, Working
<1>3. account' \in Accounts \cup {NoAccount}
  <2>0. account \in Accounts \cup {NoAccount}
    BY <1>0 DEF CommandTypeOK
  <2>1. DeviceAccount \in Accounts
    BY <1>0, CommandRunAssumption DEF CommandTypeOK, DeviceAccount
  <2>2. CASE Signing
    BY <2>0, <2>1, <2>2 DEF Signing, ReadPrivateKey, AskForDevice, DeviceOpens, NoDevice,
       SelectAddress, SignerReady, SafeSignerReady, CheckOwner, InitializeSafe, OnDevice
  <2>3. CASE Early \/ Validating
    BY <2>0, <2>3 DEF Early, Start, NetworkAnswers, PrechecksPassed, Connect, Preflight,
       Validating, ValidationStep, ValidationFails, Validated
  <2>4. CASE Working
    BY <2>0, <2>4 DEF Working, CreatePipeline, BeginRequest, ResolveTransaction,
       SignTransaction, SignMessage, BroadcastSigned, RequestFails, EndWork, Dispose
  <2>5. CASE World \/ UNCHANGED commandVars
    BY <2>0, <2>5 DEF World, commandVars
  <2>. QED
    BY <2>2, <2>3, <2>4, <2>5 DEF CommandNext, Early, Signing, Validating, Working
<1>4. /\ requests' \subseteq Validators \cup {Queue}
      /\ cmd.op \in ValidatorCommands => requests' \subseteq Validators
      /\ current' \in Validators \cup {Queue} /\ stage' \in Stages
  <2>0. /\ requests \subseteq Validators \cup {Queue}
        /\ cmd.op \in ValidatorCommands => requests \subseteq Validators
        /\ current \in Validators \cup {Queue} /\ stage \in Stages
        /\ switchable \subseteq Validators
    BY <1>0 DEF CommandTypes, CommandTypeOK
  <2>1. CASE Early
    BY <2>0, <2>1 DEF Early, Start, NetworkAnswers, PrechecksPassed, Connect, Preflight
  <2>2. CASE Signing
    BY <2>0, <2>2 DEF Signing, ReadPrivateKey, AskForDevice, DeviceOpens, NoDevice,
       SelectAddress, SignerReady, SafeSignerReady, CheckOwner, InitializeSafe
  <2>3. CASE Validating
    BY <2>0, <2>3 DEF Validating, ValidationStep, ValidationFails, Validated
  <2>4. CASE Working
    BY <2>0, <2>4 DEF Working, CreatePipeline, BeginRequest, ResolveTransaction,
       SignTransaction, SignMessage, BroadcastSigned, RequestFails, EndWork, Dispose, Stages
  <2>5. CASE World \/ UNCHANGED commandVars
    BY <2>0, <2>5 DEF World, commandVars
  <2>. QED
    BY <2>1, <2>2, <2>3, <2>4, <2>5 DEF CommandNext, Early, Signing, Validating, Working
<1>5. submitted' \subseteq [on : Validators \cup {Queue}, by : Accounts,
                            type : {"0x00", "0x01", "0x02", "none"}]
  <2>1. /\ submitted \subseteq [on : Validators \cup {Queue}, by : Accounts,
                               type : {"0x00", "0x01", "0x02", "none"}]
        /\ current \in Validators \cup {Queue}
        /\ TypeOf(current) \in {"0x00", "0x01", "0x02", "none"}
    BY <1>0 DEF CommandTypeOK, TypeOf, Credentials, Bls
  <2>2. At("work") => Signer \in Accounts
    BY <1>0, CommandRunAssumption DEF CommandTypeOK, Signer, DeviceAccount, SignerByPlace, AfterSigner
  <2>3. CASE SignMessage \/ BroadcastSigned
    BY <2>1, <2>2, <2>3 DEF SignMessage, BroadcastSigned, Submit
  <2>. QED
    BY <2>1, <2>3, Submissions
<1>6. credentials' \in [Validators -> Credentials]
  BY <1>0, Growth DEF CommandTypeOK
<1>7. lapsed' \subseteq Validators /\ \A v \in switchable' : credentials'[v].type # "0x00"
  BY <1>0, Growth DEF CommandTypeOK, CommandTypes
<1>. QED
  BY <1>0, <1>1, <1>2, <1>3, <1>4, <1>5, <1>6, <1>7, LinkType, ChecksType DEF CommandTypes, CommandTypeOK

-----------------------------------------------------------------------------
(* The signer.                                                             *)

\* Whose account is known where, and who signs.
LEMMA SignerStep ==
  ASSUME CommandTypes, TransportByPlace, SignerByPlace, OwnerSigns, [CommandNext]_commandVars
  PROVE  SignerByPlace' /\ OwnerSigns'
<1>. USE DEF ledgerVars, processVars, requestVars, runVars, validationVars, beaconVars,
         checkVars, Running, At, GoTo, Exit, Return, BeforeSigner, AfterSigner, Users,
         SignerByPlace, OwnerSigns, DeviceAccount
<1>0. /\ plugged \in Devices /\ account \in Accounts \cup {NoAccount}
      /\ DerivedAccount[plugged] \in Accounts
  BY CommandRunAssumption DEF CommandTypes, CommandTypeOK
<1>1. CASE UNCHANGED <<cmd, account, submitted, plugged, pc>>
  BY <1>1
<1>2. CASE Early
  BY <1>0, <1>2 DEF Early, Start, NetworkAnswers, PrechecksPassed, Connect, Preflight
<1>3. CASE ReadPrivateKey
  BY <1>0, <1>3 DEF ReadPrivateKey, SignerKnown
<1>4. CASE SignerReady
  BY <1>0, <1>4 DEF SignerReady, SignerKnown, OnDevice
<1>5. CASE AskForDevice \/ SelectAddress \/ SafeSignerReady
  BY <1>0, <1>5 DEF AskForDevice, SelectAddress, SafeSignerReady, SignerKnown
<1>6. CASE DeviceOpens \/ NoDevice
  BY <1>1, <1>6 DEF DeviceOpens, Opens, NoDevice, ConnectFails
<1>7. CASE CheckOwner \/ InitializeSafe
  BY <1>0, <1>7 DEF CheckOwner, IsOwner, InitializeSafe
<1>8. CASE Validating
  BY <1>0, <1>8 DEF Validating, ValidationStep, ValidationFails, Validated
<1>9. CASE SignMessage \/ BroadcastSigned
  BY <1>0, <1>9 DEF SignMessage, BroadcastSigned, Submit, Signer
<1>10. CASE CreatePipeline \/ BeginRequest \/ ResolveTransaction \/ SignTransaction
            \/ RequestFails \/ EndWork \/ Dispose
  BY <1>0, <1>10 DEF CreatePipeline, BeginRequest, ResolveTransaction, SignTransaction,
     RequestFails, EndWork, Dispose
<1>11. CASE World
  <2>1. CASE Swap
    BY <1>0, <1>11, <2>1 DEF World, Swap, TransportByPlace
  <2>2. CASE UNCHANGED ledgerVars
    BY <1>1, <1>11, <2>2 DEF World
  <2>. QED
    BY <1>11, <2>1, <2>2 DEF World
<1>12. CASE UNCHANGED commandVars
  BY <1>1, <1>12 DEF commandVars
<1>. QED
  BY <1>2, <1>3, <1>4, <1>5, <1>6, <1>7, <1>8, <1>9, <1>10, <1>11, <1>12
     DEF CommandNext, Early, Signing, Validating, Working

\* Requests are being made during the work only.
LEMMA WorkStep ==
  ASSUME OnlyAtWork, [CommandNext]_commandVars
  PROVE  OnlyAtWork'
<1>. USE DEF ledgerVars, processVars, requestVars, runVars, validationVars, beaconVars,
         Running, At, GoTo, Exit, Return, OnlyAtWork
<1>1. CASE Early
  BY <1>1 DEF Early, Start, NetworkAnswers, PrechecksPassed, Connect, Preflight
<1>2. CASE Signing
  BY <1>2 DEF Signing, ReadPrivateKey, AskForDevice, DeviceOpens, NoDevice, SelectAddress,
     SignerReady, SafeSignerReady, CheckOwner, InitializeSafe, SignerKnown
<1>3. CASE Validating
  BY <1>3 DEF Validating, ValidationStep, ValidationFails, Validated
<1>4. CASE Working
  BY <1>4 DEF Working, CreatePipeline, BeginRequest, ResolveTransaction, SignTransaction,
     SignMessage, BroadcastSigned, RequestFails, EndWork, Dispose
<1>5. CASE World \/ UNCHANGED commandVars
  BY <1>5 DEF World, commandVars
<1>. QED
  BY <1>1, <1>2, <1>3, <1>4, <1>5 DEF CommandNext, Early, Signing, Validating, Working

\* The queue stays the matter of the commands on the queue.
LEMMA QueueStep ==
  ASSUME CommandTypes, QueueOnly, [CommandNext]_commandVars
  PROVE  QueueOnly'
<1>. USE DEF ledgerVars, processVars, requestVars, runVars, validationVars, beaconVars,
         Running, At, GoTo, Exit, Return, QueueOnly
<1>0. cmd \in Commands
  BY DEF CommandTypes, CommandTypeOK
<1>1. CASE Early
  BY <1>0, <1>1 DEF Early, Start, NetworkAnswers, PrechecksPassed, Connect, Preflight, ValidatorCommands
<1>2. CASE Signing
  BY <1>0, <1>2, QueueCommands DEF Signing, ReadPrivateKey, AskForDevice, DeviceOpens, NoDevice,
     SelectAddress, SignerReady, SafeSignerReady, CheckOwner, InitializeSafe, SignerKnown
<1>3. CASE Validating
  BY <1>0, <1>3 DEF Validating, ValidationStep, ValidationFails, Validated
<1>4. CASE Working
  BY <1>0, <1>4 DEF Working, CreatePipeline, BeginRequest, ResolveTransaction, SignTransaction,
     SignMessage, BroadcastSigned, RequestFails, EndWork, Dispose, Submit
<1>5. CASE World \/ UNCHANGED commandVars
  BY <1>0, <1>5 DEF World, commandVars
<1>. QED
  BY <1>1, <1>2, <1>3, <1>4, <1>5 DEF CommandNext, Early, Signing, Validating, Working

-----------------------------------------------------------------------------
(* The validation.                                                         *)

\* What each kind of check asks for.
LEMMA OffendsByKind ==
  ASSUME NEW check, NEW c
  PROVE  /\ check.kind = "compounding" => (Offends(check, c) <=> c.type # "0x02")
         /\ check.kind \in {"execution", "switchable"} => (Offends(check, c) <=> c.type = "0x00")
         /\ check.kind = "ownership" => (Offends(check, c) <=> c.owner # check.owner)
BY DEF Offends

\* A check that a validator has passed stays passed.
LEMMA PassedStays ==
  ASSUME CommandTypes, [CommandNext]_commandVars,
         NEW check \in Checks, Lasting(check), NEW v \in Validators, Passes(check, v)
  PROVE  ~Offends(check, credentials'[v])
<1>1. /\ credentials[v].type # "0x00" =>
           credentials'[v].type # "0x00" /\ credentials'[v].owner = credentials[v].owner
      /\ credentials[v].type = "0x02" => credentials'[v].type = "0x02"
  BY Growth
<1>2. credentials[v].type = "0x00" => credentials[v].owner = NoAccount
  BY DEF CommandTypes, CommandTypeOK, Credentials, Bls
<1>3. check.kind \in Kinds
  BY DEF Checks
<1>4. Passes(check, v) <=> ~Offends(check, credentials[v])
  BY DEF Passes
<1>5. CASE check.kind = "ownership"
  <2>1. credentials[v].owner = check.owner /\ check.owner \in Accounts
    BY <1>4, <1>5, OffendsByKind DEF Lasting
  <2>2. credentials'[v].owner = check.owner
    BY <1>1, <1>2, <2>1, CommandRunAssumption
  <2>. QED
    BY <1>5, <2>2, OffendsByKind
<1>6. CASE check.kind \in {"execution", "switchable"}
  BY <1>1, <1>4, <1>6, OffendsByKind
<1>7. CASE check.kind = "compounding"
  BY <1>1, <1>4, <1>7, OffendsByKind
<1>. QED
  BY <1>3, <1>5, <1>6, <1>7 DEF Kinds

\* What the commands check for is lasting.
LEMMA ListsLast ==
  ASSUME NEW a \in Accounts
  PROVE  /\ \A i \in DOMAIN Prechecks : Lasting(Prechecks[i])
         /\ \A i \in DOMAIN ValidateChecks(a) : Lasting(ValidateChecks(a)[i])
<1>1. \A i \in DOMAIN ConsolidateChecks(a) : Lasting(ConsolidateChecks(a)[i])
  BY DEF ConsolidateChecks, Check, Lasting
<1>2. \A i \in DOMAIN WithdrawChecks(a) : Lasting(WithdrawChecks(a)[i])
  BY DEF WithdrawChecks, Check, Lasting
<1>3. \A i \in DOMAIN <<Check("ownership", requests, a)>> :
        Lasting(<<Check("ownership", requests, a)>>[i])
  BY DEF Check, Lasting
<1>4. /\ \A i \in DOMAIN ExitChecks : Lasting(ExitChecks[i])
      /\ \A i \in DOMAIN SwitchChecks : Lasting(SwitchChecks[i])
  BY DEF ExitChecks, SwitchChecks, Check, Lasting
<1>5. /\ cmd.op = "exit" => Prechecks = ExitChecks
      /\ cmd.op = "switch" => Prechecks = SwitchChecks
      /\ cmd.op \notin {"exit", "switch"} => Prechecks = <<>>
  BY DEF Prechecks
<1>6. /\ cmd.op = "consolidate" => ValidateChecks(a) = ConsolidateChecks(a)
      /\ cmd.op = "withdraw" => ValidateChecks(a) = WithdrawChecks(a)
      /\ cmd.op \notin {"consolidate", "withdraw"} =>
           ValidateChecks(a) = <<Check("ownership", requests, a)>>
  BY DEF ValidateChecks
<1>. QED
  BY <1>1, <1>2, <1>3, <1>4, <1>5, <1>6

\* What a step does to the checks.
LEMMA CheckSteps ==
  ASSUME CommandTypes, SignerByPlace, QueueOnly, [CommandNext]_commandVars
  PROVE  \/ /\ UNCHANGED <<checks, unread, offenders>>
            /\ pc' = "validate" => UNCHANGED <<pc, cmd, account, requests>>
         \/ Begin(Prechecks) /\ pc' # "validate"
         \/ /\ Begin(ValidateChecks(OnBehalf')) /\ OnBehalf' \in Accounts
            /\ UNCHANGED <<cmd, requests>>
         \/ NextCheck /\ UNCHANGED <<pc, cmd, account, requests>>
         \/ /\ \E v \in Validators : ReadValidator(v)
            /\ UNCHANGED <<pc, cmd, account, requests>>
<1>. USE DEF ledgerVars, processVars, requestVars, runVars, validationVars, beaconVars,
         checkVars, Running, At, GoTo, Exit, Return
<1>0. /\ cmd \in Commands /\ Safe \in Accounts
      /\ DeviceAccount \in Accounts
  BY CommandRunAssumption DEF CommandTypes, CommandTypeOK, DeviceAccount
<1>1. CASE Early
  BY <1>1 DEF Early, Start, NetworkAnswers, PrechecksPassed, Connect, Preflight
<1>2. CASE ReadPrivateKey
  BY <1>0, <1>2 DEF ReadPrivateKey, SignerKnown, OnBehalf
<1>3. CASE SignerReady
  BY <1>0, <1>3 DEF SignerReady, SignerKnown, OnBehalf, OnDevice
<1>4. CASE InitializeSafe
  BY <1>0, <1>4 DEF InitializeSafe, OnBehalf, SignerByPlace
<1>5. CASE AskForDevice \/ DeviceOpens \/ NoDevice \/ SelectAddress \/ SafeSignerReady \/ CheckOwner
  BY <1>5 DEF AskForDevice, DeviceOpens, NoDevice, SelectAddress, SafeSignerReady, CheckOwner,
     SignerKnown
<1>6. CASE Validating
  BY <1>6 DEF Validating, ValidationStep, ValidationFails, CheckFails, Validated
<1>7. CASE Working
  BY <1>7 DEF Working, CreatePipeline, BeginRequest, ResolveTransaction, SignTransaction,
     SignMessage, BroadcastSigned, RequestFails, EndWork, Dispose
<1>8. CASE World \/ UNCHANGED commandVars
  BY <1>8 DEF World, CredentialsChange, commandVars
<1>. QED
  BY <1>1, <1>2, <1>3, <1>4, <1>5, <1>6, <1>7, <1>8 DEF CommandNext, Early, Signing, Validating, Working

\* Whoever has been read has passed or is an offender.
LEMMA ReadStep ==
  ASSUME CommandTypes, SignerByPlace, QueueOnly, ReadSoFar, [CommandNext]_commandVars
  PROVE  ReadSoFar'
<1>0. checks \in Seq(Checks) /\ \A i \in DOMAIN checks : Lasting(checks[i])
  BY DEF CommandTypes, ReadSoFar
<1>1. CASE UNCHANGED <<checks, unread, offenders>>
  <2>1. CASE checks = <<>>
    BY <1>1, <2>1 DEF ReadSoFar, Lasting
  <2>2. CASE checks # <<>>
    <3>1. Head(checks) \in Checks /\ Lasting(Head(checks))
      BY <1>0, <2>2
    <3>2. \A v \in Head(checks).of : v \in Validators
      BY <3>1 DEF Checks
    <3>3. \A v \in Head(checks).of : Passes(Head(checks), v) => ~Offends(Head(checks), credentials'[v])
      BY <3>1, <3>2, PassedStays
    <3>. QED
      BY <1>0, <1>1, <2>2, <3>3 DEF ReadSoFar, Lasting, Passes
  <2>. QED
    BY <2>1, <2>2
<1>2. ASSUME NEW list, Begin(list), \A i \in DOMAIN list : Lasting(list[i])
      PROVE  ReadSoFar'
  BY <1>2 DEF Begin, ToRead, ReadSoFar, Lasting
<1>3. CASE Begin(Prechecks)
  BY <1>2, <1>3, ListsLast, CommandRunAssumption
<1>4. CASE Begin(ValidateChecks(OnBehalf')) /\ OnBehalf' \in Accounts
  BY <1>2, <1>4, ListsLast
<1>5. CASE NextCheck
  <2>1. Tail(checks) \in Seq(Checks) /\ \A i \in DOMAIN Tail(checks) : Lasting(Tail(checks)[i])
    BY <1>0, <1>5 DEF NextCheck
  <2>. QED
    BY <1>5, <2>1 DEF NextCheck, ToRead, ReadSoFar, Lasting
<1>6. CASE \E v \in Validators : ReadValidator(v)
  <2>1. PICK v \in Validators : ReadValidator(v)
    BY <1>6
  <2>2. /\ UNCHANGED <<credentials, checks>> /\ unread' = unread \ {v}
        /\ offenders' = IF Offends(Head(checks), credentials[v]) THEN offenders \cup {v} ELSE offenders
    BY <2>1 DEF ReadValidator, Collected, beaconVars
  <2>. QED
    BY <1>0, <2>2 DEF ReadSoFar, Lasting, Passes
<1>. QED
  BY <1>1, <1>3, <1>4, <1>5, <1>6, CheckSteps

\* What was checked has passed for good; the rest is still to come.
LEMMA ValidationStepKeeps ==
  ASSUME CommandTypes, SignerByPlace, QueueOnly, ReadSoFar, ValidationByPlace,
         [CommandNext]_commandVars
  PROVE  ValidationByPlace'
<1>. DEFINE Now(c) == \A v \in c.of : ~Offends(c, credentials'[v])
            Asked == ValidateChecks(OnBehalf)
<1>0. \/ pc' # "validate"
      \/ \A i \in DOMAIN Asked' :
           Now(Asked'[i]) \/ \E j \in DOMAIN checks' : checks'[j] = Asked'[i]
  <2>. SUFFICES ASSUME pc' = "validate"
                PROVE  \A i \in DOMAIN Asked' :
                         Now(Asked'[i]) \/ \E j \in DOMAIN checks' : checks'[j] = Asked'[i]
    OBVIOUS
  <2>1. CASE Begin(ValidateChecks(OnBehalf')) /\ UNCHANGED <<cmd, requests>>
    <3>1. Asked' = ValidateChecks(OnBehalf')
      BY <2>1 DEF ValidateChecks, ConsolidateChecks, WithdrawChecks
    <3>. QED
      BY <2>1, <3>1 DEF Begin
  <2>2. ASSUME UNCHANGED <<pc, cmd, account, requests>>
        PROVE  /\ Asked' = Asked
               /\ \A i \in DOMAIN Asked : HasPassed(Asked[i]) => Now(Asked[i])
               /\ \A i \in DOMAIN Asked :
                    HasPassed(Asked[i]) \/ \E j \in DOMAIN checks : checks[j] = Asked[i]
    <3>1. pc = "validate" /\ cmd.op \in ValidatorCommands /\ OnBehalf \in Accounts
      BY <2>2, CommandRunAssumption DEF QueueOnly, SignerByPlace, AfterSigner, OnBehalf
    <3>2. OnBehalf' = OnBehalf
      BY <2>2 DEF OnBehalf
    <3>3. Asked' = Asked
      BY <2>2, <3>2 DEF ValidateChecks, ConsolidateChecks, WithdrawChecks
    <3>4. ASSUME NEW check \in Checks, Lasting(check), HasPassed(check)
          PROVE  Now(check)
      <4>1. \A v \in check.of : v \in Validators /\ Passes(check, v)
        BY <3>4 DEF Checks, HasPassed
      <4>. QED
        BY <3>4, <4>1, PassedStays
    <3>5. \A i \in DOMAIN Asked : Asked[i] \in Checks /\ Lasting(Asked[i])
      BY <3>1, CheckLists, ListsLast
    <3>. QED
      BY <3>1, <3>3, <3>4, <3>5 DEF ValidationByPlace
  <2>3. CASE UNCHANGED checks /\ UNCHANGED <<pc, cmd, account, requests>>
    BY <2>2, <2>3
  <2>4. CASE NextCheck /\ UNCHANGED <<pc, cmd, account, requests>>
    <3>1. /\ checks # <<>> /\ checks' = Tail(checks) /\ checks \in Seq(Checks)
          /\ unread = {} /\ offenders = {}
      BY <2>4 DEF NextCheck, CommandTypes
    <3>2. HasPassed(Head(checks))
      BY <3>1 DEF ReadSoFar, HasPassed
    <3>3. \A j \in DOMAIN checks :
            checks[j] = Head(checks) \/ \E k \in DOMAIN checks' : checks'[k] = checks[j]
      <4>1. ASSUME NEW j \in DOMAIN checks, j # 1
            PROVE  j - 1 \in DOMAIN Tail(checks) /\ Tail(checks)[j - 1] = checks[j]
        BY <3>1, <4>1
      <4>2. Head(checks) = checks[1]
        BY <3>1
      <4>3. ASSUME NEW j \in DOMAIN checks, j # 1
            PROVE  \E k \in DOMAIN checks' : checks'[k] = checks[j]
        BY <3>1, <4>1, <4>3
      <4>. QED
        BY <4>2, <4>3
    <3>. QED
      BY <2>2, <2>4, <3>2, <3>3
  <2>5. CASE (\E v \in Validators : ReadValidator(v)) /\ UNCHANGED <<pc, cmd, account, requests>>
    BY <2>2, <2>5 DEF ReadValidator
  <2>. QED
    BY <2>1, <2>3, <2>4, <2>5, CheckSteps
<1>. QED
  BY <1>0 DEF ValidationByPlace, HasPassed, Passes

\* A request concerns no validator that it did not concern before.
LEMMA ConcernedShrinks ==
  ASSUME [CommandNext]_commandVars, pc' \in {"pipeline", "work", "dispose"},
         ~Validated, ~InitializeSafe
  PROVE  /\ pc \in {"pipeline", "work", "dispose"}
         /\ UNCHANGED <<cmd, account>> /\ Concerned' \subseteq Concerned
<1>. USE DEF ledgerVars, processVars, requestVars, runVars, validationVars, beaconVars,
         Running, At, GoTo, Exit, Return, Concerned
<1>1. CASE Early
  BY <1>1 DEF Early, Start, NetworkAnswers, PrechecksPassed, Connect, Preflight
<1>2. CASE Signing
  BY <1>2 DEF Signing, ReadPrivateKey, AskForDevice, DeviceOpens, NoDevice, SelectAddress,
     SignerReady, SafeSignerReady, CheckOwner, SignerKnown
<1>3. CASE Validating
  BY <1>3 DEF Validating, ValidationStep, ValidationFails
<1>4. CASE BeginRequest
  BY <1>4 DEF BeginRequest
<1>5. CASE SignMessage \/ BroadcastSigned
  BY <1>5 DEF SignMessage, BroadcastSigned, Submit
<1>6. CASE CreatePipeline \/ ResolveTransaction \/ SignTransaction \/ RequestFails \/ EndWork \/ Dispose
  BY <1>6 DEF CreatePipeline, ResolveTransaction, SignTransaction, RequestFails, EndWork, Dispose
<1>7. CASE World \/ UNCHANGED commandVars
  BY <1>7 DEF World, commandVars
<1>. QED
  BY <1>1, <1>2, <1>3, <1>4, <1>5, <1>6, <1>7 DEF CommandNext, Early, Signing, Validating, Working

\* A validator that is eligible for an account stays eligible for it.
LEMMA EligibleStays ==
  ASSUME CommandTypes, [CommandNext]_commandVars, OnBehalf \in Accounts,
         UNCHANGED <<cmd, account>>, NEW v \in Validators, EligibleOn(v)
  PROVE  EligibleOn(v)'
<1>1. \A w \in Validators : credentials[w].owner \in Accounts => credentials[w].type # "0x00"
  BY CommandRunAssumption DEF CommandTypes, CommandTypeOK, Credentials, Bls
<1>2. \A w \in Validators :
        /\ credentials[w].owner \in Accounts => credentials'[w].owner = credentials[w].owner
        /\ credentials[w].type = "0x02" => credentials'[w].type = "0x02"
  BY <1>1, Growth
<1>3. Target \in Validators /\ OnBehalf' = OnBehalf
  BY CommandRunAssumption DEF OnBehalf
<1>. QED
  BY <1>2, <1>3 DEF EligibleOn

\* Whoever has passed all checks of the command is eligible.
LEMMA PassedAreEligible ==
  ASSUME cmd.op \in ValidatorCommands, NEW v \in requests,
         \A i \in DOMAIN ValidateChecks(OnBehalf) : HasPassed(ValidateChecks(OnBehalf)[i])
  PROVE  EligibleOn(v)
<1>1. ASSUME NEW S, NEW w \in S, NEW o, HasPassed(Check("ownership", S, o))
      PROVE  credentials[w].owner = o
  BY <1>1, OffendsByKind DEF HasPassed, Passes, Check
<1>2. ASSUME NEW S, NEW w \in S, NEW o, HasPassed(Check("compounding", S, o))
      PROVE  credentials[w].type = "0x02"
  BY <1>2, OffendsByKind DEF HasPassed, Passes, Check
<1>3. CASE cmd.op = "consolidate"
  <2>. DEFINE T == requests \cup (IF cmd.skipTarget THEN {} ELSE {Target})
  <2>1. /\ HasPassed(Check("compounding", {Target}, NoAccount))
        /\ HasPassed(Check("ownership", T, OnBehalf))
    <3>1. ValidateChecks(OnBehalf) = ConsolidateChecks(OnBehalf)
      BY <1>3 DEF ValidateChecks
    <3>2. /\ 1 \in DOMAIN ConsolidateChecks(OnBehalf) /\ 3 \in DOMAIN ConsolidateChecks(OnBehalf)
          /\ ConsolidateChecks(OnBehalf)[1] = Check("compounding", {Target}, NoAccount)
          /\ ConsolidateChecks(OnBehalf)[3] = Check("ownership", T, OnBehalf)
      BY DEF ConsolidateChecks
    <3>. HIDE DEF T
    <3>. QED
      BY <3>1, <3>2
  <2>2. v \in T /\ (cmd.skipTarget \/ Target \in T)
    OBVIOUS
  <2>. HIDE DEF T
  <2>3. credentials[v].owner = OnBehalf /\ (cmd.skipTarget \/ credentials[Target].owner = OnBehalf)
    BY <1>1, <2>1, <2>2
  <2>4. credentials[Target].type = "0x02"
    BY <1>2, <2>1
  <2>. QED
    BY <1>3, <2>3, <2>4 DEF EligibleOn
<1>4. CASE cmd.op = "withdraw"
  <2>1. /\ HasPassed(Check("compounding", requests, NoAccount))
        /\ HasPassed(Check("ownership", requests, OnBehalf))
    <3>1. ValidateChecks(OnBehalf) = WithdrawChecks(OnBehalf)
      BY <1>4 DEF ValidateChecks
    <3>2. /\ 1 \in DOMAIN WithdrawChecks(OnBehalf) /\ 2 \in DOMAIN WithdrawChecks(OnBehalf)
          /\ WithdrawChecks(OnBehalf)[1] = Check("compounding", requests, NoAccount)
          /\ WithdrawChecks(OnBehalf)[2] = Check("ownership", requests, OnBehalf)
      BY DEF WithdrawChecks
    <3>. QED
      BY <3>1, <3>2
  <2>. QED
    BY <1>1, <1>2, <1>4, <2>1 DEF EligibleOn
<1>5. CASE cmd.op \notin {"consolidate", "withdraw"}
  <2>1. ValidateChecks(OnBehalf) = <<Check("ownership", requests, OnBehalf)>>
    BY <1>5 DEF ValidateChecks
  <2>2. HasPassed(Check("ownership", requests, OnBehalf))
    BY <2>1
  <2>. QED
    BY <1>1, <1>5, <2>2 DEF EligibleOn
<1>. QED
  BY <1>3, <1>4, <1>5

\* Once the validation is over, every validator a request was, is being or will be
\* made for is eligible, and stays so.
LEMMA EligibleStep ==
  ASSUME CommandTypes, SignerByPlace, QueueOnly, ValidationByPlace, EligibleByPlace, OnlyAtWork,
         QueueOnly', [CommandNext]_commandVars
  PROVE  EligibleByPlace'
<1>. SUFFICES ASSUME pc' \in {"pipeline", "work", "dispose"},
                     NEW v \in Validators, v \in Concerned'
              PROVE  EligibleOn(v)'
  BY DEF EligibleByPlace
<1>0. pc \in AfterSigner => OnBehalf \in Accounts
  BY CommandRunAssumption DEF SignerByPlace, OnBehalf
<1>1. CASE ~Validated /\ ~InitializeSafe
  <2>1. /\ pc \in {"pipeline", "work", "dispose"} /\ UNCHANGED <<cmd, account>>
        /\ v \in Concerned
    BY <1>1, ConcernedShrinks
  <2>. QED
    BY <1>0, <2>1, EligibleStays DEF EligibleByPlace, AfterSigner
<1>2. CASE Validated
  <2>1. /\ pc = "validate" /\ checks = <<>> /\ UNCHANGED <<cmd, account, requests, submitted, stage>>
    BY <1>2 DEF Validated, At, ChecksPassed, requestVars
  <2>2. stage = "idle" /\ submitted = {}
    BY <2>1 DEF OnlyAtWork, SignerByPlace
  <2>3. v \in requests
    BY <2>1, <2>2 DEF Concerned
  <2>4. \A i \in DOMAIN ValidateChecks(OnBehalf) : HasPassed(ValidateChecks(OnBehalf)[i])
    BY <2>1 DEF ValidationByPlace
  <2>5. cmd.op \in ValidatorCommands
    BY <2>1 DEF QueueOnly
  <2>6. EligibleOn(v)
    BY <2>3, <2>4, <2>5, PassedAreEligible
  <2>. QED
    BY <1>0, <2>1, <2>6, EligibleStays DEF AfterSigner
<1>3. CASE InitializeSafe
  <2>1. cmd.op \notin ValidatorCommands /\ cmd' = cmd
    BY <1>3 DEF InitializeSafe, At, GoTo, Exit
  <2>2. v = Queue
    BY <2>1 DEF QueueOnly, Concerned
  <2>. QED
    BY <2>2, CommandRunAssumption
<1>. QED
  BY <1>1, <1>2, <1>3

\* Whoever the filter has kept stays kept; it was not compounding then, and if it
\* is now it has become so since.
LEMMA KeptStep ==
  ASSUME CommandTypes, KeptBySwitch, [CommandNext]_commandVars
  PROVE  /\ switchable \subseteq switchable' /\ lapsed \subseteq lapsed'
         /\ KeptBySwitch'
<1>. USE DEF ledgerVars, validationVars, beaconVars, checkVars, KeptBySwitch
<1>0. credentials \in [Validators -> Credentials] /\ switchable \subseteq Validators
  BY DEF CommandTypes, CommandTypeOK
<1>1. CASE UNCHANGED <<credentials, switchable, lapsed>>
  BY <1>1
<1>2. CASE CredentialsChange
  <2>1. PICK v \in Validators :
          \/ /\ credentials[v].type = "0x00"
             /\ \E a \in Accounts :
                  credentials' = [credentials EXCEPT ![v] = [type |-> "0x01", owner |-> a]]
             /\ UNCHANGED lapsed
          \/ /\ credentials[v].type = "0x01"
             /\ credentials' =
                  [credentials EXCEPT ![v] = [type |-> "0x02", owner |-> credentials[v].owner]]
             /\ lapsed' = lapsed \cup ({v} \cap switchable)
    BY <1>2 DEF CredentialsChange
  <2>2. switchable' = switchable
    BY <1>2 DEF CredentialsChange
  <2>. QED
    BY <1>0, <2>1, <2>2
<1>3. CASE ValidationStep
  BY <1>0, <1>3 DEF ValidationStep, NextCheck, ReadValidator, IsSwitchable
<1>4. CASE Early
  BY <1>1, <1>4 DEF Early, Start, NetworkAnswers, PrechecksPassed, Connect, Preflight
<1>5. CASE Signing
  BY <1>1, <1>5 DEF Signing, ReadPrivateKey, AskForDevice, DeviceOpens, NoDevice,
     SelectAddress, SignerReady, SafeSignerReady, CheckOwner, InitializeSafe, SignerKnown
<1>6. CASE ValidationFails \/ Validated
  BY <1>1, <1>6 DEF ValidationFails, CheckFails, Validated
<1>7. CASE Working
  BY <1>1, <1>7 DEF Working, CreatePipeline, BeginRequest, ResolveTransaction,
     SignTransaction, SignMessage, BroadcastSigned, RequestFails, EndWork, Dispose
<1>8. CASE World \/ UNCHANGED commandVars
  BY <1>1, <1>2, <1>8 DEF World, commandVars
<1>. QED
  BY <1>3, <1>4, <1>5, <1>6, <1>7, <1>8 DEF CommandNext, Early, Signing, Validating, Working

\* A switch is made for whom the filter has kept.
LEMMA SwitchStep ==
  ASSUME CommandTypes, SignerByPlace, OnlyAtWork, KeptBySwitch, SwitchByPlace,
         [CommandNext]_commandVars
  PROVE  SwitchByPlace'
<1>. USE DEF ledgerVars, processVars, requestVars, runVars, validationVars, Running, At, GoTo,
         Exit, Return
<1>. DEFINE Before == {"start", "precheck"}
<1>0. /\ switchable \subseteq switchable' /\ lapsed \subseteq lapsed'
      /\ switchable \subseteq Validators
  BY KeptStep DEF CommandTypes
<1>1. CASE PrechecksPassed
  <2>1. pc = "precheck" /\ submitted = {} /\ stage = "idle"
    BY <1>1 DEF PrechecksPassed, SignerByPlace, OnlyAtWork
  <2>2. /\ UNCHANGED <<cmd, submitted, stage>>
        /\ cmd.op = "switch" => requests' = switchable
    BY <1>1 DEF PrechecksPassed
  <2>. QED
    BY <1>0, <2>1, <2>2 DEF SwitchByPlace, Concerned
<1>2. ASSUME ~PrechecksPassed
      PROVE  /\ cmd' = cmd /\ Concerned' \subseteq Concerned
             /\ pc' \notin Before => pc \notin Before
  <2>. USE DEF Concerned
  <2>1. CASE Early
    BY <1>2, <2>1 DEF Early, Start, NetworkAnswers, Connect, Preflight
  <2>2. CASE Signing
    BY <2>2 DEF Signing, ReadPrivateKey, AskForDevice, DeviceOpens, NoDevice, SelectAddress,
       SignerReady, SafeSignerReady, CheckOwner, InitializeSafe, SignerKnown
  <2>3. CASE Validating
    BY <2>3 DEF Validating, ValidationStep, ValidationFails, Validated
  <2>4. CASE BeginRequest
    BY <2>4 DEF BeginRequest
  <2>5. CASE SignMessage \/ BroadcastSigned
    BY <2>5 DEF SignMessage, BroadcastSigned, Submit
  <2>6. CASE CreatePipeline \/ ResolveTransaction \/ SignTransaction \/ RequestFails
             \/ EndWork \/ Dispose
    BY <2>6 DEF CreatePipeline, ResolveTransaction, SignTransaction, RequestFails, EndWork, Dispose
  <2>7. CASE World \/ UNCHANGED commandVars
    BY <2>7 DEF World, commandVars
  <2>. QED
    BY <2>1, <2>2, <2>3, <2>4, <2>5, <2>6, <2>7 DEF CommandNext, Early, Signing, Validating, Working
<1>3. CASE SignMessage \/ BroadcastSigned
  <2>1. /\ pc = "work" /\ current \in Concerned
        /\ submitted' = submitted \cup {[on |-> current, by |-> Signer, type |-> TypeOf(current)]}
    BY <1>3 DEF SignMessage, BroadcastSigned, Submit, Concerned
  <2>2. cmd' = cmd /\ Concerned' \subseteq Concerned
    BY <1>2, <1>3 DEF PrechecksPassed, SignMessage, BroadcastSigned
  <2>3. ASSUME cmd.op = "switch"
        PROVE  TypeOf(current) = "0x01" \/ current \in lapsed
    <3>1. current \in switchable
      BY <2>1, <2>3 DEF SwitchByPlace
    <3>. QED
      BY <1>0, <3>1 DEF KeptBySwitch, TypeOf
  <2>. QED
    BY <1>0, <2>1, <2>2, <2>3 DEF SwitchByPlace
<1>4. CASE ~PrechecksPassed /\ ~SignMessage /\ ~BroadcastSigned
  BY <1>0, <1>2, <1>4, Submissions DEF SwitchByPlace
<1>. QED
  BY <1>1, <1>3, <1>4

-----------------------------------------------------------------------------
(* The invariant and the theorems.                                         *)

\* The invariant holds in the beginning.
LEMMA CommandInvInit ==
  ASSUME CommandInit
  PROVE  CommandInv
<1>. USE DEF CommandInit, ValidationInit, LedgerInit, GivenPubkeys
<1>1. CommandTypes
  <2>1. checks \in Seq(Checks) /\ link \in [Users -> Links]
    BY DEF Links
  <2>2. requests \subseteq Validators \cup {Queue} /\ (cmd.op \in ValidatorCommands => requests \subseteq Validators)
    OBVIOUS
  <2>3. pc \in Places /\ stage \in Stages
    BY DEF Places, Stages
  <2>4. checks = <<>> /\ unread = {} /\ offenders = {} /\ switchable = {} /\ lapsed = {}
    OBVIOUS
  <2>5. /\ credentials \in [Validators -> Credentials] /\ plugged \in Devices
        /\ cmd \in Commands /\ process = "running" /\ networkCheck = "asked"
        /\ account = NoAccount /\ submitted = {} /\ failed = FALSE /\ current = Queue
    OBVIOUS
  <2>6. \A i \in DOMAIN checks : checks[i] \in Checks
    BY <2>1
  <2>. HIDE DEF CommandInit, ValidationInit, LedgerInit
  <2>. QED
    BY <2>1, <2>2, <2>3, <2>4, <2>5, <2>6 DEF CommandTypes, CommandTypeOK
<1>2. TransportByPlace /\ ReturnsReleased
  BY DEF TransportByPlace, ReturnsReleased, BeforeSigner, AfterSigner, Users, Running
<1>3. SignerByPlace /\ OwnerSigns
  BY DEF SignerByPlace, OwnerSigns, AfterSigner
<1>4. ReadSoFar /\ ValidationByPlace
  BY DEF ReadSoFar, ValidationByPlace
<1>5. EligibleByPlace /\ OnlyAtWork /\ KeptBySwitch /\ SwitchByPlace
  BY DEF EligibleByPlace, OnlyAtWork, KeptBySwitch, SwitchByPlace
<1>6. QueueOnly
  BY QueueCommands DEF QueueOnly
<1>. QED
  BY <1>1, <1>2, <1>3, <1>4, <1>5, <1>6 DEF CommandInv

\* Every step keeps it.
LEMMA CommandInvStep ==
  ASSUME CommandInv, [CommandNext]_commandVars
  PROVE  CommandInv'
<1>1. /\ CommandTypes /\ TransportByPlace /\ ReturnsReleased /\ SignerByPlace /\ OwnerSigns
      /\ ReadSoFar /\ ValidationByPlace /\ EligibleByPlace /\ OnlyAtWork /\ QueueOnly
      /\ KeptBySwitch /\ SwitchByPlace
  BY DEF CommandInv
<1>2. CommandTypes'
  BY <1>1, TypesStep
<1>3. TransportByPlace' /\ ReturnsReleased'
  BY <1>1, TransportStep
<1>4. SignerByPlace' /\ OwnerSigns'
  BY <1>1, SignerStep
<1>5. ReadSoFar' /\ ValidationByPlace'
  BY <1>1, ReadStep, ValidationStepKeeps
<1>6. QueueOnly' /\ OnlyAtWork' /\ KeptBySwitch' /\ SwitchByPlace'
  BY <1>1, QueueStep, WorkStep, KeptStep, SwitchStep
<1>7. EligibleByPlace'
  BY <1>1, <1>6, EligibleStep
<1>. QED
  BY <1>2, <1>3, <1>4, <1>5, <1>6, <1>7 DEF CommandInv

\* A transport is released by the selection before the signer asks for one.
LEMMA InvTransport == CommandInv => OneTransport
<1>. SUFFICES ASSUME CommandInv
              PROVE  OneTransport
  OBVIOUS
<1>1. pc \in Places
  BY DEF CommandInv, CommandTypes, CommandTypeOK
<1>. QED
  BY <1>1 DEF CommandInv, TransportByPlace, OneTransport, BeforeSigner, AfterSigner, Places, Users

\* Whatever is submitted is eligible for the one it is submitted for, and a switch
\* was of a validator that was not compounding when the filter kept it.
LEMMA InvEligible == CommandInv => OnlyEligible
<1>. SUFFICES ASSUME CommandInv, NEW r \in submitted, r.on \in Validators
              PROVE  /\ EligibleOn(r.on) /\ Sender(r) = OnBehalf
                     /\ cmd.op = "switch" => r.type = "0x01" \/ r.on \in lapsed
  BY DEF OnlyEligible, EligibleOn
<1>1. pc \in {"work", "dispose"} /\ (~cmd.safe => r.by = account)
  BY DEF CommandInv, SignerByPlace
<1>2. r.on \in Concerned
  BY DEF Concerned
<1>. QED
  BY <1>1, <1>2 DEF CommandInv, EligibleByPlace, SwitchByPlace, Sender, OnBehalf

\* The types: no command leaves them, and none keeps a validator without an account
\* for a switch.
THEOREM CommandTypeInvariant == CommandSpec => []CommandTypeOK
<1>1. CommandInit => CommandInv
  BY CommandInvInit
<1>2. CommandInv /\ [CommandNext]_commandVars => CommandInv'
  BY CommandInvStep
<1>3. CommandInv => CommandTypeOK
  BY DEF CommandInv, CommandTypes
<1>. QED
  BY <1>1, <1>2, <1>3, PTL DEF CommandSpec

\* Every request that is submitted meets what the beacon chain asks of the
\* credentials, whichever devices are plugged in and however the credentials change
\* between the checks (pre-request-validation.ts), except a switch of a validator
\* that became compounding after the filter had kept it (switch.ts).
THEOREM RequestsAreEligible == CommandSpec => []OnlyEligible
<1>1. CommandInit => CommandInv
  BY CommandInvInit
<1>2. CommandInv /\ [CommandNext]_commandVars => CommandInv'
  BY CommandInvStep
<1>. QED
  BY <1>1, <1>2, InvEligible, PTL DEF CommandSpec

\* In Safe mode an owner signs, unless the devices were swapped in between
\* (safe-signer-init.ts, validateSignerIsOwner).
THEOREM OwnersSign == CommandSpec => []OwnerSigns
<1>1. CommandInit => CommandInv
  BY CommandInvInit
<1>2. CommandInv /\ [CommandNext]_commandVars => CommandInv'
  BY CommandInvStep
<1>3. CommandInv => OwnerSigns
  BY DEF CommandInv
<1>. QED
  BY <1>1, <1>2, <1>3, PTL DEF CommandSpec

\* One connection to the device at a time (ledger-address-selector-prompt.ts).
THEOREM OneTransportAtATime == CommandSpec => []OneTransport
<1>1. CommandInit => CommandInv
  BY CommandInvInit
<1>2. CommandInv /\ [CommandNext]_commandVars => CommandInv'
  BY CommandInvStep
<1>. QED
  BY <1>1, <1>2, InvTransport, PTL DEF CommandSpec

\* A command that returns leaves no transport open and no connection pending
\* (the finally blocks of the commands).
THEOREM TransportsReleased == CommandSpec => []ReturnsReleased
<1>1. CommandInit => CommandInv
  BY CommandInvInit
<1>2. CommandInv /\ [CommandNext]_commandVars => CommandInv'
  BY CommandInvStep
<1>3. CommandInv => ReturnsReleased
  BY DEF CommandInv
<1>. QED
  BY <1>1, <1>2, <1>3, PTL DEF CommandSpec

=============================================================================
