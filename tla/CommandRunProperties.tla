------------------------ MODULE CommandRunProperties ------------------------
(***************************************************************************)
(* What a command promises about the validators, accounts and devices it   *)
(* touches.                                                                *)
(***************************************************************************)
EXTENDS CommandRun

\* The type invariant; no validator without an account is ever kept for a switch.
CommandTypeOK ==
  /\ credentials \in [Validators -> Credentials]
  /\ \A i \in DOMAIN checks : checks[i] \in Checks
  /\ unread \subseteq Validators /\ offenders \subseteq Validators
  /\ \A v \in switchable : credentials[v].type # "0x00"
  /\ lapsed \subseteq Validators
  /\ link \in [Users -> Links] /\ plugged \in Devices
  /\ cmd \in Commands /\ pc \in Places
  /\ process \in {"running", "exited", "returned"}
  /\ networkCheck \in {"asked", "answered"}
  /\ account \in Accounts \cup {NoAccount}
  /\ requests \subseteq Validators \cup {Queue} /\ current \in Validators \cup {Queue}
  /\ stage \in Stages
  /\ submitted \subseteq [on : Validators \cup {Queue}, by : Accounts,
                       type : {"0x00", "0x01", "0x02", "none"}]
  /\ failed \in BOOLEAN

\* Whom the system contract will see as the sender of a request.
Sender(r) == IF cmd.safe THEN Safe ELSE r.by

\* Every request that is submitted meets what the beacon chain asks of withdrawal
\* credentials: its sender controls the validator, a partial withdrawal is from a
\* compounding validator, a consolidation goes to one that is compounding and,
\* unless that check is skipped, belongs to the sender, and a switch is of a
\* validator that was not compounding yet.  The exception: a validator that became
\* compounding after the filter of the switch had kept it, since no one reads it
\* again; its request is submitted and the chain ignores it (switch.ts:19).
\* Credentials change between the checks, and the account that signs may not be
\* the one that was selected.
OnlyEligible ==
  \A r \in submitted :
    r.on \in Validators =>
      /\ credentials[r.on].owner = Sender(r)
      /\ cmd.op = "withdraw" => credentials[r.on].type = "0x02"
      /\ cmd.op = "consolidate" =>
           /\ credentials[Target].type = "0x02"
           /\ cmd.skipTarget \/ credentials[Target].owner = Sender(r)
      /\ cmd.op = "switch" => r.type = "0x01" \/ r.on \in lapsed

\* In Safe mode whatever is submitted was signed by an owner of the Safe, unless
\* the device that signs is not the one on which the address was selected.
OwnerSigns ==
  cmd.safe => \A r \in submitted : r.by \in SafeOwners \/ (cmd.ledger /\ r.by # account)

\* The device is released by the selection before the signer asks for it.
OneTransport ==
  link["selector"] \in {"opening", "open"} => link["signer"] = "none"

\* A command that returns has released every transport it opened and abandoned
\* none; all others end the process, which is why nothing keeps it alive.
ReturnsReleased ==
  process = "returned" => \A u \in Users : link[u] \in {"none", "closed"}
=============================================================================
