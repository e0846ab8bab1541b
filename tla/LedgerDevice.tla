---------------------------- MODULE LedgerDevice ----------------------------
(***************************************************************************)
(* The connections a command makes to a Ledger: one to let the user select *)
(* an address, one to sign.  A connection races against a timeout, which   *)
(* abandons a device that may still open; between the two connections the  *)
(* user may plug in another device.                                        *)
(***************************************************************************)

CONSTANTS
  Devices,
  DerivedAccount   \* the account each device derives at the selected path

VARIABLES
  link,     \* the transport of each user of the device
  plugged   \* external: the device that is connected

ledgerVars == <<link, plugged>>

Users == {"selector", "signer"}
Links == {"none", "opening", "abandoned", "open", "closed"}

LedgerInit ==
  /\ link = [u \in Users |-> "none"]
  /\ plugged \in Devices

DeviceAccount == DerivedAccount[plugged]

\* connectWithTimeout: the request to open the device ...
Connecting(u) == [link EXCEPT ![u] = "opening"]

\* ... answered in time ...
Opens(u) ==
  /\ link[u] = "opening"
  /\ link' = [link EXCEPT ![u] = "open"]
  /\ UNCHANGED plugged

\* ... or not: an error, or the timeout, which leaves the request pending.
ConnectFails(u) ==
  /\ link[u] = "opening"
  /\ link' \in {[link EXCEPT ![u] = "closed"], [link EXCEPT ![u] = "abandoned"]}
  /\ UNCHANGED plugged

\* Slip: how a small mistake in the code below would read.  It is here to
\* measure the properties; no specification uses it.
NotDisposed(u) == link

\* LedgerAddressSelector.dispose, LedgerSigner.dispose: transport.close()
Disposed(u) == [link EXCEPT ![u] = "closed"]

\* External: another device is plugged in; one with an open transport stays.
Swap ==
  /\ \A u \in Users : link[u] # "open"
  /\ plugged' \in Devices \ {plugged}
  /\ UNCHANGED link
=============================================================================
