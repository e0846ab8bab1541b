----------------------------- MODULE MCSafeMode -----------------------------
(***************************************************************************)
(* The Safe mode for TLC: two owners, and who of them runs what.           *)
(***************************************************************************)
EXTENDS SafeModeInvariant, TLC

CONSTANTS o1, o2

BothPropose == o1 :> {"propose", "execute"} @@ o2 :> {"propose"}
BothExecute == o1 :> {"propose", "sign", "execute"} @@ o2 :> {"sign", "execute"}
OneExecutes == o1 :> {"propose", "execute"} @@ o2 :> {"sign"}
=============================================================================
