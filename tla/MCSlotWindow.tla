---------------------------- MODULE MCSlotWindow ----------------------------
(***************************************************************************)
(* Network fees for model checking: small ones at which integer division   *)
(* loses the bump, and larger ones.                                        *)
(***************************************************************************)
EXTENDS SlotWindow

SomeSentFees == {p \in [max : {8, 9, 25}, tip : {0, 9}] : p.tip <= p.max}
SomeNetworkFees == {[max |-> 20, tip |-> 10], [max |-> 9, tip |-> 0]}
=============================================================================
