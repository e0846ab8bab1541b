---------------------------- MODULE MCCommandRun ----------------------------
(***************************************************************************)
(* Commands, accounts and devices for model checking.                      *)
(***************************************************************************)
EXTENDS CommandRunInvariant

CONSTANTS v, w, alice, bob, vault, first, second

AccountByDevice == [d \in {first, second} |-> IF d = first THEN alice ELSE bob]

Option(op, safe, ledger, skip) ==
  [op |-> op, safe |-> safe, ledger |-> ledger, skipTarget |-> skip]

AllCommands ==
  {Option(op, safe, ledger, FALSE) :
     op \in ValidatorCommands, safe \in BOOLEAN, ledger \in BOOLEAN}
  \cup {Option("consolidate", safe, FALSE, TRUE) : safe \in BOOLEAN}
  \cup {Option(op, TRUE, ledger, FALSE) : op \in {"sign", "execute"}, ledger \in BOOLEAN}
=============================================================================
