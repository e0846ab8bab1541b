------------------------------ MODULE MCParts ------------------------------
(***************************************************************************)
(* Four parts that share no state, checked in one run: which of them moves *)
(* is chosen at the start, the others keep one state of theirs.  The       *)
(* callers share the bucket of those without a key.                        *)
(***************************************************************************)
EXTENDS MCSlotWindow, PartsInvariant

CONSTANTS c1, c2, h0, h1

VARIABLE part

partVars == <<vars, slotVars, callVars, storeVars, part>>

TwoCallers == {c1, c2}
TwoHashes == {h0, h1}
NonceByHash == [h \in TwoHashes |-> IF h = h0 THEN 0 ELSE 1]

PartsInit ==
  /\ part \in {"fee", "slot", "calls", "store"}
  /\ part = "fee" \/ (part # "fee" /\ excess = 0 /\ target = 1 /\ offer = 1)
  /\ Init
  /\ \/ part = "slot"
     \/ part # "slot" /\ backlog = 0 /\ head = 0 /\ quota = 1 /\ tick = 1 /\ delay = 1
  /\ SlotInit
  /\ bucketOf = [c \in Callers |-> "__anonymous__"]
  /\ CallsInit
  /\ part # "calls" => \A l \in Limits : limit <= l
  /\ StoreInit

FeeMoves == part = "fee" /\ Next /\ UNCHANGED <<slotVars, callVars, storeVars, part>>
SlotMoves == part = "slot" /\ SlotNext /\ UNCHANGED <<vars, callVars, storeVars, part>>
CallsMove == part = "calls" /\ CallsNext /\ UNCHANGED <<vars, slotVars, storeVars, part>>
StoreMoves == part = "store" /\ StoreNext /\ UNCHANGED <<vars, slotVars, callVars, part>>

PartsNext == FeeMoves \/ SlotMoves \/ CallsMove \/ StoreMoves

PartsSpec == PartsInit /\ [][PartsNext]_partVars
=============================================================================
