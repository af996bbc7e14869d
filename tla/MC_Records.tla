----------------------------- MODULE MC_Records -----------------------------
(***************************************************************************)
(* Two parts that share no step, side by side; the first state picks one.  *)
(* The durable outbox carries a meter tick, which has one key in both      *)
(* engines, a session transition, which has two, and an event that only    *)
(* the local store emits.  The fleet is the booking engine with the other  *)
(* writers of connector status.                                            *)
(***************************************************************************)
EXTENDS DurableOutbox, ConnectorFleet, TLC

CONSTANTS tick, trans, transO, local

Durables == [k \in Key \cap {tick, trans} |-> IF k = trans THEN transO ELSE k]
Prefixed == [k \in Key |-> IF k = trans THEN {transO} ELSE {}]

VARIABLE part

PartInit == part \in {"outbox", "fleet"} /\ DurInit /\ FleetInit

PartNext ==
  \/ part = "outbox" /\ DurNext /\ UNCHANGED <<part, fleetVars>>
  \/ part = "fleet" /\ FleetNext /\ UNCHANGED <<part, durVars>>

Drivers == Permutations(User)
=============================================================================
