------------------------- MODULE MC_ConnectorFleet -------------------------
(* Instances of ConnectorFleet for TLC. *)
EXTENDS ConnectorFleet, TLC

Drivers == Permutations(User)
=============================================================================
