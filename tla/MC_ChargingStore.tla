------------------------- MODULE MC_ChargingStore --------------------------
(* Instances of ChargingStore for TLC. *)
EXTENDS ChargingStore, TLC

Drivers == Permutations(User)
=============================================================================
