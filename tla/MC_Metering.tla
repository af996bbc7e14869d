---------------------------- MODULE MC_Metering ----------------------------
EXTENDS Metering, TLC

(* Nothing in the model orders slots.                                      *)
SlotSymmetry == Permutations(Slot)
=============================================================================
