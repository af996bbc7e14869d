-------------------------- MODULE MC_WriteThrough --------------------------
(* An instance of WriteThrough for TLC. *)
EXTENDS WriteThrough, TLC

(* Nothing in the model orders callers, connectors or spots.               *)
Symmetric == Permutations(Caller) \cup Permutations(Conn) \cup Permutations(Spot)
=============================================================================
