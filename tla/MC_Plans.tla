------------------------------ MODULE MC_Plans ------------------------------
(***************************************************************************)
(* Two parts that share no step, side by side; the first state picks one:  *)
(* the write-through adapter's calls, and the certificates and plans of a  *)
(* site.                                                                   *)
(***************************************************************************)
EXTENDS MC_WriteThrough, SiteControl

Administrators == Permutations(Admin)
OneForAll == [s \in Sess |-> 1]
Requirements == {[need |-> 3, due |-> 2], [need |-> 1, due |-> 1], [need |-> 3, due |-> 3]}
Prices == {[t \in Slot |-> t + 1], [t \in Slot |-> H - t]}

VARIABLE part

PartInit == part \in {"calls", "site"} /\ WriteInit /\ Init

PartNext ==
  \/ part = "calls" /\ WriteNext /\ UNCHANGED <<part, vars>>
  \/ part = "site" /\ Next /\ UNCHANGED <<part, writeVars>>

Alike == Symmetric \cup Administrators
=============================================================================
