---------------------------- MODULE MC_WalletRail ----------------------------
(* WalletRail for TLC: every invoice belongs to some driver.               *)
EXTENDS WalletRail
MCOwner == [i \in Invoice |-> CHOOSE u \in User : TRUE]
=============================================================================
