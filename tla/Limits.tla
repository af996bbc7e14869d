------------------------------- MODULE Limits -------------------------------
(***************************************************************************)
(* The sliding windows of the HTTP surface                                 *)
(* (src/apps/api/src/middleware/security.js): the login tier, the limiters *)
(* of single routes and the throttle of every caller, which share one      *)
(* algorithm and one sweep.                                                *)
(***************************************************************************)
EXTENDS Naturals, FiniteSetsExt

CONSTANTS
  User, Ip,
  Tier,     \* the maps: login, one per limited route, the throttle
  ByIp,     \* the tiers that know no user
  Limit,    \* requests per window of a tier
  Window,   \* sixty seconds
  Stale,    \* after this a time is swept
  MaxTime,  \* bound: instants
  MaxHits   \* bound: requests of one bucket in one instant

ASSUME LimitsAssumption ==
  /\ {Window, Stale, MaxTime} \subseteq Nat /\ Stale >= Window
  /\ Limit \in [Tier -> Nat]

Time == 0 .. MaxTime
Key == User \cup Ip

VARIABLES
  now,
  windows, \* per tier and key, the requests of each instant still remembered
  served   \* per tier and key, the requests of each instant that were let in

limVars == <<now, windows, served>>

LimInit ==
  /\ now = 0
  /\ windows = [b \in Tier \X Key |-> [t \in Time |-> 0]]
  /\ served = [b \in Tier \X Key |-> [t \in Time |-> 0]]

Since(w, age) == [t \in Time |-> IF now - t < age THEN w[t] ELSE 0]
Total(w) == MapThenSumSet(LAMBDA t : w[t], Time)

(* verifiedClaims: a token that does not verify leaves the address.        *)
Bucket(tier, user, valid, ip) == <<tier, IF valid /\ tier \notin ByIp THEN user ELSE ip>>

(* A request is pushed before it is counted, so one that is refused counts *)
(* against the next.                                                       *)
Request(tier, user, valid, ip) ==
  LET b == Bucket(tier, user, valid, ip)
      w == [Since(windows[b], Window) EXCEPT ![now] = @ + 1]
  IN  /\ windows[b][now] < MaxHits
      /\ windows' = [windows EXCEPT ![b] = w]
      /\ served' = IF Total(w) > Limit[tier] THEN served ELSE [served EXCEPT ![b][now] = @ + 1]
      /\ UNCHANGED now

(* Mutant of Horizon: what a request would still count is swept.           *)
ShortHorizon == Window - 1

Horizon == Stale

(* Once a minute, whatever the requests do.                                *)
SweepIdle ==
  /\ windows' = [b \in Tier \X Key |-> Since(windows[b], Horizon)]
  /\ UNCHANGED <<now, served>>

Tick ==
  /\ now < MaxTime /\ now' = now + 1
  /\ UNCHANGED <<windows, served>>

LimNext ==
  \/ \E tier \in Tier, u \in User, valid \in BOOLEAN, ip \in Ip : Request(tier, u, valid, ip)
  \/ SweepIdle \/ Tick

-----------------------------------------------------------------------------
(* In no window, wherever it begins, are more requests of one bucket let   *)
(* in than its tier allows, whatever the sweep threw away meanwhile        *)
(* (security.js: BUG-015, BUG-025).                                        *)
WithinLimit ==
  \A b \in Tier \X Key, from \in Time :
    MapThenSumSet(LAMBDA t : served[b][t], {t \in Time : from <= t /\ t - from < Window})
      <= Limit[b[1]]
=============================================================================
