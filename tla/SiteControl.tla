---------------------------- MODULE SiteControl -----------------------------
(***************************************************************************)
(* The control plane of one site: the certified cap and its two-person     *)
(* rule, the control mode, admission certificates, plan cycles, the        *)
(* profiles they push and the verification of what was delivered           *)
(* (src/apps/api/src/control/controller.js, control-routes.js and the      *)
(* control half of db/store.js).                                           *)
(*                                                                         *)
(* Every handler runs without a pause that another one could use, so each  *)
(* is one step.  What stands between the steps is the answer of a charge   *)
(* point, the passing of time and the other users.                         *)
(***************************************************************************)
EXTENDS SitePlan, SequencesExt

CONSTANTS
  Admin,       \* administrators
  Point,       \* charge points of the site
  CpOf,        \* the charge point of each session
  SiteCaps,    \* caps that administrators enter
  Tariff,      \* price paths a plan may meet
  Nil,
  Ask,         \* what sessions begin with: energy needed, slots to the deadline
  MaxDec,      \* bound: plan cycles
  MaxTime      \* bound: slots that pass

ASSUME SiteAssumption ==
  /\ CpOf \in [Sess -> Point]
  /\ SiteCaps \subseteq 1 .. Infinity - 1
  /\ Tariff \subseteq [Slot -> Nat]
  /\ Ask \subseteq [need : Nat, due : 1 .. H + 1]
  /\ {MaxDec, MaxTime} \subseteq Nat

VARIABLES
  root,   \* the SITE asset: cap, status, and who proposed what is PENDING
  mode,   \* OFF, ADVISORY or ENFORCED
  sess,   \* sessions: state, energy still needed, slots to the deadline
  cert,   \* the latest certificate of each session
  plan,   \* the payload of the latest decision
  dec,    \* decisions so far
  push,   \* charging_profile_push, in the order of push_id
  off,    \* sessions with a tick out of tolerance among the enforcement ticks
  now

vars == <<root, mode, sess, cert, plan, dec, push, off, now>>

NotBegun == [state |-> "NONE", need |-> 0, due |-> 0]
NoCert == [status |-> "NONE", floor |-> 0]
NoDeadline == H + 1

Init ==
  /\ root = Nil /\ mode = "OFF"
  /\ sess = [s \in Sess |-> NotBegun] /\ cert = [s \in Sess |-> NoCert]
  /\ plan = Nil /\ dec = 0 /\ push = <<>> /\ off = {} /\ now = 0

SiteCap == IF root # Nil /\ root.status = "ACTIVE" THEN root.cap ELSE Infinity

-----------------------------------------------------------------------------
(* Grid asset and mode.                                                    *)

(* upsertGridAsset: a lower cap waits for a second person, anything else   *)
(* is in force at once.                                                    *)
UpsertGridAsset(a, cap) ==
  /\ root' = IF root = Nil
             THEN [cap |-> cap, status |-> "ACTIVE", proposed |-> Nil]
             ELSE IF cap < root.cap
             THEN [cap |-> cap, status |-> "PENDING", proposed |-> a]
             ELSE [cap |-> cap, status |-> "ACTIVE", proposed |-> Nil]
  /\ UNCHANGED <<mode, sess, cert, plan, dec, push, off, now>>

ApproveGridAsset(a) ==
  /\ root # Nil /\ root.status = "PENDING" /\ root.proposed # a
  /\ root' = [root EXCEPT !.status = "ACTIVE", !.proposed = Nil]
  /\ UNCHANGED <<mode, sess, cert, plan, dec, push, off, now>>

SetMode(m) ==
  /\ m = "ENFORCED" => SiteCap # Infinity
  /\ mode' = m
  /\ UNCHANGED <<root, sess, cert, plan, dec, push, off, now>>

-----------------------------------------------------------------------------
(* Certificates and plans.                                                 *)

Charging == {s \in Sess : sess[s].state = "LIVE"}
Floor(c, s) == IF c[s].status = "ACTIVE" THEN c[s].floor ELSE 0

(* estimateVehicles, with the deadline and the floor of each session.      *)
Vehicles(on, c) ==
  [s \in on |-> [need |-> sess[s].need, due |-> Min({sess[s].due, H}), floor |-> Floor(c, s)]]

(* Mutant of Certify: every session is certified against the floors that   *)
(* stood before the cycle.                                                 *)
CertifyAlone(on, cap) ==
  LET Fresh(s) == Verdict(s, Vehicles(on, cert)[s], cap,
                          MapThenSumSet(LAMBDA o : Floor(cert, o), on \ {s}))
  IN  [s \in Sess |->
        IF s \notin on \/ cert[s].status \in {"ACTIVE", "ERODED"} THEN cert[s]
        ELSE IF Fresh(s).admitted THEN [status |-> "ACTIVE", floor |-> Fresh(s).floor]
        ELSE [status |-> "FAILED", floor |-> 0]]

(* certifySite, session by session: a promise that stands is kept, a       *)
(* refusal is only repeated when it turns into a promise.                  *)
Certify(on, cap) ==
  LET Step(c, s) ==
        LET v == Verdict(s, Vehicles(on, c)[s], cap,
                         MapThenSumSet(LAMBDA o : Floor(c, o), on \ {s}))
        IN  IF c[s].status \in {"ACTIVE", "ERODED"} THEN c
            ELSE [c EXCEPT ![s] = IF v.admitted THEN [status |-> "ACTIVE", floor |-> v.floor]
                                  ELSE [status |-> "FAILED", floor |-> 0]]
  IN  InOrder(Step, cert, ById, on)

(* setChargingProfile: an offline charge point leaves no row, one that has *)
(* had its six pushes of the minute a row that was never sent.             *)
Push(x, out) ==
  LET on == {c \in Point : /\ \E s \in Charging : CpOf[s] = c
                        /\ out[c] # "OFFLINE"}
      Row(c) == [dec |-> dec + 1, cp |-> c, at |-> now, ack |-> Nil, sent |-> out[c] = "SENT",
                 profile |-> Compile(x, {s \in Charging : CpOf[s] = c}, SiteCap)]
      rows == {Row(c) : c \in on}
  IN  SetToSortSeq({r \in rows : WithinEnvelope(r.profile, SiteCap)}, LAMBDA a, b : a.cp < b.cp)

PlanSite(price, out) ==
  /\ dec < MaxDec
  /\ LET c == Certify(Charging, Usable(SiteCap))
         vs == Vehicles(Charging, c)
         x == Solve(vs, price, Usable(SiteCap))
     IN  /\ cert' = c
         /\ plan' = [x |-> x, vs |-> vs, cap |-> SiteCap]
         /\ dec' = dec + 1
         /\ push' = IF mode = "ENFORCED" THEN push \o Push(x, out) ELSE push
  /\ UNCHANGED <<root, mode, sess, off, now>>

(* certifySession: the one session is all the certifier gets to see.       *)
CertifySession(s) ==
  /\ s \in Charging
  /\ cert' = Certify({s}, Usable(SiteCap))
  /\ UNCHANGED <<root, mode, sess, plan, dec, push, off, now>>

-----------------------------------------------------------------------------
(* What is in force, and what is delivered.                                *)

(* Whatever a charge point answers but Accepted, or no answer in time, is  *)
(* a refusal here.                                                         *)
Acked(i, answer) ==
  /\ i \in DOMAIN push /\ push[i].sent /\ push[i].ack = Nil
  /\ push' = [push EXCEPT ![i].ack = answer]
  /\ UNCHANGED <<root, mode, sess, cert, plan, dec, off, now>>

(* activeProfileFor: the latest one sent and not refused.                  *)
InForce(c) ==
  LET ok == {i \in DOMAIN push : /\ push[i].cp = c /\ push[i].sent
                                 /\ push[i].ack \in {Nil, "Accepted"}}
  IN  IF ok = {} THEN Nil ELSE push[Max(ok)]

Begin(s, ask) ==
  /\ sess[s].state = "NONE"
  /\ sess' = [sess EXCEPT ![s] = [state |-> "LIVE", need |-> ask.need, due |-> ask.due]]
  /\ UNCHANGED <<root, mode, cert, plan, dec, push, off, now>>

End(s) ==
  /\ s \in Charging
  /\ sess' = [sess EXCEPT ![s] = [NotBegun EXCEPT !.state = "DONE"]]
  /\ UNCHANGED <<root, mode, cert, plan, dec, push, off, now>>

(* scheduledKwAt: past its end, a schedule stays at its last period.       *)
Scheduled(row) == row.profile[Min({now - row.at, H - 1})]

Remaining(need, got) == IF need > got THEN need - got ELSE 0

(* A slot passes: every live session has taken what it would, and the      *)
(* meter values of those under a profile become enforcement ticks.         *)
Elapse(got) ==
  /\ now < MaxTime
  /\ \A s \in Sess : got[s] <= IF s \in Charging THEN Rate ELSE 0
  /\ now' = now + 1
  /\ sess' = [s \in Sess |-> IF s \notin Charging THEN sess[s]
                ELSE [sess[s] EXCEPT !.need = Remaining(@, got[s]),
                        !.due = IF @ = NoDeadline THEN @ ELSE IF @ = 0 THEN 0 ELSE @ - 1]]
  /\ off' = off \cup {s \in Charging : /\ InForce(CpOf[s]) # Nil
                                   /\ got[s] # Scheduled(InForce(CpOf[s]))}
  /\ UNCHANGED <<root, mode, cert, plan, dec, push>>

(* verifyCompliance, once the hysteresis is over.                          *)
VerifyCompliance ==
  /\ cert' = [s \in Sess |-> IF s \in off /\ cert[s].status = "ACTIVE"
                             THEN [cert[s] EXCEPT !.status = "ERODED"] ELSE cert[s]]
  /\ UNCHANGED <<root, mode, sess, plan, dec, push, off, now>>

Next ==
  \/ \E a \in Admin : ApproveGridAsset(a) \/ \E cap \in SiteCaps : UpsertGridAsset(a, cap)
  \/ \E m \in {"OFF", "ADVISORY", "ENFORCED"} : SetMode(m)
  \/ \E price \in Tariff, out \in [Point -> {"SENT", "OFFLINE", "LIMITED"}] : PlanSite(price, out)
  \/ \E s \in Sess : CertifySession(s) \/ End(s)
  \/ \E s \in Sess, ask \in Ask : Begin(s, ask)
  \/ \E i \in 1 .. MaxDec * Cardinality(Point), answer \in {"Accepted", "Refused"} :
       Acked(i, answer)
  \/ \E got \in [Sess -> 0 .. Rate] : Elapse(got)
  \/ VerifyCompliance

Spec == Init /\ [][Next]_vars

-----------------------------------------------------------------------------
Given(x, s) == MapThenSumSet(LAMBDA t : x[s][t], Slot)

(* A plan keeps to the usable cap of a site that has one in every slot,    *)
(* and gives no vehicle more than it needs or anything past its deadline,  *)
(* after all three passes (solveSchedule: roomAt, need, dl).               *)
PlanSound == plan # Nil =>
  /\ plan.cap # Infinity => \A t \in Slot : Total(plan.x, t) <= Usable(plan.cap)
  /\ \A s \in DOMAIN plan.vs :
       /\ Given(plan.x, s) <= plan.vs[s].need
       /\ \A t \in Slot : t >= plan.vs[s].due => plan.x[s][t] = 0

Promises(vs) == MapThenSumSet(LAMBDA s : vs[s].floor, DOMAIN vs)

(* As long as the certified floors fit the cap together, a plan gives each *)
(* certified session what its floor comes to by its deadline, whoever else *)
(* is waiting with an earlier one, and the cost pass takes nothing of it   *)
(* away (controller.js: "the floor is honoured by the scheduler").  A      *)
(* battery that accepts less than the floor towards its end is no          *)
(* exception: the certifier replays the taper that the plan meets.         *)
PromiseServed ==
  plan # Nil /\ Promises(plan.vs) <= Usable(plan.cap) =>
    \A s \in DOMAIN plan.vs :
      Given(plan.x, s) >= Min({plan.vs[s].need, plan.vs[s].floor * plan.vs[s].due})

Committed(c) == MapThenSumSet(LAMBDA s : Floor(c, s), Charging)

(* A plan cycle certifies its sessions one after the other, each against   *)
(* the floors promised before it: floors that fit the usable cap before    *)
(* the cycle fit it afterwards.                                            *)
NeverOvercommits ==
  [][dec' # dec /\ Committed(cert) <= Usable(SiteCap) => Committed(cert') <= Usable(SiteCap)]_vars
=============================================================================
