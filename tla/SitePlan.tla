------------------------------ MODULE SitePlan ------------------------------
(***************************************************************************)
(* The planning arithmetic of the control plane: admission certificates,   *)
(* the three-pass schedule and its compilation to charging profiles        *)
(* (src/apps/api/src/control/model.js and controller.js).                  *)
(*                                                                         *)
(* Power is counted in whole units and energy in units of power over one   *)
(* slot, so kW and kWh per slot are the same number.  A slot is relative   *)
(* to the time of the plan.  A vehicle is a record                         *)
(*    [need, due, floor]                                                   *)
(* of the energy it still needs, the slots left until its deadline (as     *)
(* many as the horizon when it has none) and its certified floor, 0 when   *)
(* it has no ACTIVE certificate.  Rounding to a few decimals, metrics and  *)
(* the carbon price, which only changes the prices, are left out.          *)
(***************************************************************************)
EXTENDS Integers, FiniteSetsExt

CONSTANTS
  NSess,      \* sessions are 1 .. NSess, in the order of their ids
  Rate,       \* the power of every connector
  Least,      \* what a full battery still accepts
  Declared,   \* sessions whose vehicle declares its battery
  H,          \* slots of the horizon
  Reserve,    \* what the forecast reserve takes off a cap
  Margin,     \* energy a certificate keeps in hand
  Infinity    \* more than all connectors together

ASSUME PlanAssumption ==
  /\ {NSess, Rate, Least, H} \subseteq Nat \ {0}
  /\ {Reserve, Margin, Infinity} \subseteq Nat
  /\ Least <= Rate
  /\ Declared \subseteq 1 .. NSess
  /\ Infinity >= NSess * Rate

Sess == 1 .. NSess
Slot == 0 .. H - 1

(* for (const i of [...S].sort(by key, then by number)): step after step;  *)
(* what a set comes to is its last member's step on what the others do.    *)
LastOf(key, S) == CHOOSE a \in S : \A b \in S : key[b] < key[a] \/ (key[b] = key[a] /\ b <= a)

InOrder(step(_, _), base, key, S) ==
  MapThenFoldSet(LAMBDA i, a : step(a, i), base, LAMBDA i : i, LAMBDA T : LastOf(key, T), S)

ById == [i \in Nat |-> i]

Usable(cap) == IF cap = Infinity THEN Infinity ELSE IF cap > Reserve THEN cap - Reserve ELSE 0

(* The constant-current phase ends at the state of charge a plan assumes;  *)
(* from there on every unit a vehicle takes lowers what it accepts.        *)
Accepts(s, taken) ==
  IF s \in Declared THEN Max({Least} \cup ({Rate - taken} \cap Nat)) ELSE Rate

-----------------------------------------------------------------------------
(* Admission.  What is left when the other floors are served must bring    *)
(* the vehicle its need and the margin by its deadline.                    *)

Residual(cap, others) == IF cap > others THEN cap - others ELSE 0

Supply(s, due, residual, target) ==
  LET Step(a, i) ==
        IF a.sum >= target /\ i > 1 THEN a
        ELSE LET r == Min({Accepts(s, a.sum), residual}) IN [sum |-> a.sum + r, rate |-> r]
  IN  InOrder(Step, [sum |-> 0, rate |-> 0], ById, 1 .. Max({1, due}))

Verdict(s, v, cap, others) ==
  LET supply == Supply(s, v.due, Residual(cap, others), v.need + Margin)
  IN  [admitted |-> supply.sum >= v.need + Margin, floor |-> supply.rate]

-----------------------------------------------------------------------------
(* The schedule.  p.x[s][t] is what s is given in slot t, p.need[s] what   *)
(* it still lacks.                                                         *)

Total(x, t) == MapThenSumSet(LAMBDA s : x[s][t], Sess)

(* Mutant of RoomAt: the whole cap for every vehicle.                        *)
Uncontended(x, t, cap) == cap

RoomAt(x, t, cap) == IF cap = Infinity THEN Infinity ELSE Residual(cap, Total(x, t))

(* socBefore replays what is committed to the earlier slots.               *)
Taken(s, x, t) ==
  InOrder(LAMBDA a, i : a + Min({x[s][i], Accepts(s, a)}), 0, ById, 0 .. t - 1)

(* give: the acceptance bounds the amount, not what the slot already has.  *)
Give(p, s, t, amount, v, cap) ==
  LET g == Min({amount, Accepts(s, Taken(s, p.x, t)), RoomAt(p.x, t, cap), p.need[s]})
  IN  IF t >= v.due THEN p
      ELSE [x |-> [p.x EXCEPT ![s][t] = @ + g], need |-> [p.need EXCEPT ![s] = @ - g]]

(* Mutant of Floors: no pass of their own for the certified floors.        *)
NoFloors(p, vs, cap) == p

(* Certified floors, vehicle by vehicle.                                   *)
FloorOf(p, s, vs, cap) ==
  InOrder(LAMBDA q, t : Give(q, s, t, Min({vs[s].floor, Rate}), vs[s], cap), p, ById, Slot)

Floors(p, vs, cap) == InOrder(LAMBDA q, s : FloorOf(q, s, vs, cap), p, ById, DOMAIN vs)

(* Slot by slot, the earliest deadline first.                              *)
FillSlot(p, t, vs, cap) ==
  InOrder(LAMBDA q, s : Give(q, s, t, Rate, vs[s], cap), p, [s \in DOMAIN vs |-> vs[s].due], DOMAIN vs)

Fill(p, vs, cap) == InOrder(LAMBDA q, t : FillSlot(q, t, vs, cap), p, ById, Slot)

(* From the dearest slot on, every vehicle in it, to the cheapest first.   *)
Move(x, s, from, to, cap) ==
  LET fits == Accepts(s, Taken(s, x, to))
      m == Min({x[s][from], RoomAt(x, to, cap), IF fits > x[s][to] THEN fits - x[s][to] ELSE 0})
  IN  [x EXCEPT ![s][from] = @ - m, ![s][to] = @ + m]

ShiftOf(x, s, from, vs, price, cap) ==
  InOrder(LAMBDA y, to : IF to < vs[s].due /\ price[to] < price[from] THEN Move(y, s, from, to, cap) ELSE y,
          x, price, Slot)

ShiftSlot(x, from, vs, price, cap) ==
  InOrder(LAMBDA y, s : ShiftOf(y, s, from, vs, price, cap), x, ById, DOMAIN vs)

Shift(x, vs, price, cap) ==
  InOrder(LAMBDA y, from : ShiftSlot(y, from, vs, price, cap), x, [t \in Slot |-> -price[t]], Slot)

Solve(vs, price, cap) ==
  LET none == [x |-> [s \in Sess |-> [t \in Slot |-> 0]],
               need |-> [s \in Sess |-> IF s \in DOMAIN vs THEN vs[s].need ELSE 0]]
  IN  Shift(Fill(Floors(none, vs, cap), vs, cap).x, vs, price, cap)

(* One profile per charge point, clamped to the cap without its reserve.   *)
Compile(x, on, cap) ==
  [t \in Slot |-> Min({cap, MapThenSumSet(LAMBDA s : x[s][t], on)})]

(* The envelope of the gateway: no period of a profile is above the cap.   *)
WithinEnvelope(profile, cap) ==
  cap = Infinity \/ \A t \in Slot : profile[t] <= cap
=============================================================================
