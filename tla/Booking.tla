------------------------------ MODULE Booking ------------------------------
(***************************************************************************)
(* What the booking engines of VoltHub, apps/api/src/db/store.js and the   *)
(* PL/SQL packages of db/oracle, promise to drivers and operators, with no *)
(* locks, no queues and no connector status: every operation is one atomic *)
(* step.                                                                   *)
(*                                                                         *)
(*   - a window is granted only if it clashes with no active window of the *)
(*     same connector;                                                     *)
(*   - a granted window is settled once: converted by the session of its   *)
(*     owner on its connector, cancelled, or expired;                      *)
(*   - a connector serves at most one session at a time.                   *)
(*                                                                         *)
(* ChargingStore and OracleLocks implement this module (see Promise there).*)
(***************************************************************************)
EXTENDS Integers

CONSTANTS
  Conn,       \* connectors
  User,       \* drivers
  ResId,      \* reservation identifiers
  SessId,     \* session identifiers
  Time        \* instants at which a window may start or end

NoRow == [status |-> "NONE"]

VARIABLES
  booking,    \* ResId -> a window with its status, or NoRow
  occupant    \* Conn -> the set of sessions the connector is serving

vars == <<booking, occupant>>

Active == {"BOOKED", "CONVERTED"}

Init ==
  /\ booking = [r \in ResId |-> NoRow]
  /\ occupant = [c \in Conn |-> {}]

(* Grant a window that overlaps no active window of the connector. *)
Grant(r, c, u, b, e) ==
  /\ booking[r] = NoRow
  /\ \A q \in ResId :
       /\ booking[q].status \in Active
       /\ booking[q].conn = c
       => booking[q].start >= e \/ booking[q].end <= b
  /\ booking' = [booking EXCEPT ![r] =
                   [conn |-> c, user |-> u, start |-> b, end |-> e,
                    status |-> "BOOKED"]]
  /\ UNCHANGED occupant

(* Cancellation by the owner or staff, or expiry by the sweep. *)
Withdraw(r, how) ==
  /\ booking[r].status = "BOOKED"
  /\ booking' = [booking EXCEPT ![r].status = how]
  /\ UNCHANGED occupant

(* A sweep that settles a batch of no-shows at once. *)
Sweep(R) ==
  /\ R # {} /\ \A r \in R : booking[r].status = "BOOKED"
  /\ booking' = [r \in ResId |->
                   IF r \in R THEN [booking[r] EXCEPT !.status = "EXPIRED"] ELSE booking[r]]
  /\ UNCHANGED occupant

(* A session that consumes its owner's window on this connector. *)
ArriveBooked(s, c, u, r) ==
  /\ occupant[c] = {}
  /\ booking[r].status = "BOOKED"
  /\ booking[r].conn = c
  /\ booking[r].user = u
  /\ booking' = [booking EXCEPT ![r].status = "CONVERTED"]
  /\ occupant' = [occupant EXCEPT ![c] = {s}]

(* A session that consumes no window. *)
ArriveWalkIn(s, c) ==
  /\ occupant[c] = {}
  /\ occupant' = [occupant EXCEPT ![c] = {s}]
  /\ UNCHANGED booking

Leave(c) ==
  /\ occupant[c] # {}
  /\ occupant' = [occupant EXCEPT ![c] = {}]
  /\ UNCHANGED booking

Next ==
  \/ \E r \in ResId, c \in Conn, u \in User, b, e \in Time : Grant(r, c, u, b, e)
  \/ \E r \in ResId : Withdraw(r, "CANCELLED") \/ Withdraw(r, "EXPIRED")
  \/ \E R \in SUBSET ResId : Sweep(R)
  \/ \E s \in SessId, c \in Conn, u \in User, r \in ResId : ArriveBooked(s, c, u, r)
  \/ \E s \in SessId, c \in Conn : ArriveWalkIn(s, c)
  \/ \E c \in Conn : Leave(c)

Spec == Init /\ [][Next]_vars
=============================================================================
