-------------------------- MODULE ConnectorFleet ---------------------------
(***************************************************************************)
(* The booking engine together with the two writers of connector status    *)
(* that know nothing of its keys: the OCPP StatusNotification handler of   *)
(* apps/api/src/ocpp/gateway.js and the fault and maintenance routes of    *)
(* apps/api/src/routes.js.  Both run to completion without an await.       *)
(*                                                                         *)
(* A fault row is kept for ever and a maintenance record can be completed  *)
(* any number of times, so of both only the connectors they name matter.   *)
(***************************************************************************)
EXTENDS ChargingStore

VARIABLES
  faulty,     \* connectors some fault row names
  serviced    \* connectors some maintenance record names, through its fault

fleetVars == <<vars, faulty, serviced>>

(* "Preparing" stands for every status the handler's table does not list.  *)
Report == {"Available", "Occupied", "Reserved", "Faulted", "Unavailable", "Preparing"}

Reported(report) ==
  CASE report = "Available" -> "AVAILABLE"
    [] report = "Occupied"  -> "OCCUPIED"
    [] report = "Reserved"  -> "RESERVED"
    [] report = "Faulted"   -> "FAULTED"
    [] OTHER                -> "UNAVAILABLE"

FleetInit == Init /\ faulty = {} /\ serviced = {}

(* "Available" does not erase OCCUPIED or RESERVED; every other report is  *)
(* written as it comes.                                                    *)
StatusNotification(c, report, error) ==
  /\ cstat' = [cstat EXCEPT ![c] =
                 IF report = "Available" /\ @ \in {"OCCUPIED", "RESERVED"}
                 THEN @ ELSE Reported(report)]
  /\ faulty' = IF error THEN faulty \cup {c} ELSE faulty
  /\ UNCHANGED <<now, resv, nRes, sess, nSess, queues, holders, serviced>>

(* POST /stations/:id/faults writes a row and leaves the status alone.     *)
ReportFault(c) ==
  /\ faulty' = faulty \cup {c}
  /\ UNCHANGED <<vars, serviced>>

(* POST /faults/:id/maintenance.                                           *)
OpenMaintenance(c) ==
  /\ c \in faulty
  /\ serviced' = serviced \cup {c}
  /\ UNCHANGED <<vars, faulty>>

(* PATCH /maintenance/:id/complete.                                        *)
CompleteMaintenance(c) ==
  /\ c \in serviced
  /\ cstat' = [cstat EXCEPT ![c] = IF @ = "FAULTED" THEN "AVAILABLE" ELSE @]
  /\ UNCHANGED <<now, resv, nRes, sess, nSess, queues, holders, faulty, serviced>>

Outside ==
  \/ \E c \in Conn, report \in Report, error \in BOOLEAN : StatusNotification(c, report, error)
  \/ \E c \in Conn : ReportFault(c) \/ OpenMaintenance(c) \/ CompleteMaintenance(c)

FleetNext == (Next /\ UNCHANGED <<faulty, serviced>>) \/ Outside

FleetSpec == FleetInit /\ [][FleetNext]_fleetVars

(* ------------------------------ properties ----------------------------- *)

(* Whatever the charge points report and whoever completes a repair, the   *)
(* records that drivers are billed by keep their integrity: windows never  *)
(* overlap and each CONVERTED window belongs to one session of its owner   *)
(* (createReservation and startSession do not rest on the status alone).   *)
RecordsSound == NoOverlap /\ ConvertedOnce

(* A settled window and an ended session stay as they are, reports and     *)
(* repairs included.                                                       *)
RecordsSettled == SettledStays

(* The comment on StatusNotification: a charge point must not erase        *)
(* CSMS-owned state with a stale "Available", since "during an active      *)
(* session that would make the connector bookable again (double-booking)". *)
(* No connector ever carries two live sessions.                            *)
OneLiveSession ==
  \A c \in Conn : \A s, t \in LiveOn(c) : s = t
=============================================================================
