---------------------------- MODULE OracleLocks ----------------------------
(***************************************************************************)
(* reservation_pkg and charge_session_pkg of db/oracle (V012, V003) as     *)
(* concurrent transactions under Oracle's row locks, statement by          *)
(* statement.                                                              *)
(*                                                                         *)
(* SELECT ... FOR UPDATE and UPDATE wait for the lock of a row, INSERT has *)
(* that of its own, and a transaction keeps its locks until it ends. A     *)
(* plain SELECT sees what is committed, and the transaction's own writes.  *)
(* What a transaction has written is in tx[t].put until it commits. A      *)
(* procedure that raises is rolled back, for its connection goes back to   *)
(* the pool (withConn, oracle.js). Oracle breaks a cycle of waiting        *)
(* transactions by refusing one of them.                                   *)
(* Statements that lock no row anybody waits for (audit, outbox, tariff)   *)
(* are left out.                                                           *)
(***************************************************************************)
EXTENDS Integers, Sequences, SequencesExt

CONSTANTS
  Conn, User,
  Tx,         \* bound: transactions at the same time
  None,       \* no window, no connector
  MaxRes,     \* bound: reservations ever inserted
  MaxSess,    \* bound: sessions ever inserted
  MaxTime     \* bound: instants at which a window may start or end

ASSUME LocksAssumption == {MaxRes, MaxSess, MaxTime} \subseteq Nat /\ None \notin 1..MaxRes

ResId == 1..MaxRes
SessId == 1..MaxSess
Time == 0..MaxTime
NoRow == [status |-> "NONE"]
NoSession == [state |-> "NONE"]
Live == {"PREPARING", "CHARGING", "SUSPENDED"}
Ended == {"COMPLETED", "FAILED", "CANCELLED"}

VARIABLES
  cstat, resv, sess,   \* committed rows
  nRes, nSess,         \* identities, which a rollback does not give back
  tx                   \* the transaction of each connection to Oracle

rows == <<cstat, resv, sess>>
vars == <<rows, nRes, nSess, tx>>

(* What a transaction has written; a connection with none under way.       *)
Nothing == [conn |-> <<>>, resv |-> <<>>, sess |-> <<>>]
Idle == [at |-> "idle", held |-> {}, put |-> Nothing, left |-> <<>>,
         conn |-> None, user |-> None, res |-> None, to |-> "OCCUPIED"]

Init ==
  /\ cstat = [c \in Conn |-> "AVAILABLE"]
  /\ resv = [r \in ResId |-> NoRow] /\ sess = [s \in SessId |-> NoSession]
  /\ nRes = 0 /\ nSess = 0 /\ tx = [t \in Tx |-> Idle]

-----------------------------------------------------------------------------
(* Row locks.                                                              *)
Row(kind, id) == <<kind, id>>
Holder(row) == {t \in Tx : row \in tx[t].held}
Free(t, row) == Holder(row) \subseteq {t}

Begins(t, x) == tx[t] = Idle /\ tx' = [tx EXCEPT ![t] = x]

Goes(t, at, new, put) ==
  tx' = [tx EXCEPT ![t].at = at, ![t].held = @ \cup new, ![t].put = put]

(* Mutant of RollsBack: the connection goes back to the pool as it is.     *)
StaysOpen(t) == UNCHANGED tx

RollsBack(t) == tx' = [tx EXCEPT ![t] = Idle]

(* One row written, one more, and a table under the rows written to it.    *)
Only(id, row) == [x \in {id} |-> row]
Also(put, id, row) == [x \in DOMAIN put \cup {id} |-> IF x = id THEN row ELSE put[x]]
Over(put, table) == [x \in DOMAIN table |-> IF x \in DOMAIN put THEN put[x] ELSE table[x]]

(* What transaction t sees of a row.                                       *)
SeesConn(t, c) == Over(tx[t].put.conn, cstat)[c]
SeesResv(t, r) == Over(tx[t].put.resv, resv)[r]
BookedOn(t, c) == {r \in ResId : LET w == SeesResv(t, r) IN w.status = "BOOKED" /\ w.conn = c}

-----------------------------------------------------------------------------
(* reservation_pkg                                                         *)
Active == {"BOOKED", "CONVERTED"}
Overlaps(c, b, e) == {r \in ResId :
  resv[r].status \in Active /\ resv[r].conn = c /\ resv[r].start < e /\ resv[r].end > b}

Window(c, u, b, e) == [conn |-> c, user |-> u, start |-> b, end |-> e, status |-> "BOOKED"]

CreateReservation(t, c, u, b, e) ==
  /\ b < e /\ nRes < MaxRes
  /\ Free(t, Row("conn", c)) /\ cstat[c] \in {"AVAILABLE", "RESERVED"}
  /\ Overlaps(c, b, e) = {}
  /\ nRes' = nRes + 1
  /\ Begins(t, [Idle EXCEPT !.at = "commit", !.held = {Row("conn", c), Row("resv", nRes + 1)},
                 !.put.conn = Only(c, "RESERVED"), !.put.resv = Only(nRes + 1, Window(c, u, b, e))])
  /\ UNCHANGED <<rows, nSess>>

CancelReservation(t, r) ==
  /\ resv[r].status = "BOOKED" /\ Free(t, Row("resv", r))
  /\ Begins(t, [Idle EXCEPT !.at = "release", !.held = {Row("resv", r)}, !.left = <<r>>,
                 !.put.resv = Only(r, [resv[r] EXCEPT !.status = "CANCELLED"])])
  /\ UNCHANGED <<rows, nRes, nSess>>

(* Any BOOKED window may be overdue; SKIP LOCKED passes over the others'.  *)
ExpireStale(t) == \E R \in SUBSET {r \in ResId : resv[r].status = "BOOKED" /\ Free(t, Row("resv", r))} :
  /\ R # {}
  /\ \E left \in SetToSeqs(R) :
       Begins(t, [Idle EXCEPT !.at = "release", !.held = {Row("resv", r) : r \in R}, !.left = left,
                    !.put.resv = [r \in R |-> [resv[r] EXCEPT !.status = "EXPIRED"]]])
  /\ UNCHANGED <<rows, nRes, nSess>>

(* Mutant of HoldFree: V006 released the connector whatever else is booked.*)
HoldAlwaysFree(t, c) == SeesConn(t, c) = "RESERVED"

(* Mutant of HoldFree: the count still sees the window being settled.      *)
HoldFreeBefore(t, c) ==
  SeesConn(t, c) = "RESERVED" /\ \A r \in ResId : resv[r].status = "BOOKED" => resv[r].conn # c

HoldFree(t, c) == SeesConn(t, c) = "RESERVED" /\ BookedOn(t, c) = {}

(* release_hold_if_free, for the windows cancelled or expired in turn.     *)
Release(t) ==
  /\ tx[t].at = "release"
  /\ LET c    == resv[Head(tx[t].left)].conn
         left == Tail(tx[t].left)
     IN /\ Free(t, Row("conn", c))
        /\ tx' = [tx EXCEPT ![t].left = left, ![t].at = IF left = <<>> THEN "commit" ELSE @,
                            ![t].held = @ \cup {Row("conn", c)},
                            ![t].put.conn = IF HoldFree(t, c) THEN Also(@, c, "AVAILABLE") ELSE @]
  /\ UNCHANGED <<rows, nRes, nSess>>

-----------------------------------------------------------------------------
(* charge_session_pkg                                                      *)
Session(c, u, r) == [conn |-> c, user |-> u, res |-> r, state |-> "PREPARING"]

Started(c, u, r) ==
  [conn |-> Only(c, "OCCUPIED"), sess |-> Only(nSess + 1, Session(c, u, r)),
   resv |-> IF r = None THEN <<>> ELSE Only(r, [resv[r] EXCEPT !.status = "CONVERTED"])]

StartSession(t, c, u, r) ==
  /\ nSess < MaxSess
  /\ Free(t, Row("conn", c)) /\ cstat[c] \in {"AVAILABLE", "RESERVED"}
  /\ IF r = None
     THEN /\ Begins(t, [Idle EXCEPT !.at = "commit", !.put = Started(c, u, r),
                                    !.held = {Row("conn", c), Row("sess", nSess + 1)}])
          /\ nSess' = nSess + 1
     ELSE /\ resv[r] # NoRow
          /\ Begins(t, [Idle EXCEPT !.at = "claim", !.held = {Row("conn", c)},
                                    !.conn = c, !.user = u, !.res = r])
          /\ UNCHANGED nSess
  /\ UNCHANGED <<rows, nRes>>

(* Mutant of Owned: the status of the window is not looked at.             *)
OwnedOnly(c, u, r) == resv[r].user = u /\ resv[r].conn = c

Owned(c, u, r) == resv[r].user = u /\ resv[r].conn = c /\ resv[r].status = "BOOKED"

(* An INSERT past the bound fails and is rolled back, like any other.      *)
ClaimWindow(t) ==
  /\ tx[t].at = "claim"
  /\ LET c == tx[t].conn
         u == tx[t].user
         r == tx[t].res
     IN /\ Free(t, Row("resv", r))
        /\ IF Owned(c, u, r) /\ nSess < MaxSess
           THEN /\ Goes(t, "commit", {Row("resv", r), Row("sess", nSess + 1)}, Started(c, u, r))
                /\ nSess' = nSess + 1
           ELSE RollsBack(t) /\ UNCHANGED nSess
  /\ UNCHANGED <<rows, nRes>>

Legal(from, to) ==
  \/ from = "PREPARING" /\ to \in {"CHARGING", "FAILED", "CANCELLED"}
  \/ from = "CHARGING" /\ to \in {"SUSPENDED", "COMPLETED", "FAILED"}
  \/ from = "SUSPENDED" /\ to \in {"CHARGING", "COMPLETED", "FAILED"}

(* transition, called by PATCH /sessions/:id/state and by stop_session.    *)
Transition(t, s, to) ==
  /\ Legal(sess[s].state, to) /\ Free(t, Row("sess", s))
  /\ Begins(t, [Idle EXCEPT
                 !.at = IF to = "CHARGING" THEN "set" ELSE IF to \in Ended THEN "count" ELSE "commit",
                 !.held = {Row("sess", s)}, !.put.sess = Only(s, [sess[s] EXCEPT !.state = to]),
                 !.conn = sess[s].conn])
  /\ UNCHANGED <<rows, nRes, nSess>>

(* The windows are counted before the connector is locked.                 *)
CountBooked(t) ==
  /\ tx[t].at = "count"
  /\ tx' = [tx EXCEPT ![t].at = "set",
                      ![t].to = IF BookedOn(t, tx[t].conn) # {} THEN "RESERVED" ELSE "AVAILABLE"]
  /\ UNCHANGED <<rows, nRes, nSess>>

(* guard_pkg.set_status.                                                   *)
SetConnector(t) ==
  /\ tx[t].at = "set" /\ Free(t, Row("conn", tx[t].conn))
  /\ Goes(t, "commit", {Row("conn", tx[t].conn)}, [tx[t].put EXCEPT !.conn = Only(tx[t].conn, tx[t].to)])
  /\ UNCHANGED <<rows, nRes, nSess>>

(* The first reading of a session; record_meter_tick writes no connector.  *)
RecordMeterTick(t, s) ==
  /\ sess[s].state = "PREPARING" /\ Free(t, Row("sess", s))
  /\ Begins(t, [Idle EXCEPT !.at = "commit", !.held = {Row("sess", s)},
                 !.put.sess = Only(s, [sess[s] EXCEPT !.state = "CHARGING"])])
  /\ UNCHANGED <<rows, nRes, nSess>>

-----------------------------------------------------------------------------
Commit(t) ==
  /\ tx[t].at = "commit"
  /\ cstat' = Over(tx[t].put.conn, cstat)
  /\ resv' = Over(tx[t].put.resv, resv)
  /\ sess' = Over(tx[t].put.sess, sess)
  /\ tx' = [tx EXCEPT ![t] = Idle]
  /\ UNCHANGED <<nRes, nSess>>

(* The row the next statement of a transaction waits for.                  *)
Wanted(t) ==
  CASE tx[t].at = "release" -> {Row("conn", resv[Head(tx[t].left)].conn)}
    [] tx[t].at = "claim"   -> {Row("resv", tx[t].res)}
    [] tx[t].at = "set"     -> {Row("conn", tx[t].conn)}
    [] OTHER                -> {}

WaitsFor(t) == UNION {Holder(row) : row \in Wanted(t)} \ {t}

(* ORA-00060: t is in a cycle of waiting transactions.                     *)
InCycle(t) == \E S \in SUBSET Tx :
  /\ t \in S /\ \A x \in S : \E y \in S : y \in WaitsFor(x)

Deadlock(t) == InCycle(t) /\ RollsBack(t) /\ UNCHANGED <<rows, nRes, nSess>>

(* The API dies or loses the connection.                                   *)
Lost(t) ==
  /\ tx[t] # Idle /\ RollsBack(t)
  /\ UNCHANGED <<rows, nRes, nSess>>

Called(t) ==
  \/ \E c \in Conn, u \in User, b, e \in Time : CreateReservation(t, c, u, b, e)
  \/ \E r \in ResId : CancelReservation(t, r)
  \/ ExpireStale(t)
  \/ \E c \in Conn, u \in User, r \in ResId \cup {None} : StartSession(t, c, u, r)
  \/ \E s \in SessId, to \in Live \cup Ended : Transition(t, s, to)
  \/ \E s \in SessId : RecordMeterTick(t, s)

Waits(t) == Release(t) \/ ClaimWindow(t) \/ SetConnector(t)
Runs(t) == CountBooked(t) \/ Commit(t) \/ Deadlock(t)

Next == \E t \in Tx : Called(t) \/ Waits(t) \/ Runs(t) \/ Lost(t)

Spec == Init /\ [][Next]_vars

(* Oracle serves those who wait for a row in turn.                         *)
Fairness == \A t \in Tx : SF_vars(Waits(t)) /\ WF_vars(Runs(t))

FairSpec == Spec /\ Fairness

-----------------------------------------------------------------------------
LiveOn(c) == {s \in SessId : sess[s].state \in Live /\ sess[s].conn = c}
Booked(c) == {r \in ResId : resv[r].status = "BOOKED" /\ resv[r].conn = c}

(* F-05: a connector is OCCUPIED exactly while a session is live on it, and *)
(* one that is AVAILABLE has no BOOKED window, though the end of a session  *)
(* counts the windows before it holds the connector (V012, transition). Of  *)
(* RESERVED it says nothing: HoldsReleased is about that.                   *)
StatusTrue == \A c \in Conn :
  /\ cstat[c] = "OCCUPIED" <=> LiveOn(c) # {}
  /\ cstat[c] = "AVAILABLE" => Booked(c) = {}

StaleHold(c) == cstat[c] = "RESERVED" /\ Booked(c) = {}

(* BUG-050: no cancellation, expiry, booking or start leaves a hold behind, *)
(* whatever the other transactions commit between its statements. Only the  *)
(* end of a session may: it counts the windows before it holds the row, and *)
(* a cancel or expire committed in between saw OCCUPIED and freed nothing.  *)
(* invariants.sql 12 ("a RESERVED connector must be held by a BOOKED        *)
(* reservation") then returns a row until another session there ends.       *)
HoldsReleased == [][\A c \in Conn : StaleHold(c)' =>
  \/ StaleHold(c)
  \/ \E s \in LiveOn(c) : sess'[s].state \in Ended]_vars

(* The packages implement the same promise as the store in memory: "both    *)
(* engines" (ADR-0005) grant, settle and serve alike.                       *)
Promise == INSTANCE Booking WITH booking <- resv, occupant <- [c \in Conn |-> LiveOn(c)]
Implements == Promise!Spec

(* No transaction waits for ever: cancel and expire lock the window before  *)
(* the connector, start locks the connector before the window, and a cycle  *)
(* ends in ORA-00060 and a rollback.                                        *)
TransactionsEnd == \A t \in Tx : tx[t] # Idle ~> tx[t] = Idle
=============================================================================
