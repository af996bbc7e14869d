--------------------------- MODULE ChargingStore ---------------------------
(***************************************************************************)
(* The booking and session engine of apps/api/src/db/store.js: reservation *)
(* windows, charging sessions and the connector status they share.         *)
(*                                                                         *)
(* The engine runs on one JavaScript thread.  A handler that takes a key   *)
(* of the promise-chain mutex (class Mutex) is suspended at least once, at *)
(* `await prev`, and then runs without interruption up to its next await.  *)
(* Each action below is one such uninterrupted stretch:                    *)
(*                                                                         *)
(*   Ask*    a request reaches the store and joins the chain of its key;   *)
(*   Run*    the request at the head of a chain runs its body;             *)
(*   Refuse* the body of the request at the head throws, changing nothing. *)
(*                                                                         *)
(* Bodies under a "conn:" key contain no await, so they run and leave the  *)
(* chain in one step.  Ending a session ("sess:") and cancelling a window  *)
(* ("res:") await a "conn:" key from inside their own: the request stays   *)
(* at the head of its chain (ending, cancelling) until its sync has run.   *)
(*                                                                         *)
(* Registers, prices and money are left to the metering and billing model; *)
(* notifications, audit rows and outbox events are written by these bodies *)
(* and read by none of them.                                               *)
(***************************************************************************)
EXTENDS Integers, Sequences, FiniteSets

CONSTANTS
  Conn,       \* connectors, "<cpId>:<connectorNo>"
  User,       \* drivers
  Staff,      \* an operator or administrator, who may cancel any window
  MaxRes,     \* bound on seq.res, the reservation ids handed out
  MaxSess,    \* bound on seq.sess, the session ids handed out
  MaxTime,    \* bound on the clock, in quarters of an hour
  MinLen,     \* shortest window (15 min = 1)
  MaxLen,     \* longest window (120 min = 8)
  Grace,      \* a window is stale this long after its start (15 min = 1)
  MaxWaiting, \* bound on what may wait at all keys when a request joins
  MoveTo      \* the states an operator's PATCH /sessions/:id/state asks for

ASSUME BoundsAssumption ==
  /\ MaxRes \in Nat
  /\ MaxSess \in Nat
  /\ MaxTime \in Nat
  /\ MinLen \in Nat \ {0}
  /\ MaxLen \in Nat
  /\ Grace \in Nat
  /\ MaxWaiting \in Nat


ResId == 1 .. MaxRes
SessId == 1 .. MaxSess
Time == 0 .. MaxTime
NoRes == 0                            \* reservation_id: null

ConnStatus == {"AVAILABLE", "OCCUPIED", "RESERVED", "FAULTED", "UNAVAILABLE"}
LiveState == {"PREPARING", "CHARGING", "SUSPENDED"}
EndState == {"COMPLETED", "FAILED", "CANCELLED"}
SessState == LiveState \cup EndState

ASSUME RequestAssumption == Staff \notin User /\ MoveTo \subseteq SessState

(* Rows of the reservations and sessions maps; an id that has not been     *)
(* handed out yet maps to NoRow.                                           *)
NoRow == [status |-> "NONE"]
Reservation ==
  [conn : Conn, user : User, start : Time, end : Time,
   status : {"BOOKED", "CONVERTED", "CANCELLED", "EXPIRED"}]
NoSession == [state |-> "NONE"]
Session ==
  [conn : Conn, user : User, res : {NoRes} \cup ResId, state : SessState]

(* Requests waiting at a key, with the arguments their body reads.         *)
ConnJob ==
  [op : {"reserve"}, user : User, start : Time, end : Time]
    \cup [op : {"start"}, user : User, res : {NoRes} \cup ResId]
    \cup [op : {"expire", "syncRes"}, res : ResId]
    \cup [op : {"syncSess"}, sess : SessId]
SessJob == [op : {"tick", "move", "stop"}, to : SessState]

VARIABLES
  now,        \* the wall clock
  cstat,      \* connector.status
  resv,       \* the reservations map
  nRes,       \* seq.res
  sess,       \* the sessions map
  nSess,      \* seq.sess
  connQ,      \* the chain of each "conn:" key
  sessQ,      \* the chain of each "sess:" key
  resQ,       \* the chain of each "res:" key (cancellations)
  ending,     \* sessions whose end awaits its sync, holding their "sess:" key
  cancelling  \* windows whose cancellation awaits its sync, holding "res:"

data == <<cstat, resv, nRes, sess, nSess>>
queues == <<connQ, sessQ, resQ>>
holders == <<ending, cancelling>>
vars == <<now, data, queues, holders>>

(* ------------------------------ helpers -------------------------------- *)

LegalTransition(from, to) ==
  \/ from = "PREPARING" /\ to \in {"CHARGING", "FAILED", "CANCELLED"}
  \/ from = "CHARGING" /\ to \in {"SUSPENDED", "COMPLETED", "FAILED"}
  \/ from = "SUSPENDED" /\ to \in {"CHARGING", "COMPLETED", "FAILED"}

Active == {"BOOKED", "CONVERTED"}

(* The BOOKED windows of connector c in the reservation table rs.          *)
BookedOn(c, rs) == {r \in ResId : rs[r].status = "BOOKED" /\ rs[r].conn = c}

(* Mutant of OwnBooked: the BOOKED check is dropped.                       *)
OwnAny(c, u) == {r \in ResId : resv[r] # NoRow /\ resv[r].conn = c /\ resv[r].user = u}
OwnBooked(c, u) == {r \in BookedOn(c, resv) : resv[r].user = u}

Bookable(c) == cstat[c] \in {"AVAILABLE", "RESERVED"}

(* Mutant of Held: the early return for a connector in use is dropped.     *)
HeldAlways(c, rs) == IF BookedOn(c, rs) = {} THEN "AVAILABLE" ELSE "RESERVED"

(* syncConnectorHold: the status of c derived from the windows rs, unless  *)
(* the connector is in use or out of service.                              *)
Held(c, rs) ==
  IF ~Bookable(c) THEN cstat[c]
  ELSE IF BookedOn(c, rs) = {} THEN "AVAILABLE" ELSE "RESERVED"

HeadOp(c, op) == connQ[c] # <<>> /\ Head(connQ[c]).op = op
Served(Q, k) == [Q EXCEPT ![k] = Tail(@)]
Waiting(Q, k, job) == [Q EXCEPT ![k] = Append(@, job)]

(* Room for one more request (bound).                                      *)
Places(Q) == UNION {{k} \X DOMAIN Q[k] : k \in DOMAIN Q}
Room == Cardinality(Places(connQ)) + Cardinality(Places(sessQ))
          + Cardinality(Places(resQ)) < MaxWaiting

Live(s) == sess[s].state \in LiveState
Stale(r) == resv[r].start + Grace < now

Init ==
  /\ now = 0
  /\ cstat = [c \in Conn |-> "AVAILABLE"]
  /\ resv = [r \in ResId |-> NoRow]
  /\ nRes = 0
  /\ sess = [s \in SessId |-> NoSession]
  /\ nSess = 0
  /\ connQ = [c \in Conn |-> <<>>]
  /\ sessQ = [s \in SessId |-> <<>>]
  /\ resQ = [r \in ResId |-> <<>>]
  /\ ending = {}
  /\ cancelling = {}

TimePasses ==
  /\ now < MaxTime
  /\ now' = now + 1
  /\ UNCHANGED <<data, queues, holders>>

(* ------------------------- arrival of requests ------------------------- *)

(* POST /reservations: vReservation checks the window before the store     *)
(* checks it again under the key.                                          *)
ValidWindow(b, e) == e - b \in MinLen .. MaxLen /\ b >= now

AskReserve(c, u, b, e) ==
  /\ ValidWindow(b, e)
  /\ nRes < MaxRes
  /\ Room
  /\ connQ' = Waiting(connQ, c, [op |-> "reserve", user |-> u, start |-> b, end |-> e])
  /\ UNCHANGED <<now, data, sessQ, resQ, holders>>

(* POST /sessions/start names a window or none; an OCPP StartTransaction   *)
(* always names none.                                                      *)
AskStart(c, u, r) ==
  /\ nSess < MaxSess
  /\ Room
  /\ connQ' = Waiting(connQ, c, [op |-> "start", user |-> u, res |-> r])
  /\ UNCHANGED <<now, data, sessQ, resQ, holders>>

(* Mutant of AskExpire: the sweep passes over windows that have ended.     *)
AskExpireRunning(r) ==
  /\ resv[r].status = "BOOKED"
  /\ Stale(r)
  /\ LET c == resv[r].conn IN
       /\ now < resv[r].end
       /\ \A i \in 1 .. Len(connQ[c]) : connQ[c][i] # [op |-> "expire", res |-> r]
       /\ connQ' = Waiting(connQ, c, [op |-> "expire", res |-> r])
  /\ UNCHANGED <<now, data, sessQ, resQ, holders>>

(* One iteration of expireStale's loop up to its await.  Sweeps may        *)
(* overlap; one request per window waits at a time (bound).                *)
AskExpire(r) ==
  /\ resv[r].status = "BOOKED"
  /\ Stale(r)
  /\ LET c == resv[r].conn IN
       /\ \A i \in 1 .. Len(connQ[c]) : connQ[c][i] # [op |-> "expire", res |-> r]
       /\ connQ' = Waiting(connQ, c, [op |-> "expire", res |-> r])
  /\ UNCHANGED <<now, data, sessQ, resQ, holders>>

AskCancel(r, by) ==
  /\ resv[r].status # "NONE"
  /\ Room
  /\ resQ' = Waiting(resQ, r, by)
  /\ UNCHANGED <<now, data, connQ, sessQ, holders>>

(* PATCH /sessions/:id/state.                                              *)
AskMove(s, to) ==
  /\ sess[s].state # "NONE"
  /\ Room
  /\ sessQ' = Waiting(sessQ, s, [op |-> "move", to |-> to])
  /\ UNCHANGED <<now, data, connQ, resQ, holders>>

(* recordTick, up to its lock.  Sequence numbers start at 1.               *)
AskTick(s) ==
  /\ sess[s].state # "NONE"
  /\ Room
  /\ sessQ' = Waiting(sessQ, s, [op |-> "tick", to |-> "CHARGING"])
  /\ UNCHANGED <<now, data, connQ, resQ, holders>>

(* stopSession holds no lock when it picks the state to move to.  A stop   *)
(* of a session that has ended asks for no transition.                     *)
StopTarget(state) == IF state = "PREPARING" THEN "CANCELLED" ELSE "COMPLETED"
AskStop(s) ==
  /\ Live(s)
  /\ Room
  /\ sessQ' = Waiting(sessQ, s, [op |-> "stop", to |-> StopTarget(sess[s].state)])
  /\ UNCHANGED <<now, data, connQ, resQ, holders>>

(* --------------------- bodies under a "conn:" key ---------------------- *)

Overlaps(r, b, e) == resv[r].start < e /\ resv[r].end > b

(* Mutant of CanReserve: CONVERTED windows no longer count.                *)
CanReserveConverted(c, j) ==
  /\ nRes < MaxRes
  /\ ValidWindow(j.start, j.end)
  /\ Bookable(c)
  /\ \A r \in BookedOn(c, resv) : ~Overlaps(r, j.start, j.end)

CanReserve(c, j) ==
  /\ nRes < MaxRes
  /\ ValidWindow(j.start, j.end)
  /\ Bookable(c)
  /\ \A r \in ResId :
       resv[r].status \in Active /\ resv[r].conn = c => ~Overlaps(r, j.start, j.end)

RunReserve(c) ==
  /\ HeadOp(c, "reserve")
  /\ LET j == Head(connQ[c]) IN
       /\ CanReserve(c, j)
       /\ resv' = [resv EXCEPT ![nRes + 1] =
                     [conn |-> c, user |-> j.user, start |-> j.start,
                      end |-> j.end, status |-> "BOOKED"]]
  /\ nRes' = nRes + 1
  /\ cstat' = [cstat EXCEPT ![c] = "RESERVED"]
  /\ connQ' = Served(connQ, c)
  /\ UNCHANGED <<now, sess, nSess, sessQ, resQ, holders>>

(* The windows a start may consume: the one it names, if it is the         *)
(* caller's and BOOKED; on a RESERVED connector the caller's first BOOKED  *)
(* window; otherwise none.  An empty set is RESERVATION_MISMATCH.          *)
Claims(c, j) ==
  LET own == OwnBooked(c, j.user) IN
  IF j.res # NoRes THEN own \cap {j.res}
  ELSE IF cstat[c] = "RESERVED" THEN {r \in own : \A q \in own : r <= q}
  ELSE {NoRes}

RunStart(c) ==
  /\ HeadOp(c, "start")
  /\ nSess < MaxSess
  /\ Bookable(c)
  /\ LET j == Head(connQ[c]) IN
       \E r \in Claims(c, j) :
         /\ sess' = [sess EXCEPT ![nSess + 1] =
                       [conn |-> c, user |-> j.user, res |-> r, state |-> "PREPARING"]]
         /\ resv' = IF r = NoRes THEN resv ELSE [resv EXCEPT ![r].status = "CONVERTED"]
  /\ nSess' = nSess + 1
  /\ cstat' = [cstat EXCEPT ![c] = "OCCUPIED"]
  /\ connQ' = Served(connQ, c)
  /\ UNCHANGED <<now, nRes, sessQ, resQ, holders>>

(* Mutants of RunExpire: no second look under the key; the hold is given   *)
(* up although another window still needs it.                              *)
RunExpireUnchecked(c) ==
  /\ HeadOp(c, "expire")
  /\ LET r == Head(connQ[c]).res IN
       /\ resv' = [resv EXCEPT ![r].status = "EXPIRED"]
       /\ cstat' = [cstat EXCEPT ![c] = Held(c, resv')]
  /\ connQ' = Served(connQ, c)
  /\ UNCHANGED <<now, nRes, sess, nSess, sessQ, resQ, holders>>
RunExpireReleases(c) ==
  /\ HeadOp(c, "expire")
  /\ LET r == Head(connQ[c]).res IN
       /\ resv[r].status = "BOOKED"
       /\ resv' = [resv EXCEPT ![r].status = "EXPIRED"]
  /\ cstat' = [cstat EXCEPT ![c] = IF Bookable(c) THEN "AVAILABLE" ELSE @]
  /\ connQ' = Served(connQ, c)
  /\ UNCHANGED <<now, nRes, sess, nSess, sessQ, resQ, holders>>

(* The sweep re-checks BOOKED under the lock, and releases the hold.       *)
RunExpire(c) ==
  /\ HeadOp(c, "expire")
  /\ LET r == Head(connQ[c]).res IN
       /\ resv[r].status = "BOOKED"
       /\ resv' = [resv EXCEPT ![r].status = "EXPIRED"]
       /\ cstat' = [cstat EXCEPT ![c] = Held(c, resv')]
  /\ connQ' = Served(connQ, c)
  /\ UNCHANGED <<now, nRes, sess, nSess, sessQ, resQ, holders>>

(* The inner critical section of cancelReservation, after which it leaves  *)
(* its own key.                                                            *)
RunSyncRes(c) ==
  /\ HeadOp(c, "syncRes")
  /\ LET r == Head(connQ[c]).res IN
       /\ cancelling' = cancelling \ {r}
       /\ resQ' = Served(resQ, r)
  /\ cstat' = [cstat EXCEPT ![c] = Held(c, resv)]
  /\ connQ' = Served(connQ, c)
  /\ UNCHANGED <<now, resv, nRes, sess, nSess, sessQ, ending>>

(* The inner critical section of a transition that ends a session.         *)
RunSyncSess(c) ==
  /\ HeadOp(c, "syncSess")
  /\ LET s == Head(connQ[c]).sess IN
       /\ ending' = ending \ {s}
       /\ sessQ' = Served(sessQ, s)
  /\ cstat' = [cstat EXCEPT ![c] = Held(c, resv)]
  /\ connQ' = Served(connQ, c)
  /\ UNCHANGED <<now, resv, nRes, sess, nSess, resQ, cancelling>>

(* Mutant of RefuseConn: a body that throws keeps its key (no finally).    *)
RefuseConnKeeps(c) ==
  /\ connQ[c] # <<>>
  /\ LET j == Head(connQ[c]) IN
       \/ j.op = "reserve" /\ ~CanReserve(c, j)
       \/ j.op = "start" /\ (nSess = MaxSess \/ ~Bookable(c) \/ Claims(c, j) = {})
       \/ j.op = "expire" /\ resv[j.res].status # "BOOKED"
  /\ UNCHANGED vars

RefuseConn(c) ==
  /\ connQ[c] # <<>>
  /\ LET j == Head(connQ[c]) IN
       \/ j.op = "reserve" /\ ~CanReserve(c, j)
       \/ j.op = "start" /\ (nSess = MaxSess \/ ~Bookable(c) \/ Claims(c, j) = {})
       \/ j.op = "expire" /\ resv[j.res].status # "BOOKED"
  /\ connQ' = Served(connQ, c)
  /\ UNCHANGED <<now, data, sessQ, resQ, holders>>

(* --------------- bodies under a "res:" or a "sess:" key ---------------- *)

MayCancel(r, by) == by = Staff \/ by = resv[r].user

RunCancel(r) ==
  /\ resQ[r] # <<>> /\ r \notin cancelling
  /\ MayCancel(r, Head(resQ[r]))
  /\ resv[r].status = "BOOKED"
  /\ resv' = [resv EXCEPT ![r].status = "CANCELLED"]
  /\ cancelling' = cancelling \cup {r}
  /\ connQ' = Waiting(connQ, resv[r].conn, [op |-> "syncRes", res |-> r])
  /\ UNCHANGED <<now, cstat, nRes, sess, nSess, sessQ, resQ, ending>>

RefuseCancel(r) ==
  /\ resQ[r] # <<>> /\ r \notin cancelling
  /\ ~MayCancel(r, Head(resQ[r])) \/ resv[r].status # "BOOKED"
  /\ resQ' = Served(resQ, r)
  /\ UNCHANGED <<now, data, connQ, sessQ, holders>>

SessTurn(s) == sessQ[s] # <<>> /\ s \notin ending

(* recordTick: the first tick of a PREPARING session puts it in CHARGING;  *)
(* it leaves the connector status alone.                                   *)
RunTick(s) ==
  /\ SessTurn(s)
  /\ Head(sessQ[s]).op = "tick"
  /\ sess' = [sess EXCEPT ![s].state = IF @ = "PREPARING" THEN "CHARGING" ELSE @]
  /\ sessQ' = Served(sessQ, s)
  /\ UNCHANGED <<now, cstat, resv, nRes, nSess, connQ, resQ, holders>>

(* transitionLocal to CHARGING or SUSPENDED.  It writes the connector      *)
(* status without the connector's key.                                     *)
RunMove(s) ==
  /\ SessTurn(s)
  /\ LET j == Head(sessQ[s]) IN
       /\ j.op # "tick" /\ j.to \in LiveState
       /\ LegalTransition(sess[s].state, j.to)
       /\ sess' = [sess EXCEPT ![s].state = j.to]
       /\ cstat' = IF j.to = "CHARGING"
                   THEN [cstat EXCEPT ![sess[s].conn] = "OCCUPIED"]
                   ELSE cstat
  /\ sessQ' = Served(sessQ, s)
  /\ UNCHANGED <<now, resv, nRes, nSess, connQ, resQ, holders>>

(* transitionLocal to a terminal state: the connector becomes AVAILABLE at *)
(* once, still without its key, and the derived hold is re-established     *)
(* only when the "conn:" chain gets to this request's sync.                *)
RunEnd(s) ==
  /\ SessTurn(s)
  /\ LET j == Head(sessQ[s]) IN
       /\ j.op # "tick" /\ j.to \in EndState
       /\ LegalTransition(sess[s].state, j.to)
       /\ sess' = [sess EXCEPT ![s].state = j.to]
  /\ cstat' = [cstat EXCEPT ![sess[s].conn] = "AVAILABLE"]
  /\ ending' = ending \cup {s}
  /\ connQ' = Waiting(connQ, sess[s].conn, [op |-> "syncSess", sess |-> s])
  /\ UNCHANGED <<now, resv, nRes, nSess, sessQ, resQ, cancelling>>

(* ILLEGAL_TRANSITION.  Whether a tick is a replay, or its register no      *)
(* number or too low, is not modelled here: any tick may be refused.       *)
RefuseSess(s) ==
  /\ SessTurn(s)
  /\ LET j == Head(sessQ[s]) IN
       j.op = "tick" \/ ~LegalTransition(sess[s].state, j.to)
  /\ sessQ' = Served(sessQ, s)
  /\ UNCHANGED <<now, data, connQ, resQ, holders>>

(* ---------------------------- specification ---------------------------- *)

ConnStep(c) ==
  \/ RunReserve(c)
  \/ RunStart(c)
  \/ RunExpire(c)
  \/ RunSyncRes(c)
  \/ RunSyncSess(c)
  \/ RefuseConn(c)

ResStep(r) == RunCancel(r) \/ RefuseCancel(r)

SessStep(s) == RunTick(s) \/ RunMove(s) \/ RunEnd(s) \/ RefuseSess(s)

Ask ==
  \/ \E c \in Conn, u \in User, b, e \in Time : AskReserve(c, u, b, e)
  \/ \E c \in Conn, u \in User, r \in {NoRes} \cup ResId : AskStart(c, u, r)
  \/ \E r \in ResId : AskExpire(r)
  \/ \E r \in ResId, by \in User \cup {Staff} : AskCancel(r, by)
  \/ \E s \in SessId, to \in MoveTo : AskMove(s, to)
  \/ \E s \in SessId : AskTick(s)
  \/ \E s \in SessId : AskStop(s)

Next ==
  \/ TimePasses
  \/ Ask
  \/ \E c \in Conn : ConnStep(c)
  \/ \E r \in ResId : ResStep(r)
  \/ \E s \in SessId : SessStep(s)

Spec == Init /\ [][Next]_vars

(* The event loop resumes every request whose turn has come; a relay worker *)
(* that gets through its cycle calls POST /internal/expire in each of them. *)
Fairness ==
  /\ \A c \in Conn : WF_vars(ConnStep(c))
  /\ \A r \in ResId : WF_vars(ResStep(r)) /\ WF_vars(AskExpire(r))
  /\ \A s \in SessId : WF_vars(SessStep(s))

FairSpec == Spec /\ Fairness

(* ------------------------------ properties ----------------------------- *)

(* Types of the rows, of the chains and of the requests suspended inside a  *)
(* second key; ids are handed out in order (++seq.res, ++seq.sess).         *)
TypeOK ==
  /\ now \in Time
  /\ cstat \in [Conn -> ConnStatus]
  /\ nRes \in 0 .. MaxRes
  /\ resv \in [ResId -> Reservation \cup {NoRow}]
  /\ \A r \in ResId : resv[r] = NoRow <=> r > nRes
  /\ nSess \in 0 .. MaxSess
  /\ sess \in [SessId -> Session \cup {NoSession}]
  /\ \A s \in SessId : sess[s] = NoSession <=> s > nSess
  /\ connQ \in [Conn -> Seq(ConnJob)]
  /\ sessQ \in [SessId -> Seq(SessJob)]
  /\ resQ \in [ResId -> Seq(User \cup {Staff})]
  /\ ending \subseteq SessId
  /\ cancelling \subseteq ResId

(* Two active windows of one connector never overlap, however the requests  *)
(* of all drivers interleave (createReservation; db/oracle/invariants.sql   *)
(* invariant 1).                                                            *)
NoOverlap ==
  \A r, q \in ResId :
    /\ r # q
    /\ resv[r].status \in {"BOOKED", "CONVERTED"}
    /\ resv[q].status \in {"BOOKED", "CONVERTED"}
    /\ resv[r].conn = resv[q].conn
    => resv[r].end <= resv[q].start \/ resv[q].end <= resv[r].start

LiveOn(c) == {s \in SessId : Live(s) /\ sess[s].conn = c}

(* A connector is OCCUPIED exactly while one session is live on it, and it  *)
(* never carries two: no start, sync, sweep or cancellation that was        *)
(* waiting while a session began or ended frees a connector in use          *)
(* (startSession, transitionLocal, syncConnectorHold).                      *)
OneSessionPerConnector ==
  \A c \in Conn :
    /\ cstat[c] = "OCCUPIED" <=> LiveOn(c) # {}
    /\ \A s, t \in LiveOn(c) : s = t

(* F-05: a connector out of use is RESERVED exactly when it has a BOOKED    *)
(* window, except while the request that made the difference is suspended   *)
(* before its own sync: a cancellation leaves a hold behind, the end of a   *)
(* session leaves one missing (syncConnectorHold and its three callers;     *)
(* db/oracle/invariants.sql invariant 12).                                  *)
HoldSound ==
  \A c \in Conn :
    /\ cstat[c] = "RESERVED" /\ BookedOn(c, resv) = {}
       => \E r \in cancelling : resv[r].conn = c
    /\ cstat[c] = "AVAILABLE" /\ BookedOn(c, resv) # {}
       => \E s \in ending : sess[s].conn = c

(* A window is CONVERTED exactly when one session consumed it, and that     *)
(* session is its owner's, on its connector (startSession, B2G-013).        *)
ConvertedOnce ==
  \A r \in ResId :
    LET by == {s \in SessId : sess[s] # NoSession /\ sess[s].res = r} IN
    /\ resv[r].status = "CONVERTED" <=> by # {}
    /\ \A s, t \in by : s = t
    /\ \A s \in by : sess[s].user = resv[r].user /\ sess[s].conn = resv[r].conn

(* A window that was converted, cancelled or expired never changes again,   *)
(* and an ended session never resumes: what a sweep, a cancellation, a tick *)
(* or a stop read before its key was free is checked again under it.        *)
SettledStays ==
  [][/\ \A r \in ResId :
          resv[r].status \in {"CONVERTED", "CANCELLED", "EXPIRED"}
          => resv'[r] = resv[r]
     /\ \A s \in SessId : sess[s].state \in EndState => sess'[s] = sess[s]]_vars

(* What the engine promises, free of locks and of the connector status.     *)
Promise == INSTANCE Booking WITH booking <- resv, occupant <- [c \in Conn |-> LiveOn(c)]

(* The engine implements that promise.                                      *)
Implements == Promise!Spec

(* A request that takes a "conn:" key inside its own key always gets it:    *)
(* ending a session and cancelling a window finish (transitionLocal,        *)
(* cancelReservation), and the keys of both are free again.                 *)
NestedKeysReleased ==
  /\ \A s \in SessId : s \in ending ~> s \notin ending
  /\ \A r \in ResId : r \in cancelling ~> r \notin cancelling

(* A no-show window does not hold its connector for ever: the sweep, or     *)
(* whoever gets to the window first, settles it (expireStale).              *)
StaleSettled ==
  \A r \in ResId :
    resv[r].status = "BOOKED" /\ Stale(r) ~> resv[r].status # "BOOKED"
=============================================================================
