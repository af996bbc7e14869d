---------------------------- MODULE WriteThrough ----------------------------
(***************************************************************************)
(* Two copies of the bookings: Oracle and the store in memory, kept alike  *)
(* by the wrappers of apps/api/src/db/oracle.js.                           *)
(*                                                                         *)
(* A reservation, a cancellation, a sweep and the end of a session go to   *)
(* Oracle first, and to memory in the turn of the event loop that brings   *)
(* the answer; the start of a session goes to memory first and is undone   *)
(* if Oracle refuses it.  A package call is one atomic step here (module   *)
(* OracleLocks has its statements); the keys of the store (ChargingStore)  *)
(* are never held over a call to Oracle, so that a half in memory is one   *)
(* step as well.  Oracle numbers rows with identity columns that skip      *)
(* numbers, memory counts for itself.                                      *)
(***************************************************************************)
EXTENDS Integers, FiniteSetsExt

CONSTANTS
  Conn,
  Spot,        \* time slots of a window: two windows overlap if they have one
  Caller,      \* bound: calls under way at the same time
  None,        \* no window; no call that a session belongs to
  MaxRes,      \* bound: identity of a reservation
  MaxSess,     \* bound: identity of a session
  MaxFaults    \* bound: calls that Oracle fails, and restarts of the API

ASSUME WriteThroughAssumption ==
  /\ {MaxRes, MaxSess, MaxFaults} \subseteq Nat
  /\ None \notin Caller \cup 1..MaxRes

ResId == 1..MaxRes
SessId == 1..MaxSess
NoRow == [status |-> "NONE"]
NoSession == [state |-> "NONE"]
NoCall == [kind |-> "none", at |-> "nowhere"]

VARIABLES
  mem, dur,       \* cstat, resv and sess of each copy
  seqRes, seqSess, \* the counters of memory
  lastRes, lastSess, \* the highest identities Oracle has given
  calls,          \* what is under way in each slot
  faults

writeVars == <<mem, dur, seqRes, seqSess, lastRes, lastSess, calls, faults>>

Fresh == [cstat |-> [c \in Conn |-> "AVAILABLE"],
          resv  |-> [r \in ResId |-> NoRow], sess |-> [s \in SessId |-> NoSession]]

WriteInit ==
  /\ mem = Fresh /\ dur = Fresh
  /\ seqRes = 0 /\ seqSess = 0 /\ lastRes = 0 /\ lastSess = 0
  /\ calls = [k \in Caller |-> NoCall] /\ faults = 0

-----------------------------------------------------------------------------
(* What both engines do to their copy.                                     *)
Booked(copy, c) == {r \in ResId : copy.resv[r].status = "BOOKED" /\ copy.resv[r].conn = c}
Clash(copy, c, spot) == \E r \in ResId :
  copy.resv[r].status \in {"BOOKED", "CONVERTED"} /\ copy.resv[r].conn = c /\ copy.resv[r].spot = spot

Bookable(copy, c) == copy.cstat[c] \in {"AVAILABLE", "RESERVED"}
CanReserve(copy, c, spot) == Bookable(copy, c) /\ ~Clash(copy, c, spot)
Window(c, spot) == [conn |-> c, spot |-> spot, status |-> "BOOKED"]

Reserved(copy, r, c, spot) ==
  [copy EXCEPT !.resv[r] = Window(c, spot), !.cstat[c] = "RESERVED"]

(* The hold of a connector out of use follows from its BOOKED windows.     *)
Synced(copy) == [copy EXCEPT !.cstat = [c \in Conn |->
  IF copy.cstat[c] = "RESERVED" /\ Booked(copy, c) = {} THEN "AVAILABLE" ELSE copy.cstat[c]]]

Settled(copy, R, how) == Synced([copy EXCEPT !.resv = [r \in ResId |->
  IF r \in R THEN [copy.resv[r] EXCEPT !.status = how] ELSE copy.resv[r]]])

CanStart(copy, c, r) ==
  /\ Bookable(copy, c)
  /\ r # None => copy.resv[r].status = "BOOKED" /\ copy.resv[r].conn = c

Session(c, r, k) == [conn |-> c, res |-> r, state |-> "LIVE", call |-> k]

(* In memory the row belongs to call k until that is answered.             *)
Started(copy, s, c, r, k) ==
  [copy EXCEPT !.sess[s] = Session(c, r, k), !.cstat[c] = "OCCUPIED",
               !.resv = IF r = None THEN @ ELSE [@ EXCEPT ![r].status = "CONVERTED"]]

Ended(copy, s) ==
  LET c == copy.sess[s].conn
  IN [copy EXCEPT !.sess[s].state = "ENDED",
                  !.cstat[c] = IF Booked(copy, c) = {} THEN "AVAILABLE" ELSE "RESERVED"]

-----------------------------------------------------------------------------
Asks(k, call) == calls[k] = NoCall /\ calls' = [calls EXCEPT ![k] = call]
Here(k, kind, at) == calls[k].kind = kind /\ calls[k].at = at
Ends(k) == calls' = [calls EXCEPT ![k] = NoCall]
Answered(k, call) == calls' = [calls EXCEPT ![k] = call]

AskReserve(k) == \E c \in Conn, spot \in Spot :
  Asks(k, [kind |-> "reserve", at |-> "oracle", conn |-> c, spot |-> spot])
AskCancel(k) == \E r \in ResId :
  mem.resv[r] # NoRow /\ Asks(k, [kind |-> "cancel", at |-> "oracle", res |-> r])
AskSweep(k) == Asks(k, [kind |-> "sweep", at |-> "oracle"])
AskEnd(k) == \E s \in SessId :
  mem.sess[s] # NoSession /\ Asks(k, [kind |-> "end", at |-> "oracle", sess |-> s])

(* startSession: memory first.  A connector that is RESERVED is taken with *)
(* a window only, the caller's own.                                        *)
AskStart(k) == \E c \in Conn, r \in ResId \cup {None} :
  /\ seqSess < MaxSess
  /\ CanStart(mem, c, r) /\ (r = None => mem.cstat[c] = "AVAILABLE")
  /\ seqSess' = seqSess + 1
  /\ mem' = Started(mem, seqSess + 1, c, r, k)
  /\ Asks(k, [kind |-> "start", at |-> "oracle", conn |-> c, res |-> r, sess |-> seqSess + 1])
  /\ UNCHANGED <<dur, seqRes, lastRes, lastSess, faults>>

Request(k) ==
  \/ AskStart(k)
  \/ /\ AskReserve(k) \/ AskCancel(k) \/ AskSweep(k) \/ AskEnd(k)
     /\ UNCHANGED <<mem, dur, seqRes, seqSess, lastRes, lastSess, faults>>

-----------------------------------------------------------------------------
(* Oracle's half.  What it refuses ends there.                             *)
DurReserve(k) ==
  /\ Here(k, "reserve", "oracle")
  /\ LET c    == calls[k].conn
         spot == calls[k].spot
     IN IF CanReserve(dur, c, spot)
        THEN \E r \in lastRes + 1 .. MaxRes :
               /\ dur' = Reserved(dur, r, c, spot) /\ lastRes' = r
               /\ Answered(k, [kind |-> "reserve", at |-> "memory", conn |-> c, spot |-> spot, res |-> r])
        ELSE Ends(k) /\ UNCHANGED <<dur, lastRes>>
  /\ UNCHANGED <<mem, seqRes, seqSess, lastSess, faults>>

DurCancel(k) ==
  /\ Here(k, "cancel", "oracle")
  /\ LET r == calls[k].res
     IN IF dur.resv[r].status = "BOOKED"
        THEN dur' = Settled(dur, {r}, "CANCELLED") /\ Answered(k, [calls[k] EXCEPT !.at = "memory"])
        ELSE Ends(k) /\ UNCHANGED dur
  /\ UNCHANGED <<mem, seqRes, seqSess, lastRes, lastSess, faults>>

(* A window is overdue a quarter of an hour after its start, and not while *)
(* its reservation is being answered; which ones are is left open.         *)
Coming(r) == \E k \in Caller : Here(k, "reserve", "memory") /\ calls[k].res = r
DurSweep(k) ==
  /\ Here(k, "sweep", "oracle")
  /\ \E R \in SUBSET {r \in ResId : dur.resv[r].status = "BOOKED" /\ ~Coming(r)} :
       /\ dur' = Settled(dur, R, "EXPIRED")
       /\ Answered(k, [kind |-> "sweep", at |-> "memory", overdue |-> R])
  /\ UNCHANGED <<mem, seqRes, seqSess, lastRes, lastSess, faults>>

DurEnd(k) ==
  /\ Here(k, "end", "oracle")
  /\ LET s == calls[k].sess
     IN IF dur.sess[s].state = "LIVE"
        THEN dur' = Ended(dur, s) /\ Answered(k, [calls[k] EXCEPT !.at = "memory"])
        ELSE Ends(k) /\ UNCHANGED dur
  /\ UNCHANGED <<mem, seqRes, seqSess, lastRes, lastSess, faults>>

(* The undo of a start: the statuses it restores are those it has read     *)
(* after the half in memory, so that only the session goes.                *)
Undone(copy, s) == [copy EXCEPT !.sess[s] = NoSession]

DurStart(k) ==
  /\ Here(k, "start", "oracle")
  /\ LET c == calls[k].conn
         r == calls[k].res
     IN IF CanStart(dur, c, r)
        THEN \E s \in lastSess + 1 .. MaxSess :
               /\ dur' = Started(dur, s, c, r, None) /\ lastSess' = s
               /\ Answered(k, [kind |-> "start", at |-> "memory", conn |-> c, res |-> r,
                                sess |-> calls[k].sess, id |-> s])
               /\ UNCHANGED mem
        ELSE /\ mem' = Undone(mem, calls[k].sess) /\ Ends(k)
             /\ UNCHANGED <<dur, lastSess>>
  /\ UNCHANGED <<seqRes, seqSess, lastRes, faults>>

-----------------------------------------------------------------------------
(* The half in memory.                                                     *)

(* Mutant of Remap: the row keeps the number memory has counted to.        *)
KeepsOwn(own, id) == own

Remap(own, id) == id

(* Oracle has the window, whatever memory thinks of it: the row is added,  *)
(* without a hold.                                                         *)
RowOnRefusal(copy, r, c, spot) == [copy EXCEPT !.resv[r] = Window(c, spot)]

MemReserve(k) ==
  /\ Here(k, "reserve", "memory")
  /\ LET c    == calls[k].conn
         spot == calls[k].spot
         id   == calls[k].res
         own  == seqRes + 1
     IN IF CanReserve(mem, c, spot)
        THEN mem' = Reserved(mem, Remap(own, id), c, spot) /\ seqRes' = Max({own, id})
        ELSE mem' = RowOnRefusal(mem, id, c, spot) /\ seqRes' = Max({seqRes, id})
  /\ Ends(k) /\ UNCHANGED <<dur, seqSess, lastRes, lastSess, faults>>

(* A CANCEL_CONFLICT of memory gives way to Oracle.                        *)
MemCancel(k) ==
  /\ Here(k, "cancel", "memory")
  /\ LET r == calls[k].res
     IN mem' = IF mem.resv[r].status = "BOOKED" THEN Settled(mem, {r}, "CANCELLED")
               ELSE IF mem.resv[r] = NoRow THEN mem
               ELSE [mem EXCEPT !.resv[r].status = "CANCELLED"]
  /\ Ends(k) /\ UNCHANGED <<dur, seqRes, seqSess, lastRes, lastSess, faults>>

(* Memory sweeps for itself: what was overdue before is, and perhaps more. *)
AlsoOverdue(R) == {r \in R : mem.resv[r].status = "BOOKED"}

MemSweep(k) ==
  /\ Here(k, "sweep", "memory")
  /\ \E R \in SUBSET {r \in ResId : mem.resv[r].status = "BOOKED"} :
       /\ AlsoOverdue(calls[k].overdue) \subseteq R
       /\ mem' = Settled(mem, R, "EXPIRED")
  /\ Ends(k) /\ UNCHANGED <<dur, seqRes, seqSess, lastRes, lastSess, faults>>

MemEnd(k) ==
  /\ Here(k, "end", "memory")
  /\ LET s == calls[k].sess
     IN mem' = IF mem.sess[s].state = "LIVE" THEN Ended(mem, s) ELSE mem
  /\ Ends(k) /\ UNCHANGED <<dur, seqRes, seqSess, lastRes, lastSess, faults>>

(* A copy of the session moves to Oracle's number, over whatever is there, *)
(* and what is under its own number goes; the counter stays.  The state of *)
(* a session that another one has displaced is left open.                  *)
(* Mutant of Rekeyed: the session keeps its own number.                    *)
NotRekeyed(own, id) == own

Rekeyed(own, id) == id

Mine(own, k) == mem.sess[own] # NoSession /\ mem.sess[own].call = k

MemStart(k) ==
  /\ Here(k, "start", "memory")
  /\ LET own == calls[k].sess
         id  == Rekeyed(own, calls[k].id)
         row == Session(calls[k].conn, calls[k].res, None)
     IN IF own = id
        THEN mem' = IF Mine(own, k) THEN [mem EXCEPT !.sess[own].call = None] ELSE mem
        ELSE \E state \in IF Mine(own, k) THEN {mem.sess[own].state} ELSE {"LIVE", "ENDED"} :
               mem' = [mem EXCEPT !.sess[own] = NoSession, !.sess[id] = [row EXCEPT !.state = state]]
  /\ Ends(k) /\ UNCHANGED <<dur, seqRes, seqSess, lastRes, lastSess, faults>>

-----------------------------------------------------------------------------
(* A call fails before Oracle has done anything: a start is undone, a sweep *)
(* goes on in memory alone.                                                 *)
OracleFails(k) ==
  /\ calls[k].at = "oracle"
  /\ faults < MaxFaults /\ faults' = faults + 1
  /\ mem' = IF calls[k].kind = "start" THEN Undone(mem, calls[k].sess) ELSE mem
  /\ IF calls[k].kind = "sweep"
     THEN Answered(k, [kind |-> "sweep", at |-> "memory", overdue |-> {}])
     ELSE Ends(k)
  /\ UNCHANGED <<dur, seqRes, seqSess, lastRes, lastSess>>

(* The counters go on from the highest number there is.                    *)
Highest(S) == {n \in {0} \cup S : \A m \in S : m <= n}

Restart ==
  /\ faults < MaxFaults /\ faults' = faults + 1
  /\ mem' = dur
  /\ seqRes' \in Highest({r \in ResId : dur.resv[r] # NoRow})
  /\ seqSess' \in Highest({s \in SessId : dur.sess[s] # NoSession})
  /\ calls' = [k \in Caller |-> NoCall]
  /\ UNCHANGED <<dur, lastRes, lastSess>>

InOracle(k) == DurReserve(k) \/ DurCancel(k) \/ DurSweep(k) \/ DurEnd(k) \/ DurStart(k)
InMemory(k) == MemReserve(k) \/ MemCancel(k) \/ MemSweep(k) \/ MemEnd(k) \/ MemStart(k)

WriteNext == (\E k \in Caller : Request(k) \/ InOracle(k) \/ InMemory(k) \/ OracleFails(k)) \/ Restart

WriteSpec == WriteInit /\ [][WriteNext]_writeVars

-----------------------------------------------------------------------------
(* What the API calls a reservation is the row Oracle has under that       *)
(* number, and it knows every row of Oracle whose reservation it has       *)
(* answered: the mirror takes Oracle's number and, when it refuses the     *)
(* window, the row (oracle.js:1043-1100).                                  *)
BookingsMirrored == \A r \in ResId :
  /\ mem.resv[r] # NoRow => /\ dur.resv[r] # NoRow
                            /\ mem.resv[r].conn = dur.resv[r].conn /\ mem.resv[r].spot = dur.resv[r].spot
  /\ dur.resv[r] # NoRow /\ ~Coming(r) => mem.resv[r] # NoRow

(* The start of session s has Oracle's answer on its way to memory.        *)
Arriving(s) == \E k \in Caller : Here(k, "start", "memory") /\ calls[k].id = s

(* A session memory shows, once its start is answered, is Oracle's row of  *)
(* that number, so that ticks, stops and bills reach it (BUG-045).         *)
ShownOfOracle == \A s \in SessId :
  mem.sess[s] # NoSession /\ mem.sess[s].call = None
    => dur.sess[s] # NoSession /\ dur.sess[s].conn = mem.sess[s].conn

(* A row of Oracle whose start was answered is known to memory as long as  *)
(* its number is beyond memory's counter; a start in memory may take one   *)
(* below it (SessionsKnown).                                               *)
KeptBeyond == \A s \in SessId :
  dur.sess[s] # NoSession /\ s > seqSess /\ ~Arriving(s) => mem.sess[s] # NoSession

(* Both ways, whatever other starts undo, remap (oracle.js:1166-1213) and  *)
(* restarts rebuild meanwhile.                                             *)
SessionsDurable == ShownOfOracle /\ KeptBeyond

(* The comment at oracle.js:1145-1147 says more, "the remap makes that     *)
(* divergence harmless": memory knows every session of Oracle whose start  *)
(* was answered.  The remap does not raise the counter (oracle.js:1180),   *)
(* the next start in memory (store.js:969, 990) takes the number of the    *)
(* remapped session, and its own remap or undo deletes it.                 *)
SessionsKnown == \A s \in SessId :
  dur.sess[s] # NoSession /\ ~Arriving(s) => mem.sess[s] # NoSession
=============================================================================
