--------------------------- MODULE DurableOutbox ---------------------------
(***************************************************************************)
(* The outbox when the store is backed by Oracle: the durable table        *)
(* outbox_event beside the queue in memory, the wrappers of                *)
(* apps/api/src/db/oracle.js that write the one and the other,             *)
(* markDurableProcessed and pruneDurableOutbox of apps/api/src/routes.js,  *)
(* and a restart of the API, which rebuilds the queue from the table.      *)
(*                                                                         *)
(* The two engines number events independently of each other, and a        *)
(* session transition has a key of its own in each of them.                *)
(***************************************************************************)
EXTENDS OutboxRelay

CONSTANTS
  Twin,  \* for the key of an event that is made durable, its key in Oracle
  Alike  \* for each key, the durable keys with its sess:<id>:<to>: prefix

Durable == DOMAIN Twin
DurableKey == {Twin[k] : k \in Durable}

(* Events Oracle has no row for.                                           *)
Local == Key \ (Durable \cup DurableKey)

ASSUME TwinAssumption ==
  /\ Durable \subseteq Key
  /\ Twin \in [Durable -> Key]
  /\ \A j, k \in Durable : Twin[j] \in {k, Twin[k]} => j = k
  /\ Alike \in [Key -> SUBSET DurableKey]

VARIABLES
  rows,    \* the table outbox_event
  done,    \* the rows of it with processed_at
  nDur,    \* the last identity Oracle handed out
  begun,   \* events committed in Oracle whose local emit has not run yet
  starts,  \* session starts that wait for Oracle, each with its outboxLen
  calls,   \* calls that are marked in memory and wait for Oracle
  ever     \* every event ever committed in Oracle (history)

durable == <<rows, done, nDur>>
pending == <<begun, starts, calls>>
durVars == <<relayVars, durable, pending, ever>>

DurInit ==
  /\ RelayInit
  /\ rows = {} /\ done = {} /\ nDur = 0
  /\ begun = {} /\ starts = {} /\ calls = {}
  /\ ever = {}

(* ------------------------------- events -------------------------------- *)

(* Mutant of Commit: the local half of a wrapper runs first.               *)
LocalFirst(k) ==
  /\ k \notin ever \cup begun
  /\ begun' = begun \cup {k}
  /\ UNCHANGED <<relayVars, durable, starts, calls, ever>>

(* record_meter_tick, transition, create_reservation ... commit the change *)
(* and the event's row in one transaction.                                 *)
Commit(k) ==
  /\ k \notin ever
  /\ nDur < MaxRow
  /\ nDur' = nDur + 1
  /\ rows' = rows \cup {[id |-> nDur + 1, key |-> Twin[k]]}
  /\ begun' = begun \cup {k}
  /\ ever' = ever \cup {k}
  /\ UNCHANGED <<relayVars, done, starts, calls>>

(* The local half of the wrapper: it emits the event, or the local store   *)
(* refuses what Oracle has accepted.                                       *)
Complete(k) ==
  /\ k \in begun
  /\ begun' = begun \ {k}
  /\ Emit(k) \/ UNCHANGED relayVars
  /\ UNCHANGED <<durable, starts, calls, ever>>

(* Events that only the local store emits.                                 *)
EmitLocal(k) ==
  /\ k \in Local
  /\ Emit(k)
  /\ UNCHANGED <<durable, pending, ever>>

(* startSession is local first: the event is out, and the length the       *)
(* outbox has then is kept, before Oracle is asked.                        *)
StartSession(k) ==
  /\ k \in Local
  /\ Emit(k)
  /\ starts' = starts \cup {[key |-> k, outboxLen |-> Cardinality(queue')]}
  /\ UNCHANGED <<durable, begun, calls, ever>>

StartConfirmed(s) ==
  /\ starts' = starts \ {s}
  /\ UNCHANGED <<relayVars, durable, begun, calls, ever>>

(* The undo of a start Oracle has refused: truncateOutbox cuts the queue   *)
(* back to the length it had.                                              *)
StartUndone(s) ==
  /\ queue' = Oldest(s.outboxLen, queue)
  /\ acked' = acked \cap queue'
  /\ starts' = starts \ {s}
  /\ UNCHANGED <<nRow, letters, sink, worker, late, durable, begun, calls, ever>>

(* -------------------------------- calls -------------------------------- *)

Own == {c \in calls : c.own}

(* A quarantine or an ack is marked in memory.  An ack passes on all it    *)
(* names, a quarantine the events it has found pending.                    *)
Marked(op, named, own) ==
  /\ acked' = acked \cup Named(named)
  /\ letters' = IF op = "quarantine" THEN letters \cup Keys(Named(named)) ELSE letters
  /\ calls' = calls \cup {[op |-> op, own |-> own,
                           rows |-> IF op = "ack" THEN named ELSE Named(named)]}
  /\ UNCHANGED <<queue, nRow, sink, worker, durable, begun, starts, ever>>

OwnCallMarked ==
  /\ stage \in {"quarantine", "ack"}
  /\ Own = {}
  /\ Marked(stage, CallRows, TRUE)
  /\ UNCHANGED late

LateCallMarked(c) ==
  /\ Marked(c.op, c.rows, FALSE)
  /\ late' = late \ {c}

(* The worker, if it still waits for the call, goes on.                    *)
Answered(c) ==
  IF ~c.own THEN UNCHANGED worker
  ELSE IF c.op = "ack" THEN NextLap
  ELSE stage' = "ack" /\ UNCHANGED <<batch, bad, laps>>

(* What markDurableProcessed finds: by id, by key, and by the stable       *)
(* prefix of the key of a session transition.                              *)
Found(named) ==
  {r \in rows :
     \E e \in named : r.id = e.id \/ r.key = e.key \/ r.key \in Alike[e.key]}

CallDone(c) ==
  /\ done' = done \cup Found(c.rows)
  /\ IF c.op = "ack" THEN PruneIfDue(queue, acked) ELSE UNCHANGED <<queue, acked>>
  /\ Answered(c)
  /\ calls' = calls \ {c}
  /\ UNCHANGED <<nRow, letters, sink, late, rows, nDur, begun, starts, ever>>

(* The connection or a statement fails: the answer is an error.            *)
CallFails(c) ==
  /\ IF c.own THEN Throw ELSE UNCHANGED worker
  /\ calls' = calls \ {c}
  /\ UNCHANGED <<store, sink, late, durable, begun, starts, ever>>

(* The worker dies or gives up.  If the API has its call, that goes on.    *)
WorkerFails ==
  /\ IF Own = {}
     THEN Fails /\ UNCHANGED calls
     ELSE /\ Cardinality(late) + Cardinality(calls) <= MaxLate
          /\ Throw
          /\ calls' = {[c EXCEPT !.own = FALSE] : c \in calls}
          /\ UNCHANGED <<store, sink, late>>
  /\ UNCHANGED <<durable, begun, starts, ever>>

(* pruneDurableOutbox deletes processed rows past retention.               *)
PruneDurable(old) ==
  /\ old # {}
  /\ rows' = rows \ old
  /\ done' = done \ old
  /\ UNCHANGED <<relayVars, nDur, pending, ever>>

(* The API dies and starts again; it listens once hydrate has read the     *)
(* table.  What was in memory only is gone, requests under way included.   *)
Restart ==
  /\ queue' = rows
  /\ acked' = done
  /\ nRow' = Cardinality({n \in 1 .. MaxRow : \E r \in rows : n <= r.id})
  /\ begun' = {} /\ starts' = {} /\ calls' = {} /\ late' = {}
  /\ IF Own = {} THEN UNCHANGED worker ELSE Throw
  /\ UNCHANGED <<letters, sink, durable, ever>>

(* ---------------------------- specification ---------------------------- *)

UpNext ==
  \/ \E k \in Durable : Commit(k) \/ Complete(k)
  \/ \E k \in Key : EmitLocal(k) \/ StartSession(k)
  \/ \E s \in starts : StartConfirmed(s) \/ StartUndone(s)
  \/ Cycle /\ UNCHANGED <<durable, pending, ever>>
  \/ WorkerFails
  \/ OwnCallMarked
  \/ \E c \in late : LateCallMarked(c)
  \/ \E c \in calls : CallDone(c) \/ CallFails(c)
  \/ \E old \in SUBSET done : PruneDurable(old)

DurNext == UpNext \/ Restart

DurSpec == DurInit /\ [][DurNext]_durVars

(* ------------------------------ properties ----------------------------- *)

(* Oracle first: through any restart, nothing about a durable event is     *)
(* stored in Timescale or dead-lettered that Oracle has not committed.     *)
StoredWasCommitted ==
  \A k \in Durable : {k, Twin[k]} \cap (sink \cup letters) # {} => k \in ever
=============================================================================
