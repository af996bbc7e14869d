---------------------------- MODULE OutboxRelay ----------------------------
(***************************************************************************)
(* The outbox of the store and the worker that relays it to TimescaleDB:   *)
(* emitOutbox, pruneOutbox and quarantineOutbox of                         *)
(* apps/api/src/db/store.js, the /internal/outbox routes of                *)
(* apps/api/src/routes.js, relayToTimescale and writeSpecs of              *)
(* apps/worker/src/relay-timescale.js and the loop of                      *)
(* apps/worker/src/index.js.                                               *)
(*                                                                         *)
(* The API stays up here (DurableOutbox restarts it).  The worker may die  *)
(* at any point, the sink may refuse, stall or lose the answer of any      *)
(* statement, and a call the worker has given up on may still reach the    *)
(* API later.                                                              *)
(*                                                                         *)
(* An event is known by its id and its dedupe key; what it says matters    *)
(* only as far as the relay and the sink tell events apart:                *)
(*   Meta     no table takes it (CONTROL_DECISION, CERT_LIFECYCLE ...);    *)
(*   Refused  the relay refuses it (a register that is no finite number);  *)
(*   Poison   the sink refuses it whenever it is asked (class 22 and 23).  *)
(***************************************************************************)
EXTENDS Integers, FiniteSets

CONSTANTS
  Key,         \* dedupe keys
  Meta,        \* keys of events no table takes
  Refused,     \* keys of events toRows refuses
  Poison,      \* keys of events the sink rejects
  MaxRow,      \* bound on seq.outbox, the event ids handed out
  Limit,       \* events per poll (500)
  MaxBatches,  \* RELAY_MAX_BATCHES_PER_CYCLE (8)
  SoftCap,     \* OUTBOX_SOFT_CAP (20000)
  HardCap,     \* OUTBOX_HARD_CAP (50000)
  MaxLate      \* bound on the calls under way that nobody waits for

ASSUME OutboxAssumption ==
  /\ Meta \cup Refused \cup Poison \subseteq Key
  /\ Meta \cap (Refused \cup Poison) = {}
  /\ Refused \cap Poison = {}
  /\ MaxRow \in Nat
  /\ Limit \in Nat \ {0}
  /\ MaxBatches \in Nat \ {0}
  /\ SoftCap \in Nat
  /\ HardCap \in Nat
  /\ SoftCap <= HardCap
  /\ MaxLate \in Nat

Row == [id : 1 .. MaxRow, key : Key]
Call == [op : {"quarantine", "ack"}, rows : SUBSET Row]
Stage == {"poll", "write", "isolate", "quarantine", "ack", "sweep"}

VARIABLES
  queue,    \* s.outbox, in the order of ids
  acked,    \* the rows of it with processed_at
  nRow,     \* seq.outbox
  letters,  \* keys that have been dead-lettered
  sink,     \* keys stored in the hypertables
  stage,    \* where the worker is in its cycle
  batch,    \* the events of the poll it works on
  bad,      \* those of them the relay or the sink refused
  laps,     \* batches relayed so far in this cycle
  late      \* calls the worker gave up on that may still arrive

store == <<queue, acked, nRow, letters>>
worker == <<stage, batch, bad, laps>>
relayVars == <<store, sink, worker, late>>

Keys(rows) == {e.key : e \in rows}
Pending == queue \ acked

RelayInit ==
  /\ queue = {} /\ acked = {} /\ nRow = 0 /\ letters = {}
  /\ sink = {}
  /\ stage = "poll" /\ batch = {} /\ bad = {} /\ laps = 0
  /\ late = {}

(* ----------------------------- the store ------------------------------- *)

(* The n rows of a set that were emitted first (all, if there are fewer).  *)
Oldest(n, rows) ==
  {e \in rows : Cardinality({d \in rows : d.id < e.id}) < n}

(* Mutant of Shed: the oldest rows go, whether they are acked or not.      *)
ShedAny(q, a) == Oldest(Cardinality(q) - HardCap, q)

(* What pruneOutbox sheds of the acked rows a when q is over the hard cap. *)
Shed(q, a) == Oldest(Cardinality(q) - HardCap, a)

(* pruneOutboxIfDue: nothing unless its interval is over or the hard cap   *)
(* is passed; then the acked rows past retention go (how long a row has    *)
(* been acked is left out: any that were acked before), and those to shed. *)
PruneIfDue(q, a) ==
  \/ Cardinality(q) <= HardCap /\ queue' = q /\ acked' = a
  \/ \E aged \in SUBSET acked :
       /\ queue' = q \ (aged \cup Shed(q, a))
       /\ acked' = a \ (aged \cup Shed(q, a))

(* emitOutbox.  A key that is in the queue is dropped as a duplicate; one  *)
(* whose row was pruned may be emitted again.                              *)
Emit(k) ==
  /\ nRow < MaxRow
  /\ k \notin Keys(queue)
  /\ nRow' = nRow + 1
  /\ LET q == queue \cup {[id |-> nRow + 1, key |-> k]} IN
       IF Cardinality(q) > SoftCap
       THEN PruneIfDue(q, acked)
       ELSE queue' = q /\ acked' = acked
  /\ UNCHANGED <<letters, sink, worker, late>>

(* The pending rows a call names, by id or by key.                         *)
Named(rows) ==
  {e \in Pending : \E r \in rows : r.id = e.id \/ r.key = e.key}

(* POST /internal/outbox/quarantine and /internal/outbox/ack.              *)
Handle(op, rows) ==
  IF op = "quarantine"
  THEN /\ acked' = acked \cup Named(rows)
       /\ letters' = letters \cup Keys(Named(rows))
       /\ UNCHANGED <<queue, nRow>>
  ELSE /\ PruneIfDue(queue, acked \cup Named(rows))
       /\ UNCHANGED <<letters, nRow>>

(* ----------------------------- the worker ------------------------------ *)

(* Mutant of CallRows: an ack names whatever is pending.                   *)
CallPending == IF stage = "quarantine" THEN bad ELSE Pending

(* The rows named by the call the worker makes at a stage.                 *)
CallRows ==
  IF stage = "quarantine" THEN bad ELSE {e \in batch : e.key \notin Keys(bad)}

(* Rows of the batch that have a table, and those refused before.          *)
ForSink == {e \in batch : e.key \notin Meta \cup Refused}
Unfit == {e \in batch : e.key \in Refused}

(* relayOnce throws: the loop backs off and begins a new cycle, without    *)
(* the sweep.                                                              *)
Throw ==
  /\ stage' = "poll" /\ batch' = {} /\ bad' = {} /\ laps' = 0

(* The batch has been written, but for the rows in refused.                *)
Written(rows, refused) ==
  /\ sink' = sink \cup Keys(rows)
  /\ bad' = refused
  /\ stage' = IF refused = {} THEN "ack" ELSE "quarantine"
  /\ UNCHANGED <<store, batch, laps, late>>

(* GET /internal/outbox.  An empty poll ends the cycle's batches.          *)
Poll ==
  /\ stage = "poll"
  /\ IF Pending = {}
     THEN stage' = "sweep" /\ UNCHANGED batch
     ELSE stage' = "write" /\ batch' = Oldest(Limit, Pending)
  /\ UNCHANGED <<store, sink, bad, laps, late>>

(* writeSpecs: all rows in one transaction.                                *)
WriteBatch ==
  /\ stage = "write"
  /\ Keys(ForSink) \cap Poison = {}
  /\ Written(ForSink, Unfit)

(* The transaction fails with an error that is neither of the transport    *)
(* nor of the schema: the rows are tried one by one.                       *)
WriteRejected ==
  /\ stage = "write"
  /\ ForSink # {}
  /\ stage' = "isolate"
  /\ UNCHANGED <<store, sink, batch, bad, laps, late>>

(* The transaction fails otherwise; if it was the answer to COMMIT that    *)
(* got lost, the rows are stored all the same.                             *)
WriteFails ==
  /\ stage = "write"
  /\ ForSink # {}
  /\ \/ UNCHANGED sink
     \/ Keys(ForSink) \cap Poison = {} /\ sink' = sink \cup Keys(ForSink)
  /\ Throw
  /\ UNCHANGED <<store, late>>

(* Mutant of Isolate: any row that fails sends the batch back.             *)
IsolateStrict(failed) ==
  /\ stage = "isolate"
  /\ {e \in ForSink : e.key \in Poison} \subseteq failed
  /\ IF failed # {}
     THEN Throw /\ UNCHANGED <<store, sink, late>>
     ELSE Written(ForSink, Unfit)

(* writeOneByOne, all rows tried.  Besides the poison ones, those fail     *)
(* that meet an error without one of the listed codes.  If nothing lands,  *)
(* the batch goes back to the queue.                                       *)
Isolate(failed) ==
  /\ stage = "isolate"
  /\ {e \in ForSink : e.key \in Poison} \subseteq failed
  /\ IF failed = ForSink
     THEN Throw /\ UNCHANGED <<store, sink, late>>
     ELSE Written(ForSink \ failed, Unfit \cup failed)

(* The sink goes down after some rows have landed.                         *)
IsolateFails(landed) ==
  /\ stage = "isolate"
  /\ Keys(landed) \cap Poison = {}
  /\ sink' = sink \cup Keys(landed)
  /\ Throw
  /\ UNCHANGED <<store, late>>

(* The quarantine is answered: then the rest of the batch is acked.        *)
Quarantined ==
  /\ stage = "quarantine"
  /\ Handle("quarantine", CallRows)
  /\ stage' = "ack"
  /\ UNCHANGED <<sink, batch, bad, laps, late>>

LastLap == laps + 1 = MaxBatches

(* After its ack the cycle goes on to the next batch, MaxBatches at most,  *)
(* and then to the sweep.                                                  *)
NextLap ==
  /\ batch' = {} /\ bad' = {}
  /\ IF LastLap
     THEN stage' = "sweep" /\ laps' = 0
     ELSE stage' = "poll" /\ laps' = laps + 1

Acknowledged ==
  /\ stage = "ack"
  /\ Handle("ack", CallRows)
  /\ NextLap
  /\ UNCHANGED <<sink, late>>

(* POST /internal/expire, whose failure is caught.                         *)
Sweep ==
  /\ stage = "sweep"
  /\ Throw
  /\ UNCHANGED <<store, sink, late>>

(* The worker dies, or a poll or a call fails or takes more than five      *)
(* seconds.  A call that was sent may be lost or arrive later.             *)
Fails ==
  /\ Throw
  /\ \/ UNCHANGED late
     \/ /\ stage \in {"quarantine", "ack"}
        /\ Cardinality(late) < MaxLate
        /\ late' = late \cup {[op |-> stage, rows |-> CallRows]}
  /\ UNCHANGED <<store, sink>>

Arrives(c) ==
  /\ c \in late
  /\ Handle(c.op, c.rows)
  /\ late' = late \ {c}
  /\ UNCHANGED <<sink, worker>>

(* ---------------------------- specification ---------------------------- *)

(* The steps of a cycle that change nothing in the API.                    *)
Cycle ==
  \/ Poll \/ WriteBatch \/ WriteRejected \/ WriteFails
  \/ \E rows \in SUBSET ForSink : Isolate(rows) \/ IsolateFails(rows)
  \/ Sweep

RelayNext ==
  \/ \E k \in Key : Emit(k)
  \/ Cycle \/ Quarantined \/ Acknowledged \/ Fails
  \/ \E c \in late : Arrives(c)

RelaySpec == RelayInit /\ [][RelayNext]_relayVars

(* The worker is restarted and its loop never ends; faults are transient:  *)
(* a call or a statement that is tried again and again is answered again   *)
(* and again, and then only poison rows are refused.                       *)
TrueIsolation == Isolate({e \in ForSink : e.key \in Poison})

RelayFairSpec ==
  /\ RelaySpec
  /\ SF_relayVars(Poll)
  /\ SF_relayVars(WriteBatch)
  /\ SF_relayVars(WriteRejected /\ Keys(ForSink) \cap Poison # {})
  /\ SF_relayVars(TrueIsolation)
  /\ SF_relayVars(Quarantined)
  /\ SF_relayVars(Acknowledged)
  /\ WF_relayVars(Sweep)

(* ------------------------------ properties ----------------------------- *)

(* All variables stay in their types; a cycle relays MaxBatches batches at *)
(* most before its sweep (PF-09).                                          *)
RelayTypeOK ==
  /\ queue \subseteq Row
  /\ acked \subseteq queue
  /\ nRow \in 0 .. MaxRow
  /\ letters \subseteq Key
  /\ sink \subseteq Key
  /\ stage \in Stage
  /\ batch \subseteq Row
  /\ bad \subseteq batch
  /\ laps \in 0 .. MaxBatches - 1
  /\ late \subseteq Call

(* Acking an event the sink never wrote is the data loss the relay path    *)
(* exists to avoid: whatever dies, gets lost or arrives late, an event     *)
(* with processed_at is stored, or dead-lettered, or has no table.         *)
AckedHandled ==
  \A e \in acked : e.key \in sink \cup letters \cup Meta

(* Unacked events are never dropped: retention, the caps and the shedding  *)
(* of pruneOutbox take acked rows only, so that a pending row leaves the   *)
(* queue in no step that does not ack it, having been handled.             *)
PendingKept ==
  [][\A e \in Pending \ queue' : e.key \in sink \cup letters \cup Meta]_relayVars

(* Poison isolation: an event that can be stored is stored or, if the sink *)
(* refused it for no reason of its own, dead-lettered, and the refused     *)
(* events in front of it do not block it for ever (they fit into a batch   *)
(* with it).                                                               *)
Settled ==
  \A k \in Key \ (Meta \cup Refused \cup Poison) :
    (k \in Keys(Pending)) ~> (k \in sink \cup letters)
=============================================================================
