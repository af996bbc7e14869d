------------------------------ MODULE Metering ------------------------------
(***************************************************************************)
(* Meter readings, the end of a charge and its invoice, from the frames of *)
(* a charge point to Oracle and to memory                                  *)
(* (src/apps/api/src/ocpp/gateway.js, src/apps/api/src/db/store.js,        *)
(* src/apps/api/src/db/oracle.js, src/db/oracle/V012, V003).               *)
(*                                                                         *)
(* Each request makes one call that Oracle serves first, under the row     *)
(* lock of the session, and memory afterwards, in the same turn of the     *)
(* event loop that brings the answer.  Calls overtake one another on the   *)
(* way to Oracle and on the way back.  Registers are integers; the         *)
(* tolerance of 0.001 kWh is below their unit.                             *)
(***************************************************************************)
EXTENDS Integers, FiniteSets, FiniteSetsExt

CONSTANTS
  Session,
  Slot,        \* bound: the calls that are under way at the same time
  MaxReg,      \* bound: register of a charge point
  MaxSeq,      \* bound: sequence number of a reading
  MaxId,       \* bound: identity of an invoice in Oracle, which may skip numbers
  MaxFaults    \* bound: calls to Oracle that fail, and restarts

ASSUME MeteringAssumption ==
  /\ {MaxReg, MaxSeq, MaxId, MaxFaults} \subseteq Nat
  /\ IsFiniteSet(Session)

NoMeter == -1     \* end_meter_kwh is NULL; a stop without meterStop
NoCursor == -1
NoCall == [kind |-> "none", at |-> "nowhere"]
Moves == {"CHARGING", "SUSPENDED", "COMPLETED", "FAILED"}

VARIABLES
  reg, plugged,   \* the charge point: its register, whether it still meters
  start,          \* start_meter_kwh
  cursor,         \* seqByTx
  mem, dur,       \* the session in memory and in Oracle
  invoices,       \* in memory
  invSeq,         \* seq.inv
  durInvoices,    \* in Oracle
  calls,          \* what is under way in each slot
  faults

point == <<reg, plugged, start>>
vars  == <<point, cursor, mem, dur, invoices, invSeq, durInvoices, calls, faults>>

Live == {"PREPARING", "CHARGING", "SUSPENDED"}
Legal(from, to) ==
  \/ from = "PREPARING" /\ to \in {"CHARGING", "FAILED", "CANCELLED"}
  \/ from \in {"CHARGING", "SUSPENDED"} /\ to \in {"CHARGING", "SUSPENDED", "COMPLETED", "FAILED"} \ {from}

Highest(S, floor) == Max({floor} \cup S)
Kwhs(copy) == {r.kwh : r \in copy.readings}
Seqs(copy) == {r.seq : r \in copy.readings}
Energy(s, end) == Highest({end - start[s]}, 0)
Fresh == [state |-> "NONE", billed |-> FALSE, end |-> NoMeter, readings |-> {}]

Init ==
  /\ reg \in [Session -> {0, 1}] /\ start = reg
  /\ plugged = [s \in Session |-> TRUE]
  /\ cursor = [s \in Session |-> NoCursor]
  /\ mem = [s \in Session |-> Fresh] /\ dur = mem
  /\ invoices = {} /\ invSeq = 0 /\ durInvoices = {}
  /\ calls = [c \in Slot |-> NoCall] /\ faults = 0

-----------------------------------------------------------------------------
(* The charge point and the drivers and operators.                         *)
Asks(c, call) == calls[c] = NoCall /\ calls' = [calls EXCEPT ![c] = call]

(* StartTransaction, or POST /sessions/start (which sets no cursor).       *)
StartTransaction(s) ==
  /\ mem[s].state = "NONE" /\ dur[s].state = "NONE"
  /\ mem' = [mem EXCEPT ![s].state = "PREPARING"]
  /\ dur' = [dur EXCEPT ![s].state = "PREPARING"]
  /\ \E n \in {0, NoCursor} : cursor' = [cursor EXCEPT ![s] = n]
  /\ UNCHANGED <<point, invoices, invSeq, durInvoices, calls, faults>>

Delivers(s) ==
  /\ mem[s].state \in Live /\ plugged[s] /\ reg[s] < MaxReg
  /\ reg' = [reg EXCEPT ![s] = @ + 1]
  /\ UNCHANGED <<plugged, start, cursor, mem, dur, invoices, invSeq, durInvoices, calls, faults>>

(* MeterValues: the gateway spends a number before it awaits the store.    *)
(* On the first frame it sees of a session it recovers the cursor from the *)
(* readings in memory.  A frame without a register carries the last known  *)
(* one forward.                                                            *)
NextSeq(s) == 1 + (IF cursor[s] = NoCursor THEN Highest(Seqs(mem[s]), 0) ELSE cursor[s])
Carried(s) == Highest(Kwhs(mem[s]), start[s])

MeterValues(c, s) ==
  /\ mem[s].state # "NONE" /\ plugged[s] /\ NextSeq(s) <= MaxSeq
  /\ \E kwh \in {reg[s], Carried(s)} :
       Asks(c, [kind |-> "tick", session |-> s, seq |-> NextSeq(s), kwh |-> kwh, at |-> "oracle"])
  /\ cursor' = [cursor EXCEPT ![s] = NextSeq(s)]
  /\ UNCHANGED <<point, mem, dur, invoices, invSeq, durInvoices, faults>>

(* StopTransaction, with or without meterStop, again if it went wrong; the *)
(* charge point meters no more.                                            *)
StopTransaction(c, s) ==
  /\ mem[s].state # "NONE"
  /\ \E kwh \in {reg[s], NoMeter} :
       Asks(c, [kind |-> "stop", session |-> s, kwh |-> kwh, at |-> "oracle"])
  /\ plugged' = [plugged EXCEPT ![s] = FALSE]
  /\ cursor' = [cursor EXCEPT ![s] = NoCursor]
  /\ UNCHANGED <<reg, start, mem, dur, invoices, invSeq, durInvoices, faults>>

RemoteStop(c, s) ==
  /\ mem[s].state # "NONE"
  /\ Asks(c, [kind |-> "stop", session |-> s, kwh |-> NoMeter, at |-> "oracle"])
  /\ UNCHANGED <<point, cursor, mem, dur, invoices, invSeq, durInvoices, faults>>

PatchState(c, s) ==
  /\ mem[s].state # "NONE"
  /\ \E to \in Moves : Asks(c, [kind |-> "move", session |-> s, to |-> to, at |-> "oracle"])
  /\ UNCHANGED <<point, cursor, mem, dur, invoices, invSeq, durInvoices, faults>>

AskBill(c, s) ==
  /\ mem[s].state # "NONE"
  /\ Asks(c, [kind |-> "bill", session |-> s, id |-> 0, at |-> "oracle"])
  /\ UNCHANGED <<point, cursor, mem, dur, invoices, invSeq, durInvoices, faults>>

-----------------------------------------------------------------------------
(* Oracle's half.  A refusal ends the call.                                *)
Here(c, kind, where) == calls[c].kind = kind /\ calls[c].at = where
Goes(c) == calls' = [calls EXCEPT ![c].at = "memory"]
Ends(c) == calls' = [calls EXCEPT ![c] = NoCall]

TickFits(copy, k) == copy.state \in Live /\ k.kwh >= Highest(Kwhs(copy), -1)

(* Mutant of DurTickFits: the state of the session is not looked at.       *)
DurTickRises(copy, k) == copy.state # "NONE" /\ k.kwh >= Highest(Kwhs(copy), -1)

DurTickFits(copy, k) == TickFits(copy, k)

(* A reading whose number is there already changes nothing.                *)
WithReading(copy, k) ==
  IF k.seq \in Seqs(copy) THEN copy
  ELSE [copy EXCEPT !.readings = @ \cup {[seq |-> k.seq, kwh |-> k.kwh]},
                    !.state = IF @ = "PREPARING" THEN "CHARGING" ELSE @]

RecordTick(c) ==
  /\ Here(c, "tick", "oracle")
  /\ LET k == calls[c]
         s == k.session
     IN IF DurTickFits(dur[s], k)
        THEN dur' = [dur EXCEPT ![s] = WithReading(@, k)] /\ Goes(c)
        ELSE UNCHANGED dur /\ Ends(c)
  /\ UNCHANGED <<point, cursor, mem, invoices, invSeq, durInvoices, faults>>

StopTarget(copy) == IF copy.state = "PREPARING" THEN "CANCELLED" ELSE "COMPLETED"

MayStop(s, kwh) ==
  /\ kwh = NoMeter \/ kwh >= start[s]
  /\ Legal(dur[s].state, StopTarget(dur[s]))

StopSession(c) ==
  /\ Here(c, "stop", "oracle")
  /\ LET s   == calls[c].session
         kwh == calls[c].kwh
         end == IF kwh # NoMeter THEN kwh
                ELSE IF dur[s].readings = {} THEN start[s] ELSE Max(Kwhs(dur[s]))
     IN IF MayStop(s, kwh)
        THEN dur' = [dur EXCEPT ![s].end = end, ![s].state = StopTarget(dur[s])] /\ Goes(c)
        ELSE UNCHANGED dur /\ Ends(c)
  /\ UNCHANGED <<point, cursor, mem, invoices, invSeq, durInvoices, faults>>

Transition(c) ==
  /\ Here(c, "move", "oracle")
  /\ LET s == calls[c].session
     IN IF Legal(dur[s].state, calls[c].to)
        THEN dur' = [dur EXCEPT ![s].state = calls[c].to] /\ Goes(c)
        ELSE UNCHANGED dur /\ Ends(c)
  /\ UNCHANGED <<point, cursor, mem, invoices, invSeq, durInvoices, faults>>

(* Mutant of MayBill: billing_state is not looked at.                      *)
CompletedOnly(copy) == copy.state = "COMPLETED"

MayBill(copy) == copy.state = "COMPLETED" /\ ~copy.billed

BillSession(c) ==
  /\ Here(c, "bill", "oracle")
  /\ LET s   == calls[c].session
         end == IF dur[s].end = NoMeter THEN start[s] ELSE dur[s].end
     IN IF MayBill(dur[s])
        THEN /\ \E id \in 1..MaxId :
                  /\ \A i \in durInvoices : i.id < id
                  /\ durInvoices' = durInvoices \cup {[id |-> id, session |-> s, energy |-> Energy(s, end)]}
                  /\ calls' = [calls EXCEPT ![c].at = "memory", ![c].id = id]
             /\ dur' = [dur EXCEPT ![s].billed = TRUE, ![s].end = end]
        ELSE UNCHANGED <<dur, durInvoices>> /\ Ends(c)
  /\ UNCHANGED <<point, cursor, mem, invoices, invSeq, faults>>

-----------------------------------------------------------------------------
(* The half in memory: the answer of Oracle has come.                      *)
RecordTickLocal(c) ==
  /\ Here(c, "tick", "memory")
  /\ LET k == calls[c]
         s == k.session
     IN mem' = IF mem[s].state \in Live /\ (k.seq \in Seqs(mem[s]) \/ TickFits(mem[s], k))
               THEN [mem EXCEPT ![s] = WithReading(@, k)] ELSE mem
  /\ Ends(c)
  /\ UNCHANGED <<point, cursor, dur, invoices, invSeq, durInvoices, faults>>

(* The fallback is the highest reading, 0 if there is none: below the      *)
(* start meter it is refused, though Oracle has ended the session.         *)
StopSessionLocal(c) ==
  /\ Here(c, "stop", "memory")
  /\ LET s   == calls[c].session
         kwh == calls[c].kwh
         end == IF kwh # NoMeter THEN kwh ELSE Highest(Kwhs(mem[s]), 0)
     IN mem' = IF end < start[s] THEN mem
               ELSE [mem EXCEPT ![s].end = end,
                                ![s].state = IF @ \in Live THEN StopTarget(mem[s]) ELSE @]
  /\ Ends(c)
  /\ UNCHANGED <<point, cursor, dur, invoices, invSeq, durInvoices, faults>>

TransitionLocal(c) ==
  /\ Here(c, "move", "memory")
  /\ LET s == calls[c].session
     IN mem' = IF Legal(mem[s].state, calls[c].to) THEN [mem EXCEPT ![s].state = calls[c].to] ELSE mem
  /\ Ends(c)
  /\ UNCHANGED <<point, cursor, dur, invoices, invSeq, durInvoices, faults>>

(* The invoice in memory takes Oracle's id.                                *)
Renamed(own, id) == id

BillSessionLocal(c) ==
  /\ Here(c, "bill", "memory")
  /\ LET s  == calls[c].session
         id == Renamed(invSeq + 1, calls[c].id)
     IN IF MayBill(mem[s])
        THEN /\ invoices' = {i \in invoices : i.id # id} \cup
                            {[id |-> id, session |-> s, energy |-> Energy(s, Highest({mem[s].end}, 0))]}
             /\ invSeq' = Highest({id}, invSeq + 1)
             /\ mem' = [mem EXCEPT ![s].billed = TRUE]
        ELSE UNCHANGED <<mem, invoices, invSeq>>
  /\ Ends(c)
  /\ UNCHANGED <<point, cursor, dur, durInvoices, faults>>

-----------------------------------------------------------------------------
OracleFails(c) ==
  /\ calls[c].at = "oracle"
  /\ faults < MaxFaults /\ faults' = faults + 1
  /\ Ends(c)
  /\ UNCHANGED <<point, cursor, mem, dur, invoices, invSeq, durInvoices>>

(* Mutant of Recovered: the cursors start again from nothing.              *)
FromZero == [s \in Session |-> 0]
Recovered == [s \in Session |-> NoCursor]

Restart ==
  /\ faults < MaxFaults /\ faults' = faults + 1
  /\ mem' = dur /\ invoices' = durInvoices
  /\ invSeq' = Highest({i.id : i \in durInvoices}, 0)
  /\ cursor' = Recovered
  /\ calls' = [c \in Slot |-> NoCall]
  /\ UNCHANGED <<point, dur, durInvoices>>

Frames   == \E c \in Slot, s \in Session : MeterValues(c, s) \/ StopTransaction(c, s)
Requests == \E c \in Slot, s \in Session : RemoteStop(c, s) \/ PatchState(c, s) \/ AskBill(c, s)
InOracle == \E c \in Slot : RecordTick(c) \/ StopSession(c) \/ Transition(c) \/ BillSession(c)
InMemory == \E c \in Slot :
  RecordTickLocal(c) \/ StopSessionLocal(c) \/ TransitionLocal(c) \/ BillSessionLocal(c)
Next == \/ \E s \in Session : StartTransaction(s) \/ Delivers(s)
        \/ Frames \/ Requests \/ InOracle \/ InMemory
        \/ \E c \in Slot : OracleFails(c)
        \/ Restart

Spec == Init /\ [][Next]_vars

-----------------------------------------------------------------------------
(* receiptForSession: what each reading adds to those before it, and what   *)
(* the stop adds to the last.                                              *)
Receipt(s) ==
  LET Before(r) == Highest({q.kwh : q \in {p \in mem[s].readings : p.seq < r.seq}}, start[s])
      last == Highest(Kwhs(mem[s]), start[s])
  IN  MapThenSumSet(LAMBDA r : Highest({r.kwh - Before(r)}, 0), mem[s].readings)
        + Highest({mem[s].end - last}, 0)

(* "Bill exactly once" (docs.js:104), and an invoice in memory bears the   *)
(* id under which Oracle charges the same session (SEC-068,                *)
(* oracle.js:1458-1462), however answers overtake one another.             *)
BilledOnce ==
  /\ \A s \in Session : Cardinality({i \in durInvoices : i.session = s}) = (IF dur[s].billed THEN 1 ELSE 0)
  /\ \A i \in invoices : \E j \in durInvoices : j.id = i.id /\ j.session = i.session
  /\ \A i \in durInvoices : i.energy = Energy(i.session, dur[i.session].end)

(* SEC-067: the end meter of a session that was stopped covers every       *)
(* reading Oracle has, so that its invoice prices what was delivered.      *)
StopCovers == \A s \in Session :
  dur[s].state = "COMPLETED" /\ dur[s].end # NoMeter /\ ~dur[s].billed
    => \A kwh \in Kwhs(dur[s]) : kwh <= dur[s].end

(* ... and an invoice that charges anything charges what the carbon        *)
(* receipt of the session attributes, reading by reading.                  *)
EndCovers ==
  /\ StopCovers
  /\ \A i \in invoices : i.energy \in {0, Receipt(i.session)}

(* No reading is lost in silence or shown without being stored: what       *)
(* Oracle accepted it has, under its own number and register, and so has   *)
(* what memory shows.  A restart must not hand out a number again, for     *)
(* Oracle drops the second reading that bears it (BUG-024,                 *)
(* gateway.js:543-547).                                                    *)
ReadingsKept == \A s \in Session :
  /\ mem[s].readings \subseteq dur[s].readings
  /\ \A c \in Slot : Here(c, "tick", "memory") /\ calls[c].session = s
       => [seq |-> calls[c].seq, kwh |-> calls[c].kwh] \in dur[s].readings
=============================================================================
