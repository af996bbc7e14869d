--------------------------- MODULE Metering_proofs ---------------------------
(***************************************************************************)
(* Proofs about Metering, for any numbers of sessions, calls under way,    *)
(* readings, registers and faults: no reading is lost or invented, a       *)
(* session is billed once, a stop covers what was read, and an invoice     *)
(* that charges anything charges what the receipt attributes.              *)
(***************************************************************************)
EXTENDS Metering, Sums, FiniteSetTheorems, TLAPS

(* ------------------------------- the types ----------------------------- *)
Registers == 0..(MaxReg + 1)
Numbers == 1..MaxSeq
States == Live \cup {"NONE", "COMPLETED", "FAILED", "CANCELLED"}
Reading == [seq : Numbers, kwh : Registers]
Copy == [state : States, billed : BOOLEAN, end : {NoMeter} \cup Registers, readings : SUBSET Reading]
Places == {"oracle", "memory"}
Tick == [kind : {"tick"}, session : Session, seq : Numbers, kwh : Registers, at : Places]
Stop == [kind : {"stop"}, session : Session, kwh : {NoMeter} \cup Registers, at : Places]
Move == [kind : {"move"}, session : Session, to : Moves, at : Places]
Bill == [kind : {"bill"}, session : Session, id : Nat, at : Places]
Call == {NoCall} \cup Tick \cup Stop \cup Move \cup Bill

TypeOK ==
  /\ reg \in [Session -> Registers] /\ start \in [Session -> Registers] /\ plugged \in [Session -> BOOLEAN]
  /\ cursor \in [Session -> {NoCursor} \cup 0..MaxSeq]
  /\ mem \in [Session -> Copy] /\ dur \in [Session -> Copy]
  /\ calls \in [Slot -> Call]
  /\ \A i \in durInvoices : i.session \in Session

(* ------------------------- the inductive invariant --------------------- *)
Asked(c, s) == calls[c].kind # "none" /\ calls[c].session = s
Ticks(c, s) == calls[c].kind = "tick" /\ calls[c].session = s
StopsAt(c, s) == calls[c].kind = "stop" /\ calls[c].session = s /\ calls[c].kwh # NoMeter

(* A session is known to both sides or to neither; what memory shows       *)
(* Oracle has.                                                             *)
KnownOK(s) ==
  /\ mem[s].state = "NONE" <=> dur[s].state = "NONE"
  /\ mem[s].state = "NONE" => dur[s].readings = {} /\ \A c \in Slot : ~Asked(c, s)
  /\ mem[s].readings \subseteq dur[s].readings

(* Every number is handed out once: those of the readings on their way are *)
(* free in Oracle and differ, and the cursor is past all of them.  While   *)
(* there is no cursor and the charge point meters, none is on its way and  *)
(* memory has every reading, so that the cursor can be recovered from it.  *)
NumbersOK(s) ==
  /\ \A c \in Slot : Ticks(c, s) /\ calls[c].at = "oracle" => calls[c].seq \notin Seqs(dur[s])
  /\ \A c, d \in Slot : Ticks(c, s) /\ Ticks(d, s) /\ calls[c].at = "oracle" /\ c # d => calls[c].seq # calls[d].seq
  /\ \A c \in Slot : Ticks(c, s) /\ calls[c].at = "memory"
       => [seq |-> calls[c].seq, kwh |-> calls[c].kwh] \in dur[s].readings
  /\ plugged[s] /\ cursor[s] # NoCursor =>
       /\ \A n \in Seqs(dur[s]) : n <= cursor[s]
       /\ \A c \in Slot : Ticks(c, s) => calls[c].seq <= cursor[s]
  /\ plugged[s] /\ cursor[s] = NoCursor =>
       /\ mem[s].readings = dur[s].readings
       /\ \A c \in Slot : ~Ticks(c, s)

(* Nothing that is read or on its way is above the register, and a stop    *)
(* that bears a register bears the last.                                   *)
RegistersOK(s) ==
  /\ start[s] <= reg[s]
  /\ \A kwh \in Kwhs(dur[s]) : kwh <= reg[s]
  /\ \A c \in Slot : Ticks(c, s) => calls[c].kwh <= reg[s]
  /\ \A c \in Slot : StopsAt(c, s) => calls[c].kwh = reg[s] /\ ~plugged[s]

CoversOK(s) ==
  /\ dur[s].state \in Live \cup {"NONE"} => dur[s].end = NoMeter /\ ~dur[s].billed
  /\ dur[s].state = "COMPLETED" /\ dur[s].end # NoMeter /\ ~dur[s].billed
       => \A kwh \in Kwhs(dur[s]) : kwh <= dur[s].end

(* A session that is billed is over, and Oracle has one invoice of it.     *)
BillsOK(s) ==
  /\ dur[s].billed => dur[s].state = "COMPLETED"
  /\ \A i, j \in durInvoices : i.session = s /\ j.session = s => i = j
  /\ dur[s].billed <=> \E i \in durInvoices : i.session = s
  /\ \A i \in durInvoices : i.session = s => i.energy = Energy(s, dur[s].end)

(* The invoices in memory, and those on their way there, are Oracle's.     *)
Charged(id, s) == \E j \in durInvoices : j.id = id /\ j.session = s
InvoicesOK ==
  /\ \A i \in invoices : Charged(i.id, i.session)
  /\ \A c \in Slot : calls[c].kind = "bill" /\ calls[c].at = "memory" => Charged(calls[c].id, calls[c].session)

SessionOK(s) == KnownOK(s) /\ NumbersOK(s) /\ RegistersOK(s) /\ CoversOK(s) /\ BillsOK(s)
IInv == TypeOK /\ InvoicesOK /\ \A s \in Session : SessionOK(s)

(* ---------------------------- highest of a set ------------------------- *)
LEMMA HasHighest ==
  ASSUME NEW S, IsFiniteSet(S), S \subseteq Int, S # {}
  PROVE  \E x \in S : \A y \in S : x >= y
<1>t. PICK Topless : Topless = {X \in FiniteSubsetsOf(Int) : X # {} /\ ~\E x \in X : \A y \in X : x >= y}
  OBVIOUS
<1> SUFFICES ASSUME S \in Topless PROVE FALSE
  BY <1>t DEF FiniteSubsetsOf
<1>1. PICK X \in Topless : \A Y \in Topless : Y \subseteq X => Y = X
  <2>1. Topless \subseteq FiniteSubsetsOf(Int) /\ Topless # {}
    BY <1>t
  <2>2. Topless \in SUBSET FiniteSubsetsOf(Int)
    BY <2>1
  <2> QED BY <2>1, <2>2, SmallestSet
<1>2. X \subseteq Int /\ IsFiniteSet(X) /\ X # {} /\ ~\E x \in X : \A y \in X : x >= y
  BY <1>t, <1>1 DEF FiniteSubsetsOf
<1>3. PICK x \in X : TRUE
  BY <1>2
<1>4. IsFiniteSet(X \ {x})
  BY <1>2, FS_RemoveElement
<1>5. CASE X \ {x} = {}
  <2>1. X = {x} /\ x >= x
    BY <1>2, <1>3, <1>5
  <2> QED BY <1>2, <2>1
<1>6. CASE X \ {x} # {}
  <2>1. X \ {x} \in FiniteSubsetsOf(Int) /\ X \ {x} \subseteq X /\ X \ {x} # X
    BY <1>2, <1>3, <1>4 DEF FiniteSubsetsOf
  <2>2. X \ {x} \notin Topless
    BY <1>1, <2>1
  <2>3. PICK z \in X \ {x} : \A y \in X \ {x} : z >= y
    BY <1>t, <1>6, <2>1, <2>2
  <2>4. z \in Int /\ x \in Int
    BY <1>2, <1>3, <2>3
  <2>5. (\A y \in X : z >= y) \/ (\A y \in X : x >= y)
    BY <1>2, <2>3, <2>4
  <2> QED BY <1>2, <1>3, <2>3, <2>5
<1> QED BY <1>5, <1>6

LEMMA MaxIs ==
  ASSUME NEW S, NEW a \in Int, NEW b \in Int, S \subseteq a..b, S # {}
  PROVE  Max(S) \in S /\ \A y \in S : y <= Max(S)
<1>1. S \subseteq Int /\ IsFiniteSet(S)
  <2>1. IsFiniteSet(a..b)
    BY FS_Interval
  <2>2. S \in SUBSET (a..b)
    OBVIOUS
  <2>3. IsFiniteSet(S)
    BY <2>1, <2>2, FS_Subset
  <2> QED BY <2>3
<1>2. \E x \in S : \A y \in S : x >= y
  BY <1>1, HasHighest
<1>3. Max(S) \in S /\ \A y \in S : Max(S) >= y
  BY <1>2 DEF Max
<1> QED BY <1>1, <1>3

LEMMA HighestIs ==
  ASSUME NEW S, NEW floor \in Int, NEW a \in Int, NEW b \in Int, S \subseteq a..b
  PROVE  /\ Highest(S, floor) \in {floor} \cup S /\ floor <= Highest(S, floor)
         /\ \A y \in S : y <= Highest(S, floor)
<1>1. PICK c \in Int, d \in Int : {floor} \cup S \subseteq c..d
  <2>1. PICK c \in Int : c <= a /\ c <= floor
    OBVIOUS
  <2>2. PICK d \in Int : d >= b /\ d >= floor
    OBVIOUS
  <2>3. {floor} \cup S \subseteq c..d
    BY <2>1, <2>2
  <2> QED BY <2>3
<1>2. Max({floor} \cup S) \in {floor} \cup S /\ \A y \in {floor} \cup S : y <= Max({floor} \cup S)
  BY <1>1, MaxIs
<1> QED BY <1>2 DEF Highest

(* ------------------------- calls, copies, readings --------------------- *)
LEMMA Constants ==
  MaxReg \in Nat /\ MaxSeq \in Nat /\ MaxId \in Nat
  BY MeteringAssumption

LEMMA CallIs ==
  ASSUME TypeOK, NEW c \in Slot
  PROVE  /\ calls[c] \in Call
         /\ calls[c].kind = "none" <=> calls[c] = NoCall
         /\ calls[c].kind = "tick" => calls[c] \in Tick
         /\ calls[c].kind = "stop" => calls[c] \in Stop
         /\ calls[c].kind = "move" => calls[c] \in Move
         /\ calls[c].kind = "bill" => calls[c] \in Bill
         /\ calls[c].kind # "none" => calls[c].session \in Session /\ calls[c].at \in Places
<1>1. PICK x : x = calls[c]
  OBVIOUS
<1>2. x \in Call
  BY <1>1 DEF TypeOK
<1>3. /\ x \in Tick => x.kind = "tick" /\ x.session \in Session /\ x.at \in Places
      /\ x \in Stop => x.kind = "stop" /\ x.session \in Session /\ x.at \in Places
      /\ x \in Move => x.kind = "move" /\ x.session \in Session /\ x.at \in Places
      /\ x \in Bill => x.kind = "bill" /\ x.session \in Session /\ x.at \in Places
  BY DEF Tick, Stop, Move, Bill
<1>4. NoCall.kind = "none"
  BY DEF NoCall
<1> QED BY <1>1, <1>2, <1>3, <1>4 DEF Call

LEMMA HereIs ==
  ASSUME TypeOK, NEW c \in Slot, NEW kind \in {"tick", "stop", "move", "bill"}, NEW where, Here(c, kind, where)
  PROVE  calls[c].kind = kind /\ calls[c].kind # "none" /\ calls[c].at = where /\ calls[c].session \in Session
  BY CallIs DEF Here

LEMMA CopyIs ==
  ASSUME NEW copy \in Copy
  PROVE  /\ Kwhs(copy) \subseteq 0..(MaxReg + 1) /\ Seqs(copy) \subseteq 1..MaxSeq
         /\ \A r \in copy.readings : r.seq \in Seqs(copy) /\ r.kwh \in Kwhs(copy)
         /\ \A r \in copy.readings : r \in Reading
<1>1. \A r \in copy.readings : r \in Reading /\ r.seq \in 1..MaxSeq /\ r.kwh \in 0..(MaxReg + 1)
  BY DEF Copy, Reading, Numbers, Registers
<1> QED BY <1>1 DEF Kwhs, Seqs

LEMMA CallAsked ==
  ASSUME TypeOK, NEW c \in Slot, NEW x \in Call, Asks(c, x)
  PROVE  /\ calls'[c] = x /\ calls[c].kind = "none" /\ calls' \in [Slot -> Call]
         /\ \A d \in Slot : d # c => calls'[d] = calls[d]
  BY DEF Asks, TypeOK, NoCall

LEMMA CallEnded ==
  ASSUME TypeOK, NEW c \in Slot, Ends(c)
  PROVE  /\ calls'[c].kind = "none" /\ calls' \in [Slot -> Call]
         /\ \A d \in Slot : d # c => calls'[d] = calls[d]
  BY DEF Ends, TypeOK, NoCall, Call

LEMMA CallGone ==
  ASSUME TypeOK, NEW c \in Slot, calls[c].kind # "none", Goes(c)
  PROVE  /\ calls'[c].kind = calls[c].kind /\ calls'[c].session = calls[c].session /\ calls'[c].at = "memory"
         /\ calls[c].kind = "tick" => calls'[c].seq = calls[c].seq /\ calls'[c].kwh = calls[c].kwh
         /\ calls[c].kind = "stop" => calls'[c].kwh = calls[c].kwh
         /\ calls' \in [Slot -> Call]
         /\ \A d \in Slot : d # c => calls'[d] = calls[d]
<1>1. PICK x : x = [calls[c] EXCEPT !.at = "memory"]
  OBVIOUS
<1>2. calls \in [Slot -> Call] /\ calls' = [calls EXCEPT ![c] = x]
  BY <1>1 DEF Goes, TypeOK
<1>3. calls'[c] = x /\ \A d \in Slot : d # c => calls'[d] = calls[d]
  BY <1>2
<1>4. calls[c] \in Tick \cup Stop \cup Move \cup Bill
  BY CallIs DEF Call, NoCall
<1>5. CASE calls[c] \in Tick
  <2>1. x \in Tick /\ x.kind = calls[c].kind /\ x.session = calls[c].session /\ x.at = "memory"
        /\ x.seq = calls[c].seq /\ x.kwh = calls[c].kwh /\ x.kind = "tick"
    BY <1>1, <1>5 DEF Tick, Places
  <2>2. calls' \in [Slot -> Call]
    BY <1>2, <2>1 DEF Call
  <2> QED BY <1>3, <2>1, <2>2
<1>6. CASE calls[c] \in Stop
  <2>1. x \in Stop /\ x.kind = calls[c].kind /\ x.session = calls[c].session /\ x.at = "memory"
        /\ x.kwh = calls[c].kwh /\ x.kind = "stop"
    BY <1>1, <1>6 DEF Stop, Places
  <2>2. calls' \in [Slot -> Call]
    BY <1>2, <2>1 DEF Call
  <2> QED BY <1>3, <2>1, <2>2
<1>7. CASE calls[c] \in Move
  <2>1. x \in Move /\ x.kind = calls[c].kind /\ x.session = calls[c].session /\ x.at = "memory" /\ x.kind = "move"
    BY <1>1, <1>7 DEF Move, Places
  <2>2. calls' \in [Slot -> Call]
    BY <1>2, <2>1 DEF Call
  <2> QED BY <1>3, <2>1, <2>2
<1>8. CASE calls[c] \in Bill
  <2>1. x \in Bill /\ x.kind = calls[c].kind /\ x.session = calls[c].session /\ x.at = "memory" /\ x.kind = "bill"
    BY <1>1, <1>8 DEF Bill, Places
  <2>2. calls' \in [Slot -> Call]
    BY <1>2, <2>1 DEF Call
  <2> QED BY <1>3, <2>1, <2>2
<1> QED BY <1>4, <1>5, <1>6, <1>7, <1>8

(* ---------------- what each part of the invariant rests on ------------- *)
SameTicks(s) == \A d \in Slot : Ticks(d, s)' => Ticks(d, s) /\ calls'[d] = calls[d]
SameStops(s) == \A d \in Slot : StopsAt(d, s)' => StopsAt(d, s) /\ calls'[d] = calls[d]

LEMMA NumbersKept ==
  ASSUME NEW s, NumbersOK(s), SameTicks(s), dur'[s].readings = dur[s].readings,
         plugged'[s] => plugged[s] /\ cursor'[s] = cursor[s] /\ mem'[s].readings = mem[s].readings
  PROVE  NumbersOK(s)'
<1>1. Seqs(dur[s])' = Seqs(dur[s])
  BY DEF Seqs
<1>2. \A d \in Slot : Ticks(d, s)' => Ticks(d, s) /\ calls'[d] = calls[d]
  BY DEF SameTicks
<1>3. /\ \A c \in Slot : Ticks(c, s)' /\ calls'[c].at = "oracle" => calls'[c].seq \notin Seqs(dur[s])'
      /\ \A c, d \in Slot : Ticks(c, s)' /\ Ticks(d, s)' /\ calls'[c].at = "oracle" /\ c # d
           => calls'[c].seq # calls'[d].seq
      /\ \A c \in Slot : Ticks(c, s)' /\ calls'[c].at = "memory"
           => [seq |-> calls'[c].seq, kwh |-> calls'[c].kwh] \in dur'[s].readings
  BY <1>1, <1>2 DEF NumbersOK
<1>4. plugged'[s] /\ cursor'[s] # NoCursor =>
        /\ \A n \in Seqs(dur[s])' : n <= cursor'[s]
        /\ \A c \in Slot : Ticks(c, s)' => calls'[c].seq <= cursor'[s]
  BY <1>1, <1>2 DEF NumbersOK
<1>5. plugged'[s] /\ cursor'[s] = NoCursor =>
        /\ mem'[s].readings = dur'[s].readings
        /\ \A c \in Slot : ~Ticks(c, s)'
  BY <1>2 DEF NumbersOK
<1> QED BY <1>3, <1>4, <1>5 DEF NumbersOK

LEMMA RegistersKept ==
  ASSUME NEW s, RegistersOK(s), SameTicks(s), SameStops(s), dur'[s].readings = dur[s].readings,
         start'[s] = start[s], reg'[s] = reg[s], plugged'[s] => plugged[s]
  PROVE  RegistersOK(s)'
<1>1. Kwhs(dur[s])' = Kwhs(dur[s])
  BY DEF Kwhs
<1> QED BY <1>1 DEF RegistersOK, SameTicks, SameStops

LEMMA CoversKept ==
  ASSUME NEW s, CoversOK(s), dur'[s] = dur[s]
  PROVE  CoversOK(s)'
  BY DEF CoversOK, Kwhs

LEMMA BillsKept ==
  ASSUME NEW s, BillsOK(s), start'[s] = start[s],
         dur'[s].billed = dur[s].billed, dur[s].billed => dur'[s].state = dur[s].state /\ dur'[s].end = dur[s].end,
         \A i : i.session = s => (i \in durInvoices' <=> i \in durInvoices)
  PROVE  BillsOK(s)'
<1>1. \A end : Energy(s, end)' = Energy(s, end)
  BY DEF Energy
<1>2. \A i \in durInvoices' : i.session = s => i \in durInvoices /\ dur[s].billed
  BY DEF BillsOK
<1> QED BY <1>1, <1>2 DEF BillsOK

LEMMA KnownKept ==
  ASSUME NEW s, KnownOK(s), dur'[s].readings = dur[s].readings, mem'[s].readings \subseteq dur[s].readings,
         mem'[s].state = "NONE" <=> mem[s].state = "NONE", dur'[s].state = "NONE" <=> dur[s].state = "NONE",
         mem[s].state = "NONE" => \A d \in Slot : Asked(d, s)' => Asked(d, s)
  PROVE  KnownOK(s)'
  BY DEF KnownOK

(* A session of which a step changes nothing but that a call ends.         *)
Untouched(s) ==
  /\ start'[s] = start[s] /\ reg'[s] = reg[s] /\ plugged'[s] = plugged[s] /\ cursor'[s] = cursor[s]
  /\ mem'[s] = mem[s] /\ dur'[s] = dur[s]
  /\ \A d \in Slot : Asked(d, s)' => Asked(d, s) /\ calls'[d] = calls[d]
  /\ \A i : i.session = s => (i \in durInvoices' <=> i \in durInvoices)

LEMMA FewerCalls ==
  ASSUME NEW s, \A d \in Slot : Asked(d, s)' => Asked(d, s) /\ calls'[d] = calls[d]
  PROVE  SameTicks(s) /\ SameStops(s)
<1>1. \A d : /\ Ticks(d, s)' => Asked(d, s)'
             /\ StopsAt(d, s)' => Asked(d, s)'
  BY DEF Ticks, StopsAt, Asked
<1>2. SameTicks(s)
  BY <1>1 DEF SameTicks, Ticks
<1>3. SameStops(s)
  BY <1>1 DEF SameStops, StopsAt
<1> QED BY <1>2, <1>3

LEMMA UntouchedOK ==
  ASSUME NEW s, SessionOK(s), Untouched(s)
  PROVE  SessionOK(s)'
<1>1. SameTicks(s) /\ SameStops(s)
  BY FewerCalls DEF Untouched
<1>2. KnownOK(s)'
  BY KnownKept DEF SessionOK, Untouched, KnownOK
<1>3. NumbersOK(s)'
  BY <1>1, NumbersKept DEF SessionOK, Untouched
<1>4. RegistersOK(s)'
  BY <1>1, RegistersKept DEF SessionOK, Untouched
<1>5. CoversOK(s)'
  BY CoversKept DEF SessionOK, Untouched
<1>6. BillsOK(s)'
  BY BillsKept DEF SessionOK, Untouched
<1> QED BY <1>2, <1>3, <1>4, <1>5, <1>6 DEF SessionOK

LEMMA InvoicesKept ==
  ASSUME InvoicesOK, invoices' = invoices, durInvoices \subseteq durInvoices',
         \A c \in Slot : calls'[c].kind = "bill" /\ calls'[c].at = "memory" => calls'[c] = calls[c]
  PROVE  InvoicesOK'
  BY DEF InvoicesOK, Charged

LEMMA CallsElse ==
  ASSUME NEW c \in Slot, \A d \in Slot : d # c => calls'[d] = calls[d], NEW t, ~Asked(c, t)'
  PROVE  \A d \in Slot : Asked(d, t)' => Asked(d, t) /\ calls'[d] = calls[d]
  BY DEF Asked

(* -------------------------- requests and frames ------------------------ *)
LEMMA StartStep ==
  ASSUME IInv, NEW s \in Session, StartTransaction(s)
  PROVE  IInv'
<1>1. /\ mem[s].state = "NONE" /\ dur[s].state = "NONE"
      /\ mem' = [mem EXCEPT ![s].state = "PREPARING"] /\ dur' = [dur EXCEPT ![s].state = "PREPARING"]
      /\ UNCHANGED <<point, invoices, durInvoices, calls>>
  BY DEF StartTransaction
<1>2. PICK n \in {0, NoCursor} : cursor' = [cursor EXCEPT ![s] = n]
  BY DEF StartTransaction
<1>3. TypeOK /\ InvoicesOK /\ SessionOK(s)
  BY DEF IInv
<1>4. mem[s] \in Copy /\ dur[s] \in Copy
  BY <1>3 DEF TypeOK
<1>5. PICK m, d : m = [mem[s] EXCEPT !.state = "PREPARING"] /\ d = [dur[s] EXCEPT !.state = "PREPARING"]
  OBVIOUS
<1>6. /\ m \in Copy /\ m.state = "PREPARING" /\ m.readings = mem[s].readings
      /\ d \in Copy /\ d.state = "PREPARING" /\ d.readings = dur[s].readings /\ d.end = dur[s].end /\ d.billed = dur[s].billed
  BY <1>4, <1>5 DEF Copy, States, Live
<1>7. mem' = [mem EXCEPT ![s] = m] /\ dur' = [dur EXCEPT ![s] = d]
  BY <1>1, <1>5
<1>8. TypeOK'
  <2>1. cursor' \in [Session -> {NoCursor} \cup 0..MaxSeq]
    BY <1>2, <1>3, Constants DEF TypeOK
  <2>2. mem' \in [Session -> Copy] /\ dur' \in [Session -> Copy]
    BY <1>3, <1>6, <1>7 DEF TypeOK
  <2> QED BY <1>1, <1>3, <2>1, <2>2 DEF TypeOK, point
<1>9. InvoicesOK'
  BY <1>1, <1>3, InvoicesKept
<1>10. SessionOK(s)'
  <2>1. mem'[s] = m /\ dur'[s] = d /\ cursor'[s] = n
    BY <1>2, <1>3, <1>7 DEF TypeOK
  <2>2. dur[s].readings = {} /\ mem[s].readings = {} /\ (\A c \in Slot : ~Asked(c, s)) /\ ~dur[s].billed
    BY <1>1, <1>3 DEF SessionOK, KnownOK, BillsOK
  <2>3. \A c \in Slot : ~Asked(c, s)' /\ ~Ticks(c, s)' /\ ~StopsAt(c, s)'
    BY <1>1, <2>2 DEF Asked, Ticks, StopsAt
  <2>4. Seqs(dur[s])' = {} /\ Kwhs(dur[s])' = {}
    BY <1>6, <2>1, <2>2 DEF Seqs, Kwhs
  <2>5. KnownOK(s)'
    BY <1>6, <2>1, <2>2, <2>3 DEF KnownOK
  <2>6. NumbersOK(s)'
    BY <1>6, <2>1, <2>2, <2>3, <2>4 DEF NumbersOK
  <2>7. RegistersOK(s)'
    BY <1>1, <1>3, <2>3, <2>4 DEF RegistersOK, SessionOK, point
  <2>8. CoversOK(s)'
    BY <1>1, <1>3, <1>6, <2>1, <2>2 DEF CoversOK, SessionOK
  <2>9. BillsOK(s)'
    <3>1. BillsOK(s) /\ start'[s] = start[s] /\ dur'[s].billed = dur[s].billed
      BY <1>1, <1>3, <1>6, <2>1 DEF SessionOK, point
    <3> QED BY <1>1, <2>2, <3>1, BillsKept
  <2> QED BY <2>5, <2>6, <2>7, <2>8, <2>9 DEF SessionOK
<1>11. ASSUME NEW t \in Session, t # s PROVE SessionOK(t)'
  <2>1. Untouched(t)
    BY <1>1, <1>2, <1>3, <1>7, <1>11 DEF Untouched, TypeOK, point, Asked
  <2> QED BY <2>1, UntouchedOK DEF IInv
<1> QED BY <1>8, <1>9, <1>10, <1>11 DEF IInv

LEMMA DeliversStep ==
  ASSUME IInv, NEW s \in Session, Delivers(s)
  PROVE  IInv'
<1>1. /\ plugged[s] /\ reg[s] < MaxReg /\ reg' = [reg EXCEPT ![s] = @ + 1]
      /\ UNCHANGED <<plugged, start, cursor, mem, dur, invoices, durInvoices, calls>>
  BY DEF Delivers
<1>2. TypeOK /\ InvoicesOK /\ SessionOK(s)
  BY DEF IInv
<1>3. reg[s] \in Nat /\ reg'[s] = reg[s] + 1 /\ reg'[s] \in Registers /\ reg' \in [Session -> Registers]
  BY <1>1, <1>2, Constants DEF TypeOK, Registers
<1>4. TypeOK'
  BY <1>1, <1>2, <1>3 DEF TypeOK
<1>5. InvoicesOK'
  BY <1>1, <1>2, InvoicesKept
<1>6. RegistersOK(s)'
  <2>1. start[s] \in Nat /\ \A kwh \in Kwhs(dur[s]) : kwh \in Nat
    BY <1>2, CopyIs, Constants DEF TypeOK, Registers
  <2>2. \A c \in Slot : Ticks(c, s) => calls[c].kwh \in Nat
    BY <1>2, CallIs, Constants DEF Ticks, Tick, Registers
  <2>3. Kwhs(dur[s])' = Kwhs(dur[s])
    BY <1>1 DEF Kwhs
  <2>4. RegistersOK(s)
    BY <1>2 DEF SessionOK
  <2>5. start'[s] <= reg'[s] /\ \A kwh \in Kwhs(dur[s])' : kwh <= reg'[s]
    BY <1>1, <1>3, <2>1, <2>3, <2>4 DEF RegistersOK
  <2>6. \A c \in Slot : Ticks(c, s)' => calls'[c].kwh <= reg'[s]
    BY <1>1, <1>3, <2>2, <2>4 DEF RegistersOK, Ticks
  <2>7. \A c \in Slot : ~StopsAt(c, s)'
    BY <1>1, <2>4 DEF RegistersOK, StopsAt
  <2> QED BY <2>5, <2>6, <2>7 DEF RegistersOK
<1>7. SessionOK(s)'
  <2>1. SameTicks(s)
    BY <1>1 DEF SameTicks, Ticks
  <2>2. NumbersOK(s)'
    BY <1>1, <1>2, <2>1, NumbersKept DEF SessionOK
  <2>3. CoversOK(s)'
    BY <1>1, <1>2, CoversKept DEF SessionOK
  <2>4. BillsOK(s)'
    BY <1>1, <1>2, BillsKept DEF SessionOK
  <2>5. KnownOK(s)'
    BY <1>1, <1>2 DEF SessionOK, KnownOK, Asked
  <2> QED BY <1>6, <2>2, <2>3, <2>4, <2>5 DEF SessionOK
<1>8. ASSUME NEW t \in Session, t # s PROVE SessionOK(t)'
  <2>1. Untouched(t)
    BY <1>1, <1>2, <1>8 DEF Untouched, TypeOK, Asked
  <2> QED BY <2>1, UntouchedOK DEF IInv
<1> QED BY <1>4, <1>5, <1>7, <1>8 DEF IInv

(* The number a frame is given is past all numbers handed out.             *)
LEMMA NextSeqIs ==
  ASSUME TypeOK, NEW s \in Session, NumbersOK(s), plugged[s], NextSeq(s) <= MaxSeq
  PROVE  /\ NextSeq(s) \in Numbers
         /\ \A n \in Seqs(dur[s]) : n < NextSeq(s)
         /\ \A c \in Slot : Ticks(c, s) => calls[c].seq < NextSeq(s)
<1>1. Seqs(dur[s]) \subseteq 1..MaxSeq /\ Seqs(mem[s]) \subseteq 1..MaxSeq
  BY CopyIs DEF TypeOK
<1>2. \A c \in Slot : Ticks(c, s) => calls[c].seq \in 1..MaxSeq
  BY CallIs DEF Ticks, Tick, Numbers
<1>3. CASE cursor[s] = NoCursor
  <2>1. NextSeq(s) = 1 + Highest(Seqs(mem[s]), 0)
    BY <1>3 DEF NextSeq
  <2>2. /\ Highest(Seqs(mem[s]), 0) \in {0} \cup Seqs(mem[s])
        /\ \A n \in Seqs(mem[s]) : n <= Highest(Seqs(mem[s]), 0)
    <3>1. MaxSeq \in Int
      BY Constants
    <3> QED BY <1>1, <3>1, HighestIs
  <2>3. Seqs(mem[s]) = Seqs(dur[s]) /\ \A c \in Slot : ~Ticks(c, s)
    BY <1>3 DEF NumbersOK, Seqs
  <2> QED BY <1>1, <2>1, <2>2, <2>3, Constants DEF Numbers
<1>4. CASE cursor[s] # NoCursor
  <2>1. NextSeq(s) = 1 + cursor[s] /\ cursor[s] \in 0..MaxSeq
    BY <1>4 DEF NextSeq, TypeOK
  <2>2. /\ \A n \in Seqs(dur[s]) : n <= cursor[s]
        /\ \A c \in Slot : Ticks(c, s) => calls[c].seq <= cursor[s]
    BY <1>4 DEF NumbersOK
  <2> QED BY <1>1, <1>2, <2>1, <2>2, Constants DEF Numbers
<1> QED BY <1>3, <1>4

LEMMA CarriedIs ==
  ASSUME TypeOK, NEW s \in Session, KnownOK(s), RegistersOK(s)
  PROVE  Carried(s) \in Registers /\ Carried(s) <= reg[s]
<1>1. Kwhs(mem[s]) \subseteq 0..(MaxReg + 1) /\ Kwhs(mem[s]) \subseteq Kwhs(dur[s])
  BY CopyIs DEF TypeOK, KnownOK, Kwhs
<1>2. start[s] \in Registers /\ start[s] \in Int /\ MaxReg + 1 \in Int
  BY Constants DEF TypeOK, Registers
<1>3. Carried(s) \in {start[s]} \cup Kwhs(mem[s])
  BY <1>1, <1>2, HighestIs DEF Carried
<1> QED BY <1>1, <1>2, <1>3 DEF RegistersOK, Registers

LEMMA MeterStep ==
  ASSUME IInv, NEW c \in Slot, NEW s \in Session, MeterValues(c, s)
  PROVE  IInv'
<1>1. TypeOK /\ InvoicesOK /\ SessionOK(s) /\ KnownOK(s) /\ NumbersOK(s) /\ RegistersOK(s)
  BY DEF IInv, SessionOK
<1>2. PICK n, kwh : /\ n = NextSeq(s) /\ kwh \in {reg[s], Carried(s)} /\ n <= MaxSeq
                    /\ Asks(c, [kind |-> "tick", session |-> s, seq |-> n, kwh |-> kwh, at |-> "oracle"])
                    /\ mem[s].state # "NONE" /\ plugged[s] /\ cursor' = [cursor EXCEPT ![s] = n]
                    /\ UNCHANGED <<point, mem, dur, invoices, durInvoices>>
  BY DEF MeterValues
<1>3. /\ n \in Numbers /\ n \in Int
      /\ \A m \in Seqs(dur[s]) : m < n
      /\ \A d \in Slot : Ticks(d, s) => calls[d].seq < n
  BY <1>1, <1>2, NextSeqIs DEF Numbers
<1>4. kwh \in Registers /\ kwh <= reg[s]
  BY <1>1, <1>2, CarriedIs DEF TypeOK, Registers
<1>5. PICK x \in Tick : /\ x.session = s /\ x.seq = n /\ x.kwh = kwh /\ x.at = "oracle" /\ x.kind = "tick"
                        /\ Asks(c, x)
  <2> DEFINE y == [kind |-> "tick", session |-> s, seq |-> n, kwh |-> kwh, at |-> "oracle"]
  <2>1. y \in Tick /\ Asks(c, y) /\ y.session = s /\ y.seq = n /\ y.kwh = kwh /\ y.at = "oracle" /\ y.kind = "tick"
    BY <1>2, <1>3, <1>4 DEF Tick, Places
  <2> QED BY <2>1
<1>6. /\ calls'[c] = x /\ calls[c].kind = "none" /\ calls' \in [Slot -> Call]
      /\ \A d \in Slot : d # c => calls'[d] = calls[d]
  BY <1>1, <1>5, CallAsked DEF Call
<1>7. TypeOK'
  <2>1. cursor' \in [Session -> {NoCursor} \cup 0..MaxSeq]
    BY <1>1, <1>2, <1>3, Constants DEF TypeOK, Numbers
  <2> QED BY <1>1, <1>2, <1>6, <2>1 DEF TypeOK, point
<1>8. InvoicesOK'
  BY <1>1, <1>2, <1>5, <1>6, InvoicesKept
<1>9. \A d \in Slot : d # c /\ Ticks(d, s)' => Ticks(d, s) /\ calls'[d] = calls[d]
  BY <1>6 DEF Ticks
<1>10. NumbersOK(s)'
  <2>1. Seqs(dur[s])' = Seqs(dur[s]) /\ dur'[s] = dur[s]
    BY <1>2 DEF Seqs
  <2>2. cursor'[s] = n /\ n # NoCursor
    BY <1>1, <1>2, <1>3 DEF TypeOK, NoCursor, Numbers
  <2>3. \A m \in Seqs(dur[s]) : m \in Int
    BY <1>1, CopyIs DEF TypeOK
  <2>4. \A d \in Slot : Ticks(d, s) => calls[d].seq \in Int
    BY <1>1, CallIs DEF Ticks, Tick, Numbers
  <2>5. \A d \in Slot : Ticks(d, s)' /\ calls'[d].at = "oracle" => calls'[d].seq \notin Seqs(dur[s])'
    <3> SUFFICES ASSUME NEW d \in Slot, Ticks(d, s)', calls'[d].at = "oracle" PROVE calls'[d].seq \notin Seqs(dur[s])
      BY <2>1
    <3>1. CASE d = c
      BY <1>3, <1>5, <1>6, <2>3, <3>1
    <3>2. CASE d # c
      BY <1>1, <1>9, <3>2 DEF NumbersOK
    <3> QED BY <3>1, <3>2
  <2>6. \A d, e \in Slot : Ticks(d, s)' /\ Ticks(e, s)' /\ calls'[d].at = "oracle" /\ d # e
                             => calls'[d].seq # calls'[e].seq
    <3> SUFFICES ASSUME NEW d \in Slot, NEW e \in Slot, Ticks(d, s)', Ticks(e, s)', calls'[d].at = "oracle", d # e
                 PROVE  calls'[d].seq # calls'[e].seq
      OBVIOUS
    <3>1. CASE d = c
      BY <1>3, <1>5, <1>6, <1>9, <2>4, <3>1
    <3>2. CASE e = c
      BY <1>3, <1>5, <1>6, <1>9, <2>4, <3>2
    <3>3. CASE d # c /\ e # c
      BY <1>1, <1>9, <3>3 DEF NumbersOK
    <3> QED BY <3>1, <3>2, <3>3
  <2>7. \A d \in Slot : Ticks(d, s)' /\ calls'[d].at = "memory"
                        => [seq |-> calls'[d].seq, kwh |-> calls'[d].kwh] \in dur'[s].readings
    <3> SUFFICES ASSUME NEW d \in Slot, Ticks(d, s)', calls'[d].at = "memory"
                 PROVE  [seq |-> calls'[d].seq, kwh |-> calls'[d].kwh] \in dur[s].readings
      BY <2>1
    <3>1. d # c
      BY <1>5, <1>6
    <3> QED BY <1>1, <1>9, <3>1 DEF NumbersOK
  <2>8. \A m \in Seqs(dur[s])' : m <= cursor'[s]
    BY <1>3, <2>1, <2>2, <2>3
  <2>9. \A d \in Slot : Ticks(d, s)' => calls'[d].seq <= cursor'[s]
    BY <1>3, <1>5, <1>6, <1>9, <2>2, <2>4
  <2> QED BY <2>2, <2>5, <2>6, <2>7, <2>8, <2>9 DEF NumbersOK
<1>11. RegistersOK(s)'
  <2>1. Kwhs(dur[s])' = Kwhs(dur[s]) /\ UNCHANGED point
    BY <1>2 DEF Kwhs
  <2>2. \A d \in Slot : Ticks(d, s)' => calls'[d].kwh <= reg[s]
    BY <1>1, <1>4, <1>5, <1>6, <1>9 DEF RegistersOK
  <2>3. \A d \in Slot : StopsAt(d, s)' => StopsAt(d, s) /\ calls'[d] = calls[d]
    BY <1>5, <1>6 DEF StopsAt
  <2> QED BY <1>1, <2>1, <2>2, <2>3 DEF RegistersOK, point
<1>12. SessionOK(s)'
  <2>1. KnownOK(s)'
    BY <1>1, <1>2 DEF KnownOK
  <2>2. CoversOK(s)'
    BY <1>1, <1>2, CoversKept DEF SessionOK
  <2>3. BillsOK(s)'
    BY <1>1, <1>2, BillsKept DEF SessionOK, point
  <2> QED BY <1>10, <1>11, <2>1, <2>2, <2>3 DEF SessionOK
<1>13. ASSUME NEW t \in Session, t # s PROVE SessionOK(t)'
  <2>1. ~Asked(c, t)'
    BY <1>5, <1>6, <1>13 DEF Asked
  <2>2. Untouched(t)
    BY <1>1, <1>2, <1>6, <1>13, <2>1, CallsElse DEF Untouched, TypeOK, point
  <2> QED BY <2>2, UntouchedOK DEF IInv
<1> QED BY <1>7, <1>8, <1>12, <1>13 DEF IInv

(* A call that is no frame is asked: a stop bears the last register.       *)
LEMMA AskStep ==
  ASSUME IInv, NEW c \in Slot, NEW s \in Session, NEW x \in Call, Asks(c, x),
         x.kind \in {"stop", "move", "bill"}, x.session = s, x.at = "oracle", mem[s].state # "NONE",
         UNCHANGED <<reg, start, mem, dur, invoices, durInvoices>>,
         \/ UNCHANGED <<plugged, cursor>>
         \/ (plugged' = [plugged EXCEPT ![s] = FALSE] /\ cursor' = [cursor EXCEPT ![s] = NoCursor]),
         x.kind = "stop" => x.kwh = NoMeter \/ (x.kwh = reg[s] /\ plugged' = [plugged EXCEPT ![s] = FALSE])
  PROVE  IInv'
<1>1. TypeOK /\ InvoicesOK /\ SessionOK(s) /\ KnownOK(s) /\ NumbersOK(s) /\ RegistersOK(s)
  BY DEF IInv, SessionOK
<1>2. /\ calls'[c] = x /\ calls[c].kind = "none" /\ calls' \in [Slot -> Call]
      /\ \A d \in Slot : d # c => calls'[d] = calls[d]
  BY <1>1, CallAsked
<1>3. /\ plugged' \in [Session -> BOOLEAN] /\ cursor' \in [Session -> {NoCursor} \cup 0..MaxSeq]
      /\ \A t \in Session : t # s => plugged'[t] = plugged[t] /\ cursor'[t] = cursor[t]
      /\ plugged'[s] => plugged[s] /\ cursor'[s] = cursor[s]
  BY <1>1 DEF TypeOK
<1>4. TypeOK'
  BY <1>1, <1>2, <1>3 DEF TypeOK
<1>5. InvoicesOK'
  BY <1>1, <1>2, InvoicesKept
<1>6. SameTicks(s)
  BY <1>2 DEF SameTicks, Ticks
<1>7. NumbersOK(s)'
  BY <1>1, <1>3, <1>6, NumbersKept
<1>8. RegistersOK(s)'
  <2>1. Kwhs(dur[s])' = Kwhs(dur[s])
    BY DEF Kwhs
  <2>2. \A d \in Slot : Ticks(d, s)' => calls'[d].kwh <= reg'[s]
    BY <1>1, <1>6 DEF SameTicks, RegistersOK
  <2>3. ASSUME NEW d \in Slot, StopsAt(d, s)' PROVE calls'[d].kwh = reg'[s] /\ ~plugged'[s]
    <3>1. CASE d = c
      BY <1>1, <1>2, <2>3, <3>1 DEF StopsAt, TypeOK
    <3>2. CASE d # c
      <4>1. StopsAt(d, s) /\ calls'[d] = calls[d]
        BY <1>2, <2>3, <3>2 DEF StopsAt
      <4> QED BY <1>1, <1>3, <4>1 DEF RegistersOK
    <3> QED BY <3>1, <3>2
  <2> QED BY <1>1, <2>1, <2>2, <2>3 DEF RegistersOK
<1>9. SessionOK(s)'
  <2>1. KnownOK(s)'
    BY <1>1 DEF KnownOK
  <2>2. CoversOK(s)'
    BY <1>1, CoversKept DEF SessionOK
  <2>3. BillsOK(s)'
    BY <1>1, BillsKept DEF SessionOK
  <2> QED BY <1>7, <1>8, <2>1, <2>2, <2>3 DEF SessionOK
<1>10. ASSUME NEW t \in Session, t # s PROVE SessionOK(t)'
  <2>1. ~Asked(c, t)'
    BY <1>2, <1>10 DEF Asked
  <2>2. Untouched(t)
    BY <1>2, <1>3, <1>10, <2>1, CallsElse DEF Untouched
  <2> QED BY <2>2, UntouchedOK DEF IInv
<1> QED BY <1>4, <1>5, <1>9, <1>10 DEF IInv

LEMMA StopAskedStep ==
  ASSUME IInv, NEW c \in Slot, NEW s \in Session, StopTransaction(c, s) \/ RemoteStop(c, s)
  PROVE  IInv'
<1>1. CASE StopTransaction(c, s)
  <2>1. PICK kwh \in {reg[s], NoMeter} :
          Asks(c, [kind |-> "stop", session |-> s, kwh |-> kwh, at |-> "oracle"])
    BY <1>1 DEF StopTransaction
  <2>2. kwh \in {NoMeter} \cup Registers
    BY <2>1 DEF IInv, TypeOK
  <2>3. PICK x \in Stop : Asks(c, x) /\ x.kind = "stop" /\ x.session = s /\ x.at = "oracle" /\ x.kwh = kwh
    <3> DEFINE y == [kind |-> "stop", session |-> s, kwh |-> kwh, at |-> "oracle"]
    <3>1. y \in Stop /\ Asks(c, y) /\ y.kind = "stop" /\ y.session = s /\ y.at = "oracle" /\ y.kwh = kwh
      BY <2>1, <2>2 DEF Stop, Places
    <3> QED BY <3>1
  <2>4. x \in Call
    BY DEF Call
  <2>5. /\ plugged' = [plugged EXCEPT ![s] = FALSE] /\ cursor' = [cursor EXCEPT ![s] = NoCursor]
        /\ UNCHANGED <<reg, start, mem, dur, invoices, durInvoices>> /\ mem[s].state # "NONE"
    BY <1>1 DEF StopTransaction
  <2> QED BY <2>1, <2>3, <2>4, <2>5, AskStep
<1>2. CASE RemoteStop(c, s)
  <2>1. PICK x \in Stop : Asks(c, x) /\ x.kind = "stop" /\ x.session = s /\ x.at = "oracle" /\ x.kwh = NoMeter
    <3> DEFINE y == [kind |-> "stop", session |-> s, kwh |-> NoMeter, at |-> "oracle"]
    <3>1. y \in Stop /\ Asks(c, y) /\ y.kind = "stop" /\ y.session = s /\ y.at = "oracle" /\ y.kwh = NoMeter
      BY <1>2 DEF RemoteStop, Stop, Places
    <3> QED BY <3>1
  <2>2. x \in Call
    BY DEF Call
  <2>3. UNCHANGED <<reg, start, plugged, cursor, mem, dur, invoices, durInvoices>> /\ mem[s].state # "NONE"
    BY <1>2 DEF RemoteStop, point
  <2> QED BY <2>1, <2>2, <2>3, AskStep
<1> QED BY <1>1, <1>2

LEMMA RequestStep ==
  ASSUME IInv, NEW c \in Slot, NEW s \in Session, PatchState(c, s) \/ AskBill(c, s)
  PROVE  IInv'
<1>1. UNCHANGED <<reg, start, plugged, cursor, mem, dur, invoices, durInvoices>> /\ mem[s].state # "NONE"
  BY DEF PatchState, AskBill, point
<1>2. PICK x \in Move \cup Bill : Asks(c, x) /\ x.kind \in {"move", "bill"} /\ x.session = s /\ x.at = "oracle"
  <2>1. CASE PatchState(c, s)
    <3>1. PICK to \in Moves : Asks(c, [kind |-> "move", session |-> s, to |-> to, at |-> "oracle"])
      BY <2>1 DEF PatchState
    <3> DEFINE y == [kind |-> "move", session |-> s, to |-> to, at |-> "oracle"]
    <3>2. y \in Move /\ Asks(c, y) /\ y.kind = "move" /\ y.session = s /\ y.at = "oracle"
      BY <3>1 DEF Move, Places
    <3> QED BY <3>2
  <2>2. CASE AskBill(c, s)
    <3> DEFINE y == [kind |-> "bill", session |-> s, id |-> 0, at |-> "oracle"]
    <3>1. y \in Bill /\ Asks(c, y) /\ y.kind = "bill" /\ y.session = s /\ y.at = "oracle"
      BY <2>2 DEF AskBill, Bill, Places
    <3> QED BY <3>1
  <2> QED BY <2>1, <2>2
<1>3. x \in Call /\ x.kind # "stop"
  BY <1>2 DEF Call
<1> QED BY <1>1, <1>2, <1>3, AskStep

(* --------------------------- calls that end ---------------------------- *)
(* A call ends and nothing else changes.                                   *)
LEMMA EndStep ==
  ASSUME IInv, NEW c \in Slot, Ends(c), UNCHANGED <<point, cursor, mem, dur, invoices, durInvoices>>
  PROVE  IInv'
<1>1. TypeOK /\ InvoicesOK
  BY DEF IInv
<1>2. /\ calls'[c].kind = "none" /\ calls' \in [Slot -> Call]
      /\ \A d \in Slot : d # c => calls'[d] = calls[d]
  BY <1>1, CallEnded
<1>3. TypeOK'
  BY <1>1, <1>2 DEF TypeOK, point
<1>4. InvoicesOK'
  BY <1>1, <1>2, InvoicesKept
<1>5. ASSUME NEW t \in Session PROVE SessionOK(t)'
  <2>1. ~Asked(c, t)'
    BY <1>2 DEF Asked
  <2>2. Untouched(t)
    BY <1>2, <2>1, CallsElse DEF Untouched, point
  <2> QED BY <2>2, UntouchedOK DEF IInv
<1> QED BY <1>3, <1>4, <1>5 DEF IInv

(* The copy of one session changes, in Oracle or in memory, and a call of  *)
(* that session goes on or ends: what is left to show is about it alone.   *)
LEMMA CopyStep ==
  ASSUME IInv, NEW c \in Slot, NEW s \in Session, Asked(c, s),
         calls' \in [Slot -> Call], \A d \in Slot : d # c => calls'[d] = calls[d],
         calls'[c].kind = "none" \/ calls'[c].session = s,
         mem' \in [Session -> Copy], dur' \in [Session -> Copy],
         \A t \in Session : t # s => mem'[t] = mem[t] /\ dur'[t] = dur[t],
         UNCHANGED <<point, cursor>>,
         \A i \in durInvoices' : i.session \in Session,
         \A i : i.session # s => (i \in durInvoices' <=> i \in durInvoices),
         InvoicesOK', SessionOK(s)'
  PROVE  IInv'
<1>1. TypeOK'
  BY DEF IInv, TypeOK, point
<1>2. ASSUME NEW t \in Session, t # s PROVE SessionOK(t)'
  <2>1. ~Asked(c, t)'
    BY <1>2 DEF Asked
  <2>2. Untouched(t)
    BY <1>2, <2>1, CallsElse DEF Untouched, point
  <2> QED BY <2>2, UntouchedOK DEF IInv
<1> QED BY <1>1, <1>2 DEF IInv

(* ----------------------------- Oracle's half --------------------------- *)
LEMMA TickSteps ==
  ASSUME NEW copy \in Copy, NEW k \in Tick, copy.state \in Live
  PROVE  LET r == [seq |-> k.seq, kwh |-> k.kwh]
         IN /\ WithReading(copy, k) \in Copy /\ r \in Reading
            /\ WithReading(copy, k).end = copy.end /\ WithReading(copy, k).billed = copy.billed
            /\ WithReading(copy, k).state \in Live
            /\ WithReading(copy, k).readings \in {copy.readings, copy.readings \cup {r}}
            /\ k.seq \notin Seqs(copy) => WithReading(copy, k).readings = copy.readings \cup {r}
<1>1. PICK r : r = [seq |-> k.seq, kwh |-> k.kwh] /\ r \in Reading
  <2>1. k.seq \in Numbers /\ k.kwh \in Registers
    BY DEF Tick
  <2>2. [seq |-> k.seq, kwh |-> k.kwh] \in Reading
    BY <2>1 DEF Reading
  <2> QED BY <2>2
<1>2. CASE k.seq \in Seqs(copy)
  BY <1>1, <1>2 DEF WithReading
<1>3. CASE k.seq \notin Seqs(copy)
  <2>1. PICK st : st = (IF copy.state = "PREPARING" THEN "CHARGING" ELSE copy.state) /\ st \in Live /\ st \in States
    BY DEF Live, States
  <2>2. PICK y : y = [copy EXCEPT !.readings = @ \cup {r}, !.state = st]
    OBVIOUS
  <2>3. WithReading(copy, k) = y
    BY <1>1, <1>3, <2>1, <2>2 DEF WithReading
  <2>4. y \in Copy /\ y.end = copy.end /\ y.billed = copy.billed /\ y.state = st /\ y.readings = copy.readings \cup {r}
    BY <1>1, <2>1, <2>2 DEF Copy
  <2> QED BY <1>1, <1>3, <2>1, <2>3, <2>4
<1> QED BY <1>2, <1>3

LEMMA RecordStep ==
  ASSUME IInv, NEW c \in Slot, RecordTick(c)
  PROVE  IInv'
<1>1. PICK s, k : s = calls[c].session /\ k = calls[c]
  OBVIOUS
<1>2. TypeOK /\ InvoicesOK
  BY DEF IInv
<1>3. /\ s \in Session /\ k \in Tick /\ k.kind = "tick" /\ k.at = "oracle" /\ k.kind # "none"
      /\ calls[c].kind # "none" /\ Ticks(c, s) /\ Asked(c, s)
  BY <1>1, <1>2, CallIs DEF RecordTick, Here, Ticks, Asked
<1>4. SessionOK(s) /\ KnownOK(s) /\ NumbersOK(s) /\ RegistersOK(s) /\ CoversOK(s) /\ BillsOK(s) /\ dur[s] \in Copy
  BY <1>2, <1>3 DEF IInv, SessionOK, TypeOK
<1>5. UNCHANGED <<point, cursor, mem, invoices, durInvoices>>
  BY DEF RecordTick
<1>6. CASE ~DurTickFits(dur[s], k)
  <2>1. UNCHANGED dur /\ Ends(c)
    BY <1>1, <1>6 DEF RecordTick
  <2> QED BY <1>5, <2>1, EndStep
<1>7. CASE DurTickFits(dur[s], k)
  <2>1. dur' = [dur EXCEPT ![s] = WithReading(@, k)] /\ Goes(c)
    BY <1>1, <1>7 DEF RecordTick
  <2>2. dur[s].state \in Live
    BY <1>7 DEF DurTickFits, TickFits
  <2>3. k.seq \notin Seqs(dur[s])
    BY <1>1, <1>3, <1>4 DEF NumbersOK
  <2>4. PICK r, new : /\ r = [seq |-> k.seq, kwh |-> k.kwh] /\ new = WithReading(dur[s], k)
                      /\ r \in Reading /\ r.seq = k.seq /\ r.kwh = k.kwh
                      /\ new \in Copy /\ new.end = dur[s].end /\ new.billed = dur[s].billed /\ new.state \in Live
                      /\ new.readings = dur[s].readings \cup {r}
    BY <1>3, <1>4, <2>2, <2>3, TickSteps
  <2>5. dur' = [dur EXCEPT ![s] = new]
    BY <2>1, <2>4
  <2>6. dur'[s] = new /\ dur' \in [Session -> Copy] /\ \A t \in Session : t # s => dur'[t] = dur[t]
    BY <1>2, <1>3, <2>4, <2>5 DEF TypeOK
  <2>7. /\ calls'[c].kind = "tick" /\ calls'[c].session = s /\ calls'[c].at = "memory"
        /\ calls'[c].seq = k.seq /\ calls'[c].kwh = k.kwh /\ calls' \in [Slot -> Call]
        /\ \A d \in Slot : d # c => calls'[d] = calls[d]
    BY <1>1, <1>2, <1>3, <2>1, CallGone
  <2>8. Seqs(dur[s])' = Seqs(dur[s]) \cup {k.seq} /\ Kwhs(dur[s])' = Kwhs(dur[s]) \cup {k.kwh}
    BY <2>4, <2>6 DEF Seqs, Kwhs
  <2>9. \A d \in Slot : d # c /\ Ticks(d, s)' => Ticks(d, s) /\ calls'[d] = calls[d]
    BY <2>7 DEF Ticks
  <2>10. KnownOK(s)'
    BY <1>3, <1>4, <1>5, <2>2, <2>4, <2>6 DEF KnownOK, Live
  <2>11. NumbersOK(s)'
    <3>1. \A d \in Slot : Ticks(d, s)' /\ calls'[d].at = "oracle" => calls'[d].seq \notin Seqs(dur[s])'
      <4> SUFFICES ASSUME NEW d \in Slot, Ticks(d, s)', calls'[d].at = "oracle" PROVE calls'[d].seq \notin Seqs(dur[s])'
        OBVIOUS
      <4>1. d # c /\ Ticks(d, s) /\ calls'[d] = calls[d]
        BY <2>7, <2>9
      <4>2. calls[d].seq \notin Seqs(dur[s]) /\ calls[d].seq # calls[c].seq
        BY <1>3, <1>4, <4>1 DEF NumbersOK
      <4> QED BY <1>1, <2>8, <4>1, <4>2
    <3>2. \A d, e \in Slot : Ticks(d, s)' /\ Ticks(e, s)' /\ calls'[d].at = "oracle" /\ d # e
                               => calls'[d].seq # calls'[e].seq
      <4> SUFFICES ASSUME NEW d \in Slot, NEW e \in Slot, Ticks(d, s)', Ticks(e, s)', calls'[d].at = "oracle", d # e
                   PROVE  calls'[d].seq # calls'[e].seq
        OBVIOUS
      <4>1. d # c /\ Ticks(d, s) /\ calls'[d] = calls[d]
        BY <2>7, <2>9
      <4>2. CASE e = c
        BY <1>1, <1>3, <1>4, <2>7, <4>1, <4>2 DEF NumbersOK
      <4>3. CASE e # c
        BY <1>4, <2>9, <4>1, <4>3 DEF NumbersOK
      <4> QED BY <4>2, <4>3
    <3>3. \A d \in Slot : Ticks(d, s)' /\ calls'[d].at = "memory"
                          => [seq |-> calls'[d].seq, kwh |-> calls'[d].kwh] \in dur'[s].readings
      <4> SUFFICES ASSUME NEW d \in Slot, Ticks(d, s)', calls'[d].at = "memory"
                   PROVE  [seq |-> calls'[d].seq, kwh |-> calls'[d].kwh] \in dur[s].readings \cup {r}
        BY <2>4, <2>6
      <4>1. CASE d = c
        BY <2>4, <2>7, <4>1
      <4>2. CASE d # c
        BY <1>4, <2>9, <4>2 DEF NumbersOK
      <4> QED BY <4>1, <4>2
    <3>4. plugged'[s] /\ cursor'[s] # NoCursor =>
            /\ \A n \in Seqs(dur[s])' : n <= cursor'[s]
            /\ \A d \in Slot : Ticks(d, s)' => calls'[d].seq <= cursor'[s]
      BY <1>1, <1>3, <1>4, <1>5, <2>7, <2>8, <2>9 DEF NumbersOK, point
    <3>5. ~(plugged'[s] /\ cursor'[s] = NoCursor)
      BY <1>3, <1>4, <1>5 DEF NumbersOK, point
    <3> QED BY <3>1, <3>2, <3>3, <3>4, <3>5 DEF NumbersOK
  <2>12. RegistersOK(s)'
    <3>1. \A d \in Slot : Ticks(d, s)' => calls'[d].kwh <= reg[s]
      BY <1>1, <1>3, <1>4, <2>7, <2>9 DEF RegistersOK
    <3>2. \A d \in Slot : StopsAt(d, s)' => StopsAt(d, s) /\ calls'[d] = calls[d]
      BY <2>7 DEF StopsAt
    <3>3. \A kwh \in Kwhs(dur[s])' : kwh <= reg[s]
      BY <1>1, <1>3, <1>4, <2>8 DEF RegistersOK
    <3> QED BY <1>4, <1>5, <3>1, <3>2, <3>3 DEF RegistersOK, point
  <2>13. CoversOK(s)'
    BY <1>4, <2>2, <2>4, <2>6 DEF CoversOK, Live
  <2>14. BillsOK(s)'
    <3>1. ~dur[s].billed
      BY <1>4, <2>2 DEF BillsOK, Live
    <3> QED BY <1>4, <1>5, <2>4, <2>6, <3>1, BillsKept DEF point
  <2>15. SessionOK(s)'
    BY <2>10, <2>11, <2>12, <2>13, <2>14 DEF SessionOK
  <2>16. InvoicesOK'
    BY <1>2, <1>5, <2>7, InvoicesKept
  <2>17. mem' \in [Session -> Copy] /\ \A i \in durInvoices' : i.session \in Session
    BY <1>2, <1>5 DEF TypeOK
  <2> QED BY <1>3, <1>5, <2>6, <2>7, <2>15, <2>16, <2>17, CopyStep
<1> QED BY <1>6, <1>7

(* Oracle's copy of a session is stopped or moved on, and the call goes on.*)
LEMMA DurMoves ==
  ASSUME IInv, NEW c \in Slot, NEW s \in Session, NEW new \in Copy,
         calls[c].kind \in {"stop", "move"}, calls[c].session = s, Goes(c),
         dur' = [dur EXCEPT ![s] = new], new.readings = dur[s].readings, new.billed = dur[s].billed,
         dur[s].state \in Live, new.state # "NONE", new.state \in Live => new.end = dur[s].end,
         new.state = "COMPLETED" /\ new.end # NoMeter => \A kwh \in Kwhs(dur[s]) : kwh <= new.end,
         UNCHANGED <<point, cursor, mem, invoices, durInvoices>>
  PROVE  IInv'
<1>1. TypeOK /\ InvoicesOK
  BY DEF IInv
<1>2. SessionOK(s) /\ KnownOK(s) /\ NumbersOK(s) /\ RegistersOK(s) /\ CoversOK(s) /\ BillsOK(s)
  BY DEF IInv, SessionOK
<1>3. Asked(c, s) /\ calls[c].kind # "none" /\ calls[c].kind \notin {"tick", "bill"}
  BY DEF Asked
<1>4. /\ calls'[c].kind = calls[c].kind /\ calls'[c].session = s
      /\ calls[c].kind = "stop" => calls'[c].kwh = calls[c].kwh
      /\ calls' \in [Slot -> Call]
      /\ \A d \in Slot : d # c => calls'[d] = calls[d]
  BY <1>1, <1>3, CallGone
<1>5. dur'[s] = new /\ dur' \in [Session -> Copy] /\ \A t \in Session : t # s => dur'[t] = dur[t]
  BY <1>1 DEF TypeOK
<1>6. SameTicks(s)
  BY <1>3, <1>4 DEF SameTicks, Ticks
<1>7. KnownOK(s)'
  BY <1>2, <1>5 DEF KnownOK, Live
<1>8. NumbersOK(s)'
  BY <1>2, <1>5, <1>6, NumbersKept DEF point
<1>9. RegistersOK(s)'
  <2>1. Kwhs(dur[s])' = Kwhs(dur[s]) /\ start'[s] = start[s] /\ reg'[s] = reg[s] /\ plugged'[s] = plugged[s]
    BY <1>5 DEF Kwhs, point
  <2>2. \A d \in Slot : Ticks(d, s)' => Ticks(d, s) /\ calls'[d] = calls[d]
    BY <1>6 DEF SameTicks
  <2>3. \A d \in Slot : StopsAt(d, s)' => StopsAt(d, s) /\ calls'[d].kwh = calls[d].kwh
    BY <1>3, <1>4 DEF StopsAt
  <2> QED BY <1>2, <2>1, <2>2, <2>3 DEF RegistersOK
<1>10. ~dur[s].billed /\ dur[s].end = NoMeter
  BY <1>2 DEF CoversOK
<1>11. CoversOK(s)'
  <2>1. Kwhs(dur[s])' = Kwhs(dur[s])
    BY <1>5 DEF Kwhs
  <2> QED BY <1>2, <1>5, <1>10, <2>1 DEF CoversOK
<1>12. BillsOK(s)'
  BY <1>2, <1>5, <1>10, BillsKept DEF point
<1>13. InvoicesOK'
  BY <1>1, <1>3, <1>4, InvoicesKept
<1>14. SessionOK(s)'
  BY <1>7, <1>8, <1>9, <1>11, <1>12 DEF SessionOK
<1>15. mem' \in [Session -> Copy] /\ \A i \in durInvoices' : i.session \in Session
  BY <1>1 DEF TypeOK
<1> QED BY <1>3, <1>4, <1>5, <1>13, <1>14, <1>15, CopyStep

LEMMA StopStep ==
  ASSUME IInv, NEW c \in Slot, StopSession(c)
  PROVE  IInv'
<1>1. PICK s, kwh : s = calls[c].session /\ kwh = calls[c].kwh
  OBVIOUS
<1>2. TypeOK
  BY DEF IInv
<1>3. s \in Session /\ calls[c] \in Stop /\ calls[c].kind = "stop" /\ calls[c].kind # "none"
  BY <1>1, <1>2, CallIs DEF StopSession, Here
<1>4. RegistersOK(s) /\ dur[s] \in Copy /\ start[s] \in Registers /\ kwh \in {NoMeter} \cup Registers
  BY <1>1, <1>2, <1>3 DEF IInv, SessionOK, TypeOK, Stop
<1>5. UNCHANGED <<point, cursor, mem, invoices, durInvoices>>
  BY DEF StopSession
<1>6. CASE ~MayStop(s, kwh)
  <2>1. UNCHANGED dur /\ Ends(c)
    BY <1>1, <1>6 DEF StopSession
  <2> QED BY <1>5, <2>1, EndStep
<1>7. CASE MayStop(s, kwh)
  <2>1. PICK end : end = IF kwh # NoMeter THEN kwh
                         ELSE IF dur[s].readings = {} THEN start[s] ELSE Max(Kwhs(dur[s]))
    OBVIOUS
  <2>2. dur' = [dur EXCEPT ![s].end = end, ![s].state = StopTarget(dur[s])] /\ Goes(c)
    BY <1>1, <1>7, <2>1 DEF StopSession
  <2>3. dur[s].state \in Live /\ StopTarget(dur[s]) \in {"CANCELLED", "COMPLETED"}
    BY <1>7 DEF MayStop, Legal, StopTarget, Live
  <2>4. end \in Registers /\ \A k \in Kwhs(dur[s]) : k <= end
    <3>1. Kwhs(dur[s]) \subseteq 0..(MaxReg + 1) /\ 0 \in Int /\ MaxReg + 1 \in Int
      BY <1>4, CopyIs, Constants
    <3>2. CASE kwh # NoMeter
      <4>1. StopsAt(c, s)
        BY <1>1, <1>3, <3>2 DEF StopsAt
      <4>2. kwh = reg[s]
        BY <1>1, <1>4, <4>1 DEF RegistersOK
      <4> QED BY <1>4, <2>1, <3>2, <4>2 DEF RegistersOK
    <3>3. CASE kwh = NoMeter /\ dur[s].readings = {}
      BY <1>4, <2>1, <3>3 DEF Kwhs
    <3>4. CASE kwh = NoMeter /\ dur[s].readings # {}
      <4>1. Kwhs(dur[s]) # {}
        BY <3>4 DEF Kwhs
      <4>2. Max(Kwhs(dur[s])) \in Kwhs(dur[s]) /\ \A k \in Kwhs(dur[s]) : k <= Max(Kwhs(dur[s]))
        BY <3>1, <4>1, MaxIs
      <4> QED BY <2>1, <3>1, <3>4, <4>2 DEF Registers
    <3> QED BY <3>2, <3>3, <3>4
  <2>5. PICK new : new = [dur[s] EXCEPT !.end = end, !.state = StopTarget(dur[s])]
    OBVIOUS
  <2>6. /\ new \in Copy /\ new.readings = dur[s].readings /\ new.billed = dur[s].billed
        /\ new.state \in {"CANCELLED", "COMPLETED"} /\ new.end = end
    BY <1>4, <2>3, <2>4, <2>5 DEF Copy, States
  <2>7. dur' = [dur EXCEPT ![s] = new]
    BY <1>2, <1>3, <2>2, <2>5 DEF TypeOK
  <2>8. new.state \notin Live /\ new.state # "NONE"
    BY <2>6 DEF Live
  <2> QED BY <1>1, <1>3, <1>5, <2>2, <2>3, <2>4, <2>6, <2>7, <2>8, DurMoves
<1> QED BY <1>6, <1>7

LEMMA TransitionStep ==
  ASSUME IInv, NEW c \in Slot, Transition(c)
  PROVE  IInv'
<1>1. PICK s, to : s = calls[c].session /\ to = calls[c].to
  OBVIOUS
<1>2. TypeOK
  BY DEF IInv
<1>3. s \in Session /\ calls[c] \in Move /\ calls[c].kind = "move" /\ calls[c].kind # "none" /\ to \in Moves
  BY <1>1, <1>2, CallIs DEF Transition, Here, Move
<1>4. dur[s] \in Copy /\ CoversOK(s)
  BY <1>2, <1>3 DEF IInv, SessionOK, TypeOK
<1>5. UNCHANGED <<point, cursor, mem, invoices, durInvoices>>
  BY DEF Transition
<1>6. CASE ~Legal(dur[s].state, to)
  <2>1. UNCHANGED dur /\ Ends(c)
    BY <1>1, <1>6 DEF Transition
  <2> QED BY <1>5, <2>1, EndStep
<1>7. CASE Legal(dur[s].state, to)
  <2>1. dur' = [dur EXCEPT ![s].state = to] /\ Goes(c)
    BY <1>1, <1>7 DEF Transition
  <2>2. dur[s].state \in Live
    BY <1>7 DEF Legal, Live
  <2>3. PICK new : new = [dur[s] EXCEPT !.state = to]
    OBVIOUS
  <2>4. /\ new \in Copy /\ new.readings = dur[s].readings /\ new.billed = dur[s].billed
        /\ new.state = to /\ new.end = dur[s].end
    BY <1>3, <1>4, <2>3 DEF Copy, States, Moves, Live
  <2>5. dur' = [dur EXCEPT ![s] = new]
    BY <1>2, <1>3, <2>1, <2>3 DEF TypeOK
  <2>6. new.end = NoMeter /\ new.state # "NONE"
    BY <1>3, <1>4, <2>2, <2>4 DEF CoversOK, Moves
  <2> QED BY <1>1, <1>3, <1>5, <2>1, <2>2, <2>4, <2>5, <2>6, DurMoves
<1> QED BY <1>6, <1>7

LEMMA BillStep ==
  ASSUME IInv, NEW c \in Slot, BillSession(c)
  PROVE  IInv'
<1>1. PICK s : s = calls[c].session
  OBVIOUS
<1>2. TypeOK /\ InvoicesOK
  BY DEF IInv
<1>3. s \in Session /\ calls[c] \in Bill /\ calls[c].kind = "bill" /\ Asked(c, s)
  BY <1>1, <1>2, CallIs DEF BillSession, Here, Asked
<1>4. /\ KnownOK(s) /\ NumbersOK(s) /\ RegistersOK(s) /\ CoversOK(s) /\ BillsOK(s)
      /\ dur[s] \in Copy /\ start[s] \in Registers
  BY <1>2, <1>3 DEF IInv, SessionOK, TypeOK
<1>5. UNCHANGED <<point, cursor, mem, invoices>>
  BY DEF BillSession
<1>6. CASE ~MayBill(dur[s])
  <2>1. UNCHANGED <<dur, durInvoices>> /\ Ends(c)
    BY <1>1, <1>6 DEF BillSession
  <2> QED BY <1>5, <2>1, EndStep
<1>7. CASE MayBill(dur[s])
  <2>1. PICK end : end = (IF dur[s].end = NoMeter THEN start[s] ELSE dur[s].end) /\ end \in Registers
    BY <1>4 DEF Copy
  <2>2. PICK id \in 1..MaxId :
          /\ durInvoices' = durInvoices \cup {[id |-> id, session |-> s, energy |-> Energy(s, end)]}
          /\ calls' = [calls EXCEPT ![c].at = "memory", ![c].id = id]
          /\ dur' = [dur EXCEPT ![s].billed = TRUE, ![s].end = end]
    BY <1>1, <1>7, <2>1 DEF BillSession
  <2>3. PICK new, x, bill : /\ new = [dur[s] EXCEPT !.billed = TRUE, !.end = end]
                            /\ x = [calls[c] EXCEPT !.at = "memory", !.id = id]
                            /\ bill = [id |-> id, session |-> s, energy |-> Energy(s, end)]
    OBVIOUS
  <2>4. /\ new \in Copy /\ new.readings = dur[s].readings /\ new.billed
        /\ new.state = dur[s].state /\ new.end = end
    BY <1>4, <2>1, <2>3 DEF Copy
  <2>5. x \in Bill /\ x.kind = "bill" /\ x.session = s /\ x.at = "memory" /\ x.id = id
    <3>1. id \in Nat
      BY <2>2, Constants
    <3> QED BY <1>1, <1>3, <2>3, <3>1 DEF Bill, Places
  <2>6. bill.id = id /\ bill.session = s /\ bill.energy = Energy(s, end) /\ durInvoices' = durInvoices \cup {bill}
    BY <2>2, <2>3
  <2>7. dur' = [dur EXCEPT ![s] = new] /\ calls' = [calls EXCEPT ![c] = x]
    BY <1>2, <1>3, <2>2, <2>3 DEF TypeOK
  <2>8. dur'[s] = new /\ dur' \in [Session -> Copy] /\ \A t \in Session : t # s => dur'[t] = dur[t]
    BY <1>2, <1>3, <2>4, <2>7 DEF TypeOK
  <2>9. calls'[c] = x /\ calls' \in [Slot -> Call] /\ \A d \in Slot : d # c => calls'[d] = calls[d]
    BY <1>2, <2>5, <2>7 DEF TypeOK, Call
  <2>10. SameTicks(s) /\ SameStops(s)
    BY <2>5, <2>9 DEF SameTicks, SameStops, Ticks, StopsAt
  <2>11. dur[s].state = "COMPLETED" /\ ~dur[s].billed
    BY <1>7 DEF MayBill
  <2>12. KnownOK(s)'
    BY <1>4, <1>5, <2>4, <2>8, <2>11 DEF KnownOK
  <2>13. NumbersOK(s)' /\ RegistersOK(s)'
    BY <1>4, <1>5, <2>4, <2>8, <2>10, NumbersKept, RegistersKept DEF point
  <2>14. CoversOK(s)'
    BY <2>4, <2>8, <2>11 DEF CoversOK, Live
  <2>15. BillsOK(s)'
    <3>1. \A i \in durInvoices : i.session # s
      BY <1>4, <2>11 DEF BillsOK
    <3>2. \A i \in durInvoices' : i.session = s => i = bill
      BY <2>6, <3>1
    <3>3. Energy(s, end)' = Energy(s, end) /\ Energy(s, dur[s].end)' = Energy(s, end)'
      BY <1>5, <2>4, <2>8 DEF Energy, point
    <3>4. bill \in durInvoices'
      BY <2>6
    <3> QED BY <2>4, <2>6, <2>8, <2>11, <3>2, <3>3, <3>4 DEF BillsOK
  <2>16. SessionOK(s)'
    BY <2>12, <2>13, <2>14, <2>15 DEF SessionOK
  <2>17. InvoicesOK'
    <3>1. Charged(id, s)'
      BY <2>6 DEF Charged
    <3>2. \A n, t : Charged(n, t) => Charged(n, t)'
      BY <2>6 DEF Charged
    <3> QED BY <1>2, <1>5, <2>5, <2>9, <3>1, <3>2 DEF InvoicesOK
  <2>18. mem' \in [Session -> Copy] /\ \A i \in durInvoices' : i.session \in Session
    BY <1>2, <1>3, <1>5, <2>6 DEF TypeOK
  <2>19. \A i : i.session # s => (i \in durInvoices' <=> i \in durInvoices)
    BY <2>6
  <2> QED BY <1>3, <1>5, <2>5, <2>8, <2>9, <2>16, <2>17, <2>18, <2>19, CopyStep
<1> QED BY <1>6, <1>7

(* --------------------------- the half in memory ------------------------ *)
(* Memory's copy of a session changes, and the call of it ends.            *)
LEMMA MemMoves ==
  ASSUME IInv, NEW c \in Slot, NEW s \in Session, calls[c].kind # "none", calls[c].session = s, Ends(c),
         NEW new \in Copy, mem' = [mem EXCEPT ![s] = new], new.state # "NONE",
         new.readings \subseteq dur[s].readings,
         new.readings = mem[s].readings \/ Ticks(c, s),
         InvoicesOK', UNCHANGED <<point, cursor, dur, durInvoices>>
  PROVE  IInv'
<1>1. TypeOK
  BY DEF IInv
<1>2. SessionOK(s) /\ KnownOK(s) /\ NumbersOK(s) /\ RegistersOK(s) /\ CoversOK(s) /\ BillsOK(s) /\ Asked(c, s)
  BY DEF IInv, SessionOK, Asked
<1>3. /\ calls'[c].kind = "none" /\ calls' \in [Slot -> Call]
      /\ \A d \in Slot : d # c => calls'[d] = calls[d]
  BY <1>1, CallEnded
<1>4. mem'[s] = new /\ mem' \in [Session -> Copy] /\ \A t \in Session : t # s => mem'[t] = mem[t]
  BY <1>1 DEF TypeOK
<1>5. SameTicks(s) /\ SameStops(s)
  BY <1>3 DEF SameTicks, SameStops, Ticks, StopsAt
<1>6. mem[s].state # "NONE" /\ dur[s].state # "NONE"
  BY <1>2 DEF KnownOK
<1>7. KnownOK(s)'
  BY <1>4, <1>6 DEF KnownOK
<1>8. NumbersOK(s)'
  <2>1. CASE new.readings = mem[s].readings
    BY <1>2, <1>4, <1>5, <2>1, NumbersKept DEF point
  <2>2. CASE Ticks(c, s)
    <3>1. plugged[s] => cursor[s] # NoCursor
      BY <1>2, <2>2 DEF NumbersOK
    <3>2. Seqs(dur[s])' = Seqs(dur[s])
      BY DEF Seqs
    <3> QED BY <1>2, <1>5, <3>1, <3>2 DEF NumbersOK, SameTicks, point
  <2> QED BY <2>1, <2>2
<1>9. RegistersOK(s)' /\ CoversOK(s)' /\ BillsOK(s)'
  BY <1>2, <1>5, RegistersKept, CoversKept, BillsKept DEF point
<1>10. SessionOK(s)'
  BY <1>7, <1>8, <1>9 DEF SessionOK
<1>11. dur' \in [Session -> Copy] /\ \A i \in durInvoices' : i.session \in Session
  BY <1>1 DEF TypeOK
<1> QED BY <1>2, <1>3, <1>4, <1>10, <1>11, CopyStep

LEMMA EndedInvoices ==
  ASSUME IInv, NEW c \in Slot, Ends(c), UNCHANGED <<invoices, durInvoices>>
  PROVE  InvoicesOK'
<1>1. calls'[c].kind = "none" /\ \A d \in Slot : d # c => calls'[d] = calls[d]
  BY CallEnded DEF IInv
<1> QED BY <1>1, InvoicesKept DEF IInv

LEMMA RecordLocalStep ==
  ASSUME IInv, NEW c \in Slot, RecordTickLocal(c)
  PROVE  IInv'
<1>1. PICK s, k : s = calls[c].session /\ k = calls[c]
  OBVIOUS
<1>2. TypeOK
  BY DEF IInv
<1>3. s \in Session /\ k \in Tick /\ k.kind = "tick" /\ k.at = "memory" /\ calls[c].kind # "none" /\ Ticks(c, s)
  BY <1>1, <1>2, CallIs DEF RecordTickLocal, Here, Ticks
<1>4. /\ Ends(c) /\ UNCHANGED <<point, cursor, dur, invoices, durInvoices>>
      /\ \/ mem' = mem
         \/ mem[s].state \in Live /\ mem' = [mem EXCEPT ![s] = WithReading(@, k)]
  BY <1>1 DEF RecordTickLocal
<1>5. CASE mem' = mem
  BY <1>4, <1>5, EndStep
<1>6. CASE mem[s].state \in Live /\ mem' = [mem EXCEPT ![s] = WithReading(@, k)]
  <2>1. mem[s] \in Copy /\ KnownOK(s) /\ NumbersOK(s)
    BY <1>2, <1>3 DEF IInv, SessionOK, TypeOK
  <2>2. PICK r, new : /\ r = [seq |-> k.seq, kwh |-> k.kwh] /\ new = WithReading(mem[s], k)
                      /\ new \in Copy /\ new.state \in Live
                      /\ new.readings \in {mem[s].readings, mem[s].readings \cup {r}}
    BY <1>3, <1>6, <2>1, TickSteps
  <2>3. mem' = [mem EXCEPT ![s] = new]
    BY <1>6, <2>2
  <2>4. r \in dur[s].readings
    BY <1>1, <1>3, <2>1, <2>2 DEF NumbersOK
  <2>5. new.readings \subseteq dur[s].readings /\ new.state # "NONE"
    BY <2>1, <2>2, <2>4 DEF KnownOK, Live
  <2>6. InvoicesOK'
    BY <1>4, EndedInvoices
  <2> QED BY <1>1, <1>3, <1>4, <2>2, <2>3, <2>5, <2>6, MemMoves
<1> QED BY <1>4, <1>5, <1>6

LEMMA StopLocalStep ==
  ASSUME IInv, NEW c \in Slot, StopSessionLocal(c)
  PROVE  IInv'
<1>1. PICK s, kwh, end : /\ s = calls[c].session /\ kwh = calls[c].kwh
                         /\ end = IF kwh # NoMeter THEN kwh ELSE Highest(Kwhs(mem[s]), 0)
  OBVIOUS
<1>2. TypeOK
  BY DEF IInv
<1>3. s \in Session /\ calls[c] \in Stop /\ calls[c].kind = "stop" /\ calls[c].kind # "none"
  BY <1>1, <1>2, CallIs DEF StopSessionLocal, Here
<1>4. /\ Ends(c) /\ UNCHANGED <<point, cursor, dur, invoices, durInvoices>>
      /\ mem' = IF end < start[s] THEN mem
                ELSE [mem EXCEPT ![s].end = end, ![s].state = IF @ \in Live THEN StopTarget(mem[s]) ELSE @]
  BY <1>1 DEF StopSessionLocal
<1>5. CASE end < start[s]
  BY <1>4, <1>5, EndStep
<1>6. CASE ~(end < start[s])
  <2>1. mem[s] \in Copy /\ KnownOK(s) /\ Asked(c, s)
    BY <1>1, <1>2, <1>3 DEF IInv, SessionOK, TypeOK, Asked
  <2>2. end \in {NoMeter} \cup Registers
    <3>1. Kwhs(mem[s]) \subseteq 0..(MaxReg + 1) /\ 0 \in Int /\ MaxReg + 1 \in Int /\ MaxReg \in Nat
      BY <2>1, CopyIs, Constants
    <3>2. Highest(Kwhs(mem[s]), 0) \in {0} \cup Kwhs(mem[s])
      BY <3>1, HighestIs
    <3>3. kwh \in {NoMeter} \cup Registers
      BY <1>1, <1>3 DEF Stop
    <3> QED BY <1>1, <3>1, <3>2, <3>3 DEF Registers
  <2>3. PICK st : st = (IF mem[s].state \in Live THEN StopTarget(mem[s]) ELSE mem[s].state)
    OBVIOUS
  <2>4. st \in States /\ st # "NONE"
    BY <2>1, <2>3 DEF StopTarget, States, KnownOK, Copy
  <2>5. PICK new : new = [mem[s] EXCEPT !.end = end, !.state = st]
    OBVIOUS
  <2>6. new \in Copy /\ new.readings = mem[s].readings /\ new.state = st
    BY <2>1, <2>2, <2>4, <2>5 DEF Copy
  <2>7. mem' = [mem EXCEPT ![s] = new]
    BY <1>2, <1>3, <1>4, <1>6, <2>3, <2>5 DEF TypeOK
  <2>8. InvoicesOK'
    BY <1>4, EndedInvoices
  <2>9. new.readings \subseteq dur[s].readings /\ new.readings = mem[s].readings /\ new.state # "NONE"
    BY <2>1, <2>4, <2>6 DEF KnownOK
  <2>10. Ends(c) /\ calls[c].session = s /\ UNCHANGED <<point, cursor, dur, durInvoices>>
    BY <1>1, <1>4
  <2> QED BY <1>3, <2>6, <2>7, <2>8, <2>9, <2>10, MemMoves
<1> QED BY <1>5, <1>6

LEMMA TransitionLocalStep ==
  ASSUME IInv, NEW c \in Slot, TransitionLocal(c)
  PROVE  IInv'
<1>1. PICK s, to : s = calls[c].session /\ to = calls[c].to
  OBVIOUS
<1>2. TypeOK
  BY DEF IInv
<1>3. s \in Session /\ calls[c] \in Move /\ calls[c].kind = "move" /\ calls[c].kind # "none" /\ to \in Moves
  BY <1>1, <1>2, CallIs DEF TransitionLocal, Here, Move
<1>4. /\ Ends(c) /\ UNCHANGED <<point, cursor, dur, invoices, durInvoices>>
      /\ mem' = mem \/ mem' = [mem EXCEPT ![s].state = to]
  BY <1>1 DEF TransitionLocal
<1>5. CASE mem' = mem
  BY <1>4, <1>5, EndStep
<1>6. CASE mem' = [mem EXCEPT ![s].state = to]
  <2>1. mem[s] \in Copy /\ KnownOK(s)
    BY <1>2, <1>3 DEF IInv, SessionOK, TypeOK
  <2>2. PICK new : new = [mem[s] EXCEPT !.state = to]
    OBVIOUS
  <2>3. new \in Copy /\ new.readings = mem[s].readings /\ new.state = to
    BY <1>3, <2>1, <2>2 DEF Copy, States, Moves, Live
  <2>4. mem' = [mem EXCEPT ![s] = new]
    BY <1>2, <1>3, <1>6, <2>2 DEF TypeOK
  <2>5. new.readings \subseteq dur[s].readings /\ new.state # "NONE"
    BY <1>3, <2>1, <2>3 DEF KnownOK, Moves
  <2>6. InvoicesOK'
    BY <1>4, EndedInvoices
  <2> QED BY <1>1, <1>3, <1>4, <2>3, <2>4, <2>5, <2>6, MemMoves
<1> QED BY <1>4, <1>5, <1>6

LEMMA BillLocalStep ==
  ASSUME IInv, NEW c \in Slot, BillSessionLocal(c)
  PROVE  IInv'
<1>1. PICK s, id : s = calls[c].session /\ id = calls[c].id
  OBVIOUS
<1>2. TypeOK /\ InvoicesOK
  BY DEF IInv
<1>3. /\ s \in Session /\ calls[c] \in Bill /\ calls[c].kind = "bill" /\ calls[c].kind # "none"
      /\ calls[c].at = "memory"
  BY <1>1, <1>2, CallIs DEF BillSessionLocal, Here
<1>4. Ends(c) /\ UNCHANGED <<point, cursor, dur, durInvoices>>
  BY DEF BillSessionLocal
<1>5. CASE ~MayBill(mem[s])
  <2>1. UNCHANGED <<mem, invoices>>
    BY <1>1, <1>5 DEF BillSessionLocal
  <2> QED BY <1>4, <2>1, EndStep
<1>6. CASE MayBill(mem[s])
  <2>1. /\ \E row : row.id = id /\ row.session = s /\ invoices' = {i \in invoices : i.id # id} \cup {row}
        /\ mem' = [mem EXCEPT ![s].billed = TRUE]
    <3> DEFINE row == [id |-> id, session |-> s, energy |-> Energy(s, Highest({mem[s].end}, 0))]
    <3>1. /\ invoices' = {i \in invoices : i.id # id} \cup {row} /\ row.id = id /\ row.session = s
          /\ mem' = [mem EXCEPT ![s].billed = TRUE]
      BY <1>1, <1>6 DEF BillSessionLocal, Renamed
    <3> QED BY <3>1
  <2>2. mem[s] \in Copy /\ KnownOK(s)
    BY <1>2, <1>3 DEF IInv, SessionOK, TypeOK
  <2>3. PICK new : new = [mem[s] EXCEPT !.billed = TRUE]
    OBVIOUS
  <2>4. new \in Copy /\ new.readings = mem[s].readings /\ new.state = mem[s].state
    BY <2>2, <2>3 DEF Copy
  <2>5. mem' = [mem EXCEPT ![s] = new]
    BY <1>2, <1>3, <2>1, <2>3 DEF TypeOK
  <2>6. new.readings \subseteq dur[s].readings /\ new.state # "NONE"
    BY <1>6, <2>2, <2>4 DEF KnownOK, MayBill
  <2>7. InvoicesOK'
    <3>1. Charged(id, s)
      BY <1>1, <1>2, <1>3 DEF InvoicesOK
    <3>2. \A n, t : Charged(n, t) <=> Charged(n, t)'
      BY <1>4 DEF Charged
    <3>3. PICK row : row.id = id /\ row.session = s /\ invoices' = {i \in invoices : i.id # id} \cup {row}
      BY <2>1
    <3>4. calls'[c].kind = "none" /\ \A d \in Slot : d # c => calls'[d] = calls[d]
      BY <1>2, <1>4, CallEnded
    <3>5. \A i \in invoices' : Charged(i.id, i.session)
      BY <1>2, <3>1, <3>3 DEF InvoicesOK
    <3>6. \A d \in Slot : calls'[d].kind = "bill" /\ calls'[d].at = "memory" => Charged(calls'[d].id, calls'[d].session)
      BY <1>2, <3>4 DEF InvoicesOK
    <3> QED BY <3>2, <3>5, <3>6 DEF InvoicesOK
  <2> QED BY <1>1, <1>3, <1>4, <2>4, <2>5, <2>6, <2>7, MemMoves
<1> QED BY <1>5, <1>6

(* -------------------------- restart, start, end ------------------------ *)
LEMMA RestartStep ==
  ASSUME IInv, Restart
  PROVE  IInv'
<1>1. /\ mem' = dur /\ invoices' = durInvoices /\ cursor' = [s \in Session |-> NoCursor]
      /\ calls' = [c \in Slot |-> NoCall] /\ UNCHANGED <<point, dur, durInvoices>>
  BY DEF Restart, Recovered
<1>2. TypeOK'
  BY <1>1 DEF IInv, TypeOK, point, Call
<1>3. \A c \in Slot : calls'[c].kind = "none"
  BY <1>1 DEF NoCall
<1>4. InvoicesOK'
  BY <1>1, <1>3 DEF InvoicesOK, Charged
<1>5. ASSUME NEW s \in Session PROVE SessionOK(s)'
  <2>1. KnownOK(s) /\ NumbersOK(s) /\ RegistersOK(s) /\ CoversOK(s) /\ BillsOK(s)
    BY DEF IInv, SessionOK
  <2>2. \A c \in Slot : ~Asked(c, s)' /\ ~Ticks(c, s)' /\ ~StopsAt(c, s)'
    BY <1>3 DEF Asked, Ticks, StopsAt
  <2>3. KnownOK(s)'
    BY <1>1, <2>1, <2>2 DEF KnownOK
  <2>4. NumbersOK(s)'
    BY <1>1, <2>2 DEF NumbersOK
  <2>5. SameTicks(s) /\ SameStops(s)
    BY <2>2 DEF SameTicks, SameStops
  <2>6. RegistersOK(s)' /\ CoversOK(s)' /\ BillsOK(s)'
    BY <1>1, <2>1, <2>5, RegistersKept, CoversKept, BillsKept DEF point
  <2> QED BY <2>3, <2>4, <2>6 DEF SessionOK
<1> QED BY <1>2, <1>4, <1>5 DEF IInv

LEMMA InitIInv ==
  ASSUME Init
  PROVE  IInv
<1>1. Fresh \in Copy /\ Fresh.state = "NONE" /\ Fresh.readings = {} /\ Fresh.end = NoMeter /\ ~Fresh.billed
  BY DEF Fresh, Copy, States
<1>2. TypeOK
  <2>1. {0, 1} \subseteq Registers
    BY Constants DEF Registers
  <2>2. NoCall \in Call
    BY DEF Call
  <2> QED BY <1>1, <2>1, <2>2 DEF Init, TypeOK
<1>3. \A c \in Slot : calls[c].kind = "none"
  BY DEF Init, NoCall
<1>4. InvoicesOK
  BY <1>3 DEF Init, InvoicesOK
<1>5. ASSUME NEW s \in Session PROVE SessionOK(s)
  <2>1. mem[s] = Fresh /\ dur[s] = Fresh /\ durInvoices = {} /\ start[s] = reg[s] /\ reg[s] \in {0, 1}
    BY DEF Init
  <2>2. Seqs(dur[s]) = {} /\ Kwhs(dur[s]) = {}
    BY <1>1, <2>1 DEF Seqs, Kwhs
  <2>3. \A c \in Slot : ~Asked(c, s) /\ ~Ticks(c, s) /\ ~StopsAt(c, s)
    BY <1>3 DEF Asked, Ticks, StopsAt
  <2> QED BY <1>1, <2>1, <2>2, <2>3 DEF SessionOK, KnownOK, NumbersOK, RegistersOK, CoversOK, BillsOK, Live
<1> QED BY <1>2, <1>4, <1>5 DEF IInv

LEMMA StepIInv ==
  ASSUME IInv, [Next]_vars
  PROVE  IInv'
<1>1. ASSUME NEW s \in Session, StartTransaction(s) \/ Delivers(s) PROVE IInv'
  BY <1>1, StartStep, DeliversStep
<1>2. ASSUME NEW c \in Slot, NEW s \in Session, MeterValues(c, s) \/ StopTransaction(c, s) PROVE IInv'
  BY <1>2, MeterStep, StopAskedStep
<1>3. ASSUME NEW c \in Slot, NEW s \in Session, RemoteStop(c, s) \/ PatchState(c, s) \/ AskBill(c, s) PROVE IInv'
  BY <1>3, StopAskedStep, RequestStep
<1>4. ASSUME NEW c \in Slot, RecordTick(c) \/ StopSession(c) \/ Transition(c) \/ BillSession(c) PROVE IInv'
  BY <1>4, RecordStep, StopStep, TransitionStep, BillStep
<1>5. ASSUME NEW c \in Slot, RecordTickLocal(c) \/ StopSessionLocal(c) \/ TransitionLocal(c) \/ BillSessionLocal(c)
      PROVE  IInv'
  BY <1>5, RecordLocalStep, StopLocalStep, TransitionLocalStep, BillLocalStep
<1>6. ASSUME NEW c \in Slot, OracleFails(c) PROVE IInv'
  BY <1>6, EndStep DEF OracleFails
<1>7. CASE UNCHANGED vars
  <2>1. ASSUME NEW s \in Session PROVE SessionOK(s)'
    <3>1. Untouched(s)
      BY <1>7 DEF vars, point, Untouched, Asked
    <3> QED BY <3>1, UntouchedOK DEF IInv
  <2>2. TypeOK'
    BY <1>7 DEF vars, point, IInv, TypeOK
  <2>3. InvoicesOK'
    BY <1>7, InvoicesKept DEF vars, IInv
  <2> QED BY <2>1, <2>2, <2>3 DEF IInv
<1> QED BY <1>1, <1>2, <1>3, <1>4, <1>5, <1>6, <1>7, RestartStep DEF Next, Frames, Requests, InOracle, InMemory

(* A set of which any two elements are equal has at most one.              *)
LEMMA AtMostOne ==
  ASSUME NEW S, \A r, q \in S : r = q
  PROVE  Cardinality(S) = (IF S = {} THEN 0 ELSE 1)
<1>1. CASE S = {}
  BY <1>1, FS_EmptySet
<1>2. CASE S # {}
  <2>1. PICK x : S = {x}
    BY <1>2
  <2> QED BY <1>2, <2>1, FS_Singleton
<1> QED BY <1>1, <1>2

(* The inductive invariant holds in every reachable state.                 *)
THEOREM MeteringInvariant == Spec => []IInv
<1>1. Init => IInv
  BY InitIInv
<1>2. IInv /\ [Next]_vars => IInv'
  BY StepIInv
<1> QED BY <1>1, <1>2, PTL DEF Spec

(* However calls overtake one another, fail, or are cut off by a restart,  *)
(* no reading Oracle has accepted is lost, and memory shows none that      *)
(* Oracle has not (recordTick, MeterValues and the recovered seqByTx).     *)
THEOREM NoReadingLost == Spec => []ReadingsKept
<1>1. IInv => ReadingsKept
  <2> SUFFICES ASSUME IInv, NEW s \in Session
               PROVE  /\ mem[s].readings \subseteq dur[s].readings
                      /\ \A c \in Slot : Here(c, "tick", "memory") /\ calls[c].session = s
                           => [seq |-> calls[c].seq, kwh |-> calls[c].kwh] \in dur[s].readings
    BY DEF ReadingsKept
  <2>1. KnownOK(s) /\ NumbersOK(s)
    BY DEF IInv, SessionOK
  <2> QED BY <2>1 DEF KnownOK, NumbersOK, Here, Ticks
<1> QED BY <1>1, MeteringInvariant, PTL

(* A session is billed at most once, for its end meter, and an invoice in  *)
(* memory has the id under which Oracle charges that session               *)
(* (billSession, store.js and oracle.js).                                  *)
THEOREM SessionBilledOnce == Spec => []BilledOnce
<1>1. IInv => BilledOnce
  <2> SUFFICES ASSUME IInv PROVE BilledOnce
    OBVIOUS
  <2>1. ASSUME NEW s \in Session
        PROVE  Cardinality({i \in durInvoices : i.session = s}) = (IF dur[s].billed THEN 1 ELSE 0)
    <3>1. BillsOK(s)
      BY DEF IInv, SessionOK
    <3>2. PICK mine : mine = {i \in durInvoices : i.session = s}
      OBVIOUS
    <3>3. \A i, j \in mine : i = j
      BY <3>1, <3>2 DEF BillsOK
    <3>4. mine = {} <=> ~dur[s].billed
      BY <3>1, <3>2 DEF BillsOK
    <3> QED BY <3>2, <3>3, <3>4, AtMostOne
  <2>2. \A i \in invoices : \E j \in durInvoices : j.id = i.id /\ j.session = i.session
    BY DEF IInv, InvoicesOK, Charged
  <2>3. \A i \in durInvoices : i.energy = Energy(i.session, dur[i.session].end)
    BY DEF IInv, TypeOK, SessionOK, BillsOK
  <2> QED BY <2>1, <2>2, <2>3 DEF BilledOnce
<1> QED BY <1>1, MeteringInvariant, PTL

(* A session that was stopped and is not billed yet ends at a register     *)
(* that covers every reading Oracle has of it (stopSession, V012).         *)
THEOREM StopCoversReadings == Spec => []StopCovers
<1>1. IInv => StopCovers
  BY DEF IInv, SessionOK, CoversOK, StopCovers
<1> QED BY <1>1, MeteringInvariant, PTL

(* ------------------- what an invoice in memory charges ----------------- *)
Over == {"COMPLETED", "FAILED", "CANCELLED"}
Covered(copy) == \A kwh \in Kwhs(copy) : kwh <= copy.end

(* A call that has ended a session in Oracle, and not yet in memory.       *)
EndsAt(c, s) ==
  /\ calls[c].kind \in {"stop", "move"} /\ calls[c].session = s /\ calls[c].at = "memory"
  /\ calls[c].kind = "move" => calls[c].to \in Over

(* Oracle has no two readings under one number.                            *)
ReadOnce(s) ==
  /\ IsFiniteSet(dur[s].readings)
  /\ \A p, q \in dur[s].readings : p.seq = q.seq => p = q

(* Oracle ends a session first and once: at most one call brings the news  *)
(* to memory, and until then memory shows no end meter.                    *)
OverOK(s) ==
  /\ mem[s].state \in Over => dur[s].state \in Over /\ \A c \in Slot : ~EndsAt(c, s)
  /\ \A c \in Slot : EndsAt(c, s) => dur[s].state \in Over
  /\ \A c, d \in Slot : EndsAt(c, s) /\ EndsAt(d, s) => c = d
  /\ mem[s].state \notin Over => mem[s].end = NoMeter

(* An invoice charges nothing, or all there is up to an end meter that     *)
(* covers the readings.                                                    *)
Priced(s, energy) ==
  \/ energy = 0
  \/ Covered(mem[s]) /\ mem[s].end >= start[s] /\ energy = mem[s].end - start[s]

ChargesOK(s) ==
  /\ mem[s].state = "COMPLETED" /\ mem[s].end # NoMeter /\ ~mem[s].billed => Covered(mem[s])
  /\ mem[s].billed => mem[s].state = "COMPLETED"
  /\ dur[s].billed => dur[s].end = start[s] \/ Covered(dur[s])
  /\ \A i \in invoices : i.session = s => mem[s].billed /\ Priced(s, i.energy)

ChargeOK(s) == ReadOnce(s) /\ OverOK(s) /\ ChargesOK(s)
CInv == \A s \in Session : ChargeOK(s)

(* ------------------------ what each part rests on ---------------------- *)
LEMMA OverKept ==
  ASSUME NEW s, OverOK(s), mem'[s].state \in Over => mem[s].state \in Over, mem'[s].end = mem[s].end,
         mem[s].state \in Over => mem'[s].state \in Over,
         dur[s].state \in Over => dur'[s].state \in Over,
         \A d \in Slot : EndsAt(d, s)' => EndsAt(d, s)
  PROVE  OverOK(s)'
BY DEF OverOK

LEMMA ChargesKept ==
  ASSUME NEW s, ChargesOK(s), start'[s] = start[s], mem'[s] = mem[s],
         dur'[s].billed => dur[s].billed /\ dur'[s].end = dur[s].end /\ dur'[s].readings = dur[s].readings,
         \A i \in invoices' : i.session = s => i \in invoices
  PROVE  ChargesOK(s)'
<1>1. Covered(mem[s])' = Covered(mem[s])
  BY DEF Covered, Kwhs
<1>2. dur'[s].billed => (Covered(dur[s])' <=> Covered(dur[s]))
  BY DEF Covered, Kwhs
<1>3. \A e : Priced(s, e)' <=> Priced(s, e)
  BY <1>1 DEF Priced
<1> QED BY <1>1, <1>2, <1>3 DEF ChargesOK

(* Of a session that is not over in memory, nothing is charged.            *)
LEMMA NothingCharged ==
  ASSUME NEW s, OverOK(s), ChargesOK(s), mem[s].state \notin Over
  PROVE  mem[s].end = NoMeter /\ ~mem[s].billed /\ \A i \in invoices : i.session # s
BY DEF OverOK, ChargesOK, Over

(* A session that no call has ended and of which nothing else changes.     *)
CUntouched(s) ==
  /\ start'[s] = start[s] /\ mem'[s] = mem[s] /\ dur'[s] = dur[s]
  /\ \A d \in Slot : EndsAt(d, s)' => EndsAt(d, s)
  /\ \A i \in invoices' : i.session = s => i \in invoices

LEMMA CUntouchedOK ==
  ASSUME NEW s, ChargeOK(s), CUntouched(s)
  PROVE  ChargeOK(s)'
<1>1. OverOK(s)'
  BY OverKept DEF ChargeOK, CUntouched
<1>2. ChargesOK(s)'
  BY ChargesKept DEF ChargeOK, CUntouched
<1>3. ReadOnce(s)'
  BY DEF ChargeOK, CUntouched, ReadOnce
<1> QED BY <1>1, <1>2, <1>3 DEF ChargeOK

LEMMA ElseUntouched ==
  ASSUME NEW s, NEW t, NEW c \in Slot, t # s,
         start'[t] = start[t], mem'[t] = mem[t], dur'[t] = dur[t],
         \A d \in Slot : d # c => calls'[d] = calls[d],
         calls'[c].kind = "none" \/ calls'[c].session = s,
         \A i \in invoices' : i.session = t => i \in invoices
  PROVE  CUntouched(t)
<1>1. ~EndsAt(c, t)'
  BY DEF EndsAt
<1>2. \A d \in Slot : d # c /\ EndsAt(d, t)' => EndsAt(d, t)
  BY DEF EndsAt
<1> QED BY <1>1, <1>2 DEF CUntouched

(* Steps that change neither copy: a call is asked, refused or fails.      *)
LEMMA NoCopyStep ==
  ASSUME CInv, NEW c \in Slot, UNCHANGED <<start, mem, dur, invoices>>,
         calls'[c].kind = "none" \/ calls'[c].at = "oracle",
         \A d \in Slot : d # c => calls'[d] = calls[d]
  PROVE  CInv'
<1> SUFFICES ASSUME NEW s \in Session PROVE ChargeOK(s)'
  BY DEF CInv
<1>1. ~EndsAt(c, s)'
  BY DEF EndsAt
<1>2. \A d \in Slot : d # c /\ EndsAt(d, s)' => EndsAt(d, s)
  BY DEF EndsAt
<1>3. CUntouched(s)
  BY <1>1, <1>2 DEF CUntouched
<1> QED BY <1>3, CUntouchedOK DEF CInv

LEMMA EndedCharges ==
  ASSUME IInv, CInv, NEW c \in Slot, Ends(c), UNCHANGED <<start, mem, dur, invoices>>
  PROVE  CInv'
<1>1. calls'[c].kind = "none" /\ \A d \in Slot : d # c => calls'[d] = calls[d]
  BY CallEnded DEF IInv
<1> QED BY <1>1, NoCopyStep

LEMMA AskedCharges ==
  ASSUME IInv, CInv, NEW c \in Slot, NEW x, x.at = "oracle", Asks(c, x), UNCHANGED <<start, mem, dur, invoices>>
  PROVE  CInv'
<1>1. calls'[c].at = "oracle" /\ \A d \in Slot : d # c => calls'[d] = calls[d]
  BY DEF Asks, IInv, TypeOK
<1> QED BY <1>1, NoCopyStep

LEMMA StartCharges ==
  ASSUME IInv, CInv, NEW s \in Session, StartTransaction(s)
  PROVE  CInv'
<1>1. /\ mem[s].state = "NONE" /\ dur[s].state = "NONE"
      /\ mem' = [mem EXCEPT ![s].state = "PREPARING"] /\ dur' = [dur EXCEPT ![s].state = "PREPARING"]
      /\ UNCHANGED <<start, invoices, calls>>
  BY DEF StartTransaction, point
<1>2. mem \in [Session -> Copy] /\ dur \in [Session -> Copy] /\ mem[s] \in Copy /\ dur[s] \in Copy
  BY DEF IInv, TypeOK
<1>3. /\ mem'[s].state = "PREPARING" /\ mem'[s].end = mem[s].end /\ mem'[s].billed = mem[s].billed
      /\ dur'[s].state = "PREPARING" /\ dur'[s].billed = dur[s].billed /\ dur'[s].readings = dur[s].readings
      /\ \A t \in Session : t # s => mem'[t] = mem[t] /\ dur'[t] = dur[t]
  BY <1>1, <1>2 DEF Copy
<1>4. ReadOnce(s) /\ OverOK(s) /\ ChargesOK(s) /\ KnownOK(s) /\ CoversOK(s)
  BY DEF CInv, ChargeOK, IInv, SessionOK
<1>5. mem[s].end = NoMeter /\ ~mem[s].billed /\ \A i \in invoices : i.session # s
  BY <1>1, <1>4, NothingCharged DEF Over
<1>6. \A d \in Slot : EndsAt(d, s)' <=> EndsAt(d, s)
  BY <1>1 DEF EndsAt
<1>7. OverOK(s)'
  BY <1>1, <1>3, <1>4, <1>5, <1>6 DEF OverOK, Over
<1>8. ChargesOK(s)'
  BY <1>1, <1>3, <1>4, <1>5 DEF ChargesOK, CoversOK
<1>9. ReadOnce(s)'
  BY <1>3, <1>4 DEF ReadOnce
<1>10. ASSUME NEW t \in Session, t # s PROVE ChargeOK(t)'
  <2>1. CUntouched(t)
    BY <1>1, <1>3, <1>10 DEF CUntouched, EndsAt
  <2> QED BY <2>1, CUntouchedOK DEF CInv
<1> QED BY <1>7, <1>8, <1>9, <1>10 DEF CInv, ChargeOK

(* The copy of one session changes.                                        *)
LEMMA OneCopyCharges ==
  ASSUME CInv, NEW c \in Slot, NEW s \in Session, UNCHANGED start,
         \A t \in Session : t # s => mem'[t] = mem[t] /\ dur'[t] = dur[t],
         \A d \in Slot : d # c => calls'[d] = calls[d],
         calls'[c].kind = "none" \/ calls'[c].session = s,
         \A i \in invoices' : i.session # s => i \in invoices,
         ChargeOK(s)'
  PROVE  CInv'
<1>1. ASSUME NEW t \in Session, t # s PROVE ChargeOK(t)'
  <2>1. CUntouched(t)
    BY <1>1, ElseUntouched
  <2> QED BY <2>1, CUntouchedOK DEF CInv
<1> QED BY <1>1 DEF CInv

(* ----------------------------- Oracle's half --------------------------- *)
LEMMA RecordCharges ==
  ASSUME IInv, CInv, NEW c \in Slot, RecordTick(c)
  PROVE  CInv'
<1>1. PICK s, k : s = calls[c].session /\ k = calls[c]
  OBVIOUS
<1>2. TypeOK
  BY DEF IInv
<1>3. /\ s \in Session /\ k \in Tick /\ k.kind = "tick" /\ k.at = "oracle"
      /\ calls[c].kind # "none" /\ Ticks(c, s)
  BY <1>1, <1>2, CallIs DEF RecordTick, Here, Ticks
<1>4. UNCHANGED <<start, mem, invoices>>
  BY DEF RecordTick, point
<1>5. CASE ~DurTickFits(dur[s], k)
  <2>1. UNCHANGED dur /\ Ends(c)
    BY <1>1, <1>5 DEF RecordTick
  <2> QED BY <1>4, <2>1, EndedCharges
<1>6. CASE DurTickFits(dur[s], k)
  <2>1. dur' = [dur EXCEPT ![s] = WithReading(@, k)] /\ Goes(c)
    BY <1>1, <1>6 DEF RecordTick
  <2>2. dur[s].state \in Live /\ dur[s] \in Copy /\ NumbersOK(s) /\ CoversOK(s) /\ ReadOnce(s) /\ OverOK(s) /\ ChargesOK(s)
    BY <1>2, <1>3, <1>6 DEF DurTickFits, TickFits, IInv, SessionOK, TypeOK, CInv, ChargeOK
  <2>3. k.seq \notin Seqs(dur[s])
    BY <1>1, <1>3, <2>2 DEF NumbersOK
  <2>4. PICK r, new : /\ r = [seq |-> k.seq, kwh |-> k.kwh] /\ new = WithReading(dur[s], k)
                      /\ r.seq = k.seq /\ new.billed = dur[s].billed /\ new.state \in Live
                      /\ new.readings = dur[s].readings \cup {r}
    BY <1>3, <2>2, <2>3, TickSteps
  <2>5. dur'[s] = new /\ \A t \in Session : t # s => dur'[t] = dur[t]
    BY <1>2, <1>3, <2>1, <2>4 DEF TypeOK
  <2>6. /\ calls'[c].kind = "tick" /\ calls'[c].session = s
        /\ \A d \in Slot : d # c => calls'[d] = calls[d]
    BY <1>1, <1>2, <1>3, <2>1, CallGone
  <2>7. \A d \in Slot : EndsAt(d, s)' => EndsAt(d, s)
    BY <2>6 DEF EndsAt
  <2>8. dur[s].state \notin Over /\ mem[s].state \notin Over
    BY <2>2 DEF OverOK, Over, Live
  <2>9. OverOK(s)'
    BY <1>4, <2>2, <2>7, <2>8, OverKept
  <2>10. ~dur'[s].billed
    BY <2>2, <2>4, <2>5 DEF CoversOK
  <2>11. ChargesOK(s)'
    BY <1>4, <2>2, <2>10, ChargesKept
  <2>12. ReadOnce(s)'
    <3>1. \A p \in dur[s].readings : p.seq # r.seq
      BY <2>3, <2>4 DEF Seqs
    <3>2. IsFiniteSet(dur[s].readings \cup {r})
      BY <2>2, FS_AddElement DEF ReadOnce
    <3> QED BY <2>2, <2>4, <2>5, <3>1, <3>2 DEF ReadOnce
  <2>13. ChargeOK(s)'
    BY <2>9, <2>11, <2>12 DEF ChargeOK
  <2> QED BY <1>3, <1>4, <2>5, <2>6, <2>13, OneCopyCharges
<1> QED BY <1>5, <1>6

(* A live session is stopped or moved on in Oracle: if that ends it, the   *)
(* call is the only one to tell memory so.                                 *)
LEMMA DurMovesCharges ==
  ASSUME IInv, CInv, NEW c \in Slot, NEW s \in Session,
         calls[c].kind \in {"stop", "move"}, calls[c].session = s, Goes(c),
         \A t \in Session : t # s => dur'[t] = dur[t],
         dur'[s].readings = dur[s].readings, dur'[s].billed = dur[s].billed,
         dur[s].state \in Live, EndsAt(c, s)' => dur'[s].state \in Over,
         UNCHANGED <<start, mem, invoices>>
  PROVE  CInv'
<1>1. TypeOK /\ CoversOK(s) /\ ReadOnce(s) /\ OverOK(s) /\ ChargesOK(s)
  BY DEF IInv, SessionOK, CInv, ChargeOK
<1>3. calls'[c].session = s /\ \A d \in Slot : d # c => calls'[d] = calls[d]
  BY <1>1, CallGone
<1>4. dur[s].state \notin Over /\ mem[s].state \notin Over /\ \A d \in Slot : ~EndsAt(d, s)
  BY <1>1 DEF OverOK, Over, Live
<1>5. \A d \in Slot : EndsAt(d, s)' => d = c
  BY <1>3, <1>4 DEF EndsAt
<1>6. OverOK(s)'
  BY <1>1, <1>4, <1>5 DEF OverOK
<1>7. ~dur'[s].billed
  BY <1>1 DEF CoversOK
<1>8. ChargesOK(s)'
  BY <1>1, <1>7, ChargesKept
<1>9. ReadOnce(s)'
  BY <1>1 DEF ReadOnce
<1>10. ChargeOK(s)'
  BY <1>6, <1>8, <1>9 DEF ChargeOK
<1> QED BY <1>3, <1>10, OneCopyCharges

LEMMA StopCharges ==
  ASSUME IInv, CInv, NEW c \in Slot, StopSession(c)
  PROVE  CInv'
<1>1. PICK s, kwh : s = calls[c].session /\ kwh = calls[c].kwh
  OBVIOUS
<1>2. TypeOK
  BY DEF IInv
<1>3. s \in Session /\ calls[c] \in Stop /\ calls[c].kind = "stop" /\ calls[c].kind # "none"
  BY <1>1, <1>2, CallIs DEF StopSession, Here
<1>4. UNCHANGED <<start, mem, invoices>>
  BY DEF StopSession, point
<1>5. CASE ~MayStop(s, kwh)
  <2>1. UNCHANGED dur /\ Ends(c)
    BY <1>1, <1>5 DEF StopSession
  <2> QED BY <1>4, <2>1, EndedCharges
<1>6. CASE MayStop(s, kwh)
  <2>1. PICK end : end = IF kwh # NoMeter THEN kwh
                         ELSE IF dur[s].readings = {} THEN start[s] ELSE Max(Kwhs(dur[s]))
    OBVIOUS
  <2>2. dur' = [dur EXCEPT ![s].end = end, ![s].state = StopTarget(dur[s])] /\ Goes(c)
    BY <1>1, <1>6, <2>1 DEF StopSession
  <2>3. dur[s].state \in Live /\ StopTarget(dur[s]) \in {"CANCELLED", "COMPLETED"}
    BY <1>6 DEF MayStop, Legal, StopTarget, Live
  <2>4. PICK new : new = [dur[s] EXCEPT !.end = end, !.state = StopTarget(dur[s])]
    OBVIOUS
  <2>5. dur[s] \in Copy
    BY <1>2, <1>3 DEF TypeOK
  <2>6. /\ new.readings = dur[s].readings /\ new.billed = dur[s].billed
        /\ new.state = StopTarget(dur[s])
    BY <2>4, <2>5 DEF Copy
  <2>7. dur'[s] = new /\ \A t \in Session : t # s => dur'[t] = dur[t]
    BY <1>2, <1>3, <2>2, <2>4 DEF TypeOK
  <2>8. dur'[s].state \in Over
    BY <2>3, <2>6, <2>7 DEF Over
  <2> QED BY <1>1, <1>3, <1>4, <2>2, <2>3, <2>6, <2>7, <2>8, DurMovesCharges
<1> QED BY <1>5, <1>6

LEMMA TransitionCharges ==
  ASSUME IInv, CInv, NEW c \in Slot, Transition(c)
  PROVE  CInv'
<1>1. PICK s, to : s = calls[c].session /\ to = calls[c].to
  OBVIOUS
<1>2. TypeOK
  BY DEF IInv
<1>3. s \in Session /\ calls[c] \in Move /\ calls[c].kind = "move" /\ calls[c].kind # "none"
  BY <1>1, <1>2, CallIs DEF Transition, Here
<1>4. UNCHANGED <<start, mem, invoices>>
  BY DEF Transition, point
<1>5. CASE ~Legal(dur[s].state, to)
  <2>1. UNCHANGED dur /\ Ends(c)
    BY <1>1, <1>5 DEF Transition
  <2> QED BY <1>4, <2>1, EndedCharges
<1>6. CASE Legal(dur[s].state, to)
  <2>1. dur' = [dur EXCEPT ![s].state = to] /\ Goes(c)
    BY <1>1, <1>6 DEF Transition
  <2>2. dur[s].state \in Live /\ dur[s] \in Copy
    BY <1>2, <1>3, <1>6 DEF Legal, Live, TypeOK
  <2>3. PICK new : new = [dur[s] EXCEPT !.state = to]
    OBVIOUS
  <2>4. new.readings = dur[s].readings /\ new.billed = dur[s].billed /\ new.state = to
    BY <2>2, <2>3 DEF Copy
  <2>5. dur'[s] = new /\ \A t \in Session : t # s => dur'[t] = dur[t]
    BY <1>2, <1>3, <2>1, <2>3 DEF TypeOK
  <2>6. calls'[c].to = to /\ calls'[c].kind = "move"
    BY <1>1, <1>2, <1>3, <2>1 DEF Goes, TypeOK, Move
  <2>7. EndsAt(c, s)' => dur'[s].state \in Over
    BY <2>4, <2>5, <2>6 DEF EndsAt
  <2> QED BY <1>1, <1>3, <1>4, <2>1, <2>2, <2>4, <2>5, <2>7, DurMovesCharges
<1> QED BY <1>5, <1>6

LEMMA BillCharges ==
  ASSUME IInv, CInv, NEW c \in Slot, BillSession(c)
  PROVE  CInv'
<1>1. PICK s : s = calls[c].session
  OBVIOUS
<1>2. TypeOK
  BY DEF IInv
<1>3. s \in Session /\ calls[c] \in Bill /\ calls[c].kind = "bill"
  BY <1>1, <1>2, CallIs DEF BillSession, Here
<1>4. UNCHANGED <<start, mem, invoices>>
  BY DEF BillSession, point
<1>5. CASE ~MayBill(dur[s])
  <2>1. UNCHANGED dur /\ Ends(c)
    BY <1>1, <1>5 DEF BillSession
  <2> QED BY <1>4, <2>1, EndedCharges
<1>6. CASE MayBill(dur[s])
  <2>1. PICK end : end = IF dur[s].end = NoMeter THEN start[s] ELSE dur[s].end
    OBVIOUS
  <2>2. PICK id \in 1..MaxId : /\ calls' = [calls EXCEPT ![c].at = "memory", ![c].id = id]
                              /\ dur' = [dur EXCEPT ![s].billed = TRUE, ![s].end = end]
    BY <1>1, <1>6, <2>1 DEF BillSession
  <2>3. dur[s] \in Copy /\ CoversOK(s) /\ ReadOnce(s) /\ OverOK(s) /\ ChargesOK(s)
    BY <1>2, <1>3 DEF TypeOK, IInv, SessionOK, CInv, ChargeOK
  <2>4. /\ dur'[s].readings = dur[s].readings /\ dur'[s].state = dur[s].state /\ dur'[s].end = end
        /\ \A t \in Session : t # s => dur'[t] = dur[t]
    BY <1>2, <1>3, <2>2, <2>3 DEF TypeOK, Copy
  <2>5. /\ calls'[c].kind = "bill" /\ calls'[c].session = s
        /\ \A d \in Slot : d # c => calls'[d] = calls[d]
    BY <1>1, <1>2, <1>3, <2>2 DEF TypeOK, Bill
  <2>6. \A d \in Slot : EndsAt(d, s)' => EndsAt(d, s)
    BY <2>5 DEF EndsAt
  <2>7. OverOK(s)'
    BY <1>4, <2>3, <2>4, <2>6, OverKept
  <2>8. dur[s].state = "COMPLETED" /\ ~dur[s].billed
    BY <1>6 DEF MayBill
  <2>9. dur'[s].end = start'[s] \/ Covered(dur[s])'
    <3>1. CASE dur[s].end = NoMeter
      BY <1>4, <2>1, <2>4, <3>1
    <3>2. CASE dur[s].end # NoMeter
      <4>1. \A kwh \in Kwhs(dur[s]) : kwh <= dur[s].end
        BY <2>3, <2>8, <3>2 DEF CoversOK
      <4>2. Kwhs(dur[s])' = Kwhs(dur[s]) /\ dur'[s].end = dur[s].end
        BY <2>1, <2>4, <3>2 DEF Kwhs
      <4> QED BY <4>1, <4>2 DEF Covered
    <3> QED BY <3>1, <3>2
  <2>10. ChargesOK(s)'
    <3>1. Covered(mem[s])' = Covered(mem[s])
      BY <1>4 DEF Covered, Kwhs
    <3>2. \A e : Priced(s, e)' <=> Priced(s, e)
      BY <1>4, <3>1 DEF Priced
    <3> QED BY <1>4, <2>3, <2>9, <3>1, <3>2 DEF ChargesOK
  <2>11. ReadOnce(s)'
    BY <2>3, <2>4 DEF ReadOnce
  <2>12. ChargeOK(s)'
    BY <2>7, <2>10, <2>11 DEF ChargeOK
  <2> QED BY <1>3, <1>4, <2>4, <2>5, <2>12, OneCopyCharges
<1> QED BY <1>5, <1>6

(* --------------------------- the half in memory ------------------------ *)
LEMMA RecordLocalCharges ==
  ASSUME IInv, CInv, NEW c \in Slot, RecordTickLocal(c)
  PROVE  CInv'
<1>1. PICK s, k : s = calls[c].session /\ k = calls[c]
  OBVIOUS
<1>2. TypeOK
  BY DEF IInv
<1>3. s \in Session /\ k \in Tick /\ k.kind = "tick"
  BY <1>1, <1>2, CallIs DEF RecordTickLocal, Here
<1>4. /\ Ends(c) /\ UNCHANGED <<start, dur, invoices>>
      /\ \/ mem' = mem
         \/ mem[s].state \in Live /\ mem' = [mem EXCEPT ![s] = WithReading(@, k)]
  BY <1>1 DEF RecordTickLocal, point
<1>5. CASE mem' = mem
  BY <1>4, <1>5, EndedCharges
<1>6. CASE mem[s].state \in Live /\ mem' = [mem EXCEPT ![s] = WithReading(@, k)]
  <2>1. mem[s] \in Copy /\ ReadOnce(s) /\ OverOK(s) /\ ChargesOK(s)
    BY <1>2, <1>3 DEF TypeOK, CInv, ChargeOK
  <2>2. PICK new : /\ new = WithReading(mem[s], k) /\ new.state \in Live
                   /\ new.end = mem[s].end /\ new.billed = mem[s].billed
    BY <1>3, <1>6, <2>1, TickSteps
  <2>3. mem'[s] = new /\ \A t \in Session : t # s => mem'[t] = mem[t]
    BY <1>2, <1>3, <1>6, <2>2 DEF TypeOK
  <2>4. calls'[c].kind = "none" /\ \A d \in Slot : d # c => calls'[d] = calls[d]
    BY <1>2, <1>4, CallEnded
  <2>5. \A d \in Slot : EndsAt(d, s)' => EndsAt(d, s)
    BY <2>4 DEF EndsAt
  <2>6. mem[s].state \notin Over /\ mem'[s].state \notin Over
    BY <1>6, <2>2, <2>3 DEF Over, Live
  <2>7. OverOK(s)'
    BY <1>4, <2>1, <2>2, <2>3, <2>5, <2>6, OverKept
  <2>8. ~mem[s].billed /\ \A i \in invoices : i.session # s
    BY <2>1, <2>6, NothingCharged
  <2>9. ChargesOK(s)'
    <3>1. dur[s].billed => (dur[s].end = start[s] \/ Covered(dur[s]))'
      BY <1>4, <2>1 DEF ChargesOK, Covered, Kwhs
    <3> QED BY <1>4, <2>2, <2>3, <2>6, <2>8, <3>1 DEF ChargesOK, Over
  <2>10. ChargeOK(s)'
    BY <1>4, <2>1, <2>7, <2>9 DEF ChargeOK, ReadOnce
  <2> QED BY <1>3, <1>4, <2>3, <2>4, <2>10, OneCopyCharges
<1> QED BY <1>4, <1>5, <1>6

(* The news that ends a session in memory, or a move that does not.        *)
LEMMA MemEndsCharges ==
  ASSUME IInv, CInv, NEW c \in Slot, NEW s \in Session, Ends(c), UNCHANGED <<start, dur, invoices>>,
         mem[s].state \notin Over, \A t \in Session : t # s => mem'[t] = mem[t],
         mem'[s].billed = mem[s].billed,
         mem'[s].state \in Over => EndsAt(c, s),
         mem'[s].state \notin Over => mem'[s].end = NoMeter,
         mem'[s].end # NoMeter => Covered(mem[s])'
  PROVE  CInv'
<1>1. ReadOnce(s) /\ OverOK(s) /\ ChargesOK(s)
  BY DEF CInv, ChargeOK
<1>2. calls'[c].kind = "none" /\ \A d \in Slot : d # c => calls'[d] = calls[d]
  BY CallEnded DEF IInv
<1>3. ~EndsAt(c, s)' /\ \A d \in Slot : EndsAt(d, s)' => EndsAt(d, s)
  BY <1>2 DEF EndsAt
<1>4. OverOK(s)'
  BY <1>1, <1>3 DEF OverOK
<1>5. ~mem[s].billed /\ \A i \in invoices : i.session # s
  BY <1>1, NothingCharged
<1>6. ChargesOK(s)'
  <2>1. dur[s].billed => (dur[s].end = start[s] \/ Covered(dur[s]))'
    BY <1>1 DEF ChargesOK, Covered, Kwhs
  <2> QED BY <1>5, <2>1 DEF ChargesOK
<1>7. ChargeOK(s)'
  BY <1>1, <1>4, <1>6 DEF ChargeOK, ReadOnce
<1> QED BY <1>2, <1>7, OneCopyCharges

LEMMA StopLocalCharges ==
  ASSUME IInv, CInv, NEW c \in Slot, StopSessionLocal(c)
  PROVE  CInv'
<1>1. PICK s, kwh, end : /\ s = calls[c].session /\ kwh = calls[c].kwh
                         /\ end = IF kwh # NoMeter THEN kwh ELSE Highest(Kwhs(mem[s]), 0)
  OBVIOUS
<1>2. TypeOK
  BY DEF IInv
<1>3. /\ s \in Session /\ calls[c] \in Stop /\ calls[c].kind = "stop" /\ calls[c].at = "memory"
      /\ EndsAt(c, s)
  BY <1>1, <1>2, CallIs DEF StopSessionLocal, Here, EndsAt
<1>4. /\ Ends(c) /\ UNCHANGED <<start, dur, invoices>>
      /\ mem' = IF end < start[s] THEN mem
                ELSE [mem EXCEPT ![s].end = end, ![s].state = IF @ \in Live THEN StopTarget(mem[s]) ELSE @]
  BY <1>1 DEF StopSessionLocal, point
<1>5. CASE end < start[s]
  BY <1>4, <1>5, EndedCharges
<1>6. CASE ~(end < start[s])
  <2>1. /\ mem[s] \in Copy /\ KnownOK(s) /\ RegistersOK(s) /\ OverOK(s)
    BY <1>2, <1>3 DEF IInv, SessionOK, TypeOK, CInv, ChargeOK
  <2>2. mem[s].state \notin Over /\ mem[s].state # "NONE"
    BY <1>3, <2>1 DEF OverOK, KnownOK, Asked
  <2>3. mem[s].state \in Live
    BY <2>1, <2>2 DEF Copy, States, Over
  <2>4. PICK new : new = [mem[s] EXCEPT !.end = end, !.state = StopTarget(mem[s])]
    OBVIOUS
  <2>5. /\ new.readings = mem[s].readings /\ new.billed = mem[s].billed
        /\ new.state = StopTarget(mem[s]) /\ new.end = end
    BY <2>1, <2>4 DEF Copy
  <2>6. mem'[s] = new /\ \A t \in Session : t # s => mem'[t] = mem[t]
    BY <1>2, <1>3, <1>4, <1>6, <2>3, <2>4 DEF TypeOK
  <2>7. new.state \in Over
    BY <2>5 DEF StopTarget, Over
  <2>8. \A k \in Kwhs(mem[s]) : k <= end
    <3>1. Kwhs(mem[s]) \subseteq 0..(MaxReg + 1) /\ 0 \in Int /\ MaxReg + 1 \in Int
      BY <2>1, CopyIs, Constants
    <3>2. CASE kwh # NoMeter
      <4>1. StopsAt(c, s)
        BY <1>1, <1>3, <3>2 DEF StopsAt
      <4>2. end = reg[s]
        BY <1>1, <2>1, <3>2, <4>1 DEF RegistersOK
      <4>3. Kwhs(mem[s]) \subseteq Kwhs(dur[s])
        BY <2>1 DEF KnownOK, Kwhs
      <4> QED BY <2>1, <4>2, <4>3 DEF RegistersOK
    <3>3. CASE kwh = NoMeter
      <4>1. end = Highest(Kwhs(mem[s]), 0)
        BY <1>1, <3>3
      <4> QED BY <3>1, <4>1, HighestIs
    <3> QED BY <3>2, <3>3
  <2>9. Covered(mem[s])'
    <3>1. Kwhs(mem[s])' = Kwhs(mem[s]) /\ mem'[s].end = end
      BY <2>5, <2>6 DEF Kwhs
    <3> QED BY <2>8, <3>1 DEF Covered
  <2> QED BY <1>3, <1>4, <2>2, <2>5, <2>6, <2>7, <2>9, MemEndsCharges
<1> QED BY <1>5, <1>6

LEMMA TransitionLocalCharges ==
  ASSUME IInv, CInv, NEW c \in Slot, TransitionLocal(c)
  PROVE  CInv'
<1>1. PICK s, to : s = calls[c].session /\ to = calls[c].to
  OBVIOUS
<1>2. TypeOK
  BY DEF IInv
<1>3. s \in Session /\ calls[c].kind = "move" /\ calls[c].at = "memory"
  BY <1>1, <1>2, CallIs DEF TransitionLocal, Here
<1>4. /\ Ends(c) /\ UNCHANGED <<start, dur, invoices>>
      /\ mem' = IF Legal(mem[s].state, to) THEN [mem EXCEPT ![s].state = to] ELSE mem
  BY <1>1 DEF TransitionLocal, point
<1>5. CASE ~Legal(mem[s].state, to)
  BY <1>4, <1>5, EndedCharges
<1>6. CASE Legal(mem[s].state, to)
  <2>1. mem[s] \in Copy /\ OverOK(s)
    BY <1>2, <1>3 DEF TypeOK, CInv, ChargeOK
  <2>2. mem[s].state \notin Over
    BY <1>6 DEF Legal, Over
  <2>3. mem[s].end = NoMeter
    BY <2>1, <2>2 DEF OverOK
  <2>4. /\ mem'[s].state = to /\ mem'[s].end = NoMeter /\ mem'[s].billed = mem[s].billed
        /\ \A t \in Session : t # s => mem'[t] = mem[t]
    BY <1>2, <1>3, <1>4, <1>6, <2>1, <2>3 DEF TypeOK, Copy
  <2>5. to \in Over => EndsAt(c, s)
    BY <1>1, <1>3 DEF EndsAt
  <2> QED BY <1>3, <1>4, <2>2, <2>4, <2>5, MemEndsCharges
<1> QED BY <1>5, <1>6

(* What a session is charged for an end meter.                             *)
LEMMA EnergyIs ==
  ASSUME NEW s \in Session, start[s] \in Nat, NEW end \in Int
  PROVE  Energy(s, end) = IF end > start[s] THEN end - start[s] ELSE 0
<1>1. PICK a, d : a = start[s] /\ d = end - a
  OBVIOUS
<1>2. d \in Int /\ 0 \in Int
  BY <1>1
<1>3. {d} \subseteq d..d
  BY <1>2
<1>4. /\ Highest({d}, 0) \in {0} \cup {d} /\ 0 <= Highest({d}, 0)
      /\ \A y \in {d} : y <= Highest({d}, 0)
  BY <1>2, <1>3, HighestIs
<1>5. PICK h : h = Highest({d}, 0)
  OBVIOUS
<1>6. (h = 0 \/ h = d) /\ 0 <= h /\ d <= h
  BY <1>4, <1>5
<1>7. Energy(s, end) = h
  BY <1>1, <1>5 DEF Energy
<1> QED BY <1>1, <1>2, <1>6, <1>7

LEMMA BillLocalCharges ==
  ASSUME IInv, CInv, NEW c \in Slot, BillSessionLocal(c)
  PROVE  CInv'
<1>1. PICK s, id : s = calls[c].session /\ id = calls[c].id
  OBVIOUS
<1>2. TypeOK
  BY DEF IInv
<1>3. s \in Session
  BY <1>1, <1>2, CallIs DEF BillSessionLocal, Here
<1>4. Ends(c) /\ UNCHANGED <<start, dur>>
  BY DEF BillSessionLocal, point
<1>5. CASE ~MayBill(mem[s])
  <2>1. UNCHANGED <<mem, invoices>>
    BY <1>1, <1>5 DEF BillSessionLocal
  <2> QED BY <1>4, <2>1, EndedCharges
<1>6. CASE MayBill(mem[s])
  <2>1. PICK row : /\ row = [id |-> id, session |-> s, energy |-> Energy(s, Highest({mem[s].end}, 0))]
                   /\ invoices' = {i \in invoices : i.id # id} \cup {row}
                   /\ mem' = [mem EXCEPT ![s].billed = TRUE]
    BY <1>1, <1>6 DEF BillSessionLocal, Renamed
  <2>2. mem[s] \in Copy /\ ReadOnce(s) /\ OverOK(s) /\ ChargesOK(s) /\ start[s] \in Registers
    BY <1>2, <1>3 DEF TypeOK, CInv, ChargeOK
  <2>3. /\ mem'[s].readings = mem[s].readings /\ mem'[s].state = mem[s].state /\ mem'[s].end = mem[s].end
        /\ mem'[s].billed /\ \A t \in Session : t # s => mem'[t] = mem[t]
    BY <1>2, <1>3, <2>1, <2>2 DEF TypeOK, Copy
  <2>4. calls'[c].kind = "none" /\ \A d \in Slot : d # c => calls'[d] = calls[d]
    BY <1>2, <1>4, CallEnded
  <2>5. \A d \in Slot : EndsAt(d, s)' => EndsAt(d, s)
    BY <2>4 DEF EndsAt
  <2>6. OverOK(s)'
    BY <1>4, <2>2, <2>3, <2>5, OverKept
  <2>7. mem[s].state = "COMPLETED" /\ ~mem[s].billed
    BY <1>6 DEF MayBill
  <2>8. \A i \in invoices' : i.session = s => i = row
    BY <2>1, <2>2, <2>7 DEF ChargesOK
  <2>9. Priced(s, row.energy)'
    <3>1. start[s] \in Nat /\ start'[s] = start[s]
      BY <1>4, <2>2, Constants DEF Registers
    <3>2. row.energy = Energy(s, Highest({mem[s].end}, 0))
      BY <2>1
    <3>3. PICK end, top : end = mem[s].end /\ top = Highest({end}, 0)
      OBVIOUS
    <3>4. end = NoMeter \/ end \in Nat
      BY <2>2, <3>3, Constants DEF Copy, Registers
    <3>5. end \in Int
      BY <3>4 DEF NoMeter
    <3>6. {end} \subseteq end..end /\ 0 \in Int
      BY <3>5
    <3>7. top \in {0} \cup {end} /\ 0 <= top /\ \A y \in {end} : y <= top
      BY <3>3, <3>5, <3>6, HighestIs
    <3>8. (top = 0 \/ top = end) /\ 0 <= top /\ end <= top /\ top \in Int
      BY <3>5, <3>7
    <3>9. row.energy = IF top > start[s] THEN top - start[s] ELSE 0
      BY <1>3, <3>1, <3>2, <3>3, <3>8, EnergyIs
    <3>10. CASE top > start[s]
      <4>1. top = end /\ end # NoMeter /\ end >= start[s] /\ row.energy = end - start[s]
        BY <3>1, <3>4, <3>8, <3>9, <3>10 DEF NoMeter
      <4>2. Covered(mem[s])
        BY <2>2, <2>7, <3>3, <4>1 DEF ChargesOK
      <4>3. Covered(mem[s])'
        BY <2>3, <4>2 DEF Covered, Kwhs
      <4> QED BY <2>3, <3>1, <3>3, <4>1, <4>3 DEF Priced
    <3>11. CASE ~(top > start[s])
      BY <3>9, <3>11 DEF Priced
    <3> QED BY <3>10, <3>11
  <2>10. ChargesOK(s)'
    <3>1. dur[s].billed => (dur[s].end = start[s] \/ Covered(dur[s]))'
      BY <1>4, <2>2 DEF ChargesOK, Covered, Kwhs
    <3> QED BY <1>4, <2>3, <2>7, <2>8, <2>9, <3>1 DEF ChargesOK
  <2>11. ChargeOK(s)'
    BY <1>4, <2>2, <2>6, <2>10 DEF ChargeOK, ReadOnce
  <2>12. \A i \in invoices' : i.session # s => i \in invoices
    BY <2>1
  <2> QED BY <1>3, <1>4, <2>3, <2>4, <2>11, <2>12, OneCopyCharges
<1> QED BY <1>5, <1>6

LEMMA RestartCharges ==
  ASSUME IInv, CInv, Restart
  PROVE  CInv'
<1> SUFFICES ASSUME NEW s \in Session PROVE ChargeOK(s)'
  BY DEF CInv
<1>1. mem' = dur /\ invoices' = durInvoices /\ calls' = [c \in Slot |-> NoCall] /\ UNCHANGED <<start, dur>>
  BY DEF Restart, point
<1>2. \A d \in Slot : ~EndsAt(d, s)'
  BY <1>1 DEF EndsAt, NoCall
<1>3. ReadOnce(s) /\ OverOK(s) /\ ChargesOK(s) /\ CoversOK(s) /\ BillsOK(s)
  BY DEF CInv, ChargeOK, IInv, SessionOK
<1>4. dur[s] \in Copy /\ start[s] \in Nat
  BY Constants DEF IInv, TypeOK, Registers
<1>5. OverOK(s)'
  <2>1. dur[s].state \notin Over => dur[s].end = NoMeter
    BY <1>3, <1>4 DEF CoversOK, Copy, States, Over
  <2> QED BY <1>1, <1>2, <2>1 DEF OverOK
<1>6. Covered(mem[s])' = Covered(dur[s]) /\ Covered(dur[s])' = Covered(dur[s])
  BY <1>1 DEF Covered, Kwhs
<1>7. ASSUME NEW i \in durInvoices, i.session = s PROVE dur[s].billed /\ Priced(s, i.energy)'
  <2>1. dur[s].billed /\ i.energy = Energy(s, dur[s].end)
    BY <1>3, <1>7 DEF BillsOK
  <2>2. PICK end : end = dur[s].end
    OBVIOUS
  <2>3. end \in Int
    BY <1>4, <2>2, Constants DEF Copy, Registers, NoMeter
  <2>4. i.energy = IF end > start[s] THEN end - start[s] ELSE 0
    BY <1>4, <2>1, <2>2, <2>3, EnergyIs
  <2>5. CASE end > start[s]
    <3>1. Covered(dur[s]) /\ end >= start[s] /\ i.energy = end - start[s]
      BY <1>3, <1>4, <2>1, <2>2, <2>3, <2>4, <2>5 DEF ChargesOK
    <3> QED BY <1>1, <1>6, <2>1, <2>2, <3>1 DEF Priced
  <2>6. CASE ~(end > start[s])
    BY <2>1, <2>4, <2>6 DEF Priced
  <2> QED BY <2>5, <2>6
<1>8. ChargesOK(s)'
  <2>1. dur[s].state = "COMPLETED" /\ dur[s].end # NoMeter /\ ~dur[s].billed => Covered(dur[s])
    BY <1>3 DEF CoversOK, Covered
  <2>2. dur[s].billed => dur[s].state = "COMPLETED"
    BY <1>3 DEF BillsOK
  <2> QED BY <1>1, <1>3, <1>6, <1>7, <2>1, <2>2 DEF ChargesOK
<1>9. ReadOnce(s)'
  BY <1>1, <1>3 DEF ReadOnce
<1> QED BY <1>5, <1>8, <1>9 DEF ChargeOK

LEMMA InitCharges ==
  ASSUME Init
  PROVE  CInv
<1> SUFFICES ASSUME NEW s \in Session PROVE ChargeOK(s)
  BY DEF CInv
<1>1. mem[s] = Fresh /\ dur[s] = Fresh /\ invoices = {} /\ \A c \in Slot : calls[c] = NoCall
  BY DEF Init
<1>2. IsFiniteSet({})
  BY FS_EmptySet
<1> QED BY <1>1, <1>2 DEF Fresh, NoCall, ChargeOK, ReadOnce, OverOK, ChargesOK, EndsAt, Over

LEMMA StepCharges ==
  ASSUME IInv, CInv, [Next]_vars
  PROVE  CInv'
<1>1. ASSUME NEW s \in Session, StartTransaction(s) PROVE CInv'
  BY <1>1, StartCharges
<1>2. ASSUME UNCHANGED <<start, mem, dur, invoices, calls>> PROVE CInv'
  <2> SUFFICES ASSUME NEW s \in Session PROVE ChargeOK(s)'
    BY DEF CInv
  <2>1. CUntouched(s)
    BY <1>2 DEF CUntouched, EndsAt
  <2> QED BY <2>1, CUntouchedOK DEF CInv
<1>3. ASSUME NEW s \in Session, Delivers(s) PROVE CInv'
  BY <1>2, <1>3 DEF Delivers
<1>4. ASSUME NEW c \in Slot, NEW s \in Session, MeterValues(c, s) PROVE CInv'
  <2>1. PICK x : x.at = "oracle" /\ Asks(c, x)
    <3>1. PICK kwh : Asks(c, [kind |-> "tick", session |-> s, seq |-> NextSeq(s), kwh |-> kwh, at |-> "oracle"])
      BY <1>4 DEF MeterValues
    <3> DEFINE y == [kind |-> "tick", session |-> s, seq |-> NextSeq(s), kwh |-> kwh, at |-> "oracle"]
    <3>2. y.at = "oracle" /\ Asks(c, y)
      BY <3>1
    <3> QED BY <3>2
  <2> QED BY <1>4, <2>1, AskedCharges DEF MeterValues, point
<1>5. ASSUME NEW c \in Slot, NEW s \in Session, StopTransaction(c, s) \/ RemoteStop(c, s) PROVE CInv'
  <2>1. PICK x : x.at = "oracle" /\ Asks(c, x)
    <3>1. PICK kwh : Asks(c, [kind |-> "stop", session |-> s, kwh |-> kwh, at |-> "oracle"])
      BY <1>5 DEF StopTransaction, RemoteStop
    <3> DEFINE y == [kind |-> "stop", session |-> s, kwh |-> kwh, at |-> "oracle"]
    <3>2. y.at = "oracle" /\ Asks(c, y)
      BY <3>1
    <3> QED BY <3>2
  <2> QED BY <1>5, <2>1, AskedCharges DEF StopTransaction, RemoteStop, point
<1>6. ASSUME NEW c \in Slot, NEW s \in Session, PatchState(c, s) PROVE CInv'
  <2>1. PICK x : x.at = "oracle" /\ Asks(c, x)
    <3>1. PICK to : Asks(c, [kind |-> "move", session |-> s, to |-> to, at |-> "oracle"])
      BY <1>6 DEF PatchState
    <3> DEFINE y == [kind |-> "move", session |-> s, to |-> to, at |-> "oracle"]
    <3>2. y.at = "oracle" /\ Asks(c, y)
      BY <3>1
    <3> QED BY <3>2
  <2> QED BY <1>6, <2>1, AskedCharges DEF PatchState, point
<1>7. ASSUME NEW c \in Slot, NEW s \in Session, AskBill(c, s) PROVE CInv'
  <2> DEFINE y == [kind |-> "bill", session |-> s, id |-> 0, at |-> "oracle"]
  <2>1. y.at = "oracle" /\ Asks(c, y)
    BY <1>7 DEF AskBill
  <2> QED BY <1>7, <2>1, AskedCharges DEF AskBill, point
<1>8. ASSUME NEW c \in Slot, RecordTick(c) \/ StopSession(c) \/ Transition(c) \/ BillSession(c) PROVE CInv'
  BY <1>8, RecordCharges, StopCharges, TransitionCharges, BillCharges
<1>9. ASSUME NEW c \in Slot, RecordTickLocal(c) \/ StopSessionLocal(c) \/ TransitionLocal(c) \/ BillSessionLocal(c)
      PROVE  CInv'
  BY <1>9, RecordLocalCharges, StopLocalCharges, TransitionLocalCharges, BillLocalCharges
<1>10. ASSUME NEW c \in Slot, OracleFails(c) PROVE CInv'
  BY <1>10, EndedCharges DEF OracleFails, point
<1>11. CASE UNCHANGED vars
  BY <1>2, <1>11 DEF vars, point
<1> QED
  BY <1>1, <1>3, <1>4, <1>5, <1>6, <1>7, <1>8, <1>9, <1>10, <1>11, RestartCharges
  DEF Next, Frames, Requests, InOracle, InMemory

(* ------------------------------ the receipt ---------------------------- *)
KwhsOf(R) == {r.kwh : r \in R}
Before(R, floor, r) == Highest({q.kwh : q \in {p \in R : p.seq < r.seq}}, floor)
Gain(R, floor, r) == Highest({r.kwh - Before(R, floor, r)}, 0)
Gains(R, floor) == [r \in R |-> Gain(R, floor, r)]
Initial(X, R) == \A r \in X, p \in R : p.seq < r.seq => p \in X

LEMMA HighestOnly ==
  ASSUME NEW S, NEW floor \in Int, NEW a \in Int, NEW b \in Int, S \subseteq a..b,
         NEW x \in {floor} \cup S, floor <= x, \A y \in S : y <= x
  PROVE  Highest(S, floor) = x
<1>1. PICK h : h = Highest(S, floor)
  OBVIOUS
<1>2. h \in {floor} \cup S /\ floor <= h /\ \A y \in S : y <= h
  BY <1>1, HighestIs
<1>3. h \in Int /\ x \in Int
  BY <1>2
<1>4. h <= x /\ x <= h
  BY <1>2
<1> QED BY <1>1, <1>3, <1>4

LEMMA RiseIs ==
  ASSUME NEW d \in Int
  PROVE  Highest({d}, 0) = IF d > 0 THEN d ELSE 0
<1>1. {d} \subseteq d..d
  OBVIOUS
<1>2. CASE d > 0
  <2>1. d \in {0} \cup {d} /\ 0 <= d /\ \A y \in {d} : y <= d
    BY <1>2
  <2> QED BY <1>1, <1>2, <2>1, HighestOnly
<1>3. CASE ~(d > 0)
  <2>1. 0 \in {0} \cup {d} /\ 0 <= 0 /\ \A y \in {d} : y <= 0
    BY <1>3
  <2> QED BY <1>1, <1>3, <2>1, HighestOnly
<1> QED BY <1>2, <1>3

LEMMA TopIs ==
  ASSUME NEW X \in SUBSET Reading, NEW floor \in Nat
  PROVE  /\ KwhsOf(X) \subseteq 0..(MaxReg + 1) /\ 0 \in Int /\ MaxReg + 1 \in Int
         /\ Highest(KwhsOf(X), floor) \in {floor} \cup KwhsOf(X)
         /\ Highest(KwhsOf(X), floor) \in Nat /\ floor <= Highest(KwhsOf(X), floor)
         /\ \A k \in KwhsOf(X) : k \in Nat /\ k <= Highest(KwhsOf(X), floor)
<1>1. KwhsOf(X) \subseteq 0..(MaxReg + 1) /\ 0 \in Int /\ MaxReg + 1 \in Int
  BY Constants DEF KwhsOf, Reading, Registers
<1>2. /\ Highest(KwhsOf(X), floor) \in {floor} \cup KwhsOf(X) /\ floor <= Highest(KwhsOf(X), floor)
      /\ \A k \in KwhsOf(X) : k <= Highest(KwhsOf(X), floor)
  BY <1>1, HighestIs
<1>3. \A k \in KwhsOf(X) : k \in Nat
  BY <1>1
<1> QED BY <1>1, <1>2, <1>3

LEMMA GainIs ==
  ASSUME NEW R \in SUBSET Reading, NEW floor \in Nat, NEW r \in R
  PROVE  /\ Before(R, floor, r) \in Nat /\ Gains(R, floor)[r] \in Nat
         /\ Gains(R, floor)[r] = IF r.kwh > Before(R, floor, r) THEN r.kwh - Before(R, floor, r) ELSE 0
<1>1. PICK Y : Y = {p \in R : p.seq < r.seq} /\ Y \in SUBSET Reading
  OBVIOUS
<1>2. PICK m, k : m = Before(R, floor, r) /\ k = r.kwh
  OBVIOUS
<1>3. m = Highest(KwhsOf(Y), floor)
  BY <1>1, <1>2 DEF Before, KwhsOf
<1>4. m \in Nat /\ k \in Nat
  BY <1>1, <1>2, <1>3, TopIs, Constants DEF Reading, Registers
<1>5. k - m \in Int
  BY <1>4
<1>6. Highest({k - m}, 0) = IF k - m > 0 THEN k - m ELSE 0
  BY <1>5, RiseIs
<1>7. Gains(R, floor)[r] = Highest({k - m}, 0)
  BY <1>2 DEF Gains, Gain
<1> QED BY <1>2, <1>4, <1>6, <1>7

(* What the readings add one after the other is what the highest of them   *)
(* adds to the start: of the sets that hold the readings up to a number,   *)
(* the smallest for which it does not could do without its last.           *)
LEMMA Telescope ==
  ASSUME NEW R \in SUBSET Reading, IsFiniteSet(R), \A p, q \in R : p.seq = q.seq => p = q, NEW floor \in Nat
  PROVE  Sum(Gains(R, floor), R) = Highest(KwhsOf(R), floor) - floor
<1>w. PICK w : w = Gains(R, floor)
  OBVIOUS
<1>t. PICK Bad : Bad = {X \in FiniteSubsetsOf(R) : Initial(X, R) /\ Sum(w, X) # Highest(KwhsOf(X), floor) - floor}
  OBVIOUS
<1> SUFFICES ASSUME R \in Bad PROVE FALSE
  BY <1>w, <1>t DEF FiniteSubsetsOf, Initial
<1>s. Bad \in SUBSET FiniteSubsetsOf(R) /\ Bad # {}
  BY <1>t
<1>1. PICK X \in Bad : \A Y \in Bad : Y \subseteq X => Y = X
  BY <1>s, SmallestSet
<1>2. /\ X \in SUBSET R /\ X \in SUBSET Reading /\ IsFiniteSet(X) /\ Initial(X, R)
      /\ Sum(w, X) # Highest(KwhsOf(X), floor) - floor
  BY <1>1, <1>t DEF FiniteSubsetsOf
<1>3. CASE X = {}
  <2>1. Sum(w, X) = 0
    BY <1>3, SumEmpty
  <2>2. KwhsOf(X) = {}
    BY <1>3 DEF KwhsOf
  <2>3. Highest(KwhsOf(X), floor) = floor
    BY <1>2, <2>2, TopIs
  <2> QED BY <1>2, <2>1, <2>3
<1>4. CASE X # {}
  <2>1. PICK r \in X : \A p \in X : p # r => p.seq < r.seq
    <3>1. PICK N : N = {p.seq : p \in X}
      OBVIOUS
    <3>2. N \subseteq 1..MaxSeq /\ N # {} /\ 1 \in Int /\ MaxSeq \in Int
      BY <1>2, <1>4, <3>1, Constants DEF Reading, Numbers
    <3>m. Max(N) \in N /\ \A m \in N : m <= Max(N)
      BY <3>2, MaxIs
    <3>3. PICK n \in N : \A m \in N : m <= n
      BY <3>m
    <3>4. PICK r \in X : r.seq = n
      BY <3>1, <3>3
    <3>5. ASSUME NEW p \in X, p # r PROVE p.seq < r.seq
      <4>1. p.seq # r.seq
        BY <1>2, <3>5
      <4>2. p.seq \in N /\ p.seq <= r.seq
        BY <3>1, <3>3, <3>4
      <4>3. p.seq \in Int /\ r.seq \in Int
        BY <1>2 DEF Reading, Numbers
      <4> QED BY <4>1, <4>2, <4>3
    <3> QED BY <3>5
  <2>2. PICK Y : Y = X \ {r}
    OBVIOUS
  <2>3. Y \in SUBSET R /\ Y \in SUBSET Reading /\ IsFiniteSet(Y) /\ Y \subseteq X /\ Y # X
    BY <1>2, <2>2, FS_RemoveElement
  <2>4. {p \in R : p.seq < r.seq} = Y
    <3>1. ASSUME NEW p \in R, p.seq < r.seq PROVE p \in Y
      <4>1. p \in X
        BY <1>2, <3>1 DEF Initial
      <4>2. r.seq \in Int
        BY <1>2 DEF Reading, Numbers
      <4> QED BY <2>2, <3>1, <4>1, <4>2
    <3>2. \A p \in Y : p \in R /\ p.seq < r.seq
      BY <1>2, <2>1, <2>2
    <3> QED BY <3>1, <3>2
  <2>5. Initial(Y, R)
    <3>1. ASSUME NEW q \in Y, NEW p \in R, p.seq < q.seq PROVE p \in Y
      <4>1. q.seq < r.seq /\ q \in R
        BY <2>3, <2>4, <3>1
      <4>2. p.seq \in Int /\ q.seq \in Int /\ r.seq \in Int
        BY <1>2, <3>1, <4>1 DEF Reading, Numbers
      <4>3. p.seq < r.seq
        BY <3>1, <4>1, <4>2
      <4> QED BY <2>4, <4>3
    <3> QED BY <3>1 DEF Initial
  <2>6. Sum(w, Y) = Highest(KwhsOf(Y), floor) - floor
    BY <1>1, <1>t, <2>3, <2>5 DEF FiniteSubsetsOf
  <2>7. PICK m, k, g : m = Highest(KwhsOf(Y), floor) /\ k = r.kwh /\ g = w[r]
    OBVIOUS
  <2>8. m \in Nat /\ k \in Nat /\ floor <= m
    BY <1>2, <2>3, <2>7, TopIs, Constants DEF Reading, Registers
  <2>9. g \in Nat /\ g = IF k > m THEN k - m ELSE 0
    <3>1. Before(R, floor, r) = m
      BY <2>4, <2>7 DEF Before, KwhsOf
    <3> QED BY <1>2, <1>w, <2>7, <3>1, GainIs
  <2>10. Sum(w, X) = g + Sum(w, Y)
    <3>1. AllNat(w, X)
      BY <1>2, <1>w, GainIs DEF AllNat
    <3> QED BY <1>2, <2>2, <2>7, <3>1, SumStep
  <2>11. Highest(KwhsOf(X), floor) = IF k > m THEN k ELSE m
    <3>1. KwhsOf(X) = KwhsOf(Y) \cup {k}
      BY <2>2, <2>7 DEF KwhsOf
    <3>2. /\ m \in {floor} \cup KwhsOf(Y) /\ \A y \in KwhsOf(Y) : y \in Nat /\ y <= m
          /\ KwhsOf(X) \subseteq 0..(MaxReg + 1) /\ 0 \in Int /\ MaxReg + 1 \in Int
      BY <1>2, <2>3, <2>7, TopIs
    <3>3. PICK x : x = IF k > m THEN k ELSE m
      OBVIOUS
    <3>4. x \in {floor} \cup KwhsOf(X)
      BY <3>1, <3>2, <3>3
    <3>5. floor <= x /\ \A y \in KwhsOf(X) : y <= x
      BY <2>8, <3>1, <3>2, <3>3
    <3> QED BY <3>2, <3>3, <3>4, <3>5, HighestOnly
  <2>12. PICK t, u : t = Sum(w, X) /\ u = Highest(KwhsOf(X), floor)
    OBVIOUS
  <2>13. t = g + (m - floor) /\ u = (IF k > m THEN k ELSE m) /\ t # u - floor
    BY <1>2, <2>6, <2>7, <2>10, <2>11, <2>12
  <2> QED BY <2>8, <2>9, <2>13
<1> QED BY <1>3, <1>4

(* The receipt of receiptForSession is that sum and what the stop adds.    *)
LEMMA ReceiptIs ==
  ASSUME NEW s, IsFiniteSet(mem[s].readings)
  PROVE  Receipt(s) = Sum(Gains(mem[s].readings, start[s]), mem[s].readings)
                        + Highest({mem[s].end - Highest(KwhsOf(mem[s].readings), start[s])}, 0)
<1>1. PICK R, floor, w : R = mem[s].readings /\ floor = start[s] /\ w = Gains(R, floor)
  OBVIOUS
<1> DEFINE Adds(g) == g = [t \in SUBSET R |-> IF t = {} THEN 0 ELSE Gain(R, floor, AnyOf(t)) + g[Rest(t)]]
<1>2. Receipt(s) = (CHOOSE g : Adds(g))[R] + Highest({mem[s].end - Highest(KwhsOf(R), floor)}, 0)
  BY <1>1 DEF Receipt, MapThenSumSet, MapThenFoldSet, Gain, Before, AnyOf, Rest, KwhsOf, Kwhs
<1>3. \A g : Adds(g) <=> IsSum(g, R, w)
  <2>1. \A t \in SUBSET R : t # {} => w[AnyOf(t)] = Gain(R, floor, AnyOf(t))
    BY <1>1, RestIs DEF Gains
  <2> QED BY <2>1 DEF IsSum
<1>4. PICK h : h = (CHOOSE g : Adds(g))
  OBVIOUS
<1>5. \E g : Adds(g)
  BY <1>1, <1>3, SumExists
<1>6. IsSum(h, R, w)
  BY <1>3, <1>4, <1>5
<1>7. Sum(w, R) = h[R]
  BY <1>1, <1>6, SumIs
<1> QED BY <1>1, <1>2, <1>4, <1>7

(* What the charges of a session in memory come to, when there are any.    *)
LEMMA ReceiptCharged ==
  ASSUME IInv, CInv, NEW s \in Session, NEW energy, Priced(s, energy)
  PROVE  energy \in {0, Receipt(s)}
<1>1. CASE energy = 0
  BY <1>1
<1>2. CASE Covered(mem[s]) /\ mem[s].end >= start[s] /\ energy = mem[s].end - start[s]
  <2>1. PICK R, floor, end : R = mem[s].readings /\ floor = start[s] /\ end = mem[s].end
    OBVIOUS
  <2>2. mem[s] \in Copy /\ ReadOnce(s) /\ KnownOK(s) /\ floor \in Nat
    BY <2>1, Constants DEF IInv, SessionOK, TypeOK, CInv, ChargeOK, Registers
  <2>3. R \in SUBSET Reading /\ R \subseteq dur[s].readings
    BY <2>1, <2>2 DEF Copy, KnownOK
  <2>4. IsFiniteSet(R) /\ \A p, q \in R : p.seq = q.seq => p = q
    BY <2>2, <2>3, FS_Subset DEF ReadOnce
  <2>5. PICK top : top = Highest(KwhsOf(R), floor)
    OBVIOUS
  <2>6. top \in Nat /\ top \in {floor} \cup KwhsOf(R)
    BY <2>2, <2>3, <2>5, TopIs
  <2>7. end \in Int /\ floor <= end
    BY <1>2, <2>1, <2>2, Constants DEF Copy, NoMeter, Registers
  <2>8. \A k \in KwhsOf(R) : k <= end
    BY <1>2, <2>1 DEF Covered, KwhsOf, Kwhs
  <2>9. top <= end
    BY <2>6, <2>7, <2>8
  <2>10. Receipt(s) = Sum(Gains(R, floor), R) + Highest({end - top}, 0)
    BY <2>1, <2>4, <2>5, ReceiptIs
  <2>11. Sum(Gains(R, floor), R) = top - floor
    BY <2>2, <2>3, <2>4, <2>5, Telescope
  <2>12. Highest({end - top}, 0) = end - top
    <3>1. end - top \in Int
      BY <2>6, <2>7
    <3>2. Highest({end - top}, 0) = IF end - top > 0 THEN end - top ELSE 0
      BY <3>1, RiseIs
    <3> QED BY <2>6, <2>7, <2>9, <3>2
  <2>13. Receipt(s) = (top - floor) + (end - top)
    BY <2>10, <2>11, <2>12
  <2>14. energy = end - floor
    BY <1>2, <2>1
  <2>15. energy = Receipt(s)
    BY <2>2, <2>6, <2>7, <2>13, <2>14
  <2> QED BY <2>15
<1> QED BY <1>1, <1>2 DEF Priced

(* An invoice in memory charges nothing or what the carbon receipt of its  *)
(* session attributes, reading by reading, and a stop covers what Oracle   *)
(* has read (stopSession, billSession, receiptForSession).                 *)
THEOREM InvoiceIsReceipt == Spec => []EndCovers
<1>1. Init => CInv
  BY InitCharges
<1>2. IInv /\ CInv /\ [Next]_vars => CInv'
  BY StepCharges
<1>3. IInv /\ CInv => EndCovers
  <2> SUFFICES ASSUME IInv, CInv PROVE EndCovers
    OBVIOUS
  <2>1. StopCovers
    BY DEF IInv, SessionOK, CoversOK, StopCovers
  <2>2. ASSUME NEW i \in invoices PROVE i.energy \in {0, Receipt(i.session)}
    <3>1. i.session \in Session
      BY <2>2 DEF IInv, TypeOK, InvoicesOK, Charged
    <3>2. Priced(i.session, i.energy)
      BY <2>2, <3>1 DEF CInv, ChargeOK, ChargesOK
    <3> QED BY <3>1, <3>2, ReceiptCharged
  <2> QED BY <2>1, <2>2 DEF EndCovers
<1> QED BY <1>1, <1>2, <1>3, MeteringInvariant, PTL DEF Spec
=============================================================================
