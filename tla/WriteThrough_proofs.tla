------------------------ MODULE WriteThrough_proofs -------------------------
(***************************************************************************)
(* Proofs about WriteThrough, for any numbers of calls, connectors, windows*)
(* and sessions: however halves in Oracle and in memory interleave, fail   *)
(* or are cut off by a restart, what memory calls a reservation or a       *)
(* session is the row Oracle has under that number.                        *)
(***************************************************************************)
EXTENDS WriteThrough, TLAPS

(* ------------------------------- the types ----------------------------- *)
ConnStatus == {"AVAILABLE", "RESERVED", "OCCUPIED"}
WindowRow == [conn : Conn, spot : Spot, status : {"BOOKED", "CONVERTED", "CANCELLED", "EXPIRED"}]
SessionRow == [conn : Conn, res : ResId \cup {None}, state : {"LIVE", "ENDED"}, call : Caller \cup {None}]
Copy == [cstat : [Conn -> ConnStatus], resv : [ResId -> WindowRow \cup {NoRow}],
         sess : [SessId -> SessionRow \cup {NoSession}]]
Call ==
  {NoCall}
  \cup [kind : {"reserve"}, at : {"oracle"}, conn : Conn, spot : Spot]
  \cup [kind : {"reserve"}, at : {"memory"}, conn : Conn, spot : Spot, res : ResId]
  \cup [kind : {"cancel"}, at : {"oracle", "memory"}, res : ResId]
  \cup [kind : {"sweep"}, at : {"oracle"}]
  \cup [kind : {"sweep"}, at : {"memory"}, overdue : SUBSET ResId]
  \cup [kind : {"end"}, at : {"oracle", "memory"}, sess : SessId]
  \cup [kind : {"start"}, at : {"oracle"}, conn : Conn, res : ResId \cup {None}, sess : SessId]
  \cup [kind : {"start"}, at : {"memory"}, conn : Conn, res : ResId \cup {None}, sess : SessId, id : SessId]

TypeOK ==
  /\ mem \in Copy /\ dur \in Copy
  /\ seqSess \in Nat /\ lastRes \in 0..MaxRes /\ lastSess \in 0..MaxSess
  /\ calls \in [Caller -> Call]

(* ------------------------- the inductive invariant --------------------- *)
(* Oracle's next identity is new, and its rows belong to no call.          *)
Numbered ==
  /\ \A r \in ResId : dur.resv[r] # NoRow => r <= lastRes
  /\ \A s \in SessId : dur.sess[s] # NoSession => s <= lastSess /\ dur.sess[s].call = None

(* What an answer on its way to memory speaks of is in Oracle.             *)
AnswersTrue == \A k \in Caller :
  /\ Here(k, "reserve", "memory") =>
       LET row == dur.resv[calls[k].res]
       IN row # NoRow /\ row.conn = calls[k].conn /\ row.spot = calls[k].spot
  /\ Here(k, "start", "memory") =>
       LET row == dur.sess[calls[k].id] IN row # NoSession /\ row.conn = calls[k].conn

(* A row of memory that is not answered yet is that of a start under way.  *)
Unanswered == \A s \in SessId, k \in Caller :
  mem.sess[s] # NoSession /\ mem.sess[s].call = k =>
    calls[k].kind = "start" /\ calls[k].sess = s /\ calls[k].conn = mem.sess[s].conn

(* A start that Oracle has not answered yet bears a number of the counter. *)
Counted == \A k \in Caller : calls[k].kind = "start" => calls[k].sess <= seqSess

Linked == /\ Numbered /\ AnswersTrue /\ Unanswered /\ BookingsMirrored /\ ShownOfOracle
          /\ Counted /\ KeptBeyond
IInv == TypeOK /\ Linked

(* ---------------------- what is done to one copy ----------------------- *)
(* The same windows and sessions, whatever has become of them.             *)
Alike(a, b) ==
  /\ \A r \in ResId : /\ a.resv[r] = NoRow <=> b.resv[r] = NoRow
                      /\ a.resv[r].conn = b.resv[r].conn /\ a.resv[r].spot = b.resv[r].spot
  /\ \A s \in SessId : /\ a.sess[s] = NoSession <=> b.sess[s] = NoSession
                       /\ a.sess[s].conn = b.sess[s].conn /\ a.sess[s].call = b.sess[s].call

LEMMA Constants == MaxRes \in Nat /\ MaxSess \in Nat /\ None \notin Caller /\ None \notin ResId
  BY WriteThroughAssumption DEF ResId

LEMMA Rows ==
  /\ \A x \in WindowRow : x # NoRow
  /\ \A x \in SessionRow : x # NoSession
  /\ NoRow.status = "NONE" /\ NoSession.state = "NONE"
<1>1. ASSUME NEW x \in WindowRow PROVE x # NoRow
  <2>1. x.status \in {"BOOKED", "CONVERTED", "CANCELLED", "EXPIRED"} /\ NoRow.status = "NONE"
    BY DEF WindowRow, NoRow
  <2> QED BY <2>1
<1>2. ASSUME NEW x \in SessionRow PROVE x # NoSession
  <2>1. x.state \in {"LIVE", "ENDED"} /\ NoSession.state = "NONE"
    BY DEF SessionRow, NoSession
  <2> QED BY <2>1
<1> QED BY <1>1, <1>2 DEF NoRow, NoSession

LEMMA ReservedIs ==
  ASSUME NEW copy \in Copy, NEW r \in ResId, NEW c \in Conn, NEW spot \in Spot
  PROVE  /\ Reserved(copy, r, c, spot) \in Copy
         /\ Reserved(copy, r, c, spot).resv = [copy.resv EXCEPT ![r] = Window(c, spot)]
         /\ Reserved(copy, r, c, spot).sess = copy.sess
<1>1. Window(c, spot) \in WindowRow
  BY DEF Window, WindowRow
<1> QED BY <1>1 DEF Reserved, Copy, ConnStatus

LEMMA RefusedIs ==
  ASSUME NEW copy \in Copy, NEW r \in ResId, NEW c \in Conn, NEW spot \in Spot
  PROVE  /\ RowOnRefusal(copy, r, c, spot) \in Copy
         /\ RowOnRefusal(copy, r, c, spot).resv = [copy.resv EXCEPT ![r] = Window(c, spot)]
         /\ RowOnRefusal(copy, r, c, spot).sess = copy.sess
<1>1. Window(c, spot) \in WindowRow
  BY DEF Window, WindowRow
<1> QED BY <1>1 DEF RowOnRefusal, Copy

LEMMA SyncedIs ==
  ASSUME NEW copy \in Copy
  PROVE  /\ Synced(copy) \in Copy
         /\ Synced(copy).resv = copy.resv /\ Synced(copy).sess = copy.sess
  BY DEF Synced, Copy, ConnStatus

LEMMA SettledIs ==
  ASSUME NEW copy \in Copy, NEW R \in SUBSET ResId, NEW how \in {"CANCELLED", "EXPIRED"},
         \A r \in R : copy.resv[r] # NoRow
  PROVE  Settled(copy, R, how) \in Copy /\ Alike(copy, Settled(copy, R, how))
<1> DEFINE rows == [r \in ResId |-> IF r \in R THEN [copy.resv[r] EXCEPT !.status = how] ELSE copy.resv[r]]
           new == [copy EXCEPT !.resv = rows]
<1>1. \A r \in R : /\ rows[r] \in WindowRow /\ rows[r] # NoRow
                   /\ rows[r].conn = copy.resv[r].conn /\ rows[r].spot = copy.resv[r].spot
  <2> SUFFICES ASSUME NEW r \in R
               PROVE  /\ rows[r] \in WindowRow /\ rows[r] # NoRow
                      /\ rows[r].conn = copy.resv[r].conn /\ rows[r].spot = copy.resv[r].spot
    OBVIOUS
  <2>1. copy.resv[r] \in WindowRow
    BY DEF Copy
  <2>2. rows[r] = [copy.resv[r] EXCEPT !.status = how]
    OBVIOUS
  <2>3. /\ rows[r] \in WindowRow
        /\ rows[r].conn = copy.resv[r].conn /\ rows[r].spot = copy.resv[r].spot
    BY <2>1, <2>2 DEF WindowRow
  <2> QED BY <2>3, Rows
<1>2. \A r \in ResId \ R : rows[r] = copy.resv[r]
  OBVIOUS
<1>3. rows \in [ResId -> WindowRow \cup {NoRow}]
  BY <1>1, <1>2 DEF Copy
<1>4. new \in Copy /\ new.resv = rows /\ new.sess = copy.sess
  BY <1>3 DEF Copy
<1>5. Settled(copy, R, how) = Synced(new)
  BY DEF Settled
<1>6. /\ Synced(new) \in Copy /\ Synced(new).resv = rows /\ Synced(new).sess = copy.sess
  BY <1>4, SyncedIs
<1>7. Alike(copy, Synced(new))
  BY <1>1, <1>2, <1>6 DEF Alike
<1> QED BY <1>5, <1>6, <1>7

LEMMA StartedIs ==
  ASSUME NEW copy \in Copy, NEW s \in SessId, NEW c \in Conn, NEW r \in ResId \cup {None},
         NEW k \in Caller \cup {None}, CanStart(copy, c, r)
  PROVE  /\ Started(copy, s, c, r, k) \in Copy
         /\ Started(copy, s, c, r, k).sess = [copy.sess EXCEPT ![s] = Session(c, r, k)]
         /\ \A q \in ResId : LET row == Started(copy, s, c, r, k).resv[q]
                             IN /\ row = NoRow <=> copy.resv[q] = NoRow
                                /\ row.conn = copy.resv[q].conn /\ row.spot = copy.resv[q].spot
<1> DEFINE rows == IF r = None THEN copy.resv ELSE [copy.resv EXCEPT ![r].status = "CONVERTED"]
           new == Started(copy, s, c, r, k)
<1>1. Session(c, r, k) \in SessionRow
  BY DEF Session, SessionRow
<1>2. /\ rows \in [ResId -> WindowRow \cup {NoRow}]
      /\ \A q \in ResId : /\ rows[q] = NoRow <=> copy.resv[q] = NoRow
                          /\ rows[q].conn = copy.resv[q].conn /\ rows[q].spot = copy.resv[q].spot
  <2>1. CASE r = None
    BY <2>1 DEF Copy
  <2>2. CASE r # None
    <3>1. r \in ResId /\ copy.resv[r].status = "BOOKED" /\ copy.resv \in [ResId -> WindowRow \cup {NoRow}]
      BY <2>2 DEF CanStart, Copy
    <3>2. copy.resv[r] \in WindowRow
      BY <3>1, Rows
    <3>3. rows = [copy.resv EXCEPT ![r] = [copy.resv[r] EXCEPT !.status = "CONVERTED"]]
      BY <2>2, <3>1
    <3>4. /\ rows[r] \in WindowRow /\ rows[r].conn = copy.resv[r].conn /\ rows[r].spot = copy.resv[r].spot
      BY <3>1, <3>2, <3>3 DEF WindowRow
    <3>5. \A q \in ResId \ {r} : rows[q] = copy.resv[q]
      BY <3>1, <3>3
    <3>6. rows \in [ResId -> WindowRow \cup {NoRow}]
      BY <3>1, <3>3, <3>4
    <3> QED BY <3>2, <3>4, <3>5, <3>6, Rows
  <2> QED BY <2>1, <2>2
<1>3. /\ new \in Copy /\ new.resv = rows /\ new.sess = [copy.sess EXCEPT ![s] = Session(c, r, k)]
  BY <1>1, <1>2 DEF Started, Copy, ConnStatus
<1> QED BY <1>2, <1>3

LEMMA EndedIs ==
  ASSUME NEW copy \in Copy, NEW s \in SessId, copy.sess[s].state = "LIVE"
  PROVE  Ended(copy, s) \in Copy /\ Alike(copy, Ended(copy, s))
<1>1. copy.sess[s] \in SessionRow /\ copy.sess[s].conn \in Conn
  <2>1. copy.sess[s] \in SessionRow
    BY Rows DEF Copy
  <2> QED BY <2>1 DEF SessionRow
<1> DEFINE row == [copy.sess[s] EXCEPT !.state = "ENDED"]
<1>2. row \in SessionRow /\ row.conn = copy.sess[s].conn /\ row.call = copy.sess[s].call
  BY <1>1 DEF SessionRow
<1>3. /\ Ended(copy, s) \in Copy /\ Ended(copy, s).resv = copy.resv
      /\ Ended(copy, s).sess = [copy.sess EXCEPT ![s] = row]
  BY <1>1, <1>2 DEF Ended, Copy, ConnStatus
<1>4. \A z \in SessId \ {s} : Ended(copy, s).sess[z] = copy.sess[z]
  BY <1>3 DEF Copy
<1>5. Ended(copy, s).sess[s] = row
  BY <1>3 DEF Copy
<1> QED BY <1>1, <1>2, <1>3, <1>4, <1>5, Rows DEF Alike

LEMMA UndoneIs ==
  ASSUME NEW copy \in Copy, NEW s \in SessId
  PROVE  /\ Undone(copy, s) \in Copy /\ Undone(copy, s).resv = copy.resv
         /\ Undone(copy, s).sess = [copy.sess EXCEPT ![s] = NoSession]
  BY DEF Undone, Copy

(* ------------------------------- the calls ----------------------------- *)
LEMMA CallIs ==
  ASSUME TypeOK, NEW k \in Caller
  PROVE  LET call == calls[k]
         IN /\ call \in Call
            /\ call.kind = "reserve" => call.conn \in Conn /\ call.spot \in Spot
            /\ Here(k, "reserve", "memory") => call.res \in ResId
            /\ call.kind = "cancel" => call.res \in ResId
            /\ Here(k, "sweep", "memory") => call.overdue \subseteq ResId
            /\ call.kind = "end" => call.sess \in SessId
            /\ call.kind = "start" => /\ call.conn \in Conn /\ call.res \in ResId \cup {None}
                                      /\ call.sess \in SessId
            /\ Here(k, "start", "memory") => call.id \in SessId
<1>1. PICK call \in Call : call = calls[k]
  BY DEF TypeOK
<1>2. /\ call.kind = "reserve" => call.conn \in Conn /\ call.spot \in Spot
      /\ call.kind = "reserve" /\ call.at = "memory" => call.res \in ResId
  BY DEF Call, NoCall
<1>3. /\ call.kind = "cancel" => call.res \in ResId
      /\ call.kind = "sweep" /\ call.at = "memory" => call.overdue \subseteq ResId
      /\ call.kind = "end" => call.sess \in SessId
  BY DEF Call, NoCall
<1>4. /\ call.kind = "start" => call.conn \in Conn /\ call.res \in ResId \cup {None} /\ call.sess \in SessId
      /\ call.kind = "start" /\ call.at = "memory" => call.id \in SessId
  BY DEF Call, NoCall
<1> QED BY <1>1, <1>2, <1>3, <1>4 DEF Here

(* A call whose answer no row depends on.                                  *)
Loose(call) == call.kind # "start" /\ ~(call.kind = "reserve" /\ call.at = "memory")

LEMMA LooseIs == Loose(NoCall) /\ NoCall.kind = "none"
  BY DEF Loose, NoCall

(* A step that settles windows or ends sessions, and of one loose call.    *)
LEMMA LooseStep ==
  ASSUME IInv, NEW k \in Caller, NEW call, calls' = [calls EXCEPT ![k] = call], Loose(calls[k]), Loose(call),
         Alike(mem, mem'), Alike(dur, dur'), lastRes' = lastRes, lastSess' = lastSess, seqSess' = seqSess
  PROVE  Linked'
<1>1. calls'[k] = call /\ \A j \in Caller \ {k} : calls'[j] = calls[j]
  BY DEF IInv, TypeOK
<1>2. \A r \in ResId : /\ mem'.resv[r] = NoRow <=> mem.resv[r] = NoRow
                       /\ mem'.resv[r].conn = mem.resv[r].conn /\ mem'.resv[r].spot = mem.resv[r].spot
                       /\ dur'.resv[r] = NoRow <=> dur.resv[r] = NoRow
                       /\ dur'.resv[r].conn = dur.resv[r].conn /\ dur'.resv[r].spot = dur.resv[r].spot
  BY DEF Alike
<1>3. \A s \in SessId : /\ mem'.sess[s] = NoSession <=> mem.sess[s] = NoSession
                        /\ mem'.sess[s].conn = mem.sess[s].conn /\ mem'.sess[s].call = mem.sess[s].call
                        /\ dur'.sess[s] = NoSession <=> dur.sess[s] = NoSession
                        /\ dur'.sess[s].conn = dur.sess[s].conn /\ dur'.sess[s].call = dur.sess[s].call
  BY DEF Alike
<1>4. \A r \in ResId : Coming(r)' <=> Coming(r)
  BY <1>1 DEF Coming, Here, Loose
<1>5. Numbered'
  BY <1>2, <1>3 DEF IInv, Linked, Numbered
<1>6. AnswersTrue'
  <2> SUFFICES ASSUME NEW j \in Caller
               PROVE  /\ Here(j, "reserve", "memory")' =>
                           LET row == dur'.resv[calls'[j].res]
                           IN row # NoRow /\ row.conn = calls'[j].conn /\ row.spot = calls'[j].spot
                      /\ Here(j, "start", "memory")' =>
                           LET row == dur'.sess[calls'[j].id] IN row # NoSession /\ row.conn = calls'[j].conn
    BY DEF AnswersTrue
  <2>1. CASE j = k
    BY <1>1, <2>1 DEF Here, Loose
  <2>2. CASE j # k
    <3>1. calls'[j] = calls[j]
      BY <1>1, <2>2
    <3>2. /\ Here(j, "reserve", "memory") => calls[j].res \in ResId
          /\ Here(j, "start", "memory") => calls[j].id \in SessId
      BY CallIs DEF IInv
    <3>3. /\ Here(j, "reserve", "memory") =>
               LET row == dur.resv[calls[j].res]
               IN row # NoRow /\ row.conn = calls[j].conn /\ row.spot = calls[j].spot
          /\ Here(j, "start", "memory") =>
               LET row == dur.sess[calls[j].id] IN row # NoSession /\ row.conn = calls[j].conn
      BY DEF IInv, Linked, AnswersTrue
    <3> QED BY <1>2, <1>3, <3>1, <3>2, <3>3 DEF Here
  <2> QED BY <2>1, <2>2
<1>7. Unanswered'
  BY <1>1, <1>3 DEF IInv, Linked, Unanswered, Loose
<1>8. BookingsMirrored'
  BY <1>2, <1>4 DEF IInv, Linked, BookingsMirrored
<1>9. ShownOfOracle'
  BY <1>3 DEF IInv, Linked, ShownOfOracle
<1>10. Counted'
  BY <1>1 DEF IInv, Linked, Counted, Loose
<1>11. \A s \in SessId : Arriving(s)' <=> Arriving(s)
  BY <1>1 DEF Arriving, Here, Loose
<1>12. KeptBeyond'
  BY <1>3, <1>11 DEF IInv, Linked, KeptBeyond
<1> QED BY <1>5, <1>6, <1>7, <1>8, <1>9, <1>10, <1>12 DEF Linked

LEMMA AlikeSelf == \A copy : Alike(copy, copy)
  BY DEF Alike

(* ------------------------------ the actions ---------------------------- *)
(* Requests other than a start.                                            *)
LEMMA AskKeeps ==
  ASSUME IInv, NEW k \in Caller, AskReserve(k) \/ AskCancel(k) \/ AskSweep(k) \/ AskEnd(k),
         UNCHANGED <<mem, dur, seqRes, seqSess, lastRes, lastSess, faults>>
  PROVE  IInv'
<1>1. PICK call \in Call : calls[k] = NoCall /\ calls' = [calls EXCEPT ![k] = call] /\ Loose(call)
  <2>1. CASE AskReserve(k)
    <3>1. PICK c \in Conn, spot \in Spot :
            Asks(k, [kind |-> "reserve", at |-> "oracle", conn |-> c, spot |-> spot])
      BY <2>1 DEF AskReserve
    <3>2. [kind |-> "reserve", at |-> "oracle", conn |-> c, spot |-> spot] \in Call
      BY DEF Call
    <3> QED BY <3>1, <3>2 DEF Asks, Loose
  <2>2. CASE AskCancel(k)
    <3>1. PICK r \in ResId : Asks(k, [kind |-> "cancel", at |-> "oracle", res |-> r])
      BY <2>2 DEF AskCancel
    <3>2. [kind |-> "cancel", at |-> "oracle", res |-> r] \in Call
      BY DEF Call
    <3> QED BY <3>1, <3>2 DEF Asks, Loose
  <2>3. CASE AskSweep(k)
    <3>1. [kind |-> "sweep", at |-> "oracle"] \in Call
      BY DEF Call
    <3> QED BY <2>3, <3>1 DEF AskSweep, Asks, Loose
  <2>4. CASE AskEnd(k)
    <3>1. PICK s \in SessId : Asks(k, [kind |-> "end", at |-> "oracle", sess |-> s])
      BY <2>4 DEF AskEnd
    <3>2. [kind |-> "end", at |-> "oracle", sess |-> s] \in Call
      BY DEF Call
    <3> QED BY <3>1, <3>2 DEF Asks, Loose
  <2> QED BY <2>1, <2>2, <2>3, <2>4
<1>2. Linked'
  BY <1>1, LooseStep, LooseIs, AlikeSelf
<1>3. TypeOK'
  BY <1>1 DEF IInv, TypeOK
<1> QED BY <1>2, <1>3 DEF IInv

(* A loose call ends, or moves on to memory.                               *)
LEMMA LooseKeeps ==
  ASSUME IInv, NEW k \in Caller, NEW call \in Call, calls' = [calls EXCEPT ![k] = call],
         Loose(calls[k]), Loose(call), mem' \in Copy, dur' \in Copy, Alike(mem, mem'), Alike(dur, dur'),
         lastRes' = lastRes, lastSess' = lastSess, seqSess' = seqSess
  PROVE  IInv'
<1>1. Linked'
  BY LooseStep
<1>2. TypeOK'
  BY DEF IInv, TypeOK
<1> QED BY <1>1, <1>2 DEF IInv

LEMMA CancelKeeps ==
  ASSUME IInv, NEW k \in Caller, DurCancel(k) \/ MemCancel(k)
  PROVE  IInv'
<1>1. /\ calls[k] \in Call /\ calls[k].kind = "cancel" /\ calls[k].res \in ResId /\ Loose(calls[k])
      /\ mem \in Copy /\ dur \in Copy
      /\ lastRes' = lastRes /\ lastSess' = lastSess /\ seqSess' = seqSess
  BY CallIs DEF IInv, TypeOK, DurCancel, MemCancel, Here, Loose
<1>2. PICK r \in ResId : r = calls[k].res
  BY <1>1
<1>3. NoCall \in Call
  BY DEF Call
<1>4. CASE DurCancel(k) /\ dur.resv[r].status = "BOOKED"
  <2>1. dur' = Settled(dur, {r}, "CANCELLED") /\ calls' = [calls EXCEPT ![k] = [calls[k] EXCEPT !.at = "memory"]]
        /\ mem' = mem /\ calls[k].at = "oracle"
    BY <1>2, <1>4 DEF DurCancel, Answered, Here
  <2>2. dur' \in Copy /\ Alike(dur, dur')
    BY <1>1, <1>4, <2>1, SettledIs, Rows
  <2>3. [calls[k] EXCEPT !.at = "memory"] \in Call /\ Loose([calls[k] EXCEPT !.at = "memory"])
    <3>1. calls[k] \in [kind : {"cancel"}, at : {"oracle", "memory"}, res : ResId]
      BY <1>1 DEF Call, NoCall
    <3>2. /\ [calls[k] EXCEPT !.at = "memory"] \in [kind : {"cancel"}, at : {"oracle", "memory"}, res : ResId]
          /\ [calls[k] EXCEPT !.at = "memory"].kind = "cancel"
      BY <3>1
    <3> QED BY <3>2 DEF Call, Loose
  <2> QED BY <1>1, <2>1, <2>2, <2>3, AlikeSelf, LooseKeeps
<1>5. CASE DurCancel(k) /\ dur.resv[r].status # "BOOKED"
  <2>1. dur' = dur /\ mem' = mem /\ calls' = [calls EXCEPT ![k] = NoCall]
    BY <1>2, <1>5 DEF DurCancel, Ends
  <2> QED BY <1>1, <1>3, <2>1, AlikeSelf, LooseIs, LooseKeeps
<1>6. CASE MemCancel(k)
  <2>1. /\ dur' = dur /\ calls' = [calls EXCEPT ![k] = NoCall]
        /\ mem' = IF mem.resv[r].status = "BOOKED" THEN Settled(mem, {r}, "CANCELLED")
                  ELSE IF mem.resv[r] = NoRow THEN mem
                  ELSE [mem EXCEPT !.resv[r].status = "CANCELLED"]
    BY <1>2, <1>6 DEF MemCancel, Ends
  <2>2. mem' \in Copy /\ Alike(mem, mem')
    <3>1. CASE mem.resv[r].status = "BOOKED"
      BY <1>1, <2>1, <3>1, SettledIs, Rows
    <3>2. CASE mem.resv[r] = NoRow
      BY <1>1, <2>1, <3>2, AlikeSelf, Rows
    <3>3. CASE mem.resv[r].status # "BOOKED" /\ mem.resv[r] # NoRow
      <4>1. mem.resv \in [ResId -> WindowRow \cup {NoRow}] /\ mem.resv[r] \in WindowRow
        BY <1>1, <3>3 DEF Copy
      <4> DEFINE row == [mem.resv[r] EXCEPT !.status = "CANCELLED"]
      <4>2. row \in WindowRow /\ row.conn = mem.resv[r].conn /\ row.spot = mem.resv[r].spot
        BY <4>1 DEF WindowRow
      <4>3. mem' = [mem EXCEPT !.resv = [mem.resv EXCEPT ![r] = row]]
        BY <1>1, <2>1, <3>3, <4>1 DEF Copy
      <4>4. /\ mem' \in Copy /\ mem'.sess = mem.sess /\ mem'.resv = [mem.resv EXCEPT ![r] = row]
        BY <1>1, <4>1, <4>2, <4>3 DEF Copy
      <4>5. mem'.resv[r] = row /\ \A q \in ResId \ {r} : mem'.resv[q] = mem.resv[q]
        BY <4>1, <4>4
      <4> QED BY <3>3, <4>2, <4>4, <4>5, Rows DEF Alike
    <3> QED BY <3>1, <3>2, <3>3
  <2> QED BY <1>1, <1>3, <2>1, <2>2, AlikeSelf, LooseIs, LooseKeeps
<1> QED BY <1>4, <1>5, <1>6

LEMMA SweepKeeps ==
  ASSUME IInv, NEW k \in Caller, DurSweep(k) \/ MemSweep(k)
  PROVE  IInv'
<1>1. /\ calls[k].kind = "sweep" /\ Loose(calls[k]) /\ mem \in Copy /\ dur \in Copy
      /\ lastRes' = lastRes /\ lastSess' = lastSess /\ seqSess' = seqSess
  BY DEF IInv, TypeOK, DurSweep, MemSweep, Here, Loose
<1>2. CASE DurSweep(k)
  <2>1. PICK R \in SUBSET {r \in ResId : dur.resv[r].status = "BOOKED" /\ ~Coming(r)} :
          /\ dur' = Settled(dur, R, "EXPIRED")
          /\ calls' = [calls EXCEPT ![k] = [kind |-> "sweep", at |-> "memory", overdue |-> R]]
          /\ mem' = mem
    BY <1>2 DEF DurSweep, Answered
  <2>2. R \in SUBSET ResId /\ \A r \in R : dur.resv[r] # NoRow
    BY Rows
  <2>3. dur' \in Copy /\ Alike(dur, dur')
    BY <1>1, <2>1, <2>2, SettledIs
  <2>4. [kind |-> "sweep", at |-> "memory", overdue |-> R] \in Call
    BY <2>2 DEF Call
  <2>5. Loose([kind |-> "sweep", at |-> "memory", overdue |-> R])
    BY DEF Loose
  <2> QED BY <1>1, <2>1, <2>3, <2>4, <2>5, AlikeSelf, LooseKeeps
<1>3. CASE MemSweep(k)
  <2>1. PICK R \in SUBSET {r \in ResId : mem.resv[r].status = "BOOKED"} :
          mem' = Settled(mem, R, "EXPIRED") /\ dur' = dur /\ calls' = [calls EXCEPT ![k] = NoCall]
    BY <1>3 DEF MemSweep, Ends
  <2>2. R \in SUBSET ResId /\ \A r \in R : mem.resv[r] # NoRow
    BY Rows
  <2>3. mem' \in Copy /\ Alike(mem, mem')
    BY <1>1, <2>1, <2>2, SettledIs
  <2>4. NoCall \in Call
    BY DEF Call
  <2> QED BY <1>1, <2>1, <2>3, <2>4, AlikeSelf, LooseIs, LooseKeeps
<1> QED BY <1>2, <1>3

LEMMA EndKeeps ==
  ASSUME IInv, NEW k \in Caller, DurEnd(k) \/ MemEnd(k)
  PROVE  IInv'
<1>1. /\ calls[k] \in Call /\ calls[k].kind = "end" /\ calls[k].sess \in SessId /\ Loose(calls[k])
      /\ mem \in Copy /\ dur \in Copy
      /\ lastRes' = lastRes /\ lastSess' = lastSess /\ seqSess' = seqSess
  BY CallIs DEF IInv, TypeOK, DurEnd, MemEnd, Here, Loose
<1>2. PICK s \in SessId : s = calls[k].sess
  BY <1>1
<1>3. NoCall \in Call
  BY DEF Call
<1>4. CASE DurEnd(k) /\ dur.sess[s].state = "LIVE"
  <2>1. dur' = Ended(dur, s) /\ mem' = mem /\ calls' = [calls EXCEPT ![k] = [calls[k] EXCEPT !.at = "memory"]]
    BY <1>2, <1>4 DEF DurEnd, Answered
  <2>2. dur' \in Copy /\ Alike(dur, dur')
    BY <1>1, <1>4, <2>1, EndedIs
  <2>3. [calls[k] EXCEPT !.at = "memory"] \in Call /\ Loose([calls[k] EXCEPT !.at = "memory"])
    <3>1. calls[k] \in [kind : {"end"}, at : {"oracle", "memory"}, sess : SessId]
      BY <1>1 DEF Call, NoCall
    <3>2. /\ [calls[k] EXCEPT !.at = "memory"] \in [kind : {"end"}, at : {"oracle", "memory"}, sess : SessId]
          /\ [calls[k] EXCEPT !.at = "memory"].kind = "end"
      BY <3>1
    <3> QED BY <3>2 DEF Call, Loose
  <2> QED BY <1>1, <2>1, <2>2, <2>3, AlikeSelf, LooseKeeps
<1>5. CASE DurEnd(k) /\ dur.sess[s].state # "LIVE"
  <2>1. dur' = dur /\ mem' = mem /\ calls' = [calls EXCEPT ![k] = NoCall]
    BY <1>2, <1>5 DEF DurEnd, Ends
  <2> QED BY <1>1, <1>3, <2>1, AlikeSelf, LooseIs, LooseKeeps
<1>6. CASE MemEnd(k)
  <2>1. /\ dur' = dur /\ calls' = [calls EXCEPT ![k] = NoCall]
        /\ mem' = IF mem.sess[s].state = "LIVE" THEN Ended(mem, s) ELSE mem
    BY <1>2, <1>6 DEF MemEnd, Ends
  <2>2. mem' \in Copy /\ Alike(mem, mem')
    BY <1>1, <2>1, EndedIs, AlikeSelf
  <2> QED BY <1>1, <1>3, <2>1, <2>2, AlikeSelf, LooseIs, LooseKeeps
<1> QED BY <1>4, <1>5, <1>6

(* ----------------------------- reservations ---------------------------- *)
(* A step of a call that is no start leaves the sessions and starts there. *)
LEMMA StartsApart ==
  ASSUME IInv, NEW k \in Caller, calls[k].kind # "start", calls'[k].kind # "start",
         \A j \in Caller \ {k} : calls'[j] = calls[j],
         mem'.sess = mem.sess, dur'.sess = dur.sess, seqSess' = seqSess
  PROVE  Counted' /\ KeptBeyond'
<1>1. Counted'
  BY DEF IInv, Linked, Counted
<1>2. \A s \in SessId : Arriving(s)' <=> Arriving(s)
  BY DEF Arriving, Here
<1> QED BY <1>1, <1>2 DEF IInv, Linked, KeptBeyond

LEMMA DurReserveKeeps ==
  ASSUME IInv, NEW k \in Caller, DurReserve(k)
  PROVE  IInv'
<1>1. /\ calls[k] \in Call /\ calls[k].kind = "reserve" /\ calls[k].at = "oracle" /\ Loose(calls[k])
      /\ calls[k].conn \in Conn /\ calls[k].spot \in Spot /\ mem \in Copy /\ dur \in Copy
  BY CallIs DEF IInv, TypeOK, DurReserve, Here, Loose
<1>2. PICK c \in Conn, spot \in Spot : c = calls[k].conn /\ spot = calls[k].spot
  BY <1>1
<1>3. mem' = mem /\ lastSess' = lastSess /\ seqSess' = seqSess
  BY DEF DurReserve
<1>4. CASE CanReserve(dur, c, spot)
  <2>1. PICK r \in lastRes + 1 .. MaxRes :
          /\ dur' = Reserved(dur, r, c, spot) /\ lastRes' = r
          /\ calls' = [calls EXCEPT ![k] =
               [kind |-> "reserve", at |-> "memory", conn |-> c, spot |-> spot, res |-> r]]
    BY <1>2, <1>4 DEF DurReserve, Answered
  <2>2. r \in ResId /\ lastRes < r /\ r \in 0..MaxRes /\ \A q \in ResId : q <= lastRes => q # r /\ q <= r
    BY Constants DEF ResId, IInv, TypeOK
  <2>3. dur' \in Copy /\ dur'.resv = [dur.resv EXCEPT ![r] = Window(c, spot)] /\ dur'.sess = dur.sess
    BY <1>1, <2>1, <2>2, ReservedIs
  <2>4. PICK call : call = [kind |-> "reserve", at |-> "memory", conn |-> c, spot |-> spot, res |-> r]
    OBVIOUS
  <2>5. /\ call \in Call /\ call.kind = "reserve" /\ call.at = "memory"
        /\ call.conn = c /\ call.spot = spot /\ call.res = r
    BY <2>2, <2>4 DEF Call
  <2>6. calls'[k] = call /\ \A j \in Caller \ {k} : calls'[j] = calls[j]
    BY <2>1, <2>4 DEF IInv, TypeOK
  <2>7. TypeOK'
    BY <1>1, <1>3, <2>1, <2>2, <2>3, <2>4, <2>5 DEF IInv, TypeOK
  <2>8. /\ dur'.resv[r] # NoRow /\ dur'.resv[r].conn = c /\ dur'.resv[r].spot = spot
        /\ \A q \in ResId \ {r} : dur'.resv[q] = dur.resv[q]
    BY <1>1, <2>2, <2>3 DEF Copy, Window, NoRow
  <2>9. Numbered'
    <3>1. \A q \in ResId : dur'.resv[q] # NoRow => q <= lastRes'
      <4> SUFFICES ASSUME NEW q \in ResId, dur'.resv[q] # NoRow PROVE q <= r
        BY <2>1
      <4>1. CASE q = r
        BY <2>2, <4>1
      <4>2. CASE q # r
        <5>1. dur.resv[q] # NoRow
          BY <2>8, <4>2
        <5>2. q <= lastRes
          BY <5>1 DEF IInv, Linked, Numbered
        <5> QED BY <2>2, <5>2
      <4> QED BY <4>1, <4>2
    <3>2. \A s \in SessId : dur.sess[s] # NoSession => s <= lastSess /\ dur.sess[s].call = None
      BY DEF IInv, Linked, Numbered
    <3> QED BY <1>3, <2>3, <3>1, <3>2 DEF Numbered
  <2>10. dur.resv[r] = NoRow
    BY <2>2 DEF IInv, Linked, Numbered, TypeOK, ResId
  <2>11. AnswersTrue'
    <3> SUFFICES ASSUME NEW j \in Caller
                 PROVE  /\ Here(j, "reserve", "memory")' =>
                             LET row == dur'.resv[calls'[j].res]
                             IN row # NoRow /\ row.conn = calls'[j].conn /\ row.spot = calls'[j].spot
                        /\ Here(j, "start", "memory")' =>
                             LET row == dur'.sess[calls'[j].id] IN row # NoSession /\ row.conn = calls'[j].conn
      BY DEF AnswersTrue
    <3>1. CASE j = k
      BY <2>5, <2>6, <2>8, <3>1 DEF Here
    <3>2. CASE j # k
      <4>1. calls'[j] = calls[j]
        BY <2>6, <3>2
      <4>2. /\ Here(j, "reserve", "memory") =>
               calls[j].res \in ResId /\
               LET row == dur.resv[calls[j].res]
               IN row # NoRow /\ row.conn = calls[j].conn /\ row.spot = calls[j].spot
            /\ Here(j, "start", "memory") =>
               LET row == dur.sess[calls[j].id] IN row # NoSession /\ row.conn = calls[j].conn
        BY CallIs DEF IInv, Linked, AnswersTrue
      <4> QED BY <2>3, <2>8, <2>10, <4>1, <4>2 DEF Here
    <3> QED BY <3>1, <3>2
  <2>12. Unanswered'
    BY <1>1, <1>3, <2>5, <2>6 DEF IInv, Linked, Unanswered
  <2>13. \A q \in ResId \ {r} : Coming(q) => Coming(q)'
    BY <1>1, <2>6 DEF Coming, Here
  <2>14. Coming(r)'
    BY <2>5, <2>6 DEF Coming, Here
  <2>15. BookingsMirrored'
    BY <1>3, <2>8, <2>10, <2>13, <2>14 DEF IInv, Linked, BookingsMirrored
  <2>16. ShownOfOracle'
    BY <1>3, <2>3 DEF IInv, Linked, ShownOfOracle
  <2>17. Counted' /\ KeptBeyond'
    BY <1>1, <1>3, <2>3, <2>5, <2>6, StartsApart DEF IInv
  <2> QED BY <2>7, <2>9, <2>11, <2>12, <2>15, <2>16, <2>17 DEF IInv, Linked
<1>5. CASE ~CanReserve(dur, c, spot)
  <2>1. dur' = dur /\ lastRes' = lastRes /\ calls' = [calls EXCEPT ![k] = NoCall]
    BY <1>2, <1>5 DEF DurReserve, Ends
  <2>2. NoCall \in Call
    BY DEF Call
  <2> QED BY <1>1, <1>3, <2>1, <2>2, AlikeSelf, LooseIs, LooseKeeps
<1> QED BY <1>4, <1>5

(* The row takes Oracle's number, whether or not memory would have granted *)
(* the window.                                                             *)
LEMMA MemReserveKeeps ==
  ASSUME IInv, NEW k \in Caller, MemReserve(k)
  PROVE  IInv'
<1>1. /\ calls[k] \in Call /\ calls[k].kind = "reserve" /\ calls[k].at = "memory" /\ calls[k].res \in ResId
      /\ calls[k].conn \in Conn /\ calls[k].spot \in Spot /\ mem \in Copy /\ dur \in Copy
  BY CallIs DEF IInv, TypeOK, MemReserve, Here
<1>2. PICK c \in Conn, spot \in Spot, r \in ResId :
        c = calls[k].conn /\ spot = calls[k].spot /\ r = calls[k].res
  BY <1>1
<1>3. dur' = dur /\ lastRes' = lastRes /\ lastSess' = lastSess /\ seqSess' = seqSess
  BY DEF MemReserve
<1>4. mem' = Reserved(mem, r, c, spot) \/ mem' = RowOnRefusal(mem, r, c, spot)
  BY <1>2 DEF MemReserve, Remap
<1>5. mem' \in Copy /\ mem'.resv = [mem.resv EXCEPT ![r] = Window(c, spot)] /\ mem'.sess = mem.sess
  BY <1>1, <1>4, ReservedIs, RefusedIs
<1>6. /\ mem'.resv[r] # NoRow /\ mem'.resv[r].conn = c /\ mem'.resv[r].spot = spot
      /\ \A q \in ResId \ {r} : mem'.resv[q] = mem.resv[q]
  BY <1>1, <1>5 DEF Copy, Window, NoRow
<1>7. calls' = [calls EXCEPT ![k] = NoCall] /\ NoCall \in Call /\ NoCall.kind = "none"
  BY DEF MemReserve, Ends, Call, NoCall
<1>8. calls'[k].kind = "none" /\ \A j \in Caller \ {k} : calls'[j] = calls[j]
  BY <1>7 DEF IInv, TypeOK
<1>9. TypeOK'
  BY <1>3, <1>5, <1>7 DEF IInv, TypeOK
<1>10. dur.resv[r] # NoRow /\ dur.resv[r].conn = c /\ dur.resv[r].spot = spot
  BY <1>1, <1>2 DEF IInv, Linked, AnswersTrue, Here
<1>11. Numbered' /\ AnswersTrue'
  BY <1>3, <1>8 DEF IInv, Linked, Numbered, AnswersTrue, Here
<1>12. Unanswered'
  BY <1>1, <1>5, <1>8 DEF IInv, Linked, Unanswered
<1>13. \A q \in ResId \ {r} : Coming(q) => Coming(q)'
  BY <1>2, <1>8 DEF Coming, Here
<1>14. BookingsMirrored'
  BY <1>3, <1>6, <1>10, <1>13 DEF IInv, Linked, BookingsMirrored
<1>15. ShownOfOracle'
  BY <1>3, <1>5 DEF IInv, Linked, ShownOfOracle
<1>16. Counted' /\ KeptBeyond'
  BY <1>1, <1>3, <1>5, <1>8, StartsApart DEF IInv
<1> QED BY <1>9, <1>11, <1>12, <1>14, <1>15, <1>16 DEF IInv, Linked

(* ------------------------------- starts -------------------------------- *)
(* A step of a start, or of the end of one, leaves the windows there.      *)
LEMMA WindowsStay ==
  ASSUME IInv, NEW k \in Caller, calls' = [calls EXCEPT ![k] = calls'[k]],
         calls[k].kind # "reserve", calls'[k].kind # "reserve",
         \A r \in ResId : /\ mem'.resv[r] = NoRow <=> mem.resv[r] = NoRow
                          /\ mem'.resv[r].conn = mem.resv[r].conn /\ mem'.resv[r].spot = mem.resv[r].spot
                          /\ dur'.resv[r] = NoRow <=> dur.resv[r] = NoRow
                          /\ dur'.resv[r].conn = dur.resv[r].conn /\ dur'.resv[r].spot = dur.resv[r].spot
  PROVE  /\ BookingsMirrored'
         /\ \A j \in Caller : Here(j, "reserve", "memory")' =>
              /\ dur'.resv[calls'[j].res] # NoRow
              /\ dur'.resv[calls'[j].res].conn = calls'[j].conn
              /\ dur'.resv[calls'[j].res].spot = calls'[j].spot
<1>1. \A j \in Caller \ {k} : calls'[j] = calls[j]
  BY DEF IInv, TypeOK
<1>2. \A r \in ResId : Coming(r)' <=> Coming(r)
  BY <1>1 DEF Coming, Here
<1>3. BookingsMirrored'
  BY <1>2 DEF IInv, Linked, BookingsMirrored
<1>4. ASSUME NEW j \in Caller, Here(j, "reserve", "memory")'
      PROVE  /\ dur'.resv[calls'[j].res] # NoRow
             /\ dur'.resv[calls'[j].res].conn = calls'[j].conn
             /\ dur'.resv[calls'[j].res].spot = calls'[j].spot
  <2>1. calls'[j] = calls[j] /\ Here(j, "reserve", "memory")
    BY <1>1, <1>4 DEF Here
  <2>2. calls[j].res \in ResId
    BY <2>1, CallIs DEF IInv
  <2> QED BY <2>1, <2>2 DEF IInv, Linked, AnswersTrue
<1> QED BY <1>3, <1>4

LEMMA AskStartKeeps ==
  ASSUME IInv, NEW k \in Caller, AskStart(k)
  PROVE  IInv'
<1>1. PICK c \in Conn, r \in ResId \cup {None} :
        /\ seqSess < MaxSess /\ CanStart(mem, c, r) /\ seqSess' = seqSess + 1
        /\ mem' = Started(mem, seqSess + 1, c, r, k)
        /\ calls[k] = NoCall
        /\ calls' = [calls EXCEPT ![k] =
             [kind |-> "start", at |-> "oracle", conn |-> c, res |-> r, sess |-> seqSess + 1]]
        /\ UNCHANGED <<dur, lastRes, lastSess>>
  BY DEF AskStart, Asks
<1>2. PICK s \in SessId : s = seqSess + 1
  BY <1>1, Constants DEF IInv, TypeOK, SessId
<1>3. /\ mem' \in Copy /\ mem'.sess = [mem.sess EXCEPT ![s] = Session(c, r, k)]
      /\ \A q \in ResId : /\ mem'.resv[q] = NoRow <=> mem.resv[q] = NoRow
                          /\ mem'.resv[q].conn = mem.resv[q].conn /\ mem'.resv[q].spot = mem.resv[q].spot
  BY <1>1, <1>2, StartedIs DEF IInv, TypeOK
<1>4. PICK call : call = [kind |-> "start", at |-> "oracle", conn |-> c, res |-> r, sess |-> s]
  OBVIOUS
<1>5. call \in Call /\ call.kind = "start" /\ call.at = "oracle" /\ call.conn = c /\ call.sess = s
  BY <1>4 DEF Call
<1>6. calls' = [calls EXCEPT ![k] = call] /\ calls[k].kind = "none"
  BY <1>1, <1>2, <1>4 DEF NoCall
<1>7. calls'[k] = call /\ \A j \in Caller \ {k} : calls'[j] = calls[j]
  BY <1>6 DEF IInv, TypeOK
<1>8. TypeOK'
  BY <1>1, <1>2, <1>3, <1>5, <1>6 DEF IInv, TypeOK
<1>9. /\ mem'.sess[s].call = k /\ mem'.sess[s].conn = c
      /\ \A z \in SessId \ {s} : mem'.sess[z] = mem.sess[z]
  BY <1>3 DEF IInv, TypeOK, Copy, Session
<1>10. /\ BookingsMirrored'
       /\ \A j \in Caller : Here(j, "reserve", "memory")' =>
            /\ dur'.resv[calls'[j].res] # NoRow
            /\ dur'.resv[calls'[j].res].conn = calls'[j].conn
            /\ dur'.resv[calls'[j].res].spot = calls'[j].spot
  BY <1>1, <1>3, <1>5, <1>6, <1>7, WindowsStay
<1>11. Numbered' /\ AnswersTrue'
  BY <1>1, <1>5, <1>7, <1>10 DEF IInv, Linked, Numbered, AnswersTrue, Here
<1>12. Unanswered'
  <2> SUFFICES ASSUME NEW z \in SessId, NEW j \in Caller, mem'.sess[z] # NoSession, mem'.sess[z].call = j
               PROVE  calls'[j].kind = "start" /\ calls'[j].sess = z /\ calls'[j].conn = mem'.sess[z].conn
    BY DEF Unanswered
  <2>1. CASE z = s
    BY <1>5, <1>7, <1>9, <2>1
  <2>2. CASE z # s
    BY <1>6, <1>7, <1>9, <2>2 DEF IInv, Linked, Unanswered
  <2> QED BY <2>1, <2>2
<1>13. ShownOfOracle'
  BY <1>1, <1>9, Constants DEF IInv, Linked, ShownOfOracle
<1>14. seqSess \in Nat /\ seqSess' = s /\ s = seqSess + 1
  BY <1>1, <1>2 DEF IInv, TypeOK
<1>15. Counted'
  <2> SUFFICES ASSUME NEW j \in Caller, calls'[j].kind = "start" PROVE calls'[j].sess <= seqSess'
    BY DEF Counted
  <2>1. CASE j = k
    BY <1>5, <1>7, <1>14, <2>1
  <2>2. CASE j # k
    <3>1. calls[j].sess \in SessId /\ calls'[j] = calls[j]
      BY <1>7, <2>2, CallIs DEF IInv
    <3>2. calls[j].sess <= seqSess
      BY <3>1 DEF IInv, Linked, Counted
    <3> QED BY <1>14, <3>1, <3>2 DEF SessId
  <2> QED BY <2>1, <2>2
<1>16. \A z \in SessId : Arriving(z) => Arriving(z)'
  BY <1>6, <1>7 DEF Arriving, Here
<1>17. KeptBeyond'
  <2> SUFFICES ASSUME NEW z \in SessId, dur'.sess[z] # NoSession, z > seqSess', ~Arriving(z)'
               PROVE  mem'.sess[z] # NoSession
    BY DEF KeptBeyond
  <2>1. z # s /\ z > seqSess
    BY <1>14 DEF SessId
  <2> QED BY <1>1, <1>9, <1>16, <2>1 DEF IInv, Linked, KeptBeyond
<1> QED BY <1>8, <1>10, <1>11, <1>12, <1>13, <1>15, <1>17 DEF IInv, Linked

(* The undo of a start that Oracle has refused, or failed.                 *)
LEMMA UndoKeeps ==
  ASSUME IInv, NEW k \in Caller, calls[k].kind = "start", calls' = [calls EXCEPT ![k] = NoCall],
         calls[k].at = "oracle", mem' = Undone(mem, calls[k].sess), UNCHANGED <<dur, lastRes, lastSess, seqSess>>
  PROVE  IInv'
<1>1. PICK s \in SessId : s = calls[k].sess
  BY CallIs DEF IInv
<1>2. mem' \in Copy /\ mem'.resv = mem.resv /\ mem'.sess = [mem.sess EXCEPT ![s] = NoSession]
  BY <1>1, UndoneIs DEF IInv, TypeOK
<1>3. mem'.sess[s] = NoSession /\ \A z \in SessId \ {s} : mem'.sess[z] = mem.sess[z]
  BY <1>2 DEF IInv, TypeOK, Copy
<1>4. calls'[k].kind = "none" /\ calls' = [calls EXCEPT ![k] = calls'[k]] /\ NoCall \in Call
  BY DEF IInv, TypeOK, Call, NoCall
<1>5. \A j \in Caller \ {k} : calls'[j] = calls[j]
  BY DEF IInv, TypeOK
<1>6. TypeOK'
  BY <1>2, <1>4 DEF IInv, TypeOK
<1>7. /\ BookingsMirrored'
      /\ \A j \in Caller : Here(j, "reserve", "memory")' =>
           /\ dur'.resv[calls'[j].res] # NoRow
           /\ dur'.resv[calls'[j].res].conn = calls'[j].conn
           /\ dur'.resv[calls'[j].res].spot = calls'[j].spot
  BY <1>2, <1>4, WindowsStay
<1>8. Numbered' /\ AnswersTrue'
  BY <1>4, <1>5, <1>7 DEF IInv, Linked, Numbered, AnswersTrue, Here
<1>9. Unanswered'
  BY <1>1, <1>3, <1>5 DEF IInv, Linked, Unanswered
<1>10. ShownOfOracle'
  BY <1>3 DEF IInv, Linked, ShownOfOracle
<1>11. Counted'
  BY <1>4, <1>5 DEF IInv, Linked, Counted
<1>12. s <= seqSess
  BY <1>1 DEF IInv, Linked, Counted
<1>13. \A z \in SessId : Arriving(z) => Arriving(z)'
  BY <1>5 DEF Arriving, Here
<1>14. KeptBeyond'
  <2> SUFFICES ASSUME NEW z \in SessId, dur'.sess[z] # NoSession, z > seqSess', ~Arriving(z)'
               PROVE  mem'.sess[z] # NoSession
    BY DEF KeptBeyond
  <2>1. z # s
    BY <1>12 DEF SessId, IInv, TypeOK
  <2> QED BY <1>3, <1>13, <2>1 DEF IInv, Linked, KeptBeyond
<1> QED BY <1>6, <1>7, <1>8, <1>9, <1>10, <1>11, <1>14 DEF IInv, Linked

LEMMA DurStartKeeps ==
  ASSUME IInv, NEW k \in Caller, DurStart(k)
  PROVE  IInv'
<1>1. /\ calls[k].kind = "start" /\ calls[k].conn \in Conn /\ calls[k].res \in ResId \cup {None}
      /\ calls[k].sess \in SessId /\ mem \in Copy /\ dur \in Copy
  BY CallIs DEF IInv, TypeOK, DurStart, Here
<1>2. PICK c \in Conn, r \in ResId \cup {None}, own \in SessId :
        c = calls[k].conn /\ r = calls[k].res /\ own = calls[k].sess
  BY <1>1
<1>3. lastRes' = lastRes /\ seqSess' = seqSess
  BY DEF DurStart
<1>4. CASE ~CanStart(dur, c, r)
  <2>1. mem' = Undone(mem, own) /\ calls' = [calls EXCEPT ![k] = NoCall] /\ UNCHANGED <<dur, lastSess>>
    BY <1>2, <1>4 DEF DurStart, Ends
  <2>2. calls[k].at = "oracle"
    BY DEF DurStart, Here
  <2> QED BY <1>1, <1>2, <1>3, <2>1, <2>2, UndoKeeps
<1>5. CASE CanStart(dur, c, r)
  <2>1. PICK s \in lastSess + 1 .. MaxSess :
          /\ dur' = Started(dur, s, c, r, None) /\ lastSess' = s /\ mem' = mem
          /\ calls' = [calls EXCEPT ![k] = [kind |-> "start", at |-> "memory", conn |-> c, res |-> r,
                                            sess |-> own, id |-> s]]
    BY <1>2, <1>5 DEF DurStart, Answered
  <2>2. s \in SessId /\ s \in 0..MaxSess /\ \A z \in SessId : z <= lastSess => z # s /\ z <= s
    BY Constants DEF SessId, IInv, TypeOK
  <2>3. PICK call : call = [kind |-> "start", at |-> "memory", conn |-> c, res |-> r, sess |-> own, id |-> s]
    OBVIOUS
  <2>4. /\ call \in Call /\ call.kind = "start" /\ call.at = "memory"
        /\ call.conn = c /\ call.sess = own /\ call.id = s
    BY <2>2, <2>3 DEF Call
  <2>5. calls' = [calls EXCEPT ![k] = call]
    BY <2>1, <2>3
  <2>6. calls'[k] = call /\ \A j \in Caller \ {k} : calls'[j] = calls[j]
    BY <2>5 DEF IInv, TypeOK
  <2>7. /\ dur' \in Copy /\ dur'.sess = [dur.sess EXCEPT ![s] = Session(c, r, None)]
        /\ \A q \in ResId : /\ dur'.resv[q] = NoRow <=> dur.resv[q] = NoRow
                            /\ dur'.resv[q].conn = dur.resv[q].conn /\ dur'.resv[q].spot = dur.resv[q].spot
    <3>1. dur' = Started(dur, s, c, r, None) /\ None \in Caller \cup {None} /\ dur \in Copy /\ s \in SessId
      BY <1>1, <2>1, <2>2
    <3>2. /\ Started(dur, s, c, r, None) \in Copy
          /\ Started(dur, s, c, r, None).sess = [dur.sess EXCEPT ![s] = Session(c, r, None)]
          /\ \A q \in ResId : LET row == Started(dur, s, c, r, None).resv[q]
                              IN /\ row = NoRow <=> dur.resv[q] = NoRow
                                 /\ row.conn = dur.resv[q].conn /\ row.spot = dur.resv[q].spot
      BY <1>5, <3>1, StartedIs
    <3> QED BY <3>1, <3>2
  <2>8. /\ dur'.sess[s] # NoSession /\ dur'.sess[s].conn = c /\ dur'.sess[s].call = None
        /\ \A z \in SessId \ {s} : dur'.sess[z] = dur.sess[z]
    BY <1>1, <2>2, <2>7 DEF Copy, Session, NoSession
  <2>9. TypeOK'
    BY <1>1, <1>3, <2>1, <2>2, <2>4, <2>5, <2>7 DEF IInv, TypeOK
  <2>10. /\ BookingsMirrored'
         /\ \A j \in Caller : Here(j, "reserve", "memory")' =>
              /\ dur'.resv[calls'[j].res] # NoRow
              /\ dur'.resv[calls'[j].res].conn = calls'[j].conn
              /\ dur'.resv[calls'[j].res].spot = calls'[j].spot
    BY <1>1, <2>1, <2>4, <2>5, <2>6, <2>7, WindowsStay
  <2>11. dur.sess[s] = NoSession
    BY <2>2 DEF IInv, Linked, Numbered
  <2>12. Numbered'
    <3>1. \A q \in ResId : dur'.resv[q] # NoRow => q <= lastRes'
      BY <1>3, <2>7 DEF IInv, Linked, Numbered
    <3>2. \A z \in SessId : dur'.sess[z] # NoSession => z <= lastSess' /\ dur'.sess[z].call = None
      <4> SUFFICES ASSUME NEW z \in SessId, dur'.sess[z] # NoSession
                   PROVE  z <= s /\ dur'.sess[z].call = None
        BY <2>1
      <4>1. CASE z = s
        BY <2>2, <2>8, <4>1
      <4>2. CASE z # s
        <5>1. dur'.sess[z] = dur.sess[z]
          BY <2>8, <4>2
        <5>2. z <= lastSess /\ dur.sess[z].call = None
          BY <5>1 DEF IInv, Linked, Numbered
        <5> QED BY <2>2, <5>1, <5>2
      <4> QED BY <4>1, <4>2
    <3> QED BY <3>1, <3>2 DEF Numbered
  <2>13. \A j \in Caller : Here(j, "start", "memory")' =>
           dur'.sess[calls'[j].id] # NoSession /\ dur'.sess[calls'[j].id].conn = calls'[j].conn
    <3> SUFFICES ASSUME NEW j \in Caller, Here(j, "start", "memory")'
                 PROVE  dur'.sess[calls'[j].id] # NoSession /\ dur'.sess[calls'[j].id].conn = calls'[j].conn
      OBVIOUS
    <3>1. CASE j = k
      BY <2>4, <2>6, <2>8, <3>1
    <3>2. CASE j # k
      <4>1. calls'[j] = calls[j] /\ Here(j, "start", "memory")
        BY <2>6, <3>2 DEF Here
      <4>2. /\ calls[j].id \in SessId
            /\ dur.sess[calls[j].id] # NoSession /\ dur.sess[calls[j].id].conn = calls[j].conn
        BY <4>1, CallIs DEF IInv, Linked, AnswersTrue
      <4> QED BY <2>8, <2>11, <4>1, <4>2
    <3> QED BY <3>1, <3>2
  <2>14. AnswersTrue'
    BY <2>10, <2>13 DEF AnswersTrue
  <2>15. Unanswered'
    BY <1>2, <2>1, <2>4, <2>6 DEF IInv, Linked, Unanswered
  <2>16. ShownOfOracle'
    <3>1. \A z \in SessId : dur.sess[z] # NoSession => dur'.sess[z] = dur.sess[z]
      BY <2>8, <2>11
    <3> QED BY <2>1, <3>1 DEF IInv, Linked, ShownOfOracle
  <2>17. Counted'
    BY <1>1, <1>2, <1>3, <2>4, <2>6 DEF IInv, Linked, Counted
  <2>18. KeptBeyond'
    <3> SUFFICES ASSUME NEW z \in SessId, dur'.sess[z] # NoSession, z > seqSess', ~Arriving(z)'
                 PROVE  mem'.sess[z] # NoSession
      BY DEF KeptBeyond
    <3>1. z # s
      BY <2>4, <2>6 DEF Arriving, Here
    <3>2. ~Arriving(z)
      <4> SUFFICES ASSUME NEW j \in Caller, Here(j, "start", "memory"), calls[j].id = z PROVE FALSE
        BY DEF Arriving
      <4>1. j # k
        BY DEF DurStart, Here
      <4> QED BY <2>6, <4>1 DEF Arriving, Here
    <3> QED BY <1>3, <2>1, <2>8, <3>1, <3>2 DEF IInv, Linked, KeptBeyond
  <2> QED BY <2>9, <2>10, <2>12, <2>14, <2>15, <2>16, <2>17, <2>18 DEF IInv, Linked
<1> QED BY <1>4, <1>5

(* The session moves to Oracle's number, over whatever has taken its place.*)
LEMMA MemStartKeeps ==
  ASSUME IInv, NEW k \in Caller, MemStart(k)
  PROVE  IInv'
<1>1. /\ calls[k].kind = "start" /\ calls[k].conn \in Conn /\ calls[k].res \in ResId \cup {None}
      /\ calls[k].sess \in SessId /\ calls[k].id \in SessId /\ mem \in Copy /\ dur \in Copy
  BY CallIs DEF IInv, TypeOK, MemStart, Here
<1>2. PICK c \in Conn, r \in ResId \cup {None}, own \in SessId, id \in SessId :
        c = calls[k].conn /\ r = calls[k].res /\ own = calls[k].sess /\ id = calls[k].id
  BY <1>1
<1>3. dur' = dur /\ lastRes' = lastRes /\ lastSess' = lastSess /\ seqSess' = seqSess
  BY DEF MemStart
<1>4. calls' = [calls EXCEPT ![k] = NoCall] /\ NoCall \in Call /\ NoCall.kind = "none"
  BY DEF MemStart, Ends, Call, NoCall
<1>5. calls'[k].kind = "none" /\ \A j \in Caller \ {k} : calls'[j] = calls[j]
  BY <1>4 DEF IInv, TypeOK
<1>6. dur.sess[id] # NoSession /\ dur.sess[id].conn = c
  BY <1>2 DEF IInv, Linked, AnswersTrue, MemStart, Here
<1>7. \A z \in SessId : mem.sess[z] # NoSession /\ mem.sess[z].call = k => z = own /\ mem.sess[z].conn = c
  BY <1>2 DEF IInv, Linked, Unanswered
(* What the step has to do to the sessions of memory.                      *)
<1>8. /\ mem' \in Copy /\ mem'.resv = mem.resv
      /\ \A z \in SessId : \/ mem'.sess[z] = mem.sess[z] /\ ~(mem.sess[z] # NoSession /\ mem.sess[z].call = k)
                           \/ z = own /\ mem'.sess[z] = NoSession
                           \/ z = id /\ mem'.sess[z].call = None /\ mem'.sess[z].conn = c
      /\ own # id => mem'.sess[id] # NoSession
  <2>1. CASE own = id /\ Mine(own, k)
    <3>1. mem' = [mem EXCEPT !.sess[own].call = None]
      BY <1>2, <2>1 DEF MemStart, Rekeyed
    <3>2. /\ mem.sess \in [SessId -> SessionRow \cup {NoSession}] /\ mem.sess[own] \in SessionRow
          /\ mem.sess[own].conn = c
      BY <1>1, <1>7, <2>1 DEF Copy, Mine
    <3> DEFINE row == [mem.sess[own] EXCEPT !.call = None]
    <3>3. row \in SessionRow /\ row.call = None /\ row.conn = c
      BY <3>2 DEF SessionRow
    <3>4. mem' = [mem EXCEPT !.sess = [mem.sess EXCEPT ![own] = row]]
      BY <1>1, <3>1, <3>2 DEF Copy
    <3> HIDE DEF row
    <3>5. mem' \in Copy /\ mem'.resv = mem.resv /\ mem'.sess = [mem.sess EXCEPT ![own] = row]
      BY <1>1, <3>2, <3>3, <3>4 DEF Copy
    <3>6. mem'.sess[own] = row /\ \A z \in SessId \ {own} : mem'.sess[z] = mem.sess[z]
      BY <3>2, <3>5
    <3> QED BY <1>7, <2>1, <3>3, <3>5, <3>6
  <2>2. CASE own = id /\ ~Mine(own, k)
    <3>1. mem' = mem
      BY <1>2, <2>2 DEF MemStart, Rekeyed
    <3> QED BY <1>1, <1>7, <2>2, <3>1 DEF Mine
  <2>3. CASE own # id
    <3>1. PICK state \in IF Mine(own, k) THEN {mem.sess[own].state} ELSE {"LIVE", "ENDED"} :
            mem' = [mem EXCEPT !.sess[own] = NoSession,
                               !.sess[id] = [Session(c, r, None) EXCEPT !.state = state]]
      BY <1>2, <2>3 DEF MemStart, Rekeyed
    <3>2. state \in {"LIVE", "ENDED"}
      <4>1. CASE Mine(own, k)
        <5>1. mem.sess[own] \in SessionRow
          BY <1>1, <4>1 DEF Mine, Copy
        <5> QED BY <3>1, <4>1, <5>1 DEF SessionRow
      <4> QED BY <3>1, <4>1
    <3> DEFINE row == [Session(c, r, None) EXCEPT !.state = state]
    <3>3. row \in SessionRow /\ row.call = None /\ row.conn = c
      BY <3>2 DEF Session, SessionRow
    <3> HIDE DEF row
    <3>4. mem' = [mem EXCEPT !.sess = [[mem.sess EXCEPT ![own] = NoSession] EXCEPT ![id] = row]]
      BY <1>1, <3>1 DEF Copy, row
    <3>5. /\ mem' \in Copy /\ mem'.resv = mem.resv
          /\ mem'.sess = [[mem.sess EXCEPT ![own] = NoSession] EXCEPT ![id] = row]
          /\ mem.sess \in [SessId -> SessionRow \cup {NoSession}]
      BY <1>1, <3>3, <3>4 DEF Copy
    <3>6. /\ mem'.sess[id] = row /\ mem'.sess[own] = NoSession
          /\ \A z \in SessId \ {own, id} : mem'.sess[z] = mem.sess[z]
      BY <2>3, <3>5
    <3> QED BY <1>7, <2>3, <3>3, <3>5, <3>6, Rows
  <2> QED BY <2>1, <2>2, <2>3
<1>9. TypeOK'
  BY <1>3, <1>4, <1>8 DEF IInv, TypeOK
<1>10. /\ BookingsMirrored'
       /\ \A j \in Caller : Here(j, "reserve", "memory")' =>
            /\ dur'.resv[calls'[j].res] # NoRow
            /\ dur'.resv[calls'[j].res].conn = calls'[j].conn
            /\ dur'.resv[calls'[j].res].spot = calls'[j].spot
  BY <1>1, <1>3, <1>4, <1>5, <1>8, WindowsStay DEF IInv, TypeOK
<1>11. Numbered' /\ AnswersTrue'
  BY <1>3, <1>5, <1>10 DEF IInv, Linked, Numbered, AnswersTrue, Here
<1>12. Unanswered'
  <2> SUFFICES ASSUME NEW z \in SessId, NEW j \in Caller, mem'.sess[z] # NoSession, mem'.sess[z].call = j
               PROVE  calls'[j].kind = "start" /\ calls'[j].sess = z /\ calls'[j].conn = mem'.sess[z].conn
    BY DEF Unanswered
  <2>1. mem'.sess[z] = mem.sess[z] /\ ~(mem.sess[z] # NoSession /\ mem.sess[z].call = k)
    BY <1>8, Constants
  <2>2. j # k /\ calls[j].kind = "start" /\ calls[j].sess = z /\ calls[j].conn = mem.sess[z].conn
    BY <2>1 DEF IInv, Linked, Unanswered
  <2> QED BY <1>5, <2>1, <2>2
<1>13. ShownOfOracle'
  BY <1>3, <1>6, <1>8 DEF IInv, Linked, ShownOfOracle
<1>14. Counted' /\ own <= seqSess /\ seqSess \in Nat
  BY <1>1, <1>2, <1>3, <1>5 DEF IInv, TypeOK, Linked, Counted
<1>15. KeptBeyond'
  <2> SUFFICES ASSUME NEW z \in SessId, dur.sess[z] # NoSession, z > seqSess, ~Arriving(z)'
               PROVE  mem'.sess[z] # NoSession
    BY <1>3 DEF KeptBeyond
  <2>1. z # own
    BY <1>14 DEF SessId
  <2>2. CASE z = id
    BY <1>8, <2>1, <2>2
  <2>3. CASE z # id
    <3>1. ~Arriving(z)
      BY <1>2, <1>5, <2>3 DEF Arriving, Here
    <3>2. mem.sess[z] # NoSession
      BY <2>1, <3>1 DEF IInv, Linked, KeptBeyond
    <3> QED BY <1>8, <2>1, <2>3, <3>2
  <2> QED BY <2>2, <2>3
<1> QED BY <1>9, <1>10, <1>11, <1>12, <1>13, <1>14, <1>15 DEF IInv, Linked

(* ------------------------- failures and restarts ----------------------- *)
LEMMA FailKeeps ==
  ASSUME IInv, NEW k \in Caller, OracleFails(k)
  PROVE  IInv'
<1>1. calls[k].at = "oracle" /\ UNCHANGED <<dur, seqRes, seqSess, lastRes, lastSess>> /\ mem \in Copy /\ dur \in Copy
  BY DEF OracleFails, IInv, TypeOK
<1>2. CASE calls[k].kind = "start"
  <2>1. mem' = Undone(mem, calls[k].sess) /\ calls' = [calls EXCEPT ![k] = NoCall]
    BY <1>2 DEF OracleFails, Ends
  <2> QED BY <1>1, <1>2, <2>1, UndoKeeps
<1>3. CASE calls[k].kind # "start"
  <2>1. Loose(calls[k]) /\ mem' = mem
    BY <1>1, <1>3 DEF OracleFails, Loose
  <2>2. PICK call \in Call : calls' = [calls EXCEPT ![k] = call] /\ Loose(call)
    <3>1. CASE calls[k].kind = "sweep"
      <4>1. [kind |-> "sweep", at |-> "memory", overdue |-> {}] \in Call
        BY DEF Call
      <4> QED BY <3>1, <4>1 DEF OracleFails, Answered, Loose
    <3>2. CASE calls[k].kind # "sweep"
      <4>1. NoCall \in Call
        BY DEF Call
      <4> QED BY <3>2, <4>1, LooseIs DEF OracleFails, Ends
    <3> QED BY <3>1, <3>2
  <2> QED BY <1>1, <2>1, <2>2, AlikeSelf, LooseKeeps
<1> QED BY <1>2, <1>3

LEMMA RestartKeeps ==
  ASSUME IInv, Restart
  PROVE  IInv'
<1>1. /\ mem' = dur /\ dur' = dur /\ lastRes' = lastRes /\ lastSess' = lastSess
      /\ \A k \in Caller : calls'[k] = NoCall
      /\ calls' = [k \in Caller |-> NoCall]
  BY DEF Restart
<1>2. NoCall \in Call /\ NoCall.kind = "none"
  BY DEF Call, NoCall
<1>3. seqSess' \in Nat
  BY DEF Restart, Highest, SessId
<1>4. TypeOK'
  BY <1>1, <1>2, <1>3 DEF IInv, TypeOK
<1>5. Numbered' /\ AnswersTrue' /\ BookingsMirrored' /\ ShownOfOracle' /\ Counted' /\ KeptBeyond'
  BY <1>1, <1>2 DEF IInv, Linked, Numbered, AnswersTrue, Here, BookingsMirrored, ShownOfOracle,
                    Counted, KeptBeyond
<1>6. Unanswered'
  BY <1>1, Constants DEF IInv, Linked, Numbered, Unanswered
<1> QED BY <1>4, <1>5, <1>6 DEF IInv, Linked

LEMMA InitHolds == WriteInit => IInv
<1> SUFFICES ASSUME WriteInit PROVE IInv
  OBVIOUS
<1>1. Fresh \in Copy /\ mem = Fresh /\ dur = Fresh
  BY DEF WriteInit, Fresh, Copy, ConnStatus
<1>2. NoCall \in Call /\ NoCall.kind = "none" /\ \A k \in Caller : calls[k] = NoCall
  BY DEF WriteInit, Call, NoCall
<1>3. TypeOK
  BY <1>1, <1>2, Constants DEF WriteInit, TypeOK
<1>4. \A r \in ResId : mem.resv[r] = NoRow /\ dur.resv[r] = NoRow
  BY <1>1 DEF Fresh
<1>5. \A s \in SessId : mem.sess[s] = NoSession /\ dur.sess[s] = NoSession
  BY <1>1 DEF Fresh
<1>6. Linked
  BY <1>2, <1>4, <1>5 DEF Linked, Numbered, AnswersTrue, Unanswered, Here, BookingsMirrored, ShownOfOracle,
                              Counted, KeptBeyond
<1> QED BY <1>3, <1>6 DEF IInv

LEMMA NextKeeps == IInv /\ [WriteNext]_writeVars => IInv'
<1> SUFFICES ASSUME IInv, [WriteNext]_writeVars PROVE IInv'
  OBVIOUS
<1>1. ASSUME NEW k \in Caller, Request(k) PROVE IInv'
  BY <1>1, AskKeeps, AskStartKeeps DEF Request
<1>2. ASSUME NEW k \in Caller, InOracle(k) PROVE IInv'
  BY <1>2, DurReserveKeeps, CancelKeeps, SweepKeeps, EndKeeps, DurStartKeeps DEF InOracle
<1>3. ASSUME NEW k \in Caller, InMemory(k) PROVE IInv'
  BY <1>3, MemReserveKeeps, CancelKeeps, SweepKeeps, EndKeeps, MemStartKeeps DEF InMemory
<1>4. CASE UNCHANGED writeVars
  <2>1. mem' = mem /\ dur' = dur /\ seqSess' = seqSess /\ lastRes' = lastRes /\ lastSess' = lastSess /\ calls' = calls
    BY <1>4 DEF writeVars
  <2> QED BY <2>1 DEF IInv, TypeOK, Linked, Numbered, AnswersTrue, Unanswered, BookingsMirrored,
                      ShownOfOracle, Counted, KeptBeyond, Arriving, Coming, Here
<1> QED BY <1>1, <1>2, <1>3, <1>4, FailKeeps, RestartKeeps DEF WriteNext

LEMMA Inductive == WriteSpec => []IInv
  BY InitHolds, NextKeeps, PTL DEF WriteSpec

(* ------------------------------- the theorems -------------------------- *)
(* What the API calls a reservation is Oracle's row of that number, and it *)
(* knows every reservation it has answered (oracle.js:1043-1100), for any  *)
(* number of calls whose halves interleave, fail or are lost in a restart. *)
THEOREM BookingsStayMirrored == WriteSpec => []BookingsMirrored
<1>1. IInv => BookingsMirrored
  BY DEF IInv, Linked
<1> QED BY <1>1, Inductive, PTL

(* A session memory shows, once its start is answered, is Oracle's row of  *)
(* that number (BUG-045); a row of Oracle whose start was answered and     *)
(* whose number is beyond memory's counter is known to memory, whichever   *)
(* starts are remapped, undone or cut off by a restart meanwhile           *)
(* (oracle.js:1166-1213).  It says nothing of the numbers below the        *)
(* counter, where SessionsKnown fails.                                     *)
THEOREM SessionsStayDurable == WriteSpec => []SessionsDurable
<1>1. IInv => SessionsDurable
  BY DEF IInv, Linked, SessionsDurable
<1> QED BY <1>1, Inductive, PTL
=============================================================================
