--------------------------- MODULE Records_proofs ---------------------------
(***************************************************************************)
(* Proofs about the rows of the store and the events it emits, for         *)
(* constants of any size.                                                  *)
(*                                                                         *)
(* First ChargingStore, for any numbers of connectors, drivers, windows,   *)
(* sessions and waiting requests, and ConnectorFleet: what the reports of  *)
(* charge points and the repairs cannot break.  Then the outbox relay, for *)
(* every set of keys, every split of them into Meta, Refused and Poison,   *)
(* and every cap and bound; and, with Oracle behind the store and through  *)
(* any restart, that nothing about a durable event leaves the API that     *)
(* Oracle has not committed.                                               *)
(***************************************************************************)
EXTENDS ConnectorFleet, DurableOutbox, SequenceTheorems, TLAPS

(* ------------------------------ the chains ----------------------------- *)

(* Serving the head of a chain moves the requests behind it up by one.     *)
LEMMA ServedChain ==
  ASSUME NEW K, NEW S, NEW Q \in [K -> Seq(S)], NEW k \in K, Q[k] # <<>>
  PROVE  /\ Served(Q, k) \in [K -> Seq(S)]
         /\ Head(Q[k]) \in S
         /\ 1 \in 1 .. Len(Q[k]) /\ Head(Q[k]) = Q[k][1]
         /\ \A x \in K : \A i \in 1 .. Len(Served(Q, k)[x]) :
              /\ x = k => i + 1 \in 1 .. Len(Q[x]) /\ Served(Q, k)[x][i] = Q[x][i + 1]
              /\ x # k => i \in 1 .. Len(Q[x]) /\ Served(Q, k)[x][i] = Q[x][i]
<1>1. /\ Tail(Q[k]) \in Seq(S) /\ Head(Q[k]) \in S
      /\ Len(Tail(Q[k])) = Len(Q[k]) - 1 /\ Len(Q[k]) \in Nat
      /\ \A i \in 1 .. Len(Tail(Q[k])) : Tail(Q[k])[i] = Q[k][i + 1]
  BY HeadTailProperties, LenProperties
<1>2. Len(Q[k]) \in Nat \ {0} /\ Head(Q[k]) = Q[k][1]
  BY EmptySeq
<1>3. ASSUME NEW i \in 1 .. Len(Served(Q, k)[k])
      PROVE  i + 1 \in 1 .. Len(Q[k]) /\ Served(Q, k)[k][i] = Q[k][i + 1]
  <2>1. Served(Q, k)[k] = Tail(Q[k])
    BY DEF Served
  <2> QED BY <1>1, <1>3, <2>1
<1>4. \A x \in K : x # k => Served(Q, k)[x] = Q[x]
  BY DEF Served
<1> QED BY <1>1, <1>2, <1>3, <1>4 DEF Served

(* A request that joins a chain goes behind those waiting already.         *)
LEMMA WaitingChain ==
  ASSUME NEW K, NEW S, NEW Q \in [K -> Seq(S)], NEW k \in K, NEW job \in S
  PROVE  /\ Waiting(Q, k, job) \in [K -> Seq(S)]
         /\ \A x \in K : \A i \in 1 .. Len(Waiting(Q, k, job)[x]) :
              /\ x = k /\ i = Len(Q[k]) + 1 => Waiting(Q, k, job)[x][i] = job
              /\ x # k \/ i # Len(Q[k]) + 1
                 => i \in 1 .. Len(Q[x]) /\ Waiting(Q, k, job)[x][i] = Q[x][i]
<1>1. /\ Append(Q[k], job) \in Seq(S) /\ Append(Q[k], job) # <<>>
      /\ Len(Append(Q[k], job)) = Len(Q[k]) + 1 /\ Len(Q[k]) \in Nat
      /\ \A i \in 1 .. Len(Q[k]) : Append(Q[k], job)[i] = Q[k][i]
      /\ Append(Q[k], job)[Len(Q[k]) + 1] = job
  BY AppendProperties, LenProperties
<1>2. ASSUME NEW i \in 1 .. Len(Waiting(Q, k, job)[k])
      PROVE  \/ i = Len(Q[k]) + 1 /\ Waiting(Q, k, job)[k][i] = job
             \/ i \in 1 .. Len(Q[k]) /\ Waiting(Q, k, job)[k][i] = Q[k][i]
  <2>1. Waiting(Q, k, job)[k] = Append(Q[k], job)
    BY DEF Waiting
  <2>2. i = Len(Q[k]) + 1 \/ i \in 1 .. Len(Q[k])
    BY <1>1, <1>2, <2>1
  <2> QED BY <1>1, <2>1, <2>2
<1>3. \A x \in K : x # k => Waiting(Q, k, job)[x] = Q[x]
  BY DEF Waiting
<1> QED BY <1>1, <1>2, <1>3 DEF Waiting

(* ------------------------- types and placement ------------------------- *)

(* An expire or sync request waits at the key of the connector its row     *)
(* names; a session has requests of its own only if it exists.             *)
Placed(c, j) ==
  /\ j.op \in {"expire", "syncRes"} => resv[j.res] # NoRow /\ resv[j.res].conn = c
  /\ j.op = "syncSess" => sess[j.sess] # NoSession /\ sess[j.sess].conn = c

AllPlaced ==
  /\ \A c \in Conn : \A i \in 1 .. Len(connQ[c]) : Placed(c, connQ[c][i])
  /\ \A s \in SessId : sessQ[s] # <<>> => sess[s] # NoSession

(* A sync request belongs to a body that is suspended inside its own key,  *)
(* which it still holds; no body has two of them.                          *)
Suspended(j) ==
  /\ j.op = "syncRes" => j.res \in cancelling
  /\ j.op = "syncSess" => j.sess \in ending

OneSync ==
  \A c \in Conn : \A i, k \in 1 .. Len(connQ[c]) :
    connQ[c][i].op \in {"syncRes", "syncSess"} /\ connQ[c][i] = connQ[c][k] => i = k

Chained ==
  /\ \A c \in Conn : \A i \in 1 .. Len(connQ[c]) : Suspended(connQ[c][i])
  /\ OneSync
  /\ \A r \in cancelling : resQ[r] # <<>>
  /\ \A s \in ending : sessQ[s] # <<>>

Typed == TypeOK /\ AllPlaced /\ Chained

LEMMA Constants ==
  /\ NoRes = 0
  /\ ResId \subseteq Nat \ {0} /\ SessId \subseteq Nat \ {0} /\ Time \subseteq Nat
  /\ MaxRes \in Nat /\ MaxSess \in Nat /\ MaxTime \in Nat
  /\ Staff \notin User /\ MoveTo \subseteq SessState
BY BoundsAssumption, RequestAssumption DEF NoRes, ResId, SessId, Time

(* What the type of a row says, by its status.                             *)
LEMMA Rows ==
  ASSUME TypeOK
  PROVE  /\ \A r \in ResId : resv[r] # NoRow => resv[r] \in Reservation
         /\ \A r \in ResId : resv[r].status # "NONE" => resv[r] # NoRow
         /\ \A r \in ResId : resv[r] # NoRow => resv[r].status # "NONE"
         /\ \A s \in SessId : sess[s] # NoSession => sess[s] \in Session
         /\ \A s \in SessId : sess[s].state # "NONE" => sess[s] # NoSession
         /\ \A s \in SessId : sess[s] # NoSession => sess[s].state \in SessState
         /\ "NONE" \notin SessState
<1>1. "NONE" \notin SessState
  BY DEF SessState, LiveState, EndState
<1>2. NoRow.status = "NONE" /\ NoSession.state = "NONE"
  BY DEF NoRow, NoSession
<1>3. \A r \in ResId : resv[r] # NoRow => resv[r] \in Reservation
  BY DEF TypeOK
<1>4. \A s \in SessId : sess[s] # NoSession => sess[s] \in Session
  BY DEF TypeOK
<1>5. \A x \in Reservation : x.status # "NONE"
  BY DEF Reservation
<1>6. \A x \in Session : x.state \in SessState
  BY DEF Session
<1> QED BY <1>1, <1>2, <1>3, <1>4, <1>5, <1>6

(* The fields of a request, by its operation.                              *)
LEMMA Jobs ==
  ASSUME NEW j \in ConnJob
  PROVE  /\ j.op \in {"reserve", "start", "expire", "syncRes", "syncSess"}
         /\ j.op = "reserve" => j.user \in User /\ j.start \in Time /\ j.end \in Time
         /\ j.op = "start" => j.user \in User /\ j.res \in {NoRes} \cup ResId
         /\ j.op \in {"expire", "syncRes"} => j.res \in ResId
         /\ j.op = "syncSess" => j.sess \in SessId
BY DEF ConnJob

(* The request whose turn it is at a connector.                            *)
LEMMA HeadPlaced ==
  ASSUME Typed, NEW c \in Conn, connQ[c] # <<>>
  PROVE  /\ Head(connQ[c]) \in ConnJob
         /\ Placed(c, Head(connQ[c]))
         /\ Served(connQ, c) \in [Conn -> Seq(ConnJob)]
         /\ \A x \in Conn : \A i \in 1 .. Len(Served(connQ, c)[x]) :
              Placed(x, Served(connQ, c)[x][i])
<1>1. connQ \in [Conn -> Seq(ConnJob)]
  BY DEF Typed, TypeOK
<1>2. \A x \in Conn : \A i \in 1 .. Len(connQ[x]) : Placed(x, connQ[x][i])
  BY DEF Typed, AllPlaced
<1>3. /\ Served(connQ, c) \in [Conn -> Seq(ConnJob)]
      /\ Head(connQ[c]) \in ConnJob
      /\ 1 \in 1 .. Len(connQ[c]) /\ Head(connQ[c]) = connQ[c][1]
      /\ \A x \in Conn : \A i \in 1 .. Len(Served(connQ, c)[x]) :
           /\ x = c => i + 1 \in 1 .. Len(connQ[x]) /\ Served(connQ, c)[x][i] = connQ[x][i + 1]
           /\ x # c => i \in 1 .. Len(connQ[x]) /\ Served(connQ, c)[x][i] = connQ[x][i]
  BY <1>1, ServedChain
<1>4. \A x \in Conn : \A i \in 1 .. Len(Served(connQ, c)[x]) :
        Placed(x, Served(connQ, c)[x][i])
  BY <1>2, <1>3
<1> QED BY <1>2, <1>3, <1>4

LEMMA HeadSuspended ==
  ASSUME Typed, NEW c \in Conn, connQ[c] # <<>>
  PROVE  Suspended(Head(connQ[c]))
<1>1. \E i \in 1 .. Len(connQ[c]) : Head(connQ[c]) = connQ[c][i]
  BY ServedChain DEF Typed, TypeOK
<1> QED BY <1>1 DEF Typed, Chained

LEMMA ConnChain ==
  ASSUME connQ \in [Conn -> Seq(ConnJob)], NEW c \in Conn, NEW job \in ConnJob
  PROVE  /\ Waiting(connQ, c, job) \in [Conn -> Seq(ConnJob)]
         /\ \A x \in Conn : \A i \in 1 .. Len(Waiting(connQ, c, job)[x]) :
              /\ x = c /\ i = Len(connQ[c]) + 1 => Waiting(connQ, c, job)[x][i] = job
              /\ x # c \/ i # Len(connQ[c]) + 1
                 => i \in 1 .. Len(connQ[x]) /\ Waiting(connQ, c, job)[x][i] = connQ[x][i]
<1>1. Waiting(connQ, c, job) \in [Conn -> Seq(ConnJob)]
  BY WaitingChain
<1>2. connQ[c] \in Seq(ConnJob)
  OBVIOUS
<1>3. /\ Append(connQ[c], job) # <<>>
      /\ Len(Append(connQ[c], job)) = Len(connQ[c]) + 1 /\ Len(connQ[c]) \in Nat
      /\ \A i \in 1 .. Len(connQ[c]) : Append(connQ[c], job)[i] = connQ[c][i]
      /\ Append(connQ[c], job)[Len(connQ[c]) + 1] = job
  BY <1>2, AppendProperties, LenProperties
<1>4. ASSUME NEW i \in 1 .. Len(Waiting(connQ, c, job)[c])
      PROVE  \/ i = Len(connQ[c]) + 1 /\ Waiting(connQ, c, job)[c][i] = job
             \/ i \in 1 .. Len(connQ[c]) /\ Waiting(connQ, c, job)[c][i] = connQ[c][i]
  <2>1. Waiting(connQ, c, job)[c] = Append(connQ[c], job)
    BY DEF Waiting
  <2>2. i = Len(connQ[c]) + 1 \/ i \in 1 .. Len(connQ[c])
    BY <1>3, <1>4, <2>1
  <2> QED BY <1>3, <2>1, <2>2
<1>5. \A x \in Conn : x # c => Waiting(connQ, c, job)[x] = connQ[x]
  BY DEF Waiting
<1> QED BY <1>1, <1>3, <1>4, <1>5

(* A request that is placed right keeps every chain of the connectors so.  *)
LEMMA JoinPlaced ==
  ASSUME Typed, NEW c \in Conn, NEW job \in ConnJob, Placed(c, job)
  PROVE  /\ Waiting(connQ, c, job) \in [Conn -> Seq(ConnJob)]
         /\ \A x \in Conn : \A i \in 1 .. Len(Waiting(connQ, c, job)[x]) :
              Placed(x, Waiting(connQ, c, job)[x][i])
<1>1. connQ \in [Conn -> Seq(ConnJob)]
  BY DEF Typed, TypeOK
<1>2. \A x \in Conn : \A i \in 1 .. Len(connQ[x]) : Placed(x, connQ[x][i])
  BY DEF Typed, AllPlaced
<1>3. /\ Waiting(connQ, c, job) \in [Conn -> Seq(ConnJob)]
      /\ \A x \in Conn : \A i \in 1 .. Len(Waiting(connQ, c, job)[x]) :
           /\ x = c /\ i = Len(connQ[c]) + 1 => Waiting(connQ, c, job)[x][i] = job
           /\ x # c \/ i # Len(connQ[c]) + 1
              => i \in 1 .. Len(connQ[x]) /\ Waiting(connQ, c, job)[x][i] = connQ[x][i]
  BY <1>1, ConnChain
<1> QED BY <1>2, <1>3

(* Rows are never removed and never move to another connector.             *)
RowsKept ==
  /\ \A r \in ResId : resv[r] # NoRow => resv'[r] # NoRow /\ resv'[r].conn = resv[r].conn
  /\ \A s \in SessId : sess[s] # NoSession => sess'[s] # NoSession /\ sess'[s].conn = sess[s].conn

(* What each step does for the types and the placement of requests.        *)
Sound ==
  /\ TypeOK'
  /\ RowsKept
  /\ \A x \in Conn : \A i \in 1 .. Len(connQ'[x]) : Placed(x, connQ'[x][i])
  /\ \A s \in SessId : sessQ'[s] # <<>> => sess[s] # NoSession

LEMMA SoundKeepsTyped ==
  ASSUME Sound, Chained'
  PROVE  Typed'
<1>1. ASSUME NEW x \in Conn, NEW i \in 1 .. Len(connQ'[x])
      PROVE  Placed(x, connQ[x][i])'
  <2>1. connQ'[x] \in Seq(ConnJob) /\ Len(connQ'[x]) \in Nat
    BY LenProperties DEF Sound, TypeOK
  <2>2. connQ'[x][i] \in ConnJob
    BY <1>1, <2>1, ElementOfSeq
  <2> DEFINE j == connQ'[x][i]
  <2>3. /\ j.op \in {"expire", "syncRes"} => j.res \in ResId
        /\ j.op = "syncSess" => j.sess \in SessId
    BY <2>2, Jobs
  <2>4. Placed(x, j)
    BY <1>1 DEF Sound
  <2>5. RowsKept
    BY DEF Sound
  <2> HIDE DEF j
  <2>6. /\ j.op \in {"expire", "syncRes"} => resv'[j.res] # NoRow /\ resv'[j.res].conn = x
        /\ j.op = "syncSess" => sess'[j.sess] # NoSession /\ sess'[j.sess].conn = x
    BY <2>3, <2>4, <2>5 DEF Placed, RowsKept
  <2> QED BY <2>6 DEF Placed, j
<1>2. \A s \in SessId : sessQ'[s] # <<>> => sess'[s] # NoSession
  BY DEF Sound, RowsKept
<1>3. TypeOK'
  BY DEF Sound
<1> QED BY <1>1, <1>2, <1>3 DEF Typed, AllPlaced

(* Steps that change none of the rows: what is left to show.               *)
LEMMA SameRows ==
  ASSUME Typed, UNCHANGED <<data, holders>>, now' \in Time,
         connQ' \in [Conn -> Seq(ConnJob)],
         sessQ' \in [SessId -> Seq(SessJob)],
         resQ' \in [ResId -> Seq(User \cup {Staff})],
         \A x \in Conn : \A i \in 1 .. Len(connQ'[x]) : Placed(x, connQ'[x][i]),
         \A s \in SessId : sessQ'[s] # <<>> => sess[s] # NoSession
  PROVE  Sound
<1>1. TypeOK'
  BY DEF Typed, TypeOK, data, holders
<1>2. RowsKept
  BY DEF RowsKept, data
<1> QED BY <1>1, <1>2 DEF Sound

LEMMA TimePassesSound == ASSUME Typed, TimePasses PROVE Sound
<1>1. now' \in Time
  BY Constants DEF TimePasses, Typed, TypeOK, Time
<1>2. UNCHANGED <<connQ, sessQ, resQ, data, holders>>
  BY DEF TimePasses, queues
<1> QED BY <1>1, <1>2, SameRows DEF Typed, TypeOK, AllPlaced

(* A request of a client that joins the chain of a connector.              *)
LEMMA JoinConnSound ==
  ASSUME Typed, NEW c \in Conn, NEW job \in ConnJob, Placed(c, job),
         connQ' = Waiting(connQ, c, job), UNCHANGED <<now, data, sessQ, resQ, holders>>
  PROVE  Sound
BY JoinPlaced, SameRows DEF Typed, TypeOK, AllPlaced

LEMMA AskReserveSound ==
  ASSUME Typed, NEW c \in Conn, NEW u \in User, NEW b \in Time, NEW e \in Time,
         AskReserve(c, u, b, e)
  PROVE  Sound
<1> DEFINE job == [op |-> "reserve", user |-> u, start |-> b, end |-> e]
<1>1. job \in ConnJob
  BY DEF ConnJob
<1>2. Placed(c, job)
  BY DEF Placed
<1> QED BY <1>1, <1>2, JoinConnSound DEF AskReserve

LEMMA AskStartSound ==
  ASSUME Typed, NEW c \in Conn, NEW u \in User, NEW r \in {NoRes} \cup ResId,
         AskStart(c, u, r)
  PROVE  Sound
<1> DEFINE job == [op |-> "start", user |-> u, res |-> r]
<1>1. job \in ConnJob
  BY DEF ConnJob
<1>2. Placed(c, job)
  BY DEF Placed
<1> QED BY <1>1, <1>2, JoinConnSound DEF AskStart

LEMMA AskExpireSound ==
  ASSUME Typed, NEW r \in ResId, AskExpire(r)
  PROVE  Sound
<1> DEFINE job == [op |-> "expire", res |-> r]
           c == resv[r].conn
<1>1. resv[r] # NoRow /\ c \in Conn
  BY Rows DEF AskExpire, Typed, Reservation
<1>2. job \in ConnJob
  BY DEF ConnJob
<1>3. Placed(c, job)
  BY <1>1 DEF Placed
<1>4. connQ' = Waiting(connQ, c, job) /\ UNCHANGED <<now, data, sessQ, resQ, holders>>
  BY DEF AskExpire
<1> QED BY <1>1, <1>2, <1>3, <1>4, JoinConnSound

LEMMA AskCancelSound ==
  ASSUME Typed, NEW r \in ResId, NEW by \in User \cup {Staff}, AskCancel(r, by)
  PROVE  Sound
<1>1. resQ' \in [ResId -> Seq(User \cup {Staff})]
  BY WaitingChain DEF AskCancel, Typed, TypeOK
<1> QED BY <1>1, SameRows DEF AskCancel, Typed, TypeOK, AllPlaced

(* A request of a client that joins the chain of a session.                *)
LEMMA JoinSessSound ==
  ASSUME Typed, NEW s \in SessId, NEW job \in SessJob, sess[s] # NoSession,
         sessQ' = Waiting(sessQ, s, job), UNCHANGED <<now, data, connQ, resQ, holders>>
  PROVE  Sound
<1>1. sessQ' \in [SessId -> Seq(SessJob)]
  BY WaitingChain DEF Typed, TypeOK
<1>2. ASSUME NEW x \in SessId, sessQ'[x] # <<>> PROVE sess[x] # NoSession
  BY <1>2 DEF Waiting, Typed, TypeOK, AllPlaced
<1> QED BY <1>1, <1>2, SameRows DEF Typed, TypeOK, AllPlaced

LEMMA AskMoveSound ==
  ASSUME Typed, NEW s \in SessId, NEW to \in MoveTo, AskMove(s, to)
  PROVE  Sound
<1>1. [op |-> "move", to |-> to] \in SessJob /\ sess[s] # NoSession
  BY Constants, Rows DEF SessJob, AskMove, Typed
<1> QED BY <1>1, JoinSessSound DEF AskMove

LEMMA AskTickSound ==
  ASSUME Typed, NEW s \in SessId, AskTick(s)
  PROVE  Sound
<1>1. [op |-> "tick", to |-> "CHARGING"] \in SessJob /\ sess[s] # NoSession
  BY Rows DEF SessJob, SessState, LiveState, AskTick, Typed
<1> QED BY <1>1, JoinSessSound DEF AskTick

LEMMA AskStopSound ==
  ASSUME Typed, NEW s \in SessId, AskStop(s)
  PROVE  Sound
<1>1. [op |-> "stop", to |-> StopTarget(sess[s].state)] \in SessJob
  BY DEF SessJob, SessState, EndState, StopTarget
<1>2. sess[s] # NoSession
  BY DEF AskStop, Live, LiveState, NoSession
<1> QED BY <1>1, <1>2, JoinSessSound DEF AskStop

LEMMA AskSound == ASSUME Typed, Ask PROVE Sound
BY AskReserveSound, AskStartSound, AskExpireSound, AskCancelSound, AskMoveSound,
   AskTickSound, AskStopSound DEF Ask

LEMMA RunReserveSound == ASSUME Typed, NEW c \in Conn, RunReserve(c) PROVE Sound
<1> DEFINE j == Head(connQ[c])
           row == [conn |-> c, user |-> j.user, start |-> j.start, end |-> j.end,
                   status |-> "BOOKED"]
<1>1. connQ[c] # <<>> /\ j.op = "reserve" /\ nRes < MaxRes
  BY DEF RunReserve, HeadOp, CanReserve
<1>2. /\ j \in ConnJob /\ connQ' \in [Conn -> Seq(ConnJob)]
      /\ \A x \in Conn : \A i \in 1 .. Len(connQ'[x]) : Placed(x, connQ'[x][i])
  BY <1>1, HeadPlaced DEF RunReserve
<1>3. row \in Reservation /\ row # NoRow
  BY <1>1, <1>2, Jobs DEF Reservation, NoRow
<1>4. nRes + 1 \in ResId /\ resv[nRes + 1] = NoRow /\ nRes + 1 \in 0 .. MaxRes
  BY <1>1, Constants DEF Typed, TypeOK, ResId
<1>5. resv' = [resv EXCEPT ![nRes + 1] = row] /\ nRes' = nRes + 1
  BY DEF RunReserve
<1> HIDE DEF row, j
<1>6. /\ resv' \in [ResId -> Reservation \cup {NoRow}]
      /\ \A r \in ResId : resv'[r] = NoRow <=> r > nRes'
  BY <1>3, <1>4, <1>5, Constants DEF Typed, TypeOK, ResId
<1>7. cstat' \in [Conn -> ConnStatus]
  BY DEF RunReserve, Typed, TypeOK, ConnStatus
<1>8. TypeOK'
  BY <1>2, <1>4, <1>5, <1>6, <1>7 DEF RunReserve, Typed, TypeOK, holders
<1>9. RowsKept
  BY <1>4, <1>5 DEF RunReserve, RowsKept, Typed, TypeOK
<1> QED BY <1>2, <1>8, <1>9 DEF RunReserve, Sound, Typed, AllPlaced

(* What a start may consume is BOOKED, its caller's and on its connector.  *)
LEMMA ClaimsOwn ==
  ASSUME NEW c \in Conn, NEW j, NEW r \in Claims(c, j), r # NoRes
  PROVE  r \in ResId /\ resv[r].status = "BOOKED" /\ resv[r].conn = c /\ resv[r].user = j.user
BY DEF Claims, OwnBooked, BookedOn

LEMMA ClaimsType ==
  ASSUME NEW c \in Conn, NEW j, NEW r \in Claims(c, j)
  PROVE  r \in {NoRes} \cup ResId
BY ClaimsOwn

(* A row that only changes its status keeps its type and its connector.    *)
LEMMA StatusChange ==
  ASSUME TypeOK, NEW r \in ResId, resv[r] # NoRow,
         NEW to \in {"BOOKED", "CONVERTED", "CANCELLED", "EXPIRED"},
         resv' = [resv EXCEPT ![r].status = to]
  PROVE  /\ resv' \in [ResId -> Reservation \cup {NoRow}]
         /\ \A q \in ResId : resv'[q] = NoRow <=> resv[q] = NoRow
         /\ \A q \in ResId : q # r => resv'[q] = resv[q]
         /\ resv'[r] = [resv[r] EXCEPT !.status = to]
         /\ resv'[r].status = to
         /\ \A q \in ResId : resv[q] # NoRow =>
              /\ resv'[q].conn = resv[q].conn /\ resv'[q].user = resv[q].user
              /\ resv'[q].start = resv[q].start /\ resv'[q].end = resv[q].end
<1>1. resv[r] \in Reservation
  BY Rows
<1>2. /\ [resv[r] EXCEPT !.status = to] \in Reservation
      /\ [resv[r] EXCEPT !.status = to] # NoRow
      /\ [resv[r] EXCEPT !.status = to].status = to
      /\ [resv[r] EXCEPT !.status = to].conn = resv[r].conn
      /\ [resv[r] EXCEPT !.status = to].user = resv[r].user
      /\ [resv[r] EXCEPT !.status = to].start = resv[r].start
      /\ [resv[r] EXCEPT !.status = to].end = resv[r].end
  BY <1>1 DEF Reservation, NoRow
<1> QED BY <1>2 DEF TypeOK

LEMMA RunStartSound == ASSUME Typed, NEW c \in Conn, RunStart(c) PROVE Sound
<1> DEFINE j == Head(connQ[c])
<1>1. PICK r \in Claims(c, j) :
        /\ sess' = [sess EXCEPT ![nSess + 1] =
                      [conn |-> c, user |-> j.user, res |-> r, state |-> "PREPARING"]]
        /\ resv' = IF r = NoRes THEN resv ELSE [resv EXCEPT ![r].status = "CONVERTED"]
  BY DEF RunStart
<1> DEFINE row == [conn |-> c, user |-> j.user, res |-> r, state |-> "PREPARING"]
<1>2. connQ[c] # <<>> /\ j.op = "start" /\ nSess < MaxSess
  BY DEF RunStart, HeadOp
<1>3. /\ j \in ConnJob /\ connQ' \in [Conn -> Seq(ConnJob)]
      /\ \A x \in Conn : \A i \in 1 .. Len(connQ'[x]) : Placed(x, connQ'[x][i])
  BY <1>2, HeadPlaced DEF RunStart
<1>4. row \in Session /\ row # NoSession
  BY <1>2, <1>3, Jobs, ClaimsType DEF Session, NoSession, SessState, LiveState
<1>5. nSess + 1 \in SessId /\ sess[nSess + 1] = NoSession /\ nSess + 1 \in 0 .. MaxSess
  BY <1>2, Constants DEF Typed, TypeOK, SessId
<1>6. /\ sess' \in [SessId -> Session \cup {NoSession}]
      /\ \A s \in SessId : sess'[s] = NoSession <=> s > nSess'
      /\ \A s \in SessId : sess[s] # NoSession => sess'[s] = sess[s]
  <2>1. sess' = [sess EXCEPT ![nSess + 1] = row] /\ nSess' = nSess + 1
    BY <1>1 DEF RunStart
  <2> HIDE DEF row, j
  <2> QED BY <1>4, <1>5, <2>1, Constants DEF Typed, TypeOK, SessId
<1>7. /\ resv' \in [ResId -> Reservation \cup {NoRow}]
      /\ \A q \in ResId : resv'[q] = NoRow <=> resv[q] = NoRow
      /\ \A q \in ResId : resv[q] # NoRow => resv'[q].conn = resv[q].conn
  <2>1. CASE r = NoRes
    BY <1>1, <2>1 DEF Typed, TypeOK
  <2>2. CASE r # NoRes
    <3>1. r \in ResId /\ resv[r] \in Reservation /\ resv[r] # NoRow
      BY <2>2, ClaimsOwn, Rows DEF Typed
    <3>2. resv' = [resv EXCEPT ![r].status = "CONVERTED"]
      BY <1>1, <2>2
    <3> QED BY <3>1, <3>2, StatusChange DEF Typed
  <2> QED BY <2>1, <2>2
<1>8. cstat' \in [Conn -> ConnStatus]
  BY DEF RunStart, Typed, TypeOK, ConnStatus
<1>9. TypeOK'
  BY <1>3, <1>5, <1>6, <1>7, <1>8 DEF RunStart, Typed, TypeOK, holders
<1>10. RowsKept
  BY <1>6, <1>7 DEF RowsKept
<1> QED BY <1>3, <1>9, <1>10 DEF RunStart, Sound, Typed, AllPlaced

(* The same for a session that changes its state.                          *)
LEMMA StateChange ==
  ASSUME TypeOK, NEW s \in SessId, sess[s] # NoSession, NEW to \in SessState,
         sess' = [sess EXCEPT ![s].state = to]
  PROVE  /\ sess' \in [SessId -> Session \cup {NoSession}]
         /\ \A t \in SessId : sess'[t] = NoSession <=> sess[t] = NoSession
         /\ \A t \in SessId : t # s => sess'[t] = sess[t]
         /\ sess'[s].state = to
         /\ \A t \in SessId : sess[t] # NoSession =>
              /\ sess'[t].conn = sess[t].conn /\ sess'[t].user = sess[t].user
              /\ sess'[t].res = sess[t].res
<1>1. sess[s] \in Session
  BY Rows
<1>2. /\ [sess[s] EXCEPT !.state = to] \in Session
      /\ [sess[s] EXCEPT !.state = to] # NoSession
      /\ [sess[s] EXCEPT !.state = to].state = to
      /\ [sess[s] EXCEPT !.state = to].conn = sess[s].conn
      /\ [sess[s] EXCEPT !.state = to].user = sess[s].user
      /\ [sess[s] EXCEPT !.state = to].res = sess[s].res
  BY <1>1, Rows DEF Session, NoSession
<1> QED BY <1>2 DEF TypeOK

LEMMA HeldType ==
  ASSUME TypeOK, NEW c \in Conn, NEW rs
  PROVE  Held(c, rs) \in ConnStatus
BY DEF TypeOK, Held, ConnStatus

LEMMA RunExpireSound == ASSUME Typed, NEW c \in Conn, RunExpire(c) PROVE Sound
<1> DEFINE r == Head(connQ[c]).res
<1>1. connQ[c] # <<>> /\ Head(connQ[c]).op = "expire" /\ resv[r].status = "BOOKED"
  BY DEF RunExpire, HeadOp
<1>2. /\ r \in ResId /\ resv[r] # NoRow /\ connQ' \in [Conn -> Seq(ConnJob)]
      /\ \A x \in Conn : \A i \in 1 .. Len(connQ'[x]) : Placed(x, connQ'[x][i])
  <2>1. Head(connQ[c]) \in ConnJob /\ Placed(c, Head(connQ[c])) /\ connQ' = Served(connQ, c)
    BY <1>1, HeadPlaced DEF RunExpire
  <2>2. r \in ResId /\ resv[r] # NoRow
    BY <1>1, <2>1, Jobs DEF Placed
  <2> QED BY <1>1, <2>1, <2>2, HeadPlaced
<1>3. resv' = [resv EXCEPT ![r].status = "EXPIRED"] /\ cstat' = [cstat EXCEPT ![c] = Held(c, resv')]
  BY DEF RunExpire
<1> HIDE DEF r
<1>4. /\ resv' \in [ResId -> Reservation \cup {NoRow}]
      /\ \A q \in ResId : resv'[q] = NoRow <=> resv[q] = NoRow
      /\ \A q \in ResId : resv[q] # NoRow => resv'[q].conn = resv[q].conn
  BY <1>2, <1>3, StatusChange DEF Typed
<1>5. cstat' \in [Conn -> ConnStatus]
  BY <1>3, HeldType DEF Typed, TypeOK
<1>6. TypeOK'
  BY <1>2, <1>4, <1>5 DEF RunExpire, Typed, TypeOK, holders
<1>7. RowsKept
  BY <1>4 DEF RunExpire, RowsKept
<1> QED BY <1>2, <1>6, <1>7 DEF RunExpire, Sound, Typed, AllPlaced

LEMMA RunSyncResSound == ASSUME Typed, NEW c \in Conn, RunSyncRes(c) PROVE Sound
<1> DEFINE r == Head(connQ[c]).res
<1>1. connQ[c] # <<>> /\ Head(connQ[c]).op = "syncRes"
  BY DEF RunSyncRes, HeadOp
<1>2. /\ r \in ResId /\ connQ' \in [Conn -> Seq(ConnJob)]
      /\ \A x \in Conn : \A i \in 1 .. Len(connQ'[x]) : Placed(x, connQ'[x][i])
  BY <1>1, HeadPlaced, Jobs DEF RunSyncRes
<1>3. cstat' \in [Conn -> ConnStatus]
  BY HeldType DEF RunSyncRes, Typed, TypeOK
<1>4. r \in cancelling /\ resQ[r] # <<>>
  BY <1>1, HeadSuspended DEF Suspended, Typed, Chained
<1>5. resQ' \in [ResId -> Seq(User \cup {Staff})]
  BY <1>2, <1>4, ServedChain DEF RunSyncRes, Typed, TypeOK
<1>6. TypeOK'
  BY <1>2, <1>3, <1>5 DEF RunSyncRes, Typed, TypeOK
<1>7. RowsKept
  BY DEF RunSyncRes, RowsKept
<1> QED BY <1>2, <1>6, <1>7 DEF RunSyncRes, Sound, Typed, AllPlaced

LEMMA RunSyncSessSound == ASSUME Typed, NEW c \in Conn, RunSyncSess(c) PROVE Sound
<1> DEFINE s == Head(connQ[c]).sess
<1>1. connQ[c] # <<>> /\ Head(connQ[c]).op = "syncSess"
  BY DEF RunSyncSess, HeadOp
<1>2. /\ s \in SessId /\ connQ' \in [Conn -> Seq(ConnJob)]
      /\ \A x \in Conn : \A i \in 1 .. Len(connQ'[x]) : Placed(x, connQ'[x][i])
  BY <1>1, HeadPlaced, Jobs DEF RunSyncSess
<1>3. cstat' \in [Conn -> ConnStatus]
  BY HeldType DEF RunSyncSess, Typed, TypeOK
<1>4. s \in ending /\ sessQ[s] # <<>>
  BY <1>1, HeadSuspended DEF Suspended, Typed, Chained
<1>5. sessQ' = Served(sessQ, s)
  BY DEF RunSyncSess
<1>6. sessQ' \in [SessId -> Seq(SessJob)]
  BY <1>2, <1>4, <1>5, ServedChain DEF Typed, TypeOK
<1>7. \A t \in SessId : sessQ'[t] # <<>> => sess[t] # NoSession
  BY <1>4, <1>5 DEF Typed, TypeOK, AllPlaced, Served
<1>8. TypeOK'
  BY <1>2, <1>3, <1>6 DEF RunSyncSess, Typed, TypeOK
<1>9. RowsKept
  BY DEF RunSyncSess, RowsKept
<1> QED BY <1>2, <1>7, <1>8, <1>9 DEF RunSyncSess, Sound

LEMMA RefuseConnSound == ASSUME Typed, NEW c \in Conn, RefuseConn(c) PROVE Sound
BY HeadPlaced, SameRows DEF RefuseConn, Typed, TypeOK, AllPlaced

LEMMA RunCancelSound == ASSUME Typed, NEW r \in ResId, RunCancel(r) PROVE Sound
<1> DEFINE job == [op |-> "syncRes", res |-> r]
           c == resv[r].conn
<1>1. resv[r] # NoRow /\ c \in Conn
  BY Rows DEF RunCancel, Typed, Reservation
<1>2. job \in ConnJob /\ Placed(c, job)
  BY <1>1 DEF ConnJob, Placed
<1>3. connQ' = Waiting(connQ, c, job) /\ resv' = [resv EXCEPT ![r].status = "CANCELLED"]
  BY DEF RunCancel
<1> HIDE DEF job, c
<1>4. /\ connQ' \in [Conn -> Seq(ConnJob)]
      /\ \A x \in Conn : \A i \in 1 .. Len(connQ'[x]) : Placed(x, connQ'[x][i])
  BY <1>1, <1>2, <1>3, JoinPlaced
<1>5. /\ resv' \in [ResId -> Reservation \cup {NoRow}]
      /\ \A q \in ResId : resv'[q] = NoRow <=> resv[q] = NoRow
      /\ \A q \in ResId : resv[q] # NoRow => resv'[q].conn = resv[q].conn
  BY <1>1, <1>3, StatusChange DEF Typed
<1>6. TypeOK'
  BY <1>4, <1>5 DEF RunCancel, Typed, TypeOK
<1>7. RowsKept
  BY <1>5 DEF RunCancel, RowsKept
<1> QED BY <1>4, <1>6, <1>7 DEF RunCancel, Sound, Typed, AllPlaced

LEMMA RefuseCancelSound == ASSUME Typed, NEW r \in ResId, RefuseCancel(r) PROVE Sound
<1>1. resQ' \in [ResId -> Seq(User \cup {Staff})]
  BY ServedChain DEF RefuseCancel, Typed, TypeOK
<1> QED BY <1>1, SameRows DEF RefuseCancel, Typed, TypeOK, AllPlaced

(* The request whose turn it is at a session.                              *)
LEMMA HeadOfSession ==
  ASSUME Typed, NEW s \in SessId, sessQ[s] # <<>>
  PROVE  /\ Head(sessQ[s]) \in SessJob /\ Head(sessQ[s]).to \in SessState
         /\ sess[s] # NoSession /\ sess[s].conn \in Conn
         /\ Served(sessQ, s) \in [SessId -> Seq(SessJob)]
         /\ \A t \in SessId : Served(sessQ, s)[t] # <<>> => sess[t] # NoSession
<1>1. Head(sessQ[s]) \in SessJob /\ Served(sessQ, s) \in [SessId -> Seq(SessJob)]
  BY ServedChain DEF Typed, TypeOK
<1>2. sess[s] # NoSession /\ sess[s].conn \in Conn
  BY Rows DEF Typed, AllPlaced, Session
<1>3. \A t \in SessId : Served(sessQ, s)[t] # <<>> => sess[t] # NoSession
  BY DEF Typed, TypeOK, AllPlaced, Served
<1> QED BY <1>1, <1>2, <1>3 DEF SessJob

(* A body under a "sess:" key that changes the state of its session.       *)
LEMMA SessChangeSound ==
  ASSUME Typed, NEW s \in SessId, sessQ[s] # <<>>, NEW to \in SessState,
         sess' = [sess EXCEPT ![s].state = to],
         cstat' \in [Conn -> ConnStatus], ending' \subseteq SessId,
         UNCHANGED <<now, resv, nRes, nSess, resQ, cancelling>>,
         sessQ' = Served(sessQ, s) \/ sessQ' = sessQ,
         connQ' \in [Conn -> Seq(ConnJob)],
         \A x \in Conn : \A i \in 1 .. Len(connQ'[x]) : Placed(x, connQ'[x][i])
  PROVE  Sound
<1>1. sess[s] # NoSession
  BY HeadOfSession
<1>2. /\ sessQ' \in [SessId -> Seq(SessJob)]
      /\ \A t \in SessId : sessQ'[t] # <<>> => sess[t] # NoSession
  BY HeadOfSession DEF Typed, TypeOK, AllPlaced
<1>3. /\ sess' \in [SessId -> Session \cup {NoSession}]
      /\ \A t \in SessId : sess'[t] = NoSession <=> sess[t] = NoSession
      /\ \A t \in SessId : sess[t] # NoSession => sess'[t].conn = sess[t].conn
  BY <1>1, StateChange DEF Typed
<1>4. TypeOK'
  BY <1>2, <1>3 DEF Typed, TypeOK
<1>5. RowsKept
  BY <1>3 DEF RowsKept
<1> QED BY <1>2, <1>4, <1>5 DEF Sound

LEMMA RunTickSound == ASSUME Typed, NEW s \in SessId, RunTick(s) PROVE Sound
<1> DEFINE to == IF sess[s].state = "PREPARING" THEN "CHARGING" ELSE sess[s].state
<1>1. sessQ[s] # <<>>
  BY DEF RunTick, SessTurn
<1>2. to \in SessState
  BY <1>1, HeadOfSession, Rows DEF Typed, SessState, LiveState
<1>3. sess' = [sess EXCEPT ![s].state = to]
  BY DEF RunTick
<1> QED BY <1>1, <1>2, <1>3, SessChangeSound DEF RunTick, holders, Typed, TypeOK, AllPlaced

LEMMA RunMoveSound == ASSUME Typed, NEW s \in SessId, RunMove(s) PROVE Sound
<1> DEFINE to == Head(sessQ[s]).to
<1>1. sessQ[s] # <<>>
  BY DEF RunMove, SessTurn
<1>2. to \in SessState /\ sess[s].conn \in Conn
  BY <1>1, HeadOfSession
<1>3. sess' = [sess EXCEPT ![s].state = to]
  BY DEF RunMove
<1>4. cstat' \in [Conn -> ConnStatus]
  BY <1>2 DEF RunMove, Typed, TypeOK, ConnStatus
<1> HIDE DEF to
<1> QED BY <1>1, <1>2, <1>3, <1>4, SessChangeSound DEF RunMove, holders, Typed, TypeOK, AllPlaced

LEMMA RunEndSound == ASSUME Typed, NEW s \in SessId, RunEnd(s) PROVE Sound
<1> DEFINE to == Head(sessQ[s]).to
           job == [op |-> "syncSess", sess |-> s]
           c == sess[s].conn
<1>1. sessQ[s] # <<>>
  BY DEF RunEnd, SessTurn
<1>2. to \in SessState /\ c \in Conn /\ sess[s] # NoSession
  BY <1>1, HeadOfSession
<1>3. job \in ConnJob /\ Placed(c, job)
  BY <1>2 DEF ConnJob, Placed
<1>4. /\ sess' = [sess EXCEPT ![s].state = to]
      /\ connQ' = Waiting(connQ, c, job)
      /\ cstat' = [cstat EXCEPT ![c] = "AVAILABLE"]
      /\ ending' = ending \cup {s}
  BY DEF RunEnd
<1>5. cstat' \in [Conn -> ConnStatus] /\ ending' \subseteq SessId
  BY <1>4 DEF Typed, TypeOK, ConnStatus
<1> HIDE DEF to, job, c
<1>6. /\ connQ' \in [Conn -> Seq(ConnJob)]
      /\ \A x \in Conn : \A i \in 1 .. Len(connQ'[x]) : Placed(x, connQ'[x][i])
  BY <1>2, <1>3, <1>4, JoinPlaced
<1> QED BY <1>1, <1>2, <1>4, <1>5, <1>6, SessChangeSound DEF RunEnd

LEMMA RefuseSessSound == ASSUME Typed, NEW s \in SessId, RefuseSess(s) PROVE Sound
BY HeadOfSession, SameRows DEF RefuseSess, SessTurn, Typed, TypeOK, AllPlaced

(* -------------------- suspended bodies and their syncs ------------------ *)

LEMMA ConnServed ==
  ASSUME Typed, NEW c \in Conn, connQ[c] # <<>>, connQ' = Served(connQ, c)
  PROVE  /\ 1 \in 1 .. Len(connQ[c]) /\ Head(connQ[c]) = connQ[c][1]
         /\ \A x \in Conn : \A i \in 1 .. Len(connQ'[x]) :
              /\ x = c => i + 1 \in 1 .. Len(connQ[x]) /\ connQ'[x][i] = connQ[x][i + 1]
              /\ x # c => i \in 1 .. Len(connQ[x]) /\ connQ'[x][i] = connQ[x][i]
<1>1. connQ \in [Conn -> Seq(ConnJob)]
  BY DEF Typed, TypeOK
<1>2. /\ 1 \in 1 .. Len(connQ[c]) /\ Head(connQ[c]) = connQ[c][1]
      /\ \A x \in Conn : \A i \in 1 .. Len(Served(connQ, c)[x]) :
           /\ x = c => i + 1 \in 1 .. Len(connQ[x]) /\ Served(connQ, c)[x][i] = connQ[x][i + 1]
           /\ x # c => i \in 1 .. Len(connQ[x]) /\ Served(connQ, c)[x][i] = connQ[x][i]
  BY <1>1, ServedChain
<1> QED BY <1>2

LEMMA ConnWaiting ==
  ASSUME Typed, NEW c \in Conn, NEW job \in ConnJob, connQ' = Waiting(connQ, c, job)
  PROVE  \A x \in Conn : \A i \in 1 .. Len(connQ'[x]) :
           /\ x = c /\ i = Len(connQ[c]) + 1 => connQ'[x][i] = job
           /\ x # c \/ i # Len(connQ[c]) + 1
              => i \in 1 .. Len(connQ[x]) /\ connQ'[x][i] = connQ[x][i]
<1>1. connQ \in [Conn -> Seq(ConnJob)]
  BY DEF Typed, TypeOK
<1>2. /\ Waiting(connQ, c, job) \in [Conn -> Seq(ConnJob)]
      /\ \A x \in Conn : \A i \in 1 .. Len(Waiting(connQ, c, job)[x]) :
           /\ x = c /\ i = Len(connQ[c]) + 1 => Waiting(connQ, c, job)[x][i] = job
           /\ x # c \/ i # Len(connQ[c]) + 1
              => i \in 1 .. Len(connQ[x]) /\ Waiting(connQ, c, job)[x][i] = connQ[x][i]
  BY <1>1, ConnChain
<1> QED BY <1>2

LEMMA ServedOneSync ==
  ASSUME Typed, NEW c \in Conn, connQ[c] # <<>>, connQ' = Served(connQ, c)
  PROVE  /\ OneSync'
         /\ Head(connQ[c]).op \in {"syncRes", "syncSess"} =>
              \A i \in 1 .. Len(connQ'[c]) : connQ'[c][i] # Head(connQ[c])
<1>1. connQ \in [Conn -> Seq(ConnJob)] /\ OneSync
  BY DEF Typed, TypeOK, Chained
<1>2. /\ 1 \in 1 .. Len(connQ[c]) /\ Head(connQ[c]) = connQ[c][1]
      /\ \A x \in Conn : \A i \in 1 .. Len(connQ'[x]) :
           /\ x = c => i + 1 \in 1 .. Len(connQ[x]) /\ connQ'[x][i] = connQ[x][i + 1]
           /\ x # c => i \in 1 .. Len(connQ[x]) /\ connQ'[x][i] = connQ[x][i]
  BY ConnServed
<1>3. ASSUME NEW x \in Conn, NEW i \in 1 .. Len(connQ'[x]), NEW k \in 1 .. Len(connQ'[x]),
             connQ'[x][i].op \in {"syncRes", "syncSess"}, connQ'[x][i] = connQ'[x][k]
      PROVE  i = k
  <2>1. CASE x = c
    <3>1. i + 1 \in 1 .. Len(connQ[x]) /\ k + 1 \in 1 .. Len(connQ[x])
      BY <1>2, <2>1
    <3>2. connQ[x][i + 1] = connQ[x][k + 1] /\ connQ[x][i + 1].op \in {"syncRes", "syncSess"}
      BY <1>2, <1>3, <2>1
    <3>3. i + 1 = k + 1
      BY <1>1, <3>1, <3>2 DEF OneSync
    <3> QED BY <3>3
  <2>2. CASE x # c
    <3>1. /\ i \in 1 .. Len(connQ[x]) /\ k \in 1 .. Len(connQ[x])
          /\ connQ[x][i] = connQ[x][k] /\ connQ[x][i].op \in {"syncRes", "syncSess"}
      BY <1>2, <1>3, <2>2
    <3> QED BY <1>1, <3>1 DEF OneSync
  <2> QED BY <2>1, <2>2
<1>4. ASSUME Head(connQ[c]).op \in {"syncRes", "syncSess"}, NEW i \in 1 .. Len(connQ'[c]),
             connQ'[c][i] = Head(connQ[c])
      PROVE  FALSE
  <2>1. i + 1 \in 1 .. Len(connQ[c]) /\ connQ[c][i + 1] = connQ[c][1]
        /\ connQ[c][i + 1].op \in {"syncRes", "syncSess"} /\ 1 \in 1 .. Len(connQ[c])
    BY <1>2, <1>4
  <2>2. i + 1 = 1
    BY <1>1, <2>1 DEF OneSync
  <2> QED BY <2>2
<1> QED BY <1>3, <1>4 DEF OneSync

LEMMA WaitingOneSync ==
  ASSUME Typed, NEW c \in Conn, NEW job \in ConnJob, connQ' = Waiting(connQ, c, job),
         job.op \in {"syncRes", "syncSess"} =>
           \A i \in 1 .. Len(connQ[c]) : connQ[c][i] # job
  PROVE  OneSync'
<1>1. connQ \in [Conn -> Seq(ConnJob)] /\ OneSync
  BY DEF Typed, TypeOK, Chained
<1>2. \A x \in Conn : \A i \in 1 .. Len(connQ'[x]) :
        /\ x = c /\ i = Len(connQ[c]) + 1 => connQ'[x][i] = job
        /\ x # c \/ i # Len(connQ[c]) + 1
           => i \in 1 .. Len(connQ[x]) /\ connQ'[x][i] = connQ[x][i]
  BY ConnWaiting
<1>3. ASSUME NEW x \in Conn, NEW i \in 1 .. Len(connQ'[x]), NEW k \in 1 .. Len(connQ'[x]),
             connQ'[x][i].op \in {"syncRes", "syncSess"}, connQ'[x][i] = connQ'[x][k]
      PROVE  i = k
  <2>1. CASE x = c /\ i = Len(connQ[c]) + 1
    BY <1>2, <1>3, <2>1
  <2>2. CASE x = c /\ k = Len(connQ[c]) + 1
    BY <1>2, <1>3, <2>2
  <2>3. CASE x # c \/ (i # Len(connQ[c]) + 1 /\ k # Len(connQ[c]) + 1)
    <3>1. /\ i \in 1 .. Len(connQ[x]) /\ k \in 1 .. Len(connQ[x])
          /\ connQ[x][i] = connQ[x][k] /\ connQ[x][i].op \in {"syncRes", "syncSess"}
      BY <1>2, <1>3, <2>3
    <3> QED BY <1>1, <3>1 DEF OneSync
  <2> QED BY <2>1, <2>2, <2>3
<1> QED BY <1>3 DEF OneSync

(* Steps that touch neither the chains of the connectors nor the bodies    *)
(* that are suspended.                                                     *)
LEMMA ChainsUntouched ==
  ASSUME Typed, UNCHANGED <<connQ, holders>>,
         \A r \in cancelling : resQ'[r] # <<>>, \A s \in ending : sessQ'[s] # <<>>
  PROVE  Chained'
BY DEF Typed, Chained, OneSync, Suspended, holders

LEMMA JoinChained ==
  ASSUME Typed, NEW c \in Conn, NEW job \in ConnJob, connQ' = Waiting(connQ, c, job),
         job.op \notin {"syncRes", "syncSess"}, UNCHANGED <<sessQ, resQ, holders>>
  PROVE  Chained'
<1>1. \A x \in Conn : \A i \in 1 .. Len(connQ'[x]) :
        /\ x = c /\ i = Len(connQ[c]) + 1 => connQ'[x][i] = job
        /\ x # c \/ i # Len(connQ[c]) + 1
           => i \in 1 .. Len(connQ[x]) /\ connQ'[x][i] = connQ[x][i]
  BY ConnWaiting
<1>2. \A x \in Conn : \A i \in 1 .. Len(connQ'[x]) : Suspended(connQ'[x][i])
  BY <1>1 DEF Typed, Chained, Suspended
<1> QED BY <1>2, WaitingOneSync DEF Typed, Chained, Suspended, holders

LEMMA ServeChained ==
  ASSUME Typed, NEW c \in Conn, connQ[c] # <<>>, connQ' = Served(connQ, c),
         UNCHANGED <<sessQ, resQ, holders>>
  PROVE  Chained'
<1>1. \A x \in Conn : \A i \in 1 .. Len(connQ'[x]) :
        /\ x = c => i + 1 \in 1 .. Len(connQ[x]) /\ connQ'[x][i] = connQ[x][i + 1]
        /\ x # c => i \in 1 .. Len(connQ[x]) /\ connQ'[x][i] = connQ[x][i]
  BY ConnServed
<1>2. \A x \in Conn : \A i \in 1 .. Len(connQ'[x]) : Suspended(connQ'[x][i])
  BY <1>1 DEF Typed, Chained
<1> QED BY <1>2, ServedOneSync DEF Typed, Chained, Suspended, holders

LEMMA RunSyncResChained ==
  ASSUME Typed, NEW c \in Conn, RunSyncRes(c)
  PROVE  Chained'
<1> DEFINE r == Head(connQ[c]).res
<1>1. connQ[c] # <<>> /\ Head(connQ[c]).op = "syncRes" /\ connQ' = Served(connQ, c)
  BY DEF RunSyncRes, HeadOp
<1>2. Head(connQ[c]) \in ConnJob /\ r \in ResId /\ resv[r].conn = c
  BY <1>1, HeadPlaced, Jobs DEF Placed
<1>3. /\ cancelling' = cancelling \ {r} /\ ending' = ending
      /\ resQ' = Served(resQ, r) /\ sessQ' = sessQ
  BY DEF RunSyncRes
<1>4. \A x \in Conn : \A i \in 1 .. Len(connQ'[x]) :
        /\ x = c => i + 1 \in 1 .. Len(connQ[x]) /\ connQ'[x][i] = connQ[x][i + 1]
        /\ x # c => i \in 1 .. Len(connQ[x]) /\ connQ'[x][i] = connQ[x][i]
  BY <1>1, ConnServed
<1>5. OneSync' /\ \A i \in 1 .. Len(connQ'[c]) : connQ'[c][i] # Head(connQ[c])
  BY <1>1, ServedOneSync
<1>6. ASSUME NEW x \in Conn, NEW i \in 1 .. Len(connQ'[x])
      PROVE  Suspended(connQ[x][i])'
  <2> DEFINE j == connQ'[x][i]
  <2>1. j \in ConnJob /\ Suspended(j) /\ Placed(x, j)
    <3>1. PICK k \in 1 .. Len(connQ[x]) : j = connQ[x][k]
      BY <1>4, <1>6
    <3> HIDE DEF j
    <3> QED BY <3>1, ElementOfSeq DEF Typed, TypeOK, Chained, AllPlaced
  <2>2. ASSUME j.op = "syncRes" PROVE j.res # r
    <3>1. CASE x = c
      <4>1. Head(connQ[c]) = [op |-> "syncRes", res |-> r]
        BY <1>1, <1>2 DEF ConnJob
      <4>2. j = [op |-> "syncRes", res |-> j.res]
        BY <2>1, <2>2 DEF ConnJob
      <4>3. j # Head(connQ[c])
        BY <1>5, <1>6, <3>1
      <4> QED BY <4>1, <4>2, <4>3
    <3>2. CASE x # c
      BY <1>2, <2>1, <2>2, <3>2 DEF Placed
    <3> QED BY <3>1, <3>2
  <2> HIDE DEF j, r
  <2>3. /\ j.op = "syncRes" => j.res \in cancelling'
        /\ j.op = "syncSess" => j.sess \in ending'
    BY <1>3, <2>1, <2>2 DEF Suspended
  <2> QED BY <2>3 DEF Suspended, j
<1>7. \A q \in cancelling' : resQ'[q] # <<>>
  BY <1>2, <1>3 DEF Typed, TypeOK, Chained, Served
<1>8. \A s \in ending' : sessQ'[s] # <<>>
  BY <1>3 DEF Typed, Chained
<1> QED BY <1>5, <1>6, <1>7, <1>8 DEF Chained

LEMMA RunSyncSessChained ==
  ASSUME Typed, NEW c \in Conn, RunSyncSess(c)
  PROVE  Chained'
<1> DEFINE s == Head(connQ[c]).sess
<1>1. connQ[c] # <<>> /\ Head(connQ[c]).op = "syncSess" /\ connQ' = Served(connQ, c)
  BY DEF RunSyncSess, HeadOp
<1>2. Head(connQ[c]) \in ConnJob /\ s \in SessId /\ sess[s].conn = c
  BY <1>1, HeadPlaced, Jobs DEF Placed
<1>3. /\ ending' = ending \ {s} /\ cancelling' = cancelling
      /\ sessQ' = Served(sessQ, s) /\ resQ' = resQ
  BY DEF RunSyncSess
<1>4. \A x \in Conn : \A i \in 1 .. Len(connQ'[x]) :
        /\ x = c => i + 1 \in 1 .. Len(connQ[x]) /\ connQ'[x][i] = connQ[x][i + 1]
        /\ x # c => i \in 1 .. Len(connQ[x]) /\ connQ'[x][i] = connQ[x][i]
  BY <1>1, ConnServed
<1>5. OneSync' /\ \A i \in 1 .. Len(connQ'[c]) : connQ'[c][i] # Head(connQ[c])
  BY <1>1, ServedOneSync
<1>6. ASSUME NEW x \in Conn, NEW i \in 1 .. Len(connQ'[x])
      PROVE  Suspended(connQ[x][i])'
  <2> DEFINE j == connQ'[x][i]
  <2>1. j \in ConnJob /\ Suspended(j) /\ Placed(x, j)
    <3>1. PICK k \in 1 .. Len(connQ[x]) : j = connQ[x][k]
      BY <1>4, <1>6
    <3> HIDE DEF j
    <3> QED BY <3>1, ElementOfSeq DEF Typed, TypeOK, Chained, AllPlaced
  <2>2. ASSUME j.op = "syncSess" PROVE j.sess # s
    <3>1. CASE x = c
      <4>1. Head(connQ[c]) = [op |-> "syncSess", sess |-> s]
        BY <1>1, <1>2 DEF ConnJob
      <4>2. j = [op |-> "syncSess", sess |-> j.sess]
        BY <2>1, <2>2 DEF ConnJob
      <4>3. j # Head(connQ[c])
        BY <1>5, <1>6, <3>1
      <4> QED BY <4>1, <4>2, <4>3
    <3>2. CASE x # c
      BY <1>2, <2>1, <2>2, <3>2 DEF Placed
    <3> QED BY <3>1, <3>2
  <2> HIDE DEF j, s
  <2>3. /\ j.op = "syncRes" => j.res \in cancelling'
        /\ j.op = "syncSess" => j.sess \in ending'
    BY <1>3, <2>1, <2>2 DEF Suspended
  <2> QED BY <2>3 DEF Suspended, j
<1>7. \A t \in ending' : sessQ'[t] # <<>>
  BY <1>2, <1>3 DEF Typed, TypeOK, Chained, Served
<1>8. \A r \in cancelling' : resQ'[r] # <<>>
  BY <1>3 DEF Typed, Chained
<1> QED BY <1>5, <1>6, <1>7, <1>8 DEF Chained

(* A body that suspends itself asks for one sync.                          *)
LEMMA RunCancelChained ==
  ASSUME Typed, NEW r \in ResId, RunCancel(r)
  PROVE  Chained'
<1> DEFINE job == [op |-> "syncRes", res |-> r]
           c == resv[r].conn
<1>1. c \in Conn /\ job \in ConnJob
  BY Rows DEF RunCancel, Typed, Reservation, ConnJob
<1>2. /\ connQ' = Waiting(connQ, c, job) /\ cancelling' = cancelling \cup {r}
      /\ UNCHANGED <<sessQ, resQ, ending>> /\ r \notin cancelling /\ resQ[r] # <<>>
  BY DEF RunCancel
<1>3. \A i \in 1 .. Len(connQ[c]) : connQ[c][i] # job
  BY <1>1, <1>2 DEF Typed, Chained, Suspended
<1>4. job.op = "syncRes" /\ job.res = r
  OBVIOUS
<1> HIDE DEF job, c
<1>5. OneSync'
  BY <1>1, <1>2, <1>3, WaitingOneSync
<1>6. \A x \in Conn : \A i \in 1 .. Len(connQ'[x]) :
        /\ x = c /\ i = Len(connQ[c]) + 1 => connQ'[x][i] = job
        /\ x # c \/ i # Len(connQ[c]) + 1
           => i \in 1 .. Len(connQ[x]) /\ connQ'[x][i] = connQ[x][i]
  BY <1>1, <1>2, ConnWaiting
<1>7. ASSUME NEW x \in Conn, NEW i \in 1 .. Len(connQ'[x])
      PROVE  Suspended(connQ[x][i])'
  <2>1. Suspended(connQ'[x][i]) \/ connQ'[x][i] = job
    BY <1>6, <1>7 DEF Typed, Chained
  <2> QED BY <1>2, <1>4, <2>1 DEF Suspended
<1> QED BY <1>2, <1>5, <1>7 DEF Typed, Chained

LEMMA RunEndChained ==
  ASSUME Typed, NEW s \in SessId, RunEnd(s)
  PROVE  Chained'
<1> DEFINE job == [op |-> "syncSess", sess |-> s]
           c == sess[s].conn
<1>1. c \in Conn /\ job \in ConnJob
  BY HeadOfSession DEF RunEnd, SessTurn, ConnJob
<1>2. /\ connQ' = Waiting(connQ, c, job) /\ ending' = ending \cup {s}
      /\ UNCHANGED <<sessQ, resQ, cancelling>> /\ s \notin ending /\ sessQ[s] # <<>>
  BY DEF RunEnd, SessTurn
<1>3. \A i \in 1 .. Len(connQ[c]) : connQ[c][i] # job
  BY <1>1, <1>2 DEF Typed, Chained, Suspended
<1>4. job.op = "syncSess" /\ job.sess = s
  OBVIOUS
<1> HIDE DEF job, c
<1>5. OneSync'
  BY <1>1, <1>2, <1>3, WaitingOneSync
<1>6. \A x \in Conn : \A i \in 1 .. Len(connQ'[x]) :
        /\ x = c /\ i = Len(connQ[c]) + 1 => connQ'[x][i] = job
        /\ x # c \/ i # Len(connQ[c]) + 1
           => i \in 1 .. Len(connQ[x]) /\ connQ'[x][i] = connQ[x][i]
  BY <1>1, <1>2, ConnWaiting
<1>7. ASSUME NEW x \in Conn, NEW i \in 1 .. Len(connQ'[x])
      PROVE  Suspended(connQ[x][i])'
  <2>1. Suspended(connQ'[x][i]) \/ connQ'[x][i] = job
    BY <1>6, <1>7 DEF Typed, Chained
  <2> QED BY <1>2, <1>4, <2>1 DEF Suspended
<1> QED BY <1>2, <1>5, <1>7 DEF Typed, Chained

LEMMA WaitingFilled ==
  ASSUME NEW K, NEW S, NEW Q \in [K -> Seq(S)], NEW k \in K, NEW job \in S
  PROVE  \A x \in K : Q[x] # <<>> => Waiting(Q, k, job)[x] # <<>>
<1>1. Append(Q[k], job) # <<>>
  BY AppendProperties
<1> QED BY <1>1 DEF Waiting

(* A request of a client that joins the chain of a window or a session.    *)
LEMMA WaitsKeepKeys ==
  ASSUME Typed,
         \/ \E r \in ResId, by \in User \cup {Staff} :
              resQ' = Waiting(resQ, r, by) /\ sessQ' = sessQ
         \/ \E s \in SessId, job \in SessJob :
              sessQ' = Waiting(sessQ, s, job) /\ resQ' = resQ
  PROVE  /\ \A r \in cancelling : resQ'[r] # <<>>
         /\ \A s \in ending : sessQ'[s] # <<>>
<1>1. CASE \E r \in ResId, by \in User \cup {Staff} :
             resQ' = Waiting(resQ, r, by) /\ sessQ' = sessQ
  <2>1. PICK r \in ResId, by \in User \cup {Staff} :
          resQ' = Waiting(resQ, r, by) /\ sessQ' = sessQ
    BY <1>1
  <2>2. resQ \in [ResId -> Seq(User \cup {Staff})]
    BY DEF Typed, TypeOK
  <2>3. \A q \in ResId : resQ[q] # <<>> => Waiting(resQ, r, by)[q] # <<>>
    BY <2>2, WaitingFilled
  <2> QED BY <2>1, <2>3 DEF Typed, TypeOK, Chained
<1>2. CASE \E s \in SessId, job \in SessJob :
             sessQ' = Waiting(sessQ, s, job) /\ resQ' = resQ
  <2>1. PICK s \in SessId, job \in SessJob :
          sessQ' = Waiting(sessQ, s, job) /\ resQ' = resQ
    BY <1>2
  <2>2. sessQ \in [SessId -> Seq(SessJob)]
    BY DEF Typed, TypeOK
  <2>3. \A q \in SessId : sessQ[q] # <<>> => Waiting(sessQ, s, job)[q] # <<>>
    BY <2>2, WaitingFilled
  <2> QED BY <2>1, <2>3 DEF Typed, TypeOK, Chained
<1> QED BY <1>1, <1>2

LEMMA AskChained == ASSUME Typed, Ask PROVE Chained'
<1>1. ASSUME NEW c \in Conn, NEW u \in User, NEW b \in Time, NEW e \in Time,
             AskReserve(c, u, b, e)
      PROVE  Chained'
  <2>1. [op |-> "reserve", user |-> u, start |-> b, end |-> e] \in ConnJob
    BY DEF ConnJob
  <2> QED BY <1>1, <2>1, JoinChained DEF AskReserve
<1>2. ASSUME NEW c \in Conn, NEW u \in User, NEW r \in {NoRes} \cup ResId,
             AskStart(c, u, r)
      PROVE  Chained'
  <2>1. [op |-> "start", user |-> u, res |-> r] \in ConnJob
    BY DEF ConnJob
  <2> QED BY <1>2, <2>1, JoinChained DEF AskStart
<1>3. ASSUME NEW r \in ResId, AskExpire(r) PROVE Chained'
  <2> DEFINE c == resv[r].conn
             job == [op |-> "expire", res |-> r]
  <2>1. c \in Conn
    BY <1>3, Rows DEF AskExpire, Typed, Reservation
  <2>2. job \in ConnJob /\ job.op = "expire"
    BY DEF ConnJob
  <2>3. connQ' = Waiting(connQ, c, job) /\ UNCHANGED <<sessQ, resQ, holders>>
    BY <1>3 DEF AskExpire
  <2> HIDE DEF c, job
  <2> QED BY <2>1, <2>2, <2>3, JoinChained
<1>4. ASSUME NEW r \in ResId, NEW by \in User \cup {Staff}, AskCancel(r, by)
      PROVE  Chained'
  BY <1>4, WaitsKeepKeys, ChainsUntouched DEF AskCancel
<1>5. ASSUME NEW s \in SessId, NEW job \in SessJob,
             sessQ' = Waiting(sessQ, s, job), UNCHANGED <<connQ, resQ, holders>>
      PROVE  Chained'
  BY <1>5, WaitsKeepKeys, ChainsUntouched
<1>6. ASSUME NEW s \in SessId, NEW to \in MoveTo, AskMove(s, to) PROVE Chained'
  <2>1. [op |-> "move", to |-> to] \in SessJob
    BY Constants DEF SessJob
  <2> QED BY <1>5, <1>6, <2>1 DEF AskMove
<1>7. ASSUME NEW s \in SessId, AskTick(s) PROVE Chained'
  <2>1. [op |-> "tick", to |-> "CHARGING"] \in SessJob
    BY DEF SessJob, SessState, LiveState
  <2> QED BY <1>5, <1>7, <2>1 DEF AskTick
<1>8. ASSUME NEW s \in SessId, AskStop(s) PROVE Chained'
  <2>1. [op |-> "stop", to |-> StopTarget(sess[s].state)] \in SessJob
    BY DEF SessJob, SessState, EndState, StopTarget
  <2> QED BY <1>5, <1>8, <2>1 DEF AskStop
<1> QED BY <1>1, <1>2, <1>3, <1>4, <1>6, <1>7, <1>8 DEF Ask

LEMMA ResServed ==
  ASSUME Typed, NEW r \in ResId, RefuseCancel(r)
  PROVE  Chained'
<1>1. \A q \in cancelling : resQ'[q] # <<>>
  BY DEF RefuseCancel, Typed, TypeOK, Chained, Served
<1> QED BY <1>1, ChainsUntouched DEF RefuseCancel, Typed, Chained

LEMMA SessServed ==
  ASSUME Typed, NEW s \in SessId, SessTurn(s), sessQ' = Served(sessQ, s),
         UNCHANGED <<connQ, resQ, holders>>
  PROVE  Chained'
<1>1. \A t \in ending : sessQ'[t] # <<>>
  BY DEF SessTurn, Typed, TypeOK, Chained, Served
<1> QED BY <1>1, ChainsUntouched DEF Typed, Chained

LEMMA ConnStepTyped == ASSUME Typed, NEW c \in Conn, ConnStep(c) PROVE Typed'
<1>1. CASE RunReserve(c)
  BY <1>1, RunReserveSound, ServeChained, SoundKeepsTyped DEF RunReserve, HeadOp
<1>2. CASE RunStart(c)
  BY <1>2, RunStartSound, ServeChained, SoundKeepsTyped DEF RunStart, HeadOp
<1>3. CASE RunExpire(c)
  BY <1>3, RunExpireSound, ServeChained, SoundKeepsTyped DEF RunExpire, HeadOp
<1>4. CASE RunSyncRes(c)
  BY <1>4, RunSyncResSound, RunSyncResChained, SoundKeepsTyped
<1>5. CASE RunSyncSess(c)
  BY <1>5, RunSyncSessSound, RunSyncSessChained, SoundKeepsTyped
<1>6. CASE RefuseConn(c)
  BY <1>6, RefuseConnSound, ServeChained, SoundKeepsTyped DEF RefuseConn
<1> QED BY <1>1, <1>2, <1>3, <1>4, <1>5, <1>6 DEF ConnStep

LEMMA SessStepTyped == ASSUME Typed, NEW s \in SessId, SessStep(s) PROVE Typed'
<1>1. CASE RunTick(s)
  BY <1>1, RunTickSound, SessServed, SoundKeepsTyped DEF RunTick
<1>2. CASE RunMove(s)
  BY <1>2, RunMoveSound, SessServed, SoundKeepsTyped DEF RunMove
<1>3. CASE RunEnd(s)
  BY <1>3, RunEndSound, RunEndChained, SoundKeepsTyped
<1>4. CASE RefuseSess(s)
  BY <1>4, RefuseSessSound, SessServed, SoundKeepsTyped DEF RefuseSess
<1> QED BY <1>1, <1>2, <1>3, <1>4 DEF SessStep

LEMMA InitTyped == Init => Typed
<1> SUFFICES ASSUME Init PROVE Typed
  OBVIOUS
<1>1. TypeOK
  <2>1. <<>> \in Seq(ConnJob) /\ <<>> \in Seq(SessJob) /\ <<>> \in Seq(User \cup {Staff})
    BY EmptySeq
  <2> QED BY <2>1, Constants DEF Init, TypeOK, Time, ConnStatus
<1>2. AllPlaced /\ Chained
  <2>1. \A c \in Conn : connQ[c] = <<>> /\ Len(connQ[c]) = 0
    BY EmptySeq DEF Init
  <2>2. \A c \in Conn : 1 .. Len(connQ[c]) = {}
    BY <2>1
  <2> QED BY <2>2 DEF Init, AllPlaced, Chained, OneSync
<1> QED BY <1>1, <1>2 DEF Typed

LEMMA NextTyped == ASSUME Typed, [Next]_vars PROVE Typed'
<1>1. CASE TimePasses
  BY <1>1, TimePassesSound, ChainsUntouched, SoundKeepsTyped
     DEF TimePasses, queues, Typed, Chained
<1>2. CASE Ask
  BY <1>2, AskSound, AskChained, SoundKeepsTyped
<1>3. ASSUME NEW c \in Conn, ConnStep(c) PROVE Typed'
  BY <1>3, ConnStepTyped
<1>4. ASSUME NEW r \in ResId, ResStep(r) PROVE Typed'
  BY <1>4, RunCancelSound, RunCancelChained, RefuseCancelSound, ResServed, SoundKeepsTyped
     DEF ResStep
<1>5. ASSUME NEW s \in SessId, SessStep(s) PROVE Typed'
  BY <1>5, SessStepTyped
<1>6. CASE UNCHANGED vars
  BY <1>6 DEF vars, data, queues, holders, Typed, TypeOK, AllPlaced, Placed, Chained,
              OneSync, Suspended
<1> QED BY <1>1, <1>2, <1>3, <1>4, <1>5, <1>6 DEF Next

LEMMA TypedInvariant == Spec => []Typed
<1> QED BY InitTyped, NextTyped, PTL DEF Spec

(* The rows, the chains and the suspended bodies always have their types,  *)
(* and row ids are handed out in order.                                    *)
THEOREM TypeCorrect == Spec => []TypeOK
<1>1. Typed => TypeOK
  BY DEF Typed
<1> QED BY <1>1, TypedInvariant, PTL

(* ------------------------------- effects -------------------------------- *)

(* What each body does to the rows and to the connector status, with the   *)
(* facts about its request that the invariants need.                       *)

Quiet == UNCHANGED <<data, holders>>

Books(c) ==
  \E r \in ResId, row \in Reservation :
    /\ resv[r] = NoRow /\ resv' = [resv EXCEPT ![r] = row]
    /\ row.conn = c /\ row.status = "BOOKED"
    /\ \A q \in ResId : resv[q].status \in {"BOOKED", "CONVERTED"} /\ resv[q].conn = c
         => resv[q].end <= row.start \/ row.end <= resv[q].start
    /\ Bookable(c) /\ cstat' = [cstat EXCEPT ![c] = "RESERVED"]
    /\ UNCHANGED <<sess, nSess, holders>>

Begins(c) ==
  \E s \in SessId, row \in Session :
    /\ sess[s] = NoSession /\ sess' = [sess EXCEPT ![s] = row]
    /\ row.conn = c /\ row.state = "PREPARING"
    /\ row.res \in ResId =>
         /\ resv[row.res].status = "BOOKED" /\ resv[row.res].conn = c
         /\ resv[row.res].user = row.user
         /\ resv' = [resv EXCEPT ![row.res].status = "CONVERTED"]
    /\ row.res \notin ResId => resv' = resv
    /\ Bookable(c) /\ cstat' = [cstat EXCEPT ![c] = "OCCUPIED"]
    /\ UNCHANGED holders

Expires(c) ==
  \E r \in ResId :
    /\ resv[r].status = "BOOKED" /\ resv[r].conn = c
    /\ resv' = [resv EXCEPT ![r].status = "EXPIRED"]
    /\ cstat' = [cstat EXCEPT ![c] = Held(c, resv')]
    /\ UNCHANGED <<sess, nSess, holders>>

(* The sync of a window's cancellation, or of a session's end.             *)
Syncs(c) ==
  /\ cstat' = [cstat EXCEPT ![c] = Held(c, resv)]
  /\ \A r \in cancelling : r \in cancelling' \/ resv[r].conn = c
  /\ \A s \in ending : s \in ending' \/ sess[s].conn = c
  /\ cancelling' \subseteq cancelling
  /\ UNCHANGED <<resv, nRes, sess, nSess>>

Cancels(r) ==
  /\ resv[r].status = "BOOKED"
  /\ resv' = [resv EXCEPT ![r].status = "CANCELLED"]
  /\ cancelling' = cancelling \cup {r}
  /\ UNCHANGED <<cstat, sess, nSess, ending>>

(* A tick or a move of a live session that stays live, or a tick of one    *)
(* that is over.                                                           *)
Goes(s) ==
  \E to \in SessState :
    /\ sess[s] # NoSession
    /\ sess[s].state \in LiveState <=> to \in LiveState
    /\ to \notin LiveState => to = sess[s].state
    /\ sess' = [sess EXCEPT ![s].state = to]
    /\ \/ cstat' = cstat
       \/ to \in LiveState /\ cstat' = [cstat EXCEPT ![sess[s].conn] = "OCCUPIED"]
    /\ UNCHANGED <<resv, nRes, nSess, holders>>

Ends(s) ==
  \E to \in EndState :
    /\ sess[s].state \in LiveState
    /\ sess' = [sess EXCEPT ![s].state = to]
    /\ cstat' = [cstat EXCEPT ![sess[s].conn] = "AVAILABLE"]
    /\ ending' = ending \cup {s}
    /\ UNCHANGED <<resv, nRes, nSess, cancelling>>

Effect ==
  \/ Quiet
  \/ \E c \in Conn : Books(c) \/ Begins(c) \/ Expires(c) \/ Syncs(c)
  \/ \E r \in ResId : Cancels(r)
  \/ \E s \in SessId : Goes(s) \/ Ends(s)

LEMMA RunReserveEffect == ASSUME Typed, NEW c \in Conn, RunReserve(c) PROVE Books(c)
<1> DEFINE j == Head(connQ[c])
           r == nRes + 1
           row == [conn |-> c, user |-> j.user, start |-> j.start, end |-> j.end,
                   status |-> "BOOKED"]
<1>1. connQ[c] # <<>> /\ j.op = "reserve" /\ nRes < MaxRes /\ Bookable(c)
  BY DEF RunReserve, HeadOp, CanReserve
<1>2. j \in ConnJob /\ j.user \in User /\ j.start \in Time /\ j.end \in Time
  BY <1>1, HeadPlaced, Jobs
<1>3. row \in Reservation
  BY <1>2 DEF Reservation
<1>4. r \in ResId /\ resv[r] = NoRow
  BY <1>1, Constants DEF Typed, TypeOK, ResId
<1>5. ASSUME NEW q \in ResId, resv[q].status \in {"BOOKED", "CONVERTED"}, resv[q].conn = c
      PROVE  resv[q].end <= row.start \/ row.end <= resv[q].start
  <2>1. ~Overlaps(q, j.start, j.end)
    BY <1>5 DEF RunReserve, CanReserve, Active
  <2>2. resv[q] \in Reservation
    BY <1>5, Rows DEF Typed
  <2>3. resv[q].start \in Nat /\ resv[q].end \in Nat /\ j.start \in Nat /\ j.end \in Nat
    BY <1>2, <2>2, Constants DEF Reservation
  <2>4. row.start = j.start /\ row.end = j.end
    OBVIOUS
  <2> HIDE DEF row, j
  <2> QED BY <2>1, <2>3, <2>4 DEF Overlaps
<1>6. /\ resv' = [resv EXCEPT ![r] = row] /\ cstat' = [cstat EXCEPT ![c] = "RESERVED"]
      /\ UNCHANGED <<sess, nSess, holders>>
  BY DEF RunReserve
<1>7. row.conn = c /\ row.status = "BOOKED"
  OBVIOUS
<1> HIDE DEF row, j, r
<1> QED BY <1>1, <1>3, <1>4, <1>5, <1>6, <1>7 DEF Books

LEMMA RunStartEffect == ASSUME Typed, NEW c \in Conn, RunStart(c) PROVE Begins(c)
<1> DEFINE j == Head(connQ[c])
           s == nSess + 1
<1>1. PICK r \in Claims(c, j) :
        /\ sess' = [sess EXCEPT ![s] =
                      [conn |-> c, user |-> j.user, res |-> r, state |-> "PREPARING"]]
        /\ resv' = IF r = NoRes THEN resv ELSE [resv EXCEPT ![r].status = "CONVERTED"]
  BY DEF RunStart
<1> DEFINE row == [conn |-> c, user |-> j.user, res |-> r, state |-> "PREPARING"]
<1>2. connQ[c] # <<>> /\ j.op = "start" /\ nSess < MaxSess /\ Bookable(c)
  BY DEF RunStart, HeadOp
<1>3. j \in ConnJob /\ j.user \in User
  BY <1>2, HeadPlaced, Jobs
<1>4. row \in Session
  BY <1>3, ClaimsType DEF Session, SessState, LiveState
<1>5. s \in SessId /\ sess[s] = NoSession
  BY <1>2, Constants DEF Typed, TypeOK, SessId
<1>6. r \in ResId =>
        /\ resv[r].status = "BOOKED" /\ resv[r].conn = c /\ resv[r].user = j.user
        /\ resv' = [resv EXCEPT ![r].status = "CONVERTED"]
  <2>1. r \in ResId => r # NoRes
    BY Constants DEF ResId
  <2> QED BY <1>1, <2>1, ClaimsOwn
<1>7. r \notin ResId => resv' = resv
  BY <1>1, ClaimsType
<1>8. cstat' = [cstat EXCEPT ![c] = "OCCUPIED"] /\ UNCHANGED holders
  BY DEF RunStart
<1>9. row.conn = c /\ row.state = "PREPARING" /\ row.res = r /\ row.user = j.user
  OBVIOUS
<1>10. sess' = [sess EXCEPT ![s] = row]
  BY <1>1
<1> HIDE DEF row, j, s
<1> QED BY <1>2, <1>4, <1>5, <1>6, <1>7, <1>8, <1>9, <1>10 DEF Begins

LEMMA RunExpireEffect == ASSUME Typed, NEW c \in Conn, RunExpire(c) PROVE Expires(c)
<1> DEFINE r == Head(connQ[c]).res
<1>1. connQ[c] # <<>> /\ Head(connQ[c]).op = "expire"
  BY DEF RunExpire, HeadOp
<1>2. r \in ResId /\ resv[r].conn = c
  BY <1>1, HeadPlaced, Jobs DEF Placed
<1> QED BY <1>2 DEF RunExpire, Expires

LEMMA RunSyncEffect ==
  ASSUME Typed, NEW c \in Conn, RunSyncRes(c) \/ RunSyncSess(c)
  PROVE  Syncs(c)
<1>1. CASE RunSyncRes(c)
  <2>1. resv[Head(connQ[c]).res].conn = c
    BY <1>1, HeadPlaced DEF RunSyncRes, HeadOp, Placed
  <2> QED BY <1>1, <2>1 DEF RunSyncRes, Syncs
<1>2. CASE RunSyncSess(c)
  <2>1. sess[Head(connQ[c]).sess].conn = c
    BY <1>2, HeadPlaced DEF RunSyncSess, HeadOp, Placed
  <2> QED BY <1>2, <2>1 DEF RunSyncSess, Syncs
<1> QED BY <1>1, <1>2

LEMMA SessEffect ==
  ASSUME Typed, NEW s \in SessId, SessStep(s)
  PROVE  Quiet \/ Goes(s) \/ Ends(s)
<1>1. CASE RunTick(s)
  <2> DEFINE to == IF sess[s].state = "PREPARING" THEN "CHARGING" ELSE sess[s].state
  <2>1. sess[s] # NoSession
    BY <1>1, HeadOfSession DEF RunTick, SessTurn
  <2>2. to \in SessState
    BY <2>1, Rows DEF Typed, SessState, LiveState
  <2>3. /\ sess[s].state \in LiveState <=> to \in LiveState
        /\ to \notin LiveState => to = sess[s].state
    BY DEF LiveState
  <2>4. sess' = [sess EXCEPT ![s].state = to]
    BY <1>1 DEF RunTick
  <2> HIDE DEF to
  <2> QED BY <1>1, <2>1, <2>2, <2>3, <2>4 DEF RunTick, Goes
<1>2. CASE RunMove(s)
  <2> DEFINE to == Head(sessQ[s]).to
  <2>1. sess[s] # NoSession /\ to \in SessState
    BY <1>2, HeadOfSession DEF RunMove, SessTurn
  <2>2. /\ to \in LiveState /\ LegalTransition(sess[s].state, to)
        /\ sess' = [sess EXCEPT ![s].state = to]
    BY <1>2 DEF RunMove
  <2>3. sess[s].state \in LiveState
    BY <2>2 DEF LegalTransition, LiveState
  <2>4. cstat' = cstat \/ cstat' = [cstat EXCEPT ![sess[s].conn] = "OCCUPIED"]
    BY <1>2 DEF RunMove
  <2> HIDE DEF to
  <2> QED BY <1>2, <2>1, <2>2, <2>3, <2>4 DEF RunMove, Goes
<1>3. CASE RunEnd(s)
  <2> DEFINE to == Head(sessQ[s]).to
  <2>1. /\ to \in EndState /\ LegalTransition(sess[s].state, to)
        /\ sess' = [sess EXCEPT ![s].state = to]
    BY <1>3 DEF RunEnd
  <2>2. sess[s].state \in LiveState
    BY <2>1 DEF LegalTransition, LiveState
  <2> HIDE DEF to
  <2> QED BY <1>3, <2>1, <2>2 DEF RunEnd, Ends
<1>4. CASE RefuseSess(s)
  BY <1>4 DEF RefuseSess, Quiet
<1> QED BY <1>1, <1>2, <1>3, <1>4 DEF SessStep

LEMMA NextEffect == ASSUME Typed, [Next]_vars PROVE Effect
<1>1. CASE TimePasses
  BY <1>1 DEF TimePasses, Effect, Quiet
<1>2. CASE Ask
  BY <1>2 DEF Ask, AskReserve, AskStart, AskExpire, AskCancel, AskMove, AskTick, AskStop,
              Effect, Quiet
<1>3. ASSUME NEW c \in Conn, ConnStep(c) PROVE Effect
  <2>1. CASE RefuseConn(c)
    BY <2>1 DEF RefuseConn, Effect, Quiet
  <2> QED BY <1>3, <2>1, RunReserveEffect, RunStartEffect, RunExpireEffect, RunSyncEffect
          DEF ConnStep, Effect
<1>4. ASSUME NEW r \in ResId, ResStep(r) PROVE Effect
  BY <1>4 DEF ResStep, RunCancel, RefuseCancel, Effect, Quiet, Cancels
<1>5. ASSUME NEW s \in SessId, SessStep(s) PROVE Effect
  BY <1>5, SessEffect DEF Effect
<1>6. CASE UNCHANGED vars
  BY <1>6 DEF vars, Effect, Quiet
<1> QED BY <1>1, <1>2, <1>3, <1>4, <1>5, <1>6 DEF Next

(* --------------------------- windows: overlap --------------------------- *)

LEMMA OverlapKept ==
  ASSUME NoOverlap,
         \A r \in ResId : resv'[r].status \in {"BOOKED", "CONVERTED"} =>
           /\ resv[r].status \in {"BOOKED", "CONVERTED"}
           /\ resv'[r].conn = resv[r].conn
           /\ resv'[r].start = resv[r].start /\ resv'[r].end = resv[r].end
  PROVE  NoOverlap'
BY DEF NoOverlap

(* A BOOKED window that moves on keeps its place.                          *)
LEMMA OverlapStatus ==
  ASSUME TypeOK, NoOverlap, NEW r \in ResId, resv[r].status = "BOOKED",
         NEW to \in {"CONVERTED", "CANCELLED", "EXPIRED"},
         resv' = [resv EXCEPT ![r].status = to]
  PROVE  NoOverlap'
<1>1. resv[r] # NoRow
  BY DEF NoRow
<1>2. /\ \A q \in ResId : q # r => resv'[q] = resv[q]
      /\ \A q \in ResId : resv[q] # NoRow =>
           /\ resv'[q].conn = resv[q].conn
           /\ resv'[q].start = resv[q].start /\ resv'[q].end = resv[q].end
  BY <1>1, StatusChange
<1> QED BY <1>1, <1>2, OverlapKept

LEMMA NextNoOverlap == ASSUME Typed, Effect, NoOverlap PROVE NoOverlap'
<1>1. ASSUME NEW c \in Conn, Books(c) PROVE NoOverlap'
  <2>1. PICK r \in ResId, row \in Reservation :
          /\ resv' = [resv EXCEPT ![r] = row]
          /\ row.conn = c
          /\ \A q \in ResId : resv[q].status \in {"BOOKED", "CONVERTED"} /\ resv[q].conn = c
               => resv[q].end <= row.start \/ row.end <= resv[q].start
    BY <1>1 DEF Books
  <2>2. resv'[r] = row /\ \A q \in ResId : q # r => resv'[q] = resv[q]
    BY <2>1 DEF Typed, TypeOK
  <2> QED BY <2>1, <2>2 DEF NoOverlap
<1>2. ASSUME NEW c \in Conn, Begins(c) PROVE NoOverlap'
  <2>1. PICK row \in Session :
          /\ row.res \in ResId =>
               /\ resv[row.res].status = "BOOKED"
               /\ resv' = [resv EXCEPT ![row.res].status = "CONVERTED"]
          /\ row.res \notin ResId => resv' = resv
    BY <1>2 DEF Begins
  <2>2. CASE row.res \in ResId
    BY <2>1, <2>2, OverlapStatus DEF Typed
  <2>3. CASE row.res \notin ResId
    BY <2>1, <2>3 DEF NoOverlap
  <2> QED BY <2>2, <2>3
<1>3. ASSUME NEW c \in Conn, Expires(c) PROVE NoOverlap'
  BY <1>3, OverlapStatus DEF Expires, Typed
<1>4. ASSUME NEW r \in ResId, Cancels(r) PROVE NoOverlap'
  BY <1>4, OverlapStatus DEF Cancels, Typed
<1>5. CASE resv' = resv
  BY <1>5 DEF NoOverlap
<1> QED BY <1>1, <1>2, <1>3, <1>4, <1>5 DEF Effect, Quiet, data, Syncs, Goes, Ends

(* No two active windows of one connector overlap, whatever the number of  *)
(* drivers and requests (createReservation).                               *)
THEOREM WindowsNeverOverlap == Spec => []NoOverlap
<1>1. Init => NoOverlap
  BY DEF Init, NoOverlap, NoRow
<1>2. Typed /\ NoOverlap /\ [Next]_vars => NoOverlap'
  BY NextEffect, NextNoOverlap
<1> QED BY <1>1, <1>2, TypedInvariant, PTL DEF Spec

(* ------------------------ connectors: occupation ------------------------ *)

LEMMA HeldStatus ==
  ASSUME TypeOK, NEW c \in Conn, NEW rs
  PROVE  /\ (Held(c, rs) = "OCCUPIED") <=> (cstat[c] = "OCCUPIED")
         /\ (Held(c, rs) = "RESERVED") => BookedOn(c, rs) # {}
         /\ (Held(c, rs) = "AVAILABLE") => BookedOn(c, rs) = {}
BY DEF Held, Bookable

LEMMA LiveRows == \A s \in SessId : Live(s) => sess[s] # NoSession
BY DEF Live, LiveState, NoSession

(* How the sessions a connector serves change: one arrives where none was, *)
(* the one there is goes on, or it leaves.                                 *)
LEMMA LiveBegins ==
  ASSUME Typed, OneSessionPerConnector, NEW c \in Conn, Bookable(c),
         NEW s \in SessId, NEW row \in Session,
         sess[s] = NoSession, sess' = [sess EXCEPT ![s] = row],
         row.conn = c, row.state = "PREPARING"
  PROVE  /\ LiveOn(c) = {} /\ LiveOn(c)' = {s}
         /\ \A x \in Conn : x # c => LiveOn(x)' = LiveOn(x)
<1>1. sess'[s] = row /\ \A t \in SessId : t # s => sess'[t] = sess[t]
  BY DEF Typed, TypeOK
<1>2. LiveOn(c) = {}
  BY DEF OneSessionPerConnector, Bookable
<1>3. Live(s)' /\ \A t \in SessId : t # s => (Live(t)' <=> Live(t))
  BY <1>1 DEF Live, LiveState
<1>4. LiveOn(c)' = {s}
  BY <1>1, <1>2, <1>3 DEF LiveOn
<1>5. ASSUME NEW x \in Conn, x # c PROVE LiveOn(x)' = LiveOn(x)
  BY <1>1, <1>3, <1>5, LiveRows DEF LiveOn
<1> QED BY <1>2, <1>4, <1>5

LEMMA LiveGoes ==
  ASSUME Typed, NEW s \in SessId, Goes(s)
  PROVE  \A x \in Conn : LiveOn(x)' = LiveOn(x)
<1>1. PICK to \in SessState :
        /\ sess[s] # NoSession
        /\ sess[s].state \in LiveState <=> to \in LiveState
        /\ sess' = [sess EXCEPT ![s].state = to]
  BY DEF Goes
<1>2. \A t \in SessId : sess[t] # NoSession => sess'[t].conn = sess[t].conn
  BY <1>1, StateChange DEF Typed
<1>3. \A t \in SessId : Live(t)' <=> Live(t)
  BY <1>1, StateChange DEF Typed, Live
<1> QED BY <1>2, <1>3, LiveRows DEF LiveOn

LEMMA LiveEnds ==
  ASSUME Typed, OneSessionPerConnector, NEW s \in SessId, Ends(s), NEW c,
         c = sess[s].conn
  PROVE  /\ c \in Conn /\ cstat' = [cstat EXCEPT ![c] = "AVAILABLE"]
         /\ LiveOn(c) = {s} /\ LiveOn(c)' = {}
         /\ \A x \in Conn : x # c => LiveOn(x)' = LiveOn(x)
<1>1. PICK to \in EndState :
        /\ sess[s].state \in LiveState
        /\ sess' = [sess EXCEPT ![s].state = to]
        /\ cstat' = [cstat EXCEPT ![sess[s].conn] = "AVAILABLE"]
  BY DEF Ends
<1>2. sess[s] # NoSession /\ c \in Conn /\ Live(s)
  BY <1>1, LiveRows, Rows DEF Typed, Session, Live
<1>3. to \in SessState /\ to \notin LiveState
  BY DEF SessState, EndState, LiveState
<1>4. sess'[s].state = to /\ \A t \in SessId : t # s => sess'[t] = sess[t]
  BY <1>1, <1>2, <1>3, StateChange DEF Typed
<1>5. ~Live(s)' /\ \A t \in SessId : t # s => (Live(t)' <=> Live(t))
  BY <1>3, <1>4 DEF Live
<1>6. LiveOn(c) = {s}
  BY <1>2 DEF OneSessionPerConnector, LiveOn
<1>7. LiveOn(c)' = {}
  BY <1>4, <1>5, <1>6 DEF LiveOn
<1>8. ASSUME NEW x \in Conn, x # c PROVE LiveOn(x)' = LiveOn(x)
  BY <1>2, <1>4, <1>5, <1>8 DEF LiveOn
<1> QED BY <1>1, <1>2, <1>6, <1>7, <1>8

LEMMA NextOneSession ==
  ASSUME Typed, Effect, OneSessionPerConnector
  PROVE  OneSessionPerConnector'
<1>1. ASSUME \A c \in Conn : LiveOn(c)' = LiveOn(c),
             \A c \in Conn : cstat'[c] = "OCCUPIED" <=> cstat[c] = "OCCUPIED"
      PROVE  OneSessionPerConnector'
  BY <1>1 DEF OneSessionPerConnector
<1>2. sess' = sess => \A c \in Conn : LiveOn(c)' = LiveOn(c)
  BY DEF LiveOn, Live
<1>3. ASSUME NEW c \in Conn, Books(c) PROVE OneSessionPerConnector'
  BY <1>1, <1>2, <1>3 DEF Books, Bookable, Typed, TypeOK
<1>4. ASSUME NEW c \in Conn, Expires(c) \/ Syncs(c) PROVE OneSessionPerConnector'
  BY <1>1, <1>2, <1>4, HeldStatus DEF Expires, Syncs, Typed, TypeOK
<1>5. ASSUME NEW r \in ResId, Cancels(r) PROVE OneSessionPerConnector'
  BY <1>1, <1>2, <1>5 DEF Cancels
<1>6. CASE Quiet
  BY <1>1, <1>2, <1>6 DEF Quiet, data
<1>7. ASSUME NEW c \in Conn, Begins(c) PROVE OneSessionPerConnector'
  <2>1. PICK s \in SessId, row \in Session :
          /\ sess[s] = NoSession /\ sess' = [sess EXCEPT ![s] = row]
          /\ row.conn = c /\ row.state = "PREPARING"
          /\ Bookable(c) /\ cstat' = [cstat EXCEPT ![c] = "OCCUPIED"]
    BY <1>7 DEF Begins
  <2>2. cstat'[c] = "OCCUPIED" /\ \A x \in Conn : x # c => cstat'[x] = cstat[x]
    BY <2>1 DEF Typed, TypeOK
  <2>3. LiveOn(c)' = {s} /\ \A x \in Conn : x # c => LiveOn(x)' = LiveOn(x)
    BY <2>1, LiveBegins
  <2> QED BY <2>2, <2>3 DEF OneSessionPerConnector
<1>8. ASSUME NEW s \in SessId, Goes(s) PROVE OneSessionPerConnector'
  <2>1. PICK to \in SessState :
          /\ sess[s] # NoSession
          /\ sess[s].state \in LiveState <=> to \in LiveState
          /\ \/ cstat' = cstat
             \/ to \in LiveState /\ cstat' = [cstat EXCEPT ![sess[s].conn] = "OCCUPIED"]
    BY <1>8 DEF Goes
  <2>2. \A x \in Conn : LiveOn(x)' = LiveOn(x)
    BY <1>8, LiveGoes
  <2>3. \A x \in Conn : cstat'[x] = "OCCUPIED" <=> cstat[x] = "OCCUPIED"
    <3>1. CASE to \in LiveState
      <4>1. Live(s) /\ sess[s].conn \in Conn
        BY <2>1, <3>1, Rows DEF Live, Typed, Session
      <4>2. cstat[sess[s].conn] = "OCCUPIED"
        BY <4>1 DEF OneSessionPerConnector, LiveOn
      <4> QED BY <2>1, <4>1, <4>2 DEF Typed, TypeOK
    <3>2. CASE to \notin LiveState
      BY <2>1, <3>2
    <3> QED BY <3>1, <3>2
  <2> QED BY <1>1, <2>2, <2>3
<1>9. ASSUME NEW s \in SessId, Ends(s) PROVE OneSessionPerConnector'
  <2>1. PICK c : c = sess[s].conn
    OBVIOUS
  <2>2. /\ c \in Conn /\ cstat' = [cstat EXCEPT ![c] = "AVAILABLE"]
        /\ LiveOn(c)' = {} /\ \A x \in Conn : x # c => LiveOn(x)' = LiveOn(x)
    BY <1>9, <2>1, LiveEnds
  <2>3. cstat'[c] = "AVAILABLE" /\ \A x \in Conn : x # c => cstat'[x] = cstat[x]
    BY <2>2 DEF Typed, TypeOK
  <2> QED BY <2>2, <2>3 DEF OneSessionPerConnector
<1> QED BY <1>3, <1>4, <1>5, <1>6, <1>7, <1>8, <1>9 DEF Effect

(* A connector is OCCUPIED exactly while one session is live on it         *)
(* (startSession, transitionLocal, syncConnectorHold).                     *)
THEOREM OneSessionAtATime == Spec => []OneSessionPerConnector
<1>1. Init => OneSessionPerConnector
  BY DEF Init, OneSessionPerConnector, LiveOn, Live, LiveState, NoSession
<1>2. Typed /\ OneSessionPerConnector /\ [Next]_vars => OneSessionPerConnector'
  BY NextEffect, NextOneSession
<1> QED BY <1>1, <1>2, TypedInvariant, PTL DEF Spec

(* -------------------------- connectors: holds --------------------------- *)

(* A window that is settled is no longer waited for.                       *)
LEMMA BookedLess ==
  ASSUME TypeOK, NEW r \in ResId, resv[r].status = "BOOKED",
         NEW to \in {"CONVERTED", "CANCELLED", "EXPIRED"},
         resv' = [resv EXCEPT ![r].status = to]
  PROVE  /\ \A x \in Conn : BookedOn(x, resv') = BookedOn(x, resv) \ {r}
         /\ \A q \in ResId : resv[q].status \in {"CONVERTED", "CANCELLED", "EXPIRED"}
              => resv'[q] = resv[q]
         /\ resv'[r].status = to /\ \A q \in ResId : q # r => resv'[q] = resv[q]
         /\ \A q \in ResId : resv[q] # NoRow =>
              resv'[q].conn = resv[q].conn /\ resv'[q].user = resv[q].user
<1>1. resv[r] # NoRow
  BY DEF NoRow
<1>2. /\ \A q \in ResId : q # r => resv'[q] = resv[q]
      /\ resv'[r].status = to
      /\ \A q \in ResId : resv[q] # NoRow =>
           resv'[q].conn = resv[q].conn /\ resv'[q].user = resv[q].user
  BY <1>1, StatusChange
<1> QED BY <1>1, <1>2 DEF BookedOn

(* --------------------------- what is settled ---------------------------- *)

LEMMA WindowsSettled ==
  ASSUME Typed, Effect, NEW r \in ResId,
         resv[r].status \in {"CONVERTED", "CANCELLED", "EXPIRED"}
  PROVE  resv'[r] = resv[r]
<1>1. ASSUME NEW c \in Conn, Books(c) PROVE resv'[r] = resv[r]
  BY <1>1 DEF Books, Typed, TypeOK, NoRow
<1>2. ASSUME NEW c \in Conn, Begins(c) PROVE resv'[r] = resv[r]
  BY <1>2, BookedLess DEF Begins, Typed
<1>3. ASSUME NEW c \in Conn, Expires(c) PROVE resv'[r] = resv[r]
  BY <1>3, BookedLess DEF Expires, Typed
<1>4. ASSUME NEW q \in ResId, Cancels(q) PROVE resv'[r] = resv[r]
  BY <1>4, BookedLess DEF Cancels, Typed
<1> QED BY <1>1, <1>2, <1>3, <1>4 DEF Effect, Quiet, data, Syncs, Goes, Ends

LEMMA SessionsSettled ==
  ASSUME Typed, Effect, NEW s \in SessId, sess[s].state \in EndState
  PROVE  sess'[s] = sess[s]
<1>1. sess[s] # NoSession /\ sess[s] \in Session /\ sess[s].state \notin LiveState
  BY Rows DEF Typed, EndState, LiveState, NoSession
<1>2. ASSUME NEW c \in Conn, Begins(c) PROVE sess'[s] = sess[s]
  BY <1>1, <1>2 DEF Begins, Typed, TypeOK
<1>3. ASSUME NEW t \in SessId, Goes(t) PROVE sess'[s] = sess[s]
  <2>1. PICK to \in SessState :
          /\ to \notin LiveState => to = sess[t].state
          /\ sess[t].state \in LiveState <=> to \in LiveState
          /\ sess' = [sess EXCEPT ![t].state = to]
    BY <1>3 DEF Goes
  <2>2. CASE t # s
    BY <2>1, <2>2 DEF Typed, TypeOK
  <2>3. CASE t = s
    <3>1. sess'[s] = [sess[s] EXCEPT !.state = sess[s].state]
      BY <1>1, <2>1, <2>3 DEF Typed, TypeOK
    <3> QED BY <1>1, <3>1 DEF Session
  <2> QED BY <2>2, <2>3
<1>4. ASSUME NEW t \in SessId, Ends(t) PROVE sess'[s] = sess[s]
  BY <1>1, <1>4 DEF Ends, Typed, TypeOK
<1> QED BY <1>2, <1>3, <1>4 DEF Effect, Quiet, data, Syncs, Books, Expires, Cancels

(* What is settled stays settled: no request acts on what it read before   *)
(* its key was free (expireStale, cancelReservation, recordTick, stop).    *)
THEOREM SettledForGood == Spec => SettledStays
<1> DEFINE Stays ==
      /\ \A r \in ResId :
           resv[r].status \in {"CONVERTED", "CANCELLED", "EXPIRED"} => resv'[r] = resv[r]
      /\ \A s \in SessId : sess[s].state \in EndState => sess'[s] = sess[s]
<1>1. Typed /\ [Next]_vars => Stays
  BY NextEffect, WindowsSettled, SessionsSettled
<1>2. Typed /\ [Next]_vars => [Stays]_vars
  BY <1>1
<1> HIDE DEF Stays
<1>3. Spec => [][Stays]_vars
  BY <1>2, TypedInvariant, PTL DEF Spec
<1> QED BY <1>3 DEF SettledStays, Stays

(* The windows whose cancellation is suspended are CANCELLED already.      *)
CancelledRows == \A r \in cancelling : resv[r].status = "CANCELLED"

LEMMA NextCancelledRows ==
  ASSUME Typed, Effect, CancelledRows
  PROVE  CancelledRows'
<1>1. \A r \in cancelling : resv'[r] = resv[r]
  BY WindowsSettled DEF CancelledRows, Typed, TypeOK
<1>2. ASSUME NEW r \in ResId, Cancels(r) PROVE CancelledRows'
  <2>1. resv'[r].status = "CANCELLED" /\ cancelling' = cancelling \cup {r}
    BY <1>2, BookedLess DEF Cancels, Typed
  <2> QED BY <1>1, <2>1 DEF CancelledRows
<1>3. CASE cancelling' \subseteq cancelling
  BY <1>1, <1>3 DEF CancelledRows
<1> QED BY <1>2, <1>3 DEF Effect, Quiet, holders, Books, Begins, Expires, Syncs, Goes, Ends

(* What the two halves of HoldSound are about, per connector.              *)
HoldAt(c) ==
  /\ cstat[c] = "RESERVED" /\ BookedOn(c, resv) = {}
     => \E r \in cancelling : resv[r].conn = c
  /\ cstat[c] = "AVAILABLE" /\ BookedOn(c, resv) # {}
     => \E s \in ending : sess[s].conn = c

(* A connector a step does not touch stays as it was.                      *)
LEMMA HoldKept ==
  ASSUME NEW x \in Conn, HoldAt(x), cstat'[x] = cstat[x],
         BookedOn(x, resv') = {} <=> BookedOn(x, resv) = {},
         \A r \in cancelling : resv'[r] = resv[r] /\ (resv[r].conn = x => r \in cancelling'),
         \A s \in ending : sess[s].conn = x => s \in ending' /\ sess'[s].conn = x
  PROVE  HoldAt(x)'
BY DEF HoldAt

(* The rows of suspended bodies exist.                                     *)
LEMMA HolderRows ==
  ASSUME Typed
  PROVE  \A s \in ending : s \in SessId /\ sess[s] # NoSession
BY DEF Typed, TypeOK, AllPlaced, Chained

LEMMA NextHold == ASSUME Typed, Effect, CancelledRows, HoldSound PROVE HoldSound'
<1>1. \A r \in cancelling : resv'[r] = resv[r]
  BY WindowsSettled DEF CancelledRows, Typed, TypeOK
<1>2. \A x \in Conn : HoldAt(x)
  BY DEF HoldSound, HoldAt
<1>3. ASSUME \A x \in Conn : HoldAt(x)' PROVE HoldSound'
  BY <1>3 DEF HoldSound, HoldAt
<1>4. ASSUME NEW c \in Conn, Books(c) PROVE \A x \in Conn : HoldAt(x)'
  <2>1. PICK r \in ResId, row \in Reservation :
          /\ resv[r] = NoRow /\ resv' = [resv EXCEPT ![r] = row]
          /\ row.conn = c /\ row.status = "BOOKED"
          /\ cstat' = [cstat EXCEPT ![c] = "RESERVED"]
          /\ UNCHANGED <<sess, holders>>
    BY <1>4 DEF Books
  <2>2. resv'[r] = row /\ \A q \in ResId : q # r => resv'[q] = resv[q]
    BY <2>1 DEF Typed, TypeOK
  <2>3. cstat'[c] = "RESERVED" /\ \A x \in Conn : x # c => cstat'[x] = cstat[x]
    BY <2>1 DEF Typed, TypeOK
  <2>4. HoldAt(c)'
    BY <2>1, <2>2, <2>3 DEF HoldAt, BookedOn
  <2>5. ASSUME NEW x \in Conn, x # c PROVE HoldAt(x)'
    <3>1. BookedOn(x, resv') = BookedOn(x, resv)
      BY <2>1, <2>2, <2>5 DEF BookedOn, NoRow
    <3> QED BY <1>1, <1>2, <2>1, <2>3, <2>5, <3>1, HoldKept DEF holders
  <2> QED BY <2>4, <2>5
<1>5. ASSUME NEW c \in Conn, Begins(c) PROVE \A x \in Conn : HoldAt(x)'
  <2>1. PICK s \in SessId, row \in Session :
          /\ sess[s] = NoSession /\ sess' = [sess EXCEPT ![s] = row]
          /\ row.res \in ResId =>
               /\ resv[row.res].status = "BOOKED" /\ resv[row.res].conn = c
               /\ resv' = [resv EXCEPT ![row.res].status = "CONVERTED"]
          /\ row.res \notin ResId => resv' = resv
          /\ cstat' = [cstat EXCEPT ![c] = "OCCUPIED"] /\ UNCHANGED holders
    BY <1>5 DEF Begins
  <2>2. cstat'[c] = "OCCUPIED" /\ \A x \in Conn : x # c => cstat'[x] = cstat[x]
    BY <2>1 DEF Typed, TypeOK
  <2>3. \A t \in ending : sess'[t] = sess[t]
    BY <2>1, HolderRows DEF Typed, TypeOK
  <2>4. ASSUME NEW x \in Conn, x # c PROVE BookedOn(x, resv') = BookedOn(x, resv)
    <3>1. CASE row.res \in ResId
      <4>1. BookedOn(x, resv') = BookedOn(x, resv) \ {row.res}
        BY <2>1, <3>1, BookedLess DEF Typed
      <4> QED BY <2>1, <2>4, <3>1, <4>1 DEF BookedOn
    <3> QED BY <2>1, <3>1
  <2> QED BY <1>1, <1>2, <2>1, <2>2, <2>3, <2>4, HoldKept DEF holders, HoldAt
<1>6. ASSUME NEW c \in Conn, Expires(c) PROVE \A x \in Conn : HoldAt(x)'
  <2>1. PICK r \in ResId :
          /\ resv[r].status = "BOOKED" /\ resv[r].conn = c
          /\ resv' = [resv EXCEPT ![r].status = "EXPIRED"]
          /\ cstat' = [cstat EXCEPT ![c] = Held(c, resv')]
          /\ UNCHANGED <<sess, holders>>
    BY <1>6 DEF Expires
  <2>2. \A x \in Conn : BookedOn(x, resv') = BookedOn(x, resv) \ {r}
    BY <2>1, BookedLess DEF Typed
  <2>3. cstat'[c] = Held(c, resv') /\ \A x \in Conn : x # c => cstat'[x] = cstat[x]
    BY <2>1 DEF Typed, TypeOK
  <2>4. HoldAt(c)'
    BY <2>3, HeldStatus DEF HoldAt, Typed
  <2>5. ASSUME NEW x \in Conn, x # c PROVE BookedOn(x, resv') = BookedOn(x, resv)
    BY <2>1, <2>2, <2>5 DEF BookedOn
  <2> QED BY <1>1, <1>2, <2>1, <2>3, <2>4, <2>5, HoldKept DEF holders
<1>7. ASSUME NEW c \in Conn, Syncs(c) PROVE \A x \in Conn : HoldAt(x)'
  <2>1. cstat'[c] = Held(c, resv) /\ \A x \in Conn : x # c => cstat'[x] = cstat[x]
    BY <1>7 DEF Syncs, Typed, TypeOK
  <2>2. HoldAt(c)'
    BY <1>7, <2>1, HeldStatus DEF Syncs, HoldAt, Typed
  <2>3. ASSUME NEW x \in Conn, x # c PROVE HoldAt(x)'
    BY <1>2, <1>7, <2>1, <2>3 DEF Syncs, HoldAt
  <2> QED BY <2>2, <2>3
<1>8. ASSUME NEW r \in ResId, Cancels(r) PROVE \A x \in Conn : HoldAt(x)'
  <2>1. /\ \A x \in Conn : BookedOn(x, resv') = BookedOn(x, resv) \ {r}
        /\ resv[r] # NoRow
        /\ \A q \in ResId : resv[q] # NoRow => resv'[q].conn = resv[q].conn
    BY <1>8, BookedLess, Rows DEF Cancels, Typed, NoRow
  <2>2. ASSUME NEW x \in Conn, resv[r].conn = x PROVE HoldAt(x)'
    BY <1>2, <1>8, <2>1, <2>2 DEF Cancels, HoldAt
  <2>3. ASSUME NEW x \in Conn, resv[r].conn # x PROVE HoldAt(x)'
    <3>1. BookedOn(x, resv') = BookedOn(x, resv)
      BY <2>1, <2>3 DEF BookedOn
    <3> QED BY <1>1, <1>2, <1>8, <3>1, HoldKept DEF Cancels
  <2> QED BY <2>2, <2>3
<1>9. ASSUME NEW s \in SessId, Goes(s) PROVE \A x \in Conn : HoldAt(x)'
  <2>1. PICK to \in SessState :
          /\ sess[s] # NoSession /\ sess' = [sess EXCEPT ![s].state = to]
          /\ cstat' = cstat \/ cstat' = [cstat EXCEPT ![sess[s].conn] = "OCCUPIED"]
          /\ UNCHANGED <<resv, holders>>
    BY <1>9 DEF Goes
  <2>2. \A t \in SessId : sess[t] # NoSession => sess'[t].conn = sess[t].conn
    BY <2>1, StateChange DEF Typed
  <2>3. \A t \in ending : sess'[t].conn = sess[t].conn
    BY <2>2, HolderRows
  <2>4. \A x \in Conn : cstat'[x] = cstat[x] \/ cstat'[x] = "OCCUPIED"
    BY <2>1 DEF Typed, TypeOK
  <2> QED BY <1>2, <2>1, <2>3, <2>4 DEF holders, HoldAt
<1>10. ASSUME NEW s \in SessId, Ends(s) PROVE \A x \in Conn : HoldAt(x)'
  <2>1. PICK to \in EndState :
          /\ sess[s].state \in LiveState /\ sess' = [sess EXCEPT ![s].state = to]
          /\ cstat' = [cstat EXCEPT ![sess[s].conn] = "AVAILABLE"]
          /\ ending' = ending \cup {s} /\ UNCHANGED <<resv, cancelling>>
    BY <1>10 DEF Ends
  <2>2. sess[s] # NoSession /\ to \in SessState
    BY <2>1 DEF NoSession, LiveState, SessState
  <2>3. \A t \in SessId : sess[t] # NoSession => sess'[t].conn = sess[t].conn
    BY <2>1, <2>2, StateChange DEF Typed
  <2>4. sess'[s].conn = sess[s].conn /\ \A t \in ending : sess'[t].conn = sess[t].conn
    BY <2>2, <2>3, HolderRows
  <2>5. ASSUME NEW x \in Conn, x = sess[s].conn PROVE HoldAt(x)'
    BY <2>1, <2>4, <2>5 DEF HoldAt, Typed, TypeOK
  <2>6. ASSUME NEW x \in Conn, x # sess[s].conn PROVE HoldAt(x)'
    <3>1. cstat'[x] = cstat[x]
      BY <2>1, <2>6 DEF Typed, TypeOK
    <3> QED BY <1>2, <2>1, <2>4, <3>1 DEF HoldAt
  <2> QED BY <2>5, <2>6
<1>11. CASE Quiet
  BY <1>2, <1>3, <1>11 DEF Quiet, data, holders, HoldAt
<1> QED BY <1>3, <1>4, <1>5, <1>6, <1>7, <1>8, <1>9, <1>10, <1>11 DEF Effect

(* A connector out of use is RESERVED exactly when it has a BOOKED window, *)
(* except while the body that makes the difference is suspended before its *)
(* own sync (syncConnectorHold, F-05).                                     *)
THEOREM HoldsDerived == Spec => []HoldSound
<1>1. Init => CancelledRows /\ HoldSound
  BY DEF Init, CancelledRows, HoldSound, BookedOn, NoRow
<1>2. Typed /\ CancelledRows /\ HoldSound /\ [Next]_vars => CancelledRows' /\ HoldSound'
  BY NextEffect, NextCancelledRows, NextHold
<1> QED BY <1>1, <1>2, TypedInvariant, PTL DEF Spec

(* -------------------------- windows: conversion ------------------------- *)

(* The sessions that consumed a window.                                    *)
UsersOf(r) == {s \in SessId : sess[s] # NoSession /\ sess[s].res = r}

ConvertedAt(r) ==
  /\ resv[r].status = "CONVERTED" <=> UsersOf(r) # {}
  /\ \A s, t \in UsersOf(r) : s = t
  /\ \A s \in UsersOf(r) : sess[s].user = resv[r].user /\ sess[s].conn = resv[r].conn

LEMMA ConvertedByWindow == ConvertedOnce <=> \A r \in ResId : ConvertedAt(r)
BY DEF ConvertedOnce, ConvertedAt, UsersOf

(* A window whose status does not change keeps the sessions that used it.  *)
LEMMA ConvertedKept ==
  ASSUME NEW r \in ResId, ConvertedAt(r),
         resv'[r].status = "CONVERTED" <=> resv[r].status = "CONVERTED",
         resv'[r].user = resv[r].user, resv'[r].conn = resv[r].conn,
         \A s \in SessId :
           /\ sess'[s] # NoSession /\ sess'[s].res = r
              <=> sess[s] # NoSession /\ sess[s].res = r
           /\ sess[s] # NoSession =>
                sess'[s].user = sess[s].user /\ sess'[s].conn = sess[s].conn
  PROVE  ConvertedAt(r)'
<1>1. UsersOf(r)' = UsersOf(r)
  BY DEF UsersOf
<1>2. \A s \in UsersOf(r) : sess[s] # NoSession /\ s \in SessId
  BY DEF UsersOf
<1> QED BY <1>1, <1>2 DEF ConvertedAt

LEMMA NextConverted == ASSUME Typed, Effect, ConvertedOnce PROVE ConvertedOnce'
<1>1. \A r \in ResId : ConvertedAt(r)
  BY ConvertedByWindow
<1>2. ASSUME \A r \in ResId : ConvertedAt(r)' PROVE ConvertedOnce'
  BY <1>2 DEF ConvertedOnce, ConvertedAt, UsersOf
<1>3. ASSUME sess' = sess, NEW r \in ResId, resv[r].status = "BOOKED",
             NEW to \in {"CANCELLED", "EXPIRED"}, resv' = [resv EXCEPT ![r].status = to]
      PROVE  ConvertedOnce'
  <2>1. /\ resv'[r].status = to /\ \A q \in ResId : q # r => resv'[q] = resv[q]
        /\ resv[r] # NoRow
        /\ \A q \in ResId : resv[q] # NoRow =>
             resv'[q].conn = resv[q].conn /\ resv'[q].user = resv[q].user
    BY <1>3, BookedLess, Rows DEF Typed, NoRow
  <2>2. ASSUME NEW q \in ResId PROVE ConvertedAt(q)'
    <3>1. resv'[q].user = resv[q].user /\ resv'[q].conn = resv[q].conn
      BY <2>1
    <3>2. resv'[q].status = "CONVERTED" <=> resv[q].status = "CONVERTED"
      BY <1>3, <2>1
    <3> QED BY <1>1, <1>3, <3>1, <3>2, ConvertedKept
  <2> QED BY <1>2, <2>2
<1>4. ASSUME NEW s \in SessId, sess[s] # NoSession, NEW to \in SessState,
             sess' = [sess EXCEPT ![s].state = to], resv' = resv
      PROVE  ConvertedOnce'
  <2>1. \A t \in SessId :
          /\ sess'[t] = NoSession <=> sess[t] = NoSession
          /\ sess[t] # NoSession =>
               /\ sess'[t].conn = sess[t].conn /\ sess'[t].user = sess[t].user
               /\ sess'[t].res = sess[t].res
    BY <1>4, StateChange DEF Typed
  <2>2. ASSUME NEW q \in ResId PROVE ConvertedAt(q)'
    BY <1>1, <1>4, <2>1, ConvertedKept
  <2> QED BY <1>2, <2>2
<1>5. ASSUME NEW c \in Conn, Books(c) PROVE ConvertedOnce'
  <2>1. PICK r \in ResId, row \in Reservation :
          /\ resv[r] = NoRow /\ resv' = [resv EXCEPT ![r] = row]
          /\ row.status = "BOOKED" /\ sess' = sess
    BY <1>5 DEF Books
  <2>2. resv'[r] = row /\ \A q \in ResId : q # r => resv'[q] = resv[q]
    BY <2>1 DEF Typed, TypeOK
  <2>3. UsersOf(r) = {}
    BY <1>1, <2>1 DEF ConvertedAt, NoRow
  <2>4. UsersOf(r)' = {}
    BY <2>1, <2>3 DEF UsersOf
  <2>5. ConvertedAt(r)'
    BY <2>1, <2>2, <2>4 DEF ConvertedAt
  <2>6. ASSUME NEW q \in ResId, q # r PROVE ConvertedAt(q)'
    BY <1>1, <2>1, <2>2, <2>6, ConvertedKept
  <2> QED BY <1>2, <2>5, <2>6
<1>6. ASSUME NEW c \in Conn, Begins(c) PROVE ConvertedOnce'
  <2>1. PICK s \in SessId, row \in Session :
          /\ sess[s] = NoSession /\ sess' = [sess EXCEPT ![s] = row]
          /\ row.conn = c
          /\ row.res \in ResId =>
               /\ resv[row.res].status = "BOOKED" /\ resv[row.res].conn = c
               /\ resv[row.res].user = row.user
               /\ resv' = [resv EXCEPT ![row.res].status = "CONVERTED"]
          /\ row.res \notin ResId => resv' = resv
    BY <1>6 DEF Begins
  <2>2. sess'[s] = row /\ \A t \in SessId : t # s => sess'[t] = sess[t]
    BY <2>1 DEF Typed, TypeOK
  <2>3. row # NoSession
    BY DEF Session, NoSession
  <2>4. ASSUME NEW q \in ResId, q # row.res PROVE ConvertedAt(q)'
    <3>1. resv'[q] = resv[q]
      BY <2>1, <2>4, BookedLess DEF Typed
    <3> QED BY <1>1, <2>1, <2>2, <2>4, <3>1, ConvertedKept
  <2>5. ASSUME row.res \in ResId PROVE ConvertedAt(row.res)'
    <3>1. UsersOf(row.res) = {}
      BY <1>1, <2>1, <2>5 DEF ConvertedAt
    <3>2. UsersOf(row.res)' = {s}
      BY <2>1, <2>2, <2>3, <3>1 DEF UsersOf
    <3>3. /\ resv'[row.res].status = "CONVERTED"
          /\ resv'[row.res].conn = c /\ resv'[row.res].user = row.user
      <4>1. resv[row.res] # NoRow
        BY <2>1, <2>5 DEF NoRow
      <4> QED BY <2>1, <2>5, <4>1, BookedLess DEF Typed
    <3> QED BY <2>1, <2>2, <3>2, <3>3 DEF ConvertedAt
  <2> QED BY <1>2, <2>4, <2>5
<1>7. CASE UNCHANGED <<resv, sess>>
  BY <1>7 DEF ConvertedOnce
<1>8. ASSUME NEW s \in SessId, Ends(s) PROVE ConvertedOnce'
  <2>1. sess[s] # NoSession
    BY <1>8 DEF Ends, NoSession, LiveState
  <2> QED BY <1>4, <1>8, <2>1 DEF Ends, SessState
<1>9. ASSUME NEW s \in SessId, Goes(s) PROVE ConvertedOnce'
  BY <1>4, <1>9 DEF Goes
<1>10. ASSUME NEW c \in Conn, Expires(c) PROVE ConvertedOnce'
  BY <1>3, <1>10 DEF Expires
<1>11. ASSUME NEW r \in ResId, Cancels(r) PROVE ConvertedOnce'
  BY <1>3, <1>11 DEF Cancels
<1> QED BY <1>5, <1>6, <1>7, <1>8, <1>9, <1>10, <1>11 DEF Effect, Quiet, data, Syncs

(* A window is CONVERTED exactly when one session, its owner's and on its  *)
(* connector, consumed it (startSession, B2G-013).                         *)
THEOREM ConvertedByOne == Spec => []ConvertedOnce
<1>1. Init => ConvertedOnce
  BY DEF Init, ConvertedOnce, NoRow
<1>2. Typed /\ ConvertedOnce /\ [Next]_vars => ConvertedOnce'
  BY NextEffect, NextConverted
<1> QED BY <1>1, <1>2, TypedInvariant, PTL DEF Spec

(* ------------------------- the promise is kept -------------------------- *)

Occupied == [c \in Conn |-> LiveOn(c)]

LEMMA InitPromise == Init => Promise!Init
<1> SUFFICES ASSUME Init PROVE Promise!Init
  OBVIOUS
<1>1. \A c \in Conn : LiveOn(c) = {}
  BY DEF Init, LiveOn, Live, LiveState, NoSession
<1> QED BY <1>1 DEF Init, Promise!Init, Promise!NoRow, NoRow

(* A body that grants, withdraws or consumes a window, or begins or ends a *)
(* session, is that step of the promise; every other body is a stutter.    *)
LEMMA StepPromise ==
  ASSUME Typed, Effect, OneSessionPerConnector
  PROVE  [Promise!Next]_(Promise!vars)
<1>1. ASSUME sess' = sess PROVE Occupied' = Occupied
  BY <1>1 DEF Occupied, LiveOn, Live
<1>2. ASSUME resv' = resv, Occupied' = Occupied PROVE UNCHANGED Promise!vars
  BY <1>2 DEF Promise!vars, Occupied
<1>3. ASSUME NEW c \in Conn, Books(c) PROVE Promise!Next
  <2>1. PICK r \in ResId, row \in Reservation :
          /\ resv[r] = NoRow /\ resv' = [resv EXCEPT ![r] = row]
          /\ row.conn = c /\ row.status = "BOOKED"
          /\ \A q \in ResId : resv[q].status \in {"BOOKED", "CONVERTED"} /\ resv[q].conn = c
               => resv[q].end <= row.start \/ row.end <= resv[q].start
          /\ sess' = sess
    BY <1>3 DEF Books
  <2>2. PICK u \in User, b \in Time, e \in Time :
          row = [conn |-> c, user |-> u, start |-> b, end |-> e, status |-> "BOOKED"]
    BY <2>1 DEF Reservation
  <2>3. row.start = b /\ row.end = e
    BY <2>2
  <2>4. ASSUME NEW q \in ResId, resv[q].status \in {"BOOKED", "CONVERTED"}, resv[q].conn = c
        PROVE  resv[q].start >= e \/ resv[q].end <= b
    <3>1. resv[q] \in Reservation
      BY <2>4, Rows DEF Typed
    <3>2. resv[q].start \in Nat /\ resv[q].end \in Nat /\ b \in Nat /\ e \in Nat
      BY <3>1, Constants DEF Reservation
    <3> QED BY <2>1, <2>3, <2>4, <3>2
  <2>5. Promise!Grant(r, c, u, b, e)
    BY <1>1, <2>1, <2>2, <2>4 DEF Promise!Grant, Promise!Active, Promise!NoRow, NoRow, Occupied
  <2> QED BY <2>5 DEF Promise!Next
<1>4. ASSUME NEW c \in Conn, Begins(c) PROVE Promise!Next
  <2>1. PICK s \in SessId, row \in Session :
          /\ sess[s] = NoSession /\ sess' = [sess EXCEPT ![s] = row]
          /\ row.conn = c /\ row.state = "PREPARING"
          /\ row.res \in ResId =>
               /\ resv[row.res].status = "BOOKED" /\ resv[row.res].conn = c
               /\ resv[row.res].user = row.user
               /\ resv' = [resv EXCEPT ![row.res].status = "CONVERTED"]
          /\ row.res \notin ResId => resv' = resv
          /\ Bookable(c)
    BY <1>4 DEF Begins
  <2>2. /\ LiveOn(c) = {} /\ LiveOn(c)' = {s}
        /\ \A x \in Conn : x # c => LiveOn(x)' = LiveOn(x)
    BY <2>1, LiveBegins
  <2>3. Occupied[c] = {} /\ Occupied' = [Occupied EXCEPT ![c] = {s}]
    BY <2>2 DEF Occupied
  <2>4. CASE row.res \in ResId
    <3>1. row.user \in User
      BY DEF Session
    <3>2. Promise!ArriveBooked(s, c, row.user, row.res)
      BY <2>1, <2>3, <2>4 DEF Promise!ArriveBooked, Occupied
    <3> QED BY <2>4, <3>1, <3>2 DEF Promise!Next
  <2>5. CASE row.res \notin ResId
    <3>1. Promise!ArriveWalkIn(s, c)
      BY <2>1, <2>3, <2>5 DEF Promise!ArriveWalkIn, Occupied
    <3> QED BY <3>1 DEF Promise!Next
  <2> QED BY <2>4, <2>5
<1>5. ASSUME NEW c \in Conn, Expires(c) PROVE Promise!Next
  <2>1. PICK r \in ResId :
          /\ resv[r].status = "BOOKED" /\ resv' = [resv EXCEPT ![r].status = "EXPIRED"]
          /\ sess' = sess
    BY <1>5 DEF Expires
  <2>2. Promise!Withdraw(r, "EXPIRED")
    BY <1>1, <2>1 DEF Promise!Withdraw, Occupied
  <2> QED BY <2>2 DEF Promise!Next
<1>6. ASSUME NEW r \in ResId, Cancels(r) PROVE Promise!Next
  <2>1. Promise!Withdraw(r, "CANCELLED")
    BY <1>1, <1>6 DEF Cancels, Promise!Withdraw, Occupied
  <2> QED BY <2>1 DEF Promise!Next
<1>7. ASSUME NEW s \in SessId, Goes(s) PROVE UNCHANGED Promise!vars
  <2>1. Occupied' = Occupied
    BY <1>7, LiveGoes DEF Occupied
  <2> QED BY <1>2, <1>7, <2>1 DEF Goes
<1>8. ASSUME NEW s \in SessId, Ends(s) PROVE Promise!Next
  <2>1. PICK c : c = sess[s].conn
    OBVIOUS
  <2>2. /\ c \in Conn /\ LiveOn(c) = {s} /\ LiveOn(c)' = {}
        /\ \A x \in Conn : x # c => LiveOn(x)' = LiveOn(x)
    BY <1>8, <2>1, LiveEnds
  <2>3. Occupied[c] # {} /\ Occupied' = [Occupied EXCEPT ![c] = {}]
    BY <2>2 DEF Occupied
  <2>4. Promise!Leave(c)
    BY <1>8, <2>3 DEF Ends, Promise!Leave, Occupied
  <2> QED BY <2>2, <2>4 DEF Promise!Next
<1>9. ASSUME Quiet \/ \E c \in Conn : Syncs(c) PROVE UNCHANGED Promise!vars
  BY <1>1, <1>2, <1>9 DEF Quiet, data, Syncs
<1> QED BY <1>3, <1>4, <1>5, <1>6, <1>7, <1>8, <1>9 DEF Effect

(* The engine, with its chains of waiting requests, implements the booking *)
(* service in which every operation is one atomic step (module Booking).   *)
THEOREM KeepsPromise == Spec => Implements
<1>1. Typed /\ OneSessionPerConnector /\ [Next]_vars => [Promise!Next]_(Promise!vars)
  BY NextEffect, StepPromise
<1> QED BY <1>1, InitPromise, TypedInvariant, OneSessionAtATime, PTL
       DEF Spec, Implements, Promise!Spec

-----------------------------------------------------------------------------
(* The fleet.                                                              *)
(* Everything the invariants speak of, except the connector status.        *)
rest == <<now, resv, nRes, sess, nSess, queues, holders>>

LEMMA OutsideEffect ==
  ASSUME Typed, Outside
  PROVE  UNCHANGED rest /\ cstat' \in [Conn -> ConnStatus]
<1>1. ASSUME NEW c \in Conn, NEW report \in Report, NEW error \in BOOLEAN,
             StatusNotification(c, report, error)
      PROVE  UNCHANGED rest /\ cstat' \in [Conn -> ConnStatus]
  <2>1. Reported(report) \in ConnStatus
    BY DEF Reported, ConnStatus
  <2>2. cstat' \in [Conn -> ConnStatus]
    BY <1>1, <2>1 DEF StatusNotification, Typed, TypeOK
  <2> QED BY <1>1, <2>2 DEF StatusNotification, rest
<1>2. ASSUME NEW c \in Conn, ReportFault(c) \/ OpenMaintenance(c)
      PROVE  UNCHANGED rest /\ cstat' \in [Conn -> ConnStatus]
  BY <1>2 DEF ReportFault, OpenMaintenance, vars, data, rest, Typed, TypeOK
<1>3. ASSUME NEW c \in Conn, CompleteMaintenance(c)
      PROVE  UNCHANGED rest /\ cstat' \in [Conn -> ConnStatus]
  <2>1. cstat' \in [Conn -> ConnStatus]
    BY <1>3 DEF CompleteMaintenance, Typed, TypeOK, ConnStatus
  <2> QED BY <1>3, <2>1 DEF CompleteMaintenance, rest
<1> QED BY <1>1, <1>2, <1>3 DEF Outside

LEMMA OutsideTyped ==
  ASSUME Typed, UNCHANGED rest, cstat' \in [Conn -> ConnStatus]
  PROVE  Typed'
<1>1. UNCHANGED <<now, resv, nRes, sess, nSess, connQ, sessQ, resQ, ending, cancelling>>
  BY DEF rest, queues, holders
<1>2. TypeOK'
  BY <1>1 DEF Typed, TypeOK
<1>3. AllPlaced'
  BY <1>1 DEF Typed, AllPlaced, Placed
<1>4. Chained'
  BY <1>1 DEF Typed, Chained, OneSync, Suspended
<1> QED BY <1>2, <1>3, <1>4 DEF Typed

LEMMA FleetSteps ==
  ASSUME Typed, [FleetNext]_fleetVars
  PROVE  [Next]_vars \/ (UNCHANGED rest /\ cstat' \in [Conn -> ConnStatus])
<1>1. CASE Outside
  BY <1>1, OutsideEffect
<1>2. CASE UNCHANGED fleetVars
  BY <1>2 DEF fleetVars
<1> QED BY <1>1, <1>2 DEF FleetNext

LEMMA FleetTyped == FleetSpec => []Typed
<1>1. FleetInit => Typed
  BY InitTyped DEF FleetInit
<1>2. Typed /\ [FleetNext]_fleetVars => Typed'
  BY FleetSteps, NextTyped, OutsideTyped
<1> QED BY <1>1, <1>2, PTL DEF FleetSpec

(* Whatever charge points report and whoever completes a repair, windows   *)
(* never overlap and every CONVERTED window belongs to one session of its  *)
(* owner (createReservation, startSession).                                *)
THEOREM RecordsStaySound == FleetSpec => []RecordsSound
<1>1. FleetInit => RecordsSound
  BY DEF FleetInit, Init, RecordsSound, NoOverlap, ConvertedOnce, NoRow
<1>2. Typed /\ RecordsSound /\ [FleetNext]_fleetVars => RecordsSound'
  <2> SUFFICES ASSUME Typed, RecordsSound, [FleetNext]_fleetVars PROVE RecordsSound'
    OBVIOUS
  <2>1. CASE [Next]_vars
    BY <2>1, NextEffect, NextNoOverlap, NextConverted DEF RecordsSound
  <2>2. CASE UNCHANGED rest
    <3>1. UNCHANGED <<resv, sess>>
      BY <2>2 DEF rest
    <3> QED BY <3>1 DEF RecordsSound, NoOverlap, ConvertedOnce
  <2> QED BY <2>1, <2>2, FleetSteps
<1> QED BY <1>1, <1>2, FleetTyped, PTL DEF FleetSpec

(* A settled window and an ended session stay as they are, reports and     *)
(* repairs included.                                                       *)
THEOREM RecordsStaySettled == FleetSpec => RecordsSettled
<1> DEFINE Stays ==
      /\ \A r \in ResId :
           resv[r].status \in {"CONVERTED", "CANCELLED", "EXPIRED"} => resv'[r] = resv[r]
      /\ \A s \in SessId : sess[s].state \in EndState => sess'[s] = sess[s]
<1>1. ASSUME Typed, [FleetNext]_fleetVars PROVE Stays
  <2>1. CASE [Next]_vars
    BY <1>1, <2>1, NextEffect, WindowsSettled, SessionsSettled
  <2>2. CASE UNCHANGED rest
    BY <2>2 DEF rest
  <2> QED BY <1>1, <2>1, <2>2, FleetSteps
<1>2. Typed /\ [FleetNext]_fleetVars => [Stays]_vars
  BY <1>1
<1> HIDE DEF Stays
<1>3. FleetSpec => [][Stays]_vars
  BY <1>2, FleetTyped, PTL DEF FleetSpec
<1> QED BY <1>3 DEF RecordsSettled, SettledStays, Stays

-----------------------------------------------------------------------------
(* The outbox.                                                             *)
(* ------------------------- inductive invariant ------------------------- *)

Handled == sink \cup letters \cup Meta

(* Every row that is named somewhere.                                      *)
Known == queue \cup batch \cup UNION {c.rows : c \in late}

(* An id stands for one row, wherever that row is named.                   *)
IdsUnique ==
  /\ \A e \in Known : e.id <= nRow
  /\ \A e, f \in Known : e.id = f.id => e = f

(* What the worker is about to ack, or has asked to ack, is handled.       *)
BatchWritten ==
  stage \in {"quarantine", "ack"} =>
    \A e \in batch : e.key \notin Keys(bad) => e.key \in sink \cup Meta
LateHandled ==
  \A c \in late : c.op = "ack" => \A r \in c.rows : r.key \in Handled

(* Nothing is refused before the batch has been tried.                     *)
Untried == stage \in {"poll", "write", "isolate", "sweep"} => bad = {}

RelayInv ==
  RelayTypeOK /\ IdsUnique /\ BatchWritten /\ LateHandled /\ Untried /\ AckedHandled

(* ------------------------------- lemmas -------------------------------- *)

(* Pruning takes acked rows only.                                          *)
LEMMA PruneTakesAcked ==
  ASSUME NEW q, NEW a, acked \subseteq a, a \subseteq q, PruneIfDue(q, a)
  PROVE  /\ queue' \subseteq q
         /\ acked' \subseteq a
         /\ acked' \subseteq queue'
         /\ q \ queue' \subseteq a
BY DEF PruneIfDue, Shed, Oldest

(* A call that reaches the API acks rows that carry a named key, if the    *)
(* rows it names are known by their ids, and keeps the others.              *)
LEMMA HandleEffect ==
  ASSUME RelayInv, NEW op \in {"quarantine", "ack"}, NEW named \in SUBSET Row,
         named \subseteq Known, Handle(op, named),
         op = "ack" => \A r \in named : r.key \in Handled
  PROVE  /\ queue' \subseteq queue
         /\ acked' \subseteq queue'
         /\ nRow' = nRow
         /\ letters \subseteq letters'
         /\ letters' \subseteq Key
         /\ \A e \in acked' : e.key \in Handled \cup letters'
         /\ \A e \in Pending \ queue' : e.key \in Handled
<1>1. /\ queue \subseteq Row
      /\ acked \subseteq queue
      /\ letters \subseteq Key
  BY DEF RelayInv, RelayTypeOK
<1>2. Named(named) \subseteq queue /\ Named(named) \cap acked = {}
  BY DEF Named, Pending
<1>3. \A e \in acked : e.key \in Handled
  BY DEF RelayInv, AckedHandled, Handled
<1>4. \A e \in Named(named) : \E r \in named : r.key = e.key
  <2> SUFFICES ASSUME NEW e \in Named(named)
               PROVE  \E r \in named : r.key = e.key
    OBVIOUS
  <2>1. PICK r \in named : r.id = e.id \/ r.key = e.key
    BY DEF Named
  <2>2. r \in Known /\ e \in Known
    BY <1>2 DEF Known
  <2>3. r.id = e.id => r = e
    BY <2>2 DEF RelayInv, IdsUnique
  <2> QED
    BY <2>1, <2>3
<1>5. CASE op = "quarantine"
  <2>1. /\ acked' = acked \cup Named(named)
        /\ letters' = letters \cup Keys(Named(named))
        /\ queue' = queue /\ nRow' = nRow
    BY <1>5 DEF Handle
  <2>2. Keys(Named(named)) \subseteq Key
    BY <1>1, <1>2 DEF Keys, Row
  <2>3. \A e \in Named(named) : e.key \in letters'
    BY <2>1 DEF Keys
  <2> QED
    BY <1>1, <1>2, <1>3, <2>1, <2>2, <2>3 DEF Pending
<1>6. CASE op = "ack"
  <2>1. /\ PruneIfDue(queue, acked \cup Named(named))
        /\ letters' = letters /\ nRow' = nRow
    BY <1>6 DEF Handle
  <2>2. /\ queue' \subseteq queue
        /\ acked' \subseteq acked \cup Named(named)
        /\ acked' \subseteq queue'
        /\ queue \ queue' \subseteq acked \cup Named(named)
    BY <1>1, <1>2, <2>1, PruneTakesAcked
  <2>3. \A e \in Named(named) : e.key \in Handled
    BY <1>4, <1>6
  <2> QED
    BY <1>1, <1>3, <2>1, <2>2, <2>3 DEF Pending
<1> QED
  BY <1>5, <1>6

(* The rows of the call the worker is about to make.                       *)
LEMMA OwnCall ==
  ASSUME RelayInv
  PROVE  /\ CallRows \subseteq batch
         /\ stage = "ack" => \A r \in CallRows : r.key \in Handled
BY DEF RelayInv, RelayTypeOK, BatchWritten, CallRows, Handled

(* ----------------------- steps of the invariant ------------------------ *)

(* A step that changes neither the store nor the calls under way, and      *)
(* names no row beyond those of the batch and of the queue.                *)
LEMMA WorkerOnly ==
  ASSUME RelayInv, UNCHANGED store, sink \subseteq sink', sink' \subseteq Key,
         late' = late, batch' \subseteq batch \cup queue, bad' \subseteq batch',
         stage' \in Stage, laps' \in 0 .. MaxBatches - 1,
         stage' \notin {"quarantine", "ack"} => bad' = {},
         stage' \in {"quarantine", "ack"} =>
           \A e \in batch' : e.key \notin Keys(bad') => e.key \in sink' \cup Meta
  PROVE  RelayInv'
<1>1. RelayTypeOK'
  BY DEF RelayInv, RelayTypeOK, store
<1>2. Known' \subseteq Known /\ nRow' = nRow
  BY DEF Known, store
<1>3. IdsUnique'
  BY <1>2 DEF RelayInv, IdsUnique
<1>4. BatchWritten'
  BY DEF BatchWritten, Keys
<1>5. LateHandled' /\ AckedHandled'
  BY DEF RelayInv, LateHandled, AckedHandled, Handled, store
<1>6. Untried'
  BY DEF Untried
<1> QED
  BY <1>1, <1>3, <1>4, <1>5, <1>6 DEF RelayInv

LEMMA LapZero == 0 \in 0 .. MaxBatches - 1
BY OutboxAssumption

LEMMA ThrowKeeps ==
  ASSUME RelayInv, Throw, UNCHANGED store, sink \subseteq sink', sink' \subseteq Key, late' = late
  PROVE  RelayInv'
BY WorkerOnly, LapZero DEF Throw, Stage

LEMMA WrittenKeeps ==
  ASSUME RelayInv, NEW named, NEW refused,
         named \subseteq ForSink, refused \subseteq batch,
         ForSink \ named \subseteq refused, Unfit \subseteq refused, Written(named, refused)
  PROVE  RelayInv'
<1>1. Keys(named) \subseteq Key
  BY DEF RelayInv, RelayTypeOK, Keys, Row, ForSink
<1>2. \A e \in batch : e.key \notin Keys(refused) => e.key \in Keys(named) \cup Meta
  BY DEF Keys, ForSink, Unfit
<1>3. /\ UNCHANGED <<store, batch, laps, late>>
      /\ sink' = sink \cup Keys(named) /\ bad' = refused
      /\ stage' \in {"ack", "quarantine"}
  BY DEF Written
<1>4. sink \subseteq Key /\ laps \in 0 .. MaxBatches - 1
  BY DEF RelayInv, RelayTypeOK
<1>5. \A e \in batch' : e.key \notin Keys(bad') => e.key \in sink' \cup Meta
  BY <1>2, <1>3
<1> QED
  BY <1>1, <1>3, <1>4, <1>5, WorkerOnly DEF Stage

LEMMA EmitKeeps ==
  ASSUME RelayInv, NEW k \in Key, Emit(k)
  PROVE  RelayInv'
<1> DEFINE new == [id |-> nRow + 1, key |-> k]
           q == queue \cup {new}
<1>1. /\ queue \subseteq Row /\ acked \subseteq queue /\ nRow \in 0 .. MaxRow
      /\ MaxRow \in Nat
  BY OutboxAssumption DEF RelayInv, RelayTypeOK
<1>2. nRow < MaxRow /\ nRow' = nRow + 1 /\ UNCHANGED <<letters, sink, worker, late>>
  BY DEF Emit
<1>3. queue' \subseteq q /\ acked' \subseteq acked /\ acked' \subseteq queue'
  <2>1. CASE Cardinality(q) > SoftCap
    <3>1. PruneIfDue(q, acked)
      BY <2>1 DEF Emit
    <3> QED
      BY <1>1, <3>1, PruneTakesAcked
  <2>2. CASE ~(Cardinality(q) > SoftCap)
    BY <1>1, <2>2 DEF Emit
  <2> QED
    BY <2>1, <2>2
<1>4. new \in Row
  BY <1>1, <1>2 DEF Row
<1>5. RelayTypeOK'
  BY <1>1, <1>2, <1>3, <1>4 DEF RelayInv, RelayTypeOK, worker
<1>6. IdsUnique'
  <2>1. Known' \subseteq Known \cup {new}
    BY <1>2, <1>3 DEF Known, worker
  <2>2. \A e \in Known : e \in Row /\ e.id <= nRow
    BY <1>1 DEF RelayInv, RelayTypeOK, IdsUnique, Known, Call
  <2>3. \A e \in Known : e.id \in Nat /\ e.id < new.id
    BY <1>1, <2>2 DEF Row
  <2>4. new.id = nRow'
    BY <1>2
  <2>5. \A e \in Known' : e.id <= nRow'
    BY <1>1, <1>2, <2>1, <2>2, <2>3, <2>4
  <2>6. \A e, f \in Known' : e.id = f.id => e = f
    BY <1>1, <2>1, <2>3, <2>4 DEF RelayInv, IdsUnique
  <2> QED
    BY <2>5, <2>6 DEF IdsUnique
<1>7. BatchWritten' /\ LateHandled' /\ Untried' /\ AckedHandled'
  BY <1>2, <1>3 DEF RelayInv, BatchWritten, Untried, LateHandled, AckedHandled, Handled, Keys, worker
<1> QED
  BY <1>5, <1>6, <1>7 DEF RelayInv

LEMMA PollKeeps ==
  ASSUME RelayInv, Poll
  PROVE  RelayInv'
<1>1. /\ laps \in 0 .. MaxBatches - 1 /\ sink \subseteq Key
      /\ bad = {}
  BY DEF RelayInv, RelayTypeOK, Untried, Poll
<1>2. Oldest(Limit, Pending) \subseteq queue
  BY DEF Oldest, Pending
<1>3. /\ UNCHANGED <<store, sink, bad, laps, late>>
      /\ stage' \in {"sweep", "write"}
      /\ batch' = batch \/ batch' = Oldest(Limit, Pending)
  BY DEF Poll
<1> QED
  BY <1>1, <1>2, <1>3, WorkerOnly DEF Stage

LEMMA RejectedKeeps ==
  ASSUME RelayInv, WriteRejected
  PROVE  RelayInv'
<1>1. /\ laps \in 0 .. MaxBatches - 1 /\ sink \subseteq Key
      /\ bad = {}
  BY DEF RelayInv, RelayTypeOK, Untried, WriteRejected
<1>2. /\ UNCHANGED <<store, sink, batch, bad, laps, late>>
      /\ stage' = "isolate"
  BY DEF WriteRejected
<1> QED
  BY <1>1, <1>2, WorkerOnly DEF Stage

LEMMA WriteFailsKeeps ==
  ASSUME RelayInv, WriteFails
  PROVE  RelayInv'
<1>1. Keys(ForSink) \subseteq Key /\ sink \subseteq Key
  BY DEF RelayInv, RelayTypeOK, Keys, Row, ForSink
<1> QED
  BY <1>1, ThrowKeeps DEF WriteFails

LEMMA IsolateKeeps ==
  ASSUME RelayInv, NEW failed \in SUBSET ForSink, Isolate(failed)
  PROVE  RelayInv'
<1>1. CASE failed = ForSink
  <2>1. Throw /\ UNCHANGED <<store, sink, late>> /\ sink \subseteq Key
    BY <1>1 DEF Isolate, RelayInv, RelayTypeOK
  <2> QED
    BY <2>1, ThrowKeeps
<1>2. CASE failed # ForSink
  <2>1. Written(ForSink \ failed, Unfit \cup failed)
    BY <1>2 DEF Isolate
  <2>2. Unfit \cup failed \subseteq batch
    BY DEF Unfit, ForSink
  <2> QED
    BY <2>1, <2>2, WrittenKeeps
<1> QED
  BY <1>1, <1>2

LEMMA IsolateFailsKeeps ==
  ASSUME RelayInv, NEW landed \in SUBSET ForSink, IsolateFails(landed)
  PROVE  RelayInv'
<1>1. Keys(landed) \subseteq Key /\ sink \subseteq Key
  BY DEF RelayInv, RelayTypeOK, Keys, Row, ForSink
<1> QED
  BY <1>1, ThrowKeeps DEF IsolateFails

(* A call that arrives keeps all of the invariant that is about the store. *)
LEMMA HandleKeeps ==
  ASSUME RelayInv, NEW op \in {"quarantine", "ack"}, NEW named \in SUBSET Row,
         named \subseteq Known, Handle(op, named),
         op = "ack" => \A r \in named : r.key \in Handled,
         sink' = sink, late' \subseteq late, batch' \subseteq batch, bad' \subseteq batch',
         stage' \in Stage, laps' \in 0 .. MaxBatches - 1,
         stage' \notin {"quarantine", "ack"} => bad' = {},
         stage' \in {"quarantine", "ack"} =>
           \A e \in batch' : e.key \notin Keys(bad') => e.key \in sink' \cup Meta
  PROVE  RelayInv'
<1>1. /\ queue' \subseteq queue /\ acked' \subseteq queue' /\ nRow' = nRow
      /\ letters \subseteq letters' /\ letters' \subseteq Key
      /\ \A e \in acked' : e.key \in Handled \cup letters'
  BY HandleEffect
<1>2. RelayTypeOK'
  BY <1>1 DEF RelayInv, RelayTypeOK
<1>3. Known' \subseteq Known
  BY <1>1 DEF Known
<1>4. IdsUnique'
  BY <1>1, <1>3 DEF RelayInv, IdsUnique
<1>5. BatchWritten' /\ Untried'
  BY DEF BatchWritten, Untried, Keys
<1>6. LateHandled' /\ AckedHandled'
  BY <1>1 DEF RelayInv, LateHandled, AckedHandled, Handled
<1> QED
  BY <1>2, <1>4, <1>5, <1>6 DEF RelayInv

LEMMA QuarantinedKeeps ==
  ASSUME RelayInv, Quarantined
  PROVE  RelayInv'
<1>1. CallRows \subseteq Row /\ CallRows \subseteq Known
  BY OwnCall DEF RelayInv, RelayTypeOK, Known
<1>2. /\ stage = "quarantine" /\ stage' = "ack"
      /\ Handle("quarantine", CallRows)
      /\ UNCHANGED <<sink, batch, bad, laps, late>>
  BY DEF Quarantined
<1>3. bad \subseteq batch /\ laps \in 0 .. MaxBatches - 1
  BY DEF RelayInv, RelayTypeOK
<1>4. \A e \in batch' : e.key \notin Keys(bad') => e.key \in sink' \cup Meta
  BY <1>2 DEF RelayInv, BatchWritten
<1> QED
  BY <1>1, <1>2, <1>3, <1>4, HandleKeeps DEF Stage

LEMMA AcknowledgedKeeps ==
  ASSUME RelayInv, Acknowledged
  PROVE  RelayInv'
<1>1. CallRows \subseteq Row /\ CallRows \subseteq Known
  BY OwnCall DEF RelayInv, RelayTypeOK, Known
<1>2. /\ stage = "ack" /\ Handle("ack", CallRows)
      /\ batch' = {} /\ bad' = {} /\ UNCHANGED <<sink, late>>
      /\ stage' \in {"sweep", "poll"}
  BY DEF Acknowledged, NextLap
<1>3. laps' \in 0 .. MaxBatches - 1
  <2>1. laps \in 0 .. MaxBatches - 1 /\ MaxBatches \in Nat \ {0}
    BY OutboxAssumption DEF RelayInv, RelayTypeOK
  <2>2. CASE LastLap
    BY <2>1, <2>2 DEF Acknowledged, NextLap
  <2>3. CASE ~LastLap
    <3>1. laps' = laps + 1 /\ laps + 1 # MaxBatches
      BY <2>3 DEF Acknowledged, NextLap, LastLap
    <3> QED
      BY <2>1, <3>1
  <2> QED
    BY <2>2, <2>3
<1>4. \A r \in CallRows : r.key \in Handled
  BY <1>2, OwnCall
<1> QED
  BY <1>1, <1>2, <1>3, <1>4, HandleKeeps DEF Stage

LEMMA FailsKeeps ==
  ASSUME RelayInv, Fails
  PROVE  RelayInv'
<1>1. Throw /\ UNCHANGED <<store, sink>> /\ sink \subseteq Key
  BY DEF Fails, RelayInv, RelayTypeOK
<1>2. CASE late' = late
  BY <1>1, <1>2, ThrowKeeps
<1>3. CASE late' # late
  <2> DEFINE call == [op |-> stage, rows |-> CallRows]
  <2>1. stage \in {"quarantine", "ack"} /\ late' = late \cup {call}
    BY <1>3 DEF Fails
  <2>2. /\ CallRows \subseteq batch /\ batch \subseteq Row
        /\ stage = "ack" => \A r \in CallRows : r.key \in Handled
    BY OwnCall DEF RelayInv, RelayTypeOK
  <2>3. call \in Call
    BY <2>1, <2>2 DEF Call
  <2>4. /\ stage' = "poll" /\ batch' = {} /\ bad' = {} /\ laps' = 0
    BY <1>1 DEF Throw
  <2>5. RelayTypeOK'
    BY <1>1, <2>1, <2>3, <2>4, LapZero DEF RelayInv, RelayTypeOK, store, Stage
  <2>6. Known' \subseteq Known /\ nRow' = nRow
    BY <1>1, <2>1, <2>2, <2>4 DEF Known, store
  <2>7. IdsUnique'
    BY <2>6 DEF RelayInv, IdsUnique
  <2>8. LateHandled' /\ AckedHandled'
    BY <1>1, <2>1, <2>2 DEF RelayInv, LateHandled, AckedHandled, Handled, store
  <2>9. BatchWritten' /\ Untried'
    BY <2>4 DEF BatchWritten, Untried
  <2> QED
    BY <2>5, <2>7, <2>8, <2>9 DEF RelayInv
<1> QED
  BY <1>2, <1>3

LEMMA ArrivesKeeps ==
  ASSUME RelayInv, NEW c \in late, Arrives(c)
  PROVE  RelayInv'
<1>1. c \in Call /\ c.rows \subseteq Known
  BY DEF RelayInv, RelayTypeOK, Known
<1>2. c.op \in {"quarantine", "ack"} /\ c.rows \in SUBSET Row
  BY <1>1 DEF Call
<1>3. /\ Handle(c.op, c.rows) /\ late' \subseteq late /\ sink' = sink
      /\ UNCHANGED worker
  BY DEF Arrives
<1>4. c.op = "ack" => \A r \in c.rows : r.key \in Handled
  BY DEF RelayInv, LateHandled
<1>5. /\ UNCHANGED <<stage, batch, bad, laps>> /\ stage \in Stage
      /\ bad \subseteq batch /\ laps \in 0 .. MaxBatches - 1
      /\ stage \notin {"quarantine", "ack"} => bad = {}
      /\ stage \in {"quarantine", "ack"} =>
           \A e \in batch : e.key \notin Keys(bad) => e.key \in sink \cup Meta
  BY <1>3 DEF RelayInv, RelayTypeOK, BatchWritten, Untried, Stage, worker
<1>6. stage' \in {"quarantine", "ack"} =>
        \A e \in batch' : e.key \notin Keys(bad') => e.key \in sink' \cup Meta
  BY <1>3, <1>5
<1> QED
  BY <1>1, <1>2, <1>3, <1>4, <1>5, <1>6, HandleKeeps

LEMMA RelayKeeps ==
  ASSUME RelayInv, [RelayNext]_relayVars
  PROVE  RelayInv'
<1>1. ASSUME NEW k \in Key, Emit(k) PROVE RelayInv'
  BY <1>1, EmitKeeps
<1>2. CASE Poll
  BY <1>2, PollKeeps
<1>3. CASE WriteBatch
  <2>1. Written(ForSink, Unfit) /\ Unfit \subseteq batch
    BY <1>3 DEF WriteBatch, Unfit
  <2> QED
    BY <2>1, WrittenKeeps
<1>4. CASE WriteRejected
  BY <1>4, RejectedKeeps
<1>5. CASE WriteFails
  BY <1>5, WriteFailsKeeps
<1>6. ASSUME NEW named \in SUBSET ForSink, Isolate(named) \/ IsolateFails(named) PROVE RelayInv'
  BY <1>6, IsolateKeeps, IsolateFailsKeeps
<1>7. CASE Quarantined
  BY <1>7, QuarantinedKeeps
<1>8. CASE Acknowledged
  BY <1>8, AcknowledgedKeeps
<1>9. CASE Sweep
  <2>1. Throw /\ UNCHANGED <<store, sink, late>> /\ sink \subseteq Key
    BY <1>9 DEF Sweep, RelayInv, RelayTypeOK
  <2> QED
    BY <2>1, ThrowKeeps
<1>10. CASE Fails
  BY <1>10, FailsKeeps
<1>11. ASSUME NEW c \in late, Arrives(c) PROVE RelayInv'
  BY <1>11, ArrivesKeeps
<1>12. CASE UNCHANGED relayVars
  <2>1. /\ UNCHANGED <<store, sink, late, stage, batch, bad, laps>>
        /\ sink \subseteq Key /\ bad \subseteq batch
        /\ stage \in Stage /\ laps \in 0 .. MaxBatches - 1
    BY <1>12 DEF relayVars, worker, RelayInv, RelayTypeOK
  <2>2. /\ stage' \notin {"quarantine", "ack"} => bad' = {}
        /\ stage' \in {"quarantine", "ack"} =>
             \A e \in batch' : e.key \notin Keys(bad') => e.key \in sink' \cup Meta
    BY <2>1 DEF RelayInv, RelayTypeOK, BatchWritten, Untried, Stage
  <2> QED
    BY <2>1, <2>2, WorkerOnly
<1> QED
  BY <1>1, <1>2, <1>3, <1>4, <1>5, <1>6, <1>7, <1>8, <1>9, <1>10, <1>11, <1>12
  DEF RelayNext, Cycle

LEMMA RelayStart ==
  ASSUME RelayInit
  PROVE  RelayInv
<1>1. RelayTypeOK
  BY OutboxAssumption, LapZero DEF RelayInit, RelayTypeOK, Stage
<1>2. IdsUnique /\ BatchWritten /\ LateHandled /\ Untried /\ AckedHandled
  BY DEF RelayInit, IdsUnique, Known, BatchWritten, LateHandled, Untried, AckedHandled
<1> QED
  BY <1>1, <1>2 DEF RelayInv

(* ------------------------------ theorems ------------------------------- *)

LEMMA Inductive == RelaySpec => []RelayInv
<1>1. RelayInit => RelayInv
  BY RelayStart
<1>2. RelayInv /\ [RelayNext]_relayVars => RelayInv'
  BY RelayKeeps
<1> QED
  BY <1>1, <1>2, PTL DEF RelaySpec

(* The store, the worker and the calls under way keep their types, and no  *)
(* cycle of the worker's loop exceeds its cap on batches.                  *)
THEOREM RelayTypeCorrect == RelaySpec => []RelayTypeOK
<1>1. RelayInv => RelayTypeOK
  BY DEF RelayInv
<1> QED
  BY <1>1, Inductive, PTL

(* At-least-once: an acked event is stored, dead-lettered or without a     *)
(* table, whatever dies, gets lost or arrives late.                        *)
THEOREM NothingAckedUnhandled == RelaySpec => []AckedHandled
<1>1. RelayInv => AckedHandled
  BY DEF RelayInv
<1> QED
  BY <1>1, Inductive, PTL

(* No prune drops a pending event: what leaves the queue was handled.      *)
THEOREM PendingNeverDropped == RelaySpec => PendingKept
<1> DEFINE Kept == \A e \in Pending \ queue' : e.key \in sink \cup letters \cup Meta
<1>1. ASSUME RelayInv, RelayNext PROVE Kept
  <2>1. CASE queue \subseteq queue'
    BY <2>1 DEF Pending
  <2>2. ASSUME NEW k \in Key, Emit(k) PROVE Kept
    <3> DEFINE q == queue \cup {[id |-> nRow + 1, key |-> k]}
    <3>1. acked \subseteq queue
      BY <1>1 DEF RelayInv, RelayTypeOK
    <3>2. CASE Cardinality(q) > SoftCap
      <4>1. PruneIfDue(q, acked)
        BY <2>2, <3>2 DEF Emit
      <4>2. q \ queue' \subseteq acked
        BY <3>1, <4>1, PruneTakesAcked
      <4> QED
        BY <4>2 DEF Pending
    <3>3. CASE ~(Cardinality(q) > SoftCap)
      BY <2>2, <3>3 DEF Emit, Pending
    <3> QED
      BY <3>2, <3>3
  <2>3. CASE Quarantined \/ Acknowledged
    <3>1. CallRows \in SUBSET Row /\ CallRows \subseteq Known
      BY <1>1, OwnCall DEF RelayInv, RelayTypeOK, Known
    <3>2. stage \in {"quarantine", "ack"} /\ Handle(stage, CallRows)
      BY <2>3 DEF Quarantined, Acknowledged
    <3>3. stage = "ack" => \A r \in CallRows : r.key \in Handled
      BY <1>1, OwnCall
    <3> QED
      BY <1>1, <3>1, <3>2, <3>3, HandleEffect DEF Handled
  <2>4. ASSUME NEW c \in late, Arrives(c) PROVE Kept
    <3>1. c \in Call /\ c.rows \subseteq Known /\ Handle(c.op, c.rows)
      BY <1>1, <2>4 DEF RelayInv, RelayTypeOK, Known, Arrives
    <3>2. c.op \in {"quarantine", "ack"} /\ c.rows \in SUBSET Row
      BY <3>1 DEF Call
    <3>3. c.op = "ack" => \A r \in c.rows : r.key \in Handled
      BY <1>1 DEF RelayInv, LateHandled
    <3> QED
      BY <1>1, <3>1, <3>2, <3>3, HandleEffect DEF Handled
  <2>5. CASE Cycle \/ Fails
    <3>1. queue' = queue
      BY <2>5 DEF Cycle, Poll, WriteBatch, Written, WriteRejected, WriteFails, Isolate,
                  IsolateFails, Sweep, Fails, store
    <3> QED
      BY <2>1, <3>1
  <2> QED
    BY <1>1, <2>2, <2>3, <2>4, <2>5 DEF RelayNext
<1>2. RelayInv /\ [RelayNext]_relayVars => [Kept]_relayVars
  BY <1>1
<1> QED
  BY <1>2, Inductive, PTL DEF RelaySpec, PendingKept

-----------------------------------------------------------------------------
(* The durable outbox: the inductive invariant follows the keys wherever   *)
(* they travel.                                                            *)
(* Every row that is named somewhere, and every key.                       *)
Around ==
  queue \cup batch \cup bad \cup rows \cup (UNION {c.rows : c \in late})
        \cup (UNION {c.rows : c \in calls})
Travelling == Keys(Around) \cup sink \cup letters

(* A key that stands for a durable event stands for a committed one.       *)
Founded(k) == \A d \in Durable : k \in {d, Twin[d]} => d \in ever

IInv ==
  /\ begun \subseteq ever
  /\ \A k \in Travelling : Founded(k)

(* A step that moves rows and keys about and brings in no new one.         *)
LEMMA NothingNew ==
  ASSUME IInv, ever' = ever, begun' \subseteq begun,
         queue' \subseteq Around, batch' \subseteq Around, bad' \subseteq Around,
         rows' \subseteq Around,
         \A c \in late' : c.rows \subseteq Around,
         \A c \in calls' : c.rows \subseteq Around,
         sink' \subseteq Travelling, letters' \subseteq Travelling
  PROVE  IInv'
<1>1. Around' \subseteq Around
  BY DEF Around
<1>2. Travelling' \subseteq Travelling
  BY <1>1 DEF Travelling, Keys
<1>3. \A k \in Travelling' : Founded(k)'
  BY <1>2 DEF IInv, Founded
<1> QED
  BY <1>3 DEF IInv

(* Every place a row is named in is part of Around.                        *)
LEMMA KeysInPlaces ==
  /\ queue \subseteq Around /\ batch \subseteq Around /\ bad \subseteq Around
  /\ rows \subseteq Around
  /\ \A c \in late : c.rows \subseteq Around
  /\ \A c \in calls : c.rows \subseteq Around
  /\ sink \subseteq Travelling /\ letters \subseteq Travelling
  /\ \A s \in SUBSET Around : Keys(s) \subseteq Travelling
BY DEF Around, Travelling, Keys

(* Pruning only takes rows away.                                           *)
LEMMA PruneTakes ==
  ASSUME NEW q, NEW a, PruneIfDue(q, a)
  PROVE  queue' \subseteq q
BY DEF PruneIfDue

(* Emitting an event with a sound key.                                     *)
LEMMA EmitSound ==
  ASSUME IInv, NEW k, Emit(k), Founded(k), begun' \subseteq begun,
         UNCHANGED <<rows, calls, ever>>
  PROVE  IInv'
<1> DEFINE new == [id |-> nRow + 1, key |-> k]
<1>1. queue' \subseteq queue \cup {new}
  BY PruneTakes DEF Emit
<1>2. UNCHANGED <<batch, bad, late, sink, letters>>
  BY DEF Emit, worker
<1>3. Around' \subseteq Around \cup {new}
  BY <1>1, <1>2 DEF Around
<1>4. Travelling' \subseteq Travelling \cup {k}
  BY <1>2, <1>3 DEF Travelling, Keys
<1>5. \A j \in Travelling' : Founded(j)'
  BY <1>4 DEF IInv, Founded
<1> QED
  BY <1>5 DEF IInv

(* ------------------------------- events -------------------------------- *)

LEMMA CommitKeeps ==
  ASSUME IInv, NEW k \in Durable, Commit(k)
  PROVE  IInv'
<1> DEFINE new == [id |-> nDur + 1, key |-> Twin[k]]
<1>1. /\ rows' = rows \cup {new} /\ ever' = ever \cup {k} /\ begun' = begun \cup {k}
      /\ UNCHANGED <<queue, batch, bad, late, calls, sink, letters>>
  BY DEF Commit, relayVars, store, worker
<1>2. Around' \subseteq Around \cup {new}
  BY <1>1 DEF Around
<1>3. Travelling' \subseteq Travelling \cup {Twin[k]}
  BY <1>1, <1>2 DEF Travelling, Keys
<1>4. Founded(Twin[k])'
  <2>1. \A d \in Durable : Twin[k] \in {d, Twin[d]} => k = d
    BY TwinAssumption
  <2> QED
    BY <1>1, <2>1 DEF Founded
<1>5. \A j \in Travelling' : Founded(j)'
  BY <1>1, <1>3, <1>4 DEF IInv, Founded
<1> QED
  BY <1>1, <1>5 DEF IInv

LEMMA CompleteKeeps ==
  ASSUME IInv, NEW k \in Durable, Complete(k)
  PROVE  IInv'
<1>1. /\ k \in begun /\ begun' \subseteq begun
      /\ UNCHANGED <<rows, calls, ever>>
  BY DEF Complete, durable
<1>2. CASE Emit(k)
  <2>1. \A d \in Durable : k \in {d, Twin[d]} => d = k
    BY TwinAssumption
  <2>2. Founded(k)
    BY <1>1, <2>1 DEF IInv, Founded
  <2> QED
    BY <1>1, <1>2, <2>2, EmitSound
<1>3. CASE UNCHANGED relayVars
  BY <1>1, <1>3, NothingNew, KeysInPlaces DEF relayVars, store, worker
<1> QED
  BY <1>2, <1>3 DEF Complete

LEMMA LocalKeeps ==
  ASSUME IInv, NEW k \in Key, EmitLocal(k) \/ StartSession(k)
  PROVE  IInv'
<1>1. k \notin Durable \cup DurableKey
  BY DEF EmitLocal, StartSession, Local
<1>2. Emit(k) /\ UNCHANGED <<rows, calls, ever, begun>>
  BY DEF EmitLocal, StartSession, durable, pending
<1>3. Founded(k)
  BY <1>1 DEF Founded, DurableKey
<1> QED
  BY <1>2, <1>3, EmitSound

LEMMA StartKeeps ==
  ASSUME IInv, NEW s \in starts, StartConfirmed(s) \/ StartUndone(s)
  PROVE  IInv'
<1>1. /\ queue' \subseteq queue
      /\ UNCHANGED <<batch, bad, late, sink, letters, rows, calls, ever, begun>>
  BY DEF StartConfirmed, StartUndone, Oldest, relayVars, store, worker, durable
<1> QED
  BY <1>1, NothingNew, KeysInPlaces

(* -------------------------- worker and calls --------------------------- *)

LEMMA CycleKeeps ==
  ASSUME IInv, Cycle, UNCHANGED <<durable, pending, ever>>
  PROVE  IInv'
<1>1. UNCHANGED <<queue, letters, late, rows, calls, begun, ever>>
  BY DEF Cycle, Poll, WriteBatch, WriteRejected, WriteFails, Isolate, IsolateFails,
         Sweep, Written, store, durable, pending
<1>2. batch' \subseteq batch \cup queue
  BY DEF Cycle, Poll, WriteBatch, WriteRejected, WriteFails, Isolate, IsolateFails,
         Sweep, Written, Throw, Oldest, Pending
<1>3. bad' \subseteq batch \cup bad
  BY DEF Cycle, Poll, WriteBatch, WriteRejected, WriteFails, Isolate, IsolateFails,
         Sweep, Written, Throw, ForSink, Unfit
<1>4. sink' \subseteq sink \cup Keys(batch)
  BY DEF Cycle, Poll, WriteBatch, WriteRejected, WriteFails, Isolate, IsolateFails,
         Sweep, Written, ForSink, Keys
<1>5. sink' \subseteq Travelling
  BY <1>4, KeysInPlaces
<1> QED
  BY <1>1, <1>2, <1>3, <1>5, NothingNew, KeysInPlaces

LEMMA CallRowsAround == CallRows \subseteq Around
BY DEF CallRows, Around

LEMMA MarkedKeeps ==
  ASSUME IInv, NEW op, NEW named \in SUBSET Around, NEW own,
         Marked(op, named, own), late' \subseteq late
  PROVE  IInv'
<1>1. Named(named) \subseteq queue
  BY DEF Named, Pending
<1>2. UNCHANGED <<queue, batch, bad, sink, rows, begun, ever>>
  BY DEF Marked, worker, durable
<1>3. letters' \subseteq Travelling
  <2>1. Keys(Named(named)) \subseteq Travelling /\ letters \subseteq Travelling
    BY <1>1, KeysInPlaces
  <2> QED
    BY <2>1 DEF Marked
<1>4. \A c \in calls' : c.rows \subseteq Around
  BY <1>1, KeysInPlaces DEF Marked
<1> QED
  BY <1>2, <1>3, <1>4, NothingNew, KeysInPlaces

LEMMA CallsKeep ==
  ASSUME IInv, NEW c \in calls, CallDone(c) \/ CallFails(c)
  PROVE  IInv'
<1>1. /\ calls' \subseteq calls
      /\ UNCHANGED <<letters, sink, late, rows, begun, ever>>
  BY DEF CallDone, CallFails, store, durable
<1>2. queue' \subseteq queue
  BY PruneTakes DEF CallDone, CallFails, store
<1>3. batch' \subseteq batch /\ bad' \subseteq bad
  BY DEF CallDone, CallFails, Answered, NextLap, Throw, worker
<1> QED
  BY <1>1, <1>2, <1>3, NothingNew, KeysInPlaces

LEMMA WorkerFailsKeeps ==
  ASSUME IInv, WorkerFails
  PROVE  IInv'
<1>1. /\ batch' = {} /\ bad' = {}
      /\ UNCHANGED <<queue, letters, sink, rows, begun, ever>>
  BY DEF WorkerFails, Fails, Throw, store, durable
<1>2. \A c \in late' : c.rows \subseteq Around
  BY CallRowsAround, KeysInPlaces DEF WorkerFails, Fails
<1>3. \A c \in calls' : c.rows \subseteq Around
  <2>1. CASE calls' = calls
    BY <2>1, KeysInPlaces
  <2>2. CASE calls' = {[c EXCEPT !.own = FALSE] : c \in calls}
    <3>1. \A c \in calls : [c EXCEPT !.own = FALSE].rows = c.rows
      OBVIOUS
    <3> QED
      BY <2>2, <3>1, KeysInPlaces
  <2> QED
    BY <2>1, <2>2 DEF WorkerFails
<1> QED
  BY <1>1, <1>2, <1>3, NothingNew, KeysInPlaces

LEMMA RestartKeeps ==
  ASSUME IInv, Restart
  PROVE  IInv'
<1>1. /\ queue' = rows /\ late' = {} /\ calls' = {} /\ begun' = {}
      /\ UNCHANGED <<letters, sink, rows, ever>>
  BY DEF Restart, durable
<1>2. batch' \subseteq batch /\ bad' \subseteq bad
  BY DEF Restart, Throw, worker
<1> QED
  BY <1>1, <1>2, NothingNew, KeysInPlaces

LEMMA NextKeeps ==
  ASSUME IInv, [DurNext]_durVars
  PROVE  IInv'
<1>1. ASSUME NEW k \in Durable, Commit(k) \/ Complete(k) PROVE IInv'
  BY <1>1, CommitKeeps, CompleteKeeps
<1>2. ASSUME NEW k \in Key, EmitLocal(k) \/ StartSession(k) PROVE IInv'
  BY <1>2, LocalKeeps
<1>3. ASSUME NEW s \in starts, StartConfirmed(s) \/ StartUndone(s) PROVE IInv'
  BY <1>3, StartKeeps
<1>4. CASE Cycle /\ UNCHANGED <<durable, pending, ever>>
  BY <1>4, CycleKeeps
<1>5. CASE WorkerFails
  BY <1>5, WorkerFailsKeeps
<1>6. CASE OwnCallMarked
  BY <1>6, MarkedKeeps, CallRowsAround DEF OwnCallMarked
<1>7. ASSUME NEW c \in late, LateCallMarked(c) PROVE IInv'
  BY <1>7, MarkedKeeps, KeysInPlaces DEF LateCallMarked
<1>8. ASSUME NEW c \in calls, CallDone(c) \/ CallFails(c) PROVE IInv'
  BY <1>8, CallsKeep
<1>9. ASSUME NEW old \in SUBSET done, PruneDurable(old) PROVE IInv'
  <2>1. /\ rows' \subseteq rows
        /\ UNCHANGED <<queue, batch, bad, late, sink, letters, calls, begun, ever>>
    BY <1>9 DEF PruneDurable, relayVars, store, worker, pending
  <2> QED
    BY <2>1, NothingNew, KeysInPlaces
<1>10. CASE Restart
  BY <1>10, RestartKeeps
<1>11. CASE UNCHANGED durVars
  <2>1. UNCHANGED <<queue, batch, bad, late, sink, letters, rows, calls, begun, ever>>
    BY <1>11 DEF durVars, relayVars, store, worker, durable, pending
  <2> QED
    BY <2>1, NothingNew, KeysInPlaces
<1> QED
  BY <1>1, <1>2, <1>3, <1>4, <1>5, <1>6, <1>7, <1>8, <1>9, <1>10, <1>11
  DEF DurNext, UpNext

LEMMA InitHolds ==
  ASSUME DurInit
  PROVE  IInv
BY DEF DurInit, RelayInit, IInv, Travelling, Around, Keys

(* Oracle first: at any moment, what is stored in Timescale or             *)
(* dead-lettered about a durable event, under either of its keys, has been *)
(* committed in Oracle.                                                    *)
THEOREM OnlyCommittedIsStored == DurSpec => []StoredWasCommitted
<1>1. DurInit => IInv
  BY InitHolds
<1>2. IInv /\ [DurNext]_durVars => IInv'
  BY NextKeeps
<1>3. IInv => StoredWasCommitted
  BY DEF IInv, Travelling, Founded, StoredWasCommitted
<1> QED
  BY <1>1, <1>2, <1>3, PTL DEF DurSpec
=============================================================================
