------------------------- MODULE OracleLocks_proofs -------------------------
(***************************************************************************)
(* Proofs about OracleLocks, for any numbers of connectors, drivers,       *)
(* transactions, windows and sessions: under Oracle's row locks, connector *)
(* status tells the truth, and the packages implement module Booking.      *)
(***************************************************************************)
EXTENDS OracleLocks, FiniteSetTheorems, SequenceTheorems, TLAPS

(* ------------------------------- the types ----------------------------- *)
ConnStatus == {"AVAILABLE", "RESERVED", "OCCUPIED"}
WindowRow == [conn : Conn, user : User, start : Time, end : Time,
              status : {"BOOKED", "CONVERTED", "CANCELLED", "EXPIRED"}]
ResRow == WindowRow \cup {NoRow}
ChargeRow == [conn : Conn, user : User, res : ResId \cup {None}, state : Live \cup Ended]
SessRow == ChargeRow \cup {NoSession}

(* What has been written to some rows of a table.                          *)
Part(S, T) == UNION {[D -> T] : D \in SUBSET S}
PutRec == [conn : Part(Conn, ConnStatus), resv : Part(ResId, WindowRow), sess : Part(SessId, ChargeRow)]
RowId == ({"conn"} \X Conn) \cup ({"resv"} \X ResId) \cup ({"sess"} \X SessId)
TxRec == [at : {"idle", "release", "commit", "claim", "count", "set"}, held : SUBSET RowId, put : PutRec,
          left : Seq(ResId), conn : Conn \cup {None}, user : User \cup {None}, res : ResId \cup {None},
          to : ConnStatus]

TypeOK ==
  /\ cstat \in [Conn -> ConnStatus]
  /\ resv \in [ResId -> ResRow]
  /\ sess \in [SessId -> SessRow]
  /\ nRes \in 0..MaxRes /\ nSess \in 0..MaxSess
  /\ tx \in [Tx -> TxRec]

(* ------------------------------- the locks ----------------------------- *)
(* A row that nobody has inserted, or whose insertion is not committed.    *)
Numbered ==
  /\ \A r \in ResId : r > nRes => resv[r] = NoRow
  /\ \A s \in SessId : s > nSess => sess[s] = NoSession

(* A transaction writes only rows it holds, and holds only rows there are. *)
Holds(x) ==
  /\ \A c \in DOMAIN x.put.conn : Row("conn", c) \in x.held
  /\ \A r \in DOMAIN x.put.resv : Row("resv", r) \in x.held
  /\ \A s \in DOMAIN x.put.sess : Row("sess", s) \in x.held
  /\ \A r \in ResId : Row("resv", r) \in x.held => r <= nRes
  /\ \A s \in SessId : Row("sess", s) \in x.held => s <= nSess

Exclusive == \A t, u \in Tx : t # u => tx[t].held \cap tx[u].held = {}

(* --------------------- what a transaction may be doing ----------------- *)
Bookable(c) == cstat[c] \in {"AVAILABLE", "RESERVED"}

Creating(x) ==
  /\ x.at = "commit"
  /\ \E c \in Conn, u \in User, r \in ResId, b, e \in Time :
       /\ x.put = [conn |-> Only(c, "RESERVED"), resv |-> Only(r, Window(c, u, b, e)), sess |-> <<>>]
       /\ resv[r] = NoRow /\ Bookable(c) /\ Overlaps(c, b, e) = {}

Withdrawing(x, how) ==
  /\ x.put.sess = <<>> /\ DOMAIN x.put.resv # {}
  /\ \A r \in DOMAIN x.put.resv :
       resv[r].status = "BOOKED" /\ x.put.resv[r] = [resv[r] EXCEPT !.status = how]
  /\ \A c \in DOMAIN x.put.conn :
       x.put.conn[c] = "AVAILABLE" /\ cstat[c] = "RESERVED" /\ Booked(c) \subseteq DOMAIN x.put.resv
  /\ x.at = "commit" \/ (x.at = "release" /\ x.left \in Seq(DOMAIN x.put.resv) /\ x.left # <<>>)

Settling(x) ==
  \/ Withdrawing(x, "EXPIRED")
  \/ Withdrawing(x, "CANCELLED") /\ \E r \in ResId : DOMAIN x.put.resv = {r}

Claiming(x) ==
  /\ x.at = "claim" /\ x.put = Nothing
  /\ x.conn \in Conn /\ x.user \in User /\ x.res \in ResId
  /\ Row("conn", x.conn) \in x.held /\ Bookable(x.conn)

Starting(x) ==
  /\ x.at = "commit"
  /\ \E c \in Conn, u \in User, r \in ResId \cup {None}, s \in SessId :
       /\ x.put = [conn |-> Only(c, "OCCUPIED"), sess |-> Only(s, Session(c, u, r)),
                   resv |-> IF r = None THEN <<>> ELSE Only(r, [resv[r] EXCEPT !.status = "CONVERTED"])]
       /\ sess[s] = NoSession /\ Bookable(c) /\ (r # None => Owned(c, u, r))

(* The status that the end, or the move, of a session may give connector c.*)
Fits(c, state, to) ==
  \/ state \in Live /\ to = "OCCUPIED"
  \/ state \in Ended /\ to = "RESERVED"
  \/ state \in Ended /\ to = "AVAILABLE" /\ Booked(c) = {}

Moving(x) ==
  \E s \in SessId, state \in Live \cup Ended :
    /\ x.put.sess = Only(s, [sess[s] EXCEPT !.state = state]) /\ x.put.resv = <<>>
    /\ sess[s].state \in Live
    /\ \/ x.at = "count" /\ x.conn = sess[s].conn /\ x.put.conn = <<>> /\ state \in Ended
       \/ x.at = "set" /\ x.conn = sess[s].conn /\ x.put.conn = <<>> /\ Fits(x.conn, state, x.to)
       \/ x.at = "commit" /\ x.put.conn = <<>> /\ state \in Live
       \/ x.at = "commit" /\ x.put.conn = Only(sess[s].conn, x.to) /\ Fits(sess[s].conn, state, x.to)

Doing(x) == x = Idle \/ Creating(x) \/ Settling(x) \/ Claiming(x) \/ Starting(x) \/ Moving(x)

OneLive == \A s, z \in SessId :
  sess[s].state \in Live /\ sess[z].state \in Live /\ sess[s].conn = sess[z].conn => s = z

IInv ==
  /\ TypeOK /\ Numbered /\ Exclusive /\ StatusTrue /\ OneLive
  /\ \A t \in Tx : Holds(tx[t]) /\ Doing(tx[t])

(* ----------------------- rows written to a table ----------------------- *)
LEMMA EmptyPart == DOMAIN <<>> = {} /\ \A S, T : <<>> \in Part(S, T)
<1>1. DOMAIN <<>> = {}
  OBVIOUS
<1>2. ASSUME NEW S, NEW T PROVE <<>> \in Part(S, T)
  <2>1. <<>> \in [{} -> T]
    OBVIOUS
  <2> QED BY <2>1 DEF Part
<1> QED BY <1>1, <1>2

LEMMA PartIs ==
  ASSUME NEW S, NEW T, NEW f \in Part(S, T)
  PROVE  DOMAIN f \subseteq S /\ \A x \in DOMAIN f : f[x] \in T
  BY DEF Part

LEMMA OnlyIs ==
  ASSUME NEW id, NEW row
  PROVE  /\ DOMAIN Only(id, row) = {id} /\ Only(id, row)[id] = row
         /\ \A S, T : id \in S /\ row \in T => Only(id, row) \in Part(S, T)
<1>1. DOMAIN Only(id, row) = {id} /\ Only(id, row)[id] = row
  BY DEF Only
<1>2. ASSUME NEW S, NEW T, id \in S, row \in T PROVE Only(id, row) \in Part(S, T)
  <2>1. Only(id, row) \in [{id} -> T] /\ {id} \in SUBSET S
    BY <1>2 DEF Only
  <2> QED BY <2>1 DEF Part
<1> QED BY <1>1, <1>2

LEMMA PartAlso ==
  ASSUME NEW S, NEW T, NEW f \in Part(S, T), NEW id \in S, NEW row \in T
  PROVE  Also(f, id, row) \in Part(S, T)
<1>1. DOMAIN f \cup {id} \in SUBSET S /\ \A x \in DOMAIN f : f[x] \in T
  BY PartIs
<1>2. Also(f, id, row) \in [DOMAIN f \cup {id} -> T]
  BY <1>1 DEF Also
<1> QED BY <1>1, <1>2 DEF Part

LEMMA OverIs ==
  ASSUME NEW f, NEW table
  PROVE  /\ DOMAIN Over(f, table) = DOMAIN table
         /\ \A x \in DOMAIN table : x \in DOMAIN f => Over(f, table)[x] = f[x]
         /\ \A x \in DOMAIN table : x \notin DOMAIN f => Over(f, table)[x] = table[x]
  BY DEF Over

LEMMA PartOver ==
  ASSUME NEW S, NEW T, NEW U, T \subseteq U, NEW f \in Part(S, T), NEW table \in [S -> U]
  PROVE  Over(f, table) \in [S -> U]
<1>1. \A x \in DOMAIN f : f[x] \in U /\ x \in S
  BY PartIs
<1> QED BY <1>1 DEF Over

(* ------------------------------ the rows ------------------------------- *)
LEMMA Bounds == MaxRes \in Nat /\ MaxSess \in Nat /\ MaxTime \in Nat /\ None \notin ResId
  BY LocksAssumption DEF ResId

LEMMA ResRows ==
  ASSUME TypeOK, NEW r \in ResId, resv[r].status \in {"BOOKED", "CONVERTED"}
  PROVE  resv[r] \in WindowRow /\ resv[r].conn \in Conn
  BY DEF TypeOK, ResRow, WindowRow, NoRow

LEMMA SessRows ==
  ASSUME TypeOK, NEW s \in SessId, sess[s].state \in Live
  PROVE  sess[s] \in ChargeRow /\ sess[s].conn \in Conn
  BY DEF TypeOK, SessRow, ChargeRow, NoSession, Live

LEMMA TxFields ==
  ASSUME TypeOK, NEW t \in Tx
  PROVE  /\ tx[t] \in TxRec /\ tx[t].put \in PutRec
         /\ tx[t].put.conn \in Part(Conn, ConnStatus) /\ tx[t].put.resv \in Part(ResId, WindowRow)
         /\ tx[t].put.sess \in Part(SessId, ChargeRow)
         /\ DOMAIN tx[t].put.conn \subseteq Conn /\ DOMAIN tx[t].put.resv \subseteq ResId
         /\ DOMAIN tx[t].put.sess \subseteq SessId
<1>1. tx[t] \in TxRec /\ tx[t].put \in PutRec
  BY DEF TypeOK, TxRec
<1>2. /\ tx[t].put.conn \in Part(Conn, ConnStatus) /\ tx[t].put.resv \in Part(ResId, WindowRow)
      /\ tx[t].put.sess \in Part(SessId, ChargeRow)
  BY <1>1 DEF PutRec
<1> QED BY <1>1, <1>2, PartIs

LEMMA IdleIs ==
  /\ Idle \in TxRec /\ Idle.at = "idle" /\ Idle.held = {} /\ Idle.put = Nothing
  /\ Nothing.conn = <<>> /\ Nothing.resv = <<>> /\ Nothing.sess = <<>>
<1>1. Nothing \in PutRec
  BY EmptyPart DEF Nothing, PutRec
<1>2. <<>> \in Seq(ResId)
  OBVIOUS
<1> QED BY <1>1, <1>2 DEF Idle, TxRec, ConnStatus, Nothing

(* ---------------------- a step that commits nothing -------------------- *)
LEMMA RowsSame ==
  ASSUME UNCHANGED rows
  PROVE  /\ StatusTrue' = StatusTrue /\ OneLive' = OneLive
         /\ \A c : Booked(c)' = Booked(c) /\ LiveOn(c)' = LiveOn(c) /\ Bookable(c)' = Bookable(c)
         /\ \A c, b, e : Overlaps(c, b, e)' = Overlaps(c, b, e)
         /\ \A c, u, r : Owned(c, u, r)' = Owned(c, u, r)
         /\ \A c, x, y : Fits(c, x, y)' = Fits(c, x, y)
<1>1. cstat' = cstat /\ resv' = resv /\ sess' = sess
  BY DEF rows
<1>2. \A c : Booked(c)' = Booked(c) /\ LiveOn(c)' = LiveOn(c) /\ Bookable(c)' = Bookable(c)
  BY <1>1 DEF Booked, LiveOn, Bookable
<1>3. StatusTrue' = StatusTrue
  BY <1>1, <1>2 DEF StatusTrue
<1>4. OneLive' = OneLive
  BY <1>1 DEF OneLive
<1>5. \A c, b, e : Overlaps(c, b, e)' = Overlaps(c, b, e)
  BY <1>1 DEF Overlaps
<1>6. \A c, u, r : Owned(c, u, r)' = Owned(c, u, r)
  BY <1>1 DEF Owned
<1>7. \A c, x, y : Fits(c, x, y)' = Fits(c, x, y)
  BY <1>2 DEF Fits
<1> QED BY <1>2, <1>3, <1>4, <1>5, <1>6, <1>7

(* Of the others' transactions nothing changes.                            *)
LEMMA OthersSame ==
  ASSUME UNCHANGED rows, NEW u \in Tx, tx'[u] = tx[u], Doing(tx[u])
  PROVE  Doing(tx[u])'
<1>1. cstat' = cstat /\ resv' = resv /\ sess' = sess
  BY DEF rows
<1>0. \A c : Bookable(c)' = Bookable(c) /\ \A v, r : Owned(c, v, r)' = Owned(c, v, r)
  BY RowsSame
<1>2. CASE Creating(tx[u])
  BY <1>1, <1>2, RowsSame DEF Creating, Doing
<1>3. ASSUME NEW how, Withdrawing(tx[u], how) PROVE Withdrawing(tx[u], how)'
  BY <1>1, <1>3, RowsSame DEF Withdrawing
<1>4. CASE Settling(tx[u])
  BY <1>3, <1>4 DEF Settling, Doing
<1>5. CASE Claiming(tx[u])
  BY <1>1, <1>5, RowsSame DEF Claiming, Doing
<1>6. CASE Starting(tx[u])
  <2>1. Starting(tx[u])'
    BY <1>0, <1>1, <1>6 DEF Starting
  <2> QED BY <2>1 DEF Doing
<1>7. CASE Moving(tx[u])
  BY <1>1, <1>7, RowsSame DEF Moving, Doing
<1>8. CASE tx[u] = Idle
  BY <1>8 DEF Doing
<1> QED BY <1>2, <1>4, <1>5, <1>6, <1>7, <1>8 DEF Doing

(* One transaction takes locks that are free and goes on; sequences only   *)
(* count up.                                                               *)
LEMMA OneMoves ==
  ASSUME IInv, NEW t \in Tx, NEW x, x \in TxRec, tx' = [tx EXCEPT ![t] = x], UNCHANGED rows,
         nRes' \in 0..MaxRes, nRes <= nRes', nSess' \in 0..MaxSess, nSess <= nSess',
         \A row \in x.held : row \in tx[t].held \/ \A u \in Tx \ {t} : row \notin tx[u].held,
         Holds(tx[t])', Doing(tx[t])'
  PROVE  IInv'
<1>1. cstat' = cstat /\ resv' = resv /\ sess' = sess
  BY DEF rows
<1>2. tx'[t] = x /\ \A u \in Tx \ {t} : tx'[u] = tx[u]
  BY DEF IInv, TypeOK
<1>3. TypeOK'
  BY <1>1 DEF IInv, TypeOK
<1>4. Numbered'
  BY <1>1 DEF IInv, TypeOK, Numbered, ResId, SessId
<1>5. Exclusive'
  <2> SUFFICES ASSUME NEW v \in Tx, NEW w \in Tx, v # w PROVE tx'[v].held \cap tx'[w].held = {}
    BY DEF Exclusive
  <2>1. tx[v].held \cap tx[w].held = {}
    BY DEF IInv, Exclusive
  <2> QED BY <1>2, <2>1
<1>6. StatusTrue' /\ OneLive'
  BY RowsSame DEF IInv
<1>7. ASSUME NEW u \in Tx PROVE Holds(tx[u])' /\ Doing(tx[u])'
  <2>1. CASE u # t
    <3>1. Holds(tx[u]) /\ Doing(tx[u]) /\ tx'[u] = tx[u]
      BY <1>2, <2>1 DEF IInv
    <3>2. Holds(tx[u])'
      BY <3>1 DEF Holds, IInv, TypeOK, ResId, SessId
    <3> QED BY <3>1, <3>2, OthersSame
  <2> QED BY <2>1
<1> QED BY <1>3, <1>4, <1>5, <1>6, <1>7 DEF IInv

(* A rollback, by the procedure, ORA-00060 or a lost connection.           *)
LEMMA RollsBackKeeps ==
  ASSUME IInv, NEW t \in Tx, RollsBack(t), UNCHANGED <<rows, nRes, nSess>>
  PROVE  IInv'
<1>1. tx' = [tx EXCEPT ![t] = Idle] /\ tx'[t] = Idle
  BY DEF RollsBack, IInv, TypeOK
<1>2. Holds(tx[t])' /\ Doing(tx[t])'
  BY <1>1, IdleIs, EmptyPart DEF Holds, Doing
<1>3. /\ nRes' \in 0..MaxRes /\ nRes <= nRes' /\ nSess' \in 0..MaxSess /\ nSess <= nSess'
      /\ UNCHANGED rows
  BY Bounds DEF IInv, TypeOK
<1> QED BY <1>1, <1>2, <1>3, IdleIs, OneMoves

(* ------------------------------ the actions ---------------------------- *)
LEMMA FreeIs ==
  ASSUME NEW t, NEW row, Free(t, row)
  PROVE  \A u \in Tx \ {t} : row \notin tx[u].held
  BY DEF Free, Holder

(* An identity that no rollback gave back names a row nobody holds.        *)
LEMMA NewRows ==
  ASSUME IInv, NEW u \in Tx
  PROVE  /\ nRes + 1 \in ResId => Row("resv", nRes + 1) \notin tx[u].held
         /\ nSess + 1 \in SessId => Row("sess", nSess + 1) \notin tx[u].held
<1>1. Holds(tx[u]) /\ nRes \in Int /\ nSess \in Int
  BY Bounds DEF IInv, TypeOK
<1> QED BY <1>1 DEF Holds

LEMMA RowIds ==
  /\ \A c \in Conn : Row("conn", c) \in RowId
  /\ \A r \in ResId : Row("resv", r) \in RowId
  /\ \A s \in SessId : Row("sess", s) \in RowId
  /\ \A a, b : /\ Row("conn", a) # Row("resv", b) /\ Row("conn", a) # Row("sess", b)
               /\ Row("resv", a) # Row("sess", b)
               /\ Row("conn", a) = Row("conn", b) => a = b
               /\ Row("resv", a) = Row("resv", b) => a = b
               /\ Row("sess", a) = Row("sess", b) => a = b
  BY DEF Row, RowId

(* A transaction of this shape.                                            *)
Shaped(x, at, held, put, left) ==
  /\ x = [at |-> x.at, held |-> x.held, put |-> x.put, left |-> x.left, conn |-> x.conn,
          user |-> x.user, res |-> x.res, to |-> x.to]
  /\ x.at = at /\ x.held = held /\ x.put = put /\ x.left = left /\ x.to = "OCCUPIED"
  /\ x.conn \in Conn \cup {None} /\ x.user \in User \cup {None} /\ x.res \in ResId \cup {None}

LEMMA FullRecord ==
  ASSUME NEW x, x = [i \in DOMAIN Idle |-> x[i]]
  PROVE  x = [at |-> x.at, held |-> x.held, put |-> x.put, left |-> x.left, conn |-> x.conn,
              user |-> x.user, res |-> x.res, to |-> x.to]
  BY DEF Idle

LEMMA ShapedType ==
  ASSUME NEW x, NEW held, NEW put, NEW left, held \in SUBSET RowId, put \in PutRec, left \in Seq(ResId),
         NEW at \in {"release", "commit", "claim", "count", "set"}, Shaped(x, at, held, put, left)
  PROVE  x \in TxRec
<1> DEFINE y == [at |-> x.at, held |-> x.held, put |-> x.put, left |-> x.left, conn |-> x.conn,
                 user |-> x.user, res |-> x.res, to |-> x.to]
<1>1. y \in TxRec
  BY DEF Shaped, TxRec, ConnStatus
<1> QED BY <1>1 DEF Shaped

LEMMA CreateKeeps ==
  ASSUME IInv, NEW t \in Tx, NEW c \in Conn, NEW u \in User, NEW b \in Time, NEW e \in Time,
         CreateReservation(t, c, u, b, e)
  PROVE  IInv'
<1> DEFINE r == nRes + 1
           put == [conn |-> Only(c, "RESERVED"), resv |-> Only(r, Window(c, u, b, e)), sess |-> <<>>]
           held == {Row("conn", c), Row("resv", r)}
           x == [Idle EXCEPT !.at = "commit", !.held = held, !.put.conn = Only(c, "RESERVED"),
                             !.put.resv = Only(r, Window(c, u, b, e))]
<1>a. Shaped(x, "commit", held, put, <<>>)
  <2>1. x = [i \in DOMAIN Idle |-> x[i]]
    OBVIOUS
  <2>2. x.put = put
    BY DEF Idle, Nothing
  <2>3. x.conn = None /\ x.user = None /\ x.res = None /\ x.to = "OCCUPIED"
    BY DEF Idle
  <2>4. x.at = "commit" /\ x.held = held /\ x.left = <<>>
    BY DEF Idle
  <2> HIDE DEF x
  <2> QED BY <2>1, <2>2, <2>3, <2>4, FullRecord DEF Shaped
<1>1. /\ tx' = [tx EXCEPT ![t] = x] /\ UNCHANGED rows /\ nRes' = nRes + 1 /\ nSess' = nSess
      /\ nRes < MaxRes /\ Bookable(c) /\ Overlaps(c, b, e) = {} /\ Free(t, Row("conn", c))
  BY DEF CreateReservation, Begins, Bookable
<1>2. /\ r \in ResId /\ nRes' \in 0..MaxRes /\ nRes <= nRes' /\ nSess' \in 0..MaxSess /\ nSess <= nSess'
      /\ r > nRes
  BY <1>1, Bounds DEF IInv, TypeOK, ResId
<1>3. Window(c, u, b, e) \in WindowRow
  BY DEF Window, WindowRow
<1>4. put \in PutRec
  BY <1>2, <1>3, OnlyIs, EmptyPart DEF PutRec, ConnStatus
<1> HIDE DEF x
<1>5. x \in TxRec
  <2>1. held \in SUBSET RowId /\ <<>> \in Seq(ResId)
    BY <1>2, RowIds
  <2> QED BY <1>a, <1>4, <2>1, ShapedType
<1>6. \A row \in x.held : \A v \in Tx \ {t} : row \notin tx[v].held
  BY <1>a, <1>1, <1>2, FreeIs, NewRows DEF Shaped
<1>7. tx'[t] = x
  BY <1>1 DEF IInv, TypeOK
<1>8. Holds(tx[t])'
  <2>1. \A q \in ResId : Row("resv", q) \in x.held => q <= nRes'
    BY <1>a, <1>1, <1>2, RowIds DEF Shaped
  <2>2. \A s \in SessId : Row("sess", s) \notin x.held
    BY <1>a, RowIds DEF Shaped
  <2>3. DOMAIN put.conn = {c} /\ DOMAIN put.resv = {r} /\ DOMAIN put.sess = {}
    BY OnlyIs, EmptyPart
  <2> HIDE DEF put
  <2> QED BY <1>a, <1>7, <2>1, <2>2, <2>3 DEF Shaped, Holds
<1>9. Doing(tx[t])'
  <2>1. resv'[r] = NoRow
    BY <1>1, <1>2 DEF IInv, Numbered, rows
  <2>2. Bookable(c)' /\ Overlaps(c, b, e)' = {}
    BY <1>1, RowsSame
  <2> QED BY <1>a, <1>2, <1>7, <2>1, <2>2 DEF Shaped, Doing, Creating
<1> QED BY <1>1, <1>2, <1>5, <1>6, <1>8, <1>9, OneMoves

LEMMA CancelKeeps ==
  ASSUME IInv, NEW t \in Tx, NEW r \in ResId, CancelReservation(t, r)
  PROVE  IInv'
<1> DEFINE row == [resv[r] EXCEPT !.status = "CANCELLED"]
           put == [conn |-> <<>>, resv |-> Only(r, row), sess |-> <<>>]
           held == {Row("resv", r)}
           x == [Idle EXCEPT !.at = "release", !.held = held, !.left = <<r>>, !.put.resv = Only(r, row)]
<1>a. Shaped(x, "release", held, put, <<r>>)
  <2>1. x = [i \in DOMAIN Idle |-> x[i]]
    OBVIOUS
  <2>2. x.put = put
    BY DEF Idle, Nothing
  <2>3. x.conn = None /\ x.user = None /\ x.res = None /\ x.to = "OCCUPIED"
    BY DEF Idle
  <2>4. x.at = "release" /\ x.held = held /\ x.left = <<r>>
    BY DEF Idle
  <2> HIDE DEF x
  <2> QED BY <2>1, <2>2, <2>3, <2>4, FullRecord DEF Shaped
<1>1. /\ tx' = [tx EXCEPT ![t] = x] /\ UNCHANGED rows /\ nRes' = nRes /\ nSess' = nSess
      /\ resv[r].status = "BOOKED" /\ Free(t, Row("resv", r))
  BY DEF CancelReservation, Begins
<1>2. nRes' \in 0..MaxRes /\ nRes <= nRes' /\ nSess' \in 0..MaxSess /\ nSess <= nSess'
  BY <1>1, Bounds DEF IInv, TypeOK
<1>3. row \in WindowRow
  BY <1>1, ResRows DEF IInv, WindowRow
<1>4. put \in PutRec
  BY <1>3, OnlyIs, EmptyPart DEF PutRec
<1> HIDE DEF x
<1>5. x \in TxRec
  <2>1. held \in SUBSET RowId /\ <<r>> \in Seq(ResId)
    BY RowIds
  <2> QED BY <1>a, <1>4, <2>1, ShapedType
<1>6. \A q \in x.held : \A v \in Tx \ {t} : q \notin tx[v].held
  BY <1>a, <1>1, FreeIs DEF Shaped
<1>7. tx'[t] = x
  BY <1>1 DEF IInv, TypeOK
<1>8. Holds(tx[t])'
  <2>1. r <= nRes
    BY <1>1, Bounds DEF IInv, TypeOK, Numbered, NoRow, ResId
  <2>2. \A q \in ResId : Row("resv", q) \in x.held => q <= nRes'
    BY <1>a, <1>1, <2>1, RowIds DEF Shaped
  <2>3. \A s \in SessId : Row("sess", s) \notin x.held
    BY <1>a, RowIds DEF Shaped
  <2>4. DOMAIN put.conn = {} /\ DOMAIN put.resv = {r} /\ DOMAIN put.sess = {}
    BY OnlyIs, EmptyPart
  <2> HIDE DEF put
  <2> QED BY <1>a, <1>7, <2>2, <2>3, <2>4 DEF Shaped, Holds
<1>9. Doing(tx[t])'
  <2>1. resv' = resv
    BY <1>1 DEF rows
  <2>2. <<r>> \in Seq({r}) /\ <<r>> # <<>>
    OBVIOUS
  <2>3. DOMAIN put.conn = {} /\ DOMAIN put.resv = {r} /\ put.resv[r] = row /\ put.sess = <<>>
    BY OnlyIs, EmptyPart
  <2> HIDE DEF put
  <2>4. tx'[t].put = put /\ tx'[t].at = "release" /\ tx'[t].left = <<r>>
    BY <1>a, <1>7 DEF Shaped
  <2>5. Withdrawing(tx[t], "CANCELLED")'
    BY <1>1, <2>1, <2>2, <2>3, <2>4 DEF Withdrawing
  <2> QED BY <2>3, <2>4, <2>5 DEF Doing, Settling
<1> QED BY <1>1, <1>2, <1>5, <1>6, <1>8, <1>9, OneMoves

(* The windows that the sweep found, in the order of the cursor.           *)
LEMMA Ordered ==
  ASSUME NEW R \in SUBSET ResId, R # {}, NEW left \in SetToSeqs(R)
  PROVE  left \in Seq(R) /\ left # <<>>
<1>1. IsFiniteSet(R)
  <2>1. IsFiniteSet(1..MaxRes)
    BY Bounds, FS_Interval
  <2> QED BY <2>1, FS_Subset DEF ResId
<1>2. Cardinality(R) \in Nat /\ Cardinality(R) # 0
  BY <1>1, FS_CardinalityType, FS_EmptySet
<1>3. left \in [1..Cardinality(R) -> R]
  BY DEF SetToSeqs
<1>4. left \in Seq(R)
  BY <1>2, <1>3, SeqDef
<1>5. Len(left) = Cardinality(R)
  BY <1>2, <1>3, <1>4, LenProperties
<1> QED BY <1>2, <1>4, <1>5

LEMMA ExpireKeeps ==
  ASSUME IInv, NEW t \in Tx, ExpireStale(t)
  PROVE  IInv'
<1>1. PICK R \in SUBSET {r \in ResId : resv[r].status = "BOOKED" /\ Free(t, Row("resv", r))} :
        /\ R # {}
        /\ \E left \in SetToSeqs(R) :
             Begins(t, [Idle EXCEPT !.at = "release", !.held = {Row("resv", r) : r \in R}, !.left = left,
                          !.put.resv = [r \in R |-> [resv[r] EXCEPT !.status = "EXPIRED"]]])
        /\ UNCHANGED <<rows, nRes, nSess>>
  BY DEF ExpireStale
<1>2. PICK left \in SetToSeqs(R) :
        Begins(t, [Idle EXCEPT !.at = "release", !.held = {Row("resv", r) : r \in R}, !.left = left,
                     !.put.resv = [r \in R |-> [resv[r] EXCEPT !.status = "EXPIRED"]]])
  BY <1>1
<1> DEFINE new == [r \in R |-> [resv[r] EXCEPT !.status = "EXPIRED"]]
           put == [conn |-> <<>>, resv |-> new, sess |-> <<>>]
           held == {Row("resv", r) : r \in R}
           x == [Idle EXCEPT !.at = "release", !.held = held, !.left = left, !.put.resv = new]
<1>a. Shaped(x, "release", held, put, left)
  <2>1. x = [i \in DOMAIN Idle |-> x[i]]
    OBVIOUS
  <2>2. x.put = put
    BY DEF Idle, Nothing
  <2>3. x.conn = None /\ x.user = None /\ x.res = None /\ x.to = "OCCUPIED"
    BY DEF Idle
  <2>4. x.at = "release" /\ x.held = held /\ x.left = left
    BY DEF Idle
  <2> HIDE DEF x
  <2> QED BY <2>1, <2>2, <2>3, <2>4, FullRecord DEF Shaped
<1>3. /\ tx' = [tx EXCEPT ![t] = x] /\ UNCHANGED rows /\ nRes' = nRes /\ nSess' = nSess
      /\ R \subseteq ResId /\ R # {}
      /\ \A r \in R : resv[r].status = "BOOKED" /\ Free(t, Row("resv", r))
  BY <1>1, <1>2 DEF Begins
<1>4. nRes' \in 0..MaxRes /\ nRes <= nRes' /\ nSess' \in 0..MaxSess /\ nSess <= nSess'
  BY <1>3, Bounds DEF IInv, TypeOK
<1>5. new \in Part(ResId, WindowRow)
  <2>1. \A r \in R : [resv[r] EXCEPT !.status = "EXPIRED"] \in WindowRow
    BY <1>3, ResRows DEF IInv, WindowRow
  <2>2. new \in [R -> WindowRow]
    BY <2>1
  <2> QED BY <1>3, <2>2 DEF Part
<1>6. left \in Seq(R) /\ left # <<>> /\ left \in Seq(ResId)
  <2>1. left \in Seq(R) /\ left # <<>>
    BY <1>3, Ordered
  <2> QED BY <1>3, <2>1, SeqDef
<1>7. put \in PutRec
  BY <1>5, EmptyPart DEF PutRec
<1> HIDE DEF x
<1>8. x \in TxRec
  <2>1. held \in SUBSET RowId
    BY <1>3, RowIds
  <2> QED BY <1>a, <1>6, <1>7, <2>1, ShapedType
<1>9. \A q \in x.held : \A v \in Tx \ {t} : q \notin tx[v].held
  BY <1>a, <1>3, FreeIs DEF Shaped
<1>10. tx'[t] = x
  BY <1>3 DEF IInv, TypeOK
<1>11. Holds(tx[t])'
  <2>1. \A r \in R : r <= nRes
    BY <1>3, Bounds DEF IInv, TypeOK, Numbered, NoRow, ResId
  <2>2. \A q \in ResId : Row("resv", q) \in x.held => q <= nRes'
    BY <1>a, <1>3, <2>1, RowIds DEF Shaped
  <2>3. \A s \in SessId : Row("sess", s) \notin x.held
    BY <1>a, RowIds DEF Shaped
  <2>4. DOMAIN put.conn = {} /\ DOMAIN put.resv = R /\ DOMAIN put.sess = {}
    BY EmptyPart
  <2> HIDE DEF put
  <2> QED BY <1>a, <1>10, <2>2, <2>3, <2>4 DEF Shaped, Holds
<1>12. Doing(tx[t])'
  <2>1. resv' = resv
    BY <1>3 DEF rows
  <2>2. /\ DOMAIN put.conn = {} /\ DOMAIN put.resv = R /\ put.sess = <<>>
        /\ \A r \in R : put.resv[r] = [resv[r] EXCEPT !.status = "EXPIRED"]
    BY EmptyPart
  <2> HIDE DEF put
  <2>3. Withdrawing(tx[t], "EXPIRED")'
    BY <1>a, <1>3, <1>6, <1>10, <2>1, <2>2 DEF Shaped, Withdrawing
  <2> QED BY <2>3 DEF Doing, Settling
<1> QED BY <1>3, <1>4, <1>8, <1>9, <1>11, <1>12, OneMoves

(* A transaction that begins with one row of a session.                    *)
LEMMA SessionBegins ==
  ASSUME IInv, NEW t \in Tx, NEW s \in SessId, NEW x, tx' = [tx EXCEPT ![t] = x],
         UNCHANGED rows, nRes' = nRes, nSess' = nSess, Free(t, Row("sess", s)), sess[s].state \in Live,
         NEW row, NEW at \in {"release", "commit", "claim", "count", "set"},
         [conn |-> <<>>, resv |-> <<>>, sess |-> Only(s, row)] \in PutRec,
         Shaped(x, at, {Row("sess", s)}, [conn |-> <<>>, resv |-> <<>>, sess |-> Only(s, row)], <<>>),
         Moving(x)
  PROVE  IInv'
<1> DEFINE put == [conn |-> <<>>, resv |-> <<>>, sess |-> Only(s, row)]
           held == {Row("sess", s)}
<1>1. nRes' \in 0..MaxRes /\ nRes <= nRes' /\ nSess' \in 0..MaxSess /\ nSess <= nSess'
  BY Bounds DEF IInv, TypeOK
<1>2. x \in TxRec
  <2>1. held \in SUBSET RowId /\ <<>> \in Seq(ResId)
    BY RowIds
  <2> QED BY <2>1, ShapedType
<1>3. \A q \in x.held : \A v \in Tx \ {t} : q \notin tx[v].held
  BY FreeIs DEF Shaped
<1>4. tx'[t] = x
  BY DEF IInv, TypeOK
<1>5. Holds(tx[t])'
  <2>1. s <= nSess
    BY Bounds DEF IInv, TypeOK, Numbered, NoSession, SessId, Live
  <2>2. \A q \in SessId : Row("sess", q) \in x.held => q <= nSess'
    BY <2>1, RowIds DEF Shaped
  <2>3. \A r \in ResId : Row("resv", r) \notin x.held
    BY RowIds DEF Shaped
  <2>4. DOMAIN put.conn = {} /\ DOMAIN put.sess = {s} /\ DOMAIN put.resv = {}
    BY OnlyIs, EmptyPart
  <2>5. x.put = put /\ x.held = held
    BY DEF Shaped
  <2> HIDE DEF put
  <2> QED BY <1>4, <2>2, <2>3, <2>4, <2>5 DEF Holds
<1>6. Doing(tx[t])'
  <2>1. sess' = sess
    BY DEF rows
  <2>2. Moving(tx[t])'
    BY <1>4, <2>1, RowsSame DEF Moving
  <2> QED BY <2>2 DEF Doing
<1> QED BY <1>1, <1>2, <1>3, <1>5, <1>6, OneMoves

LEMMA MovingBy ==
  ASSUME NEW x, NEW s \in SessId, NEW to \in Live \cup Ended, sess[s].state \in Live,
         x.put = [conn |-> <<>>, resv |-> <<>>, sess |-> Only(s, [sess[s] EXCEPT !.state = to])],
         \/ x.at = "count" /\ x.conn = sess[s].conn /\ to \in Ended
         \/ x.at = "set" /\ x.conn = sess[s].conn /\ to \in Live /\ x.to = "OCCUPIED"
         \/ x.at = "commit" /\ to \in Live
  PROVE  Moving(x)
<1>1. /\ x.put.conn = <<>> /\ x.put.resv = <<>>
      /\ x.put.sess = Only(s, [sess[s] EXCEPT !.state = to])
  OBVIOUS
<1>2. x.at = "set" => Fits(x.conn, to, x.to)
  BY DEF Fits
<1> QED BY <1>1, <1>2 DEF Moving

LEMMA TickKeeps ==
  ASSUME IInv, NEW t \in Tx, NEW s \in SessId, RecordMeterTick(t, s)
  PROVE  IInv'
<1> DEFINE row == [sess[s] EXCEPT !.state = "CHARGING"]
           put == [conn |-> <<>>, resv |-> <<>>, sess |-> Only(s, row)]
           held == {Row("sess", s)}
           x == [Idle EXCEPT !.at = "commit", !.held = held, !.put.sess = Only(s, row)]
<1>a. Shaped(x, "commit", held, put, <<>>)
  <2>1. x = [i \in DOMAIN Idle |-> x[i]]
    OBVIOUS
  <2>2. x.put = put
    BY DEF Idle, Nothing
  <2>3. x.conn = None /\ x.user = None /\ x.res = None /\ x.to = "OCCUPIED"
    BY DEF Idle
  <2>4. x.at = "commit" /\ x.held = held /\ x.left = <<>>
    BY DEF Idle
  <2> HIDE DEF x
  <2> QED BY <2>1, <2>2, <2>3, <2>4, FullRecord DEF Shaped
<1>1. /\ tx' = [tx EXCEPT ![t] = x] /\ UNCHANGED rows /\ nRes' = nRes /\ nSess' = nSess
      /\ sess[s].state = "PREPARING" /\ Free(t, Row("sess", s))
  BY DEF RecordMeterTick, Begins
<1> HIDE DEF x
<1>2. row \in ChargeRow
  BY <1>1, SessRows DEF IInv, ChargeRow, Live
<1>3. put \in PutRec
  BY <1>2, OnlyIs, EmptyPart DEF PutRec
<1>4. Moving(x)
  <2>1. x.put = put /\ x.at = "commit"
    BY <1>a DEF Shaped
  <2> QED BY <1>1, <2>1, MovingBy DEF Live
<1> HIDE DEF row
<1>5. sess[s].state \in Live
  BY <1>1 DEF Live
<1> QED BY <1>a, <1>1, <1>3, <1>4, <1>5, SessionBegins

LEMMA TransitionKeeps ==
  ASSUME IInv, NEW t \in Tx, NEW s \in SessId, NEW to \in Live \cup Ended, Transition(t, s, to)
  PROVE  IInv'
<1> DEFINE row == [sess[s] EXCEPT !.state = to]
           put == [conn |-> <<>>, resv |-> <<>>, sess |-> Only(s, row)]
           held == {Row("sess", s)}
           at == IF to = "CHARGING" THEN "set" ELSE IF to \in Ended THEN "count" ELSE "commit"
           x == [Idle EXCEPT !.at = at, !.held = held, !.put.sess = Only(s, row), !.conn = sess[s].conn]
<1>1. /\ tx' = [tx EXCEPT ![t] = x] /\ UNCHANGED rows /\ nRes' = nRes /\ nSess' = nSess
      /\ Legal(sess[s].state, to) /\ Free(t, Row("sess", s))
  BY DEF Transition, Begins
<1>2. sess[s].state \in Live
  BY <1>1 DEF Legal, Live
<1>3. row \in ChargeRow /\ sess[s].conn \in Conn
  BY <1>2, SessRows DEF IInv, ChargeRow
<1>4. put \in PutRec
  BY <1>3, OnlyIs, EmptyPart DEF PutRec
<1>a. Shaped(x, at, held, put, <<>>)
  <2>1. x = [i \in DOMAIN Idle |-> x[i]]
    OBVIOUS
  <2>2. x.put = put
    BY DEF Idle, Nothing
  <2>3. x.conn = sess[s].conn /\ x.user = None /\ x.res = None /\ x.to = "OCCUPIED"
    BY DEF Idle
  <2>4. x.at = at /\ x.held = held /\ x.left = <<>>
    BY DEF Idle
  <2> HIDE DEF x, at
  <2> QED BY <1>3, <2>1, <2>2, <2>3, <2>4, FullRecord DEF Shaped
<1>b. x.conn = sess[s].conn
  BY DEF Idle
<1> HIDE DEF x
<1>5. Moving(x)
  <2>1. x.put = put /\ x.at = at /\ x.to = "OCCUPIED"
    BY <1>a DEF Shaped
  <2>2. CASE to = "CHARGING"
    BY <1>b, <1>2, <2>1, <2>2, MovingBy DEF Live
  <2>3. CASE to \in Ended
    BY <1>b, <1>2, <2>1, <2>3, MovingBy DEF Ended
  <2>4. CASE to \in Live /\ to # "CHARGING"
    BY <1>2, <2>1, <2>4, MovingBy DEF Live, Ended
  <2> QED BY <2>2, <2>3, <2>4
<1>6. at \in {"release", "commit", "claim", "count", "set"}
  OBVIOUS
<1> HIDE DEF at, row
<1> QED BY <1>a, <1>1, <1>2, <1>4, <1>5, <1>6, SessionBegins

(* What the statement of a start writes, the connector being held.         *)
LEMMA StartedIs ==
  ASSUME IInv, NEW c \in Conn, NEW u \in User, NEW r \in ResId \cup {None}, nSess < MaxSess,
         r # None => resv[r].status = "BOOKED"
  PROVE  /\ Started(c, u, r) \in PutRec
         /\ nSess + 1 \in SessId /\ sess[nSess + 1] = NoSession
         /\ DOMAIN Started(c, u, r).conn = {c} /\ DOMAIN Started(c, u, r).sess = {nSess + 1}
         /\ r = None => DOMAIN Started(c, u, r).resv = {}
         /\ r # None => DOMAIN Started(c, u, r).resv = {r}
<1> DEFINE s == nSess + 1
           w == [resv[r] EXCEPT !.status = "CONVERTED"]
<1>1. s \in SessId /\ sess[s] = NoSession
  BY Bounds DEF IInv, TypeOK, Numbered, SessId
<1>2. Session(c, u, r) \in ChargeRow
  BY DEF Session, ChargeRow, Live
<1>3. r # None => w \in WindowRow /\ r \in ResId
  BY ResRows DEF IInv, WindowRow
<1> HIDE DEF s, w
<1>4. /\ Only(c, "OCCUPIED") \in Part(Conn, ConnStatus) /\ DOMAIN Only(c, "OCCUPIED") = {c}
      /\ Only(s, Session(c, u, r)) \in Part(SessId, ChargeRow) /\ DOMAIN Only(s, Session(c, u, r)) = {s}
      /\ r # None => Only(r, w) \in Part(ResId, WindowRow) /\ DOMAIN Only(r, w) = {r}
  BY <1>1, <1>2, <1>3, OnlyIs DEF ConnStatus
<1> QED BY <1>1, <1>4, EmptyPart DEF Started, PutRec, s, w

LEMMA StartKeeps ==
  ASSUME IInv, NEW t \in Tx, NEW c \in Conn, NEW u \in User, NEW r \in ResId \cup {None},
         StartSession(t, c, u, r)
  PROVE  IInv'
<1>1. /\ UNCHANGED rows /\ nRes' = nRes /\ nSess < MaxSess /\ Bookable(c) /\ Free(t, Row("conn", c))
  BY DEF StartSession, Bookable
<1>2. nRes' \in 0..MaxRes /\ nRes <= nRes'
  BY <1>1, Bounds DEF IInv, TypeOK
<1>3. CASE r = None
  <2> DEFINE put == Started(c, u, r)
             s == nSess + 1
             held == {Row("conn", c), Row("sess", s)}
             x == [Idle EXCEPT !.at = "commit", !.put = put, !.held = held]
  <2>1. Shaped(x, "commit", held, put, <<>>)
    <3>1. x = [i \in DOMAIN Idle |-> x[i]]
      OBVIOUS
    <3>2. x.put = put /\ x.at = "commit" /\ x.held = held /\ x.left = <<>>
      BY DEF Idle
    <3>3. x.conn = None /\ x.user = None /\ x.res = None /\ x.to = "OCCUPIED"
      BY DEF Idle
    <3> HIDE DEF x
    <3> QED BY <3>1, <3>2, <3>3, FullRecord DEF Shaped
  <2>2. tx' = [tx EXCEPT ![t] = x] /\ nSess' = nSess + 1
    BY <1>3 DEF StartSession, Begins
  <2> HIDE DEF x
  <2>3. tx'[t] = x
    BY <2>2 DEF IInv, TypeOK
  <2>4. /\ put \in PutRec /\ s \in SessId /\ sess[s] = NoSession
        /\ DOMAIN put.conn = {c} /\ DOMAIN put.sess = {s} /\ DOMAIN put.resv = {}
        /\ put = [conn |-> Only(c, "OCCUPIED"), sess |-> Only(s, Session(c, u, None)), resv |-> <<>>]
    BY <1>1, <1>3, StartedIs DEF Started
  <2> HIDE DEF put
  <2>5. x \in TxRec
    <3>1. held \in SUBSET RowId /\ <<>> \in Seq(ResId)
      BY <2>4, RowIds
    <3> QED BY <2>1, <2>4, <3>1, ShapedType
  <2>6. \A row \in x.held : \A v \in Tx \ {t} : row \notin tx[v].held
    BY <1>1, <2>1, <2>4, FreeIs, NewRows DEF Shaped
  <2>7. Holds(tx[t])'
    <3>1. x.put = put /\ x.held = held
      BY <2>1 DEF Shaped
    <3>2. \A q \in SessId : Row("sess", q) \in x.held => q <= nSess'
      <4>1. \A q \in SessId : Row("sess", q) \in held => q = nSess + 1
        BY RowIds
      <4>2. nSess \in Nat
        BY Bounds DEF IInv, TypeOK
      <4> QED BY <2>2, <3>1, <4>1, <4>2
    <3>3. \A q \in ResId : Row("resv", q) \notin x.held
      BY <3>1, RowIds
    <3> QED BY <2>3, <2>4, <3>1, <3>2, <3>3 DEF Holds
  <2>8. Doing(tx[t])'
    <3>1. sess' = sess /\ Bookable(c)'
      BY <1>1, RowsSame DEF rows
    <3>2. tx'[t].put = put /\ tx'[t].at = "commit"
      BY <2>1, <2>3 DEF Shaped
    <3>3. Starting(tx[t])'
      BY <1>3, <2>4, <3>1, <3>2 DEF Starting
    <3> QED BY <3>3 DEF Doing
  <2>9. nSess' \in 0..MaxSess /\ nSess <= nSess'
    BY <1>1, <2>2, Bounds DEF IInv, TypeOK
  <2> QED BY <1>1, <1>2, <2>2, <2>5, <2>6, <2>7, <2>8, <2>9, OneMoves
<1>4. CASE r # None
  <2> DEFINE held == {Row("conn", c)}
             x == [Idle EXCEPT !.at = "claim", !.held = held, !.conn = c, !.user = u, !.res = r]
  <2>0. x.conn = c /\ x.user = u /\ x.res = r /\ x.to = "OCCUPIED"
    BY DEF Idle
  <2>1. Shaped(x, "claim", held, Nothing, <<>>)
    <3>1. x = [i \in DOMAIN Idle |-> x[i]]
      OBVIOUS
    <3>2. x.put = Nothing /\ x.at = "claim" /\ x.held = held /\ x.left = <<>>
      BY DEF Idle
    <3> HIDE DEF x
    <3> QED BY <2>0, <3>1, <3>2, FullRecord DEF Shaped
  <2>2. tx' = [tx EXCEPT ![t] = x] /\ nSess' = nSess
    BY <1>4 DEF StartSession, Begins
  <2> HIDE DEF x
  <2>3. tx'[t] = x
    BY <2>2 DEF IInv, TypeOK
  <2>4. x \in TxRec
    <3>1. held \in SUBSET RowId /\ <<>> \in Seq(ResId) /\ Nothing \in PutRec
      BY RowIds, EmptyPart DEF Nothing, PutRec
    <3> QED BY <2>1, <3>1, ShapedType
  <2>5. \A row \in x.held : \A v \in Tx \ {t} : row \notin tx[v].held
    BY <1>1, <2>1, FreeIs DEF Shaped
  <2>6. Holds(tx[t])'
    <3>1. x.put = Nothing /\ x.held = held
      BY <2>1 DEF Shaped
    <3>2. \A q : Row("sess", q) \notin x.held /\ Row("resv", q) \notin x.held
      BY <3>1, RowIds
    <3>3. DOMAIN x.put.conn = {} /\ DOMAIN x.put.sess = {} /\ DOMAIN x.put.resv = {}
      BY <3>1, IdleIs, EmptyPart
    <3> QED BY <2>3, <3>2, <3>3 DEF Holds
  <2>7. Doing(tx[t])'
    <3>1. Bookable(c)'
      BY <1>1, RowsSame
    <3>2. Claiming(tx[t])'
      BY <1>4, <2>0, <2>1, <2>3, <3>1 DEF Claiming, Shaped
    <3> QED BY <3>2 DEF Doing
  <2>8. nSess' \in 0..MaxSess /\ nSess <= nSess'
    BY <1>1, <2>2, Bounds DEF IInv, TypeOK
  <2> QED BY <1>1, <1>2, <2>2, <2>4, <2>5, <2>6, <2>7, <2>8, OneMoves
<1> QED BY <1>3, <1>4

(* Where a transaction stands tells what it is doing.                      *)
LEMMA AtTells ==
  ASSUME NEW x, Doing(x)
  PROVE  /\ x.at = "claim" => Claiming(x)
         /\ x.at = "release" => Settling(x)
         /\ x.at \in {"count", "set"} => Moving(x)
         /\ x.at = "commit" => Creating(x) \/ Settling(x) \/ Starting(x) \/ Moving(x)
<1>1. Idle.at = "idle"
  BY DEF Idle
<1>2. Settling(x) => x.at \in {"release", "commit"}
  BY DEF Settling, Withdrawing
<1>3. Moving(x) => x.at \in {"count", "set", "commit"}
  BY DEF Moving
<1> QED BY <1>1, <1>2, <1>3 DEF Doing, Creating, Claiming, Starting

LEMMA ClaimKeeps ==
  ASSUME IInv, NEW t \in Tx, ClaimWindow(t)
  PROVE  IInv'
<1>0. PICK c, u, r, s : c = tx[t].conn /\ u = tx[t].user /\ r = tx[t].res /\ s = nSess + 1
  OBVIOUS
<1> DEFINE put == Started(c, u, r)
           x == [tx[t] EXCEPT !.at = "commit", !.held = @ \cup {Row("resv", r), Row("sess", s)}, !.put = put]
<1>1. /\ tx[t].at = "claim" /\ Free(t, Row("resv", r)) /\ UNCHANGED rows /\ nRes' = nRes
      /\ \/ /\ tx' = [tx EXCEPT ![t] = x] /\ nSess' = nSess + 1
            /\ Owned(c, u, r) /\ nSess < MaxSess
         \/ RollsBack(t) /\ nSess' = nSess
  BY <1>0 DEF ClaimWindow, Goes, IInv, TypeOK
<1>2. CASE RollsBack(t) /\ nSess' = nSess
  BY <1>1, <1>2, RollsBackKeeps
<1>3. CASE tx' = [tx EXCEPT ![t] = x] /\ nSess' = nSess + 1 /\ Owned(c, u, r) /\ nSess < MaxSess
  <2>1. Claiming(tx[t]) /\ Holds(tx[t])
    BY <1>1, AtTells DEF IInv
  <2>2. /\ c \in Conn /\ u \in User /\ r \in ResId /\ Row("conn", c) \in tx[t].held /\ Bookable(c)
        /\ r # None
    BY <1>0, <2>1, Bounds DEF Claiming
  <2>3. /\ put \in PutRec /\ s \in SessId /\ sess[s] = NoSession
        /\ DOMAIN put.conn = {c} /\ DOMAIN put.sess = {s} /\ DOMAIN put.resv = {r}
        /\ put = [conn |-> Only(c, "OCCUPIED"), sess |-> Only(s, Session(c, u, r)),
                  resv |-> IF r = None THEN <<>> ELSE Only(r, [resv[r] EXCEPT !.status = "CONVERTED"])]
    <3>1. resv[r].status = "BOOKED" /\ r \in ResId \cup {None}
      BY <1>3, <2>2 DEF Owned
    <3>2. /\ put \in PutRec /\ nSess + 1 \in SessId /\ sess[nSess + 1] = NoSession
          /\ DOMAIN put.conn = {c} /\ DOMAIN put.sess = {nSess + 1}
          /\ r # None => DOMAIN put.resv = {r}
      <4>1. c \in Conn /\ u \in User /\ r \in ResId \cup {None} /\ nSess < MaxSess
        BY <1>3, <2>2
      <4> QED BY <3>1, <4>1, StartedIs
    <3>3. put = [conn |-> Only(c, "OCCUPIED"), sess |-> Only(nSess + 1, Session(c, u, r)),
                 resv |-> IF r = None THEN <<>> ELSE Only(r, [resv[r] EXCEPT !.status = "CONVERTED"])]
      BY DEF Started
    <3> HIDE DEF put
    <3> QED BY <1>0, <2>2, <3>2, <3>3
  <2> HIDE DEF put
  <2>4. /\ x \in TxRec /\ x.at = "commit" /\ x.put = put
        /\ x.held = tx[t].held \cup {Row("resv", r), Row("sess", s)}
    <3>1. tx[t] \in TxRec /\ tx[t].held \in SUBSET RowId
      BY TxFields DEF IInv, TxRec
    <3>2. tx[t].held \cup {Row("resv", r), Row("sess", s)} \in SUBSET RowId
      BY <2>2, <2>3, <3>1, RowIds
    <3> QED BY <2>3, <3>1, <3>2 DEF TxRec
  <2> HIDE DEF x
  <2>5. tx'[t] = x
    BY <1>3 DEF IInv, TypeOK
  <2>6. \A row \in x.held : row \in tx[t].held \/ \A v \in Tx \ {t} : row \notin tx[v].held
    BY <1>0, <1>1, <2>3, <2>4, FreeIs, NewRows
  <2>7. Holds(tx[t])'
    <3>1. resv[r] # NoRow /\ r <= nRes
      BY <1>3, <2>2, Bounds DEF Owned, NoRow, IInv, TypeOK, Numbered, ResId
    <3>2. \A q \in SessId : Row("sess", q) \in x.held => q <= nSess'
      <4>1. nSess \in Nat /\ s = nSess + 1 /\ nSess' = nSess + 1
        BY <1>0, <1>3, Bounds DEF IInv, TypeOK
      <4>2. \A q \in SessId : Row("sess", q) \in tx[t].held => q <= nSess
        BY <2>1 DEF Holds
      <4> SUFFICES ASSUME NEW q \in SessId, Row("sess", q) \in x.held PROVE q <= nSess'
        OBVIOUS
      <4>3. Row("sess", q) \in tx[t].held \/ q = s
        BY <2>4, RowIds
      <4> QED BY <4>1, <4>2, <4>3 DEF SessId
    <3>3. \A q \in ResId : Row("resv", q) \in x.held => q <= nRes'
      BY <1>1, <2>1, <2>4, <3>1, RowIds DEF Holds
    <3> QED BY <2>2, <2>3, <2>4, <2>5, <3>2, <3>3 DEF Holds
  <2>8. Doing(tx[t])'
    <3>1. sess' = sess /\ resv' = resv /\ Bookable(c)' /\ Owned(c, u, r)'
      BY <1>1, <1>3, <2>2, RowsSame DEF rows
    <3>2. r \in ResId \cup {None}
      BY <2>2
    <3>3. Starting(tx[t])'
      BY <2>2, <2>3, <2>4, <2>5, <3>1, <3>2 DEF Starting
    <3> QED BY <3>3 DEF Doing
  <2>9. /\ nSess' \in 0..MaxSess /\ nSess <= nSess' /\ nRes' \in 0..MaxRes /\ nRes <= nRes'
    BY <1>1, <1>3, Bounds DEF IInv, TypeOK
  <2> QED BY <1>1, <1>3, <2>4, <2>6, <2>7, <2>8, <2>9, OneMoves
<1> QED BY <1>1, <1>2, <1>3

LEMMA SeesIs ==
  ASSUME IInv, NEW t \in Tx, NEW c \in Conn
  PROVE  /\ SeesConn(t, c) = IF c \in DOMAIN tx[t].put.conn THEN tx[t].put.conn[c] ELSE cstat[c]
         /\ Booked(c) \subseteq BookedOn(t, c) \cup DOMAIN tx[t].put.resv
<1>1. SeesConn(t, c) = IF c \in DOMAIN tx[t].put.conn THEN tx[t].put.conn[c] ELSE cstat[c]
  BY OverIs DEF SeesConn, IInv, TypeOK
<1>2. \A r \in ResId : r \notin DOMAIN tx[t].put.resv => SeesResv(t, r) = resv[r]
  BY OverIs DEF SeesResv, IInv, TypeOK
<1> QED BY <1>1, <1>2 DEF Booked, BookedOn

LEMMA ReleaseKeeps ==
  ASSUME IInv, NEW t \in Tx, Release(t)
  PROVE  IInv'
<1>1. PICK c, left : c = resv[Head(tx[t].left)].conn /\ left = Tail(tx[t].left)
  OBVIOUS
<1>2. PICK at, held, cs : /\ at = IF left = <<>> THEN "commit" ELSE tx[t].at
                          /\ held = tx[t].held \cup {Row("conn", c)}
                          /\ cs = IF HoldFree(t, c) THEN Also(tx[t].put.conn, c, "AVAILABLE") ELSE tx[t].put.conn
  OBVIOUS
<1> DEFINE x == [tx[t] EXCEPT !.left = left, !.at = at, !.held = held, !.put.conn = cs]
           R == DOMAIN tx[t].put.resv
<1>3. /\ tx[t].at = "release" /\ Free(t, Row("conn", c)) /\ tx' = [tx EXCEPT ![t] = x]
      /\ UNCHANGED rows /\ nRes' = nRes /\ nSess' = nSess
  <2>1. tx \in [Tx -> TxRec]
    BY DEF IInv, TypeOK
  <2>2. /\ tx[t].at = "release" /\ Free(t, Row("conn", c))
        /\ UNCHANGED rows /\ nRes' = nRes /\ nSess' = nSess
        /\ tx' = [tx EXCEPT ![t].left = left, ![t].at = at, ![t].held = held, ![t].put.conn = cs]
    BY <1>1, <1>2, <2>1 DEF Release
  <2>3. tx' = [tx EXCEPT ![t] = x]
    <3>1. tx'[t] = x /\ \A u \in Tx : u # t => tx'[u] = tx[u]
      BY <2>1, <2>2
    <3>2. tx' = [u \in Tx |-> tx'[u]]
      BY <2>1, <2>2
    <3> HIDE DEF x
    <3> QED BY <2>1, <3>1, <3>2
  <2> QED BY <2>2, <2>3
<1>4. Settling(tx[t]) /\ Holds(tx[t])
  BY <1>3, AtTells DEF IInv
<1>5. PICK how \in {"EXPIRED", "CANCELLED"} :
        Withdrawing(tx[t], how) /\ (how = "CANCELLED" => \E r \in ResId : R = {r})
  BY <1>4 DEF Settling
<1>6. /\ tx[t].left \in Seq(R) /\ tx[t].left # <<>> /\ R \subseteq ResId
      /\ \A r \in R : resv[r].status = "BOOKED"
  BY <1>3, <1>5, TxFields DEF Withdrawing, IInv
<1>7. Head(tx[t].left) \in R /\ left \in Seq(R)
  BY <1>1, <1>6, HeadTailProperties
<1>8. c \in Conn
  BY <1>1, <1>6, <1>7, ResRows DEF IInv
<1>9. /\ cs \in Part(Conn, ConnStatus)
      /\ \A k \in DOMAIN cs : /\ k \in Conn /\ cs[k] = "AVAILABLE" /\ cstat[k] = "RESERVED"
                              /\ Booked(k) \subseteq R /\ Row("conn", k) \in held
  <2>1. /\ tx[t].put.conn \in Part(Conn, ConnStatus) /\ DOMAIN tx[t].put.conn \subseteq Conn
        /\ \A k \in DOMAIN tx[t].put.conn :
             /\ tx[t].put.conn[k] = "AVAILABLE" /\ cstat[k] = "RESERVED"
             /\ Booked(k) \subseteq R /\ Row("conn", k) \in tx[t].held
    BY <1>4, <1>5, TxFields DEF IInv, Withdrawing, Holds
  <2>2. CASE ~HoldFree(t, c)
    BY <1>2, <2>1, <2>2
  <2>3. CASE HoldFree(t, c)
    <3>1. SeesConn(t, c) = "RESERVED" /\ BookedOn(t, c) = {}
      BY <2>3 DEF HoldFree
    <3>2. cstat[c] = "RESERVED" /\ Booked(c) \subseteq R
      BY <1>8, <2>1, <3>1, SeesIs
    <3>3. cs = Also(tx[t].put.conn, c, "AVAILABLE")
      BY <1>2, <2>3
    <3>4. /\ cs \in Part(Conn, ConnStatus) /\ DOMAIN cs = DOMAIN tx[t].put.conn \cup {c}
          /\ cs[c] = "AVAILABLE" /\ \A k \in DOMAIN tx[t].put.conn : k # c => cs[k] = tx[t].put.conn[k]
      <4>1. "AVAILABLE" \in ConnStatus
        BY DEF ConnStatus
      <4>2. Also(tx[t].put.conn, c, "AVAILABLE") \in Part(Conn, ConnStatus)
        BY <1>8, <2>1, <4>1, PartAlso
      <4>3. PICK f : f = tx[t].put.conn
        OBVIOUS
      <4>4. cs = Also(f, c, "AVAILABLE")
        BY <3>3, <4>3
      <4>5. /\ DOMAIN cs = DOMAIN f \cup {c} /\ cs[c] = "AVAILABLE"
            /\ \A k \in DOMAIN f : k # c => cs[k] = f[k]
        BY <4>4 DEF Also
      <4> QED BY <3>3, <4>2, <4>3, <4>5
    <3> QED BY <1>2, <1>8, <2>1, <3>2, <3>4
  <2> QED BY <2>2, <2>3
<1>10. /\ x \in TxRec /\ x.at = at /\ x.held = held /\ x.left = left
       /\ x.put.conn = cs /\ x.put.resv = tx[t].put.resv /\ x.put.sess = tx[t].put.sess
  <2>1. tx[t] \in TxRec /\ tx[t].put \in PutRec /\ tx[t].held \in SUBSET RowId
    BY TxFields DEF IInv, TxRec
  <2>2. held \in SUBSET RowId /\ at \in {"release", "commit"}
    BY <1>2, <1>3, <1>8, <2>1, RowIds
  <2>3. left \in Seq(ResId)
    BY <1>6, <1>7, SeqDef
  <2>4. [tx[t].put EXCEPT !.conn = cs] \in PutRec
    BY <1>9, <2>1 DEF PutRec
  <2> QED BY <2>1, <2>2, <2>3, <2>4 DEF TxRec, PutRec
<1> HIDE DEF x
<1>11. tx'[t] = x
  BY <1>3 DEF IInv, TypeOK
<1>12. \A row \in x.held : row \in tx[t].held \/ \A v \in Tx \ {t} : row \notin tx[v].held
  BY <1>2, <1>3, <1>10, FreeIs
<1>13. Holds(tx[t])'
  <2>1. \A q : /\ Row("sess", q) \in held => Row("sess", q) \in tx[t].held
               /\ Row("resv", q) \in held => Row("resv", q) \in tx[t].held
    BY <1>2, RowIds
  <2>2. tx[t].held \subseteq held
    BY <1>2
  <2> QED BY <1>3, <1>4, <1>9, <1>10, <1>11, <2>1, <2>2 DEF Holds
<1>14. Doing(tx[t])'
  <2>1. cstat' = cstat /\ resv' = resv
    BY <1>3 DEF rows
  <2>2. at = "commit" \/ (at = "release" /\ left # <<>>)
    BY <1>2, <1>3
  <2>3. tx'[t].put.resv = tx[t].put.resv /\ tx'[t].put.sess = tx[t].put.sess /\ tx'[t].put.conn = cs
    BY <1>10, <1>11
  <2>4. Withdrawing(tx[t], how)'
    BY <1>3, <1>5, <1>7, <1>9, <1>10, <1>11, <2>1, <2>2, <2>3, RowsSame DEF Withdrawing
  <2> QED BY <1>5, <2>3, <2>4 DEF Doing, Settling
<1>15. nSess' \in 0..MaxSess /\ nSess <= nSess' /\ nRes' \in 0..MaxRes /\ nRes <= nRes'
  BY <1>3, Bounds DEF IInv, TypeOK
<1> QED BY <1>3, <1>10, <1>12, <1>13, <1>14, <1>15, OneMoves

(* The windows are counted while the session still counts as live, so no   *)
(* new one can come before the connector is held.                          *)
LEMMA CountKeeps ==
  ASSUME IInv, NEW t \in Tx, CountBooked(t)
  PROVE  IInv'
<1>1. PICK to : to = IF BookedOn(t, tx[t].conn) # {} THEN "RESERVED" ELSE "AVAILABLE"
  OBVIOUS
<1> DEFINE x == [tx[t] EXCEPT !.at = "set", !.to = to]
<1>2. /\ tx[t].at = "count" /\ tx' = [tx EXCEPT ![t] = x] /\ UNCHANGED rows
      /\ nRes' = nRes /\ nSess' = nSess
  <2>1. tx \in [Tx -> TxRec]
    BY DEF IInv, TypeOK
  <2>2. /\ tx[t].at = "count" /\ UNCHANGED <<rows, nRes, nSess>>
        /\ tx' = [tx EXCEPT ![t].at = "set", ![t].to = to]
    BY <1>1 DEF CountBooked
  <2> QED BY <2>1, <2>2
<1>3. Moving(tx[t]) /\ Holds(tx[t])
  BY <1>2, AtTells DEF IInv
<1>4. PICK s \in SessId, state \in Ended :
        /\ tx[t].put.sess = Only(s, [sess[s] EXCEPT !.state = state]) /\ tx[t].put.resv = <<>>
        /\ sess[s].state \in Live /\ tx[t].conn = sess[s].conn /\ tx[t].put.conn = <<>>
  BY <1>2, <1>3 DEF Moving
<1>5. tx[t].conn \in Conn
  BY <1>4, SessRows DEF IInv
<1>6. Fits(tx[t].conn, state, to)
  <2>1. Booked(tx[t].conn) \subseteq BookedOn(t, tx[t].conn)
    BY <1>4, <1>5, SeesIs, EmptyPart
  <2> QED BY <1>1, <2>1 DEF Fits
<1>7. /\ x \in TxRec /\ x.at = "set" /\ x.to = to /\ x.held = tx[t].held /\ x.put = tx[t].put
      /\ x.conn = tx[t].conn
  <2>1. tx[t] \in TxRec /\ to \in ConnStatus
    BY <1>1, TxFields DEF IInv, ConnStatus
  <2> QED BY <2>1 DEF TxRec
<1> HIDE DEF x
<1>8. tx'[t] = x
  BY <1>2 DEF IInv, TypeOK
<1>9. Holds(tx[t])'
  BY <1>2, <1>3, <1>7, <1>8 DEF Holds
<1>10. Doing(tx[t])'
  <2>1. sess' = sess
    BY <1>2 DEF rows
  <2>2. PICK c : c = tx[t].conn
    OBVIOUS
  <2>3. Fits(c, state, to)' /\ tx'[t].conn = c
    BY <1>2, <1>6, <1>7, <1>8, <2>2, RowsSame
  <2>4. Moving(tx[t])'
    BY <1>4, <1>7, <1>8, <2>1, <2>2, <2>3 DEF Moving
  <2> QED BY <2>4 DEF Doing
<1>11. nSess' \in 0..MaxSess /\ nSess <= nSess' /\ nRes' \in 0..MaxRes /\ nRes <= nRes'
  BY <1>2, Bounds DEF IInv, TypeOK
<1> QED BY <1>2, <1>7, <1>9, <1>10, <1>11, OneMoves

LEMMA SetKeeps ==
  ASSUME IInv, NEW t \in Tx, SetConnector(t)
  PROVE  IInv'
<1>1. PICK c, to, held : c = tx[t].conn /\ to = tx[t].to /\ held = tx[t].held \cup {Row("conn", c)}
  OBVIOUS
<1> DEFINE put == [tx[t].put EXCEPT !.conn = Only(c, to)]
           x == [tx[t] EXCEPT !.at = "commit", !.held = held, !.put = put]
<1>2. /\ tx[t].at = "set" /\ tx' = [tx EXCEPT ![t] = x] /\ UNCHANGED rows
      /\ nRes' = nRes /\ nSess' = nSess /\ Free(t, Row("conn", c))
  BY <1>1 DEF SetConnector, Goes, IInv, TypeOK
<1>3. Moving(tx[t]) /\ Holds(tx[t])
  BY <1>2, AtTells DEF IInv
<1>4. PICK s \in SessId, state \in Live \cup Ended :
        /\ tx[t].put.sess = Only(s, [sess[s] EXCEPT !.state = state]) /\ tx[t].put.resv = <<>>
        /\ sess[s].state \in Live /\ c = sess[s].conn /\ Fits(c, state, to)
  BY <1>1, <1>2, <1>3 DEF Moving
<1>5. c \in Conn /\ to \in ConnStatus
  BY <1>1, <1>4, SessRows, TxFields DEF IInv, TxRec
<1>6. /\ put \in PutRec /\ put.conn = Only(c, to) /\ DOMAIN put.conn = {c}
      /\ put.resv = tx[t].put.resv /\ put.sess = tx[t].put.sess
  <2>1. Only(c, to) \in Part(Conn, ConnStatus) /\ DOMAIN Only(c, to) = {c}
    BY <1>5, OnlyIs
  <2>2. tx[t].put \in PutRec
    BY TxFields DEF IInv
  <2> QED BY <2>1, <2>2 DEF PutRec
<1> HIDE DEF put
<1>7. x \in TxRec /\ x.at = "commit" /\ x.held = held /\ x.put = put /\ x.to = to
  <2>1. tx[t] \in TxRec /\ held \in SUBSET RowId
    BY <1>1, <1>5, TxFields, RowIds DEF IInv, TxRec
  <2> QED BY <1>1, <1>6, <2>1 DEF TxRec
<1> HIDE DEF x
<1>8. tx'[t] = x
  BY <1>2 DEF IInv, TypeOK
<1>9. \A row \in x.held : row \in tx[t].held \/ \A v \in Tx \ {t} : row \notin tx[v].held
  BY <1>1, <1>2, <1>7, FreeIs
<1>10. Holds(tx[t])'
  <2>1. \A q : /\ Row("sess", q) \in held => Row("sess", q) \in tx[t].held
               /\ Row("resv", q) \in held => Row("resv", q) \in tx[t].held
    BY <1>1, RowIds
  <2>2. tx[t].held \subseteq held /\ Row("conn", c) \in held
    BY <1>1
  <2> QED BY <1>2, <1>3, <1>6, <1>7, <1>8, <2>1, <2>2 DEF Holds
<1>11. Doing(tx[t])'
  <2>1. sess' = sess
    BY <1>2 DEF rows
  <2>2. Fits(c, state, to)'
    BY <1>2, <1>4, RowsSame
  <2>3. Moving(tx[t])'
    BY <1>4, <1>6, <1>7, <1>8, <2>1, <2>2 DEF Moving
  <2> QED BY <2>3 DEF Doing
<1>12. nSess' \in 0..MaxSess /\ nSess <= nSess' /\ nRes' \in 0..MaxRes /\ nRes <= nRes'
  BY <1>2, Bounds DEF IInv, TypeOK
<1> QED BY <1>2, <1>7, <1>9, <1>10, <1>11, <1>12, OneMoves

(* ------------------------------ the commit ----------------------------- *)
(* What a commit makes of the rows, by what the transaction was doing.     *)
Creates(c, u, r, b, e) ==
  /\ resv[r] = NoRow /\ Bookable(c) /\ Overlaps(c, b, e) = {}
  /\ cstat' = [cstat EXCEPT ![c] = "RESERVED"]
  /\ resv' = [resv EXCEPT ![r] = Window(c, u, b, e)] /\ sess' = sess

Settles(R, how) ==
  /\ R # {} /\ \A r \in R : resv[r].status = "BOOKED"
  /\ resv' = [r \in ResId |-> IF r \in R THEN [resv[r] EXCEPT !.status = how] ELSE resv[r]]
  /\ \A c \in Conn : \/ cstat'[c] = cstat[c]
                     \/ cstat[c] = "RESERVED" /\ cstat'[c] = "AVAILABLE" /\ Booked(c) \subseteq R
  /\ sess' = sess

Starts(c, u, r, s) ==
  /\ sess[s] = NoSession /\ Bookable(c)
  /\ cstat' = [cstat EXCEPT ![c] = "OCCUPIED"]
  /\ sess' = [sess EXCEPT ![s] = Session(c, u, r)]
  /\ \/ r = None /\ resv' = resv
     \/ r # None /\ Owned(c, u, r) /\ resv' = [resv EXCEPT ![r].status = "CONVERTED"]

Moves(s, state) ==
  /\ sess[s].state \in Live /\ state \in Live
  /\ sess' = [sess EXCEPT ![s].state = state] /\ UNCHANGED <<cstat, resv>>

Ends(s, state, to) ==
  /\ sess[s].state \in Live /\ state \in Ended /\ Fits(sess[s].conn, state, to)
  /\ cstat' = [cstat EXCEPT ![sess[s].conn] = to]
  /\ sess' = [sess EXCEPT ![s].state = state] /\ resv' = resv

Effect(t) ==
  \/ \E c \in Conn, u \in User, r \in ResId, b, e \in Time :
       Creates(c, u, r, b, e) /\ Row("conn", c) \in tx[t].held /\ Row("resv", r) \in tx[t].held
  \/ \E R \in SUBSET ResId, how \in {"EXPIRED", "CANCELLED"} :
       /\ Settles(R, how) /\ (how = "CANCELLED" => \E r \in ResId : R = {r})
       /\ \A r \in R : Row("resv", r) \in tx[t].held
  \/ \E c \in Conn, u \in User, r \in ResId \cup {None}, s \in SessId :
       /\ Starts(c, u, r, s) /\ Row("conn", c) \in tx[t].held /\ Row("sess", s) \in tx[t].held
       /\ r # None => Row("resv", r) \in tx[t].held
  \/ \E s \in SessId, state \in Live : Moves(s, state) /\ Row("sess", s) \in tx[t].held
  \/ \E s \in SessId, state \in Ended, to \in ConnStatus :
       Ends(s, state, to) /\ Row("sess", s) \in tx[t].held /\ Row("conn", sess[s].conn) \in tx[t].held

LEMMA CommitEffect ==
  ASSUME IInv, NEW t \in Tx, Commit(t)
  PROVE  Effect(t)
<1>1. PICK p : p = tx[t].put
  OBVIOUS
<1>2. /\ tx[t].at = "commit" /\ cstat' = Over(p.conn, cstat) /\ resv' = Over(p.resv, resv)
      /\ sess' = Over(p.sess, sess)
  BY <1>1 DEF Commit
<1>3. cstat \in [Conn -> ConnStatus] /\ resv \in [ResId -> ResRow] /\ sess \in [SessId -> SessRow]
  BY DEF IInv, TypeOK
<1>4. Holds(tx[t])
  BY DEF IInv
<1>5. CASE Creating(tx[t])
  <2>1. PICK c \in Conn, u \in User, r \in ResId, b \in Time, e \in Time :
          /\ p = [conn |-> Only(c, "RESERVED"), resv |-> Only(r, Window(c, u, b, e)), sess |-> <<>>]
          /\ resv[r] = NoRow /\ Bookable(c) /\ Overlaps(c, b, e) = {}
    BY <1>1, <1>5 DEF Creating
  <2>2. p.conn = Only(c, "RESERVED") /\ p.resv = Only(r, Window(c, u, b, e)) /\ p.sess = <<>>
    BY <2>1
  <2>3. c \in DOMAIN p.conn /\ r \in DOMAIN p.resv
    BY <2>2 DEF Only
  <2>4. Row("conn", c) \in tx[t].held /\ Row("resv", r) \in tx[t].held
    BY <1>1, <1>4, <2>3 DEF Holds
  <2>5. Creates(c, u, r, b, e)
    BY <1>2, <1>3, <2>1, <2>2, EmptyPart DEF Creates, Over, Only
  <2> QED BY <2>4, <2>5 DEF Effect
<1>6. CASE Settling(tx[t])
  <2>1. PICK R : R = DOMAIN p.resv
    OBVIOUS
  <2>2. PICK how \in {"EXPIRED", "CANCELLED"} :
          Withdrawing(tx[t], how) /\ (how = "CANCELLED" => \E r \in ResId : R = {r})
    BY <1>1, <1>6, <2>1 DEF Settling
  <2>3. R \in SUBSET ResId /\ R # {} /\ \A r \in R : resv[r].status = "BOOKED"
    BY <1>1, <2>1, <2>2, TxFields DEF IInv, Withdrawing
  <2>4. resv' = [r \in ResId |-> IF r \in R THEN [resv[r] EXCEPT !.status = how] ELSE resv[r]]
    <3>1. \A r \in R : p.resv[r] = [resv[r] EXCEPT !.status = how]
      BY <1>1, <2>1, <2>2 DEF Withdrawing
    <3> QED BY <1>2, <1>3, <2>1, <3>1 DEF Over
  <2>5. sess' = sess
    BY <1>1, <1>2, <1>3, <2>2, EmptyPart DEF Withdrawing, Over, Only
  <2>6. \A c \in Conn : \/ cstat'[c] = cstat[c]
                        \/ cstat[c] = "RESERVED" /\ cstat'[c] = "AVAILABLE" /\ Booked(c) \subseteq R
    <3>1. \A c \in DOMAIN p.conn :
            p.conn[c] = "AVAILABLE" /\ cstat[c] = "RESERVED" /\ Booked(c) \subseteq R
      BY <1>1, <2>1, <2>2 DEF Withdrawing
    <3> QED BY <1>2, <1>3, <3>1 DEF Over
  <2>7. Settles(R, how)
    BY <2>3, <2>4, <2>5, <2>6 DEF Settles
  <2>8. \A r \in R : Row("resv", r) \in tx[t].held
    BY <1>1, <1>4, <2>1 DEF Holds
  <2> QED BY <2>2, <2>3, <2>7, <2>8 DEF Effect
<1>7. CASE Starting(tx[t])
  <2>1. PICK c \in Conn, u \in User, r \in ResId \cup {None}, s \in SessId :
          /\ p = [conn |-> Only(c, "OCCUPIED"), sess |-> Only(s, Session(c, u, r)),
                  resv |-> IF r = None THEN <<>> ELSE Only(r, [resv[r] EXCEPT !.status = "CONVERTED"])]
          /\ sess[s] = NoSession /\ Bookable(c) /\ (r # None => Owned(c, u, r))
    BY <1>1, <1>7 DEF Starting
  <2>2. /\ p.conn = Only(c, "OCCUPIED") /\ p.sess = Only(s, Session(c, u, r))
        /\ r = None => p.resv = <<>>
        /\ r # None => p.resv = Only(r, [resv[r] EXCEPT !.status = "CONVERTED"])
    BY <2>1
  <2>3. c \in DOMAIN p.conn /\ s \in DOMAIN p.sess /\ (r # None => r \in DOMAIN p.resv)
    BY <2>2 DEF Only
  <2>4. /\ Row("conn", c) \in tx[t].held /\ Row("sess", s) \in tx[t].held
        /\ r # None => Row("resv", r) \in tx[t].held
    BY <1>1, <1>4, <2>3 DEF Holds
  <2>5. cstat' = [cstat EXCEPT ![c] = "OCCUPIED"] /\ sess' = [sess EXCEPT ![s] = Session(c, u, r)]
    BY <1>2, <1>3, <2>2, EmptyPart DEF Over, Only
  <2>6. r = None => resv' = resv
    BY <1>2, <1>3, <2>2, EmptyPart DEF Over, Only
  <2>7. r # None => resv' = [resv EXCEPT ![r] = [resv[r] EXCEPT !.status = "CONVERTED"]]
    BY <1>2, <1>3, <2>2, EmptyPart DEF Over, Only
  <2>8. Starts(c, u, r, s)
    BY <2>1, <2>5, <2>6, <2>7 DEF Starts
  <2> QED BY <2>4, <2>8 DEF Effect
<1>8. CASE Moving(tx[t])
  <2>1. PICK s \in SessId, state \in Live \cup Ended :
          /\ p.sess = Only(s, [sess[s] EXCEPT !.state = state]) /\ p.resv = <<>>
          /\ sess[s].state \in Live
          /\ \/ p.conn = <<>> /\ state \in Live
             \/ p.conn = Only(sess[s].conn, tx[t].to) /\ Fits(sess[s].conn, state, tx[t].to)
    BY <1>1, <1>2, <1>8 DEF Moving
  <2>2. resv' = resv /\ sess' = [sess EXCEPT ![s].state = state]
    BY <1>2, <1>3, <2>1, EmptyPart DEF Over, Only
  <2>3. s \in DOMAIN p.sess
    BY <2>1 DEF Only
  <2>4. Row("sess", s) \in tx[t].held
    BY <1>1, <1>4, <2>3 DEF Holds
  <2>5. sess[s].conn \in Conn /\ cstat[sess[s].conn] = "OCCUPIED"
    <3>1. sess[s].conn \in Conn
      BY <2>1, SessRows DEF IInv
    <3>2. s \in LiveOn(sess[s].conn)
      BY <2>1 DEF LiveOn
    <3> QED BY <3>1, <3>2 DEF IInv, StatusTrue
  <2>6. CASE state \in Live
    <3>1. cstat' = cstat
      <4>1. CASE p.conn = <<>>
        BY <1>2, <1>3, <4>1, EmptyPart DEF Over, Only
      <4>2. CASE p.conn = Only(sess[s].conn, tx[t].to) /\ Fits(sess[s].conn, state, tx[t].to)
        <5>1. tx[t].to = "OCCUPIED"
          BY <2>6, <4>2 DEF Fits, Live, Ended
        <5>2. cstat' = [cstat EXCEPT ![sess[s].conn] = "OCCUPIED"]
          BY <1>2, <1>3, <2>5, <4>2, <5>1, EmptyPart DEF Over, Only
        <5> QED BY <1>3, <2>5, <5>2
      <4> QED BY <2>1, <4>1, <4>2
    <3> QED BY <2>1, <2>2, <2>4, <2>6, <3>1 DEF Effect, Moves
  <2>7. CASE state \in Ended
    <3>1. p.conn = Only(sess[s].conn, tx[t].to) /\ Fits(sess[s].conn, state, tx[t].to)
      BY <2>1, <2>7 DEF Live, Ended
    <3>2. cstat' = [cstat EXCEPT ![sess[s].conn] = tx[t].to]
      BY <1>2, <1>3, <2>5, <3>1, EmptyPart DEF Over, Only
    <3>3. Row("conn", sess[s].conn) \in tx[t].held /\ tx[t].to \in ConnStatus
      BY <1>1, <1>4, <3>1, TxFields DEF Holds, IInv, TxRec, Only
    <3>4. Ends(s, state, tx[t].to)
      BY <2>1, <2>2, <2>7, <3>1, <3>2 DEF Ends
    <3> QED BY <2>4, <2>7, <3>3, <3>4 DEF Effect
  <2> QED BY <2>1, <2>6, <2>7
<1> QED BY <1>2, <1>5, <1>6, <1>7, <1>8, AtTells DEF IInv

(* ---------------- connectors and windows after a commit ---------------- *)
LEMMA StartsLive ==
  ASSUME IInv, NEW c \in Conn, NEW u, NEW r, NEW s \in SessId, Starts(c, u, r, s)
  PROVE  /\ LiveOn(c) = {} /\ LiveOn(c)' = {s}
         /\ \A d \in Conn \ {c} : LiveOn(d)' = LiveOn(d)
<1>1. /\ sess[s] = NoSession /\ Bookable(c) /\ sess' = [sess EXCEPT ![s] = Session(c, u, r)]
      /\ sess \in [SessId -> SessRow]
  BY DEF Starts, IInv, TypeOK
<1>2. LiveOn(c) = {}
  BY <1>1 DEF IInv, StatusTrue, Bookable
<1>3. sess[s].state \notin Live
  BY <1>1 DEF NoSession, Live
<1>4. \A z \in SessId \ {s} : sess'[z] = sess[z]
  BY <1>1
<1>5. sess'[s].state \in Live /\ sess'[s].conn = c
  BY <1>1 DEF Session, Live
<1>6. LiveOn(c)' = {s}
  BY <1>2, <1>4, <1>5 DEF LiveOn
<1>7. \A d \in Conn \ {c} : LiveOn(d)' = LiveOn(d)
  BY <1>3, <1>4, <1>5 DEF LiveOn
<1> QED BY <1>2, <1>6, <1>7

LEMMA MovesLive ==
  ASSUME IInv, NEW s \in SessId, NEW state, Moves(s, state), NEW d \in Conn
  PROVE  LiveOn(d)' = LiveOn(d)
<1>1. /\ sess[s].state \in Live /\ state \in Live /\ sess' = [sess EXCEPT ![s].state = state]
      /\ sess \in [SessId -> SessRow] /\ sess[s] \in ChargeRow
  BY SessRows DEF Moves, IInv, TypeOK
<1>2. \A z \in SessId \ {s} : sess'[z] = sess[z]
  BY <1>1
<1>3. sess'[s].state = state /\ sess'[s].conn = sess[s].conn
  BY <1>1 DEF ChargeRow
<1> QED BY <1>1, <1>2, <1>3 DEF LiveOn

LEMMA EndsLive ==
  ASSUME IInv, NEW s \in SessId, NEW state, NEW to, Ends(s, state, to)
  PROVE  /\ sess[s].conn \in Conn /\ cstat[sess[s].conn] = "OCCUPIED"
         /\ LiveOn(sess[s].conn) = {s}
         /\ {z \in SessId : sess'[z].state \in Live /\ sess'[z].conn = sess[s].conn} = {}
         /\ \A d \in Conn \ {sess[s].conn} : LiveOn(d)' = LiveOn(d)
<1>1. /\ sess[s].state \in Live /\ state \in Ended /\ sess' = [sess EXCEPT ![s].state = state]
      /\ sess \in [SessId -> SessRow] /\ sess[s] \in ChargeRow /\ sess[s].conn \in Conn
  BY SessRows DEF Ends, IInv, TypeOK
<1>2. \A z \in SessId \ {s} : sess'[z] = sess[z]
  BY <1>1
<1>3. sess'[s].state = state /\ sess'[s].state \notin Live
  BY <1>1 DEF ChargeRow, Live, Ended
<1>4. LiveOn(sess[s].conn) = {s}
  BY <1>1 DEF LiveOn, IInv, OneLive
<1>5. cstat[sess[s].conn] = "OCCUPIED"
  BY <1>1, <1>4 DEF IInv, StatusTrue
<1>6. {z \in SessId : sess'[z].state \in Live /\ sess'[z].conn = sess[s].conn} = {}
  BY <1>2, <1>3, <1>4 DEF LiveOn
<1>7. \A d \in Conn \ {sess[s].conn} : LiveOn(d)' = LiveOn(d)
  BY <1>2, <1>3 DEF LiveOn
<1> QED BY <1>1, <1>4, <1>5, <1>6, <1>7

(* Window r, as far as connector d is concerned: as it was, or settled.    *)
Kept(d, r) ==
  \/ resv'[r] = resv[r]
  \/ resv'[r].conn # d
  \/ /\ resv[r].status = "BOOKED" /\ resv'[r].status \in {"CONVERTED", "CANCELLED", "EXPIRED"}
     /\ resv'[r].conn = resv[r].conn /\ resv'[r].start = resv[r].start /\ resv'[r].end = resv[r].end

LEMMA KeptMeans ==
  ASSUME NEW d, \A r \in ResId : Kept(d, r)
  PROVE  /\ Booked(d)' \subseteq Booked(d)
         /\ \A b, e : Overlaps(d, b, e)' \subseteq Overlaps(d, b, e)
<1>1. Booked(d)' \subseteq Booked(d)
  BY DEF Kept, Booked
<1>2. ASSUME NEW b, NEW e PROVE Overlaps(d, b, e)' \subseteq Overlaps(d, b, e)
  BY DEF Kept, Overlaps, Active
<1> QED BY <1>1, <1>2

LEMMA SettlesKept ==
  ASSUME IInv, NEW R \in SUBSET ResId, NEW how \in {"EXPIRED", "CANCELLED"}, Settles(R, how), NEW d \in Conn
  PROVE  (\A r \in ResId : Kept(d, r)) /\ Booked(d)' = Booked(d) \ R
<1>1. \A r \in R : resv[r] \in WindowRow /\ resv[r].status = "BOOKED"
  BY ResRows DEF Settles, IInv
<1>2. \A r \in R : /\ resv'[r].status = how /\ resv'[r].conn = resv[r].conn
                   /\ resv'[r].start = resv[r].start /\ resv'[r].end = resv[r].end
  BY <1>1 DEF Settles, WindowRow
<1>3. \A r \in ResId \ R : resv'[r] = resv[r]
  BY DEF Settles
<1>4. \A r \in ResId : Kept(d, r)
  BY <1>1, <1>2, <1>3 DEF Kept
<1>5. Booked(d)' = Booked(d) \ R
  BY <1>2, <1>3 DEF Booked
<1> QED BY <1>4, <1>5

LEMMA StartsKept ==
  ASSUME IInv, NEW c \in Conn, NEW u, NEW r \in ResId \cup {None}, NEW s \in SessId, Starts(c, u, r, s),
         NEW d \in Conn
  PROVE  \A q \in ResId : Kept(d, q)
<1>1. CASE r = None
  BY <1>1 DEF Starts, Kept
<1>2. CASE r # None
  <2>1. /\ r \in ResId /\ resv[r].status = "BOOKED" /\ resv' = [resv EXCEPT ![r].status = "CONVERTED"]
        /\ resv \in [ResId -> ResRow]
    BY <1>2 DEF Starts, Owned, IInv, TypeOK
  <2>2. resv[r] \in WindowRow
    BY <2>1, ResRows DEF IInv
  <2>3. /\ resv'[r].status = "CONVERTED" /\ resv'[r].conn = resv[r].conn
        /\ resv'[r].start = resv[r].start /\ resv'[r].end = resv[r].end
    BY <2>1, <2>2 DEF WindowRow
  <2>4. \A q \in ResId \ {r} : resv'[q] = resv[q]
    BY <2>1
  <2> QED BY <2>1, <2>3, <2>4 DEF Kept
<1> QED BY <1>1, <1>2

(* Only who holds a connector that may be booked adds a window to it.      *)
LEMMA EffectKept ==
  ASSUME IInv, NEW t \in Tx, Effect(t), NEW d \in Conn, Row("conn", d) \notin tx[t].held \/ ~Bookable(d)
  PROVE  /\ Booked(d)' \subseteq Booked(d)
         /\ \A b, e : Overlaps(d, b, e)' \subseteq Overlaps(d, b, e)
<1>1. ASSUME NEW c \in Conn, NEW u \in User, NEW r \in ResId, NEW b \in Time, NEW e \in Time,
             Creates(c, u, r, b, e), Row("conn", c) \in tx[t].held
      PROVE  \A q \in ResId : Kept(d, q)
  <2>1. c # d
    BY <1>1 DEF Creates
  <2>2. resv' = [resv EXCEPT ![r] = Window(c, u, b, e)] /\ resv \in [ResId -> ResRow]
    BY <1>1 DEF Creates, IInv, TypeOK
  <2>3. resv'[r].conn # d /\ \A q \in ResId \ {r} : resv'[q] = resv[q]
    BY <2>1, <2>2 DEF Window
  <2> QED BY <2>3 DEF Kept
<1>2. ASSUME resv' = resv PROVE \A q \in ResId : Kept(d, q)
  BY <1>2 DEF Kept
<1>3. \A q \in ResId : Kept(d, q)
  BY <1>1, <1>2, SettlesKept, StartsKept DEF Effect, Moves, Ends
<1> QED BY <1>3, KeptMeans

LEMMA EffectStatus ==
  ASSUME IInv, NEW t \in Tx, Effect(t)
  PROVE  StatusTrue' /\ OneLive'
<1>1. cstat \in [Conn -> ConnStatus] /\ resv \in [ResId -> ResRow] /\ sess \in [SessId -> SessRow]
  BY DEF IInv, TypeOK
<1>2. \A c \in Conn : /\ cstat[c] = "OCCUPIED" <=> LiveOn(c) # {}
                      /\ cstat[c] = "AVAILABLE" => Booked(c) = {}
  BY DEF IInv, StatusTrue
<1>3. ASSUME \A d \in Conn : LiveOn(d)' = LiveOn(d) \/ \E z \in SessId : LiveOn(d)' \subseteq {z},
             \A z \in SessId : sess'[z].state \in Live => sess'[z].conn \in Conn
      PROVE  OneLive'
  <2> SUFFICES ASSUME NEW s \in SessId, NEW z \in SessId, sess'[s].state \in Live, sess'[z].state \in Live,
                      sess'[s].conn = sess'[z].conn
               PROVE  s = z
    BY DEF OneLive
  <2>1. PICK d \in Conn : d = sess'[s].conn
    BY <1>3
  <2>2. s \in LiveOn(d)' /\ z \in LiveOn(d)'
    BY <2>1 DEF LiveOn
  <2>3. CASE LiveOn(d)' = LiveOn(d)
    <3>1. s \in LiveOn(d) /\ z \in LiveOn(d)
      BY <2>2, <2>3
    <3> QED BY <3>1 DEF LiveOn, IInv, OneLive
  <2> QED BY <1>3, <2>2, <2>3
<1>4. \A z \in SessId : sess[z].state \in Live => sess[z].conn \in Conn
  BY SessRows DEF IInv
<1>5. ASSUME sess' = sess PROVE OneLive' /\ \A d \in Conn : LiveOn(d)' = LiveOn(d)
  BY <1>5 DEF IInv, OneLive, LiveOn
<1>6. ASSUME NEW c \in Conn, NEW u \in User, NEW r \in ResId, NEW b \in Time, NEW e \in Time,
             Creates(c, u, r, b, e)
      PROVE  StatusTrue' /\ OneLive'
  <2>1. /\ cstat' = [cstat EXCEPT ![c] = "RESERVED"] /\ resv' = [resv EXCEPT ![r] = Window(c, u, b, e)]
        /\ Bookable(c) /\ sess' = sess
    BY <1>6 DEF Creates
  <2>2. cstat'[c] = "RESERVED" /\ \A d \in Conn \ {c} : cstat'[d] = cstat[d]
    BY <1>1, <2>1
  <2>3. LiveOn(c) = {}
    BY <1>2, <2>1 DEF Bookable
  <2>4. resv'[r].conn = c /\ \A q \in ResId \ {r} : resv'[q] = resv[q]
    BY <1>1, <2>1 DEF Window
  <2>5. \A d \in Conn \ {c} : Booked(d)' \subseteq Booked(d)
    BY <2>4 DEF Booked
  <2>6. StatusTrue'
    BY <1>2, <1>5, <2>1, <2>2, <2>3, <2>5 DEF StatusTrue
  <2> QED BY <1>5, <2>1, <2>6
<1>7. ASSUME NEW R \in SUBSET ResId, NEW how \in {"EXPIRED", "CANCELLED"}, Settles(R, how)
      PROVE  StatusTrue' /\ OneLive'
  <2>1. \A d \in Conn : Booked(d)' = Booked(d) \ R
    BY <1>7, SettlesKept
  <2>2. /\ \A c \in Conn : \/ cstat'[c] = cstat[c]
                           \/ cstat[c] = "RESERVED" /\ cstat'[c] = "AVAILABLE" /\ Booked(c) \subseteq R
        /\ sess' = sess
    BY <1>7 DEF Settles
  <2>3. StatusTrue'
    BY <1>2, <1>5, <2>1, <2>2 DEF StatusTrue
  <2> QED BY <1>5, <2>2, <2>3
<1>8. ASSUME NEW c \in Conn, NEW u \in User, NEW r \in ResId \cup {None}, NEW s \in SessId, Starts(c, u, r, s)
      PROVE  StatusTrue' /\ OneLive'
  <2>1. /\ cstat' = [cstat EXCEPT ![c] = "OCCUPIED"] /\ sess' = [sess EXCEPT ![s] = Session(c, u, r)]
    BY <1>8 DEF Starts
  <2>2. cstat'[c] = "OCCUPIED" /\ \A d \in Conn \ {c} : cstat'[d] = cstat[d]
    BY <1>1, <2>1
  <2>3. LiveOn(c)' = {s} /\ \A d \in Conn \ {c} : LiveOn(d)' = LiveOn(d)
    BY <1>8, StartsLive
  <2>4. \A d \in Conn : Booked(d)' \subseteq Booked(d)
    BY <1>8, StartsKept, KeptMeans
  <2>5. StatusTrue'
    BY <1>2, <2>2, <2>3, <2>4 DEF StatusTrue
  <2>6. \A z \in SessId : sess'[z].state \in Live => sess'[z].conn \in Conn
    BY <1>1, <1>4, <2>1 DEF Session
  <2> QED BY <1>3, <2>3, <2>5, <2>6
<1>9. ASSUME NEW s \in SessId, NEW state \in Live, Moves(s, state)
      PROVE  StatusTrue' /\ OneLive'
  <2>1. \A d \in Conn : LiveOn(d)' = LiveOn(d)
    BY <1>9, MovesLive
  <2>2. cstat' = cstat /\ resv' = resv /\ sess' = [sess EXCEPT ![s].state = state] /\ sess[s].state \in Live
    BY <1>9 DEF Moves
  <2>3. StatusTrue'
    BY <1>2, <2>1, <2>2 DEF StatusTrue, Booked
  <2>4. sess'[s].conn = sess[s].conn /\ \A z \in SessId \ {s} : sess'[z] = sess[z]
    BY <1>1, <2>2, SessRows DEF IInv, ChargeRow
  <2>5. \A z \in SessId : sess'[z].state \in Live => sess'[z].conn \in Conn
    BY <1>4, <2>2, <2>4
  <2> QED BY <1>3, <2>1, <2>3, <2>5
<1>10. ASSUME NEW s \in SessId, NEW state \in Ended, NEW to \in ConnStatus, Ends(s, state, to)
       PROVE  StatusTrue' /\ OneLive'
  <2>1. PICK c \in Conn : c = sess[s].conn
    BY <1>10, EndsLive
  <2>2. LiveOn(c)' = {} /\ \A d \in Conn \ {c} : LiveOn(d)' = LiveOn(d)
    BY <1>10, <2>1, EndsLive DEF LiveOn
  <2>3. /\ cstat' = [cstat EXCEPT ![c] = to] /\ resv' = resv /\ sess' = [sess EXCEPT ![s].state = state]
        /\ Fits(c, state, to) /\ sess[s].state \in Live
    BY <1>10, <2>1 DEF Ends
  <2>4. cstat'[c] = to /\ \A d \in Conn \ {c} : cstat'[d] = cstat[d]
    BY <1>1, <2>3
  <2>5. to # "OCCUPIED" /\ (to = "AVAILABLE" => Booked(c) = {})
    BY <2>3 DEF Fits, Live, Ended
  <2>6. \A d \in Conn : Booked(d)' = Booked(d)
    BY <2>3 DEF Booked
  <2>7. StatusTrue'
    BY <1>2, <2>2, <2>4, <2>5, <2>6 DEF StatusTrue
  <2>8. sess'[s].conn = sess[s].conn /\ \A z \in SessId \ {s} : sess'[z] = sess[z]
    BY <1>1, <2>3, SessRows DEF IInv, ChargeRow
  <2>9. \A z \in SessId : sess'[z].state \in Live => sess'[z].conn \in Conn
    BY <1>4, <2>3, <2>8
  <2> QED BY <1>3, <2>2, <2>7, <2>9
<1> QED BY <1>6, <1>7, <1>8, <1>9, <1>10 DEF Effect

(* A commit writes no row that another transaction holds.                  *)
LEMMA RowsHeld ==
  ASSUME IInv, NEW t \in Tx, Commit(t)
  PROVE  /\ \A c \in Conn : Row("conn", c) \notin tx[t].held => cstat'[c] = cstat[c]
         /\ \A r \in ResId : Row("resv", r) \notin tx[t].held => resv'[r] = resv[r]
         /\ \A s \in SessId : Row("sess", s) \notin tx[t].held => sess'[s] = sess[s]
<1>1. /\ cstat' = Over(tx[t].put.conn, cstat) /\ resv' = Over(tx[t].put.resv, resv)
      /\ sess' = Over(tx[t].put.sess, sess)
  BY DEF Commit
<1>2. cstat \in [Conn -> ConnStatus] /\ resv \in [ResId -> ResRow] /\ sess \in [SessId -> SessRow]
  BY DEF IInv, TypeOK
<1> QED BY <1>1, <1>2 DEF IInv, Holds, Over

(* What the other transactions are doing they may go on with.              *)
LEMMA OthersAfter ==
  ASSUME IInv, NEW t \in Tx, Commit(t), NEW v \in Tx \ {t}
  PROVE  Holds(tx[v])' /\ Doing(tx[v])'
<1>1. tx'[v] = tx[v] /\ nRes' = nRes /\ nSess' = nSess
  BY DEF Commit, IInv, TypeOK
<1>2. PICK x : x = tx[v]
  OBVIOUS
<1>3. x \in TxRec /\ Holds(x) /\ Doing(x)
  BY <1>2, TxFields DEF IInv
<1>4. tx[t].held \cap x.held = {}
  BY <1>2 DEF IInv, Exclusive
<1>5. /\ \A c \in Conn : Row("conn", c) \in x.held => cstat'[c] = cstat[c]
      /\ \A r \in ResId : Row("resv", r) \in x.held => resv'[r] = resv[r]
      /\ \A s \in SessId : Row("sess", s) \in x.held => sess'[s] = sess[s]
  BY <1>4, RowsHeld
<1>6. \A d \in Conn : Row("conn", d) \in x.held \/ ~Bookable(d) =>
        Booked(d)' \subseteq Booked(d) /\ \A b, e : Overlaps(d, b, e)' \subseteq Overlaps(d, b, e)
  BY <1>4, CommitEffect, EffectKept
<1>7. DOMAIN x.put.conn \subseteq Conn /\ DOMAIN x.put.resv \subseteq ResId /\ DOMAIN x.put.sess \subseteq SessId
  BY <1>2, TxFields DEF IInv
<1>8. Holds(tx[v])'
  BY <1>1, <1>2, <1>3 DEF Holds
<1>9. Doing(x)'
  <2>1. CASE Creating(x)
    <3>1. PICK c \in Conn, u \in User, r \in ResId, b \in Time, e \in Time :
            /\ x.put = [conn |-> Only(c, "RESERVED"), resv |-> Only(r, Window(c, u, b, e)), sess |-> <<>>]
            /\ resv[r] = NoRow /\ Bookable(c) /\ Overlaps(c, b, e) = {}
      BY <2>1 DEF Creating
    <3>2. c \in DOMAIN x.put.conn /\ r \in DOMAIN x.put.resv
      BY <3>1 DEF Only
    <3>3. Row("conn", c) \in x.held /\ Row("resv", r) \in x.held
      BY <1>3, <3>2 DEF Holds
    <3>4. Overlaps(c, b, e)' = {}
      BY <1>6, <3>1, <3>3
    <3>5. Bookable(c)' /\ resv'[r] = NoRow
      BY <1>5, <3>1, <3>3 DEF Bookable
    <3>6. Creating(x)'
      BY <2>1, <3>1, <3>4, <3>5 DEF Creating
    <3> QED BY <3>6 DEF Doing
  <2>2. ASSUME NEW how, Withdrawing(x, how) PROVE Withdrawing(x, how)'
    <3>1. \A r \in DOMAIN x.put.resv : resv'[r] = resv[r]
      BY <1>3, <1>5, <1>7 DEF Holds
    <3>2. \A c \in DOMAIN x.put.conn : cstat'[c] = cstat[c] /\ Booked(c)' \subseteq Booked(c)
      BY <1>3, <1>5, <1>6, <1>7 DEF Holds
    <3> QED BY <2>2, <3>1, <3>2 DEF Withdrawing
  <2>3. CASE Settling(x)
    BY <2>2, <2>3 DEF Settling, Doing
  <2>4. CASE Claiming(x)
    BY <1>5, <2>4 DEF Claiming, Doing, Bookable
  <2>5. CASE Starting(x)
    <3>1. PICK c \in Conn, u \in User, r \in ResId \cup {None}, s \in SessId :
            /\ x.put = [conn |-> Only(c, "OCCUPIED"), sess |-> Only(s, Session(c, u, r)),
                        resv |-> IF r = None THEN <<>> ELSE Only(r, [resv[r] EXCEPT !.status = "CONVERTED"])]
            /\ sess[s] = NoSession /\ Bookable(c) /\ (r # None => Owned(c, u, r))
      BY <2>5 DEF Starting
    <3>2. c \in DOMAIN x.put.conn /\ s \in DOMAIN x.put.sess /\ (r # None => r \in DOMAIN x.put.resv)
      BY <3>1 DEF Only
    <3>3. cstat'[c] = cstat[c] /\ sess'[s] = sess[s] /\ (r # None => resv'[r] = resv[r])
      BY <1>3, <1>5, <3>2 DEF Holds
    <3>4. sess'[s] = NoSession /\ Bookable(c)' /\ (r # None => Owned(c, u, r)')
      BY <3>1, <3>3 DEF Bookable, Owned
    <3>5. x.put = [conn |-> Only(c, "OCCUPIED"), sess |-> Only(s, Session(c, u, r)),
                   resv |-> IF r = None THEN <<>> ELSE Only(r, [resv'[r] EXCEPT !.status = "CONVERTED"])]
      BY <3>1, <3>3
    <3>6. Starting(x)'
      BY <2>5, <3>4, <3>5 DEF Starting
    <3> QED BY <3>6 DEF Doing
  <2>6. CASE Moving(x)
    <3>1. PICK s \in SessId, state \in Live \cup Ended :
            /\ x.put.sess = Only(s, [sess[s] EXCEPT !.state = state]) /\ x.put.resv = <<>>
            /\ sess[s].state \in Live
            /\ \/ x.at = "count" /\ x.conn = sess[s].conn /\ x.put.conn = <<>> /\ state \in Ended
               \/ x.at = "set" /\ x.conn = sess[s].conn /\ x.put.conn = <<>> /\ Fits(x.conn, state, x.to)
               \/ x.at = "commit" /\ x.put.conn = <<>> /\ state \in Live
               \/ x.at = "commit" /\ x.put.conn = Only(sess[s].conn, x.to) /\ Fits(sess[s].conn, state, x.to)
      BY <2>6 DEF Moving
    <3>2. sess'[s] = sess[s]
      <4>1. s \in DOMAIN x.put.sess
        BY <3>1 DEF Only
      <4> QED BY <1>3, <1>5, <4>1 DEF Holds
    <3>3. sess[s].conn \in Conn /\ ~Bookable(sess[s].conn)
      <4>1. sess[s].conn \in Conn /\ s \in LiveOn(sess[s].conn)
        BY <3>1, SessRows DEF IInv, LiveOn
      <4> QED BY <4>1 DEF IInv, StatusTrue, Bookable
    <3>4. Fits(sess[s].conn, state, x.to) => Fits(sess[s].conn, state, x.to)'
      <4>1. PICK c \in Conn : c = sess[s].conn
        BY <3>3
      <4>2. Booked(c)' \subseteq Booked(c)
        BY <1>6, <3>3, <4>1
      <4>3. c = sess'[s].conn
        BY <3>2, <4>1
      <4>4. Fits(c, state, x.to) => Fits(c, state, x.to)'
        BY <4>2 DEF Fits
      <4> QED BY <4>1, <4>3, <4>4
    <3>5. Moving(x)'
      BY <3>1, <3>2, <3>4 DEF Moving
    <3> QED BY <3>5 DEF Doing
  <2>7. CASE x = Idle
    BY <2>7 DEF Doing
  <2> QED BY <1>3, <2>1, <2>3, <2>4, <2>5, <2>6, <2>7 DEF Doing
<1> QED BY <1>1, <1>2, <1>8, <1>9

LEMMA CommitKeeps ==
  ASSUME IInv, NEW t \in Tx, Commit(t)
  PROVE  IInv'
<1>1. /\ cstat' = Over(tx[t].put.conn, cstat) /\ resv' = Over(tx[t].put.resv, resv)
      /\ sess' = Over(tx[t].put.sess, sess) /\ tx' = [tx EXCEPT ![t] = Idle]
      /\ nRes' = nRes /\ nSess' = nSess
  BY DEF Commit
<1>2. TypeOK'
  <2>1. cstat' \in [Conn -> ConnStatus]
    BY <1>1, TxFields, PartOver DEF IInv, TypeOK
  <2>2. resv' \in [ResId -> ResRow]
    BY <1>1, TxFields, PartOver DEF IInv, TypeOK, ResRow
  <2>3. sess' \in [SessId -> SessRow]
    BY <1>1, TxFields, PartOver DEF IInv, TypeOK, SessRow
  <2>4. tx' \in [Tx -> TxRec]
    BY <1>1, IdleIs DEF IInv, TypeOK
  <2> QED BY <1>1, <2>1, <2>2, <2>3, <2>4 DEF IInv, TypeOK
<1>3. Numbered'
  <2>1. /\ \A r \in ResId : r > nRes => Row("resv", r) \notin tx[t].held
        /\ \A s \in SessId : s > nSess => Row("sess", s) \notin tx[t].held
    BY DEF IInv, Holds, TypeOK, ResId, SessId
  <2> QED BY <1>1, <2>1, RowsHeld DEF IInv, Numbered
<1>4. Exclusive'
  <2>1. tx'[t].held = {} /\ \A u \in Tx \ {t} : tx'[u] = tx[u]
    BY <1>1, IdleIs DEF IInv, TypeOK
  <2> QED BY <2>1 DEF IInv, Exclusive
<1>5. StatusTrue' /\ OneLive'
  BY CommitEffect, EffectStatus
<1>6. Holds(tx[t])' /\ Doing(tx[t])'
  <2>1. tx'[t] = Idle
    BY <1>1 DEF IInv, TypeOK
  <2> QED BY <2>1, IdleIs, EmptyPart DEF Holds, Doing
<1>7. \A v \in Tx : Holds(tx[v])' /\ Doing(tx[v])'
  BY <1>6, OthersAfter
<1> QED BY <1>2, <1>3, <1>4, <1>5, <1>7 DEF IInv

LEMMA NextStep ==
  ASSUME IInv, Next
  PROVE  (UNCHANGED rows /\ IInv') \/ \E t \in Tx : Commit(t)
<1>1. PICK t \in Tx : Called(t) \/ Waits(t) \/ Runs(t) \/ Lost(t)
  BY DEF Next
<1>2. CASE Called(t)
  <2>1. UNCHANGED rows
    BY <1>2 DEF Called, CreateReservation, CancelReservation, ExpireStale, StartSession, Transition,
                RecordMeterTick
  <2>2. IInv'
    BY <1>2, CreateKeeps, CancelKeeps, ExpireKeeps, StartKeeps, TransitionKeeps, TickKeeps DEF Called
  <2> QED BY <2>1, <2>2
<1>3. CASE Waits(t)
  <2>1. UNCHANGED rows
    BY <1>3 DEF Waits, Release, ClaimWindow, SetConnector
  <2> QED BY <1>3, <2>1, ReleaseKeeps, ClaimKeeps, SetKeeps DEF Waits
<1>4. CASE CountBooked(t)
  BY <1>4, CountKeeps DEF CountBooked
<1>5. CASE Deadlock(t) \/ Lost(t)
  <2>1. RollsBack(t) /\ UNCHANGED <<rows, nRes, nSess>>
    BY <1>5 DEF Deadlock, Lost
  <2> QED BY <2>1, RollsBackKeeps
<1> QED BY <1>1, <1>2, <1>3, <1>4, <1>5 DEF Runs

LEMMA StutterKeeps == IInv /\ UNCHANGED vars => IInv'
<1> SUFFICES ASSUME IInv, UNCHANGED vars PROVE IInv'
  OBVIOUS
<1>1. UNCHANGED rows /\ tx' = tx /\ nRes' = nRes /\ nSess' = nSess
  BY DEF vars
<1>2. cstat' = cstat /\ resv' = resv /\ sess' = sess
  BY <1>1 DEF rows
<1>3. TypeOK' /\ Numbered' /\ Exclusive'
  BY <1>1, <1>2 DEF IInv, TypeOK, Numbered, Exclusive
<1>4. \A v \in Tx : Holds(tx[v])' /\ Doing(tx[v])'
  BY <1>1, OthersSame DEF IInv, Holds
<1> QED BY <1>1, <1>3, <1>4, RowsSame DEF IInv

LEMMA InitHolds == Init => IInv
<1> SUFFICES ASSUME Init PROVE IInv
  OBVIOUS
<1>1. TypeOK
  BY IdleIs, Bounds DEF Init, TypeOK, ConnStatus, ResRow, SessRow
<1>2. Numbered /\ Exclusive
  BY IdleIs DEF Init, Numbered, Exclusive
<1>3. StatusTrue
  <2>1. \A c \in Conn : LiveOn(c) = {} /\ Booked(c) = {} /\ cstat[c] # "OCCUPIED"
    BY DEF Init, LiveOn, Booked, NoRow, NoSession, Live
  <2> QED BY <2>1 DEF StatusTrue
<1>4. OneLive
  BY DEF Init, OneLive, NoSession, Live
<1>5. \A t \in Tx : Holds(tx[t]) /\ Doing(tx[t])
  BY IdleIs, EmptyPart DEF Init, Holds, Doing
<1> QED BY <1>1, <1>2, <1>3, <1>4, <1>5 DEF IInv

LEMMA Inductive == Spec => []IInv
<1>1. IInv /\ [Next]_vars => IInv'
  BY NextStep, CommitKeeps, StutterKeeps
<1> QED BY <1>1, InitHolds, PTL DEF Spec

(* ------------------------------- the theorems -------------------------- *)
(* Committed connector status tells the truth (F-05), whatever procedures  *)
(* of both packages run at the same time, and whichever are rolled back:   *)
(* OCCUPIED exactly while a session is live, AVAILABLE only with no window.*)
THEOREM LockedStatusTrue == Spec => []StatusTrue
<1>1. IInv => StatusTrue
  BY DEF IInv
<1> QED BY <1>1, Inductive, PTL

(* --------------------------- holds are released ------------------------ *)
(* What a cancel or an expire has to do at the connectors of its windows.  *)
Settled(x) == {r \in DOMAIN x.put.resv : x.put.resv[r].status \in {"CANCELLED", "EXPIRED"}}
Left(x) == {r \in ResId : x.at = "release" /\ \E i \in 1..Len(x.left) : x.left[i] = r}

(* Past its release, the connector of a window is held, and is let go, or  *)
(* was not on hold, or has another window.                                 *)
FreedAt(x, c) ==
  /\ Row("conn", c) \in x.held
  /\ c \in DOMAIN x.put.conn \/ cstat[c] # "RESERVED" \/ ~(Booked(c) \subseteq DOMAIN x.put.resv)

Freed(x) == \A r \in Settled(x) \ Left(x) : FreedAt(x, resv[r].conn)

HInv == IInv /\ \A t \in Tx : Freed(tx[t])

(* Steps that settle nothing yet, or nothing at all.                       *)
LEMMA FreedSame ==
  ASSUME UNCHANGED rows, NEW u \in Tx, tx'[u] = tx[u], Freed(tx[u])
  PROVE  Freed(tx[u])'
<1>1. cstat' = cstat /\ resv' = resv /\ \A c : Booked(c)' = Booked(c)
  BY RowsSame DEF rows
<1>2. Settled(tx[u])' = Settled(tx[u]) /\ Left(tx[u])' = Left(tx[u])
  BY DEF Settled, Left
<1>3. \A c : FreedAt(tx[u], c)' = FreedAt(tx[u], c)
  BY <1>1 DEF FreedAt
<1> QED BY <1>1, <1>2, <1>3 DEF Freed

LEMMA NothingSettled ==
  ASSUME NEW x, x = Idle \/ Creating(x) \/ Claiming(x) \/ Starting(x) \/ Moving(x),
         resv \in [ResId -> ResRow]
  PROVE  Settled(x) = {}
<1>1. CASE x = Idle \/ Claiming(x) \/ Moving(x)
  BY <1>1, IdleIs, EmptyPart DEF Claiming, Moving, Settled
<1>2. CASE Creating(x)
  BY <1>2 DEF Creating, Settled, Only, Window
<1>3. CASE Starting(x)
  <2>0. PICK c \in Conn, u \in User, r \in ResId \cup {None}, s \in SessId :
          /\ x.put = [conn |-> Only(c, "OCCUPIED"), sess |-> Only(s, Session(c, u, r)),
                      resv |-> IF r = None THEN <<>> ELSE Only(r, [resv[r] EXCEPT !.status = "CONVERTED"])]
          /\ r # None => Owned(c, u, r)
    BY <1>3 DEF Starting
  <2>1. /\ x.put.resv = IF r = None THEN <<>> ELSE Only(r, [resv[r] EXCEPT !.status = "CONVERTED"])
        /\ r # None => Owned(c, u, r)
    BY <2>0
  <2>2. CASE r = None
    BY <2>1, <2>2, EmptyPart DEF Settled
  <2>3. CASE r # None
    <3>1. r \in ResId /\ resv[r].status = "BOOKED"
      BY <2>1, <2>3 DEF Owned
    <3>2. resv[r] \in WindowRow
      BY <3>1 DEF ResRow, NoRow
    <3>3. [resv[r] EXCEPT !.status = "CONVERTED"].status = "CONVERTED"
      BY <3>2 DEF WindowRow
    <3> QED BY <2>1, <2>3, <3>3 DEF Settled, Only
  <2> QED BY <2>2, <2>3
<1> QED BY <1>1, <1>2, <1>3

(* The sweep releases every window it settles.                             *)
LEMMA AllInLine ==
  ASSUME NEW R \in SUBSET ResId, NEW left \in SetToSeqs(R), NEW r \in R
  PROVE  \E i \in 1..Len(left) : left[i] = r
<1>1. IsFiniteSet(R)
  <2>1. IsFiniteSet(1..MaxRes)
    BY Bounds, FS_Interval
  <2> QED BY <2>1, FS_Subset DEF ResId
<1>2. PICK n : n = Cardinality(R)
  OBVIOUS
<1>3. n \in Nat /\ left \in [1..n -> R] /\ \A i, j \in 1..n : i # j => left[i] # left[j]
  BY <1>1, <1>2, FS_CardinalityType DEF SetToSeqs
<1>4. left \in Seq(R) /\ Len(left) = n
  BY <1>3, SeqDef, LenProperties
<1> SUFFICES ASSUME \A i \in 1..n : left[i] # r PROVE FALSE
  BY <1>4
<1>5. IsFiniteSet(R \ {r}) /\ Cardinality(R \ {r}) = n - 1
  BY <1>1, <1>2, FS_RemoveElement
<1>6. IsFiniteSet(1..n) /\ Cardinality(1..n) = n
  BY <1>3, FS_Interval
<1>7. left \in [1..n -> R \ {r}]
  BY <1>3
<1>8. Cardinality(R \ {r}) < Cardinality(1..n)
  BY <1>3, <1>5, <1>6
<1>9. PICK D, T : D = 1..n /\ T = R \ {r}
  OBVIOUS
<1>10. IsFiniteSet(D) /\ IsFiniteSet(T) /\ Cardinality(T) < Cardinality(D) /\ left \in [D -> T]
  BY <1>5, <1>6, <1>7, <1>8, <1>9
<1>11. \E i, j \in D : i # j /\ left[i] = left[j]
  BY <1>10, FS_PigeonHole
<1> QED BY <1>3, <1>9, <1>11

LEMMA WithdrawalFreed ==
  ASSUME NEW t \in Tx, IInv, (\E r \in ResId : CancelReservation(t, r)) \/ ExpireStale(t)
  PROVE  Freed(tx[t])'
<1>0. tx \in [Tx -> TxRec]
  BY DEF IInv, TypeOK
<1>1. ASSUME NEW r \in ResId, CancelReservation(t, r) PROVE Settled(tx[t])' \subseteq Left(tx[t])'
  <2>1. PICK p : p = Only(r, [resv[r] EXCEPT !.status = "CANCELLED"])
    OBVIOUS
  <2>a. tx'[t] = [Idle EXCEPT !.at = "release", !.held = {Row("resv", r)}, !.left = <<r>>, !.put.resv = p]
    BY <1>0, <1>1, <2>1 DEF CancelReservation, Begins
  <2>b. tx'[t].at = "release" /\ tx'[t].left = <<r>> /\ tx'[t].put.resv = p
    BY <2>a DEF Idle, Nothing
  <2>2. tx'[t].at = "release" /\ tx'[t].left = <<r>> /\ DOMAIN tx'[t].put.resv = {r}
    BY <2>1, <2>b, OnlyIs
  <2>3. 1 \in 1..Len(<<r>>) /\ <<r>>[1] = r
    OBVIOUS
  <2> QED BY <2>2, <2>3 DEF Settled, Left
<1>2. ASSUME ExpireStale(t) PROVE Settled(tx[t])' \subseteq Left(tx[t])'
  <2>1. PICK R \in SUBSET ResId : \E left \in SetToSeqs(R) :
          tx'[t] = [Idle EXCEPT !.at = "release", !.held = {Row("resv", r) : r \in R}, !.left = left,
                      !.put.resv = [r \in R |-> [resv[r] EXCEPT !.status = "EXPIRED"]]]
    BY <1>0, <1>2 DEF ExpireStale, Begins
  <2>2. PICK left \in SetToSeqs(R) :
          tx'[t].at = "release" /\ tx'[t].left = left /\ DOMAIN tx'[t].put.resv = R
    BY <2>1 DEF Idle, Nothing
  <2> QED BY <2>2, AllInLine DEF Settled, Left
<1> QED BY <1>1, <1>2 DEF Freed

LEMMA ReleaseFreed ==
  ASSUME NEW t \in Tx, IInv, Freed(tx[t]), Release(t)
  PROVE  Freed(tx[t])'
<1>1. PICK x, y, c, left : /\ x = tx[t] /\ y = tx'[t]
                           /\ c = resv[Head(x.left)].conn /\ left = Tail(x.left)
  OBVIOUS
<1>2. x \in TxRec /\ x.put \in PutRec /\ tx \in [Tx -> TxRec]
  BY <1>1, TxFields DEF IInv, TypeOK
<1>3. /\ x.at = "release" /\ UNCHANGED rows
      /\ y.at = (IF left = <<>> THEN "commit" ELSE "release") /\ y.left = left
      /\ y.held = x.held \cup {Row("conn", c)} /\ y.put.resv = x.put.resv
      /\ y.put.conn = IF HoldFree(t, c) THEN Also(x.put.conn, c, "AVAILABLE") ELSE x.put.conn
  BY <1>1, <1>2 DEF Release, TxRec, PutRec
<1>4. cstat' = cstat /\ resv' = resv /\ \A d : Booked(d)' = Booked(d)
  BY <1>3, RowsSame DEF rows
<1>5. PICK how \in {"EXPIRED", "CANCELLED"} : Withdrawing(x, how)
  BY <1>1, <1>3, AtTells DEF IInv, Settling
<1>6. x.left \in Seq(ResId) /\ x.left # <<>> /\ x.left \in Seq(DOMAIN x.put.resv)
  BY <1>2, <1>3, <1>5 DEF Withdrawing, TxRec
<1>7. DOMAIN x.put.conn \subseteq DOMAIN y.put.conn
  BY <1>3 DEF Also
<1> SUFFICES ASSUME NEW r, r \in Settled(y)', r \notin Left(y)'
             PROVE  FreedAt(y, resv[r].conn)'
  BY <1>1, <1>4 DEF Freed
<1>8. r \in Settled(x) /\ r \in DOMAIN x.put.resv
  BY <1>3 DEF Settled
<1>9. CASE r \notin Left(x)
  <2>1. FreedAt(x, resv[r].conn)
    BY <1>1, <1>8, <1>9 DEF Freed
  <2> QED BY <1>3, <1>4, <1>7, <2>1 DEF FreedAt
<1>10. CASE r \in Left(x)
  <2>1. r = Head(x.left)
    <3>1. PICK i \in 1..Len(x.left) : x.left[i] = r
      BY <1>10 DEF Left
    <3>2. Head(x.left) = x.left[1]
      BY <1>6
    <3>3. ASSUME i # 1 PROVE FALSE
      <4>0. PICK q \in Seq(ResId) : q = x.left
        BY <1>6
      <4>3. Len(left) = Len(q) - 1 /\ \A j \in 1..Len(left) : left[j] = q[j + 1]
        BY <1>1, <1>6, <4>0, HeadTailProperties
      <4>4. i \in Int /\ i - 1 \in 1..Len(left)
        BY <1>6, <3>1, <3>3, <4>0, <4>3
      <4>5. left[i - 1] = r
        BY <3>1, <4>0, <4>3, <4>4
      <4>1. /\ i - 1 \in 1..Len(left) /\ left[i - 1] = r /\ left # <<>>
        BY <4>4, <4>5
      <4>2. y.at = "release" /\ r \in ResId
        BY <1>3, <1>10, <4>1 DEF Left
      <4> QED BY <1>3, <4>1, <4>2 DEF Left
    <3> QED BY <3>1, <3>2, <3>3
  <2>2. c = resv[r].conn /\ Row("conn", c) \in y.held
    BY <1>1, <1>3, <2>1
  <2>3. c \in Conn /\ r \in ResId
    <3>1. r \in ResId
      BY <1>1, <1>8, TxFields DEF IInv
    <3>2. resv[r].status = "BOOKED"
      BY <1>5, <1>8 DEF Withdrawing
    <3> QED BY <2>2, <3>1, <3>2, ResRows DEF IInv
  <2>4. c \in DOMAIN y.put.conn \/ cstat[c] # "RESERVED" \/ ~(Booked(c) \subseteq DOMAIN x.put.resv)
    <3>1. CASE HoldFree(t, c)
      BY <1>3, <3>1 DEF Also
    <3>2. CASE SeesConn(t, c) # "RESERVED"
      BY <1>1, <1>7, <2>3, <3>2, SeesIs
    <3>3. CASE BookedOn(t, c) # {}
      <4>1. PICK q \in ResId : SeesResv(t, q).status = "BOOKED" /\ SeesResv(t, q).conn = c
        BY <3>3 DEF BookedOn
      <4>2. q \notin DOMAIN x.put.resv
        <5> SUFFICES ASSUME q \in DOMAIN x.put.resv PROVE FALSE
          OBVIOUS
        <5>1. SeesResv(t, q) = x.put.resv[q]
          BY <1>1, OverIs DEF SeesResv, IInv, TypeOK
        <5>2. resv[q].status = "BOOKED" /\ x.put.resv[q] = [resv[q] EXCEPT !.status = how]
          BY <1>5 DEF Withdrawing
        <5>3. resv[q] \in WindowRow
          BY <5>2, ResRows DEF IInv
        <5>4. x.put.resv[q].status = how
          BY <5>2, <5>3 DEF WindowRow
        <5> QED BY <4>1, <5>1, <5>4
      <4>3. SeesResv(t, q) = resv[q]
        BY <1>1, <4>2, OverIs DEF SeesResv, IInv, TypeOK
      <4> QED BY <4>1, <4>2, <4>3 DEF Booked
    <3> QED BY <3>1, <3>2, <3>3 DEF HoldFree
  <2> QED BY <1>3, <1>4, <2>2, <2>4 DEF FreedAt
<1> QED BY <1>9, <1>10

(* A commit takes a BOOKED window only from a connector whose row it holds.*)
LEMMA TakesHeld ==
  ASSUME IInv, NEW t \in Tx, Freed(tx[t]), Commit(t), NEW c \in Conn, NEW r \in Booked(c), r \notin Booked(c)'
  PROVE  Row("conn", c) \in tx[t].held /\ r \in DOMAIN tx[t].put.resv
<1>1. PICK x : x = tx[t]
  OBVIOUS
<1>2. x.at = "commit" /\ resv' = Over(x.put.resv, resv) /\ resv \in [ResId -> ResRow] /\ Holds(x)
  BY <1>1 DEF Commit, IInv, TypeOK
<1>3. r \in ResId /\ resv[r].status = "BOOKED" /\ resv[r].conn = c
  BY DEF Booked
<1>4. r \in DOMAIN x.put.resv
  <2> SUFFICES ASSUME r \notin DOMAIN x.put.resv PROVE FALSE
    OBVIOUS
  <2>1. resv'[r] = resv[r]
    BY <1>2, <1>3, OverIs
  <2> QED BY <1>3, <2>1 DEF Booked
<1>5. CASE Settling(x)
  <2>1. PICK how \in {"EXPIRED", "CANCELLED"} : Withdrawing(x, how)
    BY <1>5 DEF Settling
  <2>2. x.put.resv[r] = [resv[r] EXCEPT !.status = how]
    BY <1>4, <2>1 DEF Withdrawing
  <2>3. resv[r] \in WindowRow
    BY <1>3, ResRows DEF IInv
  <2>4. x.put.resv[r].status = how
    BY <2>2, <2>3 DEF WindowRow
  <2>5. r \in Settled(x) \ Left(x)
    BY <1>2, <1>4, <2>4 DEF Settled, Left
  <2> QED BY <1>1, <1>3, <1>4, <2>5 DEF Freed, FreedAt
<1>6. CASE Starting(x)
  <2>1. PICK d \in Conn, u \in User, q \in ResId \cup {None} :
          /\ x.put.conn = Only(d, "OCCUPIED")
          /\ x.put.resv = IF q = None THEN <<>> ELSE Only(q, [resv[q] EXCEPT !.status = "CONVERTED"])
          /\ q # None => Owned(d, u, q)
    BY <1>6 DEF Starting
  <2>2. q = r /\ q # None
    BY <1>4, <2>1, EmptyPart DEF Only
  <2>3. d = c /\ c \in DOMAIN x.put.conn
    BY <1>3, <2>1, <2>2 DEF Owned, Only
  <2> QED BY <1>1, <1>2, <1>4, <2>3 DEF Holds
<1>7. CASE Creating(x)
  BY <1>3, <1>4, <1>7 DEF Creating, Only, NoRow
<1>8. CASE Moving(x)
  BY <1>4, <1>8, EmptyPart DEF Moving
<1> QED BY <1>1, <1>2, <1>5, <1>6, <1>7, <1>8, AtTells DEF IInv

LEMMA CommitFreed ==
  ASSUME HInv, NEW t \in Tx, Commit(t), NEW v \in Tx
  PROVE  Freed(tx[v])'
<1>1. IInv /\ Freed(tx[t]) /\ Freed(tx[v]) /\ tx \in [Tx -> TxRec]
  BY DEF HInv, IInv, TypeOK
<1>2. CASE v = t
  <2>1. tx'[v] = Idle
    BY <1>1, <1>2 DEF Commit
  <2> QED BY <2>1, IdleIs, EmptyPart DEF Freed, Settled
<1>3. CASE v # t
  <2>1. PICK x : x = tx[v] /\ x = tx'[v]
    BY <1>1, <1>3 DEF Commit
  <2>2. tx[t].held \cap x.held = {} /\ Holds(x) /\ Doing(x)
    BY <1>1, <1>3, <2>1 DEF IInv, Exclusive
  <2> SUFFICES ASSUME NEW r \in Settled(x) \ Left(x) PROVE resv'[r] = resv[r] /\ FreedAt(x, resv[r].conn)'
    BY <2>1 DEF Freed, Settled, Left
  <2>3. r \in ResId /\ Row("resv", r) \in x.held
    BY <1>1, <2>1, <2>2, TxFields DEF Settled, Holds, IInv
  <2>4. resv'[r] = resv[r]
    BY <1>1, <2>2, <2>3, RowsHeld
  <2>5. resv[r].conn \in Conn
    <3>1. Settling(x)
      BY <1>1, <2>2, NothingSettled DEF Doing, IInv, TypeOK
    <3>2. resv[r].status = "BOOKED"
      BY <3>1 DEF Settling, Withdrawing, Settled
    <3> QED BY <1>1, <2>3, <3>2, ResRows DEF IInv
  <2>6. PICK c \in Conn : c = resv[r].conn
    BY <2>5
  <2>7. FreedAt(x, c)
    BY <1>1, <2>1, <2>6 DEF Freed
  <2>8. Row("conn", c) \notin tx[t].held
    BY <2>2, <2>7 DEF FreedAt
  <2>9. cstat'[c] = cstat[c] /\ Booked(c) \subseteq Booked(c)'
    BY <1>1, <2>8, RowsHeld, TakesHeld
  <2>10. FreedAt(x, c)'
    BY <2>7, <2>9 DEF FreedAt
  <2> QED BY <2>4, <2>6, <2>10
<1> QED BY <1>2, <1>3

LEMMA OnlySettled ==
  ASSUME NEW x, NEW id, NEW row, x.put.resv = Only(id, row), row.status \in {"BOOKED", "CONVERTED"}
  PROVE  Settled(x) = {}
<1>1. PICK p : p = x.put.resv
  OBVIOUS
<1>2. DOMAIN p = {id} /\ p[id] = row
  BY <1>1, OnlyIs
<1> QED BY <1>1, <1>2 DEF Settled

(* A step that commits nothing is the step of one transaction.             *)
LEMMA MovesFreed ==
  ASSUME HInv, NEW t \in Tx, Called(t) \/ Waits(t) \/ Runs(t) \/ Lost(t), ~Commit(t)
  PROVE  Freed(tx[t])' /\ UNCHANGED rows /\ \A u \in Tx \ {t} : tx'[u] = tx[u]
<1>1. IInv /\ Freed(tx[t]) /\ tx \in [Tx -> TxRec] /\ tx[t] \in TxRec /\ tx[t].put \in PutRec
  BY TxFields DEF HInv, IInv, TypeOK
<1>2. UNCHANGED rows
  BY DEF Called, CreateReservation, CancelReservation, ExpireStale, StartSession, Transition, RecordMeterTick,
         Waits, Release, ClaimWindow, SetConnector, Runs, CountBooked, Deadlock, Lost
<1>3. \A u \in Tx \ {t} : tx'[u] = tx[u]
  BY <1>1 DEF Called, CreateReservation, CancelReservation, ExpireStale, StartSession, Transition, RecordMeterTick,
         Begins, Goes, RollsBack, Waits, Release, ClaimWindow, SetConnector, Runs, CountBooked, Deadlock, Lost
<1> SUFFICES Freed(tx[t])'
  BY <1>2, <1>3
<1>0. ASSUME NEW x, x = tx'[t], Settled(x) = {} PROVE Freed(tx[t])'
  <2>1. Settled(tx[t])' = {}
    BY <1>0 DEF Settled
  <2> QED BY <2>1 DEF Freed
<1>4. ASSUME RollsBack(t) PROVE Freed(tx[t])'
  <2>1. tx'[t] = Idle
    BY <1>1, <1>4 DEF RollsBack
  <2> QED BY <2>1, IdleIs, EmptyPart DEF Freed, Settled
<1>5. ASSUME NEW x, tx'[t] = x, x.put.resv = <<>> PROVE Freed(tx[t])'
  BY <1>5, EmptyPart DEF Freed, Settled
<1>6. ASSUME NEW c \in Conn, NEW u \in User, NEW b \in Time, NEW e \in Time, CreateReservation(t, c, u, b, e)
      PROVE  Freed(tx[t])'
  <2> DEFINE q == Only(nRes + 1, Window(c, u, b, e))
             x == [Idle EXCEPT !.at = "commit", !.held = {Row("conn", c), Row("resv", nRes + 1)},
                     !.put.conn = Only(c, "RESERVED"), !.put.resv = q]
  <2>1. x.put.resv = q
    BY DEF Idle, Nothing
  <2>2. tx'[t] = x
    BY <1>1, <1>6 DEF CreateReservation, Begins
  <2> HIDE DEF x
  <2>3. Window(c, u, b, e).status = "BOOKED"
    BY DEF Window
  <2>4. Settled(x) = {}
    BY <2>1, <2>3, OnlySettled
  <2> QED BY <1>0, <2>2, <2>4
<1>7. ASSUME NEW c \in Conn, NEW u \in User, NEW r \in ResId \cup {None}, StartSession(t, c, u, r)
      PROVE  Freed(tx[t])'
  <2>1. CASE r = None
    <3>1. PICK p : p = Started(c, u, r)
      OBVIOUS
    <3>2. tx'[t] = [Idle EXCEPT !.at = "commit", !.put = p, !.held = {Row("conn", c), Row("sess", nSess + 1)}]
      BY <1>1, <1>7, <2>1, <3>1 DEF StartSession, Begins
    <3>3. tx'[t].put = p /\ p.resv = <<>>
      BY <2>1, <3>1, <3>2 DEF Idle, Started
    <3> QED BY <1>5, <3>3
  <2>2. CASE r # None
    <3>1. tx'[t] = [Idle EXCEPT !.at = "claim", !.held = {Row("conn", c)}, !.conn = c, !.user = u, !.res = r]
      BY <1>1, <1>7, <2>2 DEF StartSession, Begins
    <3>2. tx'[t].put = Nothing
      BY <3>1 DEF Idle
    <3> QED BY <1>5, <3>2, IdleIs
  <2> QED BY <2>1, <2>2
<1>8. ASSUME NEW s \in SessId, NEW to, Transition(t, s, to) PROVE Freed(tx[t])'
  <2>1. PICK p, at, c : /\ p = Only(s, [sess[s] EXCEPT !.state = to]) /\ c = sess[s].conn
                        /\ at = IF to = "CHARGING" THEN "set" ELSE IF to \in Ended THEN "count" ELSE "commit"
    OBVIOUS
  <2>2. tx'[t] = [Idle EXCEPT !.at = at, !.held = {Row("sess", s)}, !.put.sess = p, !.conn = c]
    BY <1>1, <1>8, <2>1 DEF Transition, Begins
  <2>3. tx'[t].put.resv = <<>>
    BY <2>2 DEF Idle, Nothing
  <2> QED BY <1>5, <2>3
<1>9. ASSUME NEW s \in SessId, RecordMeterTick(t, s) PROVE Freed(tx[t])'
  <2>1. PICK p : p = Only(s, [sess[s] EXCEPT !.state = "CHARGING"])
    OBVIOUS
  <2>2. tx'[t] = [Idle EXCEPT !.at = "commit", !.held = {Row("sess", s)}, !.put.sess = p]
    BY <1>1, <1>9, <2>1 DEF RecordMeterTick, Begins
  <2>3. tx'[t].put.resv = <<>>
    BY <2>2 DEF Idle, Nothing
  <2> QED BY <1>5, <2>3
<1>10. CASE Called(t)
  BY <1>1, <1>6, <1>7, <1>8, <1>9, <1>10, WithdrawalFreed DEF Called
<1>11. CASE Release(t)
  BY <1>1, <1>11, ReleaseFreed
<1>12. CASE ClaimWindow(t)
  <2>1. CASE RollsBack(t)
    BY <1>4, <2>1
  <2>2. CASE ~RollsBack(t)
    <3>1. PICK r \in ResId : /\ resv[r].status = "BOOKED"
                             /\ Goes(t, "commit", {Row("resv", r), Row("sess", nSess + 1)}, Started(tx[t].conn, tx[t].user, r))
      <4>1. tx[t].at = "claim"
        BY <1>12 DEF ClaimWindow
      <4>2. tx[t].res \in ResId
        BY <1>1, <4>1, AtTells DEF IInv, Claiming
      <4> QED BY <1>12, <2>2, <4>2 DEF ClaimWindow, Owned
    <3>2. PICK p : p = Started(tx[t].conn, tx[t].user, r)
      OBVIOUS
    <3>3. tx'[t].put = p
      BY <1>1, <3>1, <3>2 DEF Goes, TxRec
    <3>4. p.resv = Only(r, [resv[r] EXCEPT !.status = "CONVERTED"])
      BY <3>2, Bounds DEF Started
    <3>5. resv[r] \in WindowRow
      BY <1>1, <3>1, ResRows DEF IInv
    <3>6. [resv[r] EXCEPT !.status = "CONVERTED"].status = "CONVERTED"
      BY <3>5 DEF WindowRow
    <3>7. Settled(tx'[t]) = {}
      BY <3>3, <3>4, <3>6, OnlySettled
    <3> QED BY <1>0, <3>7
  <2> QED BY <2>1, <2>2
<1>13. CASE CountBooked(t) \/ SetConnector(t)
  <2>1. tx'[t].put.resv = tx[t].put.resv
    BY <1>1, <1>13 DEF CountBooked, SetConnector, Goes, TxRec, PutRec
  <2>2. tx[t].at \in {"count", "set"}
    BY <1>13 DEF CountBooked, SetConnector
  <2>3. tx[t].put.resv = <<>>
    BY <1>1, <2>2, AtTells DEF IInv, Moving
  <2> QED BY <1>5, <2>1, <2>3
<1>14. CASE Deadlock(t) \/ Lost(t)
  BY <1>4, <1>14 DEF Deadlock, Lost
<1> QED BY <1>2, <1>3, <1>10, <1>11, <1>12, <1>13, <1>14 DEF Waits, Runs

(* A commit other than the end of a session leaves no hold behind.         *)
LEMMA CommitReleases ==
  ASSUME HInv, NEW t \in Tx, Commit(t), NEW c \in Conn, StaleHold(c)', ~StaleHold(c)
  PROVE  \E s \in LiveOn(c) : sess'[s].state \in Ended
<1>1. IInv /\ Freed(tx[t]) /\ cstat \in [Conn -> ConnStatus]
  BY DEF HInv, IInv, TypeOK
<1>2. cstat'[c] = "RESERVED" /\ Booked(c)' = {}
  BY DEF StaleHold
<1>3. CASE cstat[c] = "RESERVED"
  <2>1. PICK r \in Booked(c) : TRUE
    BY <1>3 DEF StaleHold
  <2>2. \A q \in Booked(c) : Row("conn", c) \in tx[t].held /\ q \in DOMAIN tx[t].put.resv
    BY <1>1, <1>2, TakesHeld
  <2>3. r \in ResId /\ resv[r].status = "BOOKED" /\ resv[r].conn = c
    BY <2>1 DEF Booked
  <2>4. tx[t].at = "commit" /\ resv' = Over(tx[t].put.resv, resv) /\ cstat' = Over(tx[t].put.conn, cstat)
    BY DEF Commit
  <2>5. CASE Settling(tx[t])
    <3>1. PICK how \in {"EXPIRED", "CANCELLED"} : Withdrawing(tx[t], how)
      BY <2>5 DEF Settling
    <3>2. tx[t].put.resv[r] = [resv[r] EXCEPT !.status = how] /\ resv[r] \in WindowRow
      BY <1>1, <2>1, <2>2, <2>3, <3>1, ResRows DEF Withdrawing, IInv
    <3>3. tx[t].put.resv[r].status = how
      BY <3>2 DEF WindowRow
    <3>4. FreedAt(tx[t], c)
      BY <1>1, <2>1, <2>2, <2>3, <2>4, <3>3 DEF Freed, Settled, Left
    <3>5. c \in DOMAIN tx[t].put.conn
      BY <1>3, <2>2, <3>4 DEF FreedAt
    <3>6. tx[t].put.conn[c] = "AVAILABLE"
      BY <3>1, <3>5 DEF Withdrawing
    <3>7. cstat'[c] = "AVAILABLE"
      BY <1>1, <2>4, <3>5, <3>6, OverIs
    <3> QED BY <1>2, <3>7
  <2>6. CASE Creating(tx[t]) \/ Moving(tx[t])
    <3>1. r \in DOMAIN tx[t].put.resv
      BY <2>1, <2>2
    <3>2. CASE Moving(tx[t])
      BY <3>1, <3>2, EmptyPart DEF Moving
    <3>3. CASE Creating(tx[t])
      <4>1. PICK q \in ResId : \E row : tx[t].put.resv = Only(q, row) /\ resv[q] = NoRow
        BY <3>3 DEF Creating
      <4>2. q = r
        <5>1. PICK row : tx[t].put.resv = Only(q, row)
          BY <4>1
        <5>2. r \in DOMAIN Only(q, row)
          BY <3>1, <5>1
        <5> QED BY <5>2 DEF Only
      <4> QED BY <2>3, <4>1, <4>2 DEF NoRow
    <3> QED BY <2>6, <3>2, <3>3
  <2>7. CASE Starting(tx[t])
    <3>1. PICK d \in Conn, u \in User, q \in ResId \cup {None} :
            /\ tx[t].put.conn = Only(d, "OCCUPIED")
            /\ tx[t].put.resv = IF q = None THEN <<>> ELSE Only(q, [resv[q] EXCEPT !.status = "CONVERTED"])
            /\ q # None => Owned(d, u, q)
      BY <2>7 DEF Starting
    <3>2. q = r /\ q # None
      BY <2>1, <2>2, <3>1, EmptyPart DEF Only
    <3>3. c \in DOMAIN tx[t].put.conn /\ tx[t].put.conn[c] = "OCCUPIED"
      BY <2>3, <3>1, <3>2 DEF Owned, Only
    <3>4. cstat'[c] = "OCCUPIED"
      BY <1>1, <2>4, <3>3, OverIs
    <3> QED BY <1>2, <3>4
  <2> QED BY <1>1, <2>4, <2>5, <2>6, <2>7, AtTells DEF IInv
<1>4. CASE cstat[c] # "RESERVED"
  <2>1. Effect(t)
    BY <1>1, CommitEffect
  <2>2. ASSUME NEW d \in Conn, NEW u \in User, NEW r \in ResId, NEW b \in Time, NEW e \in Time,
               Creates(d, u, r, b, e)
        PROVE  FALSE
    <3>1. d = c
      BY <1>1, <1>2, <1>4, <2>2 DEF Creates
    <3>2. resv' = [resv EXCEPT ![r] = Window(c, u, b, e)] /\ resv \in [ResId -> ResRow]
      BY <1>1, <2>2, <3>1 DEF Creates, IInv, TypeOK
    <3>3. r \in Booked(c)'
      BY <3>2 DEF Booked, Window
    <3> QED BY <1>2, <3>3
  <2>3. ASSUME NEW R \in SUBSET ResId, NEW how, Settles(R, how) PROVE FALSE
    BY <1>2, <1>4, <2>3 DEF Settles
  <2>4. ASSUME NEW d \in Conn, NEW u, NEW r, NEW s \in SessId, Starts(d, u, r, s) PROVE FALSE
    BY <1>1, <1>2, <1>4, <2>4 DEF Starts
  <2>5. ASSUME NEW s \in SessId, NEW state \in Live, Moves(s, state) PROVE FALSE
    BY <1>2, <1>4, <2>5 DEF Moves
  <2>6. ASSUME NEW s \in SessId, NEW state \in Ended, NEW to \in ConnStatus, Ends(s, state, to)
        PROVE  s \in LiveOn(c) /\ sess'[s].state \in Ended
    <3>1. sess[s].conn = c /\ sess[s].state \in Live
      BY <1>1, <1>2, <1>4, <2>6 DEF Ends
    <3>2. sess[s] \in ChargeRow /\ sess \in [SessId -> SessRow]
      BY <1>1, <3>1, SessRows DEF IInv, TypeOK
    <3>3. sess'[s].state = state
      BY <2>6, <3>2 DEF Ends, ChargeRow
    <3> QED BY <2>6, <3>1, <3>3 DEF LiveOn
  <2> QED BY <2>1, <2>2, <2>3, <2>4, <2>5, <2>6 DEF Effect
<1> QED BY <1>3, <1>4

LEMMA HoldsStep ==
  ASSUME HInv, [Next]_vars
  PROVE  HInv' /\ \A c \in Conn : StaleHold(c)' => \/ StaleHold(c)
                                                  \/ \E s \in LiveOn(c) : sess'[s].state \in Ended
<1>1. IInv'
  BY NextStep, CommitKeeps, StutterKeeps DEF HInv
<1>2. ASSUME UNCHANGED rows, NEW c PROVE StaleHold(c)' = StaleHold(c)
  BY <1>2, RowsSame DEF StaleHold, rows
<1>3. CASE UNCHANGED vars
  <2>1. UNCHANGED rows /\ tx' = tx
    BY <1>3 DEF vars
  <2> QED BY <1>1, <1>2, <2>1, FreedSame DEF HInv
<1>4. CASE Next
  <2>1. PICK t \in Tx : Called(t) \/ Waits(t) \/ Runs(t) \/ Lost(t)
    BY <1>4 DEF Next
  <2>2. CASE Commit(t)
    BY <1>1, <2>2, CommitFreed, CommitReleases DEF HInv
  <2>3. CASE ~Commit(t)
    <3>1. Freed(tx[t])' /\ UNCHANGED rows /\ \A u \in Tx \ {t} : tx'[u] = tx[u]
      BY <2>1, <2>3, MovesFreed
    <3>2. \A u \in Tx : Freed(tx[u])'
      BY <3>1, FreedSame DEF HInv
    <3> QED BY <1>1, <1>2, <3>1, <3>2 DEF HInv
  <2> QED BY <2>2, <2>3
<1> QED BY <1>3, <1>4

(* A hold is let go with its last window (BUG-050): of all that both       *)
(* packages commit, however their statements interleave, only the end of a *)
(* session can leave a connector RESERVED with no BOOKED window.           *)
THEOREM LockedHoldsReleased == Spec => HoldsReleased
<1>1. Init => HInv
  <2> SUFFICES ASSUME Init PROVE HInv
    OBVIOUS
  <2>1. \A t \in Tx : tx[t] = Idle
    BY DEF Init
  <2>2. \A t \in Tx : Freed(tx[t])
    BY <2>1, IdleIs, EmptyPart DEF Freed, Settled
  <2> QED BY <2>2, InitHolds DEF HInv
<1>2. HInv /\ [Next]_vars => HInv'
  BY HoldsStep
<1>3. HInv /\ [Next]_vars => [\A c \in Conn : StaleHold(c)' =>
        \/ StaleHold(c)
        \/ \E s \in LiveOn(c) : sess'[s].state \in Ended]_vars
  BY HoldsStep
<1> QED BY <1>1, <1>2, <1>3, PTL DEF Spec, HoldsReleased

(* ------------------------------ the promise ---------------------------- *)
Serving == [c \in Conn |-> LiveOn(c)]

LEMMA InitPromise == Init => Promise!Init
<1> SUFFICES ASSUME Init PROVE Promise!Init
  OBVIOUS
<1>1. \A c \in Conn : LiveOn(c) = {}
  BY DEF Init, LiveOn, Live, NoSession
<1> QED BY <1>1 DEF Init, Promise!Init, Promise!NoRow, NoRow

(* What one commit does is one step of the promise.                        *)
LEMMA EffectPromise ==
  ASSUME IInv, NEW t \in Tx, Effect(t)
  PROVE  [Promise!Next]_(Promise!vars)
<1>1. resv \in [ResId -> ResRow]
  BY DEF IInv, TypeOK
<1>2. ASSUME \A c \in Conn : LiveOn(c)' = LiveOn(c) PROVE Serving' = Serving
  BY <1>2 DEF Serving
<1>3. ASSUME sess' = sess PROVE Serving' = Serving
  BY <1>3 DEF Serving, LiveOn
<1>4. ASSUME NEW c \in Conn, NEW u \in User, NEW r \in ResId, NEW b \in Time, NEW e \in Time,
             Creates(c, u, r, b, e)
      PROVE  Promise!Next
  <2>1. ASSUME NEW q \in ResId, resv[q].status \in {"BOOKED", "CONVERTED"}, resv[q].conn = c
        PROVE  resv[q].start >= e \/ resv[q].end <= b
    <3>1. resv[q] \in WindowRow
      BY <2>1, ResRows DEF IInv
    <3>2. resv[q].start \in Int /\ resv[q].end \in Int /\ b \in Int /\ e \in Int
      BY <3>1, Bounds DEF WindowRow, Time
    <3>3. q \notin Overlaps(c, b, e)
      BY <1>4 DEF Creates
    <3> QED BY <2>1, <3>2, <3>3 DEF Overlaps, Active
  <2>2. Promise!Grant(r, c, u, b, e)
    BY <1>3, <1>4, <2>1 DEF Creates, Promise!Grant, Promise!Active, Promise!NoRow, NoRow, Window, Serving
  <2> QED BY <2>2 DEF Promise!Next
<1>5. ASSUME NEW R \in SUBSET ResId, NEW how \in {"EXPIRED", "CANCELLED"}, Settles(R, how),
             how = "CANCELLED" => \E r \in ResId : R = {r}
      PROVE  Promise!Next
  <2>1. CASE how = "EXPIRED"
    <3>1. Promise!Sweep(R)
      BY <1>3, <1>5, <2>1 DEF Settles, Promise!Sweep, Serving
    <3> QED BY <3>1 DEF Promise!Next
  <2>2. CASE how = "CANCELLED"
    <3>1. PICK r \in ResId : R = {r}
      BY <1>5, <2>2
    <3>2. resv' = [resv EXCEPT ![r].status = "CANCELLED"] /\ resv[r].status = "BOOKED" /\ sess' = sess
      BY <1>1, <1>5, <2>2, <3>1 DEF Settles
    <3>3. Promise!Withdraw(r, "CANCELLED")
      BY <1>3, <3>2 DEF Promise!Withdraw, Serving
    <3> QED BY <3>3 DEF Promise!Next
  <2> QED BY <2>1, <2>2
<1>6. ASSUME NEW c \in Conn, NEW u \in User, NEW r \in ResId \cup {None}, NEW s \in SessId, Starts(c, u, r, s)
      PROVE  Promise!Next
  <2>1. LiveOn(c) = {} /\ LiveOn(c)' = {s} /\ \A d \in Conn \ {c} : LiveOn(d)' = LiveOn(d)
    BY <1>6, StartsLive
  <2>2. Serving[c] = {} /\ Serving' = [Serving EXCEPT ![c] = {s}]
    BY <2>1 DEF Serving
  <2>3. CASE r = None
    <3>1. Promise!ArriveWalkIn(s, c)
      BY <1>6, <2>2, <2>3 DEF Starts, Promise!ArriveWalkIn, Serving
    <3> QED BY <3>1 DEF Promise!Next
  <2>4. CASE r # None
    <3>1. Promise!ArriveBooked(s, c, u, r)
      BY <1>6, <2>2, <2>4 DEF Starts, Owned, Promise!ArriveBooked, Serving
    <3> QED BY <2>4, <3>1 DEF Promise!Next
  <2> QED BY <2>3, <2>4
<1>7. ASSUME NEW s \in SessId, NEW state \in Live, Moves(s, state) PROVE UNCHANGED Promise!vars
  <2>1. Serving' = Serving /\ resv' = resv
    BY <1>2, <1>7, MovesLive DEF Moves
  <2> QED BY <2>1 DEF Promise!vars, Serving
<1>8. ASSUME NEW s \in SessId, NEW state \in Ended, NEW to \in ConnStatus, Ends(s, state, to)
      PROVE  Promise!Next
  <2>1. PICK c \in Conn : c = sess[s].conn
    BY <1>8, EndsLive
  <2>2. LiveOn(c) = {s} /\ LiveOn(c)' = {} /\ \A d \in Conn \ {c} : LiveOn(d)' = LiveOn(d)
    BY <1>8, <2>1, EndsLive DEF LiveOn
  <2>3. Serving[c] # {} /\ Serving' = [Serving EXCEPT ![c] = {}]
    BY <2>2 DEF Serving
  <2>4. Promise!Leave(c)
    BY <1>8, <2>3 DEF Ends, Promise!Leave, Serving
  <2> QED BY <2>4 DEF Promise!Next
<1> QED BY <1>4, <1>5, <1>6, <1>7, <1>8 DEF Effect

LEMMA StepPromise == IInv /\ [Next]_vars => [Promise!Next]_(Promise!vars)
<1>1. ASSUME UNCHANGED rows PROVE UNCHANGED Promise!vars
  BY <1>1 DEF rows, Promise!vars, LiveOn
<1>2. UNCHANGED vars => UNCHANGED rows
  BY DEF vars
<1> QED BY <1>1, <1>2, NextStep, CommitEffect, EffectPromise

(* The packages under Oracle's locks, whose procedures interleave statement*)
(* by statement and may fail half way, implement the booking service in    *)
(* which every operation is one atomic step (ADR-0005).                    *)
THEOREM LockedKeepsPromise == Spec => Implements
<1> QED BY InitPromise, StepPromise, Inductive, PTL DEF Spec, Implements, Promise!Spec
=============================================================================
