------------------------------ MODULE Accounts ------------------------------
(***************************************************************************)
(* Accounts of the API process and their rows in Oracle: registration      *)
(* staged in memory and then mirrored, id conflicts with another writer,   *)
(* suspension, login, and the rotating refresh tokens                      *)
(* (src/apps/api/src/routes.js, middleware/auth.js, db/store.js,           *)
(* db/oracle.js).                                                          *)
(*                                                                         *)
(* A handler runs from one await to the next without a pause: hashing or   *)
(* checking a password, a turn on the one mirror connection, the reading   *)
(* of Oracle's highest id, the welcome top-up.                             *)
(***************************************************************************)
EXTENDS Naturals, Sequences, FiniteSets, SequencesExt, FiniteSetsExt

CONSTANTS
  Email,
  Req,         \* requests of clients and administrators
  MaxReg,      \* bound: ids the registrations begin with
  MaxTok,      \* bound: refresh tokens of one process
  MaxForeign   \* bound: rows another writer inserts

ASSUME AccountsAssumption == MaxReg \in Nat

(* A registration that loses its id takes one more; the bound on ids.      *)
Id == 1 .. 2 * MaxReg

VARIABLES
  users,   \* store.users: user objects, named by the id they were made with
  seqUser, \* store.seq.user
  rows,    \* app_user in Oracle
  chain,   \* the mirrors waiting for their turn, in order
  req,     \* where each request is suspended, and its local variables
  toks     \* store.refresh, in the order of issue

accVars == <<users, seqUser, rows, chain, req, toks>>

NoUser == [live |-> FALSE]
NoRow == [status |-> "NONE"]
Idle == [step |-> "idle"]
AtStep(r, s) == req[r].step = s

Live == {o \in Id : users[o].live}
Stored == {i \in Id : rows[i] # NoRow}
Highest == IF Stored = {} THEN 0 ELSE Max(Stored)

AccInit ==
  /\ users = [o \in Id |-> NoUser] /\ seqUser = 0
  /\ rows = [i \in Id |-> NoRow]
  /\ chain = <<>>
  /\ req = [r \in Req |-> Idle]
  /\ toks = <<>>

-----------------------------------------------------------------------------
(* Refresh tokens.                                                         *)

Families == {toks[t].fam : t \in DOMAIN toks}

(* issueRefresh: without a family it opens one.                            *)
Issue(ts, uid, fam) ==
  LET of == {t \in DOMAIN ts : ts[t].fam = fam}
  IN  Append(ts, [uid |-> uid, fam |-> fam, revoked |-> FALSE, expired |-> FALSE,
                  gen |-> IF of = {} THEN 0 ELSE Max({ts[t].gen : t \in of}) + 1])

NewFamily == Cardinality(Families) + 1
Room == Len(toks) < MaxTok

RevokeFamily(fam) == [t \in DOMAIN toks |-> [toks[t] EXCEPT !.revoked = @ \/ toks[t].fam = fam]]

Owner(t) == {o \in Live : users[o].id = toks[t].uid}
Active(t) == \E o \in Owner(t) : users[o].status = "ACTIVE"

(* Mutant of Rotated: the token that was used stays good.                  *)
KeptToken(t) == toks

Rotated(t) == [toks EXCEPT ![t].revoked = TRUE]

(* POST /auth/refresh.  A used token burns its family, an expired one is   *)
(* only refused; a good one is used up, whoever it belongs to, and its     *)
(* family goes with the account.                                           *)
Refresh(t) ==
  /\ t \in DOMAIN toks
  /\ Active(t) => Room
  /\ toks' = IF toks[t].revoked THEN RevokeFamily(toks[t].fam)
             ELSE IF toks[t].expired THEN toks
             ELSE IF Owner(t) = {} THEN Rotated(t)
             ELSE IF ~Active(t) THEN RevokeFamily(toks[t].fam)
             ELSE Issue(Rotated(t), toks[t].uid, toks[t].fam)
  /\ UNCHANGED <<users, seqUser, rows, chain, req>>

(* POST /auth/logout: an expired token takes nothing with it.              *)
Logout(t) ==
  /\ t \in DOMAIN toks
  /\ toks' = IF ~toks[t].revoked /\ toks[t].expired THEN toks ELSE RevokeFamily(toks[t].fam)
  /\ UNCHANGED <<users, seqUser, rows, chain, req>>

(* Thirty days pass; older tokens of the family are past theirs too.       *)
TokenExpires(t) ==
  /\ t \in DOMAIN toks /\ ~toks[t].expired
  /\ \A s \in 1 .. t - 1 : toks[s].expired
  /\ toks' = [toks EXCEPT ![t].expired = TRUE]
  /\ UNCHANGED <<users, seqUser, rows, chain, req>>

-----------------------------------------------------------------------------
(* Registration.                                                           *)

(* createUser: the address is looked for and the id is taken before the    *)
(* password is hashed.                                                     *)
Register(r, e) ==
  /\ AtStep(r, "idle") /\ seqUser < MaxReg
  /\ \A o \in Live : users[o].email # e
  /\ seqUser' = seqUser + 1
  /\ req' = [req EXCEPT ![r] = [step |-> "hash", email |-> e, obj |-> seqUser + 1]]
  /\ UNCHANGED <<users, rows, chain, toks>>

(* Hashed: the account is in memory, and its mirror takes a place.         *)
Stage(r) ==
  /\ AtStep(r, "hash")
  /\ LET o == req[r].obj
     IN  /\ users' = [users EXCEPT ![o] = [id |-> o, email |-> req[r].email,
                                           status |-> "ACTIVE", live |-> TRUE]]
         /\ req' = [req EXCEPT ![r] = [step |-> "insert", obj |-> o]]
  /\ chain' = Append(chain, r)
  /\ UNCHANGED <<seqUser, rows, toks>>

Turn(r) == chain # <<>> /\ Head(chain) = r

(* The primary key and the unique address of app_user.                     *)
Clashes(o) == \E i \in Stored : i = users[o].id \/ rows[i].email = users[o].email

(* Mutant of Undone: a registration that failed leaves its account.        *)
GhostLeft(o) == users

Undone(o) == [users EXCEPT ![o].live = FALSE]

Inserted(r) ==
  /\ Turn(r) /\ req[r].step \in {"insert", "retry"}
  /\ LET o == req[r].obj
     IN  /\ ~Clashes(o)
         /\ rows' = [rows EXCEPT ![users[o].id] = [email |-> users[o].email, status |-> "ACTIVE"]]
         /\ req' = [req EXCEPT ![r] = [step |-> "welcome", obj |-> o]]
  /\ chain' = Tail(chain)
  /\ UNCHANGED <<users, seqUser, toks>>

(* ORA-00001: once, Oracle is asked for its highest id.                    *)
InsertClashes(r) ==
  /\ Turn(r) /\ req[r].step \in {"insert", "retry"} /\ Clashes(req[r].obj)
  /\ chain' = Tail(chain)
  /\ IF AtStep(r, "insert")
     THEN req' = [req EXCEPT ![r].step = "realign"] /\ UNCHANGED users
     ELSE users' = Undone(req[r].obj) /\ req' = [req EXCEPT ![r] = Idle]
  /\ UNCHANGED <<seqUser, rows, toks>>

(* realignMirrorSeq: the counter goes up to Oracle's, and an id that is    *)
(* not above it is exchanged for the next one.                             *)
Realign(r) ==
  /\ AtStep(r, "realign")
  /\ LET o == req[r].obj
         floor == Max({seqUser, Highest})
     IN  IF users[o].id <= Highest
         THEN /\ floor + 1 \in Id
              /\ users' = [users EXCEPT ![o].id = floor + 1]
              /\ seqUser' = floor + 1
              /\ req' = [req EXCEPT ![r].step = "retry"]
              /\ chain' = Append(chain, r)
         ELSE /\ users' = Undone(o)
              /\ seqUser' = floor
              /\ req' = [req EXCEPT ![r] = Idle]
              /\ UNCHANGED chain
  /\ UNCHANGED <<rows, toks>>

(* Any other error of the mirror, or of asking for the highest id.         *)
MirrorFails(r) ==
  /\ \/ Turn(r) /\ req[r].step \in {"insert", "retry"} /\ chain' = Tail(chain)
     \/ AtStep(r, "realign") /\ UNCHANGED chain
  /\ users' = Undone(req[r].obj)
  /\ req' = [req EXCEPT ![r] = Idle]
  /\ UNCHANGED <<seqUser, rows, toks>>

(* The welcome top-up is through: the answer carries the first token.  If  *)
(* it failed, the client gets an error and the account stays.              *)
Welcome(r, ok) ==
  /\ AtStep(r, "welcome") /\ (ok => Room)
  /\ toks' = IF ok THEN Issue(toks, users[req[r].obj].id, NewFamily) ELSE toks
  /\ req' = [req EXCEPT ![r] = Idle]
  /\ UNCHANGED <<users, seqUser, rows, chain>>

-----------------------------------------------------------------------------
(* Login and suspension.                                                   *)

Login(r, o) ==
  /\ AtStep(r, "idle") /\ o \in Live
  /\ req' = [req EXCEPT ![r] = [step |-> "verify", obj |-> o]]
  /\ UNCHANGED <<users, seqUser, rows, chain, toks>>

MayLogin(o) == users[o].status = "ACTIVE"

(* The password is checked; the status counts as it is now.                *)
Verified(r, ok) ==
  /\ AtStep(r, "verify") /\ (ok => Room)
  /\ toks' = IF ok /\ MayLogin(req[r].obj)
             THEN Issue(toks, users[req[r].obj].id, NewFamily) ELSE toks
  /\ req' = [req EXCEPT ![r] = Idle]
  /\ UNCHANGED <<users, seqUser, rows, chain>>

Registering == {req[r].obj : r \in {q \in Req : req[q].step \in {"insert", "realign", "retry"}}}
Changing == {req[r].obj : r \in {q \in Req : AtStep(q, "status")}}

(* PATCH /admin/users/:id.  An administrator picks an account whose        *)
(* registration was answered, and one change of it is made at a time.      *)
SetStatus(r, o, to) ==
  /\ AtStep(r, "idle") /\ o \in Live \ (Registering \cup Changing)
  /\ users' = [users EXCEPT ![o].status = to]
  /\ req' = [req EXCEPT ![r] = [step |-> "status", obj |-> o, to |-> to, prev |-> users[o].status]]
  /\ chain' = Append(chain, r)
  /\ UNCHANGED <<seqUser, rows, toks>>

StatusMirrored(r) ==
  /\ Turn(r) /\ AtStep(r, "status")
  /\ LET i == users[req[r].obj].id
     IN  i \in Stored /\ rows' = [rows EXCEPT ![i].status = req[r].to]
  /\ req' = [req EXCEPT ![r] = Idle]
  /\ chain' = Tail(chain)
  /\ UNCHANGED <<users, seqUser, toks>>

StatusFails(r) ==
  /\ Turn(r) /\ AtStep(r, "status")
  /\ users' = [users EXCEPT ![req[r].obj].status = req[r].prev]
  /\ req' = [req EXCEPT ![r] = Idle]
  /\ chain' = Tail(chain)
  /\ UNCHANGED <<seqUser, rows, toks>>

-----------------------------------------------------------------------------
(* Another writer of app_user, and a restart of this process.              *)

Foreign(i, e) ==
  /\ i \in 1 .. MaxReg \ Stored /\ Cardinality(Stored) < MaxForeign
  /\ \A j \in Stored : rows[j].email # e
  /\ rows' = [rows EXCEPT ![i] = [email |-> e, status |-> "ACTIVE"]]
  /\ UNCHANGED <<users, seqUser, chain, req, toks>>

(* hydrate: no one has written refresh_token, so every family is gone.     *)
Restart ==
  /\ users' = [o \in Id |-> IF rows[o] = NoRow THEN NoUser
                 ELSE [id |-> o, email |-> rows[o].email, status |-> rows[o].status, live |-> TRUE]]
  /\ seqUser' = Highest
  /\ chain' = <<>>
  /\ req' = [r \in Req |-> Idle]
  /\ toks' = <<>>
  /\ UNCHANGED rows

AccNext ==
  \/ \E t \in 1 .. MaxTok : Refresh(t) \/ Logout(t) \/ TokenExpires(t)
  \/ \E r \in Req, e \in Email : Register(r, e)
  \/ \E r \in Req : \/ Stage(r) \/ Inserted(r) \/ InsertClashes(r) \/ Realign(r) \/ MirrorFails(r)
                    \/ StatusMirrored(r) \/ StatusFails(r)
                    \/ \E ok \in BOOLEAN : Welcome(r, ok) \/ Verified(r, ok)
  \/ \E r \in Req, o \in Id : Login(r, o) \/ \E to \in {"ACTIVE", "SUSPENDED"} : SetStatus(r, o, to)
  \/ \E i \in Id, e \in Email : Foreign(i, e)
  \/ Restart

-----------------------------------------------------------------------------
(* Outside a registration, every account in memory has its row, under the  *)
(* same id and with the same address, whoever took which id meanwhile; and *)
(* outside a status change the two agree on who is suspended, so that a    *)
(* restart reinstates no one (oracle.js: "a failed registration leaves no  *)
(* ghost identity").                                                       *)
UsersMirrored ==
  \A o \in Live \ Registering :
    LET i == users[o].id
    IN  /\ i \in Stored /\ rows[i].email = users[o].email
        /\ o \notin Changing => rows[i].status = users[o].status

(* A family has at most one token that still buys another, and it is the   *)
(* newest (middleware/auth.js: rotation with family revocation).           *)
OneLiveToken ==
  \A t, u \in DOMAIN toks : toks[t].fam = toks[u].fam /\ t < u =>
    toks[t].revoked /\ toks[t].gen < toks[u].gen
=============================================================================
