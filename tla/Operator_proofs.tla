-------------------------- MODULE Operator_proofs ---------------------------
(***************************************************************************)
(* Proofs about what the operator of the network manages.  Users and their *)
(* status (Accounts), the administrator's catalogue (Catalogue) and grid   *)
(* control (ControlMirror): what memory holds and Oracle mirrors, for any  *)
(* numbers of rows, requests and waiting mirrors.  Then the control plane  *)
(* of a site (SiteControl): its plans keep to the cap and serve the floors *)
(* it certified, and a cycle of certificates never promises more than      *)
(* there is, for any sessions, charge points, horizon, caps and tariffs.   *)
(***************************************************************************)
EXTENDS Accounts, Catalogue, ControlMirror, SiteControl, Sums,
        FiniteSetTheorems, WellFoundedInduction, TLAPS

-----------------------------------------------------------------------------
(* Finite sets of numbers have a highest member, which Max names.          *)
LEMMA HasHighest ==
  ASSUME NEW S, IsFiniteSet(S), S \subseteq Int, S # {}
  PROVE  \E x \in S : \A y \in S : x >= y
<1>t. PICK Topless : Topless = {X \in FiniteSubsetsOf(Int) : X # {} /\ ~\E x \in X : \A y \in X : x >= y}
  OBVIOUS
<1> SUFFICES ASSUME S \in Topless PROVE FALSE
  BY <1>t DEF FiniteSubsetsOf
<1>1. PICK X \in Topless : \A Y \in Topless : Y \subseteq X => Y = X
  <2>1. Topless \subseteq FiniteSubsetsOf(Int) /\ Topless # {}
    BY <1>t
  <2>2. Topless \in SUBSET FiniteSubsetsOf(Int)
    BY <2>1
  <2> QED BY <2>1, <2>2, SmallestSet
<1>2. X \subseteq Int /\ IsFiniteSet(X) /\ X # {} /\ ~\E x \in X : \A y \in X : x >= y
  BY <1>t, <1>1 DEF FiniteSubsetsOf
<1>3. PICK x \in X : TRUE
  BY <1>2
<1>4. IsFiniteSet(X \ {x})
  BY <1>2, FS_RemoveElement
<1>5. CASE X \ {x} = {}
  <2>1. X = {x} /\ x >= x
    BY <1>2, <1>3, <1>5
  <2> QED BY <1>2, <2>1
<1>6. CASE X \ {x} # {}
  <2>1. X \ {x} \in FiniteSubsetsOf(Int) /\ X \ {x} \subseteq X /\ X \ {x} # X
    BY <1>2, <1>3, <1>4 DEF FiniteSubsetsOf
  <2>2. X \ {x} \notin Topless
    BY <1>1, <2>1
  <2>3. PICK z \in X \ {x} : \A y \in X \ {x} : z >= y
    BY <1>t, <1>6, <2>1, <2>2
  <2>4. z \in Int /\ x \in Int
    BY <1>2, <1>3, <2>3
  <2>5. (\A y \in X : z >= y) \/ (\A y \in X : x >= y)
    BY <1>2, <2>3, <2>4
  <2> QED BY <1>2, <1>3, <2>3, <2>5
<1> QED BY <1>5, <1>6

LEMMA MaxIs ==
  ASSUME NEW S, NEW a \in Int, NEW b \in Int, S \subseteq a..b, S # {}
  PROVE  Max(S) \in S /\ \A y \in S : y <= Max(S)
<1>1. S \subseteq Int /\ IsFiniteSet(S)
  <2>1. IsFiniteSet(a..b)
    BY FS_Interval
  <2>2. S \in SUBSET (a..b)
    OBVIOUS
  <2>3. IsFiniteSet(S)
    BY <2>1, <2>2, FS_Subset
  <2> QED BY <2>3
<1>2. \E x \in S : \A y \in S : x >= y
  BY <1>1, HasHighest
<1>3. Max(S) \in S /\ \A y \in S : Max(S) >= y
  BY <1>2 DEF Max
<1> QED BY <1>1, <1>3

-----------------------------------------------------------------------------
(* Users and their status (Accounts).                                      *)
AccSpec == AccInit /\ [][AccNext]_accVars

AccountRow == [email : Email, status : {"ACTIVE", "SUSPENDED"}]
UserObj == [id : Id, email : Email, status : {"ACTIVE", "SUSPENDED"}, live : BOOLEAN]
Request ==
  {Idle} \cup [step : {"hash"}, email : Email, obj : Id]
  \cup [step : {"insert", "realign", "retry", "welcome", "verify"}, obj : Id]
  \cup [step : {"status"}, obj : Id, to : {"ACTIVE", "SUSPENDED"}, prev : {"ACTIVE", "SUSPENDED"}]

AccTypes ==
  /\ users \in [Id -> UserObj \cup {NoUser}] /\ seqUser \in Nat
  /\ rows \in [Id -> AccountRow \cup {NoRow}]
  /\ req \in [Req -> Request]

(* Objects are named in the order of the counter; one that waits for its   *)
(* password is not there yet.                                              *)
Staging(r) == req[r].step \in {"insert", "realign", "retry"}
Making(r) == Staging(r) \/ AtStep(r, "hash")

Named ==
  /\ \A o \in Id : users[o] # NoUser => o <= seqUser
  /\ \A r \in Req : Making(r) => req[r].obj <= seqUser
  /\ \A r \in Req : AtStep(r, "hash") => users[req[r].obj] = NoUser
  /\ \A r, q \in Req : Making(r) /\ Making(q) /\ req[r].obj = req[q].obj => r = q

(* The accounts that were answered have rows of their own.                 *)
Settled == Live \ Registering
OwnRows == \A o, p \in Settled : users[o].id = users[p].id => o = p

(* A status on its way is in memory; what it replaces is in Oracle.        *)
StatusOK ==
  /\ \A r \in Req : Staging(r) => users[req[r].obj] # NoUser /\ users[req[r].obj].status = "ACTIVE"
  /\ \A r, q \in Req : AtStep(r, "status") /\ AtStep(q, "status") /\ req[r].obj = req[q].obj => r = q
  /\ \A r \in Req : AtStep(r, "status") =>
       LET o == req[r].obj
       IN  /\ o \in Settled /\ users[o].status = req[r].to
           /\ rows[users[o].id].status = req[r].prev

AccInv == AccTypes /\ Named /\ OwnRows /\ StatusOK /\ UsersMirrored

-----------------------------------------------------------------------------
LEMMA RequestIs ==
  ASSUME NEW r \in Req, req[r] \in Request
  PROVE  /\ Making(r) => req[r].obj \in Id
         /\ AtStep(r, "status") => req[r].obj \in Id /\ req[r].to \in {"ACTIVE", "SUSPENDED"}
                                   /\ req[r].prev \in {"ACTIVE", "SUSPENDED"}
         /\ AtStep(r, "hash") => req[r].email \in Email
BY DEF Request, Idle, Making, Staging, AtStep

(* Steps of requests that stage nothing and change no status.              *)
Waits(x) == x.step \in {"idle", "welcome", "verify"}

LEMMA QuietKeeps ==
  ASSUME AccInv, UNCHANGED <<users, seqUser, rows>>,
         NEW r \in Req, NEW x \in Request, Waits(req[r]), Waits(x), req' = [req EXCEPT ![r] = x]
  PROVE  AccInv'
<1>1. \A q \in Req : q # r => req'[q] = req[q]
  BY DEF AccInv, AccTypes
<1>2. req'[r] = x
  BY DEF AccInv, AccTypes
<1>3. AccTypes'
  BY DEF AccInv, AccTypes
<1>4. Registering' = Registering /\ Changing' = Changing
  BY <1>1, <1>2 DEF Registering, Changing, AtStep, Waits
<1>5. Live' = Live /\ Stored' = Stored
  BY DEF Live, Stored
<1>6. Named'
  BY <1>1, <1>2 DEF AccInv, Named, Making, Staging, AtStep, Waits
<1>7. Settled' = Settled
  BY <1>4, <1>5 DEF Settled
<1>8. OwnRows'
  BY <1>7 DEF AccInv, OwnRows
<1>9. StatusOK'
  BY <1>1, <1>2, <1>7 DEF AccInv, StatusOK, Staging, AtStep, Waits
<1>10. UsersMirrored'
  BY <1>4, <1>5 DEF AccInv, UsersMirrored
<1> QED BY <1>3, <1>6, <1>8, <1>9, <1>10 DEF AccInv

LEMMA RegisterKeeps ==
  ASSUME AccInv, NEW r \in Req, NEW e \in Email, Register(r, e)
  PROVE  AccInv'
<1> DEFINE o == seqUser + 1
           x == [step |-> "hash", email |-> e, obj |-> o]
<1>1. o \in Id /\ seqUser \in Nat /\ seqUser' = o
  <2>1. seqUser \in Nat /\ seqUser < MaxReg
    BY DEF AccInv, AccTypes, Register
  <2> QED BY <2>1, AccountsAssumption DEF Id, Register
<1>2. \A q \in Req : q # r => req'[q] = req[q]
  BY DEF AccInv, AccTypes, Register
<1>3. req'[r] = x /\ x \in Request /\ req[r].step = "idle"
  BY <1>1 DEF AccInv, AccTypes, Register, AtStep, Request
<1>4. AccTypes'
  BY <1>1, <1>3 DEF AccInv, AccTypes, Register
<1>5. Registering' = Registering /\ Changing' = Changing
  BY <1>2, <1>3 DEF Registering, Changing, AtStep
<1>6. Live' = Live /\ Stored' = Stored
  BY DEF Live, Stored, Register
<1>7. Settled' = Settled
  BY <1>5, <1>6 DEF Settled
<1>8. users[o] = NoUser
  BY <1>1 DEF AccInv, Named
<1>9. \A q \in Req : Making(q) => req[q].obj \in Nat /\ req[q].obj <= seqUser
  BY RequestIs DEF AccInv, AccTypes, Named, Id
<1>10. Named'
  <2>1. \A p \in Id : users'[p] # NoUser => p <= seqUser'
    BY <1>1 DEF AccInv, Named, Register, Id
  <2>2. \A q \in Req : Making(q)' => req'[q].obj <= seqUser'
    BY <1>1, <1>2, <1>3, <1>9 DEF Making, Staging, AtStep
  <2>3. \A q \in Req : AtStep(q, "hash")' => users'[req'[q].obj] = NoUser
    BY <1>2, <1>3, <1>8 DEF AccInv, Named, Register, AtStep
  <2>4. \A p, q \in Req : Making(p)' /\ Making(q)' /\ req'[p].obj = req'[q].obj => p = q
    <3>1. \A q \in Req : q # r /\ Making(q)' => Making(q) /\ req'[q].obj # o
      BY <1>1, <1>2, <1>9 DEF Making, Staging, AtStep
    <3> QED BY <1>2, <1>3, <3>1 DEF AccInv, Named
  <2> QED BY <2>1, <2>2, <2>3, <2>4 DEF Named
<1>11. OwnRows'
  BY <1>7 DEF AccInv, OwnRows, Register
<1>12. StatusOK'
  BY <1>2, <1>3, <1>7 DEF AccInv, StatusOK, Staging, AtStep, Register
<1>13. UsersMirrored'
  BY <1>5, <1>6 DEF AccInv, UsersMirrored, Register
<1> QED BY <1>4, <1>10, <1>11, <1>12, <1>13 DEF AccInv

(* An account is staged under a name nobody has used.                      *)
LEMMA StageKeeps ==
  ASSUME AccInv, NEW r \in Req, Stage(r)
  PROVE  AccInv'
<1>1. PICK o : o = req[r].obj
  OBVIOUS
<1>2. AtStep(r, "hash") /\ Making(r)
  BY DEF Stage, Making
<1>3. req[r] \in Request
  BY DEF AccInv, AccTypes
<1>4. o \in Id /\ req[r].email \in Email /\ o <= seqUser /\ users[o] = NoUser
  BY <1>1, <1>2, <1>3, RequestIs DEF AccInv, Named
<1>5. PICK u : u = [id |-> o, email |-> req[r].email, status |-> "ACTIVE", live |-> TRUE]
  OBVIOUS
<1>6. u \in UserObj /\ u # NoUser /\ u.live
  BY <1>4, <1>5 DEF UserObj, NoUser
<1>7. users' = [users EXCEPT ![o] = u] /\ req' = [req EXCEPT ![r] = [step |-> "insert", obj |-> o]]
  BY <1>1, <1>5 DEF Stage
<1>8. UNCHANGED <<seqUser, rows>>
  BY DEF Stage
<1>9. \A q \in Req : q # r => req'[q] = req[q]
  BY <1>7 DEF AccInv, AccTypes
<1>10. req'[r] = [step |-> "insert", obj |-> o]
  BY <1>7 DEF AccInv, AccTypes
<1>11. users'[o] = u /\ \A p \in Id : p # o => users'[p] = users[p]
  BY <1>4, <1>7 DEF AccInv, AccTypes
<1>12. AccTypes'
  BY <1>4, <1>6, <1>7, <1>8 DEF AccInv, AccTypes, Request
<1>13. Registering' = Registering \cup {o} /\ Changing' = Changing
  <2>1. Changing' = Changing
    BY <1>2, <1>9, <1>10 DEF Changing, AtStep
  <2>2. \A q \in Req : req'[q].step \in {"insert", "realign", "retry"} <=> q = r \/ req[q].step \in {"insert", "realign", "retry"}
    BY <1>9, <1>10
  <2>3. req[r].step = "hash"
    BY <1>2 DEF AtStep
  <2> QED BY <1>9, <1>10, <2>1, <2>2, <2>3 DEF Registering
<1>14. Settled' = Settled
  BY <1>4, <1>11, <1>13 DEF Settled, Live, NoUser
<1>15. o \notin Settled /\ Settled \subseteq Id
  BY <1>4 DEF Settled, Live, NoUser
<1>16. Named'
  <2>1. \A p \in Id : users'[p] # NoUser => p <= seqUser'
    BY <1>4, <1>8, <1>11 DEF AccInv, Named
  <2>2. \A q \in Req : Making(q)' => Making(q) /\ req'[q].obj = req[q].obj
    BY <1>1, <1>2, <1>9, <1>10 DEF Making, Staging, AtStep
  <2>3. \A q \in Req : Making(q)' => req'[q].obj <= seqUser'
    BY <1>8, <2>2 DEF AccInv, Named
  <2>4. \A p, q \in Req : Making(p)' /\ Making(q)' /\ req'[p].obj = req'[q].obj => p = q
    BY <2>2 DEF AccInv, Named
  <2>5. \A q \in Req : AtStep(q, "hash")' => users'[req'[q].obj] = NoUser
    <3> SUFFICES ASSUME NEW q \in Req, AtStep(q, "hash")' PROVE users'[req'[q].obj] = NoUser
      OBVIOUS
    <3>1. q # r /\ AtStep(q, "hash") /\ req'[q] = req[q]
      BY <1>9, <1>10 DEF AtStep
    <3>2. Making(q) /\ req[q].obj # o
      BY <1>1, <1>2, <3>1 DEF AccInv, Named, Making
    <3>3. req[q] \in Request
      BY DEF AccInv, AccTypes
    <3>4. req[q].obj \in Id
      BY <3>2, <3>3, RequestIs
    <3> QED BY <1>11, <3>1, <3>2, <3>4 DEF AccInv, Named
  <2> QED BY <2>1, <2>3, <2>4, <2>5 DEF Named
<1>17. OwnRows'
  BY <1>11, <1>14, <1>15 DEF AccInv, OwnRows
<1>18. StatusOK'
  <2>1. \A q \in Req : Staging(q)' => users'[req'[q].obj] # NoUser /\ users'[req'[q].obj].status = "ACTIVE"
    <3> SUFFICES ASSUME NEW q \in Req, Staging(q)'
                 PROVE  users'[req'[q].obj] # NoUser /\ users'[req'[q].obj].status = "ACTIVE"
      OBVIOUS
    <3>1. CASE q = r
      BY <1>5, <1>6, <1>10, <1>11, <3>1
    <3>2. CASE q # r
      <4>1. Staging(q) /\ req'[q] = req[q] /\ Making(q)
        BY <1>9, <3>2 DEF Staging, Making
      <4>2. req[q] \in Request /\ req[q].obj # o
        BY <1>1, <1>2, <3>2, <4>1 DEF AccInv, AccTypes, Named
      <4>3. req[q].obj \in Id
        BY <4>1, <4>2, RequestIs
      <4> QED BY <1>11, <4>1, <4>2, <4>3 DEF AccInv, StatusOK
    <3> QED BY <3>1, <3>2
  <2>2. \A q \in Req : AtStep(q, "status")' => AtStep(q, "status") /\ req'[q] = req[q]
    BY <1>9, <1>10 DEF AtStep
  <2> QED BY <1>8, <1>11, <1>14, <1>15, <2>1, <2>2 DEF AccInv, StatusOK
<1>19. UsersMirrored'
  <2>1. \A p \in Settled : users'[p] = users[p]
    BY <1>11, <1>15
  <2>2. Stored' = Stored /\ Live' \ Registering' = Live \ Registering
    BY <1>8, <1>14 DEF Stored, Settled
  <2> QED BY <1>8, <1>13, <2>1, <2>2 DEF AccInv, UsersMirrored, Settled
<1> QED BY <1>12, <1>16, <1>17, <1>18, <1>19 DEF AccInv

(* A request goes on staging, whatever identity its account gets.          *)
LEMMA RestageKeeps ==
  ASSUME AccInv, NEW r \in Req, Staging(r), NEW u \in UserObj, u.status = users[req[r].obj].status,
         users' = [users EXCEPT ![req[r].obj] = u], seqUser' \in Nat, seqUser <= seqUser', rows' = rows,
         NEW to \in {"realign", "retry"}, req' = [req EXCEPT ![r] = [step |-> to, obj |-> req[r].obj]]
  PROVE  AccInv'
<1>1. PICK o : o = req[r].obj
  OBVIOUS
<1>2. Making(r) /\ req[r] \in Request
  BY DEF Making, AccInv, AccTypes
<1>3. o \in Id /\ o <= seqUser /\ users[o] # NoUser /\ users[o].status = "ACTIVE" /\ seqUser \in Nat
  BY <1>1, <1>2, RequestIs DEF AccInv, AccTypes, Named, StatusOK
<1>4. u # NoUser
  BY <1>1, <1>3 DEF UserObj, NoUser
<1>5. \A q \in Req : q # r => req'[q] = req[q]
  BY DEF AccInv, AccTypes
<1>6. req'[r] = [step |-> to, obj |-> o]
  BY <1>1 DEF AccInv, AccTypes
<1>7. users'[o] = u /\ \A p \in Id : p # o => users'[p] = users[p]
  BY <1>1, <1>3 DEF AccInv, AccTypes
<1>8. AccTypes'
  BY <1>1, <1>3, <1>6 DEF AccInv, AccTypes, Request
<1>9. Registering' = Registering /\ Changing' = Changing
  <2>1. Changing' = Changing
    BY <1>5, <1>6 DEF Changing, AtStep, Staging
  <2>2. \A q \in Req : /\ req'[q].step \in {"insert", "realign", "retry"} <=> req[q].step \in {"insert", "realign", "retry"}
                       /\ req'[q].obj = req[q].obj
    BY <1>1, <1>5, <1>6 DEF Staging
  <2> QED BY <2>1, <2>2 DEF Registering
<1>10. o \in Registering
  BY <1>1 DEF Registering, Staging
<1>11. Settled' = Settled /\ o \notin Settled /\ Settled \subseteq Id
  BY <1>7, <1>9, <1>10 DEF Settled, Live
<1>12. Named'
  <2>1. \A q \in Req : /\ Making(q)' => Making(q)
                       /\ AtStep(q, "hash")' => AtStep(q, "hash") /\ q # r
                       /\ req'[q].obj = req[q].obj
    BY <1>1, <1>2, <1>5, <1>6 DEF Making, Staging, AtStep
  <2>2. \A q \in Req : Making(q) => req[q].obj \in Id /\ (q # r => req[q].obj # o)
    BY <1>1, <1>2, RequestIs DEF AccInv, AccTypes, Named
  <2>3. \A p \in Id : users'[p] # NoUser => p <= seqUser'
    BY <1>3, <1>7 DEF AccInv, Named, Id
  <2>4. \A q \in Req : Making(q)' => req'[q].obj <= seqUser'
    BY <1>3, <2>1, <2>2 DEF AccInv, Named, Id
  <2>5. \A q \in Req : AtStep(q, "hash")' => users'[req'[q].obj] = NoUser
    BY <1>7, <2>1, <2>2 DEF AccInv, Named, Making
  <2>6. \A p, q \in Req : Making(p)' /\ Making(q)' /\ req'[p].obj = req'[q].obj => p = q
    BY <2>1 DEF AccInv, Named
  <2> QED BY <2>3, <2>4, <2>5, <2>6 DEF Named
<1>13. OwnRows'
  BY <1>7, <1>11 DEF AccInv, OwnRows
<1>14. StatusOK'
  <2>1. \A q \in Req : /\ Staging(q)' => Staging(q) /\ Making(q)
                       /\ AtStep(q, "status")' => AtStep(q, "status") /\ req'[q] = req[q]
                       /\ req'[q].obj = req[q].obj
    BY <1>1, <1>5, <1>6 DEF Making, Staging, AtStep
  <2>2. \A q \in Req : Making(q) => req[q].obj \in Id
    BY RequestIs DEF AccInv, AccTypes
  <2>3. \A q \in Req : Staging(q)' => users'[req'[q].obj] # NoUser /\ users'[req'[q].obj].status = "ACTIVE"
    BY <1>1, <1>3, <1>4, <1>7, <2>1, <2>2 DEF AccInv, StatusOK
  <2>4. \A p \in Settled : users'[p] = users[p]
    BY <1>7, <1>11
  <2> QED BY <1>11, <2>1, <2>3, <2>4 DEF AccInv, StatusOK
<1>15. UsersMirrored'
  <2>1. \A p \in Settled : users'[p] = users[p]
    BY <1>7, <1>11
  <2>2. Stored' = Stored /\ Live' \ Registering' = Live \ Registering
    BY <1>11 DEF Stored, Settled
  <2> QED BY <1>9, <2>1, <2>2 DEF AccInv, UsersMirrored, Settled
<1> QED BY <1>8, <1>12, <1>13, <1>14, <1>15 DEF AccInv

(* A registration that failed takes its account along.                     *)
LEMMA UndoneKeeps ==
  ASSUME AccInv, NEW r \in Req, Staging(r), users' = Undone(req[r].obj),
         seqUser' \in Nat, seqUser <= seqUser', rows' = rows, req' = [req EXCEPT ![r] = Idle]
  PROVE  AccInv'
<1>1. PICK o : o = req[r].obj
  OBVIOUS
<1>2. Making(r) /\ req[r] \in Request
  BY DEF Making, AccInv, AccTypes
<1>3. o \in Id /\ o <= seqUser /\ users[o] # NoUser /\ seqUser \in Nat
  BY <1>1, <1>2, RequestIs DEF AccInv, AccTypes, Named, StatusOK
<1>4. PICK u : u = [users[o] EXCEPT !.live = FALSE]
  OBVIOUS
<1>5. u \in UserObj /\ ~u.live
  BY <1>3, <1>4 DEF AccInv, AccTypes, UserObj
<1>6. \A q \in Req : q # r => req'[q] = req[q]
  BY DEF AccInv, AccTypes
<1>7. req'[r] = Idle
  BY DEF AccInv, AccTypes
<1>8. users'[o] = u /\ \A p \in Id : p # o => users'[p] = users[p]
  BY <1>1, <1>3, <1>4 DEF AccInv, AccTypes, Undone
<1>9. AccTypes'
  <2>1. users' = [users EXCEPT ![o] = u]
    BY <1>1, <1>4 DEF Undone
  <2> QED BY <1>3, <1>5, <2>1 DEF AccInv, AccTypes, Request
<1>10. Registering' = Registering \ {o} /\ Changing' = Changing
  <2>1. Changing' = Changing
    BY <1>6, <1>7 DEF Changing, AtStep, Staging, Idle
  <2>2. \A q \in Req : Staging(q)' <=> Staging(q) /\ q # r
    BY <1>6, <1>7 DEF Staging, Idle
  <2>3. \A q \in Req : Staging(q) /\ q # r => req[q].obj # o
    BY <1>1, <1>2 DEF AccInv, Named, Making
  <2>4. Registering = {req[q].obj : q \in {p \in Req : Staging(p)}} /\ Registering' = {req'[q].obj : q \in {p \in Req : Staging(p)'}}
    BY DEF Registering, Staging
  <2>5. Registering' = {req[q].obj : q \in {p \in Req : Staging(p) /\ p # r}}
    BY <1>6, <2>2, <2>4
  <2> QED BY <1>1, <2>1, <2>3, <2>4, <2>5
<1>11. o \in Registering
  BY <1>1 DEF Registering, Staging
<1>12. Settled' = Settled /\ o \notin Settled /\ Settled \subseteq Id
  BY <1>5, <1>8, <1>10, <1>11 DEF Settled, Live
<1>13. \A q \in Req : /\ Making(q)' => Making(q) /\ q # r /\ req'[q] = req[q]
                      /\ Staging(q)' => Staging(q) /\ q # r /\ req'[q] = req[q]
                      /\ AtStep(q, "hash")' => AtStep(q, "hash") /\ q # r /\ req'[q] = req[q]
                      /\ AtStep(q, "status")' => AtStep(q, "status") /\ q # r /\ req'[q] = req[q]
  BY <1>6, <1>7 DEF Making, Staging, AtStep, Idle
<1>14. \A q \in Req : Making(q) => req[q].obj \in Id /\ (q # r => req[q].obj # o)
  BY <1>1, <1>2, RequestIs DEF AccInv, AccTypes, Named
<1>15. Named'
  <2>1. \A p \in Id : users'[p] # NoUser => p <= seqUser'
    BY <1>3, <1>8 DEF AccInv, Named, Id
  <2>2. \A q \in Req : Making(q)' => req'[q].obj <= seqUser'
    BY <1>3, <1>13, <1>14 DEF AccInv, Named, Id
  <2>3. \A q \in Req : AtStep(q, "hash")' => users'[req'[q].obj] = NoUser
    BY <1>8, <1>13, <1>14 DEF AccInv, Named, Making
  <2>4. \A p, q \in Req : Making(p)' /\ Making(q)' /\ req'[p].obj = req'[q].obj => p = q
    BY <1>13 DEF AccInv, Named
  <2> QED BY <2>1, <2>2, <2>3, <2>4 DEF Named
<1>16. \A p \in Settled : users'[p] = users[p]
  BY <1>8, <1>12
<1>17. OwnRows'
  BY <1>12, <1>16 DEF AccInv, OwnRows
<1>18. StatusOK'
  <2>1. \A q \in Req : Staging(q)' => users'[req'[q].obj] # NoUser /\ users'[req'[q].obj].status = "ACTIVE"
    BY <1>8, <1>13, <1>14 DEF AccInv, StatusOK, Making
  <2> QED BY <1>12, <1>13, <1>16, <2>1 DEF AccInv, StatusOK
<1>19. UsersMirrored'
  <2>1. Stored' = Stored /\ Live' \ Registering' = Live \ Registering
    BY <1>12 DEF Stored, Settled
  <2> QED BY <1>10, <1>16, <2>1 DEF AccInv, UsersMirrored, Settled
<1> QED BY <1>9, <1>15, <1>17, <1>18, <1>19 DEF AccInv

(* The row is in: the account has one nobody else has.                     *)
LEMMA InsertedKeeps ==
  ASSUME AccInv, NEW r \in Req, Inserted(r)
  PROVE  AccInv'
<1>1. PICK o : o = req[r].obj
  OBVIOUS
<1>2. Staging(r) /\ Making(r) /\ req[r] \in Request
  BY DEF Inserted, Staging, Making, AccInv, AccTypes
<1>3. o \in Id /\ users[o] # NoUser /\ users[o] \in UserObj /\ users[o].status = "ACTIVE"
  BY <1>1, <1>2, RequestIs DEF AccInv, AccTypes, Named, StatusOK
<1>4. PICK i : i = users[o].id
  OBVIOUS
<1>5. PICK row : row = [email |-> users[o].email, status |-> "ACTIVE"]
  OBVIOUS
<1>6. i \in Id /\ i \notin Stored /\ row \in AccountRow /\ row # NoRow
  BY <1>1, <1>3, <1>4, <1>5 DEF Inserted, Clashes, Stored, UserObj, AccountRow, NoRow
<1>7. rows' = [rows EXCEPT ![i] = row] /\ UNCHANGED <<users, seqUser>>
  BY <1>1, <1>4, <1>5 DEF Inserted
<1>8. rows'[i] = row /\ \A j \in Id : j # i => rows'[j] = rows[j]
  BY <1>6, <1>7 DEF AccInv, AccTypes
<1>9. Stored' = Stored \cup {i}
  BY <1>6, <1>8 DEF Stored
<1>10. \A q \in Req : q # r => req'[q] = req[q]
  BY DEF Inserted, AccInv, AccTypes
<1>11. req'[r] = [step |-> "welcome", obj |-> o]
  BY <1>1 DEF Inserted, AccInv, AccTypes
<1>12. AccTypes'
  <2>1. req' \in [Req -> Request]
    BY <1>1, <1>3 DEF Inserted, AccInv, AccTypes, Request
  <2> QED BY <1>6, <1>7, <2>1 DEF AccInv, AccTypes
<1>13. Registering' = Registering \ {o} /\ Changing' = Changing
  <2>1. Changing' = Changing
    BY <1>2, <1>10, <1>11 DEF Changing, AtStep, Staging
  <2>2. \A q \in Req : Staging(q)' <=> Staging(q) /\ q # r
    BY <1>10, <1>11 DEF Staging
  <2>3. \A q \in Req : Staging(q) /\ q # r => req[q].obj # o
    BY <1>1, <1>2 DEF AccInv, Named, Making
  <2>4. Registering = {req[q].obj : q \in {p \in Req : Staging(p)}} /\ Registering' = {req'[q].obj : q \in {p \in Req : Staging(p)'}}
    BY DEF Registering, Staging
  <2>5. Registering' = {req[q].obj : q \in {p \in Req : Staging(p) /\ p # r}}
    BY <1>10, <2>2, <2>4
  <2> QED BY <1>1, <2>1, <2>3, <2>4, <2>5
<1>14. Settled' \subseteq Settled \cup {o} /\ Settled \subseteq Settled' /\ Settled \subseteq Id
  BY <1>7, <1>13 DEF Settled, Live
<1>15. \A q \in Req : /\ Making(q)' => Making(q) /\ req'[q] = req[q]
                      /\ Staging(q)' => Staging(q) /\ req'[q] = req[q]
                      /\ AtStep(q, "hash")' => AtStep(q, "hash") /\ req'[q] = req[q]
                      /\ AtStep(q, "status")' => AtStep(q, "status") /\ req'[q] = req[q]
  BY <1>10, <1>11 DEF Making, Staging, AtStep
<1>16. Named'
  BY <1>7, <1>15 DEF AccInv, Named
<1>17. \A p \in Settled : users[p].id \in Stored /\ users[p].id # i /\ rows'[users[p].id] = rows[users[p].id]
  <2>1. \A p \in Settled : users[p].id \in Stored
    BY DEF AccInv, UsersMirrored, Settled
  <2>2. Stored \subseteq Id
    BY DEF Stored
  <2> QED BY <1>6, <1>8, <2>1, <2>2
<1>18. OwnRows'
  BY <1>4, <1>7, <1>14, <1>17 DEF AccInv, OwnRows
<1>19. StatusOK'
  BY <1>7, <1>14, <1>15, <1>17 DEF AccInv, StatusOK
<1>20. UsersMirrored'
  <2> SUFFICES ASSUME NEW p \in Settled'
               PROVE  /\ users[p].id \in Stored' /\ rows'[users[p].id].email = users[p].email
                      /\ (p \notin Changing => rows'[users[p].id].status = users[p].status)
    BY <1>7, <1>13 DEF UsersMirrored, Settled
  <2>1. CASE p = o
    BY <1>3, <1>4, <1>5, <1>8, <1>9, <2>1
  <2>2. CASE p # o
    <3>1. p \in Settled
      BY <1>14, <2>2
    <3>2. rows[users[p].id].email = users[p].email /\ (p \notin Changing => rows[users[p].id].status = users[p].status)
      BY <3>1 DEF AccInv, UsersMirrored, Settled
    <3> QED BY <1>9, <1>17, <3>1, <3>2
  <2> QED BY <2>1, <2>2
<1> QED BY <1>12, <1>16, <1>18, <1>19, <1>20 DEF AccInv

LEMMA ClashKeeps ==
  ASSUME AccInv, NEW r \in Req, InsertClashes(r)
  PROVE  AccInv'
<1>1. Staging(r) /\ Making(r) /\ req[r] \in Request
  BY DEF InsertClashes, Staging, Making, AccInv, AccTypes
<1>2. req[r].obj \in Id /\ users \in [Id -> UserObj \cup {NoUser}] /\ users[req[r].obj] # NoUser /\ seqUser \in Nat
  BY <1>1, RequestIs DEF AccInv, AccTypes, Named, StatusOK
<1>3. CASE AtStep(r, "insert")
  <2>1. PICK u \in UserObj : u = users[req[r].obj]
    BY <1>2
  <2>2. users' = [users EXCEPT ![req[r].obj] = u]
    BY <1>2, <1>3, <2>1 DEF InsertClashes
  <2>3. req[r] = [step |-> "insert", obj |-> req[r].obj]
    BY <1>1, <1>3 DEF AtStep, Request, Idle
  <2>4. req' = [req EXCEPT ![r] = [step |-> "realign", obj |-> req[r].obj]]
    <3>1. [req[r] EXCEPT !.step = "realign"] = [step |-> "realign", obj |-> req[r].obj]
      BY <2>3
    <3> QED BY <1>3, <3>1 DEF InsertClashes
  <2>5. UNCHANGED <<seqUser, rows>> /\ "realign" \in {"realign", "retry"} /\ seqUser' \in Nat /\ seqUser <= seqUser'
    BY <1>2 DEF InsertClashes
  <2> QED BY <1>1, <2>1, <2>2, <2>4, <2>5, RestageKeeps
<1>4. CASE ~AtStep(r, "insert")
  BY <1>1, <1>2, <1>4, UndoneKeeps DEF InsertClashes
<1> QED BY <1>3, <1>4

LEMMA StoredIs ==
  ASSUME AccInv
  PROVE  /\ Highest \in Nat /\ \A i \in Stored : i <= Highest
         /\ Max({seqUser, Highest}) \in Nat /\ seqUser <= Max({seqUser, Highest})
<1>1. Stored \subseteq 1 .. 2 * MaxReg /\ 2 * MaxReg \in Int /\ 1 \in Int
  BY AccountsAssumption DEF Stored, Id
<1>2. Stored # {} => Max(Stored) \in Stored /\ \A i \in Stored : i <= Max(Stored)
  BY <1>1, MaxIs
<1>3. Highest \in Nat /\ \A i \in Stored : i <= Highest
  <2>1. CASE Stored = {}
    BY <2>1 DEF Highest
  <2>2. CASE Stored # {}
    <3>1. Highest = Max(Stored)
      BY <2>2 DEF Highest
    <3>2. Highest \in 1 .. 2 * MaxReg /\ \A i \in Stored : i <= Highest
      BY <1>1, <1>2, <2>2, <3>1
    <3> QED BY <1>1, <3>2
  <2> QED BY <2>1, <2>2
<1>4. seqUser \in Nat
  BY DEF AccInv, AccTypes
<1>5. \E m \in {seqUser, Highest} : \A n \in {seqUser, Highest} : m >= n
  BY <1>3, <1>4
<1>6. Max({seqUser, Highest}) \in {seqUser, Highest} /\ \A n \in {seqUser, Highest} : Max({seqUser, Highest}) >= n
  BY <1>5 DEF Max
<1> QED BY <1>3, <1>4, <1>6

LEMMA RealignKeeps ==
  ASSUME AccInv, NEW r \in Req, Realign(r)
  PROVE  AccInv'
<1>1. Staging(r) /\ Making(r) /\ req[r] \in Request
  BY DEF Realign, AtStep, Staging, Making, AccInv, AccTypes
<1>2. req[r].obj \in Id /\ users \in [Id -> UserObj \cup {NoUser}] /\ users[req[r].obj] # NoUser /\ seqUser \in Nat
  BY <1>1, RequestIs DEF AccInv, AccTypes, Named, StatusOK
<1>3. PICK floor : floor = Max({seqUser, Highest})
  OBVIOUS
<1>4. floor \in Nat /\ seqUser <= floor
  BY <1>3, StoredIs
<1>5. CASE users[req[r].obj].id <= Highest
  <2>1. /\ floor + 1 \in Id /\ users' = [users EXCEPT ![req[r].obj].id = floor + 1]
        /\ seqUser' = floor + 1 /\ req' = [req EXCEPT ![r].step = "retry"] /\ rows' = rows
    BY <1>3, <1>5 DEF Realign
  <2>2. PICK u : u = [users[req[r].obj] EXCEPT !.id = floor + 1]
    OBVIOUS
  <2>3. users[req[r].obj] \in UserObj
    BY <1>2
  <2>4. u \in UserObj /\ u.status = users[req[r].obj].status
    BY <2>1, <2>2, <2>3 DEF UserObj
  <2>5. users' = [users EXCEPT ![req[r].obj] = u]
    BY <2>1, <2>2
  <2>6. req[r] = [step |-> "realign", obj |-> req[r].obj]
    BY <1>1 DEF Realign, AtStep, Request, Idle
  <2>7. req' = [req EXCEPT ![r] = [step |-> "retry", obj |-> req[r].obj]]
    <3>1. [req[r] EXCEPT !.step = "retry"] = [step |-> "retry", obj |-> req[r].obj]
      BY <2>6
    <3> QED BY <2>1, <3>1
  <2>8. "retry" \in {"realign", "retry"} /\ seqUser' \in Nat /\ seqUser <= seqUser'
    BY <1>2, <1>4, <2>1
  <2> QED BY <1>1, <2>1, <2>4, <2>5, <2>7, <2>8, RestageKeeps
<1>6. CASE ~(users[req[r].obj].id <= Highest)
  BY <1>1, <1>3, <1>4, <1>6, UndoneKeeps DEF Realign
<1> QED BY <1>5, <1>6

LEMMA FailKeeps ==
  ASSUME AccInv, NEW r \in Req, MirrorFails(r)
  PROVE  AccInv'
<1>1. Staging(r)
  BY DEF MirrorFails, Staging, AtStep
<1>2. seqUser \in Nat
  BY DEF AccInv, AccTypes
<1>3. users' = Undone(req[r].obj) /\ seqUser' \in Nat /\ seqUser <= seqUser' /\ rows' = rows
      /\ req' = [req EXCEPT ![r] = Idle]
  BY <1>2 DEF MirrorFails
<1> QED BY <1>1, <1>3, UndoneKeeps

(* -------------------------------- status ------------------------------- *)
LEMMA SetStatusKeeps ==
  ASSUME AccInv, NEW r \in Req, NEW o \in Id, NEW to \in {"ACTIVE", "SUSPENDED"}, SetStatus(r, o, to)
  PROVE  AccInv'
<1>1. o \in Settled /\ o \notin Changing /\ req[r].step = "idle"
  BY DEF SetStatus, Settled, AtStep
<1>2. users[o] \in UserObj /\ users[o].live
  BY <1>1 DEF Settled, Live, AccInv, AccTypes, NoUser
<1>3. PICK u : u = [users[o] EXCEPT !.status = to]
  OBVIOUS
<1>4. u \in UserObj /\ u.live /\ u.id = users[o].id /\ u.email = users[o].email /\ u.status = to /\ u # NoUser
  BY <1>2, <1>3 DEF UserObj, NoUser
<1>5. users' = [users EXCEPT ![o] = u] /\ UNCHANGED <<seqUser, rows>>
  BY <1>3 DEF SetStatus
<1>6. users'[o] = u /\ \A p \in Id : p # o => users'[p] = users[p]
  BY <1>5 DEF AccInv, AccTypes
<1>7. PICK x : x = [step |-> "status", obj |-> o, to |-> to, prev |-> users[o].status]
  OBVIOUS
<1>8. x \in Request /\ req' = [req EXCEPT ![r] = x]
  BY <1>2, <1>7 DEF SetStatus, Request, UserObj
<1>9. req'[r] = x /\ \A q \in Req : q # r => req'[q] = req[q]
  BY <1>8 DEF AccInv, AccTypes
<1>10. AccTypes'
  BY <1>4, <1>5, <1>8 DEF AccInv, AccTypes
<1>11. Registering' = Registering
  BY <1>1, <1>7, <1>9 DEF Registering
<1>12. Changing' = Changing \cup {o}
  <2>1. \A q \in Req : AtStep(q, "status")' <=> q = r \/ AtStep(q, "status")
    BY <1>7, <1>9 DEF AtStep
  <2>2. Changing' = {req'[q].obj : q \in {p \in Req : AtStep(p, "status")'}} /\ req'[r].obj = o
    BY <1>7, <1>9 DEF Changing
  <2> QED BY <1>1, <1>9, <2>1, <2>2 DEF Changing, AtStep
<1>13. Settled' = Settled /\ Settled \subseteq Id
  BY <1>2, <1>4, <1>6, <1>11 DEF Settled, Live
<1>14. \A q \in Req : /\ Making(q)' => Making(q) /\ req'[q] = req[q]
                      /\ Staging(q)' => Staging(q) /\ req'[q] = req[q]
                      /\ AtStep(q, "hash")' => AtStep(q, "hash") /\ req'[q] = req[q]
                      /\ AtStep(q, "status")' => q = r \/ (AtStep(q, "status") /\ req'[q] = req[q])
  BY <1>7, <1>9 DEF Making, Staging, AtStep
<1>15. \A q \in Req : Staging(q) => req[q].obj \in Id /\ req[q].obj # o
  <2>1. \A q \in Req : Staging(q) => req[q].obj \in Registering
    BY DEF Registering, Staging
  <2>2. o \notin Registering
    BY <1>1 DEF Settled
  <2> QED BY <2>1, <2>2, RequestIs DEF AccInv, AccTypes, Making
<1>16. \A q \in Req : AtStep(q, "status") => req[q].obj \in Settled /\ req[q].obj # o
  <2>1. \A q \in Req : AtStep(q, "status") => req[q].obj \in Changing
    BY DEF Changing
  <2> QED BY <1>1, <2>1 DEF AccInv, StatusOK
<1>17. Named'
  <2>1. \A p \in Id : users'[p] = NoUser <=> users[p] = NoUser
    BY <1>2, <1>4, <1>6 DEF UserObj, NoUser
  <2>2. \A q \in Req : AtStep(q, "hash") => req[q].obj \in Id
    BY RequestIs DEF AccInv, AccTypes, Making
  <2> QED BY <1>5, <1>14, <2>1, <2>2 DEF AccInv, Named
<1>18. OwnRows'
  BY <1>4, <1>6, <1>13 DEF AccInv, OwnRows
<1>19. \A p \in Settled : /\ users'[p].id = users[p].id /\ users'[p].email = users[p].email
                          /\ p # o => users'[p] = users[p]
  BY <1>4, <1>6, <1>13
<1>20. rows[users[o].id].status = users[o].status
  BY <1>1 DEF AccInv, UsersMirrored, Settled
<1>21. StatusOK'
  <2>1. \A q \in Req : Staging(q)' => users'[req'[q].obj] # NoUser /\ users'[req'[q].obj].status = "ACTIVE"
    BY <1>6, <1>14, <1>15 DEF AccInv, StatusOK
  <2>2. \A p, q \in Req : AtStep(p, "status")' /\ AtStep(q, "status")' /\ req'[p].obj = req'[q].obj => p = q
    <3>1. req'[r].obj = o
      BY <1>7, <1>9
    <3> QED BY <1>14, <1>16, <3>1 DEF AccInv, StatusOK
  <2>3. \A q \in Req : AtStep(q, "status")' =>
          /\ req'[q].obj \in Settled /\ users'[req'[q].obj].status = req'[q].to
          /\ rows[users'[req'[q].obj].id].status = req'[q].prev
    <3> SUFFICES ASSUME NEW q \in Req, AtStep(q, "status")'
                 PROVE  /\ req'[q].obj \in Settled /\ users'[req'[q].obj].status = req'[q].to
                        /\ rows[users'[req'[q].obj].id].status = req'[q].prev
      OBVIOUS
    <3>1. CASE q = r
      <4>1. req'[q].obj = o /\ req'[q].to = to /\ req'[q].prev = users[o].status
        BY <1>7, <1>9, <3>1
      <4> QED BY <1>1, <1>4, <1>6, <1>20, <4>1
    <3>2. CASE q # r
      <4>1. AtStep(q, "status") /\ req'[q] = req[q]
        BY <1>14, <3>2
      <4>2. req[q].obj \in Settled /\ users'[req[q].obj] = users[req[q].obj]
        BY <1>16, <1>19, <4>1
      <4>3. users[req[q].obj].status = req[q].to /\ rows[users[req[q].obj].id].status = req[q].prev
        BY <4>1 DEF AccInv, StatusOK
      <4> QED BY <4>1, <4>2, <4>3
    <3> QED BY <3>1, <3>2
  <2> QED BY <1>5, <1>13, <2>1, <2>2, <2>3 DEF StatusOK
<1>22. UsersMirrored'
  <2>1. Stored' = Stored /\ Live' \ Registering' = Settled
    BY <1>5, <1>13 DEF Stored, Settled
  <2>2. \A p \in Settled : /\ users[p].id \in Stored /\ rows[users[p].id].email = users[p].email
                           /\ (p \notin Changing => rows[users[p].id].status = users[p].status)
    BY DEF AccInv, UsersMirrored, Settled
  <2> QED BY <1>5, <1>12, <1>19, <2>1, <2>2 DEF UsersMirrored
<1> QED BY <1>10, <1>17, <1>18, <1>21, <1>22 DEF AccInv

(* A change that is answered leaves the account and its row agreeing.      *)
LEMMA AnsweredKeeps ==
  ASSUME AccInv, NEW r \in Req, AtStep(r, "status"), NEW o \in Id, o = req[r].obj,
         NEW s \in {"ACTIVE", "SUSPENDED"}, seqUser' = seqUser, req' = [req EXCEPT ![r] = Idle],
         users' = [users EXCEPT ![o].status = s],
         rows' = [rows EXCEPT ![users[o].id].status = s] \/ (rows' = rows /\ s = req[r].prev)
  PROVE  AccInv'
<1>1. o \in Settled /\ users[o] \in UserObj /\ users[o].live
  BY DEF Settled, Live, AccInv, AccTypes, StatusOK, NoUser
<1>2. users[o].id \in Id /\ rows[users[o].id] \in AccountRow /\ rows[users[o].id].email = users[o].email
      /\ rows[users[o].id].status = req[r].prev
  BY <1>1 DEF AccInv, AccTypes, UsersMirrored, StatusOK, Settled, Stored, UserObj
<1>3. PICK u : u = [users[o] EXCEPT !.status = s]
  OBVIOUS
<1>4. u \in UserObj /\ u.live /\ u.id = users[o].id /\ u.email = users[o].email /\ u.status = s /\ u # NoUser
  BY <1>1, <1>3 DEF UserObj, NoUser
<1>5. users' = [users EXCEPT ![o] = u]
  BY <1>3
<1>6. users'[o] = u /\ \A p \in Id : p # o => users'[p] = users[p]
  BY <1>5 DEF AccInv, AccTypes
<1>7. PICK i : i = users[o].id
  OBVIOUS
<1>8. PICK w : w = [rows[i] EXCEPT !.status = s]
  OBVIOUS
<1>9. w \in AccountRow /\ w.email = rows[i].email /\ w.status = s /\ w # NoRow
  BY <1>2, <1>7, <1>8 DEF AccountRow, NoRow
<1>10. rows' = [rows EXCEPT ![i] = w]
  <2>1. CASE rows' = [rows EXCEPT ![users[o].id].status = s]
    BY <1>7, <1>8, <2>1
  <2>2. CASE rows' = rows /\ s = req[r].prev
    <3>1. w = rows[i]
      BY <1>2, <1>7, <1>8, <2>2 DEF AccountRow
    <3> QED BY <2>2, <3>1 DEF AccInv, AccTypes
  <2> QED BY <2>1, <2>2
<1>11. rows'[i] = w /\ \A j \in Id : j # i => rows'[j] = rows[j]
  BY <1>2, <1>7, <1>10 DEF AccInv, AccTypes
<1>12. req'[r] = Idle /\ \A q \in Req : q # r => req'[q] = req[q]
  BY DEF AccInv, AccTypes
<1>13. AccTypes'
  <2>1. users' \in [Id -> UserObj \cup {NoUser}] /\ seqUser' \in Nat
    BY <1>4, <1>5 DEF AccInv, AccTypes
  <2>2. rows' \in [Id -> AccountRow \cup {NoRow}]
    BY <1>2, <1>7, <1>9, <1>10 DEF AccInv, AccTypes
  <2>3. req' \in [Req -> Request]
    <3>1. Idle \in Request
      BY DEF Request
    <3> QED BY <3>1 DEF AccInv, AccTypes
  <2> QED BY <2>1, <2>2, <2>3 DEF AccTypes
<1>14. \A q \in Req : /\ Making(q)' <=> Making(q)
                      /\ Staging(q)' <=> Staging(q)
                      /\ AtStep(q, "hash")' <=> AtStep(q, "hash")
                      /\ AtStep(q, "status")' <=> q # r /\ AtStep(q, "status")
                      /\ Making(q) \/ (q # r /\ AtStep(q, "status")) => req'[q] = req[q]
  BY <1>12 DEF Making, Staging, AtStep, Idle
<1>15. Registering' = Registering
  BY <1>12, <1>14 DEF Registering, Staging, AtStep, Idle
<1>16. Changing' = Changing \ {o}
  <2>1. \A q \in Req : q # r /\ AtStep(q, "status") => req[q].obj # o
    BY DEF AccInv, StatusOK
  <2>2. Changing' = {req'[q].obj : q \in {p \in Req : AtStep(p, "status")'}}
    BY DEF Changing, AtStep
  <2> QED BY <1>12, <1>14, <2>1, <2>2 DEF Changing
<1>17. Settled' = Settled /\ Settled \subseteq Id
  BY <1>1, <1>4, <1>6, <1>15 DEF Settled, Live
<1>18. \A p \in Id : /\ users'[p] = NoUser <=> users[p] = NoUser
                     /\ users'[p].id = users[p].id /\ users'[p].email = users[p].email
  BY <1>1, <1>4, <1>6 DEF UserObj, NoUser
<1>19. \A q \in Req : Making(q) => req[q].obj \in Id
  BY RequestIs DEF AccInv, AccTypes
<1>20. \A q \in Req : Staging(q) => req[q].obj \in Id /\ req[q].obj # o
  <2>1. \A q \in Req : Staging(q) => req[q].obj \in Registering
    BY DEF Registering, Staging
  <2>2. o \notin Registering
    BY <1>1 DEF Settled
  <2> QED BY <1>19, <2>1, <2>2 DEF Making
<1>21. Named'
  BY <1>14, <1>18, <1>19 DEF AccInv, Named, Making
<1>22. OwnRows'
  BY <1>17, <1>18 DEF AccInv, OwnRows
<1>23. \A p \in Settled : p # o => users[p].id # i
  BY <1>1, <1>7 DEF AccInv, OwnRows
<1>24. \A p \in Settled : users[p].id \in Id /\ users[p].id \in Stored
  BY DEF AccInv, UsersMirrored, Settled, Stored
<1>25. StatusOK'
  <2>1. \A q \in Req : Staging(q)' => users'[req'[q].obj] # NoUser /\ users'[req'[q].obj].status = "ACTIVE"
    BY <1>6, <1>14, <1>20 DEF AccInv, StatusOK, Making
  <2>2. \A q, p \in Req : AtStep(q, "status")' /\ AtStep(p, "status")' /\ req'[q].obj = req'[p].obj => q = p
    BY <1>14 DEF AccInv, StatusOK
  <2>3. ASSUME NEW q \in Req, AtStep(q, "status")'
        PROVE  /\ req'[q].obj \in Settled' /\ users'[req'[q].obj].status = req'[q].to
               /\ rows'[users'[req'[q].obj].id].status = req'[q].prev
    <3>1. q # r /\ AtStep(q, "status") /\ req'[q] = req[q]
      BY <1>14, <2>3
    <3>2. /\ req[q].obj \in Settled /\ req[q].obj # o /\ users[req[q].obj].status = req[q].to
          /\ rows[users[req[q].obj].id].status = req[q].prev
      BY <3>1 DEF AccInv, StatusOK
    <3>3. users'[req[q].obj] = users[req[q].obj]
      BY <1>6, <1>17, <3>2
    <3>4. rows'[users[req[q].obj].id] = rows[users[req[q].obj].id]
      BY <1>11, <1>23, <1>24, <3>2
    <3> QED BY <1>17, <3>1, <3>2, <3>3, <3>4
  <2> QED BY <2>1, <2>2, <2>3 DEF StatusOK
<1>26. UsersMirrored'
  <2> SUFFICES ASSUME NEW p \in Settled
               PROVE  /\ users'[p].id \in Stored' /\ rows'[users'[p].id].email = users'[p].email
                      /\ (p \notin Changing' => rows'[users'[p].id].status = users'[p].status)
    BY <1>17 DEF UsersMirrored, Settled
  <2>1. CASE p = o
    <3>1. users'[p] = u /\ u.id = i /\ u.email = users[o].email /\ u.status = s
      BY <1>4, <1>6, <1>7, <2>1
    <3>2. i \in Id /\ rows'[i] = w /\ w # NoRow /\ w.email = users[o].email /\ w.status = s
      BY <1>2, <1>7, <1>9, <1>11
    <3>3. i \in Stored'
      BY <3>2 DEF Stored
    <3> QED BY <3>1, <3>2, <3>3
  <2>2. CASE p # o
    <3>1. /\ users[p].id \in Stored /\ rows[users[p].id].email = users[p].email
          /\ (p \notin Changing => rows[users[p].id].status = users[p].status)
      BY DEF AccInv, UsersMirrored, Settled
    <3>2. users'[p] = users[p] /\ rows'[users[p].id] = rows[users[p].id]
      BY <1>6, <1>11, <1>17, <1>23, <1>24, <2>2
    <3> QED BY <1>16, <1>24, <2>2, <3>1, <3>2 DEF Stored
  <2> QED BY <2>1, <2>2
<1> QED BY <1>13, <1>21, <1>22, <1>25, <1>26 DEF AccInv

LEMMA StatusMirroredKeeps ==
  ASSUME AccInv, NEW r \in Req, StatusMirrored(r)
  PROVE  AccInv'
<1>1. PICK o : o = req[r].obj
  OBVIOUS
<1>2. AtStep(r, "status") /\ req[r] \in Request
  BY DEF StatusMirrored, AccInv, AccTypes
<1>3. PICK s : s = req[r].to
  OBVIOUS
<1>4. o \in Id /\ s \in {"ACTIVE", "SUSPENDED"} /\ users[o].status = s /\ users[o] \in UserObj
  BY <1>1, <1>2, <1>3, RequestIs DEF AccInv, AccTypes, StatusOK, Settled, Live, NoUser
<1>5. users' = [users EXCEPT ![o].status = s]
  <2>1. [users[o] EXCEPT !.status = s] = users[o]
    BY <1>4 DEF UserObj
  <2> QED BY <1>4, <2>1 DEF StatusMirrored, AccInv, AccTypes
<1>6. /\ seqUser' = seqUser /\ req' = [req EXCEPT ![r] = Idle]
      /\ rows' = [rows EXCEPT ![users[o].id].status = s]
  BY <1>1, <1>3 DEF StatusMirrored
<1> QED BY <1>1, <1>2, <1>4, <1>5, <1>6, AnsweredKeeps

LEMMA StatusFailsKeeps ==
  ASSUME AccInv, NEW r \in Req, StatusFails(r)
  PROVE  AccInv'
<1>1. PICK o : o = req[r].obj
  OBVIOUS
<1>2. AtStep(r, "status") /\ req[r] \in Request
  BY DEF StatusFails, AccInv, AccTypes
<1>3. PICK s : s = req[r].prev
  OBVIOUS
<1>4. o \in Id /\ s \in {"ACTIVE", "SUSPENDED"}
  BY <1>1, <1>2, <1>3, RequestIs
<1>5. users' = [users EXCEPT ![o].status = s] /\ seqUser' = seqUser /\ req' = [req EXCEPT ![r] = Idle]
      /\ rows' = rows /\ s = req[r].prev
  BY <1>1, <1>3 DEF StatusFails
<1> QED BY <1>1, <1>2, <1>4, <1>5, AnsweredKeeps

(* --------------------------- other writers ----------------------------- *)
LEMMA ForeignKeeps ==
  ASSUME AccInv, NEW i \in Id, NEW e \in Email, Foreign(i, e)
  PROVE  AccInv'
<1>1. PICK w : w = [email |-> e, status |-> "ACTIVE"]
  OBVIOUS
<1>2. w \in AccountRow /\ w # NoRow
  BY <1>1 DEF AccountRow, NoRow
<1>3. rows' = [rows EXCEPT ![i] = w] /\ i \notin Stored /\ UNCHANGED <<users, seqUser, req>>
  BY <1>1 DEF Foreign
<1>4. rows'[i] = w /\ \A j \in Id : j # i => rows'[j] = rows[j]
  BY <1>3 DEF AccInv, AccTypes
<1>5. \A j \in Stored : j \in Id /\ j \in Stored' /\ rows'[j] = rows[j]
  BY <1>3, <1>4 DEF Stored
<1>6. AccTypes'
  BY <1>2, <1>3 DEF AccInv, AccTypes
<1>7. Settled' = Settled /\ Registering' = Registering /\ Changing' = Changing /\ Live' = Live
  BY <1>3 DEF Settled, Live, Registering, Changing, AtStep
<1>8. \A p \in Settled : users[p].id \in Stored
  BY DEF AccInv, UsersMirrored, Settled
<1>9. Named' /\ OwnRows'
  BY <1>3, <1>7 DEF AccInv, Named, OwnRows, Making, Staging, AtStep
<1>10. StatusOK'
  BY <1>3, <1>5, <1>7, <1>8 DEF AccInv, StatusOK, Staging, AtStep
<1>11. UsersMirrored'
  BY <1>3, <1>5, <1>7, <1>8 DEF AccInv, UsersMirrored, Settled
<1> QED BY <1>6, <1>9, <1>10, <1>11 DEF AccInv

LEMMA RestartKeeps ==
  ASSUME AccInv, Restart
  PROVE  AccInv'
<1>1. /\ users' = [o \in Id |-> IF rows[o] = NoRow THEN NoUser
                     ELSE [id |-> o, email |-> rows[o].email, status |-> rows[o].status, live |-> TRUE]]
      /\ seqUser' = Highest /\ req' = [r \in Req |-> Idle] /\ rows' = rows
  BY DEF Restart
<1>2. \A o \in Stored : /\ o \in Id /\ rows[o] \in AccountRow
                        /\ users'[o] = [id |-> o, email |-> rows[o].email, status |-> rows[o].status, live |-> TRUE]
  BY <1>1 DEF Stored, AccInv, AccTypes
<1>3. \A o \in Id : o \notin Stored => users'[o] = NoUser
  BY <1>1 DEF Stored
<1>4. \A o \in Stored : /\ users'[o] \in UserObj /\ users'[o].live /\ users'[o].id = o
                        /\ users'[o].email = rows[o].email /\ users'[o].status = rows[o].status
  <2> TAKE o \in Stored
  <2>1. PICK z : z = [id |-> o, email |-> rows[o].email, status |-> rows[o].status, live |-> TRUE]
    OBVIOUS
  <2>2. o \in Id /\ rows[o].email \in Email /\ rows[o].status \in {"ACTIVE", "SUSPENDED"}
    BY <1>2 DEF AccountRow
  <2>3. z \in UserObj /\ z.live /\ z.id = o /\ z.email = rows[o].email /\ z.status = rows[o].status
    BY <2>1, <2>2 DEF UserObj
  <2>4. users'[o] = z
    BY <1>2, <2>1
  <2> QED BY <2>3, <2>4
<1>5. users' \in [Id -> UserObj \cup {NoUser}]
  <2>1. \A o \in Id : users'[o] \in UserObj \cup {NoUser}
    BY <1>3, <1>4
  <2> QED BY <1>1, <2>1
<1>6. \A r \in Req : req'[r] = Idle
  BY <1>1
<1>7. \A r \in Req : ~Making(r)' /\ ~Staging(r)' /\ ~AtStep(r, "status")' /\ ~AtStep(r, "hash")'
  BY <1>6 DEF Making, Staging, AtStep, Idle
<1>8. Registering' = {} /\ Changing' = {}
  BY <1>6 DEF Registering, Changing, AtStep, Idle
<1>9. Live' = Stored /\ Stored' = Stored /\ Settled' = Stored
  <2>1. Live' = Stored
    BY <1>3, <1>4 DEF Live, NoUser, Stored
  <2>2. Stored' = Stored
    BY <1>1 DEF Stored
  <2> QED BY <1>8, <2>1, <2>2 DEF Settled
<1>10. AccTypes'
  BY <1>1, <1>5, StoredIs DEF AccInv, AccTypes, Request
<1>11. Named'
  BY <1>1, <1>3, <1>7, StoredIs DEF Named
<1>12. OwnRows'
  BY <1>4, <1>9 DEF OwnRows
<1>13. StatusOK'
  BY <1>7 DEF StatusOK
<1>14. UsersMirrored'
  <2>1. ASSUME NEW o \in Stored
        PROVE  /\ users'[o].id \in Stored' /\ rows'[users'[o].id].email = users'[o].email
               /\ rows'[users'[o].id].status = users'[o].status
    <3>1. users'[o].id = o /\ users'[o].email = rows[o].email /\ users'[o].status = rows[o].status
      BY <1>4
    <3>2. rows' = rows /\ Stored' = Stored
      BY <1>1, <1>9
    <3> QED BY <3>1, <3>2
  <2>2. Live' \ Registering' = Stored
    BY <1>8, <1>9
  <2> QED BY <2>1, <2>2 DEF UsersMirrored
<1> QED BY <1>10, <1>11, <1>12, <1>13, <1>14 DEF AccInv

-----------------------------------------------------------------------------
LEMMA AccTokensKeep ==
  ASSUME AccInv, UNCHANGED <<users, seqUser, rows, req>>
  PROVE  AccInv'
BY DEF AccInv, AccTypes, Named, OwnRows, StatusOK, UsersMirrored, Making, Staging, AtStep,
       Settled, Live, Registering, Changing, Stored

LEMMA LoginKeeps ==
  ASSUME AccInv, NEW r \in Req, NEW o \in Id, Login(r, o)
  PROVE  AccInv'
<1>1. PICK x : x = [step |-> "verify", obj |-> o]
  OBVIOUS
<1>2. /\ x \in Request /\ Waits(x) /\ Waits(req[r]) /\ req' = [req EXCEPT ![r] = x]
      /\ UNCHANGED <<users, seqUser, rows>>
  BY <1>1 DEF Login, AtStep, Request, Waits
<1> QED BY <1>2, QuietKeeps

LEMMA AnswerKeeps ==
  ASSUME AccInv, NEW r \in Req, NEW ok \in BOOLEAN, Welcome(r, ok) \/ Verified(r, ok)
  PROVE  AccInv'
<1>1. /\ Idle \in Request /\ Waits(Idle) /\ Waits(req[r]) /\ req' = [req EXCEPT ![r] = Idle]
      /\ UNCHANGED <<users, seqUser, rows>>
  BY DEF Welcome, Verified, AtStep, Request, Waits, Idle
<1> QED BY <1>1, QuietKeeps

LEMMA AccStart == AccInit => AccInv
<1> SUFFICES ASSUME AccInit PROVE AccInv
  OBVIOUS
<1>1. \A o \in Id : users[o] = NoUser /\ rows[o] = NoRow
  BY DEF AccInit
<1>2. \A r \in Req : req[r] = Idle
  BY DEF AccInit
<1>3. \A r \in Req : ~Making(r) /\ ~Staging(r) /\ ~AtStep(r, "status") /\ ~AtStep(r, "hash")
  BY <1>2 DEF Making, Staging, AtStep, Idle
<1>4. Live = {} /\ Settled = {}
  BY <1>1 DEF Live, Settled, NoUser
<1>5. AccTypes
  BY DEF AccInit, AccTypes, Request
<1> QED BY <1>1, <1>3, <1>4, <1>5 DEF AccInv, Named, OwnRows, StatusOK, UsersMirrored, Settled

LEMMA AccStep == AccInv /\ [AccNext]_accVars => AccInv'
<1> SUFFICES ASSUME AccInv, [AccNext]_accVars PROVE AccInv'
  OBVIOUS
<1>1. CASE UNCHANGED accVars
  BY <1>1, AccTokensKeep DEF accVars
<1>2. CASE \E t \in 1 .. MaxTok : Refresh(t) \/ Logout(t) \/ TokenExpires(t)
  BY <1>2, AccTokensKeep DEF Refresh, Logout, TokenExpires
<1>3. CASE \E r \in Req, e \in Email : Register(r, e)
  BY <1>3, RegisterKeeps
<1>4. ASSUME NEW r \in Req, \/ Stage(r) \/ Inserted(r) \/ InsertClashes(r) \/ Realign(r) \/ MirrorFails(r)
                            \/ StatusMirrored(r) \/ StatusFails(r)
                            \/ \E ok \in BOOLEAN : Welcome(r, ok) \/ Verified(r, ok)
      PROVE  AccInv'
  BY <1>4, StageKeeps, InsertedKeeps, ClashKeeps, RealignKeeps, FailKeeps, StatusMirroredKeeps,
     StatusFailsKeeps, AnswerKeeps
<1>5. ASSUME NEW r \in Req, NEW o \in Id, Login(r, o) \/ \E to \in {"ACTIVE", "SUSPENDED"} : SetStatus(r, o, to)
      PROVE  AccInv'
  BY <1>5, LoginKeeps, SetStatusKeeps
<1>6. CASE \E i \in Id, e \in Email : Foreign(i, e)
  BY <1>6, ForeignKeeps
<1>7. CASE Restart
  BY <1>7, RestartKeeps
<1> QED BY <1>1, <1>2, <1>3, <1>4, <1>5, <1>6, <1>7 DEF AccNext

(* Outside a registration every account in memory has the row of its id    *)
(* and address, and outside a status change the two agree on who is        *)
(* suspended: whichever writer took which id, whatever failed, and across  *)
(* restarts (oracle.js: "a failed registration leaves no ghost identity"). *)
THEOREM UsersStayMirrored == AccSpec => []UsersMirrored
<1>1. AccInv => UsersMirrored
  BY DEF AccInv
<1> QED BY AccStart, AccStep, <1>1, PTL DEF AccSpec

-----------------------------------------------------------------------------
(* The catalogue (Catalogue).                                              *)
CatSpec == CatInit /\ [][CatNext]_catVars
StationStatus == {"ACTIVE", "INACTIVE"}
CatJob ==
  [kind : {"plan"}, id : Plan, before : {TRUE}]
  \cup [kind : {"station", "cp"}, id : Station, cps : UNION {[D -> CpRow] : D \in SUBSET Cp}]
  \cup [kind : {"update"}, id : Station, before : StationStatus]
CatTypes ==
  /\ plans \in [Plan -> PlanRow \cup {None}] /\ stations \in [Station -> StationStatus \cup {None}]
  /\ cps \in [Cp -> CpRow \cup {None}] /\ byOcpp \in [Ident -> Cp \cup {None}]
  /\ seq \in [plan : Plan, station : Nat, cp : Nat]
  /\ db \in [plans : [Plan -> PlanRow \cup {None}], stations : [Station -> StationStatus \cup {None}],
             cps : [Cp -> CpRow \cup {None}]]
  /\ jobs \in Seq(CatJob)

Of(kinds) == {n \in DOMAIN jobs : jobs[n].kind \in kinds}

(* Versions: what is staged is one chain upon the open version of Oracle,  *)
(* or upon one that has failed.                                            *)
Staged == {jobs[n].id : n \in Of({"plan"})}
PlansAt(d) ==
  /\ d \in Rows(db.plans)
  /\ \A p \in Rows(db.plans) : p <= d /\ (db.plans[p].open <=> p = d)
  /\ \A p \in Rows(db.plans) : plans[p] # None /\ plans[p].supersedes = db.plans[p].supersedes
                               /\ (p # d => ~plans[p].open)
  /\ Rows(plans) = Rows(db.plans) \cup Staged
  /\ \A p \in Staged : d < p
  /\ plans[d].open <=> \A p \in Staged : plans[p].supersedes # d
ChainOK ==
  /\ \A p \in Staged : LET s == plans[p].supersedes
                       IN  /\ s \in Plan /\ s < p /\ \A q \in Rows(plans) : q < p => q <= s
                           /\ s \in Rows(plans) \/ \A q \in Staged : s < q
                           /\ plans[p].open <=> \A q \in Rows(plans) : q <= p
  /\ \A n, m \in Of({"plan"}) : n < m => jobs[n].id < jobs[m].id
  /\ \A p \in Rows(plans) : p <= seq.plan
PlansOK == (\E d \in Plan : PlansAt(d)) /\ ChainOK

(* Stations: a status differs from Oracle's while its update waits, which  *)
(* remembers what it replaced.                                             *)
Base(s) == IF db.stations[s] # None THEN db.stations[s] ELSE "ACTIVE"
New(s) == \E n \in Of({"station"}) : jobs[n].id = s
StationRows ==
  \A s \in Station : /\ New(s) => db.stations[s] = None
                     /\ stations[s] # None <=> New(s) \/ db.stations[s] # None
                     /\ stations[s] # None /\ s \notin Updating => stations[s] = Base(s)
UpdatesRemember ==
  \A n \in Of({"update"}) : /\ stations[jobs[n].id] # None => jobs[n].before = Base(jobs[n].id)
                            /\ jobs[n].id <= seq.station
StationOrder ==
  /\ \A n \in Of({"station"}), m \in Of({"update"}) : jobs[n].id = jobs[m].id => n < m
  /\ \A n, m \in Of({"station"}) : jobs[n].id = jobs[m].id => n = m
  /\ \A n, m \in Of({"update"}) : jobs[n].id = jobs[m].id => n = m
StationsCounted == \A s \in Rows(stations) : s <= seq.station
StationsOK == StationRows /\ UpdatesRemember /\ StationOrder /\ StationsCounted

(* Charge points: every one is in Oracle or in one waiting mirror.         *)
Hardware == Of({"station", "cp"})
CpsKept ==
  /\ \A c \in Rows(db.cps) : cps[c] = db.cps[c]
  /\ \A n \in Hardware : \A c \in DOMAIN jobs[n].cps : cps[c] = jobs[n].cps[c] /\ db.cps[c] = None
  /\ \A n, m \in Hardware : n # m => \A c \in DOMAIN jobs[n].cps : c \notin DOMAIN jobs[m].cps
  /\ \A c \in Rows(cps) : c \in Rows(db.cps) \/ \E n \in Hardware : c \in DOMAIN jobs[n].cps
CpsFound ==
  /\ \A c \in Rows(cps) : c <= seq.cp /\ byOcpp[cps[c].ident] = c
  /\ \A x \in Ident : byOcpp[x] # None => byOcpp[x] \in Rows(cps) /\ cps[byOcpp[x]].ident = x
CpsOK == CpsKept /\ CpsFound

CatInv == CatTypes /\ PlansOK /\ StationsOK /\ CpsOK

-----------------------------------------------------------------------------
(* The queue of mirrors.                                                   *)
LEMMA JobAdded ==
  ASSUME jobs \in Seq(CatJob), NEW job \in CatJob, jobs' = Append(jobs, job), NEW last, last = Len(jobs) + 1
  PROVE  /\ last \in Nat /\ jobs' \in Seq(CatJob) /\ DOMAIN jobs' = DOMAIN jobs \cup {last} /\ jobs'[last] = job
         /\ \A n \in DOMAIN jobs : n \in Nat /\ n < last /\ jobs'[n] = jobs[n] /\ jobs[n] \in CatJob
         /\ \A kinds : /\ job.kind \notin kinds => Of(kinds)' = Of(kinds)
                       /\ job.kind \in kinds => Of(kinds)' = Of(kinds) \cup {last}
<1>1. /\ last \in Nat /\ jobs' \in Seq(CatJob) /\ DOMAIN jobs' = DOMAIN jobs \cup {last} /\ jobs'[last] = job
      /\ \A n \in DOMAIN jobs : n \in Nat /\ n < last /\ jobs'[n] = jobs[n] /\ jobs[n] \in CatJob
  OBVIOUS
<1> QED BY <1>1 DEF Of

LEMMA JobDone ==
  ASSUME jobs \in Seq(CatJob), jobs # <<>>, jobs' = Tail(jobs), NEW job, job = Head(jobs)
  PROVE  /\ jobs' \in Seq(CatJob) /\ job = jobs[1] /\ job \in CatJob /\ 1 \in DOMAIN jobs
         /\ \A n \in DOMAIN jobs : n \in Nat /\ n >= 1 /\ jobs[n] \in CatJob
         /\ \A n \in DOMAIN jobs' : n \in Nat /\ n >= 1 /\ n + 1 \in DOMAIN jobs /\ jobs'[n] = jobs[n + 1]
         /\ \A n \in DOMAIN jobs : n # 1 => n - 1 \in DOMAIN jobs' /\ jobs'[n - 1] = jobs[n]
         /\ \A kinds : /\ \A n \in Of(kinds)' : n + 1 \in Of(kinds)
                       /\ \A n \in Of(kinds) : n # 1 => n - 1 \in Of(kinds)'
<1>1. /\ jobs' \in Seq(CatJob) /\ job = jobs[1] /\ job \in CatJob /\ 1 \in DOMAIN jobs
      /\ \A n \in DOMAIN jobs : n \in Nat /\ n >= 1 /\ jobs[n] \in CatJob
  OBVIOUS
<1>2. /\ \A n \in DOMAIN jobs' : n \in Nat /\ n >= 1 /\ n + 1 \in DOMAIN jobs /\ jobs'[n] = jobs[n + 1]
      /\ \A n \in DOMAIN jobs : n # 1 => n - 1 \in DOMAIN jobs' /\ jobs'[n - 1] = jobs[n]
  OBVIOUS
<1> QED BY <1>1, <1>2 DEF Of

LEMMA JobIs ==
  ASSUME NEW job \in CatJob
  PROVE  /\ job.kind = "plan" => job.id \in Plan /\ job.before = TRUE
         /\ job.kind \in {"station", "cp"} => job.id \in Station /\ DOMAIN job.cps \subseteq Cp
                                              /\ \A c \in DOMAIN job.cps : job.cps[c] \in CpRow
         /\ job.kind = "update" => job.id \in Station /\ job.before \in StationStatus
         /\ job.kind \in {"plan", "station", "cp", "update"}
<1>1. CASE job \in [kind : {"plan"}, id : Plan, before : {TRUE}]
  BY <1>1
<1>2. CASE job \in [kind : {"station", "cp"}, id : Station, cps : UNION {[D -> CpRow] : D \in SUBSET Cp}]
  <2>1. job.kind \in {"station", "cp"} /\ job.id \in Station
    BY <1>2
  <2>2. PICK D \in SUBSET Cp : job.cps \in [D -> CpRow]
    BY <1>2
  <2> QED BY <2>1, <2>2
<1>3. CASE job \in [kind : {"update"}, id : Station, before : StationStatus]
  BY <1>3
<1> QED BY <1>1, <1>2, <1>3 DEF CatJob

LEMMA RowsOf ==
  ASSUME CatTypes
  PROVE  /\ Rows(plans) \subseteq Plan /\ \A p \in Plan : p \in Rows(plans) <=> plans[p] # None
         /\ Rows(db.plans) \subseteq Plan /\ \A p \in Plan : p \in Rows(db.plans) <=> db.plans[p] # None
         /\ \A p \in Rows(plans) : plans[p] \in PlanRow
         /\ \A p \in Rows(db.plans) : db.plans[p] \in PlanRow
         /\ Plan \subseteq Int /\ \A p \in Plan : p >= 1 /\ p <= MaxPlan
BY CatalogueAssumption DEF CatTypes, Rows, Plan

LEMMA PlanRowIs == \A row \in PlanRow : row # None /\ row.open \in BOOLEAN /\ row.supersedes \in 0 .. MaxPlan
BY CatalogueAssumption DEF PlanRow

(* ------------------------------- versions ------------------------------- *)
LEMMA PlansStay ==
  ASSUME PlansOK, plans' = plans, db'.plans = db.plans, seq'.plan = seq.plan, Staged' = Staged,
         \A n, m \in Of({"plan"})' : n < m => jobs'[n].id < jobs'[m].id
  PROVE  PlansOK'
<1>1. Rows(plans') = Rows(plans) /\ Rows(db'.plans) = Rows(db.plans)
  BY DEF Rows
<1>2. ASSUME NEW d \in Plan, PlansAt(d) PROVE PlansAt(d)'
  BY <1>1, <1>2 DEF PlansAt
<1>3. ChainOK'
  BY <1>1 DEF PlansOK, ChainOK
<1> QED BY <1>2, <1>3 DEF PlansOK

\* A mirror of hardware that joins the queue or leaves it.
LEMMA OtherAddedPlans ==
  ASSUME CatTypes, PlansOK, plans' = plans, db'.plans = db.plans, seq'.plan = seq.plan,
         NEW job \in CatJob, job.kind # "plan", jobs' = Append(jobs, job)
  PROVE  PlansOK'
<1>1. PICK last : last = Len(jobs) + 1
  OBVIOUS
<1>2. jobs \in Seq(CatJob)
  BY DEF CatTypes
<1>3. Of({"plan"})' = Of({"plan"}) /\ \A n \in DOMAIN jobs : jobs'[n] = jobs[n]
  BY <1>1, <1>2, JobAdded
<1>4. \A n \in Of({"plan"}) : jobs'[n] = jobs[n]
  BY <1>3 DEF Of
<1>5. Staged' = Staged
  BY <1>3, <1>4 DEF Staged
<1> QED BY <1>3, <1>4, <1>5, PlansStay DEF PlansOK, ChainOK

LEMMA OtherDonePlans ==
  ASSUME CatTypes, PlansOK, plans' = plans, db'.plans = db.plans, seq'.plan = seq.plan,
         jobs # <<>>, Head(jobs).kind # "plan", jobs' = Tail(jobs)
  PROVE  PlansOK'
<1>1. PICK job : job = Head(jobs)
  OBVIOUS
<1>2. jobs \in Seq(CatJob)
  BY DEF CatTypes
<1>3. /\ job = jobs[1]
      /\ \A n \in DOMAIN jobs : n \in Nat /\ (n # 1 => n - 1 \in DOMAIN jobs' /\ jobs'[n - 1] = jobs[n])
      /\ \A n \in DOMAIN jobs' : n \in Nat /\ jobs'[n] = jobs[n + 1]
      /\ \A n \in Of({"plan"})' : n + 1 \in Of({"plan"})
      /\ \A n \in Of({"plan"}) : n # 1 => n - 1 \in Of({"plan"})'
  BY <1>1, <1>2, JobDone
<1>4. /\ \A n \in Of({"plan"}) : n # 1 /\ n \in DOMAIN jobs
      /\ \A n \in Of({"plan"})' : n \in DOMAIN jobs'
  BY <1>1, <1>3 DEF Of
<1>5. Staged' = Staged
  <2>1. \A p \in Staged' : p \in Staged
    BY <1>3, <1>4 DEF Staged
  <2>2. \A p \in Staged : p \in Staged'
    BY <1>3, <1>4 DEF Staged
  <2> QED BY <2>1, <2>2
<1>6. \A n, m \in Of({"plan"})' : n < m => jobs'[n].id < jobs'[m].id
  BY <1>3, <1>4 DEF PlansOK, ChainOK
<1> QED BY <1>5, <1>6, PlansStay

LEMMA NewestIs ==
  ASSUME CatTypes, PlansOK
  PROVE  /\ Newest \in Rows(plans) /\ \A q \in Rows(plans) : q <= Newest /\ q \in Plan
         /\ plans[Newest].open = TRUE
<1>1. PICK d \in Plan : PlansAt(d)
  BY DEF PlansOK
<1>2. d \in Rows(plans) /\ Rows(plans) \subseteq 1 .. MaxPlan /\ 1 \in Int /\ MaxPlan \in Int
  BY <1>1, RowsOf, CatalogueAssumption DEF PlansAt, Plan
<1>3. Newest \in Rows(plans) /\ \A q \in Rows(plans) : q <= Newest
  BY <1>2, MaxIs DEF Newest
<1>4. CASE Newest \in Staged
  <2>1. plans[Newest] \in PlanRow
    BY <1>3, RowsOf
  <2>2. plans[Newest].open
    BY <1>3, <1>4 DEF PlansOK, ChainOK
  <2> QED BY <1>2, <1>3, <2>1, <2>2, PlanRowIs DEF Plan
<1>5. CASE Newest \notin Staged
  <2>1. Newest \in Rows(db.plans) /\ Rows(plans) = Rows(db.plans) \cup Staged
    BY <1>1, <1>3, <1>5 DEF PlansAt
  <2>2. d \in Plan /\ Newest \in Plan /\ Newest <= d /\ d <= Newest
    BY <1>1, <1>2, <1>3, <2>1, RowsOf DEF PlansAt
  <2>3. Newest = d
    BY <2>2, RowsOf
  <2>4. \A p \in Staged : d < p /\ p <= Newest /\ p \in Plan
    BY <1>1, <1>2, <1>3, <2>1 DEF PlansAt, Plan
  <2>5. Staged = {}
    BY <2>2, <2>3, <2>4, RowsOf
  <2>6. plans[d].open /\ plans[d] \in PlanRow
    BY <1>1, <1>2, <2>5, RowsOf DEF PlansAt
  <2> QED BY <1>2, <1>3, <2>3, <2>6, PlanRowIs DEF Plan
<1> QED BY <1>4, <1>5

LEMMA CreatePlans ==
  ASSUME CatTypes, PlansOK, CreateTariffVersion
  PROVE  PlansOK' /\ plans' \in [Plan -> PlanRow \cup {None}] /\ seq'.plan \in Plan
         /\ \E job \in CatJob : job.kind = "plan" /\ jobs' = Append(jobs, job)
<1>1. PICK p, top : p = seq.plan + 1 /\ top = Newest
  OBVIOUS
<1>2. /\ top \in Rows(plans) /\ top \in Plan /\ \A q \in Rows(plans) : q <= top /\ q \in Plan
      /\ plans[top].open = TRUE /\ plans[top] \in PlanRow
  BY <1>1, NewestIs, RowsOf
<1>3. seq.plan \in Plan /\ p \in Plan /\ seq'.plan = p /\ top < p /\ p \in Int /\ top \in Int
      /\ \A q \in Rows(plans) : q < p
  BY <1>1, <1>2, CatalogueAssumption DEF CatTypes, CreateTariffVersion, PlansOK, ChainOK, Plan
<1>4. PICK job, was, new : /\ job = [kind |-> "plan", id |-> p, before |-> TRUE]
                           /\ was = [plans[top] EXCEPT !.open = FALSE]
                           /\ new = [open |-> TRUE, supersedes |-> top]
  OBVIOUS
<1>5. job \in CatJob /\ job.kind = "plan" /\ job.id = p
  BY <1>3, <1>4 DEF CatJob
<1>6. was \in PlanRow /\ ~was.open /\ was.supersedes = plans[top].supersedes /\ was # None
  <2>1. was \in PlanRow /\ ~was.open /\ was.supersedes = plans[top].supersedes
    BY <1>2, <1>4 DEF PlanRow
  <2> QED BY <2>1, PlanRowIs
<1>7. new \in PlanRow /\ new.open /\ new.supersedes = top /\ new # None
  <2>1. top \in 0 .. MaxPlan
    BY <1>2 DEF Plan
  <2> QED BY <1>4, <2>1, PlanRowIs DEF PlanRow
<1>8. plans' = [plans EXCEPT ![p] = new, ![top] = was] /\ db' = db /\ jobs' = Append(jobs, job)
  <2>1. plans' = [plans EXCEPT ![p] = new, ![top].open = FALSE] /\ top # p
    BY <1>1, <1>3, <1>4 DEF CreateTariffVersion
  <2>2. [plans EXCEPT ![p] = new][top] = plans[top]
    BY <1>2, <1>3 DEF CatTypes
  <2>3. plans' = [plans EXCEPT ![p] = new, ![top] = was]
    BY <1>4, <2>1, <2>2
  <2> QED BY <1>1, <1>2, <1>4, <2>3 DEF CreateTariffVersion, Queue
<1>9. /\ plans' \in [Plan -> PlanRow \cup {None}] /\ plans'[p] = new /\ plans'[top] = was
      /\ \A q \in Plan : q # p /\ q # top => plans'[q] = plans[q]
  BY <1>2, <1>3, <1>6, <1>7, <1>8 DEF CatTypes
<1>10. Rows(plans') = Rows(plans) \cup {p} /\ Rows(db'.plans) = Rows(db.plans)
  <2>1. ASSUME NEW q \in Plan PROVE plans'[q] # None <=> (q = p \/ plans[q] # None)
    <3>1. CASE q = p
      BY <1>7, <1>9, <3>1
    <3>2. CASE q = top
      BY <1>2, <1>6, <1>9, <3>2, RowsOf
    <3>3. CASE q # p /\ q # top
      BY <1>9, <3>3
    <3> QED BY <3>1, <3>2, <3>3
  <2>2. DOMAIN plans' = Plan /\ DOMAIN plans = Plan
    BY <1>9 DEF CatTypes
  <2>3. Rows(plans') = Rows(plans) \cup {p}
    BY <1>3, <2>1, <2>2 DEF Rows
  <2> QED BY <1>8, <2>3 DEF Rows
<1>11. PICK last : last = Len(jobs) + 1
  OBVIOUS
<1>12. /\ last \in Nat /\ jobs'[last] = job /\ Of({"plan"})' = Of({"plan"}) \cup {last}
       /\ \A n \in Of({"plan"}) : n \in Nat /\ n < last /\ jobs'[n] = jobs[n]
  <2>1. jobs \in Seq(CatJob) /\ "plan" \in {"plan"} /\ \A n \in Of({"plan"}) : n \in DOMAIN jobs
    BY DEF CatTypes, Of
  <2> QED BY <1>5, <1>8, <1>11, <2>1, JobAdded
<1>13. Staged' = Staged \cup {p}
  BY <1>5, <1>12 DEF Staged
<1>14. PICK d \in Plan : PlansAt(d)
  BY DEF PlansOK
<1>15. Staged \subseteq Rows(plans) /\ d \in Rows(plans) /\ Rows(db.plans) \subseteq Rows(plans) /\ d # p /\ p \notin Rows(plans)
  BY <1>3, <1>14 DEF PlansAt
<1>16. PlansAt(d)'
  <2>1. d < p
    BY <1>3, <1>15
  <2>2. \A q \in Rows(db.plans) : plans'[q] # None /\ plans'[q].supersedes = db.plans[q].supersedes
                                  /\ (q # d => ~plans'[q].open)
    BY <1>3, <1>6, <1>9, <1>14, <1>15, RowsOf DEF PlansAt
  <2>3. plans'[d].open <=> \A q \in Staged' : plans'[q].supersedes # d
    <3>1. CASE top = d
      BY <1>6, <1>7, <1>9, <1>13, <3>1
    <3>2. CASE top # d
      <4>1. plans'[d] = plans[d] /\ plans'[p].supersedes # d
        BY <1>7, <1>9, <1>15, <3>2
      <4>2. \A q \in Staged : plans'[q].supersedes = plans[q].supersedes
        BY <1>2, <1>3, <1>6, <1>9, <1>15
      <4> QED BY <1>13, <1>14, <4>1, <4>2 DEF PlansAt
    <3> QED BY <3>1, <3>2
  <2> QED BY <1>8, <1>10, <1>13, <1>14, <2>1, <2>2, <2>3 DEF PlansAt
<1>17. ChainOK'
  <2>1. ASSUME NEW q \in Staged'
        PROVE  LET s == plans'[q].supersedes
               IN  /\ s \in Plan /\ s < q /\ \A r \in Rows(plans') : r < q => r <= s
                   /\ s \in Rows(plans') \/ \A r \in Staged' : s < r
                   /\ plans'[q].open <=> \A r \in Rows(plans') : r <= q
    <3>1. CASE q = p
      BY <1>2, <1>3, <1>7, <1>9, <1>10, <3>1
    <3>2. CASE q # p
      <4>1. q \in Staged /\ q \in Rows(plans) /\ q < p /\ q \in Int /\ q <= top
        BY <1>2, <1>3, <1>13, <1>15, <3>2, RowsOf
      <4>2. plans'[q].supersedes = plans[q].supersedes
        BY <1>2, <1>6, <1>9, <3>2, <4>1
      <4>3. LET s == plans[q].supersedes
            IN  /\ s \in Plan /\ s < q /\ \A r \in Rows(plans) : r < q => r <= s
                /\ s \in Rows(plans) \/ \A r \in Staged : s < r
                /\ plans[q].open <=> \A r \in Rows(plans) : r <= q
        BY <4>1 DEF PlansOK, ChainOK
      <4>4. ~plans'[q].open
        <5>1. CASE q = top
          BY <1>6, <1>9, <5>1
        <5>2. CASE q # top
          <6>1. ~(top <= q)
            BY <1>3, <4>1, <5>2
          <6>2. plans'[q] = plans[q]
            BY <1>2, <1>9, <3>2, <4>1, <5>2
          <6> QED BY <1>2, <4>3, <6>1, <6>2
        <5> QED BY <5>1, <5>2
      <4>5. ~(p <= q) /\ ~(p < q)
        BY <1>3, <4>1
      <4>6. plans'[q].supersedes \in Rows(plans') \/ \A r \in Staged' : plans'[q].supersedes < r
        <5>1. PICK s : s = plans[q].supersedes
          OBVIOUS
        <5>2. s \in Plan /\ s < q
          BY <4>3, <5>1
        <5>3. s \in Int /\ q \in Int /\ p \in Int /\ q < p
          BY <1>3, <4>1, <5>2, RowsOf
        <5>4. s < p
          BY <5>2, <5>3
        <5> QED BY <1>10, <1>13, <4>2, <4>3, <5>1, <5>4
      <4> QED BY <1>10, <4>2, <4>3, <4>4, <4>5, <4>6
    <3> QED BY <3>1, <3>2
  <2>2. \A n, m \in Of({"plan"})' : n < m => jobs'[n].id < jobs'[m].id
    <3> SUFFICES ASSUME NEW n \in Of({"plan"})', NEW m \in Of({"plan"})', n < m PROVE jobs'[n].id < jobs'[m].id
      OBVIOUS
    <3>1. n \in Of({"plan"})
      BY <1>12
    <3>2. CASE m \in Of({"plan"})
      BY <1>12, <3>1, <3>2 DEF PlansOK, ChainOK
    <3>3. CASE m = last
      <4>1. jobs[n].id \in Staged
        BY <3>1 DEF Staged
      <4> QED BY <1>3, <1>5, <1>12, <1>15, <3>1, <3>3, <4>1
    <3> QED BY <1>12, <3>2, <3>3
  <2>3. \A q \in Rows(plans') : q <= seq'.plan
    <3>1. \A q \in Rows(plans) : q \in Int /\ q < p
      BY <1>2, <1>3, RowsOf
    <3> QED BY <1>3, <1>10, <3>1
  <2> QED BY <2>1, <2>2, <2>3 DEF ChainOK
<1> QED BY <1>3, <1>5, <1>8, <1>9, <1>16, <1>17 DEF PlansOK

LEMMA HasLowest ==
  ASSUME NEW S, NEW a \in Int, NEW b \in Int, S \subseteq a .. b, S # {}
  PROVE  \E x \in S : \A y \in S : x <= y
<1>1. PICK T : T = {0 - x : x \in S}
  OBVIOUS
<1>2. T \subseteq (0 - b) .. (0 - a) /\ T # {}
  <2>1. \A x \in S : 0 - x \in (0 - b) .. (0 - a)
    OBVIOUS
  <2> QED BY <1>1, <2>1
<1>3. IsFiniteSet(T) /\ T \subseteq Int
  <2>1. 0 - b \in Int /\ 0 - a \in Int
    OBVIOUS
  <2>2. IsFiniteSet((0 - b) .. (0 - a))
    BY <2>1, FS_Interval
  <2>3. T \in SUBSET ((0 - b) .. (0 - a))
    BY <1>2
  <2>4. T \subseteq Int
    BY <1>2
  <2> QED BY <2>2, <2>3, <2>4, FS_Subset
<1>4. PICK z \in T : \A y \in T : z >= y
  BY <1>2, <1>3, HasHighest
<1>5. PICK x \in S : z = 0 - x
  BY <1>1, <1>4
<1>6. \A y \in S : x <= y
  <2> SUFFICES ASSUME NEW y \in S PROVE x <= y
    OBVIOUS
  <2>1. x \in Int /\ y \in Int /\ z >= 0 - y
    BY <1>1, <1>4
  <2> QED BY <1>5, <2>1
<1> QED BY <1>6

\* The version whose mirror leaves the queue is the oldest of those waiting.
LEMMA OldestPlan ==
  ASSUME CatTypes, PlansOK, jobs # <<>>, jobs' = Tail(jobs), Head(jobs).kind = "plan",
         NEW p, p = Head(jobs).id
  PROVE  /\ p \in Staged /\ p \in Plan /\ Head(jobs).before = TRUE /\ Head(jobs) \in CatJob
         /\ Staged' = Staged \ {p} /\ \A q \in Staged' : p < q
         /\ jobs' \in Seq(CatJob)
         /\ \A n, m \in Of({"plan"})' : n < m => jobs'[n].id < jobs'[m].id
<1>1. PICK job : job = Head(jobs)
  OBVIOUS
<1>2. jobs \in Seq(CatJob)
  BY DEF CatTypes
<1>3. /\ job = jobs[1] /\ job \in CatJob /\ 1 \in DOMAIN jobs /\ jobs' \in Seq(CatJob)
      /\ \A n \in DOMAIN jobs : n \in Nat /\ n >= 1 /\ (n # 1 => n - 1 \in DOMAIN jobs' /\ jobs'[n - 1] = jobs[n])
      /\ \A n \in DOMAIN jobs' : n \in Nat /\ n >= 1 /\ jobs'[n] = jobs[n + 1]
      /\ \A n \in Of({"plan"})' : n + 1 \in Of({"plan"})
      /\ \A n \in Of({"plan"}) : n # 1 => n - 1 \in Of({"plan"})'
  BY <1>1, <1>2, JobDone
<1>4. job.id \in Plan /\ job.before = TRUE /\ 1 \in Of({"plan"})
  BY <1>1, <1>3, JobIs DEF Of
<1>5. /\ \A n \in Of({"plan"}) : n \in DOMAIN jobs
      /\ \A n \in Of({"plan"})' : n \in DOMAIN jobs'
  BY DEF Of
<1>6. \A n \in Of({"plan"}) : n # 1 => jobs[1].id < jobs[n].id
  <2>1. \A n, m \in Of({"plan"}) : n < m => jobs[n].id < jobs[m].id
    BY DEF PlansOK, ChainOK
  <2>2. \A n \in Of({"plan"}) : n # 1 => 1 < n
    BY <1>3, <1>5
  <2> QED BY <1>4, <2>1, <2>2
<1>7. \A q \in Staged' : q \in Staged /\ p < q
  <2> SUFFICES ASSUME NEW n \in Of({"plan"})' PROVE jobs'[n].id \in Staged /\ p < jobs'[n].id
    BY DEF Staged
  <2>1. n + 1 \in Of({"plan"}) /\ n + 1 # 1 /\ jobs'[n] = jobs[n + 1]
    BY <1>3, <1>5
  <2> QED BY <1>1, <1>3, <1>6, <2>1 DEF Staged
<1>8. p \in Staged /\ \A q \in Staged : q # p => q \in Staged'
  <2>1. p \in Staged
    BY <1>1, <1>3, <1>4 DEF Staged
  <2>2. ASSUME NEW n \in Of({"plan"}), jobs[n].id # p PROVE jobs[n].id \in Staged'
    <3>1. n - 1 \in Of({"plan"})' /\ jobs'[n - 1] = jobs[n]
      BY <1>1, <1>3, <1>5, <2>2
    <3> QED BY <3>1 DEF Staged
  <2> QED BY <2>1, <2>2 DEF Staged
<1>9. Staged' = Staged \ {p}
  <2>1. p \notin Staged'
    BY <1>1, <1>4, <1>7, RowsOf
  <2> QED BY <1>7, <1>8, <2>1
<1>10. \A n, m \in Of({"plan"})' : n < m => jobs'[n].id < jobs'[m].id
  BY <1>3, <1>5 DEF PlansOK, ChainOK
<1> QED BY <1>1, <1>3, <1>4, <1>7, <1>8, <1>9, <1>10

LEMMA PlanStored ==
  ASSUME CatTypes, PlansOK, CatalogueStored, Head(jobs).kind = "plan"
  PROVE  PlansOK' /\ db'.plans \in [Plan -> PlanRow \cup {None}]
<1>1. PICK p, prev : p = Head(jobs).id /\ prev = plans[p].supersedes
  OBVIOUS
<1>2. /\ jobs # <<>> /\ jobs' = Tail(jobs) /\ plans' = plans /\ seq' = seq /\ PlanFits(p) /\ db' = PlanRows(p)
  BY <1>1 DEF CatalogueStored, RowsFit
<1>3. /\ p \in Staged /\ p \in Plan /\ Staged' = Staged \ {p} /\ \A q \in Staged' : p < q
      /\ \A n, m \in Of({"plan"})' : n < m => jobs'[n].id < jobs'[m].id
  BY <1>1, <1>2, OldestPlan
<1>4. PICK d \in Plan : PlansAt(d)
  BY DEF PlansOK
<1>5. /\ Rows(plans) = Rows(db.plans) \cup Staged /\ d < p /\ p \in Rows(plans) /\ d \in Rows(db.plans)
      /\ \A q \in Rows(db.plans) : q <= d /\ (db.plans[q].open <=> q = d)
  BY <1>3, <1>4 DEF PlansAt
<1>6. /\ prev \in Plan /\ prev < p /\ \A q \in Rows(plans) : q < p => q <= prev
      /\ plans[p].open <=> \A q \in Rows(plans) : q <= p
  BY <1>1, <1>3 DEF PlansOK, ChainOK
<1>7. prev = d
  <2>1. db.plans[prev] # None /\ db.plans[prev].open
    BY <1>1, <1>2 DEF PlanFits
  <2>2. prev \in Rows(db.plans)
    BY <1>6, <2>1, RowsOf
  <2> QED BY <1>5, <2>1, <2>2
<1>8. PICK was, new : was = [db.plans[d] EXCEPT !.open = FALSE] /\ new = [open |-> TRUE, supersedes |-> d]
  OBVIOUS
<1>9. was \in PlanRow /\ ~was.open /\ was.supersedes = db.plans[d].supersedes /\ was # None
  <2>1. was \in PlanRow /\ ~was.open /\ was.supersedes = db.plans[d].supersedes
    BY <1>5, <1>8, RowsOf DEF PlanRow
  <2> QED BY <2>1, PlanRowIs
<1>10. new \in PlanRow /\ new.open /\ new.supersedes = d /\ new # None
  <2>1. d \in 0 .. MaxPlan
    BY <1>4 DEF Plan
  <2> QED BY <1>8, <2>1, PlanRowIs DEF PlanRow
<1>11. db'.plans = [db.plans EXCEPT ![p] = new, ![d] = was]
  <2>1. PICK old : old = db.plans
    OBVIOUS
  <2>2. db' = [db EXCEPT !.plans[p] = new, !.plans[d].open = FALSE]
    BY <1>1, <1>2, <1>7, <1>8 DEF PlanRows
  <2>3. PICK mid : mid = [old EXCEPT ![p] = new]
    OBVIOUS
  <2>4. old \in [Plan -> PlanRow \cup {None}] /\ d # p
    BY <1>5, <2>1, RowsOf DEF CatTypes
  <2>5. mid[d] = old[d]
    BY <1>3, <1>4, <2>3, <2>4
  <2>6. db'.plans = [mid EXCEPT ![d].open = FALSE]
    BY <2>1, <2>2, <2>3 DEF CatTypes
  <2> QED BY <1>8, <2>1, <2>3, <2>5, <2>6
<1>12. /\ db'.plans \in [Plan -> PlanRow \cup {None}] /\ db'.plans[p] = new /\ db'.plans[d] = was
       /\ \A q \in Plan : q # p /\ q # d => db'.plans[q] = db.plans[q]
  <2>1. d # p /\ db.plans \in [Plan -> PlanRow \cup {None}]
    BY <1>5, RowsOf DEF CatTypes
  <2> QED BY <1>3, <1>4, <1>9, <1>10, <1>11, <2>1
<1>13. Rows(db'.plans) = Rows(db.plans) \cup {p}
  <2>1. ASSUME NEW q \in Plan PROVE db'.plans[q] # None <=> (q = p \/ db.plans[q] # None)
    <3>1. CASE q = p
      BY <1>10, <1>12, <3>1
    <3>2. CASE q = d
      BY <1>5, <1>9, <1>12, <3>2, RowsOf
    <3>3. CASE q # p /\ q # d
      BY <1>12, <3>3
    <3> QED BY <3>1, <3>2, <3>3
  <2>2. DOMAIN db'.plans = Plan /\ DOMAIN db.plans = Plan
    BY <1>12 DEF CatTypes
  <2> QED BY <1>3, <2>1, <2>2 DEF Rows
<1>14. PlansAt(p)'
  <2>1. ASSUME NEW q \in Rows(db'.plans)
        PROVE  /\ q <= p /\ (db'.plans[q].open <=> q = p)
               /\ plans[q] # None /\ plans[q].supersedes = db'.plans[q].supersedes /\ (q # p => ~plans[q].open)
    <3>1. CASE q = p
      <4>1. p \in Int /\ p <= p /\ plans[p] # None
        BY <1>3, <1>5, RowsOf
      <4> QED BY <1>1, <1>7, <1>10, <1>12, <3>1, <4>1
    <3>2. CASE q # p
      <4>1. q \in Rows(db.plans) /\ q \in Plan /\ q <= d
        BY <1>5, <1>13, <3>2, RowsOf
      <4>2. q <= p
        BY <1>3, <1>4, <1>5, <4>1, RowsOf
      <4>3. db'.plans[q].supersedes = db.plans[q].supersedes /\ ~db'.plans[q].open
        BY <1>5, <1>9, <1>12, <3>2, <4>1
      <4>4. ~plans[d].open
        BY <1>1, <1>3, <1>4, <1>7 DEF PlansAt
      <4> QED BY <1>4, <3>2, <4>1, <4>2, <4>3, <4>4 DEF PlansAt
    <3> QED BY <3>1, <3>2
  <2>2. plans[p].open <=> \A q \in Staged' : plans[q].supersedes # p
    <3>1. CASE plans[p].open
      <4>1. \A q \in Staged' : q \in Rows(plans) /\ q <= p /\ q \in Plan /\ p < q
        BY <1>3, <1>5, <1>6, <3>1, RowsOf
      <4> QED BY <1>3, <3>1, <4>1, RowsOf
    <3>2. CASE ~plans[p].open
      <4>1. PICK r \in Rows(plans) : ~(r <= p)
        BY <1>6, <3>2
      <4>2. r \in Staged'
        BY <1>3, <1>4, <1>5, <4>1, RowsOf
      <4>3. Staged' \subseteq 1 .. MaxPlan /\ Staged' # {} /\ 1 \in Int /\ MaxPlan \in Int
        BY <1>3, <1>5, <4>2, RowsOf, CatalogueAssumption DEF Plan
      <4>4. PICK q \in Staged' : \A y \in Staged' : q <= y
        BY <4>3, HasLowest
      <4>5. PICK s : s = plans[q].supersedes
        OBVIOUS
      <4>6. /\ q \in Staged /\ p < q /\ s \in Plan /\ s < q /\ \A y \in Rows(plans) : y < q => y <= s
            /\ s \in Rows(plans) \/ \A y \in Staged : s < y
        BY <1>3, <4>4, <4>5 DEF PlansOK, ChainOK
      <4>7. p <= s
        BY <1>5, <4>6
      <4>8. s \in Rows(plans)
        BY <1>3, <4>6, <4>7, RowsOf
      <4>9. CASE s = p
        BY <3>2, <4>4, <4>5, <4>9
      <4>10. CASE s # p
        <5>1. s \in Staged'
          BY <1>3, <1>4, <1>5, <4>6, <4>7, <4>8, <4>10, RowsOf
        <5>2. q <= s /\ q \in Plan
          BY <1>5, <4>4, <4>6, <5>1, RowsOf
        <5> QED BY <4>6, <5>2, RowsOf
      <4> QED BY <4>9, <4>10
    <3> QED BY <3>1, <3>2
  <2>3. Rows(plans) = Rows(db'.plans) \cup Staged' /\ p \in Rows(db'.plans)
    BY <1>3, <1>5, <1>13
  <2> QED BY <1>2, <1>3, <2>1, <2>2, <2>3 DEF PlansAt
<1>15. ChainOK'
  <2>1. Staged' \subseteq Staged /\ Rows(plans') = Rows(plans)
    BY <1>2, <1>3
  <2> QED BY <1>2, <1>3, <2>1 DEF PlansOK, ChainOK
<1> QED BY <1>3, <1>12, <1>14, <1>15 DEF PlansOK

LEMMA PlanFailed ==
  ASSUME CatTypes, PlansOK, PlanFails
  PROVE  PlansOK' /\ plans' \in [Plan -> PlanRow \cup {None}]
<1>1. PICK p, prev : p = Head(jobs).id /\ prev = plans[p].supersedes
  OBVIOUS
<1>2. /\ jobs # <<>> /\ jobs' = Tail(jobs) /\ plans' = PlanUndone(Head(jobs)) /\ seq' = seq /\ db' = db
      /\ Head(jobs).kind = "plan"
  BY DEF PlanFails
<1>3. /\ p \in Staged /\ p \in Plan /\ Staged' = Staged \ {p} /\ \A q \in Staged' : p < q
      /\ \A n, m \in Of({"plan"})' : n < m => jobs'[n].id < jobs'[m].id
      /\ Head(jobs).before = TRUE
  BY <1>1, <1>2, OldestPlan
<1>4. PICK d \in Plan : PlansAt(d)
  BY DEF PlansOK
<1>5. /\ Rows(plans) = Rows(db.plans) \cup Staged /\ d < p /\ p \in Rows(plans) /\ d \in Rows(db.plans)
      /\ \A q \in Rows(db.plans) : q <= d
  BY <1>3, <1>4 DEF PlansAt
<1>6. /\ prev \in Plan /\ prev < p /\ \A q \in Rows(plans) : q < p => q <= prev
  BY <1>1, <1>3 DEF PlansOK, ChainOK
<1>7. prev \in Rows(plans) => prev = d
  <2> SUFFICES ASSUME prev \in Rows(plans) PROVE prev = d
    OBVIOUS
  <2>1. prev \in Rows(db.plans)
    BY <1>3, <1>5, <1>6, RowsOf
  <2>2. prev <= d /\ d <= prev
    BY <1>5, <1>6, <2>1
  <2> QED BY <1>4, <1>6, <2>2, RowsOf
<1>8. plans' = [q \in Plan |-> IF q = p THEN None
                             ELSE IF q = prev /\ plans[q] # None THEN [plans[q] EXCEPT !.open = TRUE]
                             ELSE plans[q]]
  BY <1>1, <1>2, <1>3 DEF PlanUndone
<1>9. /\ plans'[p] = None
      /\ \A q \in Plan : q # p /\ (q # prev \/ plans[q] = None) => plans'[q] = plans[q]
  BY <1>3, <1>8
<1>10. ASSUME prev \in Rows(plans)
       PROVE  plans'[prev] \in PlanRow /\ plans'[prev].open /\ plans'[prev].supersedes = plans[prev].supersedes
              /\ plans'[prev] # None
  <2>1. plans'[prev] = [plans[prev] EXCEPT !.open = TRUE] /\ plans[prev] \in PlanRow
    <3>1. prev # p /\ plans[prev] # None /\ plans[prev] \in PlanRow
      BY <1>3, <1>6, <1>10, RowsOf
    <3> QED BY <1>6, <1>8, <3>1
  <2>2. plans'[prev] \in PlanRow /\ plans'[prev].open /\ plans'[prev].supersedes = plans[prev].supersedes
    BY <2>1 DEF PlanRow
  <2> QED BY <2>2, PlanRowIs
<1>11. \A q \in Plan : plans'[q] \in PlanRow \cup {None} /\ (plans'[q] # None <=> (q # p /\ plans[q] # None))
  <2> SUFFICES ASSUME NEW q \in Plan
               PROVE  plans'[q] \in PlanRow \cup {None} /\ (plans'[q] # None <=> (q # p /\ plans[q] # None))
    OBVIOUS
  <2>1. CASE q = p
    BY <1>9, <2>1
  <2>2. CASE q = prev /\ q # p /\ plans[q] # None
    BY <1>10, <2>2, RowsOf
  <2>3. CASE q # p /\ (q # prev \/ plans[q] = None)
    <3>1. plans[q] \in PlanRow \cup {None}
      BY DEF CatTypes
    <3> QED BY <1>9, <2>3, <3>1
  <2> QED BY <2>1, <2>2, <2>3
<1>12. plans' \in [Plan -> PlanRow \cup {None}] /\ Rows(plans') = Rows(plans) \ {p}
  <2>1. DOMAIN plans' = Plan /\ DOMAIN plans = Plan
    BY <1>8 DEF CatTypes
  <2>2. Rows(plans') = Rows(plans) \ {p}
    BY <1>11, <2>1 DEF Rows
  <2>3. plans' \in [Plan -> PlanRow \cup {None}]
    BY <1>8, <1>11
  <2> QED BY <2>2, <2>3
<1>13. \A q \in Rows(plans') : /\ q \in Plan /\ q # p /\ plans'[q].supersedes = plans[q].supersedes /\ plans'[q] # None
                               /\ (q # prev => plans'[q] = plans[q])
  BY <1>9, <1>10, <1>12, RowsOf
<1>14. \A q \in Staged' : /\ q \in Staged /\ q \in Plan /\ q \in Rows(plans') /\ q # prev
                          /\ plans'[q] = plans[q] /\ p < q /\ plans[q].supersedes # d
  <2> SUFFICES ASSUME NEW q \in Staged'
               PROVE  /\ q \in Staged /\ q \in Plan /\ q \in Rows(plans') /\ q # prev
                      /\ plans'[q] = plans[q] /\ p < q /\ plans[q].supersedes # d
    OBVIOUS
  <2>1. q \in Staged /\ q \in Rows(plans) /\ p < q /\ q \in Plan /\ q # p
    BY <1>3, <1>5, RowsOf
  <2>2. q # prev
    BY <1>3, <1>6, <2>1, RowsOf
  <2>3. PICK s : s = plans[q].supersedes
    OBVIOUS
  <2>4. s \in Plan /\ p <= s
    BY <1>5, <2>1, <2>3 DEF PlansOK, ChainOK
  <2>5. s # d
    BY <1>3, <1>4, <1>5, <2>4, RowsOf
  <2> QED BY <1>12, <1>13, <2>1, <2>2, <2>3, <2>5
<1>15. PlansAt(d)'
  <2>1. \A q \in Rows(db.plans) : q # p /\ q \in Rows(plans')
    BY <1>3, <1>4, <1>5, <1>12, RowsOf
  <2>2. ASSUME NEW q \in Rows(db.plans)
        PROVE  plans'[q] # None /\ plans'[q].supersedes = db.plans[q].supersedes /\ (q # d => ~plans'[q].open)
    <3>1. plans[q].supersedes = db.plans[q].supersedes /\ (q # d => ~plans[q].open) /\ q \in Rows(plans)
      BY <1>4, <1>5 DEF PlansAt
    <3> QED BY <1>7, <1>13, <2>1, <3>1
  <2>3. plans'[d].open
    <3>1. CASE prev \in Rows(plans)
      BY <1>7, <1>10, <3>1
    <3>2. CASE prev \notin Rows(plans)
      <4>1. prev # d /\ d \in Rows(plans')
        BY <1>5, <2>1, <3>2
      <4>2. plans'[d] = plans[d]
        BY <1>13, <4>1
      <4>3. \A q \in Staged : plans[q].supersedes # d
        BY <1>1, <1>3, <1>14, <4>1
      <4> QED BY <1>4, <4>2, <4>3 DEF PlansAt
    <3> QED BY <3>1, <3>2
  <2>4. \A q \in Staged' : d < q /\ plans'[q].supersedes # d
    BY <1>4, <1>14 DEF PlansAt
  <2>5. Rows(plans') = Rows(db.plans) \cup Staged'
    BY <1>3, <1>5, <1>12, <2>1
  <2> QED BY <1>2, <1>4, <2>2, <2>3, <2>4, <2>5 DEF PlansAt
<1>16. ChainOK'
  <2>1. ASSUME NEW q \in Staged'
        PROVE  LET s == plans'[q].supersedes
               IN  /\ s \in Plan /\ s < q /\ \A r \in Rows(plans') : r < q => r <= s
                   /\ s \in Rows(plans') \/ \A r \in Staged' : s < r
                   /\ plans'[q].open <=> \A r \in Rows(plans') : r <= q
    <3>1. PICK s : s = plans[q].supersedes
      OBVIOUS
    <3>2. /\ s \in Plan /\ s < q /\ \A r \in Rows(plans) : r < q => r <= s
          /\ s \in Rows(plans) \/ \A r \in Staged : s < r
          /\ plans[q].open <=> \A r \in Rows(plans) : r <= q
      BY <1>14, <3>1 DEF PlansOK, ChainOK
    <3>3. p <= q
      BY <1>3, <1>14, RowsOf
    <3> QED BY <1>3, <1>12, <1>14, <3>1, <3>2, <3>3
  <2>2. \A q \in Rows(plans') : q <= seq'.plan
    BY <1>2, <1>12 DEF PlansOK, ChainOK
  <2> QED BY <1>3, <2>1, <2>2 DEF ChainOK
<1> QED BY <1>12, <1>15, <1>16 DEF PlansOK

(* ------------------------------- stations ------------------------------- *)
\* What the queue says of stations, when a mirror joins it and when one leaves.
LEMMA StationQueueGrows ==
  ASSUME CatTypes, StationsOK, NEW job \in CatJob, jobs' = Append(jobs, job),
         job.kind = "update" => job.id \notin Updating,
         job.kind = "station" => ~New(job.id) /\ job.id \notin Updating
  PROVE  /\ \A s : s \in Updating' <=> (s \in Updating \/ (job.kind = "update" /\ s = job.id))
         /\ \A s : New(s)' <=> (New(s) \/ (job.kind = "station" /\ s = job.id))
         /\ \A n \in Of({"update"})' : \/ n \in Of({"update"}) /\ jobs'[n] = jobs[n]
                                       \/ job.kind = "update" /\ jobs'[n] = job
         /\ StationOrder'
<1>1. PICK last : last = Len(jobs) + 1
  OBVIOUS
<1>2. /\ last \in Nat /\ jobs'[last] = job
      /\ \A n \in DOMAIN jobs : n \in Nat /\ n < last /\ jobs'[n] = jobs[n] /\ jobs[n] \in CatJob
      /\ \A kinds : /\ job.kind \notin kinds => Of(kinds)' = Of(kinds)
                    /\ job.kind \in kinds => Of(kinds)' = Of(kinds) \cup {last}
  BY <1>1, JobAdded DEF CatTypes
<1>3. \A kinds : \A n \in Of(kinds) : n \in DOMAIN jobs /\ jobs[n].kind \in kinds
  BY DEF Of
<1>s. PICK S, U, S1, U1 : /\ S = Of({"station"}) /\ S1 = Of({"station"})'
                          /\ U = Of({"update"}) /\ U1 = Of({"update"})'
  OBVIOUS
<1>4. \A n \in U : jobs[n].id \in Updating
  BY <1>s DEF Updating, Of
<1>5. /\ job.kind # "update" => U1 = U
      /\ job.kind = "update" => U1 = U \cup {last}
      /\ job.kind # "station" => S1 = S
      /\ job.kind = "station" => S1 = S \cup {last}
  <2>1. /\ job.kind # "update" => job.kind \notin {"update"}
        /\ job.kind # "station" => job.kind \notin {"station"}
    OBVIOUS
  <2> QED BY <1>s, <1>2, <2>1
<1>6. \A s : s \in Updating <=> \E n \in U : jobs[n].id = s
  BY <1>s DEF Updating, Of
<1>7. \A s : s \in Updating' <=> \E n \in U1 : jobs'[n].id = s
  BY <1>s DEF Updating, Of
<1>8. /\ \A n \in U : n \in Nat /\ n < last /\ jobs'[n] = jobs[n]
      /\ \A n \in S : n \in Nat /\ n < last /\ jobs'[n] = jobs[n]
  BY <1>s, <1>2, <1>3
<1>9. \A s : s \in Updating' <=> (s \in Updating \/ (job.kind = "update" /\ s = job.id))
  <2>1. CASE job.kind = "update"
    <3>1. \A s : s \in Updating' <=> ((\E n \in U : jobs[n].id = s) \/ jobs'[last].id = s)
      BY <1>5, <1>7, <1>8, <2>1
    <3> QED BY <1>2, <1>6, <2>1, <3>1
  <2>2. CASE job.kind # "update"
    BY <1>5, <1>6, <1>7, <1>8, <2>2
  <2> QED BY <2>1, <2>2
<1>10. \A s : New(s)' <=> (New(s) \/ (job.kind = "station" /\ s = job.id))
  BY <1>s, <1>2, <1>5, <1>8 DEF New
<1>11. \A n \in U1 : \/ n \in U /\ jobs'[n] = jobs[n]
                     \/ job.kind = "update" /\ jobs'[n] = job
  <2>1. ASSUME NEW n \in U1
        PROVE  \/ n \in U /\ jobs'[n] = jobs[n]
               \/ job.kind = "update" /\ jobs'[n] = job
    <3>1. CASE n \in U
      BY <1>8, <3>1
    <3>2. CASE n \notin U
      <4>1. job.kind = "update" /\ n = last
        BY <1>5, <3>2
      <4> QED BY <1>2, <4>1
    <3> QED BY <3>1, <3>2
  <2> QED BY <2>1
<1>12. \A n \in S1, m \in U1 : jobs'[n].id = jobs'[m].id => n < m
  <2> SUFFICES ASSUME NEW n \in S1, NEW m \in U1, jobs'[n].id = jobs'[m].id
               PROVE  n < m
    OBVIOUS
  <2>1. CASE n \in S /\ m \in U
    BY <1>s, <1>8, <2>1 DEF StationsOK, StationOrder
  <2>2. CASE n \in S /\ m = last
    BY <1>8, <2>2
  <2>3. CASE n = last /\ job.kind = "station" /\ m \in U
    BY <1>2, <1>4, <1>8, <2>3
  <2> QED BY <1>5, <2>1, <2>2, <2>3
<1>13. \A n, m \in S1 : jobs'[n].id = jobs'[m].id => n = m
  <2>1. \A n \in S : New(jobs[n].id)
    BY <1>s DEF New
  <2>2. \A n, m \in S : jobs[n].id = jobs[m].id => n = m
    BY <1>s DEF StationsOK, StationOrder
  <2>3. CASE job.kind = "station"
    <3> SUFFICES ASSUME NEW n \in S1, NEW m \in S1, jobs'[n].id = jobs'[m].id PROVE n = m
      OBVIOUS
    <3>1. CASE n \in S /\ m \in S
      BY <1>8, <2>2, <3>1
    <3>2. CASE n = last /\ m = last
      BY <3>2
    <3>3. \A k \in S : jobs'[k].id # job.id
      BY <1>4, <1>8, <2>1, <2>3
    <3> QED BY <1>2, <1>5, <2>3, <3>1, <3>2, <3>3
  <2>4. CASE job.kind # "station"
    BY <1>5, <1>8, <2>2, <2>4
  <2> QED BY <2>3, <2>4
<1>14. \A n, m \in U1 : jobs'[n].id = jobs'[m].id => n = m
  <2>1. \A n, m \in U : jobs[n].id = jobs[m].id => n = m
    BY <1>s DEF StationsOK, StationOrder
  <2>2. CASE job.kind = "update"
    <3> SUFFICES ASSUME NEW n \in U1, NEW m \in U1, jobs'[n].id = jobs'[m].id PROVE n = m
      OBVIOUS
    <3>1. CASE n \in U /\ m \in U
      BY <1>8, <2>1, <3>1
    <3>2. CASE n = last /\ m = last
      BY <3>2
    <3>3. \A k \in U : jobs'[k].id # job.id
      BY <1>4, <1>8, <2>1, <2>2
    <3> QED BY <1>2, <1>5, <2>2, <3>1, <3>2, <3>3
  <2>3. CASE job.kind # "update"
    BY <1>5, <1>8, <2>1, <2>3
  <2> QED BY <2>2, <2>3
<1>15. StationOrder'
  BY <1>s, <1>12, <1>13, <1>14 DEF StationOrder
<1> QED BY <1>s, <1>9, <1>10, <1>11, <1>15

LEMMA StationQueueShrinks ==
  ASSUME CatTypes, StationsOK, jobs # <<>>, jobs' = Tail(jobs), NEW job, job = Head(jobs)
  PROVE  /\ \A s : s \in Updating' <=> (s \in Updating /\ ~(job.kind = "update" /\ s = job.id))
         /\ \A s : New(s)' <=> (New(s) /\ ~(job.kind = "station" /\ s = job.id))
         /\ \A n \in Of({"update"})' : n + 1 \in Of({"update"}) /\ jobs'[n] = jobs[n + 1]
                                       /\ (job.kind = "update" => jobs'[n].id # job.id)
         /\ StationOrder'
         /\ job.kind = "station" => New(job.id)
         /\ job.kind = "update" => job.id \in Updating /\ ~New(job.id) /\ 1 \in Of({"update"})
         /\ job \in CatJob /\ jobs' \in Seq(CatJob) /\ job = jobs[1]
<1>1. /\ job = jobs[1] /\ job \in CatJob /\ 1 \in DOMAIN jobs /\ jobs' \in Seq(CatJob)
      /\ \A n \in DOMAIN jobs : n \in Nat /\ n >= 1
      /\ \A n \in DOMAIN jobs' : n \in Nat /\ n >= 1 /\ n + 1 \in DOMAIN jobs /\ jobs'[n] = jobs[n + 1]
      /\ \A n \in DOMAIN jobs : n # 1 => n - 1 \in DOMAIN jobs' /\ jobs'[n - 1] = jobs[n]
      /\ \A kinds : /\ \A n \in Of(kinds)' : n + 1 \in Of(kinds)
                    /\ \A n \in Of(kinds) : n # 1 => n - 1 \in Of(kinds)'
  BY JobDone DEF CatTypes
<1>2. \A kinds : /\ \A n \in Of(kinds) : n \in DOMAIN jobs /\ jobs[n].kind \in kinds
                 /\ \A n \in Of(kinds)' : n \in DOMAIN jobs' /\ jobs'[n].kind \in kinds
                 /\ job.kind \in kinds => 1 \in Of(kinds)
  BY <1>1 DEF Of
<1>s. PICK S, U, S1, U1 : /\ S = Of({"station"}) /\ S1 = Of({"station"})'
                          /\ U = Of({"update"}) /\ U1 = Of({"update"})'
  OBVIOUS
<1>3. /\ \A n \in U : n \in Nat /\ n >= 1 /\ (n # 1 => n - 1 \in U1 /\ jobs'[n - 1] = jobs[n])
                                   /\ (n = 1 => job.kind = "update")
      /\ \A n \in U1 : n \in Nat /\ n >= 1 /\ n + 1 \in U /\ jobs'[n] = jobs[n + 1]
      /\ job.kind = "update" => 1 \in U
  <2>1. "update" \in {"update"} /\ (job.kind \in {"update"} => job.kind = "update")
    OBVIOUS
  <2> QED BY <1>s, <1>1, <1>2, <2>1
<1>4. /\ \A n \in S : n \in Nat /\ n >= 1 /\ (n # 1 => n - 1 \in S1 /\ jobs'[n - 1] = jobs[n])
                                    /\ (n = 1 => job.kind = "station")
      /\ \A n \in S1 : n \in Nat /\ n >= 1 /\ n + 1 \in S /\ jobs'[n] = jobs[n + 1]
      /\ job.kind = "station" => 1 \in S
  <2>1. "station" \in {"station"} /\ (job.kind \in {"station"} => job.kind = "station")
    OBVIOUS
  <2> QED BY <1>s, <1>1, <1>2, <2>1
<1>o. /\ \A n \in S, m \in U : jobs[n].id = jobs[m].id => n < m
      /\ \A n, m \in S : jobs[n].id = jobs[m].id => n = m
      /\ \A n, m \in U : jobs[n].id = jobs[m].id => n = m
  BY <1>s DEF StationsOK, StationOrder
<1>5. /\ \A s : s \in Updating <=> \E n \in U : jobs[n].id = s
      /\ \A s : s \in Updating' <=> \E n \in U1 : jobs'[n].id = s
  BY <1>s DEF Updating, Of
<1>6. \A n \in U1 : job.kind = "update" => jobs'[n].id # job.id
  <2> SUFFICES ASSUME NEW n \in U1, job.kind = "update", jobs'[n].id = job.id PROVE FALSE
    OBVIOUS
  <2>0. n + 1 \in U /\ 1 \in U /\ jobs[n + 1].id = jobs[1].id
    BY <1>1, <1>3
  <2>1. n + 1 = 1
    BY <2>0, <1>o
  <2> QED BY <1>3, <2>1
<1>7. \A n \in S1 : job.kind = "station" => jobs'[n].id # job.id
  <2> SUFFICES ASSUME NEW n \in S1, job.kind = "station", jobs'[n].id = job.id PROVE FALSE
    OBVIOUS
  <2>0. n + 1 \in S /\ 1 \in S /\ jobs[n + 1].id = jobs[1].id
    BY <1>1, <1>4
  <2>1. n + 1 = 1
    BY <2>0, <1>o
  <2> QED BY <1>4, <2>1
<1>8. \A s : s \in Updating' <=> (s \in Updating /\ ~(job.kind = "update" /\ s = job.id))
  <2>1. ASSUME NEW s, s \in Updating' PROVE s \in Updating /\ ~(job.kind = "update" /\ s = job.id)
    <3>1. PICK n \in U1 : jobs'[n].id = s
      BY <1>5, <2>1
    <3>2. jobs[n + 1].id = s /\ n + 1 \in U
      BY <1>3, <3>1
    <3> QED BY <1>5, <1>6, <3>1, <3>2
  <2>2. ASSUME NEW s, s \in Updating, ~(job.kind = "update" /\ s = job.id) PROVE s \in Updating'
    <3>1. PICK n \in U : jobs[n].id = s
      BY <1>5, <2>2
    <3>2. n # 1
      BY <1>1, <1>3, <2>2, <3>1
    <3> QED BY <1>3, <1>5, <3>1, <3>2
  <2> QED BY <2>1, <2>2
<1>9. \A s : New(s)' <=> (New(s) /\ ~(job.kind = "station" /\ s = job.id))
  <2>1. ASSUME NEW s, New(s)' PROVE New(s) /\ ~(job.kind = "station" /\ s = job.id)
    BY <1>s, <1>4, <1>7, <2>1 DEF New
  <2>2. ASSUME NEW s, New(s), ~(job.kind = "station" /\ s = job.id) PROVE New(s)'
    <3>1. PICK n \in S : jobs[n].id = s
      BY <1>s, <2>2 DEF New
    <3>2. n # 1
      BY <1>1, <1>4, <2>2, <3>1
    <3> QED BY <1>s, <1>4, <3>1, <3>2 DEF New
  <2> QED BY <2>1, <2>2
<1>10. \A n \in S1, m \in U1 : jobs'[n].id = jobs'[m].id => n < m
  <2> SUFFICES ASSUME NEW n \in S1, NEW m \in U1, jobs'[n].id = jobs'[m].id
               PROVE  n < m
    OBVIOUS
  <2>0. n \in Nat /\ m \in Nat /\ n + 1 \in S /\ m + 1 \in U /\ jobs[n + 1].id = jobs[m + 1].id
    BY <1>3, <1>4
  <2>1. n + 1 < m + 1
    BY <2>0, <1>o
  <2> QED BY <1>3, <1>4, <2>1
<1>11. \A n, m \in S1 : jobs'[n].id = jobs'[m].id => n = m
  <2> SUFFICES ASSUME NEW n \in S1, NEW m \in S1, jobs'[n].id = jobs'[m].id
               PROVE  n = m
    OBVIOUS
  <2>0. n \in Nat /\ m \in Nat /\ n + 1 \in S /\ m + 1 \in S /\ jobs[n + 1].id = jobs[m + 1].id
    BY <1>4
  <2>1. n + 1 = m + 1
    BY <2>0, <1>o
  <2> QED BY <1>4, <2>1
<1>12. \A n, m \in U1 : jobs'[n].id = jobs'[m].id => n = m
  <2> SUFFICES ASSUME NEW n \in U1, NEW m \in U1, jobs'[n].id = jobs'[m].id
               PROVE  n = m
    OBVIOUS
  <2>0. n \in Nat /\ m \in Nat /\ n + 1 \in U /\ m + 1 \in U /\ jobs[n + 1].id = jobs[m + 1].id
    BY <1>3
  <2>1. n + 1 = m + 1
    BY <2>0, <1>o
  <2> QED BY <1>3, <2>1
<1>13. job.kind = "station" => New(job.id)
  BY <1>s, <1>1, <1>4 DEF New
<1>14. job.kind = "update" => job.id \in Updating /\ ~New(job.id) /\ 1 \in U
  <2> SUFFICES ASSUME job.kind = "update" PROVE job.id \in Updating /\ ~New(job.id) /\ 1 \in U
    OBVIOUS
  <2>1. job.id \in Updating
    BY <1>1, <1>3, <1>5
  <2>2. ASSUME NEW n \in S, jobs[n].id = job.id PROVE FALSE
    <3>1. n < 1
      BY <1>1, <1>3, <2>2, <1>o
    <3> QED BY <1>4, <3>1
  <2> QED BY <1>s, <1>3, <2>1, <2>2 DEF New
<1>15. StationOrder'
  BY <1>s, <1>10, <1>11, <1>12 DEF StationOrder
<1> QED BY <1>s, <1>1, <1>3, <1>6, <1>8, <1>9, <1>13, <1>14, <1>15

LEMMA StationTypes ==
  ASSUME CatTypes
  PROVE  /\ stations \in [Station -> StationStatus \cup {None}] /\ db.stations \in [Station -> StationStatus \cup {None}]
         /\ "ACTIVE" \in StationStatus /\ None \notin StationStatus
         /\ \A s \in Station : (s \in Rows(stations) <=> stations[s] # None) /\ Base(s) \in StationStatus
         /\ Station \subseteq Nat /\ seq.station \in Nat
<1>1. /\ stations \in [Station -> StationStatus \cup {None}] /\ db.stations \in [Station -> StationStatus \cup {None}]
      /\ seq.station \in Nat
  BY DEF CatTypes
<1>2. "ACTIVE" \in StationStatus /\ None \notin StationStatus
  BY CatalogueAssumption DEF StationStatus
<1>3. \A s \in Station : (s \in Rows(stations) <=> stations[s] # None) /\ Base(s) \in StationStatus
  BY <1>1, <1>2 DEF Rows, Base
<1>4. Station \subseteq Nat
  BY DEF Station
<1> QED BY <1>1, <1>2, <1>3, <1>4

\* A mirror of something else that joins the queue.
LEMMA OtherAddedStations ==
  ASSUME CatTypes, StationsOK, stations' = stations, db'.stations = db.stations, seq'.station = seq.station,
         NEW job \in CatJob, job.kind \in {"plan", "cp"}, jobs' = Append(jobs, job)
  PROVE  StationsOK'
<1>1. job.kind # "update" /\ job.kind # "station"
  OBVIOUS
<1>2. /\ \A s : s \in Updating' <=> s \in Updating
      /\ \A s : New(s)' <=> New(s)
      /\ \A n \in Of({"update"})' : n \in Of({"update"}) /\ jobs'[n] = jobs[n]
      /\ StationOrder'
  BY <1>1, StationQueueGrows
<1>3. Rows(stations') = Rows(stations) /\ \A s : Base(s)' = Base(s)
  BY DEF Rows, Base
<1>4. StationRows'
  BY <1>2, <1>3 DEF StationsOK, StationRows
<1>5. UpdatesRemember'
  <2> SUFFICES ASSUME NEW n \in Of({"update"})'
               PROVE  (/\ stations[jobs[n].id] # None => jobs[n].before = Base(jobs[n].id)
                       /\ jobs[n].id <= seq.station)'
    BY DEF UpdatesRemember
  <2>1. PICK job1 : job1 = jobs[n]
    OBVIOUS
  <2>2. n \in Of({"update"}) /\ jobs'[n] = job1
    BY <1>2, <2>1
  <2>3. (stations[job1.id] # None => job1.before = Base(job1.id)) /\ job1.id <= seq.station
    BY <2>1, <2>2 DEF StationsOK, UpdatesRemember
  <2> QED BY <2>2, <2>3 DEF Base
<1>6. StationsCounted'
  BY <1>3 DEF StationsOK, StationsCounted
<1> QED BY <1>2, <1>4, <1>5, <1>6 DEF StationsOK

\* A mirror of something else that leaves it.
LEMMA OtherDoneStations ==
  ASSUME CatTypes, StationsOK, stations' = stations, db'.stations = db.stations, seq'.station = seq.station,
         jobs # <<>>, Head(jobs).kind \in {"plan", "cp"}, jobs' = Tail(jobs)
  PROVE  StationsOK'
<1>1. PICK job : job = Head(jobs)
  OBVIOUS
<1>2. job.kind # "update" /\ job.kind # "station"
  BY <1>1
<1>3. /\ \A s : s \in Updating' <=> s \in Updating
      /\ \A s : New(s)' <=> New(s)
      /\ \A n \in Of({"update"})' : n + 1 \in Of({"update"}) /\ jobs'[n] = jobs[n + 1]
      /\ StationOrder'
  BY <1>1, <1>2, StationQueueShrinks
<1>4. Rows(stations') = Rows(stations) /\ \A s : Base(s)' = Base(s)
  BY DEF Rows, Base
<1>5. StationRows'
  BY <1>3, <1>4 DEF StationsOK, StationRows
<1>6. UpdatesRemember'
  <2> SUFFICES ASSUME NEW n \in Of({"update"})'
               PROVE  (/\ stations[jobs[n].id] # None => jobs[n].before = Base(jobs[n].id)
                       /\ jobs[n].id <= seq.station)'
    BY DEF UpdatesRemember
  <2>1. PICK job1 : job1 = jobs[n + 1]
    OBVIOUS
  <2>2. n + 1 \in Of({"update"}) /\ jobs'[n] = job1
    BY <1>3, <2>1
  <2>3. (stations[job1.id] # None => job1.before = Base(job1.id)) /\ job1.id <= seq.station
    BY <2>1, <2>2 DEF StationsOK, UpdatesRemember
  <2> QED BY <2>2, <2>3 DEF Base
<1>7. StationsCounted'
  BY <1>4 DEF StationsOK, StationsCounted
<1> QED BY <1>3, <1>5, <1>6, <1>7 DEF StationsOK

LEMMA NewCpsAre ==
  ASSUME CatTypes, NEW ids \in SUBSET Ident, NEW s \in Station, NEW f \in NewCps(s, ids),
         seq.cp + Cardinality(ids) <= MaxCp
  PROVE  /\ Cardinality(ids) \in Nat
         /\ DOMAIN f = seq.cp + 1 .. seq.cp + Cardinality(ids) /\ DOMAIN f \subseteq Cp
         /\ \A c \in DOMAIN f : c \in Cp /\ c > seq.cp /\ f[c] \in CpRow /\ f[c].ident \in ids
         /\ \A c, d \in DOMAIN f : c # d => f[c].ident # f[d].ident
         /\ f \in UNION {[D -> CpRow] : D \in SUBSET Cp}
<1>1. PICK k : k = Cardinality(ids)
  OBVIOUS
<1>2. k \in Nat
  <2>1. IsFiniteSet(ids)
    BY CatalogueAssumption, FS_Subset
  <2> QED BY <1>1, <2>1, FS_CardinalityType
<1>3. PICK n : n = seq.cp + 1 .. seq.cp + k
  OBVIOUS
<1>4. seq.cp \in Nat /\ MaxCp \in Nat
  BY CatalogueAssumption DEF CatTypes
<1>5. n \subseteq Cp /\ \A c \in n : c > seq.cp
  BY <1>1, <1>2, <1>3, <1>4 DEF Cp
<1>6. f \in [n -> [station : {s}, ident : ids]] /\ \A c, d \in n : c # d => f[c].ident # f[d].ident
  BY <1>1, <1>3 DEF NewCps
<1>7. \A c \in n : f[c] \in CpRow /\ f[c].ident \in ids
  BY <1>6 DEF CpRow
<1>8. DOMAIN f = n /\ f \in [n -> CpRow]
  BY <1>6, <1>7
<1>9. f \in UNION {[D -> CpRow] : D \in SUBSET Cp}
  BY <1>5, <1>8
<1> QED BY <1>1, <1>2, <1>3, <1>5, <1>6, <1>7, <1>8, <1>9

LEMMA HardwareJobIs ==
  ASSUME NEW kind \in {"station", "cp"}, NEW s \in Station, NEW f \in UNION {[D -> CpRow] : D \in SUBSET Cp},
         NEW job, job = [kind |-> kind, id |-> s, cps |-> f]
  PROVE  job \in CatJob /\ job.kind = kind /\ job.id = s /\ job.cps = f
<1>1. job \in [kind : {"station", "cp"}, id : Station, cps : UNION {[D -> CpRow] : D \in SUBSET Cp}]
  OBVIOUS
<1> QED BY <1>1 DEF CatJob

LEMMA ProvisionedStations ==
  ASSUME CatTypes, StationsOK, NEW ids \in SUBSET Ident, ProvisionStation(ids)
  PROVE  StationsOK' /\ stations' \in [Station -> StationStatus \cup {None}] /\ seq'.station \in Nat
<1>1. PICK s : s = seq.station + 1
  OBVIOUS
<1>2. /\ s \in Nat /\ s \in Station /\ seq'.station = s /\ stations' = [stations EXCEPT ![s] = "ACTIVE"] /\ db' = db
      /\ seq.station \in Nat /\ seq.station < s
  <2>1. seq.station \in Nat /\ seq.station < MaxStation /\ MaxStation \in Nat
    BY StationTypes, CatalogueAssumption DEF ProvisionStation
  <2>2. seq' = [seq EXCEPT !.station = s, !.cp = @ + Cardinality(ids)]
        /\ stations' = [stations EXCEPT ![s] = "ACTIVE"] /\ db' = db
    BY <1>1 DEF ProvisionStation
  <2>3. s \in Station /\ s \in Nat /\ seq.station < s
    BY <1>1, <2>1 DEF Station
  <2>4. seq'.station = s
    BY <2>2 DEF CatTypes
  <2> QED BY <2>1, <2>2, <2>3, <2>4
<1>3. PICK f \in NewCps(s, ids) : jobs' = Append(jobs, [kind |-> "station", id |-> s, cps |-> f])
  BY <1>1 DEF ProvisionStation, Queue
<1>4. PICK job : job = [kind |-> "station", id |-> s, cps |-> f]
  OBVIOUS
<1>5. job \in CatJob /\ job.kind = "station" /\ job.id = s
  <2>1. seq.cp + Cardinality(ids) <= MaxCp
    BY DEF ProvisionStation
  <2>2. f \in UNION {[D -> CpRow] : D \in SUBSET Cp}
    BY <1>2, <2>1, NewCpsAre
  <2>3. "station" \in {"station", "cp"}
    OBVIOUS
  <2> QED BY <1>2, <1>4, <2>2, <2>3, HardwareJobIs
<1>6. stations[s] = None /\ ~New(s) /\ db.stations[s] = None
  <2>1. s \notin Rows(stations)
    BY <1>2 DEF StationsOK, StationsCounted
  <2>2. stations[s] = None
    BY <1>2, <2>1, StationTypes
  <2> QED BY <1>2, <2>2 DEF StationsOK, StationRows
<1>7. s \notin Updating
  <2> SUFFICES ASSUME NEW n \in Of({"update"}), jobs[n].id = s PROVE FALSE
    BY DEF Updating, Of
  <2>1. s <= seq.station
    BY DEF StationsOK, UpdatesRemember
  <2> QED BY <1>2, <2>1
<1>8. /\ \A t : t \in Updating' <=> t \in Updating
      /\ \A t : New(t)' <=> (New(t) \/ t = s)
      /\ \A n \in Of({"update"})' : n \in Of({"update"}) /\ jobs'[n] = jobs[n]
      /\ StationOrder'
  BY <1>3, <1>4, <1>5, <1>6, <1>7, StationQueueGrows
<1>9. /\ stations' \in [Station -> StationStatus \cup {None}] /\ stations'[s] = "ACTIVE"
      /\ \A t \in Station : t # s => stations'[t] = stations[t]
  BY <1>2, StationTypes
<1>10. \A t : Base(t)' = Base(t)
  BY <1>2 DEF Base
<1>11. StationRows'
  <2> SUFFICES ASSUME NEW t \in Station
               PROVE  (/\ New(t) => db.stations[t] = None
                       /\ stations[t] # None <=> New(t) \/ db.stations[t] # None
                       /\ stations[t] # None /\ t \notin Updating => stations[t] = Base(t))'
    BY DEF StationRows
  <2>1. CASE t = s
    <3>1. Base(t)' = "ACTIVE" /\ stations'[t] = "ACTIVE" /\ "ACTIVE" # None
      BY <1>6, <1>9, <1>10, <2>1, StationTypes DEF Base
    <3> QED BY <1>2, <1>6, <1>8, <2>1, <3>1
  <2>2. CASE t # s
    BY <1>2, <1>8, <1>9, <1>10, <2>2 DEF StationsOK, StationRows
  <2> QED BY <2>1, <2>2
<1>12. UpdatesRemember'
  <2> SUFFICES ASSUME NEW n \in Of({"update"})'
               PROVE  (/\ stations[jobs[n].id] # None => jobs[n].before = Base(jobs[n].id)
                       /\ jobs[n].id <= seq.station)'
    BY DEF UpdatesRemember
  <2>1. PICK job1 : job1 = jobs[n]
    OBVIOUS
  <2>2. n \in Of({"update"}) /\ jobs'[n] = job1
    BY <1>8, <2>1
  <2>3. (stations[job1.id] # None => job1.before = Base(job1.id)) /\ job1.id <= seq.station
    BY <2>1, <2>2 DEF StationsOK, UpdatesRemember
  <2>4. job1.id # s /\ job1.id \in Station
    <3>1. job1 \in CatJob /\ job1.kind = "update"
      BY <2>1, <2>2 DEF CatTypes, Of
    <3>2. job1.id \in Updating
      BY <2>1, <2>2 DEF Updating, Of
    <3> QED BY <1>7, <3>1, <3>2, JobIs
  <2>5. stations'[job1.id] = stations[job1.id] /\ Base(job1.id)' = Base(job1.id)
    BY <1>9, <1>10, <2>4
  <2>6. job1.id <= seq'.station
    <3>1. job1.id \in Nat /\ seq'.station \in Nat /\ seq.station < seq'.station
      BY <1>2, <2>4, StationTypes
    <3> QED BY <1>2, <2>3, <3>1
  <2> QED BY <2>2, <2>3, <2>5, <2>6 DEF Base
<1>13. StationsCounted'
  <2>1. ASSUME NEW t \in Rows(stations') PROVE t <= s
    <3>1. t \in Station /\ stations'[t] # None /\ t \in Nat
      BY <1>9, <2>1, StationTypes DEF Rows
    <3>2. CASE t = s
      BY <1>2, <3>2
    <3>3. CASE t # s
      <4>1. t <= seq.station
        BY <1>9, <3>1, <3>3, StationTypes DEF StationsOK, StationsCounted
      <4> QED BY <1>2, <3>1, <4>1
    <3> QED BY <3>2, <3>3
  <2> QED BY <1>2, <2>1 DEF StationsCounted
<1> QED BY <1>2, <1>8, <1>9, <1>11, <1>12, <1>13 DEF StationsOK

LEMMA UpdateStaged ==
  ASSUME CatTypes, StationsOK, NEW s \in Station, NEW to \in StationStatus, UpdateStation(s, to)
  PROVE  /\ StationsOK' /\ stations' \in [Station -> StationStatus \cup {None}]
         /\ \E job \in CatJob : job.kind = "update" /\ jobs' = Append(jobs, job)
<1>1. PICK job : job = [kind |-> "update", id |-> s, before |-> stations[s]]
  OBVIOUS
<1>2. /\ stations[s] # None /\ s \notin Updating /\ stations' = [stations EXCEPT ![s] = to]
      /\ jobs' = Append(jobs, job) /\ seq' = seq /\ db' = db
  BY <1>1 DEF UpdateStation, Queue
<1>3. stations[s] = Base(s) /\ stations[s] \in StationStatus /\ s <= seq.station
  <2>1. stations[s] = Base(s)
    BY <1>2 DEF StationsOK, StationRows
  <2>2. s \in Rows(stations)
    BY <1>2, StationTypes
  <2> QED BY <2>1, <2>2, StationTypes DEF StationsOK, StationsCounted
<1>4. job \in CatJob /\ job.kind = "update" /\ job.id = s /\ job.before = stations[s]
  BY <1>1, <1>3 DEF CatJob
<1>5. /\ \A t : t \in Updating' <=> (t \in Updating \/ t = s)
      /\ \A t : New(t)' <=> New(t)
      /\ \A n \in Of({"update"})' : (n \in Of({"update"}) /\ jobs'[n] = jobs[n]) \/ jobs'[n] = job
      /\ StationOrder'
  BY <1>2, <1>4, StationQueueGrows
<1>6. /\ stations' \in [Station -> StationStatus \cup {None}] /\ stations'[s] = to /\ to # None
      /\ \A t \in Station : t # s => stations'[t] = stations[t]
  BY <1>2, StationTypes
<1>7. \A t : Base(t)' = Base(t)
  BY <1>2 DEF Base
<1>8. StationRows'
  <2> SUFFICES ASSUME NEW t \in Station
               PROVE  (/\ New(t) => db.stations[t] = None
                       /\ stations[t] # None <=> New(t) \/ db.stations[t] # None
                       /\ stations[t] # None /\ t \notin Updating => stations[t] = Base(t))'
    BY DEF StationRows
  <2>1. (New(t) => db.stations[t] = None) /\ (stations[t] # None <=> New(t) \/ db.stations[t] # None)
        /\ (stations[t] # None /\ t \notin Updating => stations[t] = Base(t))
    BY DEF StationsOK, StationRows
  <2>2. CASE t = s
    BY <1>2, <1>5, <1>6, <2>1, <2>2
  <2>3. CASE t # s
    BY <1>2, <1>5, <1>6, <1>7, <2>1, <2>3
  <2> QED BY <2>2, <2>3
<1>9. UpdatesRemember'
  <2> SUFFICES ASSUME NEW n \in Of({"update"})'
               PROVE  (/\ stations[jobs[n].id] # None => jobs[n].before = Base(jobs[n].id)
                       /\ jobs[n].id <= seq.station)'
    BY DEF UpdatesRemember
  <2>1. CASE jobs'[n] = job
    <3>1. job.before = Base(s)' /\ job.id = s /\ s <= seq'.station
      BY <1>2, <1>3, <1>4, <1>7
    <3> QED BY <2>1, <3>1 DEF Base
  <2>2. CASE n \in Of({"update"}) /\ jobs'[n] = jobs[n]
    <3>1. PICK job1 : job1 = jobs[n]
      OBVIOUS
    <3>2. (stations[job1.id] # None => job1.before = Base(job1.id)) /\ job1.id <= seq.station
      BY <2>2, <3>1 DEF StationsOK, UpdatesRemember
    <3>3. job1.id # s /\ job1.id \in Station
      <4>1. job1 \in CatJob /\ job1.kind = "update"
        BY <2>2, <3>1 DEF CatTypes, Of
      <4>2. job1.id \in Updating
        BY <2>2, <3>1 DEF Updating, Of
      <4> QED BY <1>2, <4>1, <4>2, JobIs
    <3>4. stations'[job1.id] = stations[job1.id]
      BY <1>6, <3>3
    <3> QED BY <1>2, <2>2, <3>1, <3>2, <3>4 DEF Base
  <2> QED BY <1>5, <2>1, <2>2
<1>10. StationsCounted'
  <2>1. Rows(stations') = Rows(stations)
    BY <1>2, <1>6, StationTypes DEF Rows
  <2> QED BY <1>2, <2>1 DEF StationsOK, StationsCounted
<1> QED BY <1>2, <1>4, <1>5, <1>6, <1>8, <1>9, <1>10 DEF StationsOK

LEMMA StationStored ==
  ASSUME CatTypes, StationsOK, CatalogueStored, Head(jobs).kind = "station"
  PROVE  StationsOK' /\ db'.stations \in [Station -> StationStatus \cup {None}]
<1>1. PICK job, s : job = Head(jobs) /\ s = job.id
  OBVIOUS
<1>2. /\ jobs # <<>> /\ jobs' = Tail(jobs) /\ job.kind = "station" /\ stations' = stations /\ seq' = seq
      /\ db' = HardwareRows(job)
  BY <1>1 DEF CatalogueStored
<1>3. /\ \A t : t \in Updating' <=> t \in Updating
      /\ \A t : New(t)' <=> (New(t) /\ t # s)
      /\ \A n \in Of({"update"})' : n + 1 \in Of({"update"}) /\ jobs'[n] = jobs[n + 1]
      /\ StationOrder' /\ New(s) /\ job \in CatJob
  BY <1>1, <1>2, StationQueueShrinks
<1>4. s \in Station
  BY <1>1, <1>2, <1>3, JobIs
<1>5. db.stations[s] = None /\ stations[s] # None
  BY <1>3, <1>4 DEF StationsOK, StationRows
<1>6. /\ db'.stations = [db.stations EXCEPT ![s] = "ACTIVE"]
  BY <1>1, <1>2 DEF HardwareRows, CatTypes
<1>7. /\ db'.stations \in [Station -> StationStatus \cup {None}] /\ db'.stations[s] = "ACTIVE" /\ "ACTIVE" # None
      /\ \A t \in Station : t # s => db'.stations[t] = db.stations[t]
  BY <1>4, <1>6, StationTypes
<1>8. \A t \in Station : Base(t)' = Base(t)
  BY <1>5, <1>7 DEF Base
<1>9. StationRows'
  <2> SUFFICES ASSUME NEW t \in Station
               PROVE  (/\ New(t) => db.stations[t] = None
                       /\ stations[t] # None <=> New(t) \/ db.stations[t] # None
                       /\ stations[t] # None /\ t \notin Updating => stations[t] = Base(t))'
    BY DEF StationRows
  <2>1. (New(t) => db.stations[t] = None) /\ (stations[t] # None <=> New(t) \/ db.stations[t] # None)
        /\ (stations[t] # None /\ t \notin Updating => stations[t] = Base(t))
    BY DEF StationsOK, StationRows
  <2>2. CASE t = s
    BY <1>2, <1>3, <1>5, <1>7, <1>8, <2>1, <2>2
  <2>3. CASE t # s
    BY <1>2, <1>3, <1>7, <1>8, <2>1, <2>3
  <2> QED BY <2>2, <2>3
<1>10. UpdatesRemember'
  <2> SUFFICES ASSUME NEW n \in Of({"update"})'
               PROVE  (/\ stations[jobs[n].id] # None => jobs[n].before = Base(jobs[n].id)
                       /\ jobs[n].id <= seq.station)'
    BY DEF UpdatesRemember
  <2>1. PICK job1 : job1 = jobs[n + 1]
    OBVIOUS
  <2>2. n + 1 \in Of({"update"}) /\ jobs'[n] = job1
    BY <1>3, <2>1
  <2>3. (stations[job1.id] # None => job1.before = Base(job1.id)) /\ job1.id <= seq.station
    BY <2>1, <2>2 DEF StationsOK, UpdatesRemember
  <2>4. job1.id \in Station
    <3>1. job1 \in CatJob /\ job1.kind = "update"
      BY <2>1, <2>2 DEF CatTypes, Of
    <3> QED BY <3>1, JobIs
  <2>5. Base(job1.id)' = Base(job1.id)
    BY <1>8, <2>4
  <2> QED BY <1>2, <2>2, <2>3, <2>5 DEF Base
<1>11. StationsCounted'
  BY <1>2 DEF StationsOK, StationsCounted, Rows
<1> QED BY <1>3, <1>7, <1>9, <1>10, <1>11 DEF StationsOK

LEMMA StationFailed ==
  ASSUME CatTypes, StationsOK, HardwareFails, Head(jobs).kind = "station"
  PROVE  StationsOK' /\ stations' \in [Station -> StationStatus \cup {None}]
<1>1. PICK job, s : job = Head(jobs) /\ s = job.id
  OBVIOUS
<1>2. /\ jobs # <<>> /\ jobs' = Tail(jobs) /\ job.kind = "station" /\ stations' = [stations EXCEPT ![s] = None]
      /\ seq' = seq /\ db' = db
  BY <1>1 DEF HardwareFails, HardwareUndone
<1>3. /\ \A t : t \in Updating' <=> t \in Updating
      /\ \A t : New(t)' <=> (New(t) /\ t # s)
      /\ \A n \in Of({"update"})' : n + 1 \in Of({"update"}) /\ jobs'[n] = jobs[n + 1]
      /\ StationOrder' /\ New(s) /\ job \in CatJob
  BY <1>1, <1>2, StationQueueShrinks
<1>4. s \in Station
  BY <1>1, <1>2, <1>3, JobIs
<1>5. db.stations[s] = None
  BY <1>3, <1>4 DEF StationsOK, StationRows
<1>6. /\ stations' \in [Station -> StationStatus \cup {None}] /\ stations'[s] = None
      /\ \A t \in Station : t # s => stations'[t] = stations[t]
  BY <1>2, <1>4, StationTypes
<1>7. \A t : Base(t)' = Base(t)
  BY <1>2 DEF Base
<1>8. StationRows'
  <2> SUFFICES ASSUME NEW t \in Station
               PROVE  (/\ New(t) => db.stations[t] = None
                       /\ stations[t] # None <=> New(t) \/ db.stations[t] # None
                       /\ stations[t] # None /\ t \notin Updating => stations[t] = Base(t))'
    BY DEF StationRows
  <2>1. (New(t) => db.stations[t] = None) /\ (stations[t] # None <=> New(t) \/ db.stations[t] # None)
        /\ (stations[t] # None /\ t \notin Updating => stations[t] = Base(t))
    BY DEF StationsOK, StationRows
  <2>2. CASE t = s
    BY <1>2, <1>3, <1>5, <1>6, <2>2
  <2>3. CASE t # s
    BY <1>2, <1>3, <1>6, <1>7, <2>1, <2>3
  <2> QED BY <2>2, <2>3
<1>9. UpdatesRemember'
  <2> SUFFICES ASSUME NEW n \in Of({"update"})'
               PROVE  (/\ stations[jobs[n].id] # None => jobs[n].before = Base(jobs[n].id)
                       /\ jobs[n].id <= seq.station)'
    BY DEF UpdatesRemember
  <2>1. PICK job1 : job1 = jobs[n + 1]
    OBVIOUS
  <2>2. n + 1 \in Of({"update"}) /\ jobs'[n] = job1
    BY <1>3, <2>1
  <2>3. (stations[job1.id] # None => job1.before = Base(job1.id)) /\ job1.id <= seq.station
    BY <2>1, <2>2 DEF StationsOK, UpdatesRemember
  <2>4. job1.id \in Station
    <3>1. job1 \in CatJob /\ job1.kind = "update"
      BY <2>1, <2>2 DEF CatTypes, Of
    <3> QED BY <3>1, JobIs
  <2>5. stations'[job1.id] # None => stations[job1.id] # None
    BY <1>6, <2>4
  <2> QED BY <1>2, <2>2, <2>3, <2>5 DEF Base
<1>10. StationsCounted'
  <2>1. Rows(stations') \subseteq Rows(stations)
    BY <1>2, <1>6, StationTypes DEF Rows
  <2> QED BY <1>2, <2>1 DEF StationsOK, StationsCounted
<1> QED BY <1>3, <1>6, <1>8, <1>9, <1>10 DEF StationsOK

\* A committed update: the row takes what memory says, which is what the update wrote.
LEMMA UpdateStored ==
  ASSUME CatTypes, StationsOK, CatalogueStored, Head(jobs).kind = "update"
  PROVE  /\ StationsOK' /\ db'.stations \in [Station -> StationStatus \cup {None}]
         /\ db'.plans = db.plans /\ db'.cps = db.cps
<1>1. PICK job, s : job = Head(jobs) /\ s = job.id
  OBVIOUS
<1>2. /\ jobs # <<>> /\ jobs' = Tail(jobs) /\ job.kind = "update" /\ stations' = stations /\ seq' = seq
      /\ db' = UpdatedRow(s)
  BY <1>1 DEF CatalogueStored
<1>3. /\ \A t : t \in Updating' <=> (t \in Updating /\ t # s)
      /\ \A t : New(t)' <=> New(t)
      /\ \A n \in Of({"update"})' : n + 1 \in Of({"update"}) /\ jobs'[n] = jobs[n + 1] /\ jobs'[n].id # s
      /\ StationOrder' /\ ~New(s) /\ job \in CatJob
  BY <1>1, <1>2, StationQueueShrinks
<1>4. s \in Station
  BY <1>1, <1>2, <1>3, JobIs
<1>5. stations[s] # None <=> db.stations[s] # None
  BY <1>3, <1>4 DEF StationsOK, StationRows
<1>6. /\ db'.stations \in [Station -> StationStatus \cup {None}] /\ db'.stations[s] = stations[s]
      /\ \A t \in Station : t # s => db'.stations[t] = db.stations[t]
      /\ db'.plans = db.plans /\ db'.cps = db.cps
  <2>1. CASE stations[s] = None
    BY <1>2, <1>5, <2>1, StationTypes DEF UpdatedRow
  <2>2. CASE stations[s] # None
    <3>1. db' = [db EXCEPT !.stations[s] = stations[s]]
      BY <1>2, <1>5, <2>2 DEF UpdatedRow
    <3>2. db'.stations = [db.stations EXCEPT ![s] = stations[s]] /\ db'.plans = db.plans /\ db'.cps = db.cps
      BY <3>1 DEF CatTypes
    <3>3. stations[s] \in StationStatus
      BY <1>4, <2>2, StationTypes
    <3> QED BY <1>4, <3>2, <3>3, StationTypes
  <2> QED BY <2>1, <2>2
<1>7. \A t \in Station : t # s => Base(t)' = Base(t)
  BY <1>6 DEF Base
<1>8. StationRows'
  <2> SUFFICES ASSUME NEW t \in Station
               PROVE  (/\ New(t) => db.stations[t] = None
                       /\ stations[t] # None <=> New(t) \/ db.stations[t] # None
                       /\ stations[t] # None /\ t \notin Updating => stations[t] = Base(t))'
    BY DEF StationRows
  <2>1. (New(t) => db.stations[t] = None) /\ (stations[t] # None <=> New(t) \/ db.stations[t] # None)
        /\ (stations[t] # None /\ t \notin Updating => stations[t] = Base(t))
    BY DEF StationsOK, StationRows
  <2>2. CASE t = s
    BY <1>2, <1>3, <1>6, <2>2 DEF Base
  <2>3. CASE t # s
    BY <1>2, <1>3, <1>6, <1>7, <2>1, <2>3
  <2> QED BY <2>2, <2>3
<1>9. UpdatesRemember'
  <2> SUFFICES ASSUME NEW n \in Of({"update"})'
               PROVE  (/\ stations[jobs[n].id] # None => jobs[n].before = Base(jobs[n].id)
                       /\ jobs[n].id <= seq.station)'
    BY DEF UpdatesRemember
  <2>1. PICK job1 : job1 = jobs[n + 1]
    OBVIOUS
  <2>2. n + 1 \in Of({"update"}) /\ jobs'[n] = job1 /\ job1.id # s
    BY <1>3, <2>1
  <2>3. (stations[job1.id] # None => job1.before = Base(job1.id)) /\ job1.id <= seq.station
    BY <2>1, <2>2 DEF StationsOK, UpdatesRemember
  <2>4. job1.id \in Station
    <3>1. job1 \in CatJob /\ job1.kind = "update"
      BY <2>1, <2>2 DEF CatTypes, Of
    <3> QED BY <3>1, JobIs
  <2>5. Base(job1.id)' = Base(job1.id)
    BY <1>7, <2>2, <2>4
  <2> QED BY <1>2, <2>2, <2>3, <2>5 DEF Base
<1>10. StationsCounted'
  BY <1>2 DEF StationsOK, StationsCounted, Rows
<1> QED BY <1>3, <1>6, <1>8, <1>9, <1>10 DEF StationsOK

LEMMA UpdateFailed ==
  ASSUME CatTypes, StationsOK, UpdateFails
  PROVE  StationsOK' /\ stations' \in [Station -> StationStatus \cup {None}]
<1>1. PICK job, s : job = Head(jobs) /\ s = job.id
  OBVIOUS
<1>2. /\ jobs # <<>> /\ jobs' = Tail(jobs) /\ job.kind = "update" /\ stations' = UpdateUndone(job)
      /\ seq' = seq /\ db' = db
  BY <1>1 DEF UpdateFails
<1>3. /\ \A t : t \in Updating' <=> (t \in Updating /\ t # s)
      /\ \A t : New(t)' <=> New(t)
      /\ \A n \in Of({"update"})' : n + 1 \in Of({"update"}) /\ jobs'[n] = jobs[n + 1] /\ jobs'[n].id # s
      /\ StationOrder' /\ ~New(s) /\ job \in CatJob /\ 1 \in Of({"update"}) /\ job = jobs[1]
  BY <1>1, <1>2, StationQueueShrinks
<1>4. s \in Station /\ job.before \in StationStatus /\ None \notin StationStatus
  BY <1>1, <1>2, <1>3, JobIs, StationTypes
<1>5. stations[s] # None => job.before = Base(s)
  BY <1>1, <1>3 DEF StationsOK, UpdatesRemember
<1>6. PICK final : final = IF stations[s] = None THEN None ELSE job.before
  OBVIOUS
<1>7. stations' = [stations EXCEPT ![s] = final]
  BY <1>1, <1>2, <1>4, <1>6, StationTypes DEF UpdateUndone
<1>8. /\ stations' \in [Station -> StationStatus \cup {None}] /\ stations'[s] = final
      /\ \A t \in Station : t # s => stations'[t] = stations[t]
      /\ final # None <=> stations[s] # None
  BY <1>4, <1>6, <1>7, StationTypes
<1>9. \A t : Base(t)' = Base(t)
  BY <1>2 DEF Base
<1>10. StationRows'
  <2> SUFFICES ASSUME NEW t \in Station
               PROVE  (/\ New(t) => db.stations[t] = None
                       /\ stations[t] # None <=> New(t) \/ db.stations[t] # None
                       /\ stations[t] # None /\ t \notin Updating => stations[t] = Base(t))'
    BY DEF StationRows
  <2>1. (New(t) => db.stations[t] = None) /\ (stations[t] # None <=> New(t) \/ db.stations[t] # None)
        /\ (stations[t] # None /\ t \notin Updating => stations[t] = Base(t))
    BY DEF StationsOK, StationRows
  <2>2. CASE t = s
    BY <1>2, <1>3, <1>5, <1>6, <1>8, <1>9, <2>1, <2>2
  <2>3. CASE t # s
    BY <1>2, <1>3, <1>8, <1>9, <2>1, <2>3
  <2> QED BY <2>2, <2>3
<1>11. UpdatesRemember'
  <2> SUFFICES ASSUME NEW n \in Of({"update"})'
               PROVE  (/\ stations[jobs[n].id] # None => jobs[n].before = Base(jobs[n].id)
                       /\ jobs[n].id <= seq.station)'
    BY DEF UpdatesRemember
  <2>1. PICK job1 : job1 = jobs[n + 1]
    OBVIOUS
  <2>2. n + 1 \in Of({"update"}) /\ jobs'[n] = job1 /\ job1.id # s
    BY <1>3, <2>1
  <2>3. (stations[job1.id] # None => job1.before = Base(job1.id)) /\ job1.id <= seq.station
    BY <2>1, <2>2 DEF StationsOK, UpdatesRemember
  <2>4. job1.id \in Station
    <3>1. job1 \in CatJob /\ job1.kind = "update"
      BY <2>1, <2>2 DEF CatTypes, Of
    <3> QED BY <3>1, JobIs
  <2>5. stations'[job1.id] = stations[job1.id]
    BY <1>8, <2>2, <2>4
  <2> QED BY <1>2, <2>2, <2>3, <2>5 DEF Base
<1>12. StationsCounted'
  <2>1. Rows(stations') = Rows(stations)
    BY <1>4, <1>8, StationTypes DEF Rows
  <2> QED BY <1>2, <2>1 DEF StationsOK, StationsCounted
<1> QED BY <1>3, <1>8, <1>10, <1>11, <1>12 DEF StationsOK

(* ----------------------------- charge points ---------------------------- *)
LEMMA CpTypes ==
  ASSUME CatTypes
  PROVE  /\ cps \in [Cp -> CpRow \cup {None}] /\ db.cps \in [Cp -> CpRow \cup {None}]
         /\ byOcpp \in [Ident -> Cp \cup {None}] /\ seq.cp \in Nat
         /\ Rows(cps) \subseteq Cp /\ \A c \in Cp : c \in Rows(cps) <=> cps[c] # None
         /\ Rows(db.cps) \subseteq Cp /\ \A c \in Cp : c \in Rows(db.cps) <=> db.cps[c] # None
         /\ \A c \in Rows(cps) : cps[c] \in CpRow
         /\ Cp \subseteq Nat /\ None \notin Cp
         /\ \A row \in CpRow : row # None /\ row.ident \in Ident
<1>1. /\ cps \in [Cp -> CpRow \cup {None}] /\ db.cps \in [Cp -> CpRow \cup {None}]
      /\ byOcpp \in [Ident -> Cp \cup {None}] /\ seq.cp \in Nat
  BY DEF CatTypes
<1>2. Cp \subseteq Nat
  BY DEF Cp
<1>3. None \notin Cp /\ None \notin CpRow
  BY CatalogueAssumption
<1>4. \A row \in CpRow : row # None /\ row.ident \in Ident
  BY <1>3 DEF CpRow
<1> QED BY <1>1, <1>2, <1>3, <1>4 DEF Rows

IsHardware(job) == job.kind \in {"station", "cp"}

LEMMA HardwareQueueShrinks ==
  ASSUME CatTypes, jobs # <<>>, jobs' = Tail(jobs), NEW job, job = Head(jobs)
  PROVE  /\ \A n \in Hardware' : n \in Nat /\ n + 1 \in Hardware /\ n + 1 # 1 /\ jobs'[n] = jobs[n + 1]
         /\ \A n \in Hardware : n \in Nat /\ (n # 1 => n - 1 \in Hardware' /\ jobs'[n - 1] = jobs[n])
         /\ (1 \in Hardware <=> IsHardware(job))
         /\ job \in CatJob /\ jobs' \in Seq(CatJob) /\ job = jobs[1]
         /\ \A n \in Hardware : jobs[n] \in CatJob /\ IsHardware(jobs[n])
<1>1. /\ job = jobs[1] /\ job \in CatJob /\ 1 \in DOMAIN jobs /\ jobs' \in Seq(CatJob)
      /\ \A n \in DOMAIN jobs : n \in Nat /\ n >= 1 /\ jobs[n] \in CatJob
      /\ \A n \in DOMAIN jobs' : n \in Nat /\ n >= 1 /\ n + 1 \in DOMAIN jobs /\ jobs'[n] = jobs[n + 1]
      /\ \A n \in DOMAIN jobs : n # 1 => n - 1 \in DOMAIN jobs' /\ jobs'[n - 1] = jobs[n]
  BY JobDone DEF CatTypes
<1>2. /\ \A n : n \in Hardware <=> n \in DOMAIN jobs /\ IsHardware(jobs[n])
      /\ \A n : n \in Hardware' <=> n \in DOMAIN jobs' /\ IsHardware(jobs'[n])
  BY DEF Hardware, Of, IsHardware
<1>3. \A n \in Hardware' : n \in Nat /\ n + 1 \in Hardware /\ n + 1 # 1 /\ jobs'[n] = jobs[n + 1]
  BY <1>1, <1>2
<1>4. \A n \in Hardware : n \in Nat /\ (n # 1 => n - 1 \in Hardware' /\ jobs'[n - 1] = jobs[n])
  BY <1>1, <1>2
<1>5. /\ (1 \in Hardware <=> IsHardware(job))
      /\ \A n \in Hardware : jobs[n] \in CatJob /\ IsHardware(jobs[n])
  BY <1>1, <1>2
<1> QED BY <1>1, <1>3, <1>4, <1>5

LEMMA HardwareQueueGrows ==
  ASSUME CatTypes, NEW job \in CatJob, jobs' = Append(jobs, job), NEW last, last = Len(jobs) + 1
  PROVE  /\ jobs'[last] = job /\ last \notin Hardware
         /\ \A n \in Hardware : jobs'[n] = jobs[n] /\ jobs[n] \in CatJob /\ IsHardware(jobs[n])
         /\ IsHardware(job) => Hardware' = Hardware \cup {last}
         /\ ~IsHardware(job) => Hardware' = Hardware
<1>1. /\ last \in Nat /\ jobs'[last] = job /\ DOMAIN jobs' = DOMAIN jobs \cup {last}
      /\ \A n \in DOMAIN jobs : n \in Nat /\ n < last /\ jobs'[n] = jobs[n] /\ jobs[n] \in CatJob
  BY JobAdded DEF CatTypes
<1>2. /\ \A n : n \in Hardware <=> n \in DOMAIN jobs /\ IsHardware(jobs[n])
      /\ \A n : n \in Hardware' <=> n \in DOMAIN jobs' /\ IsHardware(jobs'[n])
  BY DEF Hardware, Of, IsHardware
<1>3. last \notin Hardware
  BY <1>1, <1>2
<1>4. IsHardware(job) => Hardware' = Hardware \cup {last}
  BY <1>1, <1>2
<1>5. ~IsHardware(job) => Hardware' = Hardware
  BY <1>1, <1>2
<1> QED BY <1>1, <1>2, <1>3, <1>4, <1>5

\* CpsKept, for a step that moves jobs in the queue and changes no row.
LEMMA SameJobsKept ==
  ASSUME CpsKept, cps' = cps, db'.cps = db.cps,
         \A n \in Hardware' : \E m \in Hardware : jobs'[n] = jobs[m],
         \A n, m \in Hardware' : n # m => \A c \in DOMAIN jobs'[n].cps : c \notin DOMAIN jobs'[m].cps,
         \A n \in Hardware : \E m \in Hardware' : jobs'[m] = jobs[n]
  PROVE  CpsKept'
<1>1. Rows(cps') = Rows(cps) /\ Rows(db'.cps) = Rows(db.cps)
  BY DEF Rows
<1>2. \A c \in Rows(db'.cps) : cps'[c] = db'.cps[c]
  BY <1>1 DEF CpsKept
<1>3. ASSUME NEW n \in Hardware', NEW c \in DOMAIN jobs'[n].cps PROVE cps'[c] = jobs'[n].cps[c] /\ db'.cps[c] = None
  <2>1. PICK m \in Hardware : jobs'[n] = jobs[m]
    OBVIOUS
  <2>2. c \in DOMAIN jobs[m].cps
    BY <2>1
  <2>3. cps[c] = jobs[m].cps[c] /\ db.cps[c] = None
    BY <2>2 DEF CpsKept
  <2> QED BY <2>1, <2>3
<1>4. ASSUME NEW c \in Rows(cps') PROVE c \in Rows(db'.cps) \/ \E n \in Hardware' : c \in DOMAIN jobs'[n].cps
  <2>1. CASE c \in Rows(db.cps)
    BY <1>1, <2>1
  <2>2. CASE c \notin Rows(db.cps)
    <3>1. PICK n \in Hardware : c \in DOMAIN jobs[n].cps
      BY <1>1, <2>2 DEF CpsKept
    <3>2. PICK m \in Hardware' : jobs'[m] = jobs[n]
      OBVIOUS
    <3> QED BY <3>1, <3>2
  <2> QED BY <2>1, <2>2
<1> QED BY <1>2, <1>3, <1>4 DEF CpsKept

LEMMA OtherAddedCps ==
  ASSUME CatTypes, CpsOK, cps' = cps, db'.cps = db.cps, byOcpp' = byOcpp, seq'.cp = seq.cp,
         NEW job \in CatJob, job.kind \in {"plan", "update"}, jobs' = Append(jobs, job)
  PROVE  CpsOK'
<1>1. PICK last : last = Len(jobs) + 1
  OBVIOUS
<1>2. ~IsHardware(job)
  BY DEF IsHardware
<1>3. Hardware' = Hardware /\ \A n \in Hardware : jobs'[n] = jobs[n]
  BY <1>1, <1>2, HardwareQueueGrows
<1>4. CpsKept'
  <2>1. \A n, m \in Hardware : n # m => \A c \in DOMAIN jobs[n].cps : c \notin DOMAIN jobs[m].cps
    BY DEF CpsOK, CpsKept
  <2>2. ASSUME NEW n \in Hardware', NEW m \in Hardware', n # m, NEW c \in DOMAIN jobs'[n].cps
        PROVE  c \notin DOMAIN jobs'[m].cps
    <3>1. jobs'[n] = jobs[n] /\ jobs'[m] = jobs[m] /\ n \in Hardware /\ m \in Hardware
      BY <1>3
    <3> QED BY <2>1, <2>2, <3>1
  <2> QED BY <1>3, <2>2, SameJobsKept DEF CpsOK
<1>5. CpsFound'
  BY DEF CpsOK, CpsFound, Rows
<1> QED BY <1>4, <1>5 DEF CpsOK

LEMMA OtherDoneCps ==
  ASSUME CatTypes, CpsOK, cps' = cps, db'.cps = db.cps, byOcpp' = byOcpp, seq'.cp = seq.cp,
         jobs # <<>>, Head(jobs).kind \in {"plan", "update"}, jobs' = Tail(jobs)
  PROVE  CpsOK'
<1>1. PICK job : job = Head(jobs)
  OBVIOUS
<1>2. ~IsHardware(job)
  BY <1>1 DEF IsHardware
<1>3. /\ \A n \in Hardware' : n \in Nat /\ n + 1 \in Hardware /\ jobs'[n] = jobs[n + 1]
      /\ \A n \in Hardware : n \in Nat /\ n - 1 \in Hardware' /\ jobs'[n - 1] = jobs[n]
  BY <1>1, <1>2, HardwareQueueShrinks
<1>4. CpsKept'
  <2>1. \A n, m \in Hardware : n # m => \A c \in DOMAIN jobs[n].cps : c \notin DOMAIN jobs[m].cps
    BY DEF CpsOK, CpsKept
  <2>2. ASSUME NEW n \in Hardware', NEW m \in Hardware', n # m, NEW c \in DOMAIN jobs'[n].cps
        PROVE  c \notin DOMAIN jobs'[m].cps
    <3>1. PICK i, j : i = n + 1 /\ j = m + 1
      OBVIOUS
    <3>2. i \in Hardware /\ j \in Hardware /\ i # j /\ jobs'[n] = jobs[i] /\ jobs'[m] = jobs[j]
      <4>1. n \in Nat /\ m \in Nat /\ i \in Hardware /\ j \in Hardware /\ jobs'[n] = jobs[i] /\ jobs'[m] = jobs[j]
        BY <1>3, <3>1
      <4>2. i # j
        BY <2>2, <3>1, <4>1
      <4> QED BY <4>1, <4>2
    <3> QED BY <2>1, <2>2, <3>2
  <2>3. \A n \in Hardware' : \E m \in Hardware : jobs'[n] = jobs[m]
    BY <1>3
  <2>4. \A n \in Hardware : \E m \in Hardware' : jobs'[m] = jobs[n]
    BY <1>3
  <2> QED BY <2>2, <2>3, <2>4, SameJobsKept DEF CpsOK
<1>5. CpsFound'
  BY DEF CpsOK, CpsFound, Rows
<1> QED BY <1>4, <1>5 DEF CpsOK

\* New charge points: their ids are above every other, and their identities were free.
LEMMA CpsProvisioned ==
  ASSUME CatTypes, CpsOK, NEW kind \in {"station", "cp"}, NEW ids \in SUBSET Ident, NEW s \in Station,
         NEW f \in NewCps(s, ids), seq.cp + Cardinality(ids) <= MaxCp, Fresh(ids), WithCps(f),
         seq'.cp = seq.cp + Cardinality(ids), db'.cps = db.cps,
         jobs' = Append(jobs, [kind |-> kind, id |-> s, cps |-> f])
  PROVE  /\ CpsOK' /\ cps' \in [Cp -> CpRow \cup {None}] /\ byOcpp' \in [Ident -> Cp \cup {None}] /\ seq'.cp \in Nat
         /\ \E job \in CatJob : job.kind = kind /\ job.id = s /\ jobs' = Append(jobs, job)
<1>1. PICK job, last, k, D : /\ job = [kind |-> kind, id |-> s, cps |-> f] /\ last = Len(jobs) + 1
                             /\ k = Cardinality(ids) /\ D = DOMAIN f
  OBVIOUS
<1>2. /\ k \in Nat /\ D = seq.cp + 1 .. seq.cp + k /\ D \subseteq Cp
      /\ \A c \in D : c \in Cp /\ c > seq.cp /\ f[c] \in CpRow /\ f[c].ident \in ids
      /\ \A c, d \in D : c # d => f[c].ident # f[d].ident
      /\ f \in UNION {[E -> CpRow] : E \in SUBSET Cp}
  BY <1>1, NewCpsAre
<1>3. job \in CatJob /\ job.kind = kind /\ job.id = s /\ job.cps = f /\ IsHardware(job)
  BY <1>1, <1>2, HardwareJobIs DEF IsHardware
<1>4. /\ jobs'[last] = job /\ last \notin Hardware /\ Hardware' = Hardware \cup {last}
      /\ \A n \in Hardware : jobs'[n] = jobs[n] /\ jobs[n] \in CatJob /\ IsHardware(jobs[n])
  BY <1>1, <1>3, HardwareQueueGrows
<1>5. \A c \in Rows(cps) : c \in Cp /\ c \in Nat /\ c <= seq.cp /\ c \notin D
  <2> SUFFICES ASSUME NEW c \in Rows(cps) PROVE c \in Cp /\ c \in Nat /\ c <= seq.cp /\ c \notin D
    OBVIOUS
  <2>1. c \in Cp /\ c \in Nat /\ seq.cp \in Nat
    BY CpTypes
  <2>2. c <= seq.cp
    BY DEF CpsOK, CpsFound
  <2>3. ~(c > seq.cp)
    BY <2>1, <2>2
  <2> QED BY <1>2, <2>1, <2>2, <2>3
<1>6. \A c \in D : cps[c] = None /\ db.cps[c] = None
  <2> SUFFICES ASSUME NEW c \in D PROVE cps[c] = None /\ db.cps[c] = None
    OBVIOUS
  <2>1. cps[c] = None
    BY <1>2, <1>5, CpTypes
  <2>2. c \notin Rows(db.cps)
    <3>1. ASSUME c \in Rows(db.cps) PROVE FALSE
      BY <1>2, <2>1, <3>1, CpTypes DEF CpsOK, CpsKept
    <3> QED BY <3>1
  <2> QED BY <1>2, <2>1, <2>2, CpTypes
<1>7. ASSUME NEW n \in Hardware, NEW c \in DOMAIN jobs[n].cps PROVE c \notin D
  <2>1. jobs[n].cps[c] \in CpRow
    <3>1. jobs[n].kind \in {"station", "cp"}
      BY <1>4 DEF IsHardware
    <3> QED BY <1>4, <3>1, JobIs
  <2>2. cps[c] # None
    BY <2>1, CpTypes DEF CpsOK, CpsKept
  <2> QED BY <1>6, <2>2
<1>8. /\ cps' = [c \in Cp |-> IF c \in D THEN f[c] ELSE cps[c]]
      /\ byOcpp' = [x \in Ident |-> IF \E c \in D : f[c].ident = x
                                    THEN CHOOSE c \in D : f[c].ident = x ELSE byOcpp[x]]
  BY <1>1 DEF WithCps
<1>9. cps' \in [Cp -> CpRow \cup {None}] /\ (\A c \in D : cps'[c] = f[c]) /\ \A c \in Cp : c \notin D => cps'[c] = cps[c]
  BY <1>2, <1>8, CpTypes
<1>10. Rows(cps') = Rows(cps) \cup D
  <2>1. ASSUME NEW c \in Cp PROVE cps'[c] # None <=> (cps[c] # None \/ c \in D)
    <3>1. CASE c \in D
      BY <1>2, <1>9, <3>1, CpTypes
    <3>2. CASE c \notin D
      BY <1>9, <3>2
    <3> QED BY <3>1, <3>2
  <2>2. DOMAIN cps' = Cp /\ DOMAIN cps = Cp
    BY <1>9, CpTypes
  <2> QED BY <1>2, <2>1, <2>2 DEF Rows
<1>11. Rows(db'.cps) = Rows(db.cps)
  BY DEF Rows
<1>12. CpsKept'
  <2>1. ASSUME NEW c \in Rows(db'.cps) PROVE cps'[c] = db'.cps[c]
    <3>1. c \in Cp /\ db.cps[c] # None /\ cps[c] = db.cps[c]
      BY <1>11, <2>1, CpTypes DEF CpsOK, CpsKept
    <3>2. c \notin D
      BY <1>6, <3>1
    <3> QED BY <1>9, <3>1, <3>2
  <2>2. ASSUME NEW n \in Hardware', NEW c \in DOMAIN jobs'[n].cps
        PROVE  cps'[c] = jobs'[n].cps[c] /\ db'.cps[c] = None
    <3>1. CASE n = last
      BY <1>1, <1>3, <1>4, <1>6, <1>9, <2>2, <3>1
    <3>2. CASE n \in Hardware
      <4>1. jobs'[n] = jobs[n] /\ c \in DOMAIN jobs[n].cps
        BY <1>4, <2>2, <3>2
      <4>2. cps[c] = jobs[n].cps[c] /\ db.cps[c] = None
        BY <3>2, <4>1 DEF CpsOK, CpsKept
      <4>3. c \in Cp /\ c \notin D
        <5>1. jobs[n] \in CatJob /\ jobs[n].kind \in {"station", "cp"}
          BY <1>4, <3>2 DEF IsHardware
        <5> QED BY <1>7, <3>2, <4>1, <5>1, JobIs
      <4> QED BY <1>9, <4>1, <4>2, <4>3
    <3> QED BY <1>4, <3>1, <3>2
  <2>3. ASSUME NEW n \in Hardware', NEW m \in Hardware', n # m, NEW c \in DOMAIN jobs'[n].cps
        PROVE  c \notin DOMAIN jobs'[m].cps
    <3>1. CASE n \in Hardware /\ m \in Hardware
      <4>1. jobs'[n] = jobs[n] /\ jobs'[m] = jobs[m]
        BY <1>4, <3>1
      <4>2. \A i, j \in Hardware : i # j => \A d \in DOMAIN jobs[i].cps : d \notin DOMAIN jobs[j].cps
        BY DEF CpsOK, CpsKept
      <4> QED BY <2>3, <3>1, <4>1, <4>2
    <3>2. CASE n = last /\ m \in Hardware
      <4>1. jobs'[m] = jobs[m] /\ c \in D
        BY <1>1, <1>3, <1>4, <2>3, <3>2
      <4> QED BY <1>7, <3>2, <4>1
    <3>3. CASE n \in Hardware /\ m = last
      <4>1. jobs'[n] = jobs[n] /\ DOMAIN jobs'[m].cps = D
        BY <1>1, <1>3, <1>4, <3>3
      <4> QED BY <1>7, <2>3, <3>3, <4>1
    <3> QED BY <1>4, <2>3, <3>1, <3>2, <3>3
  <2>4. ASSUME NEW c \in Rows(cps') PROVE c \in Rows(db'.cps) \/ \E n \in Hardware' : c \in DOMAIN jobs'[n].cps
    <3>1. CASE c \in D
      BY <1>1, <1>3, <1>4, <3>1
    <3>2. CASE c \in Rows(cps)
      <4>1. c \in Rows(db.cps) \/ \E n \in Hardware : c \in DOMAIN jobs[n].cps
        BY <3>2 DEF CpsOK, CpsKept
      <4>2. \A n \in Hardware : n \in Hardware' /\ jobs'[n] = jobs[n]
        BY <1>4
      <4> QED BY <1>11, <4>1, <4>2
    <3> QED BY <1>10, <2>4, <3>1, <3>2
  <2> QED BY <2>1, <2>2, <2>3, <2>4 DEF CpsKept
<1>13. byOcpp' \in [Ident -> Cp \cup {None}]
  <2>1. ASSUME NEW x \in Ident PROVE byOcpp'[x] \in Cp \cup {None}
    BY <1>2, <1>8, CpTypes
  <2> QED BY <1>8, <2>1
<1>14. \A c \in D : byOcpp'[f[c].ident] = c
  <2> SUFFICES ASSUME NEW c \in D PROVE byOcpp'[f[c].ident] = c
    OBVIOUS
  <2>1. PICK x \in Ident : x = f[c].ident
    BY <1>2, CpTypes
  <2>2. byOcpp'[x] = CHOOSE d \in D : f[d].ident = x
    BY <1>8, <2>1
  <2>3. \A d \in D : f[d].ident = x => d = c
    BY <1>2, <2>1
  <2> QED BY <2>1, <2>2, <2>3
<1>15. \A x \in Ident : (\A c \in D : f[c].ident # x) => byOcpp'[x] = byOcpp[x]
  BY <1>8
<1>16. CpsFound'
  <2>1. ASSUME NEW c \in Rows(cps') PROVE c <= seq'.cp /\ byOcpp'[cps'[c].ident] = c
    <3>1. CASE c \in D
      BY <1>1, <1>2, <1>9, <1>14, <3>1, CpTypes
    <3>2. CASE c \in Rows(cps)
      <4>1. c \in Cp /\ c \in Nat /\ c <= seq.cp /\ c \notin D /\ seq.cp \in Nat
        BY <1>5, <3>2, CpTypes
      <4>2. c <= seq'.cp
        BY <1>1, <1>2, <4>1
      <4>3. cps'[c] = cps[c] /\ cps[c] \in CpRow
        BY <1>9, <3>2, <4>1, CpTypes
      <4>4. PICK x \in Ident : x = cps[c].ident
        BY <4>3, CpTypes
      <4>5. byOcpp[x] = c
        BY <3>2, <4>4 DEF CpsOK, CpsFound
      <4>6. byOcpp[x] # None
        BY <4>1, <4>5, CpTypes
      <4>7. x \notin ids
        BY <4>6 DEF Fresh
      <4>8. byOcpp'[x] = byOcpp[x]
        BY <1>2, <1>15, <4>7
      <4> QED BY <4>2, <4>3, <4>4, <4>5, <4>8
    <3> QED BY <1>10, <2>1, <3>1, <3>2
  <2>2. ASSUME NEW x \in Ident, byOcpp'[x] # None PROVE byOcpp'[x] \in Rows(cps') /\ cps'[byOcpp'[x]].ident = x
    <3>1. CASE \E c \in D : f[c].ident = x
      <4>1. PICK c \in D : f[c].ident = x
        BY <3>1
      <4> QED BY <1>9, <1>10, <1>14, <4>1
    <3>2. CASE ~\E c \in D : f[c].ident = x
      <4>1. byOcpp'[x] = byOcpp[x]
        BY <1>15, <3>2
      <4>2. PICK c : c = byOcpp[x]
        OBVIOUS
      <4>3. c \in Rows(cps) /\ cps[c].ident = x
        BY <2>2, <4>1, <4>2 DEF CpsOK, CpsFound
      <4>4. cps'[c] = cps[c]
        BY <1>5, <1>9, <4>3
      <4> QED BY <1>10, <4>1, <4>2, <4>3, <4>4
    <3> QED BY <3>1, <3>2
  <2> QED BY <2>1, <2>2 DEF CpsFound
<1>17. seq'.cp \in Nat
  BY <1>1, <1>2, CpTypes
<1> QED BY <1>1, <1>3, <1>9, <1>12, <1>13, <1>16, <1>17 DEF CpsOK

\* What is known of the charge points of the first mirror.
LEMMA FirstHardware ==
  ASSUME CatTypes, CpsOK, jobs # <<>>, jobs' = Tail(jobs), NEW job, job = Head(jobs), IsHardware(job)
  PROVE  /\ DOMAIN job.cps \subseteq Cp /\ \A c \in DOMAIN job.cps : job.cps[c] \in CpRow /\ cps[c] = job.cps[c] /\ db.cps[c] = None
         /\ \A n \in Hardware' : n \in Nat /\ n + 1 \in Hardware /\ jobs'[n] = jobs[n + 1]
                                 /\ \A c \in DOMAIN jobs'[n].cps : c \in Cp /\ c \notin DOMAIN job.cps
         /\ \A n, m \in Hardware' : n # m => \A c \in DOMAIN jobs'[n].cps : c \notin DOMAIN jobs'[m].cps
         /\ \A c \in Rows(cps) : c \in Rows(db.cps) \/ c \in DOMAIN job.cps \/ \E n \in Hardware' : c \in DOMAIN jobs'[n].cps
         /\ job \in CatJob
<1>1. PICK D : D = DOMAIN job.cps
  OBVIOUS
<1>2. /\ \A n \in Hardware' : n \in Nat /\ n + 1 \in Hardware /\ n + 1 # 1 /\ jobs'[n] = jobs[n + 1]
      /\ \A n \in Hardware : n \in Nat /\ (n # 1 => n - 1 \in Hardware' /\ jobs'[n - 1] = jobs[n])
      /\ 1 \in Hardware /\ job = jobs[1] /\ job \in CatJob
      /\ \A n \in Hardware : jobs[n] \in CatJob /\ IsHardware(jobs[n])
  BY HardwareQueueShrinks
<1>3. D \subseteq Cp /\ \A c \in D : job.cps[c] \in CpRow
  BY <1>1, <1>2, JobIs DEF IsHardware
<1>4. \A c \in D : cps[c] = job.cps[c] /\ db.cps[c] = None
  BY <1>1, <1>2 DEF CpsOK, CpsKept
<1>5. \A n, m \in Hardware : n # m => \A c \in DOMAIN jobs[n].cps : c \notin DOMAIN jobs[m].cps
  BY DEF CpsOK, CpsKept
<1>6. ASSUME NEW n \in Hardware', NEW c \in DOMAIN jobs'[n].cps PROVE c \in Cp /\ c \notin D
  <2>1. PICK i : i = n + 1
    OBVIOUS
  <2>2. i \in Hardware /\ i # 1 /\ jobs'[n] = jobs[i] /\ jobs[i] \in CatJob /\ IsHardware(jobs[i])
    BY <1>2, <2>1
  <2>3. c \notin D
    BY <1>1, <1>2, <1>5, <1>6, <2>2
  <2>4. DOMAIN jobs[i].cps \subseteq Cp
    BY <2>2, JobIs DEF IsHardware
  <2> QED BY <1>6, <2>2, <2>3, <2>4
<1>7. ASSUME NEW n \in Hardware', NEW m \in Hardware', n # m, NEW c \in DOMAIN jobs'[n].cps
      PROVE  c \notin DOMAIN jobs'[m].cps
  <2>1. PICK i, j : i = n + 1 /\ j = m + 1
    OBVIOUS
  <2>2. n \in Nat /\ m \in Nat /\ i \in Hardware /\ j \in Hardware /\ jobs'[n] = jobs[i] /\ jobs'[m] = jobs[j]
    BY <1>2, <2>1
  <2>3. i # j
    BY <1>7, <2>1, <2>2
  <2> QED BY <1>5, <1>7, <2>2, <2>3
<1>8. ASSUME NEW c \in Rows(cps), c \notin Rows(db.cps), c \notin D
      PROVE  \E n \in Hardware' : c \in DOMAIN jobs'[n].cps
  <2>1. PICK n \in Hardware : c \in DOMAIN jobs[n].cps
    BY <1>8 DEF CpsOK, CpsKept
  <2>2. n # 1
    BY <1>1, <1>2, <1>8, <2>1
  <2> QED BY <1>2, <2>1, <2>2
<1> QED BY <1>1, <1>2, <1>3, <1>4, <1>6, <1>7, <1>8

LEMMA HardwareStored ==
  ASSUME CatTypes, CpsOK, CatalogueStored, Head(jobs).kind \in {"station", "cp"}
  PROVE  CpsOK' /\ db'.cps \in [Cp -> CpRow \cup {None}]
<1>1. PICK job, D : job = Head(jobs) /\ D = DOMAIN job.cps
  OBVIOUS
<1>2. /\ jobs # <<>> /\ jobs' = Tail(jobs) /\ cps' = cps /\ byOcpp' = byOcpp /\ seq' = seq /\ db' = HardwareRows(job)
  BY <1>1 DEF CatalogueStored
<1>3. /\ D \subseteq Cp /\ \A c \in D : job.cps[c] \in CpRow /\ cps[c] = job.cps[c] /\ db.cps[c] = None
      /\ \A n \in Hardware' : n \in Nat /\ n + 1 \in Hardware /\ jobs'[n] = jobs[n + 1]
                              /\ \A c \in DOMAIN jobs'[n].cps : c \in Cp /\ c \notin D
      /\ \A n, m \in Hardware' : n # m => \A c \in DOMAIN jobs'[n].cps : c \notin DOMAIN jobs'[m].cps
      /\ \A c \in Rows(cps) : c \in Rows(db.cps) \/ c \in D \/ \E n \in Hardware' : c \in DOMAIN jobs'[n].cps
  <2>1. IsHardware(job)
    BY <1>1 DEF IsHardware
  <2> QED BY <1>1, <1>2, <2>1, FirstHardware
<1>4. db'.cps = [c \in Cp |-> IF c \in D THEN job.cps[c] ELSE db.cps[c]]
  BY <1>1, <1>2 DEF HardwareRows, CatTypes
<1>5. /\ db'.cps \in [Cp -> CpRow \cup {None}]
      /\ \A c \in Cp : db'.cps[c] = IF c \in D THEN cps[c] ELSE db.cps[c]
  <2>1. \A c \in Cp : db.cps[c] \in CpRow \cup {None}
    BY CpTypes
  <2> QED BY <1>3, <1>4, <2>1
<1>6. Rows(cps') = Rows(cps) /\ Rows(db'.cps) = Rows(db.cps) \cup D
  <2>1. ASSUME NEW c \in Cp PROVE db'.cps[c] # None <=> (db.cps[c] # None \/ c \in D)
    BY <1>3, <1>5, CpTypes
  <2>2. DOMAIN db'.cps = Cp /\ DOMAIN db.cps = Cp
    BY <1>5, CpTypes
  <2>3. Rows(db'.cps) = Rows(db.cps) \cup D
    BY <1>3, <2>1, <2>2 DEF Rows
  <2> QED BY <1>2, <2>3 DEF Rows
<1>7. CpsKept'
  <2>1. ASSUME NEW c \in Rows(db'.cps) PROVE cps'[c] = db'.cps[c]
    <3>1. c \in Cp
      BY <1>3, <1>6, <2>1, CpTypes
    <3>2. CASE c \in D
      BY <1>2, <1>5, <3>1, <3>2
    <3>3. CASE c \notin D
      <4>1. c \in Rows(db.cps)
        BY <1>6, <2>1, <3>3
      <4> QED BY <1>2, <1>5, <3>1, <3>3, <4>1 DEF CpsOK, CpsKept
    <3> QED BY <3>2, <3>3
  <2>2. ASSUME NEW n \in Hardware', NEW c \in DOMAIN jobs'[n].cps
        PROVE  cps'[c] = jobs'[n].cps[c] /\ db'.cps[c] = None
    <3>1. PICK i : i = n + 1
      OBVIOUS
    <3>2. i \in Hardware /\ jobs'[n] = jobs[i] /\ c \in Cp /\ c \notin D
      BY <1>3, <3>1
    <3>3. cps[c] = jobs[i].cps[c] /\ db.cps[c] = None
      BY <3>2 DEF CpsOK, CpsKept
    <3> QED BY <1>2, <1>5, <3>2, <3>3
  <2>3. \A c \in Rows(cps') : c \in Rows(db'.cps) \/ \E n \in Hardware' : c \in DOMAIN jobs'[n].cps
    BY <1>3, <1>6
  <2> QED BY <1>3, <2>1, <2>2, <2>3 DEF CpsKept
<1>8. CpsFound'
  BY <1>2 DEF CpsOK, CpsFound, Rows
<1> QED BY <1>5, <1>7, <1>8 DEF CpsOK

LEMMA HardwareFailed ==
  ASSUME CatTypes, CpsOK, HardwareFails
  PROVE  CpsOK' /\ cps' \in [Cp -> CpRow \cup {None}] /\ byOcpp' \in [Ident -> Cp \cup {None}]
<1>1. PICK job, D : job = Head(jobs) /\ D = DOMAIN job.cps
  OBVIOUS
<1>2. /\ jobs # <<>> /\ jobs' = Tail(jobs) /\ seq' = seq /\ db' = db /\ Head(jobs).kind \in {"station", "cp"}
      /\ cps' = [c \in Cp |-> IF c \in D THEN None ELSE cps[c]]
      /\ byOcpp' = [x \in Ident |-> IF \E c \in D : job.cps[c].ident = x THEN None ELSE byOcpp[x]]
  BY <1>1 DEF HardwareFails, HardwareUndone
<1>3. /\ D \subseteq Cp /\ \A c \in D : job.cps[c] \in CpRow /\ cps[c] = job.cps[c] /\ db.cps[c] = None
      /\ \A n \in Hardware' : n \in Nat /\ n + 1 \in Hardware /\ jobs'[n] = jobs[n + 1]
                              /\ \A c \in DOMAIN jobs'[n].cps : c \in Cp /\ c \notin D
      /\ \A n, m \in Hardware' : n # m => \A c \in DOMAIN jobs'[n].cps : c \notin DOMAIN jobs'[m].cps
      /\ \A c \in Rows(cps) : c \in Rows(db.cps) \/ c \in D \/ \E n \in Hardware' : c \in DOMAIN jobs'[n].cps
  <2>1. IsHardware(job)
    BY <1>1, <1>2 DEF IsHardware
  <2> QED BY <1>1, <1>2, <2>1, FirstHardware
<1>4. /\ cps' \in [Cp -> CpRow \cup {None}]
      /\ \A c \in Cp : cps'[c] = IF c \in D THEN None ELSE cps[c]
  BY <1>2, CpTypes
<1>5. byOcpp' \in [Ident -> Cp \cup {None}]
  BY <1>2, CpTypes
<1>6. Rows(db'.cps) = Rows(db.cps) /\ Rows(cps') = Rows(cps) \ D
  <2>1. DOMAIN cps' = Cp /\ DOMAIN cps = Cp
    BY <1>4, CpTypes
  <2>2. Rows(cps') = Rows(cps) \ D
    BY <1>4, <2>1 DEF Rows
  <2> QED BY <1>2, <2>2
<1>7. CpsKept'
  <2>1. ASSUME NEW c \in Rows(db'.cps) PROVE cps'[c] = db'.cps[c]
    <3>1. c \in Cp /\ db.cps[c] # None /\ cps[c] = db.cps[c]
      BY <1>6, <2>1, CpTypes DEF CpsOK, CpsKept
    <3>2. c \notin D
      BY <1>3, <3>1
    <3> QED BY <1>2, <1>4, <3>1, <3>2
  <2>2. ASSUME NEW n \in Hardware', NEW c \in DOMAIN jobs'[n].cps
        PROVE  cps'[c] = jobs'[n].cps[c] /\ db'.cps[c] = None
    <3>1. PICK i : i = n + 1
      OBVIOUS
    <3>2. i \in Hardware /\ jobs'[n] = jobs[i] /\ c \in Cp /\ c \notin D
      BY <1>3, <3>1
    <3>3. cps[c] = jobs[i].cps[c] /\ db.cps[c] = None
      BY <3>2 DEF CpsOK, CpsKept
    <3> QED BY <1>2, <1>4, <3>2, <3>3
  <2>3. \A c \in Rows(cps') : c \in Rows(db'.cps) \/ \E n \in Hardware' : c \in DOMAIN jobs'[n].cps
    BY <1>3, <1>6
  <2> QED BY <1>3, <2>1, <2>2, <2>3 DEF CpsKept
<1>8. CpsFound'
  <2>1. ASSUME NEW c \in Rows(cps') PROVE c <= seq'.cp /\ byOcpp'[cps'[c].ident] = c
    <3>1. c \in Rows(cps) /\ c \notin D /\ c \in Cp /\ cps'[c] = cps[c] /\ cps[c] \in CpRow
      BY <1>4, <1>6, <2>1, CpTypes
    <3>2. PICK x \in Ident : x = cps[c].ident
      BY <3>1, CpTypes
    <3>3. c <= seq.cp /\ byOcpp[x] = c
      BY <3>1, <3>2 DEF CpsOK, CpsFound
    <3>4. ASSUME NEW d \in D, job.cps[d].ident = x PROVE FALSE
      <4>1. cps[d] = job.cps[d] /\ d \in Rows(cps)
        BY <1>3, CpTypes
      <4>2. byOcpp[x] = d
        BY <3>4, <4>1 DEF CpsOK, CpsFound
      <4> QED BY <3>1, <3>3, <4>2
    <3>5. byOcpp'[x] = byOcpp[x]
      BY <1>2, <3>4
    <3> QED BY <1>2, <3>1, <3>2, <3>3, <3>5
  <2>2. ASSUME NEW x \in Ident, byOcpp'[x] # None PROVE byOcpp'[x] \in Rows(cps') /\ cps'[byOcpp'[x]].ident = x
    <3>1. (\A d \in D : job.cps[d].ident # x) /\ byOcpp'[x] = byOcpp[x]
      BY <1>2, <2>2
    <3>2. PICK c : c = byOcpp[x]
      OBVIOUS
    <3>3. c \in Rows(cps) /\ cps[c].ident = x /\ c \in Cp
      BY <2>2, <3>1, <3>2, CpTypes DEF CpsOK, CpsFound
    <3>4. c \notin D
      BY <1>3, <3>1, <3>3
    <3> QED BY <1>4, <1>6, <3>1, <3>2, <3>3, <3>4
  <2> QED BY <2>1, <2>2 DEF CpsFound
<1> QED BY <1>4, <1>5, <1>7, <1>8 DEF CpsOK

(* ------------------------------- restarts ------------------------------- *)
LEMMA TopIs ==
  ASSUME NEW map, NEW n \in Nat, DOMAIN map = 1 .. n
  PROVE  /\ Top(map) \in Nat /\ \A k \in Rows(map) : k <= Top(map)
         /\ Rows(map) # {} => Top(map) \in 1 .. n
<1>1. PICK R : R = Rows(map)
  OBVIOUS
<1>2. R \subseteq 1 .. n /\ 1 \in Int /\ n \in Int
  BY <1>1 DEF Rows
<1>3. CASE R = {}
  BY <1>1, <1>3 DEF Top
<1>4. CASE R # {}
  <2>1. Max(R) \in R /\ \A k \in R : k <= Max(R)
    BY <1>2, <1>4, MaxIs
  <2>2. Top(map) = Max(R)
    BY <1>1, <1>4 DEF Top
  <2> QED BY <1>1, <1>2, <2>1, <2>2
<1> QED BY <1>3, <1>4

LEMMA NoJobs ==
  ASSUME jobs = <<>>
  PROVE  /\ \A kinds : Of(kinds) = {}
         /\ Staged = {} /\ Updating = {} /\ Hardware = {} /\ \A s : ~New(s)
<1>1. \A kinds : Of(kinds) = {}
  BY DEF Of
<1>2. Updating = {}
  BY DEF Updating
<1> QED BY <1>1, <1>2 DEF Staged, Hardware, New

\* A store read from tables that are sound, with nothing waiting, is sound.
LEMMA RestartSound ==
  ASSUME CatInv, Rehydrate
  PROVE  CatInv'
<1>1. /\ plans' = db.plans /\ stations' = db.stations /\ cps' = db.cps /\ jobs' = <<>> /\ db' = db
      /\ byOcpp' = [x \in Ident |-> IF \E c \in Rows(db.cps) : db.cps[c].ident = x
                                   THEN CHOOSE c \in Rows(db.cps) : db.cps[c].ident = x ELSE None]
      /\ seq' = [plan |-> Top(db.plans), station |-> Top(db.stations), cp |-> Top(db.cps)]
  BY DEF Rehydrate
<1>2. /\ \A kinds : Of(kinds)' = {}
      /\ Staged' = {} /\ Updating' = {} /\ Hardware' = {} /\ \A s : ~New(s)'
  <2>1. \A kinds : Of(kinds)' = {}
    BY <1>1 DEF Of
  <2>2. Updating' = {}
    BY <1>1 DEF Updating
  <2> QED BY <2>1, <2>2 DEF Staged, Hardware, New
<1>3. CatTypes
  BY DEF CatInv
<1>4. PICK d \in Plan : PlansAt(d)
  BY DEF CatInv, PlansOK
<1>5. /\ d \in Rows(db.plans)
      /\ \A p \in Rows(db.plans) : p <= d /\ (db.plans[p].open <=> p = d)
  BY <1>4 DEF PlansAt
<1>6. seq'.plan \in Plan /\ \A p \in Rows(db.plans) : p <= seq'.plan
  <2>1. DOMAIN db.plans = 1 .. MaxPlan /\ MaxPlan \in Nat
    BY <1>3, CatalogueAssumption DEF CatTypes, Plan
  <2>2. Top(db.plans) \in 1 .. MaxPlan /\ \A p \in Rows(db.plans) : p <= Top(db.plans)
    BY <1>5, <2>1, TopIs
  <2> QED BY <1>1, <2>2 DEF Plan
<1>7. seq'.station \in Nat /\ \A s \in Rows(db.stations) : s <= seq'.station
  <2>1. DOMAIN db.stations = 1 .. MaxStation /\ MaxStation \in Nat
    BY <1>3, CatalogueAssumption DEF CatTypes, Station
  <2>2. Top(db.stations) \in Nat /\ \A s \in Rows(db.stations) : s <= Top(db.stations)
    BY <2>1, TopIs
  <2> QED BY <1>1, <2>2
<1>8. seq'.cp \in Nat /\ \A c \in Rows(db.cps) : c <= seq'.cp
  <2>1. DOMAIN db.cps = 1 .. MaxCp /\ MaxCp \in Nat
    BY <1>3, CatalogueAssumption DEF CatTypes, Cp
  <2>2. Top(db.cps) \in Nat /\ \A c \in Rows(db.cps) : c <= Top(db.cps)
    BY <2>1, TopIs
  <2> QED BY <1>1, <2>2
<1>9. PlansOK'
  <2>1. \A p \in Rows(db.plans) : db.plans[p] # None
    BY DEF Rows
  <2>2. PlansAt(d)'
    BY <1>1, <1>2, <1>5, <2>1 DEF PlansAt
  <2>3. ChainOK'
    BY <1>1, <1>2, <1>6 DEF ChainOK
  <2> QED BY <2>2, <2>3 DEF PlansOK
<1>10. StationsOK'
  <2>1. StationRows'
    BY <1>1, <1>2 DEF StationRows, Base
  <2>2. UpdatesRemember' /\ StationOrder'
    BY <1>2 DEF UpdatesRemember, StationOrder
  <2>3. StationsCounted'
    BY <1>1, <1>7 DEF StationsCounted
  <2> QED BY <2>1, <2>2, <2>3 DEF StationsOK
<1>11. \A c \in Rows(db.cps) : /\ c \in Cp /\ db.cps[c] \in CpRow /\ cps[c] = db.cps[c]
                               /\ byOcpp[db.cps[c].ident] = c
  <2>1. \A c \in Rows(db.cps) : c \in Cp /\ db.cps[c] # None /\ db.cps[c] \in CpRow \cup {None}
    BY <1>3, CpTypes
  <2>2. \A c \in Rows(db.cps) : cps[c] = db.cps[c]
    BY DEF CatInv, CpsOK, CpsKept
  <2>3. \A c \in Rows(db.cps) : c \in Rows(cps)
    BY <1>3, <2>1, <2>2, CpTypes
  <2> QED BY <2>1, <2>2, <2>3 DEF CatInv, CpsOK, CpsFound
<1>12. \A c \in Rows(db.cps) : byOcpp'[db.cps[c].ident] = c
  <2> SUFFICES ASSUME NEW c \in Rows(db.cps) PROVE byOcpp'[db.cps[c].ident] = c
    OBVIOUS
  <2>1. PICK x \in Ident : x = db.cps[c].ident
    BY <1>3, <1>11, CpTypes
  <2>2. byOcpp'[x] = CHOOSE e \in Rows(db.cps) : db.cps[e].ident = x
    BY <1>1, <2>1
  <2>3. \A e \in Rows(db.cps) : db.cps[e].ident = x => e = c
    BY <1>11, <2>1
  <2> QED BY <2>1, <2>2, <2>3
<1>13. byOcpp' \in [Ident -> Cp \cup {None}]
  <2>1. ASSUME NEW x \in Ident PROVE byOcpp'[x] \in Cp \cup {None}
    BY <1>1, <1>11
  <2> QED BY <1>1, <2>1
<1>14. CpsOK'
  <2>1. CpsKept'
    BY <1>1, <1>2 DEF CpsKept
  <2>2. ASSUME NEW x \in Ident, byOcpp'[x] # None PROVE byOcpp'[x] \in Rows(db.cps) /\ db.cps[byOcpp'[x]].ident = x
    <3>1. \E c \in Rows(db.cps) : db.cps[c].ident = x
      BY <1>1, <2>2
    <3> QED BY <1>1, <3>1
  <2>3. CpsFound'
    BY <1>1, <1>8, <1>12, <2>2 DEF CpsFound
  <2> QED BY <2>1, <2>3 DEF CpsOK
<1>15. CatTypes'
  <2>1. jobs' \in Seq(CatJob)
    BY <1>1
  <2>2. seq' \in [plan : Plan, station : Nat, cp : Nat]
    BY <1>1, <1>6, <1>7, <1>8
  <2> QED BY <1>1, <1>3, <1>13, <2>1, <2>2 DEF CatTypes
<1> QED BY <1>9, <1>10, <1>14, <1>15 DEF CatInv

LEMMA CatInitSound == CatInit => CatInv
<1> SUFFICES ASSUME CatInit PROVE CatInv
  OBVIOUS
<1>1. jobs = <<>>
  BY DEF CatInit
<1>2. /\ \A kinds : Of(kinds) = {}
      /\ Staged = {} /\ Updating = {} /\ Hardware = {} /\ \A s : ~New(s)
  BY <1>1, NoJobs
<1>3. PICK first : first = [open |-> TRUE, supersedes |-> 0]
  OBVIOUS
<1>4. first \in PlanRow /\ first # None /\ first.open /\ 1 \in Plan /\ 1 \in Nat
  <2>1. MaxPlan \in Nat \ {0}
    BY CatalogueAssumption
  <2>2. 0 \in 0 .. MaxPlan /\ 1 \in Plan
    BY <2>1 DEF Plan
  <2> QED BY <1>3, <2>2, PlanRowIs DEF PlanRow
<1>5. /\ plans = [p \in Plan |-> IF p = 1 THEN first ELSE None]
      /\ stations = [s \in Station |-> None] /\ cps = [c \in Cp |-> None] /\ byOcpp = [x \in Ident |-> None]
      /\ seq = [plan |-> 1, station |-> 0, cp |-> 0]
      /\ db = [plans |-> plans, stations |-> stations, cps |-> cps]
  BY <1>3 DEF CatInit
<1>6. db.plans = plans /\ db.stations = stations /\ db.cps = cps
  BY <1>5
<1>7. Rows(plans) = {1} /\ plans[1] = first /\ Rows(stations) = {} /\ Rows(cps) = {}
  BY <1>4, <1>5 DEF Rows
<1>8. CatTypes
  <2>1. plans \in [Plan -> PlanRow \cup {None}]
    BY <1>4, <1>5
  <2>2. /\ stations \in [Station -> StationStatus \cup {None}] /\ cps \in [Cp -> CpRow \cup {None}]
        /\ byOcpp \in [Ident -> Cp \cup {None}]
    BY <1>5
  <2>3. seq \in [plan : Plan, station : Nat, cp : Nat] /\ jobs \in Seq(CatJob)
    BY <1>1, <1>4, <1>5
  <2> QED BY <1>5, <2>1, <2>2, <2>3 DEF CatTypes
<1>9. PlansOK
  <2>1. PlansAt(1)
    BY <1>2, <1>4, <1>6, <1>7 DEF PlansAt
  <2>2. ChainOK
    BY <1>2, <1>5, <1>7 DEF ChainOK
  <2> QED BY <1>4, <2>1, <2>2 DEF PlansOK
<1>10. StationsOK
  <2>1. StationRows
    BY <1>2, <1>5, <1>6 DEF StationRows, Base
  <2>2. UpdatesRemember /\ StationOrder /\ StationsCounted
    BY <1>2, <1>7 DEF UpdatesRemember, StationOrder, StationsCounted
  <2> QED BY <2>1, <2>2 DEF StationsOK
<1>11. CpsOK
  <2>1. CpsKept
    BY <1>2, <1>6, <1>7 DEF CpsKept
  <2>2. CpsFound
    BY <1>5, <1>7 DEF CpsFound
  <2> QED BY <2>1, <2>2 DEF CpsOK
<1> QED BY <1>8, <1>9, <1>10, <1>11 DEF CatInv

(* ------------------------------- the steps ------------------------------ *)
\* The queue keeps its type when a mirror joins it and when one leaves.
LEMMA QueueTypes ==
  ASSUME CatTypes
  PROVE  /\ \A job \in CatJob : jobs' = Append(jobs, job) => jobs' \in Seq(CatJob)
         /\ jobs # <<>> /\ jobs' = Tail(jobs) => jobs' \in Seq(CatJob)
<1>1. jobs \in Seq(CatJob)
  BY DEF CatTypes
<1>2. \A job \in CatJob : Append(jobs, job) \in Seq(CatJob)
  BY <1>1
<1>3. jobs # <<>> => Tail(jobs) \in Seq(CatJob)
  BY <1>1
<1> QED BY <1>2, <1>3

LEMMA CreateKeeps == ASSUME CatInv, CreateTariffVersion PROVE CatInv'
<1>1. CatTypes /\ PlansOK /\ StationsOK /\ CpsOK
  BY DEF CatInv
<1>2. /\ stations' = stations /\ cps' = cps /\ byOcpp' = byOcpp /\ db' = db
      /\ seq' = [seq EXCEPT !.plan = seq.plan + 1]
  BY DEF CreateTariffVersion
<1>3. /\ PlansOK' /\ plans' \in [Plan -> PlanRow \cup {None}] /\ seq'.plan \in Plan
      /\ \E job \in CatJob : job.kind = "plan" /\ jobs' = Append(jobs, job)
  BY <1>1, CreatePlans
<1>4. PICK job \in CatJob : job.kind = "plan" /\ jobs' = Append(jobs, job)
  BY <1>3
<1>5. seq' \in [plan : Plan, station : Nat, cp : Nat] /\ seq'.station = seq.station /\ seq'.cp = seq.cp
  BY <1>1, <1>2, <1>3 DEF CatTypes
<1>6. StationsOK'
  <2>1. job.kind \in {"plan", "cp"}
    BY <1>4
  <2> QED BY <1>1, <1>2, <1>4, <1>5, <2>1, OtherAddedStations
<1>7. CpsOK'
  <2>1. job.kind \in {"plan", "update"}
    BY <1>4
  <2> QED BY <1>1, <1>2, <1>4, <1>5, <2>1, OtherAddedCps
<1>8. CatTypes'
  <2>1. jobs' \in Seq(CatJob)
    BY <1>1, <1>4, QueueTypes
  <2> QED BY <1>1, <1>2, <1>3, <1>5, <2>1 DEF CatTypes
<1> QED BY <1>3, <1>6, <1>7, <1>8 DEF CatInv

LEMMA ProvisionKeeps == ASSUME CatInv, NEW ids \in SUBSET Ident, ProvisionStation(ids) PROVE CatInv'
<1>1. CatTypes /\ PlansOK /\ StationsOK /\ CpsOK
  BY DEF CatInv
<1>2. PICK s : s = seq.station + 1
  OBVIOUS
<1>3. /\ plans' = plans /\ db' = db /\ Fresh(ids) /\ seq.cp + Cardinality(ids) <= MaxCp
      /\ seq' = [seq EXCEPT !.station = s, !.cp = seq.cp + Cardinality(ids)]
      /\ seq.station < MaxStation
  BY <1>2 DEF ProvisionStation
<1>4. /\ seq'.plan = seq.plan /\ seq'.cp = seq.cp + Cardinality(ids) /\ seq'.station = s
      /\ seq' \in [plan : {seq.plan}, station : {seq'.station}, cp : {seq'.cp}]
  BY <1>1, <1>3 DEF CatTypes
<1>5. s \in Station
  <2>1. seq.station \in Nat /\ MaxStation \in Nat
    BY <1>1, StationTypes, CatalogueAssumption
  <2> QED BY <1>2, <1>3, <2>1 DEF Station
<1>6. PICK f \in NewCps(s, ids) : WithCps(f) /\ jobs' = Append(jobs, [kind |-> "station", id |-> s, cps |-> f])
  BY <1>2 DEF ProvisionStation, Queue
<1>7. /\ CpsOK' /\ cps' \in [Cp -> CpRow \cup {None}] /\ byOcpp' \in [Ident -> Cp \cup {None}] /\ seq'.cp \in Nat
      /\ \E job \in CatJob : job.kind = "station" /\ job.id = s /\ jobs' = Append(jobs, job)
  <2>1. PICK kind \in {"station", "cp"} : kind = "station"
    OBVIOUS
  <2>2. jobs' = Append(jobs, [kind |-> kind, id |-> s, cps |-> f]) /\ db'.cps = db.cps
    BY <1>3, <1>6, <2>1
  <2>3. /\ CpsOK' /\ cps' \in [Cp -> CpRow \cup {None}] /\ byOcpp' \in [Ident -> Cp \cup {None}] /\ seq'.cp \in Nat
        /\ \E job \in CatJob : job.kind = kind /\ job.id = s /\ jobs' = Append(jobs, job)
    BY <1>1, <1>3, <1>4, <1>5, <1>6, <2>2, CpsProvisioned
  <2> QED BY <2>1, <2>3
<1>8. PICK job \in CatJob : job.kind = "station" /\ jobs' = Append(jobs, job)
  BY <1>7
<1>9. StationsOK' /\ stations' \in [Station -> StationStatus \cup {None}] /\ seq'.station \in Nat
  BY <1>1, ProvisionedStations
<1>10. PlansOK'
  <2>1. job.kind # "plan"
    BY <1>8
  <2> QED BY <1>1, <1>3, <1>4, <1>8, <2>1, OtherAddedPlans
<1>11. CatTypes'
  <2>1. jobs' \in Seq(CatJob)
    BY <1>1, <1>8, QueueTypes
  <2>2. seq' \in [plan : Plan, station : Nat, cp : Nat]
    <3>1. seq.plan \in Plan
      BY <1>1 DEF CatTypes
    <3> QED BY <1>4, <1>7, <1>9, <3>1
  <2> QED BY <1>1, <1>3, <1>7, <1>9, <2>1, <2>2 DEF CatTypes
<1> QED BY <1>7, <1>9, <1>10, <1>11 DEF CatInv

LEMMA ProvisionCpKeeps ==
  ASSUME CatInv, NEW s \in Station, NEW x \in Ident, ProvisionChargePoint(s, x) PROVE CatInv'
<1>1. CatTypes /\ PlansOK /\ StationsOK /\ CpsOK
  BY DEF CatInv
<1>2. PICK ids \in SUBSET Ident : ids = {x}
  OBVIOUS
<1>3. Cardinality(ids) = 1
  BY <1>2, FS_Singleton
<1>4. /\ plans' = plans /\ stations' = stations /\ db' = db /\ Fresh(ids) /\ seq.cp < MaxCp
      /\ seq' = [seq EXCEPT !.cp = seq.cp + 1]
  BY <1>2 DEF ProvisionChargePoint
<1>5. /\ seq'.plan = seq.plan /\ seq'.cp = seq.cp + Cardinality(ids) /\ seq'.station = seq.station
      /\ seq' \in [plan : {seq.plan}, station : {seq.station}, cp : {seq'.cp}]
  BY <1>1, <1>3, <1>4 DEF CatTypes
<1>6. seq.cp + Cardinality(ids) <= MaxCp
  <2>1. seq.cp \in Nat /\ MaxCp \in Nat
    BY <1>1, CpTypes, CatalogueAssumption
  <2> QED BY <1>3, <1>4, <2>1
<1>7. PICK f \in NewCps(s, ids) : WithCps(f) /\ jobs' = Append(jobs, [kind |-> "cp", id |-> s, cps |-> f])
  BY <1>2 DEF ProvisionChargePoint, Queue
<1>8. /\ CpsOK' /\ cps' \in [Cp -> CpRow \cup {None}] /\ byOcpp' \in [Ident -> Cp \cup {None}] /\ seq'.cp \in Nat
      /\ \E job \in CatJob : job.kind = "cp" /\ job.id = s /\ jobs' = Append(jobs, job)
  <2>1. PICK kind \in {"station", "cp"} : kind = "cp"
    OBVIOUS
  <2>2. jobs' = Append(jobs, [kind |-> kind, id |-> s, cps |-> f]) /\ db'.cps = db.cps
    BY <1>4, <1>7, <2>1
  <2>3. /\ CpsOK' /\ cps' \in [Cp -> CpRow \cup {None}] /\ byOcpp' \in [Ident -> Cp \cup {None}] /\ seq'.cp \in Nat
        /\ \E job \in CatJob : job.kind = kind /\ job.id = s /\ jobs' = Append(jobs, job)
    BY <1>1, <1>4, <1>5, <1>6, <1>7, <2>2, CpsProvisioned
  <2> QED BY <2>1, <2>3
<1>9. PICK job \in CatJob : job.kind = "cp" /\ jobs' = Append(jobs, job)
  BY <1>8
<1>10. StationsOK'
  <2>1. job.kind \in {"plan", "cp"}
    BY <1>9
  <2> QED BY <1>1, <1>4, <1>5, <1>9, <2>1, OtherAddedStations
<1>11. PlansOK'
  <2>1. job.kind # "plan"
    BY <1>9
  <2> QED BY <1>1, <1>4, <1>5, <1>9, <2>1, OtherAddedPlans
<1>12. CatTypes'
  <2>1. jobs' \in Seq(CatJob)
    BY <1>1, <1>9, QueueTypes
  <2>2. seq' \in [plan : Plan, station : Nat, cp : Nat]
    <3>1. seq.plan \in Plan /\ seq.station \in Nat
      BY <1>1 DEF CatTypes
    <3> QED BY <1>5, <1>8, <3>1
  <2> QED BY <1>1, <1>4, <1>8, <2>1, <2>2 DEF CatTypes
<1> QED BY <1>8, <1>10, <1>11, <1>12 DEF CatInv

LEMMA UpdateKeeps ==
  ASSUME CatInv, NEW s \in Station, NEW to \in {"ACTIVE", "INACTIVE"}, UpdateStation(s, to) PROVE CatInv'
<1>1. CatTypes /\ PlansOK /\ StationsOK /\ CpsOK
  BY DEF CatInv
<1>2. /\ plans' = plans /\ cps' = cps /\ byOcpp' = byOcpp /\ seq' = seq /\ db' = db
  BY DEF UpdateStation
<1>3. /\ StationsOK' /\ stations' \in [Station -> StationStatus \cup {None}]
      /\ \E job \in CatJob : job.kind = "update" /\ jobs' = Append(jobs, job)
  <2>1. to \in StationStatus
    BY DEF StationStatus
  <2> QED BY <1>1, <2>1, UpdateStaged
<1>4. PICK job \in CatJob : job.kind = "update" /\ jobs' = Append(jobs, job)
  BY <1>3
<1>5. PlansOK'
  <2>1. job.kind # "plan"
    BY <1>4
  <2> QED BY <1>1, <1>2, <1>4, <2>1, OtherAddedPlans
<1>6. CpsOK'
  <2>1. job.kind \in {"plan", "update"}
    BY <1>4
  <2> QED BY <1>1, <1>2, <1>4, <2>1, OtherAddedCps
<1>7. CatTypes'
  <2>1. jobs' \in Seq(CatJob)
    BY <1>1, <1>4, QueueTypes
  <2> QED BY <1>1, <1>2, <1>3, <2>1 DEF CatTypes
<1> QED BY <1>3, <1>5, <1>6, <1>7 DEF CatInv

\* What a commit leaves alone.
LEMMA CommitTypes ==
  ASSUME CatTypes, CatalogueStored,
         db'.plans \in [Plan -> PlanRow \cup {None}], db'.stations \in [Station -> StationStatus \cup {None}],
         db'.cps \in [Cp -> CpRow \cup {None}],
         db' \in [plans : {db'.plans}, stations : {db'.stations}, cps : {db'.cps}]
  PROVE  CatTypes'
<1>1. /\ plans' = plans /\ stations' = stations /\ cps' = cps /\ byOcpp' = byOcpp /\ seq' = seq
      /\ jobs # <<>> /\ jobs' = Tail(jobs)
  BY DEF CatalogueStored
<1>2. jobs' \in Seq(CatJob)
  BY <1>1, QueueTypes
<1>3. db' \in [plans : [Plan -> PlanRow \cup {None}], stations : [Station -> StationStatus \cup {None}],
               cps : [Cp -> CpRow \cup {None}]]
  OBVIOUS
<1> QED BY <1>1, <1>2, <1>3 DEF CatTypes

LEMMA CommitKeeps == ASSUME CatInv, CatalogueStored PROVE CatInv'
<1>1. CatTypes /\ PlansOK /\ StationsOK /\ CpsOK
  BY DEF CatInv
<1>2. PICK job : job = Head(jobs)
  OBVIOUS
<1>3. /\ plans' = plans /\ stations' = stations /\ cps' = cps /\ byOcpp' = byOcpp /\ seq' = seq
      /\ jobs # <<>> /\ jobs' = Tail(jobs)
  BY DEF CatalogueStored
<1>4. job \in CatJob
  BY <1>1, <1>2, <1>3, JobDone DEF CatTypes
<1>5. /\ db.plans \in [Plan -> PlanRow \cup {None}] /\ db.stations \in [Station -> StationStatus \cup {None}]
      /\ db.cps \in [Cp -> CpRow \cup {None}]
  BY <1>1 DEF CatTypes
<1>6. CASE job.kind = "plan"
  <2>1. db' = PlanRows(job.id)
    BY <1>2, <1>6 DEF CatalogueStored
  <2>2. /\ db'.stations = db.stations /\ db'.cps = db.cps
        /\ db' \in [plans : {db'.plans}, stations : {db'.stations}, cps : {db'.cps}]
    BY <1>1, <2>1 DEF PlanRows, CatTypes
  <2>3. PlansOK' /\ db'.plans \in [Plan -> PlanRow \cup {None}]
    BY <1>1, <1>2, <1>6, PlanStored
  <2>4. job.kind \in {"plan", "cp"} /\ job.kind \in {"plan", "update"}
    BY <1>6
  <2>5. StationsOK'
    BY <1>1, <1>2, <1>3, <2>2, <2>4, OtherDoneStations
  <2>6. CpsOK'
    BY <1>1, <1>2, <1>3, <2>2, <2>4, OtherDoneCps
  <2>7. CatTypes'
    BY <1>1, <1>5, <2>2, <2>3, CommitTypes
  <2> QED BY <2>3, <2>5, <2>6, <2>7 DEF CatInv
<1>7. CASE job.kind = "update"
  <2>1. db' = UpdatedRow(job.id)
    BY <1>2, <1>7 DEF CatalogueStored
  <2>2. /\ StationsOK' /\ db'.stations \in [Station -> StationStatus \cup {None}]
        /\ db'.plans = db.plans /\ db'.cps = db.cps
    BY <1>1, <1>2, <1>7, UpdateStored
  <2>3. db' \in [plans : {db'.plans}, stations : {db'.stations}, cps : {db'.cps}]
    <3>1. db' = db \/ db' = [db EXCEPT !.stations[job.id] = stations[job.id]]
      BY <2>1 DEF UpdatedRow
    <3> QED BY <1>1, <3>1 DEF CatTypes
  <2>4. job.kind # "plan" /\ job.kind \in {"plan", "update"}
    BY <1>7
  <2>5. PlansOK'
    BY <1>1, <1>2, <1>3, <2>2, <2>4, OtherDonePlans
  <2>6. CpsOK'
    BY <1>1, <1>2, <1>3, <2>2, <2>4, OtherDoneCps
  <2>7. CatTypes'
    BY <1>1, <1>5, <2>2, <2>3, CommitTypes
  <2> QED BY <2>2, <2>5, <2>6, <2>7 DEF CatInv
<1>8. CASE job.kind = "station" \/ job.kind = "cp"
  <2>1. db' = HardwareRows(job)
    BY <1>2, <1>8 DEF CatalogueStored
  <2>2. /\ db'.plans = db.plans
        /\ db' \in [plans : {db'.plans}, stations : {db'.stations}, cps : {db'.cps}]
    BY <1>1, <2>1 DEF HardwareRows, CatTypes
  <2>3. job.kind # "plan" /\ job.kind \in {"station", "cp"}
    BY <1>8
  <2>4. PlansOK'
    BY <1>1, <1>2, <1>3, <2>2, <2>3, OtherDonePlans
  <2>5. CpsOK' /\ db'.cps \in [Cp -> CpRow \cup {None}]
    BY <1>1, <1>2, <2>3, HardwareStored
  <2>6. StationsOK' /\ db'.stations \in [Station -> StationStatus \cup {None}]
    <3>1. CASE job.kind = "station"
      BY <1>1, <1>2, <3>1, StationStored
    <3>2. CASE job.kind = "cp"
      <4>1. job.id \in Station /\ job.kind \in {"plan", "cp"}
        BY <1>4, <2>3, <3>2, JobIs
      <4>2. db'.stations = [db.stations EXCEPT ![job.id] = db.stations[job.id]]
        BY <1>1, <2>1, <3>2 DEF HardwareRows, CatTypes
      <4>3. db'.stations = db.stations
        BY <1>5, <4>2
      <4> QED BY <1>1, <1>2, <1>3, <1>5, <4>1, <4>3, OtherDoneStations
    <3> QED BY <1>8, <3>1, <3>2
  <2>7. CatTypes'
    BY <1>1, <1>5, <2>2, <2>5, <2>6, CommitTypes
  <2> QED BY <2>4, <2>5, <2>6, <2>7 DEF CatInv
<1>9. job.kind = "plan" \/ job.kind = "update" \/ job.kind = "station" \/ job.kind = "cp"
  BY <1>4, JobIs
<1> QED BY <1>6, <1>7, <1>8, <1>9

LEMMA FailedPlanKeeps == ASSUME CatInv, PlanFails PROVE CatInv'
<1>1. CatTypes /\ PlansOK /\ StationsOK /\ CpsOK
  BY DEF CatInv
<1>2. /\ stations' = stations /\ cps' = cps /\ byOcpp' = byOcpp /\ seq' = seq /\ db' = db
      /\ jobs # <<>> /\ jobs' = Tail(jobs) /\ Head(jobs).kind = "plan"
  BY DEF PlanFails
<1>3. PlansOK' /\ plans' \in [Plan -> PlanRow \cup {None}]
  BY <1>1, PlanFailed
<1>4. Head(jobs).kind \in {"plan", "cp"} /\ Head(jobs).kind \in {"plan", "update"}
  BY <1>2
<1>5. StationsOK'
  BY <1>1, <1>2, <1>4, OtherDoneStations
<1>6. CpsOK'
  BY <1>1, <1>2, <1>4, OtherDoneCps
<1>7. CatTypes'
  <2>1. jobs' \in Seq(CatJob)
    BY <1>1, <1>2, QueueTypes
  <2> QED BY <1>1, <1>2, <1>3, <2>1 DEF CatTypes
<1> QED BY <1>3, <1>5, <1>6, <1>7 DEF CatInv

LEMMA FailedHardwareKeeps == ASSUME CatInv, HardwareFails PROVE CatInv'
<1>1. CatTypes /\ PlansOK /\ StationsOK /\ CpsOK
  BY DEF CatInv
<1>2. PICK job : job = Head(jobs)
  OBVIOUS
<1>3. /\ plans' = plans /\ seq' = seq /\ db' = db /\ jobs # <<>> /\ jobs' = Tail(jobs)
      /\ job.kind \in {"station", "cp"}
      /\ stations' = IF job.kind = "station" THEN [stations EXCEPT ![job.id] = None] ELSE stations
  BY <1>2 DEF HardwareFails, HardwareUndone
<1>4. CpsOK' /\ cps' \in [Cp -> CpRow \cup {None}] /\ byOcpp' \in [Ident -> Cp \cup {None}]
  BY <1>1, HardwareFailed
<1>5. PlansOK'
  <2>1. job.kind # "plan"
    BY <1>3
  <2> QED BY <1>1, <1>2, <1>3, <2>1, OtherDonePlans
<1>6. StationsOK' /\ stations' \in [Station -> StationStatus \cup {None}]
  <2>1. CASE job.kind = "station"
    BY <1>1, <1>2, <2>1, StationFailed
  <2>2. CASE job.kind # "station"
    <3>1. stations' = stations /\ job.kind \in {"plan", "cp"}
      BY <1>3, <2>2
    <3> QED BY <1>1, <1>2, <1>3, <3>1, OtherDoneStations, StationTypes
  <2> QED BY <2>1, <2>2
<1>7. CatTypes'
  <2>1. jobs' \in Seq(CatJob)
    BY <1>1, <1>3, QueueTypes
  <2> QED BY <1>1, <1>3, <1>4, <1>6, <2>1 DEF CatTypes
<1> QED BY <1>4, <1>5, <1>6, <1>7 DEF CatInv

LEMMA FailedUpdateKeeps == ASSUME CatInv, UpdateFails PROVE CatInv'
<1>1. CatTypes /\ PlansOK /\ StationsOK /\ CpsOK
  BY DEF CatInv
<1>2. /\ plans' = plans /\ cps' = cps /\ byOcpp' = byOcpp /\ seq' = seq /\ db' = db
      /\ jobs # <<>> /\ jobs' = Tail(jobs) /\ Head(jobs).kind = "update"
  BY DEF UpdateFails
<1>3. StationsOK' /\ stations' \in [Station -> StationStatus \cup {None}]
  BY <1>1, UpdateFailed
<1>4. Head(jobs).kind # "plan" /\ Head(jobs).kind \in {"plan", "update"}
  BY <1>2
<1>5. PlansOK'
  BY <1>1, <1>2, <1>4, OtherDonePlans
<1>6. CpsOK'
  BY <1>1, <1>2, <1>4, OtherDoneCps
<1>7. CatTypes'
  <2>1. jobs' \in Seq(CatJob)
    BY <1>1, <1>2, QueueTypes
  <2> QED BY <1>1, <1>2, <1>3, <2>1 DEF CatTypes
<1> QED BY <1>3, <1>5, <1>6, <1>7 DEF CatInv

LEMMA CatStep == CatInv /\ [CatNext]_catVars => CatInv'
<1> SUFFICES ASSUME CatInv, [CatNext]_catVars PROVE CatInv'
  OBVIOUS
<1>1. CASE CreateTariffVersion
  BY <1>1, CreateKeeps
<1>2. CASE \E ids \in SUBSET Ident : ProvisionStation(ids)
  BY <1>2, ProvisionKeeps
<1>3. CASE \E s \in Station, x \in Ident : ProvisionChargePoint(s, x)
  BY <1>3, ProvisionCpKeeps
<1>4. CASE \E s \in Station, to \in {"ACTIVE", "INACTIVE"} : UpdateStation(s, to)
  BY <1>4, UpdateKeeps
<1>5. CASE CatalogueStored
  BY <1>5, CommitKeeps
<1>6. CASE PlanFails
  BY <1>6, FailedPlanKeeps
<1>7. CASE HardwareFails
  BY <1>7, FailedHardwareKeeps
<1>8. CASE UpdateFails
  BY <1>8, FailedUpdateKeeps
<1>9. CASE Rehydrate
  BY <1>9, RestartSound
<1>10. CASE UNCHANGED catVars
  <2>1. /\ plans' = plans /\ stations' = stations /\ cps' = cps /\ byOcpp' = byOcpp
        /\ seq' = seq /\ db' = db /\ jobs' = jobs
    BY <1>10 DEF catVars
  <2>2. \A kinds : Of(kinds)' = Of(kinds)
    BY <2>1 DEF Of
  <2>3. Staged' = Staged /\ Updating' = Updating /\ Hardware' = Hardware
    BY <2>1, <2>2 DEF Staged, Updating, Hardware
  <2>4. \A s : New(s)' = New(s) /\ Base(s)' = Base(s)
    BY <2>1, <2>2 DEF New, Base
  <2>5. CatTypes'
    BY <2>1 DEF CatInv, CatTypes
  <2>6. PlansOK'
    <3>1. PlansOK /\ \A n, m \in Of({"plan"}) : n < m => jobs[n].id < jobs[m].id
      BY DEF CatInv, PlansOK, ChainOK
    <3> QED BY <2>1, <2>2, <2>3, <3>1, PlansStay
  <2>7. StationsOK'
    <3>1. StationRows'
      BY <2>1, <2>3, <2>4 DEF CatInv, StationsOK, StationRows
    <3>2. UpdatesRemember' /\ StationOrder'
      BY <2>1, <2>2 DEF CatInv, StationsOK, UpdatesRemember, StationOrder, Base
    <3>3. StationsCounted'
      BY <2>1 DEF CatInv, StationsOK, StationsCounted, Rows
    <3> QED BY <3>1, <3>2, <3>3 DEF StationsOK
  <2>8. CpsOK'
    BY <2>1, <2>3 DEF CatInv, CpsOK, CpsKept, CpsFound, Rows
  <2> QED BY <2>5, <2>6, <2>7, <2>8 DEF CatInv
<1> QED BY <1>1, <1>2, <1>3, <1>4, <1>5, <1>6, <1>7, <1>8, <1>9, <1>10 DEF CatNext

\* With nothing waiting, memory and the tables are the same rows.
LEMMA IdleIsMirrored ==
  ASSUME CatInv, jobs = <<>>
  PROVE  /\ db = [plans |-> plans, stations |-> stations, cps |-> cps]
         /\ Cardinality({p \in Rows(plans) : plans[p].open}) = 1
<1>1. CatTypes /\ PlansOK /\ StationsOK /\ CpsOK
  BY DEF CatInv
<1>2. /\ Staged = {} /\ Updating = {} /\ Hardware = {} /\ \A s : ~New(s)
  BY NoJobs
<1>3. PICK d \in Plan : PlansAt(d)
  BY <1>1 DEF PlansOK
<1>4. /\ Rows(plans) = Rows(db.plans) /\ d \in Rows(plans) /\ plans[d].open
      /\ \A p \in Rows(plans) : /\ plans[p].supersedes = db.plans[p].supersedes
                                /\ db.plans[p].open <=> p = d
                                /\ p # d => ~plans[p].open
  BY <1>2, <1>3 DEF PlansAt
<1>5. db.plans = plans
  <2>1. ASSUME NEW p \in Plan PROVE db.plans[p] = plans[p]
    <3>1. CASE p \in Rows(plans)
      <4>1. plans[p] \in PlanRow /\ db.plans[p] \in PlanRow
        BY <1>1, <1>4, <3>1, RowsOf
      <4>2. plans[p].supersedes = db.plans[p].supersedes /\ (plans[p].open <=> db.plans[p].open)
        BY <1>4, <3>1
      <4>3. plans[p].open \in BOOLEAN /\ db.plans[p].open \in BOOLEAN
        BY <4>1 DEF PlanRow
      <4>4. plans[p].open = db.plans[p].open
        BY <4>2, <4>3
      <4> QED BY <4>1, <4>2, <4>4 DEF PlanRow
    <3>2. CASE p \notin Rows(plans)
      BY <1>1, <1>4, <3>2, RowsOf
    <3> QED BY <3>1, <3>2
  <2> QED BY <1>1, <2>1 DEF CatTypes
<1>6. db.stations = stations
  <2>1. ASSUME NEW s \in Station PROVE db.stations[s] = stations[s]
    <3>1. (stations[s] # None <=> db.stations[s] # None) /\ (stations[s] # None => stations[s] = Base(s))
      BY <1>1, <1>2 DEF StationsOK, StationRows
    <3> QED BY <3>1 DEF Base
  <2> QED BY <1>1, <2>1 DEF CatTypes
<1>7. db.cps = cps
  <2>1. ASSUME NEW c \in Cp PROVE db.cps[c] = cps[c]
    <3>1. c \in Rows(db.cps) <=> c \in Rows(cps)
      <4>1. c \in Rows(cps) => c \in Rows(db.cps)
        BY <1>1, <1>2 DEF CpsOK, CpsKept
      <4>2. c \in Rows(db.cps) => c \in Rows(cps)
        BY <1>1, CpTypes DEF CpsOK, CpsKept
      <4> QED BY <4>1, <4>2
    <3>2. CASE c \in Rows(cps)
      BY <1>1, <3>1, <3>2 DEF CpsOK, CpsKept
    <3>3. CASE c \notin Rows(cps)
      BY <1>1, <3>1, <3>3, CpTypes
    <3> QED BY <3>2, <3>3
  <2> QED BY <1>1, <2>1 DEF CatTypes
<1>8. db = [plans |-> plans, stations |-> stations, cps |-> cps]
  BY <1>1, <1>5, <1>6, <1>7 DEF CatTypes
<1>9. Cardinality({p \in Rows(plans) : plans[p].open}) = 1
  <2>1. {p \in Rows(plans) : plans[p].open} = {d}
    BY <1>4
  <2> QED BY <2>1, FS_Singleton
<1> QED BY <1>8, <1>9

(* The catalogue a restart would read is the one in memory, whenever no    *)
(* mirror waits, with one open version of the tariff; and the gateway      *)
(* finds every charge point under its identity (store.js, oracle.js).      *)
THEOREM CatalogueStaysMirrored == CatSpec => []CatalogueMirrored
<1>1. CatInv => CatalogueMirrored
  <2> SUFFICES ASSUME CatInv PROVE CatalogueMirrored
    OBVIOUS
  <2>1. ASSUME NEW x \in Ident
        PROVE  IF byOcpp[x] = None THEN \A c \in Rows(cps) : cps[c].ident # x
               ELSE cps[byOcpp[x]] # None /\ cps[byOcpp[x]].ident = x
    <3>1. CatTypes /\ CpsFound
      BY DEF CatInv, CpsOK
    <3>2. CASE byOcpp[x] = None
      <4>1. \A c \in Rows(cps) : byOcpp[cps[c].ident] = c /\ c # None
        BY <3>1, CpTypes DEF CpsFound
      <4> QED BY <3>2, <4>1
    <3>3. CASE byOcpp[x] # None
      BY <3>1, <3>3, CpTypes DEF CpsFound
    <3> QED BY <3>2, <3>3
  <2> QED BY <2>1, IdleIsMirrored DEF CatalogueMirrored
<1> QED BY <1>1, CatInitSound, CatStep, PTL DEF CatSpec

-----------------------------------------------------------------------------
(* Grid control (ControlMirror).                                           *)
CtlSpec == CtlInit /\ [][CtlNext]_ctlVars
RowOf(t) == CASE t = "assets" -> AssetRow [] t = "decisions" -> {"COMMITTED"} [] t = "certs" -> CertRow
              [] t = "pushes" -> PushRow [] t = "letters" -> LetterRow
RowsTyped(tabs) ==
  /\ DOMAIN tabs = Table /\ tabs = [t \in Table |-> tabs[t]]
  /\ \A t \in Table : tabs[t] \in [1 .. MaxRows[t] -> RowOf(t) \cup {Absent}]
Ops == {"insert", "update", "approve", "resolve", "merge", "audit"}
CtlJob == [op : Ops, table : Table, id : Nat]

CtlTypes == RowsTyped(mem) /\ RowsTyped(ora) /\ queue \in Seq(CtlJob)

\* The row a mirror may bring to the table.
Brings(job) == job.op \in {"insert", "merge"}
Backed(need, n) ==
  \/ In(need) \/ need \in gone \cup unsent
  \/ \E m \in DOMAIN queue : m < n /\ Brings(queue[m]) /\ <<queue[m].table, queue[m].id>> = need

JobsOK == \A n \in DOMAIN queue :
  /\ queue[n].op # "audit" => queue[n].id \in Ids(mem, queue[n].table)
  /\ queue[n].op = "approve" => queue[n].table = "assets"
  /\ queue[n].op \in {"merge", "resolve"} => queue[n].table = "letters"
  /\ queue[n].table = "assets" => queue[n].op \in {"insert", "update", "approve", "audit"}
RowsBacked == \A t \in Table : \A i \in Ids(mem, t) : Backed(<<t, i>>, Len(queue) + 1)
NeedsBacked == \A n \in DOMAIN queue : \A need \in Needs(queue[n]) : Backed(need, n)

Pending(a, ops) == \E n \in DOMAIN queue : queue[n].table = "assets" /\ queue[n].id = a /\ queue[n].op \in ops
OnItsWay(a) ==
  LET m == mem["assets"][a] o == ora["assets"][a]
  IN  /\ m = Absent => o = Absent
      /\ m # Absent /\ o = Absent => Pending(a, {"insert"}) \/ <<"assets", a>> \in unsent
      /\ m # Absent /\ o # Absent => /\ m.parent = o.parent
                                     /\ m.cap = o.cap \/ Pending(a, {"update"})
                                     /\ m.status = o.status \/ Pending(a, {"update", "approve"})
AssetsOK == ~counted => \A a \in 1 .. MaxRows["assets"] : OnItsWay(a)

CtlInv == CtlTypes /\ JobsOK /\ RowsBacked /\ NeedsBacked /\ AssetsOK

LEMMA TablesAre == Table = {"assets", "decisions", "certs", "pushes", "letters"}
BY DEF Table

LEMMA AbsentIsNoRow == \A t \in Table : Absent \notin RowOf(t)
BY ControlAssumption DEF RowOf, Table

LEMMA RowsAre ==
  ASSUME NEW tabs, RowsTyped(tabs), NEW t \in Table
  PROVE  /\ tabs[t] \in [1 .. MaxRows[t] -> RowOf(t) \cup {Absent}] /\ MaxRows[t] \in Nat
         /\ Ids(tabs, t) \subseteq 1 .. MaxRows[t]
         /\ \A i \in Ids(tabs, t) : tabs[t][i] \in RowOf(t)
         /\ \A i \in 1 .. MaxRows[t] : i \in Ids(tabs, t) <=> tabs[t][i] # Absent
<1>1. tabs[t] \in [1 .. MaxRows[t] -> RowOf(t) \cup {Absent}] /\ MaxRows[t] \in Nat
  BY ControlAssumption DEF RowsTyped
<1> QED BY <1>1 DEF Ids

LEMMA PutRow ==
  ASSUME NEW tabs, RowsTyped(tabs), NEW t \in Table, NEW i \in 1 .. MaxRows[t], NEW row \in RowOf(t),
         NEW f, f = [tabs[t] EXCEPT ![i] = row], NEW new, new = [tabs EXCEPT ![t] = f]
  PROVE  RowsTyped(new)
<1>1. DOMAIN tabs = Table /\ tabs[t] \in [1 .. MaxRows[t] -> RowOf(t) \cup {Absent}]
  BY DEF RowsTyped
<1>2. DOMAIN new = Table /\ new = [u \in Table |-> new[u]] /\ new[t] = f
      /\ \A u \in Table : u # t => new[u] = tabs[u]
  BY <1>1
<1>3. new[t] \in [1 .. MaxRows[t] -> RowOf(t) \cup {Absent}]
  BY <1>1, <1>2
<1> QED BY <1>2, <1>3 DEF RowsTyped

LEMMA NextIdIs ==
  ASSUME CtlTypes, NEW t \in Table, Space(t)
  PROVE  NextId(t) \in 1 .. MaxRows[t] /\ NextId(t) \notin Ids(mem, t)
<1>1. Ids(mem, t) \subseteq 1 .. MaxRows[t] /\ MaxRows[t] \in Nat
  BY RowsAre DEF CtlTypes
<1>2. CASE Ids(mem, t) = {}
  BY <1>1, <1>2 DEF NextId, Space
<1>3. CASE Ids(mem, t) # {}
  <2>1. 1 \in Int /\ MaxRows[t] \in Int
    BY <1>1
  <2>2. Max(Ids(mem, t)) \in Ids(mem, t) /\ \A y \in Ids(mem, t) : y <= Max(Ids(mem, t))
    BY <1>1, <1>3, <2>1, MaxIs
  <2>3. Max(Ids(mem, t)) \in 1 .. MaxRows[t]
    BY <1>1, <2>2
  <2>4. NextId(t) = Max(Ids(mem, t)) + 1
    BY <1>3 DEF NextId
  <2>5. NextId(t) \notin Ids(mem, t)
    BY <1>1, <2>2, <2>3, <2>4
  <2> QED BY <1>1, <2>3, <2>4, <2>5 DEF Space
<1> QED BY <1>2, <1>3

(* ---------------------- a row of memory and its mirror ------------------ *)
\* What a write keeps of the row that was there, and where a new one refers to.
KeepsRow(t, i, row, op) ==
  LET old == mem[t][i]
  IN  /\ t = "assets" => row.parent = old.parent /\ (op = "approve" => row.cap = old.cap)
      /\ t = "pushes" => row.decision = old.decision
Refers(t, row) ==
  /\ t = "assets" => row.parent = 0 \/ row.parent \in Ids(mem, "assets")
  /\ t = "pushes" => row.decision \in Ids(mem, "decisions")

LEMMA WriteKeeps ==
  ASSUME CtlInv, NEW t \in Table, NEW i \in 1 .. MaxRows[t], NEW row \in RowOf(t), NEW op \in Ops,
         Write(t, i, row, op), op = "approve" => t = "assets", op \in {"merge", "resolve"} => t = "letters",
         \/ i \notin Ids(mem, t) /\ op \in {"insert", "merge"} /\ Refers(t, row)
         \/ i \notin Ids(mem, t) /\ op = "update" /\ t = "assets"
         \/ i \in Ids(mem, t) /\ op \in {"update", "approve", "resolve", "merge"} /\ KeepsRow(t, i, row, op)
            /\ (t = "assets" => op \in {"update", "approve"})
  PROVE  CtlInv'
<1>1. /\ mem' = [mem EXCEPT ![t][i] = row] /\ UNCHANGED <<ora, counted, gone>>
      /\ unsent \subseteq unsent' /\ (op = "update" /\ i \notin Ids(mem, t) => <<t, i>> \in unsent')
  BY DEF Write
<1>2. PICK job : job = [op |-> op, table |-> t, id |-> i]
  OBVIOUS
<1>3. MaxRows[t] \in Nat
  BY ControlAssumption
<1>4. job \in CtlJob /\ job.op = op /\ job.table = t /\ job.id = i /\ queue' = Append(queue, job)
  BY <1>2, <1>3 DEF CtlJob, Write
<1>5. queue \in Seq(CtlJob)
  BY DEF CtlInv, CtlTypes
<1>6. /\ queue' \in Seq(CtlJob) /\ Len(queue) \in Nat /\ Len(queue') = Len(queue) + 1
      /\ DOMAIN queue = 1 .. Len(queue) /\ DOMAIN queue' = 1 .. Len(queue) + 1
      /\ \A n \in DOMAIN queue : n \in DOMAIN queue' /\ queue'[n] = queue[n] /\ n <= Len(queue) /\ n \in Nat
                                 /\ queue[n] \in CtlJob
      /\ queue'[Len(queue) + 1] = job
  BY <1>4, <1>5
<1>7. /\ RowsTyped(mem)' /\ mem'[t][i] = row
      /\ \A u \in Table : \A j \in 1 .. MaxRows[u] : u # t \/ j # i => mem'[u][j] = mem[u][j]
      /\ Ids(mem', t) = Ids(mem, t) \cup {i}
      /\ \A u \in Table : u # t => Ids(mem', u) = Ids(mem, u)
  <2>1. PICK new, old : new = mem' /\ old = mem
    OBVIOUS
  <2>f. PICK f : f = [old[t] EXCEPT ![i] = row]
    OBVIOUS
  <2>2. new = [old EXCEPT ![t] = f] /\ RowsTyped(old)
    BY <1>1, <2>1, <2>f DEF CtlInv, CtlTypes
  <2>3. RowsTyped(mem)'
    <3>1. RowsTyped(new)
      BY <2>f, <2>2, PutRow
    <3> QED BY <2>1, <3>1 DEF RowsTyped
  <2>4. /\ DOMAIN old = Table /\ DOMAIN old[t] = 1 .. MaxRows[t] /\ row # Absent
        /\ new[t] = f /\ \A u \in Table : u # t => new[u] = old[u]
    BY <2>2, AbsentIsNoRow DEF RowsTyped
  <2>5. DOMAIN f = 1 .. MaxRows[t] /\ f[i] = row /\ \A j \in 1 .. MaxRows[t] : j # i => f[j] = old[t][j]
    BY <2>f, <2>4
  <2>6. Ids(mem', t) = Ids(mem, t) \cup {i}
    BY <2>1, <2>4, <2>5 DEF Ids
  <2>7. \A u \in Table : u # t => Ids(mem', u) = Ids(mem, u)
    BY <2>1, <2>4 DEF Ids
  <2> QED BY <2>1, <2>3, <2>4, <2>5, <2>6, <2>7
<1>L. PICK L : L = Len(queue)
  OBVIOUS
<1>8. CtlTypes'
  BY <1>1, <1>6, <1>7 DEF CtlInv, CtlTypes, RowsTyped
<1>9. JobsOK'
  <2> SUFFICES ASSUME NEW n \in DOMAIN queue'
               PROVE  /\ queue'[n].op # "audit" => queue'[n].id \in Ids(mem', queue'[n].table)
                      /\ queue'[n].op = "approve" => queue'[n].table = "assets"
                      /\ queue'[n].op \in {"merge", "resolve"} => queue'[n].table = "letters"
                      /\ queue'[n].table = "assets" => queue'[n].op \in {"insert", "update", "approve", "audit"}
    BY DEF JobsOK
  <2>1. CASE n \in DOMAIN queue
    BY <1>6, <1>7, <2>1 DEF CtlInv, JobsOK, CtlJob
  <2>2. CASE n = Len(queue) + 1
    BY <1>4, <1>6, <1>7, <2>2
  <2> QED BY <1>6, <2>1, <2>2
<1>10. \A need, n : Backed(need, n) => Backed(need, n)'
  BY <1>1, <1>6 DEF Backed, In
<1>11. \A need : Backed(need, L + 1) => Backed(need, L + 2)'
  <2>1. \A need : Backed(need, L + 1)' => Backed(need, L + 2)'
    <3> SUFFICES ASSUME NEW need, Backed(need, L + 1)' PROVE Backed(need, L + 2)'
      OBVIOUS
    <3>1. \A m \in DOMAIN queue' : m < L + 1 => m < L + 2
      BY <1>6, <1>L
    <3> QED BY <3>1 DEF Backed
  <2> QED BY <1>10, <2>1
<1>12. Brings(job) => Backed(<<t, i>>, L + 2)'
  <2>1. L + 1 \in DOMAIN queue' /\ queue'[L + 1] = job /\ L + 1 < L + 2
    BY <1>6, <1>L
  <2> QED BY <1>4, <2>1 DEF Backed
<1>13. RowsBacked'
  <2> SUFFICES ASSUME NEW u \in Table, NEW j \in Ids(mem', u)
               PROVE  Backed(<<u, j>>, L + 2)'
    <3>1. Len(queue') + 1 = L + 2
      BY <1>6, <1>L
    <3>2. \A u \in Table : \A j \in Ids(mem', u) : Backed(<<u, j>>, Len(queue) + 1)'
      BY <3>1
    <3> QED BY <3>2 DEF RowsBacked, Ids
  <2>1. CASE j \in Ids(mem, u)
    BY <1>11, <1>L, <2>1 DEF CtlInv, RowsBacked
  <2>2. CASE j \notin Ids(mem, u)
    <3>1. u = t /\ j = i
      BY <1>7, <2>2
    <3>2. CASE op = "update"
      BY <1>1, <2>2, <3>1, <3>2 DEF Backed
    <3>3. CASE op \in {"insert", "merge"}
      BY <1>4, <1>12, <3>1, <3>3 DEF Brings
    <3> QED BY <2>2, <3>1, <3>2, <3>3
  <2> QED BY <2>1, <2>2
<1>14. NeedsBacked'
  <2> SUFFICES ASSUME NEW n \in DOMAIN queue', NEW k, k = queue'[n], NEW need, (need \in Needs(k))'
               PROVE  Backed(need, n)'
    BY DEF NeedsBacked
  <2>1. CASE n \in DOMAIN queue
    <3>1. k \in CtlJob /\ k.table \in Table
      BY <1>6, <2>1 DEF CtlJob
    <3>2. k = queue[n]
      BY <1>6, <2>1
    <3>3. need \in Needs(k)
      <4>1. CASE k.op = "insert" /\ k.table = t /\ k.id = i
        <5>1. i \in Ids(mem, t)
          BY <2>1, <3>2, <4>1 DEF CtlInv, JobsOK
        <5>2. KeepsRow(t, i, row, op)
          BY <5>1
        <5> QED BY <1>7, <3>1, <3>2, <4>1, <5>2 DEF Needs, KeepsRow
      <4>2. CASE k.op = "insert" /\ ~(k.table = t /\ k.id = i)
        <5>1. k.id \in Ids(mem, k.table)
          BY <2>1, <3>2, <4>2 DEF CtlInv, JobsOK
        <5>2. k.id \in 1 .. MaxRows[k.table]
          BY <3>1, <3>2, <5>1, RowsAre DEF CtlInv, CtlTypes
        <5>3. mem'[k.table][k.id] = mem[k.table][k.id]
          BY <1>7, <3>1, <3>2, <4>2, <5>2
        <5> QED BY <3>1, <3>2, <5>3 DEF Needs
      <4>3. CASE k.op # "insert"
        BY <3>1, <3>2, <4>3 DEF Needs
      <4> QED BY <4>1, <4>2, <4>3
    <3> QED BY <1>10, <2>1, <3>2, <3>3 DEF CtlInv, NeedsBacked
  <2>2. CASE n = Len(queue) + 1
    <3>1. (need \in Needs(job))'
      BY <1>6, <2>2
    <3>4. CASE op = "update" /\ i \notin Ids(mem, t)
      <4>1. need = <<t, i>>
        BY <1>4, <3>1, <3>4 DEF Needs
      <4> QED BY <1>1, <3>4, <4>1 DEF Backed
    <3>5. CASE ~(op = "update" /\ i \notin Ids(mem, t))
      <4>1. \E u \in Table : \E j \in Ids(mem, u) : need = <<u, j>>
        <5>1. CASE op \in {"update", "approve", "resolve"}
          BY <1>4, <3>1, <3>5, <5>1 DEF Needs
        <5>2. CASE op = "merge"
          BY <1>4, <3>1, <5>2 DEF Needs
        <5>3. CASE op = "insert"
          <6>1. Refers(t, row)
            BY <5>3
          <6> QED BY <1>4, <1>7, <3>1, <5>3, <6>1, TablesAre DEF Needs, Refers
        <5> QED BY <5>1, <5>2, <5>3
      <4>2. Backed(need, n)
        BY <2>2, <4>1 DEF CtlInv, RowsBacked
      <4> QED BY <1>10, <4>2
    <3> QED BY <3>4, <3>5
  <2> QED BY <1>6, <2>1, <2>2
<1>15. AssetsOK'
  <2> SUFFICES ASSUME ~counted, NEW a \in 1 .. MaxRows["assets"]
               PROVE  OnItsWay(a)'
    BY <1>1 DEF AssetsOK
  <2>1. OnItsWay(a) /\ "assets" \in Table
    BY DEF CtlInv, AssetsOK, Table
  <2>2. \A ops : Pending(a, ops) => Pending(a, ops)'
    BY <1>6 DEF Pending
  <2>3. CASE t = "assets" /\ a = i
    <3>1. Pending(a, {op})' /\ \A ops : op \in ops => Pending(a, ops)'
      BY <1>4, <1>6, <2>3 DEF Pending
    <3>2. row # Absent /\ mem'["assets"][a] = row /\ ora' = ora
      BY <1>1, <1>7, <2>3, AbsentIsNoRow
    <3>3. CASE i \notin Ids(mem, t)
      <4>1. ora["assets"][a] = Absent /\ op \in {"insert", "update"}
        BY <2>1, <2>3, <3>3, RowsAre DEF CtlInv, CtlTypes, OnItsWay
      <4>2. op = "update" => <<"assets", a>> \in unsent'
        BY <1>1, <2>3, <3>3
      <4> QED BY <3>1, <3>2, <4>1, <4>2 DEF OnItsWay
    <3>4. CASE i \in Ids(mem, t)
      <4>1. mem["assets"][a] # Absent /\ op \in {"update", "approve"} /\ row.parent = mem["assets"][a].parent
            /\ (op = "approve" => row.cap = mem["assets"][a].cap)
        BY <2>3, <3>4, RowsAre DEF CtlInv, CtlTypes, KeepsRow
      <4> QED BY <1>1, <2>1, <2>2, <3>1, <3>2, <4>1 DEF OnItsWay
    <3> QED BY <3>3, <3>4
  <2>4. CASE ~(t = "assets" /\ a = i)
    <3>1. mem'["assets"][a] = mem["assets"][a] /\ ora' = ora
      BY <1>1, <1>7, <2>1, <2>4
    <3> QED BY <1>1, <2>1, <2>2, <3>1 DEF OnItsWay
  <2> QED BY <2>3, <2>4
<1> QED BY <1>8, <1>9, <1>13, <1>14, <1>15 DEF CtlInv

(* ------------------------------ operations ------------------------------ *)
LEMMA CreateAssetKeeps ==
  ASSUME CtlInv, NEW parent \in 0 .. MaxRows["assets"], NEW cap \in Cap, NEW who \in Staff,
         NEW named, CreateAsset(parent, cap, who, named)
  PROVE  CtlInv'
<1>1. PICK row : row = [parent |-> parent, cap |-> cap, status |-> "ACTIVE", by |-> who]
  OBVIOUS
<1>2. "assets" \in Table /\ Space("assets") /\ CtlTypes
  BY DEF CreateAsset, CtlInv, Table
<1>3. NextId("assets") \in 1 .. MaxRows["assets"] /\ NextId("assets") \notin Ids(mem, "assets")
  BY <1>2, NextIdIs
<1>4. row \in RowOf("assets") /\ Refers("assets", row)
  BY <1>1 DEF RowOf, AssetRow, Refers, CreateAsset, Shaped
<1>5. CASE ~named
  <2>1. Write("assets", NextId("assets"), row, "insert") /\ "insert" \in Ops
    BY <1>1, <1>5 DEF CreateAsset, Ops
  <2> QED BY <1>2, <1>3, <1>4, <2>1, WriteKeeps
<1>6. CASE named
  <2>1. Write("assets", NextId("assets"), row, "update") /\ "update" \in Ops
    BY <1>1, <1>6 DEF CreateAsset, Ops
  <2> QED BY <1>2, <1>3, <1>4, <2>1, WriteKeeps
<1> QED BY <1>5, <1>6

LEMMA ChangeAssetKeeps ==
  ASSUME CtlInv, NEW a, NEW parent, NEW cap \in Cap, NEW who \in Staff, ChangeAsset(a, parent, cap, who)
  PROVE  CtlInv'
<1>1. PICK old : old = mem["assets"][a]
  OBVIOUS
<1>2. "assets" \in Table /\ a \in Ids(mem, "assets")
  BY DEF ChangeAsset, Table
<1>3. a \in 1 .. MaxRows["assets"] /\ old \in RowOf("assets")
  BY <1>1, <1>2, RowsAre DEF CtlInv, CtlTypes
<1>4. PICK row : row = IF cap < old.cap THEN [old EXCEPT !.cap = cap, !.status = "PENDING", !.by = who]
                       ELSE [old EXCEPT !.cap = cap, !.status = "ACTIVE"]
  OBVIOUS
<1>5. row \in RowOf("assets") /\ row.parent = old.parent
  BY <1>3, <1>4 DEF RowOf, AssetRow
<1>6. KeepsRow("assets", a, row, "update")
  BY <1>1, <1>5 DEF KeepsRow
<1>7. Write("assets", a, row, "update") /\ "update" \in Ops
  BY <1>1, <1>4 DEF ChangeAsset, Ops
<1> QED BY <1>2, <1>3, <1>5, <1>6, <1>7, WriteKeeps

LEMMA ApproveAssetKeeps ==
  ASSUME CtlInv, NEW a, NEW who, ApproveAsset(a, who)
  PROVE  CtlInv'
<1>1. PICK old : old = mem["assets"][a]
  OBVIOUS
<1>2. "assets" \in Table /\ a \in Ids(mem, "assets")
  BY DEF ApproveAsset, Table
<1>3. a \in 1 .. MaxRows["assets"] /\ old \in RowOf("assets")
  BY <1>1, <1>2, RowsAre DEF CtlInv, CtlTypes
<1>4. PICK row : row = [old EXCEPT !.status = "ACTIVE"]
  OBVIOUS
<1>5. row \in RowOf("assets") /\ row.parent = old.parent /\ row.cap = old.cap
  BY <1>3, <1>4 DEF RowOf, AssetRow
<1>6. KeepsRow("assets", a, row, "approve")
  BY <1>1, <1>5 DEF KeepsRow
<1>7. Write("assets", a, row, "approve") /\ "approve" \in Ops
  BY <1>1, <1>4 DEF ApproveAsset, Ops
<1> QED BY <1>2, <1>3, <1>5, <1>6, <1>7, WriteKeeps

LEMMA RecordDecisionKeeps ==
  ASSUME CtlInv, RecordDecision
  PROVE  CtlInv'
<1>1. "decisions" \in Table /\ Space("decisions") /\ CtlTypes
  BY DEF RecordDecision, CtlInv, Table
<1>2. NextId("decisions") \in 1 .. MaxRows["decisions"] /\ NextId("decisions") \notin Ids(mem, "decisions")
  BY <1>1, NextIdIs
<1>3. "COMMITTED" \in RowOf("decisions") /\ Refers("decisions", "COMMITTED")
  BY DEF RowOf, Refers
<1>4. Write("decisions", NextId("decisions"), "COMMITTED", "insert") /\ "insert" \in Ops
  BY DEF RecordDecision, Ops
<1> QED BY <1>1, <1>2, <1>3, <1>4, WriteKeeps

LEMMA IssueCertificateKeeps ==
  ASSUME CtlInv, NEW admitted, IssueCertificate(admitted)
  PROVE  CtlInv'
<1>1. "certs" \in Table /\ Space("certs") /\ CtlTypes
  BY DEF IssueCertificate, CtlInv, Table
<1>2. NextId("certs") \in 1 .. MaxRows["certs"] /\ NextId("certs") \notin Ids(mem, "certs")
  BY <1>1, NextIdIs
<1>3. PICK row : row = IF admitted THEN "ACTIVE" ELSE "FAILED"
  OBVIOUS
<1>4. row \in RowOf("certs") /\ Refers("certs", row)
  BY <1>3 DEF RowOf, CertRow, Refers
<1>5. Write("certs", NextId("certs"), row, "insert") /\ "insert" \in Ops
  BY <1>3 DEF IssueCertificate, Ops
<1> QED BY <1>1, <1>2, <1>4, <1>5, WriteKeeps

LEMMA TransitionCertificateKeeps ==
  ASSUME CtlInv, NEW c, NEW to \in {"ERODED", "FAILED", "MET", "ACTIVE"}, TransitionCertificate(c, to)
  PROVE  CtlInv'
<1>1. "certs" \in Table /\ c \in Ids(mem, "certs")
  BY DEF TransitionCertificate, Table
<1>2. c \in 1 .. MaxRows["certs"]
  BY <1>1, RowsAre DEF CtlInv, CtlTypes
<1>3. to \in RowOf("certs") /\ KeepsRow("certs", c, to, "update")
  BY DEF RowOf, CertRow, KeepsRow
<1>4. Write("certs", c, to, "update") /\ "update" \in Ops
  BY DEF TransitionCertificate, Ops
<1> QED BY <1>1, <1>2, <1>3, <1>4, WriteKeeps

LEMMA RecordProfilePushKeeps ==
  ASSUME CtlInv, NEW d \in 1 .. MaxRows["decisions"], RecordProfilePush(d)
  PROVE  CtlInv'
<1>1. PICK row : row = [decision |-> d, ack |-> Absent]
  OBVIOUS
<1>2. "pushes" \in Table /\ Space("pushes") /\ CtlTypes
  BY DEF RecordProfilePush, CtlInv, Table
<1>3. NextId("pushes") \in 1 .. MaxRows["pushes"] /\ NextId("pushes") \notin Ids(mem, "pushes")
  BY <1>2, NextIdIs
<1>4. row \in RowOf("pushes") /\ Refers("pushes", row)
  BY <1>1 DEF RowOf, PushRow, Refers, RecordProfilePush
<1>5. Write("pushes", NextId("pushes"), row, "insert") /\ "insert" \in Ops
  BY <1>1 DEF RecordProfilePush, Ops
<1> QED BY <1>2, <1>3, <1>4, <1>5, WriteKeeps

LEMMA SetPushAckKeeps ==
  ASSUME CtlInv, NEW p, NEW ack \in {"Accepted", "Rejected"}, SetPushAck(p, ack)
  PROVE  CtlInv'
<1>1. PICK old : old = mem["pushes"][p]
  OBVIOUS
<1>2. "pushes" \in Table /\ p \in Ids(mem, "pushes")
  BY DEF SetPushAck, Table
<1>3. p \in 1 .. MaxRows["pushes"] /\ old \in RowOf("pushes")
  BY <1>1, <1>2, RowsAre DEF CtlInv, CtlTypes
<1>4. PICK row : row = [old EXCEPT !.ack = ack]
  OBVIOUS
<1>5. row \in RowOf("pushes") /\ row.decision = old.decision
  BY <1>3, <1>4 DEF RowOf, PushRow
<1>6. KeepsRow("pushes", p, row, "update")
  BY <1>1, <1>5 DEF KeepsRow
<1>7. Write("pushes", p, row, "update") /\ "update" \in Ops
  BY <1>1, <1>4 DEF SetPushAck, Ops
<1> QED BY <1>2, <1>3, <1>5, <1>6, <1>7, WriteKeeps

LEMMA DeadLetterKeeps ==
  ASSUME CtlInv, NEW ref \in Ref, DeadLetter(ref)
  PROVE  CtlInv'
<1>1. "letters" \in Table /\ CtlTypes /\ "merge" \in Ops
  BY DEF CtlInv, Table, Ops
<1>2. CASE Space("letters") /\ Write("letters", NextId("letters"), [ref |-> ref, status |-> "OPEN"], "merge")
  <2>1. PICK row : row = [ref |-> ref, status |-> "OPEN"]
    OBVIOUS
  <2>2. NextId("letters") \in 1 .. MaxRows["letters"] /\ NextId("letters") \notin Ids(mem, "letters")
    BY <1>1, <1>2, NextIdIs
  <2>3. row \in RowOf("letters") /\ Refers("letters", row)
    BY <2>1 DEF RowOf, LetterRow, Refers
  <2>4. Write("letters", NextId("letters"), row, "merge")
    BY <1>2, <2>1
  <2> QED BY <1>1, <2>2, <2>3, <2>4, WriteKeeps
<1>3. ASSUME NEW l \in Letter(ref), Write("letters", l, mem["letters"][l], "merge") PROVE CtlInv'
  <2>1. l \in Ids(mem, "letters")
    BY DEF Letter
  <2>2. l \in 1 .. MaxRows["letters"] /\ mem["letters"][l] \in RowOf("letters")
    BY <1>1, <2>1, RowsAre DEF CtlTypes
  <2>3. PICK row : row = mem["letters"][l]
    OBVIOUS
  <2>4. KeepsRow("letters", l, row, "merge") /\ row \in RowOf("letters") /\ Write("letters", l, row, "merge")
    BY <1>3, <2>2, <2>3 DEF KeepsRow
  <2> QED BY <1>1, <2>1, <2>2, <2>4, WriteKeeps
<1> QED BY <1>2, <1>3 DEF DeadLetter

LEMMA ResolveDeadLetterKeeps ==
  ASSUME CtlInv, NEW l, NEW action \in {"REPLAYED", "DISMISSED"}, ResolveDeadLetter(l, action)
  PROVE  CtlInv'
<1>1. PICK old : old = mem["letters"][l]
  OBVIOUS
<1>2. "letters" \in Table /\ l \in Ids(mem, "letters")
  BY DEF ResolveDeadLetter, Table
<1>3. l \in 1 .. MaxRows["letters"] /\ old \in RowOf("letters")
  BY <1>1, <1>2, RowsAre DEF CtlInv, CtlTypes
<1>4. PICK row : row = [old EXCEPT !.status = action]
  OBVIOUS
<1>5. row \in RowOf("letters")
  BY <1>3, <1>4 DEF RowOf, LetterRow
<1>6. KeepsRow("letters", l, row, "resolve")
  BY DEF KeepsRow
<1>7. Write("letters", l, row, "resolve") /\ "resolve" \in Ops
  BY <1>1, <1>4 DEF ResolveDeadLetter, Ops
<1> QED BY <1>2, <1>3, <1>5, <1>6, <1>7, WriteKeeps

(* ------------------------------ the mirrors ----------------------------- *)
LEMMA TailIs ==
  ASSUME queue \in Seq(CtlJob), NEW n \in FirstJob, NEW rest, rest = RemoveAt(queue, n)
  PROVE  /\ n = 1 /\ queue # <<>> /\ queue[1] \in CtlJob
         /\ rest \in Seq(CtlJob) /\ Len(queue) \in Nat /\ Len(rest) = Len(queue) - 1
         /\ DOMAIN queue = 1 .. Len(queue) /\ DOMAIN rest = 1 .. Len(queue) - 1
         /\ \A k \in DOMAIN rest : k + 1 \in DOMAIN queue /\ rest[k] = queue[k + 1]
<1>1. n = 1 /\ DOMAIN queue = 1 .. Len(queue) /\ Len(queue) \in Nat /\ 1 \in DOMAIN queue /\ queue # <<>>
  BY DEF FirstJob
<1>2. SubSeq(queue, 1, 0) = <<>>
  BY <1>1
<1>3. rest = SubSeq(queue, 1, 0) \o SubSeq(queue, 2, Len(queue))
  BY <1>1 DEF RemoveAt
<1>4. PICK tail : tail = SubSeq(queue, 2, Len(queue))
  OBVIOUS
<1>5. tail \in Seq(CtlJob) /\ Len(tail) = Len(queue) - 1 /\ \A k \in 1 .. Len(queue) - 1 : tail[k] = queue[k + 1]
  BY <1>1, <1>4
<1>t. DOMAIN tail = 1 .. Len(queue) - 1
  BY <1>5
<1>6. rest = tail
  BY <1>2, <1>3, <1>4, <1>5
<1>7. rest \in Seq(CtlJob) /\ Len(rest) = Len(queue) - 1 /\ DOMAIN rest = 1 .. Len(queue) - 1
  BY <1>5, <1>6, <1>t
<1>8. \A k \in 1 .. Len(queue) - 1 : k + 1 \in 1 .. Len(queue) /\ rest[k] = queue[k + 1]
  <2> TAKE k \in 1 .. Len(queue) - 1
  <2>1. k + 1 \in 1 .. Len(queue)
    BY <1>1
  <2> QED BY <1>5, <1>6, <2>1
<1>9. queue[1] \in CtlJob
  BY <1>1
<1>10. \A k \in DOMAIN rest : k + 1 \in DOMAIN queue /\ rest[k] = queue[k + 1]
  BY <1>1, <1>7, <1>8
<1> QED BY <1>1, <1>7, <1>9, <1>10

LEMMA NeedsAre ==
  ASSUME CtlTypes, NEW job \in CtlJob, job.op # "audit" => job.id \in Ids(mem, job.table), NEW need \in Needs(job)
  PROVE  \E t \in Table : \E i \in 1 .. MaxRows[t] : need = <<t, i>>
<1>1. job.table \in Table /\ "assets" \in Table /\ "decisions" \in Table
  BY DEF CtlJob, Table
<1>2. job.op # "audit"
  BY DEF Needs
<1>3. job.id \in 1 .. MaxRows[job.table] /\ mem[job.table][job.id] \in RowOf(job.table)
  BY <1>1, <1>2, RowsAre DEF CtlTypes
<1>4. CASE job.op \in {"update", "approve", "resolve"}
  BY <1>1, <1>3, <1>4 DEF Needs
<1>5. CASE job.op = "insert" /\ job.table = "assets" /\ mem[job.table][job.id].parent # 0
  <2>1. MaxRows["assets"] \in Nat /\ mem[job.table][job.id] \in AssetRow
    BY <1>1, <1>3, <1>5, ControlAssumption DEF RowOf
  <2>2. mem[job.table][job.id].parent \in 1 .. MaxRows["assets"]
    BY <1>5, <2>1 DEF AssetRow
  <2> QED BY <1>1, <1>5, <2>2 DEF Needs
<1>6. CASE job.op = "insert" /\ job.table = "pushes"
  <2>1. mem[job.table][job.id] \in PushRow
    BY <1>3, <1>6 DEF RowOf
  <2>2. mem[job.table][job.id].decision \in 1 .. MaxRows["decisions"]
    BY <2>1 DEF PushRow
  <2> QED BY <1>1, <1>6, <2>2 DEF Needs
<1> QED BY <1>4, <1>5, <1>6 DEF Needs

\* The first mirror has had its turn: what waits for its row finds it, or its loss.
LEMMA TurnKeeps ==
  ASSUME CtlInv, NEW n \in FirstJob, queue' = RemoveAt(queue, n), mem' = mem, RowsTyped(ora)',
         \A t \in Table : \A i \in 1 .. MaxRows[t] : In(<<t, i>>) => In(<<t, i>>)',
         gone \subseteq gone', unsent' = unsent, NEW first, first = <<queue[n].table, queue[n].id>>,
         Brings(queue[n]) => In(first)' \/ first \in gone'
  PROVE  /\ CtlTypes' /\ JobsOK' /\ RowsBacked' /\ NeedsBacked'
<1>1. PICK rest : rest = RemoveAt(queue, n)
  OBVIOUS
<1>2. queue \in Seq(CtlJob) /\ queue' = rest
  BY <1>1 DEF CtlInv, CtlTypes
<1>3. /\ n = 1 /\ queue # <<>> /\ queue[1] \in CtlJob
      /\ rest \in Seq(CtlJob) /\ Len(queue) \in Nat /\ Len(rest) = Len(queue) - 1
      /\ DOMAIN queue = 1 .. Len(queue) /\ DOMAIN rest = 1 .. Len(queue) - 1
      /\ \A k \in DOMAIN rest : k + 1 \in DOMAIN queue /\ rest[k] = queue[k + 1]
  BY <1>1, <1>2, TailIs
<1>4. CtlTypes'
  BY <1>2, <1>3 DEF CtlInv, CtlTypes, RowsTyped
<1>5. \A u \in Table : Ids(mem', u) = Ids(mem, u)
  BY DEF Ids
<1>6. JobsOK'
  <2> SUFFICES ASSUME NEW k \in DOMAIN rest
               PROVE  /\ rest[k].op # "audit" => rest[k].id \in Ids(mem', rest[k].table)
                      /\ rest[k].op = "approve" => rest[k].table = "assets"
                      /\ rest[k].op \in {"merge", "resolve"} => rest[k].table = "letters"
                      /\ rest[k].table = "assets" => rest[k].op \in {"insert", "update", "approve", "audit"}
    BY <1>2 DEF JobsOK
  <2>j. rest[k] \in CtlJob
    BY <1>3
  <2>1. k + 1 \in DOMAIN queue /\ rest[k] = queue[k + 1] /\ rest[k].table \in Table
    BY <1>3, <2>j DEF CtlJob
  <2>2. Ids(mem', rest[k].table) = Ids(mem, rest[k].table)
    BY <1>5, <2>1
  <2> QED BY <2>1, <2>2 DEF CtlInv, JobsOK
<1>7. ASSUME NEW t \in Table, NEW i \in 1 .. MaxRows[t], NEW k \in Nat, Backed(<<t, i>>, k + 1)
      PROVE  Backed(<<t, i>>, k)'
  <2>1. CASE In(<<t, i>>) \/ <<t, i>> \in gone \cup unsent
    BY <2>1 DEF Backed
  <2>2. ASSUME NEW m \in DOMAIN queue, m < k + 1, Brings(queue[m]), <<queue[m].table, queue[m].id>> = <<t, i>>
        PROVE  Backed(<<t, i>>, k)'
    <3>1. CASE m = 1
      <4>1. In(<<t, i>>)' \/ <<t, i>> \in gone'
        BY <1>3, <2>2, <3>1
      <4> QED BY <4>1 DEF Backed
    <3>2. CASE m # 1
      <4>1. m - 1 \in DOMAIN rest /\ m - 1 < k /\ rest[m - 1] = queue[m]
        BY <1>3, <2>2, <3>2
      <4>2. m - 1 \in DOMAIN queue' /\ queue'[m - 1] = queue[m]
        BY <1>2, <4>1
      <4> QED BY <2>2, <4>1, <4>2 DEF Backed
    <3> QED BY <3>1, <3>2
  <2> QED BY <1>7, <2>1, <2>2 DEF Backed
<1>8. RowsBacked'
  <2> SUFFICES ASSUME NEW t \in Table, NEW i \in Ids(mem, t)
               PROVE  Backed(<<t, i>>, Len(queue) + 1)'
    BY <1>5 DEF RowsBacked
  <2>1. i \in 1 .. MaxRows[t]
    BY RowsAre DEF CtlInv, CtlTypes
  <2>2. PICK k : k = Len(queue)
    OBVIOUS
  <2>3. k \in Nat /\ Backed(<<t, i>>, k + 1) /\ Len(queue') + 1 = k
    BY <1>2, <1>3, <2>2 DEF CtlInv, RowsBacked
  <2>4. Backed(<<t, i>>, k)'
    BY <1>7, <2>1, <2>3
  <2> QED BY <2>3, <2>4
<1>9. NeedsBacked'
  <2> SUFFICES ASSUME NEW k \in DOMAIN rest, NEW job, job = rest[k], NEW need, (need \in Needs(job))'
               PROVE  Backed(need, k)'
    BY <1>2 DEF NeedsBacked
  <2>1. k \in Nat /\ k + 1 \in DOMAIN queue /\ job = queue[k + 1] /\ job \in CtlJob
    BY <1>3
  <2>2. need \in Needs(job)
    BY DEF Needs
  <2>3. Backed(need, k + 1)
    BY <2>1, <2>2 DEF CtlInv, NeedsBacked
  <2>4. job.op # "audit" => job.id \in Ids(mem, job.table)
    BY <2>1 DEF CtlInv, JobsOK
  <2>5. \E t \in Table : \E i \in 1 .. MaxRows[t] : need = <<t, i>>
    BY <2>1, <2>2, <2>4, NeedsAre DEF CtlInv
  <2> QED BY <1>7, <2>1, <2>3, <2>5
<1> QED BY <1>4, <1>6, <1>8, <1>9

LEMMA WaitsStill ==
  ASSUME CtlInv, NEW n \in FirstJob, queue' = RemoveAt(queue, n), NEW a, NEW ops,
         Pending(a, ops), ~(queue[n].table = "assets" /\ queue[n].id = a /\ queue[n].op \in ops)
  PROVE  Pending(a, ops)'
<1>1. PICK rest : rest = RemoveAt(queue, n)
  OBVIOUS
<1>2. queue \in Seq(CtlJob) /\ queue' = rest
  BY <1>1 DEF CtlInv, CtlTypes
<1>3. /\ n = 1 /\ DOMAIN queue = 1 .. Len(queue) /\ DOMAIN rest = 1 .. Len(queue) - 1 /\ Len(queue) \in Nat
      /\ \A k \in DOMAIN rest : k + 1 \in DOMAIN queue /\ rest[k] = queue[k + 1]
  BY <1>1, <1>2, TailIs
<1>4. PICK m \in DOMAIN queue : queue[m].table = "assets" /\ queue[m].id = a /\ queue[m].op \in ops
  BY DEF Pending
<1>5. m - 1 \in DOMAIN rest /\ rest[m - 1] = queue[m]
  BY <1>3, <1>4
<1>6. m - 1 \in DOMAIN queue' /\ queue'[m - 1] = queue[m]
  BY <1>2, <1>5
<1> QED BY <1>4, <1>6 DEF Pending

LEMMA ControlFailsKeeps ==
  ASSUME CtlInv, ControlFails
  PROVE  CtlInv'
<1>1. PICK n \in FirstJob :
        /\ counted' = (counted \/ Counts(queue[n]))
        /\ gone' = IF queue[n].op \in {"insert", "merge"} THEN gone \cup {<<queue[n].table, queue[n].id>>} ELSE gone
        /\ queue' = RemoveAt(queue, n)
        /\ UNCHANGED <<mem, ora, unsent>>
  BY DEF ControlFails
<1>2. \A t \in Table : \A i \in 1 .. MaxRows[t] : In(<<t, i>>) => In(<<t, i>>)'
  BY <1>1 DEF In
<1>3. RowsTyped(ora)'
  BY <1>1 DEF CtlInv, CtlTypes, RowsTyped
<1>4. /\ gone \subseteq gone' /\ unsent' = unsent /\ mem' = mem /\ queue' = RemoveAt(queue, n)
  BY <1>1
<1>f. PICK first : first = <<queue[n].table, queue[n].id>>
  OBVIOUS
<1>g. Brings(queue[n]) => In(first)' \/ first \in gone'
  BY <1>1, <1>f DEF Brings
<1>5. CtlTypes' /\ JobsOK' /\ RowsBacked' /\ NeedsBacked'
  BY <1>2, <1>3, <1>4, <1>f, <1>g, TurnKeeps
<1>6. AssetsOK'
  <2> SUFFICES ASSUME ~counted', NEW a \in 1 .. MaxRows["assets"] PROVE OnItsWay(a)'
    BY DEF AssetsOK
  <2>1. OnItsWay(a) /\ queue[n].table # "assets"
    BY <1>1 DEF CtlInv, AssetsOK, Counts
  <2>2. \A ops : Pending(a, ops) => Pending(a, ops)'
    BY <1>1, <2>1, WaitsStill
  <2> QED BY <1>1, <2>1, <2>2 DEF OnItsWay
<1> QED BY <1>5, <1>6 DEF CtlInv

LEMMA StatedIs ==
  ASSUME CtlInv, NEW job \in CtlJob, job.op # "audit", job.id \in Ids(mem, job.table), Writes(job),
         job.op = "approve" => job.table = "assets", job.op \in {"merge", "resolve"} => job.table = "letters"
  PROVE  /\ Stated(job) \in RowOf(job.table)
         /\ job.table = "assets" =>
              LET row == mem["assets"][job.id] old == ora["assets"][job.id] new == Stated(job)
              IN  /\ job.op = "insert" => new = row
                  /\ job.op \in {"update", "approve"} =>
                       /\ old # Absent /\ new.parent = old.parent /\ new.status = row.status
                       /\ new.cap = IF job.op = "update" THEN row.cap ELSE old.cap
<1>1. job.table \in Table
  BY DEF CtlJob
<1>2. PICK row, old : row = mem[job.table][job.id] /\ old = ora[job.table][job.id]
  OBVIOUS
<1>3. row \in RowOf(job.table) /\ job.id \in 1 .. MaxRows[job.table]
  BY <1>1, <1>2, RowsAre DEF CtlInv, CtlTypes
<1>4. job.op \in {"update", "approve", "resolve"} => old # Absent /\ old \in RowOf(job.table)
  <2>1. job.op \in {"update", "approve", "resolve"} => old # Absent
    BY <1>2 DEF Writes, In
  <2> QED BY <1>1, <1>2, <1>3, <2>1, RowsAre DEF CtlInv, CtlTypes
<1>5. CASE job.op = "update" /\ job.table = "assets"
  <2>1. PICK new : new = [old EXCEPT !.cap = row.cap, !.status = row.status]
    OBVIOUS
  <2>2. Stated(job) = new
    BY <1>2, <1>5, <2>1 DEF Stated
  <2>3. new \in AssetRow /\ new.parent = old.parent /\ new.status = row.status /\ new.cap = row.cap
    BY <1>3, <1>4, <1>5, <2>1 DEF RowOf, AssetRow
  <2> QED BY <1>2, <1>4, <1>5, <2>2, <2>3 DEF RowOf
<1>6. CASE job.op = "update" /\ job.table = "pushes"
  <2>1. PICK new : new = [old EXCEPT !.ack = row.ack]
    OBVIOUS
  <2>2. Stated(job) = new
    BY <1>2, <1>6, <2>1 DEF Stated
  <2>3. new \in PushRow
    BY <1>3, <1>4, <1>6, <2>1 DEF RowOf, PushRow
  <2> QED BY <1>6, <2>2, <2>3 DEF RowOf
<1>7. CASE job.op = "approve"
  <2>1. PICK new : new = [old EXCEPT !.status = row.status]
    OBVIOUS
  <2>2. Stated(job) = new
    BY <1>2, <1>7, <2>1 DEF Stated
  <2>3. new \in AssetRow /\ new.parent = old.parent /\ new.status = row.status /\ new.cap = old.cap
    BY <1>3, <1>4, <1>7, <2>1 DEF RowOf, AssetRow
  <2> QED BY <1>2, <1>4, <1>7, <2>2, <2>3 DEF RowOf
<1>8. CASE job.op = "resolve"
  <2>1. PICK new : new = [old EXCEPT !.status = row.status]
    OBVIOUS
  <2>2. Stated(job) = new
    BY <1>2, <1>8, <2>1 DEF Stated
  <2>3. new \in LetterRow
    BY <1>3, <1>4, <1>8, <2>1 DEF RowOf, LetterRow
  <2> QED BY <1>8, <2>2, <2>3 DEF RowOf
<1>9. CASE /\ job.op \notin {"approve", "resolve"}
           /\ ~(job.op = "update" /\ job.table \in {"assets", "pushes"})
  <2>1. Stated(job) = row
    BY <1>2, <1>9 DEF Stated
  <2> QED BY <1>2, <1>3, <1>9, <2>1
<1> QED BY <1>5, <1>6, <1>7, <1>8, <1>9

LEMMA ControlMirroredKeeps ==
  ASSUME CtlInv, ControlMirrored
  PROVE  CtlInv'
<1>1. PICK n \in FirstJob :
        /\ ora' = Stores(queue[n])
        /\ gone' = IF queue[n].op = "merge" /\ Known(queue[n]) \ {queue[n].id} # {}
                   THEN gone \cup {<<"letters", queue[n].id>>} ELSE gone
        /\ queue' = RemoveAt(queue, n)
        /\ UNCHANGED <<mem, counted, unsent>>
  BY DEF ControlMirrored
<1>2. PICK job, first : job = queue[n] /\ first = <<queue[n].table, queue[n].id>>
  OBVIOUS
<1>3. n \in DOMAIN queue /\ job \in CtlJob /\ job.table \in Table
  <2>1. n \in DOMAIN queue /\ queue \in Seq(CtlJob)
    BY DEF CtlInv, CtlTypes, FirstJob
  <2>2. job \in CtlJob
    BY <1>2, <2>1
  <2> QED BY <2>1, <2>2 DEF CtlJob
<1>4. /\ job.op # "audit" => job.id \in Ids(mem, job.table)
      /\ job.op = "approve" => job.table = "assets"
      /\ job.op \in {"merge", "resolve"} => job.table = "letters"
      /\ job.table = "assets" => job.op \in {"insert", "update", "approve", "audit"}
  BY <1>2, <1>3 DEF CtlInv, JobsOK
<1>5. /\ gone \subseteq gone' /\ unsent' = unsent /\ mem' = mem /\ queue' = RemoveAt(queue, n)
      /\ ora' = IF Writes(job) THEN [ora EXCEPT ![job.table][job.id] = Stated(job)] ELSE ora
  BY <1>1, <1>2 DEF Stores
<1>6. CASE ~Writes(job)
  <2>1. ora' = ora
    BY <1>5, <1>6
  <2>2. \A t \in Table : \A i \in 1 .. MaxRows[t] : In(<<t, i>>) => In(<<t, i>>)'
    BY <2>1 DEF In
  <2>3. RowsTyped(ora)'
    BY <2>1 DEF CtlInv, CtlTypes, RowsTyped
  <2>4. Brings(queue[n]) => In(first)' \/ first \in gone'
    <3> SUFFICES ASSUME Brings(job) PROVE In(first)' \/ first \in gone'
      BY <1>2
    <3>1. job.op = "merge" /\ Known(job) # {} /\ job.table = "letters"
      BY <1>4, <1>6 DEF Brings, Writes
    <3>2. CASE Known(job) \ {job.id} # {}
      BY <1>1, <1>2, <3>1, <3>2
    <3>3. CASE Known(job) \ {job.id} = {}
      <4>1. job.id \in Ids(ora, "letters")
        BY <3>1, <3>3 DEF Known
      <4>2. ora["letters"][job.id] # Absent
        BY <4>1 DEF Ids
      <4> QED BY <1>2, <2>1, <3>1, <4>2 DEF In
    <3> QED BY <3>2, <3>3
  <2>5. CtlTypes' /\ JobsOK' /\ RowsBacked' /\ NeedsBacked'
    BY <1>2, <1>5, <2>2, <2>3, <2>4, TurnKeeps
  <2>6. AssetsOK'
    <3> SUFFICES ASSUME ~counted, NEW a \in 1 .. MaxRows["assets"] PROVE OnItsWay(a)'
      BY <1>1 DEF AssetsOK
    <3>1. OnItsWay(a)
      BY DEF CtlInv, AssetsOK
    <3>2. CASE job.table = "assets" /\ job.id = a /\ job.op # "audit"
      <4>1. ora["assets"][a] = Absent /\ job.op # "insert"
        BY <1>4, <1>6, <3>2 DEF Writes, In
      <4>2. Pending(a, {"insert"}) => Pending(a, {"insert"})'
        BY <1>2, <1>5, <4>1, WaitsStill
      <4> QED BY <1>5, <2>1, <3>1, <4>1, <4>2 DEF OnItsWay
    <3>3. CASE ~(job.table = "assets" /\ job.id = a /\ job.op # "audit")
      <4>1. \A ops : "audit" \notin ops /\ Pending(a, ops) => Pending(a, ops)'
        BY <1>2, <1>5, <3>3, WaitsStill
      <4>2. /\ Pending(a, {"insert"}) => Pending(a, {"insert"})'
            /\ Pending(a, {"update"}) => Pending(a, {"update"})'
            /\ Pending(a, {"update", "approve"}) => Pending(a, {"update", "approve"})'
        BY <4>1
      <4> QED BY <1>5, <2>1, <3>1, <4>2 DEF OnItsWay
    <3> QED BY <3>2, <3>3
  <2> QED BY <2>5, <2>6 DEF CtlInv
<1>7. CASE Writes(job)
  <2>1. job.op # "audit" /\ job.id \in Ids(mem, job.table)
    BY <1>4, <1>7 DEF Writes
  <2>2. PICK t, i, row : t = job.table /\ i = job.id /\ row = Stated(job)
    OBVIOUS
  <2>3. t \in Table /\ i \in 1 .. MaxRows[t] /\ row \in RowOf(t)
    BY <1>3, <1>4, <1>7, <2>1, <2>2, RowsAre, StatedIs DEF CtlInv, CtlTypes
  <2>4. PICK old, new : old = ora /\ new = ora'
    OBVIOUS
  <2>5. PICK f : f = [old[t] EXCEPT ![i] = row]
    OBVIOUS
  <2>6. new = [old EXCEPT ![t] = f] /\ RowsTyped(old)
    BY <1>5, <1>7, <2>2, <2>4, <2>5 DEF CtlInv, CtlTypes
  <2>7. RowsTyped(ora)'
    <3>1. RowsTyped(new)
      BY <2>3, <2>5, <2>6, PutRow
    <3> QED BY <2>4, <3>1 DEF RowsTyped
  <2>8. /\ DOMAIN old = Table /\ DOMAIN old[t] = 1 .. MaxRows[t] /\ row # Absent
        /\ new[t] = f /\ \A u \in Table : u # t => new[u] = old[u]
    BY <2>3, <2>6, AbsentIsNoRow DEF RowsTyped
  <2>9. DOMAIN f = 1 .. MaxRows[t] /\ f[i] = row /\ \A j \in 1 .. MaxRows[t] : j # i => f[j] = old[t][j]
    BY <2>3, <2>5, <2>8
  <2>10. /\ ora'[t][i] = row
         /\ \A u \in Table : \A j \in 1 .. MaxRows[u] : u # t \/ j # i => ora'[u][j] = ora[u][j]
    BY <2>3, <2>4, <2>8, <2>9
  <2>11. \A u \in Table : \A j \in 1 .. MaxRows[u] : In(<<u, j>>) => In(<<u, j>>)'
    BY <2>8, <2>10 DEF In
  <2>12. In(first)'
    BY <1>2, <2>2, <2>8, <2>10 DEF In
  <2>13. CtlTypes' /\ JobsOK' /\ RowsBacked' /\ NeedsBacked'
    BY <1>2, <1>5, <2>7, <2>11, <2>12, TurnKeeps
  <2>14. AssetsOK'
    <3> SUFFICES ASSUME ~counted, NEW a \in 1 .. MaxRows["assets"] PROVE OnItsWay(a)'
      BY <1>1 DEF AssetsOK
    <3>1. OnItsWay(a) /\ "assets" \in Table
      BY DEF CtlInv, AssetsOK, Table
    <3>2. CASE t = "assets" /\ i = a
      <4>1. mem["assets"][a] # Absent /\ ora'["assets"][a] = row /\ row # Absent
        BY <2>1, <2>2, <2>8, <2>10, <3>2 DEF Ids
      <4>2. job.op \in {"insert", "update", "approve"}
        BY <1>4, <2>1, <2>2, <3>2
      <4>3. CASE job.op = "insert"
        <5>1. row = mem["assets"][a]
          BY <1>3, <1>4, <1>7, <2>1, <2>2, <3>2, <4>3, StatedIs
        <5> QED BY <1>5, <4>1, <5>1 DEF OnItsWay
      <4>4. CASE job.op \in {"update", "approve"}
        <5>1. /\ ora["assets"][a] # Absent /\ row.parent = ora["assets"][a].parent
              /\ row.status = mem["assets"][a].status
              /\ row.cap = IF job.op = "update" THEN mem["assets"][a].cap ELSE ora["assets"][a].cap
          BY <1>3, <1>4, <1>7, <2>1, <2>2, <3>2, <4>4, StatedIs
        <5>2. job.op = "approve" /\ Pending(a, {"update"}) => Pending(a, {"update"})'
          BY <1>2, <1>5, WaitsStill
        <5> QED BY <1>5, <3>1, <4>1, <4>4, <5>1, <5>2 DEF OnItsWay
      <4> QED BY <4>2, <4>3, <4>4
    <3>3. CASE ~(t = "assets" /\ i = a)
      <4>1. ora'["assets"][a] = ora["assets"][a]
        BY <2>10, <3>1, <3>3
      <4>2. \A ops : Pending(a, ops) => Pending(a, ops)'
        BY <1>2, <1>5, <2>2, <3>3, WaitsStill
      <4> QED BY <1>5, <3>1, <4>1, <4>2 DEF OnItsWay
    <3> QED BY <3>2, <3>3
  <2> QED BY <2>13, <2>14 DEF CtlInv
<1> QED BY <1>6, <1>7

LEMMA SetControlModeKeeps ==
  ASSUME CtlInv, SetControlMode
  PROVE  CtlInv'
<1>1. PICK job : job = [op |-> "audit", table |-> "assets", id |-> 0]
  OBVIOUS
<1>2. job \in CtlJob /\ job.op = "audit" /\ job.table = "assets"
  BY <1>1 DEF CtlJob, Ops, Table
<1>3. queue' = Append(queue, job) /\ UNCHANGED <<mem, ora, counted, gone, unsent>> /\ queue \in Seq(CtlJob)
  BY <1>1 DEF SetControlMode, CtlInv, CtlTypes
<1>4. PICK L : L = Len(queue)
  OBVIOUS
<1>5. /\ queue' \in Seq(CtlJob) /\ L \in Nat /\ Len(queue') = L + 1
      /\ DOMAIN queue = 1 .. L /\ DOMAIN queue' = 1 .. L + 1
      /\ \A n \in DOMAIN queue : n \in DOMAIN queue' /\ queue'[n] = queue[n]
      /\ queue'[L + 1] = job
  BY <1>2, <1>3, <1>4
<1>6. CtlTypes'
  BY <1>3, <1>5 DEF CtlInv, CtlTypes, RowsTyped
<1>7. \A u \in Table : Ids(mem', u) = Ids(mem, u)
  BY <1>3 DEF Ids
<1>8. JobsOK'
  BY <1>2, <1>3, <1>5 DEF CtlInv, JobsOK, Ids
<1>9. \A need, n : Backed(need, n) => Backed(need, n)'
  BY <1>3, <1>5 DEF Backed, In
<1>10. RowsBacked'
  <2> SUFFICES ASSUME NEW t \in Table, NEW i \in Ids(mem, t), NEW k, k = L + 2 PROVE Backed(<<t, i>>, k)'
    <3>1. Len(queue') + 1 = L + 2
      BY <1>5
    <3> QED BY <1>7, <3>1 DEF RowsBacked
  <2>1. Backed(<<t, i>>, L + 1)
    BY <1>4 DEF CtlInv, RowsBacked
  <2>2. Backed(<<t, i>>, k)
    BY <1>5, <2>1 DEF Backed
  <2> QED BY <1>9, <2>2
<1>11. NeedsBacked'
  <2> SUFFICES ASSUME NEW n \in DOMAIN queue', NEW k, k = queue'[n], NEW need, (need \in Needs(k))'
               PROVE  Backed(need, n)'
    BY DEF NeedsBacked
  <2>1. need \in Needs(k)
    BY <1>3 DEF Needs
  <2>2. n \in DOMAIN queue /\ k = queue[n]
    BY <1>2, <1>5, <2>1 DEF Needs
  <2> QED BY <1>9, <2>1, <2>2 DEF CtlInv, NeedsBacked
<1>12. AssetsOK'
  <2>1. \A a, ops : Pending(a, ops) => Pending(a, ops)'
    BY <1>5 DEF Pending
  <2> QED BY <1>3, <2>1 DEF CtlInv, AssetsOK, OnItsWay
<1> QED BY <1>6, <1>8, <1>10, <1>11, <1>12 DEF CtlInv

LEMMA NoRowsTyped == RowsTyped(NoRows) /\ \A t \in Table : Ids(NoRows, t) = {}
BY ControlAssumption DEF RowsTyped, NoRows, Ids

LEMMA RestartControlKeeps ==
  ASSUME CtlInv, RestartControl
  PROVE  CtlInv'
<1>1. /\ mem' = [ora EXCEPT !["pushes"] = NoRows["pushes"], !["letters"] = NoRows["letters"]]
      /\ queue' = <<>> /\ gone' = {} /\ ora' = ora
  BY DEF RestartControl
<1>2. RowsTyped(ora) /\ DOMAIN ora = Table /\ {"pushes", "letters", "assets"} \subseteq Table
  BY DEF CtlInv, CtlTypes, RowsTyped, Table
<1>3. /\ \A t \in Table : mem'[t] = ora[t] \/ mem'[t] = NoRows[t]
      /\ DOMAIN mem' = Table /\ mem' = [t \in Table |-> mem'[t]] /\ mem'["assets"] = ora["assets"]
  BY <1>1, <1>2
<1>4. RowsTyped(mem)' /\ RowsTyped(ora)'
  BY <1>1, <1>2, <1>3, NoRowsTyped DEF RowsTyped
<1>5. CtlTypes'
  BY <1>1, <1>4 DEF CtlTypes
<1>6. JobsOK' /\ NeedsBacked'
  BY <1>1 DEF JobsOK, NeedsBacked
<1>7. \A t \in Table : \A i \in Ids(mem', t) : In(<<t, i>>)'
  BY <1>1, <1>3, NoRowsTyped DEF Ids, In
<1>8. RowsBacked'
  BY <1>7 DEF RowsBacked, Backed, Ids
<1>9. AssetsOK'
  BY <1>1, <1>3 DEF AssetsOK, OnItsWay
<1> QED BY <1>5, <1>6, <1>8, <1>9 DEF CtlInv

LEMMA CtlStart == CtlInit => CtlInv
<1> SUFFICES ASSUME CtlInit PROVE CtlInv
  OBVIOUS
<1>1. mem = NoRows /\ ora = NoRows /\ queue = <<>>
  BY DEF CtlInit
<1>2. CtlTypes /\ \A t \in Table : Ids(mem, t) = {}
  BY <1>1, NoRowsTyped DEF CtlTypes
<1>3. JobsOK /\ NeedsBacked /\ RowsBacked
  BY <1>1, <1>2 DEF JobsOK, NeedsBacked, RowsBacked
<1>4. AssetsOK
  BY <1>1 DEF AssetsOK, OnItsWay
<1> QED BY <1>2, <1>3, <1>4 DEF CtlInv

LEMMA CtlStep == CtlInv /\ [CtlNext]_ctlVars => CtlInv'
<1> SUFFICES ASSUME CtlInv, [CtlNext]_ctlVars PROVE CtlInv'
  OBVIOUS
<1>1. CASE UNCHANGED ctlVars
  <2>1. mem' = mem /\ ora' = ora /\ queue' = queue /\ counted' = counted /\ gone' = gone /\ unsent' = unsent
    BY <1>1 DEF ctlVars
  <2>2. CtlTypes' /\ JobsOK'
    BY <2>1 DEF CtlInv, CtlTypes, RowsTyped, JobsOK, Ids
  <2>3. RowsBacked' /\ NeedsBacked'
    BY <2>1 DEF CtlInv, RowsBacked, NeedsBacked, Backed, In, Ids, Needs
  <2>4. AssetsOK'
    BY <2>1 DEF CtlInv, AssetsOK, OnItsWay, Pending
  <2> QED BY <2>2, <2>3, <2>4 DEF CtlInv
<1>2. CASE \E parent \in 0 .. MaxRows["assets"], cap \in Cap, who \in Staff :
             \/ \E named \in BOOLEAN : CreateAsset(parent, cap, who, named)
             \/ \E a \in 1 .. MaxRows["assets"] : ChangeAsset(a, parent, cap, who)
  BY <1>2, CreateAssetKeeps, ChangeAssetKeeps
<1>3. CASE \E a \in 1 .. MaxRows["assets"], who \in Staff : ApproveAsset(a, who)
  BY <1>3, ApproveAssetKeeps
<1>4. CASE \E c \in 1 .. MaxRows["certs"], to \in {"ERODED", "FAILED", "MET", "ACTIVE"} :
             TransitionCertificate(c, to)
  BY <1>4, TransitionCertificateKeeps
<1>5. CASE \E d \in 1 .. MaxRows["decisions"] : RecordProfilePush(d)
  BY <1>5, RecordProfilePushKeeps
<1>6. CASE \E p \in 1 .. MaxRows["pushes"], ack \in {"Accepted", "Rejected"} : SetPushAck(p, ack)
  BY <1>6, SetPushAckKeeps
<1>7. CASE \E ref \in Ref : DeadLetter(ref)
  BY <1>7, DeadLetterKeeps
<1>8. CASE \E l \in 1 .. MaxRows["letters"], action \in {"REPLAYED", "DISMISSED"} : ResolveDeadLetter(l, action)
  BY <1>8, ResolveDeadLetterKeeps
<1>9. CASE \E admitted \in BOOLEAN : IssueCertificate(admitted)
  BY <1>9, IssueCertificateKeeps
<1> QED BY <1>1, <1>2, <1>3, <1>4, <1>5, <1>6, <1>7, <1>8, <1>9, SetControlModeKeeps, RecordDecisionKeeps,
           ControlMirroredKeeps, ControlFailsKeeps, RestartControlKeeps DEF CtlNext

(* When a mirror's turn comes, the parent, the decision or the row it      *)
(* needs is in Oracle, unless its own mirror failed, found its letter      *)
(* under another id or was no INSERT: for tables and queues of any length  *)
(* (oracle.js: "a child grid asset can reference a parent whose INSERT is  *)
(* still in flight").                                                      *)
THEOREM RowsComeFirst == CtlSpec => []NeededRowsFirst
<1>1. CtlInv => NeededRowsFirst
  <2> SUFFICES ASSUME CtlInv, NEW n \in FirstJob, NEW need \in Needs(queue[n])
               PROVE  In(need) \/ need \in gone \cup unsent
    BY DEF NeededRowsFirst
  <2>1. n \in DOMAIN queue /\ n = 1 /\ \A m \in DOMAIN queue : m \in Nat /\ m >= 1
    BY DEF FirstJob, CtlInv, CtlTypes
  <2>2. Backed(need, 1)
    BY <2>1 DEF CtlInv, NeedsBacked
  <2> QED BY <2>1, <2>2 DEF Backed
<1> QED BY CtlStart, CtlStep, <1>1, PTL DEF CtlSpec

(* With no mirror waiting, the electrical limits Oracle holds are those    *)
(* the planner uses, or a mirror error is counted, but for the assets that *)
(* a request naming an unknown id created: those the comment of            *)
(* wrapControl forgets ("divergence is observable instead of assumed").    *)
THEOREM NothingDivergesUnseen == CtlSpec => []DivergenceCounted
<1>1. CtlInv => DivergenceCounted
  <2> SUFFICES ASSUME CtlInv, queue = <<>>, ~counted, NEW a \in DOMAIN mem["assets"],
                      <<"assets", a>> \notin unsent
               PROVE  Agree(a)
    BY DEF DivergenceCounted
  <2>1. a \in 1 .. MaxRows["assets"]
    BY DEF CtlInv, CtlTypes, RowsTyped, Table
  <2>2. OnItsWay(a) /\ \A ops : ~Pending(a, ops)
    BY <2>1 DEF CtlInv, AssetsOK, Pending
  <2> QED BY <2>2 DEF OnItsWay, Agree
<1> QED BY CtlStart, CtlStep, <1>1, PTL DEF CtlSpec

(* Both at once: writes answered before they are mirrored land in an order *)
(* that Oracle's keys accept, or are seen not to (wrapControl).            *)
THEOREM ControlStaysDurable == CtlSpec => []ControlDurable
  BY RowsComeFirst, NothingDivergesUnseen, PTL DEF ControlDurable

-----------------------------------------------------------------------------
(* Loops over a sorted set. Every proof about one has the same outline: Op *)
(* is its step and G(T) what holds when the members of T have had theirs;  *)
(* <1>3 is the start and <1>4 one step. What follows HIDE shows that       *)
(* InOrder is such a fold (Follows), so that FoldKeeps of Sums applies.    *)
Comes(key, a, b) == key[b] < key[a] \/ (key[b] = key[a] /\ b <= a)

LEMMA LastIs ==
  ASSUME NEW S \in SUBSET Int, IsFiniteSet(S), S # {}, NEW key, \A a \in S : key[a] \in Int
  PROVE  LastOf(key, S) \in S
<1> DEFINE Ends(X) == \E a \in X : \A b \in X : Comes(key, a, b)
<1>t. PICK Bad : Bad = {X \in FiniteSubsetsOf(S) : X # {} /\ ~Ends(X)}
  OBVIOUS
<1>a. ASSUME S \in Bad PROVE FALSE
  <2>s. Bad \in SUBSET FiniteSubsetsOf(S) /\ Bad # {}
    BY <1>a, <1>t
  <2>1. PICK X \in Bad : \A Y \in Bad : Y \subseteq X => Y = X
    BY <2>s, SmallestSet
  <2>2. X \in SUBSET S /\ IsFiniteSet(X) /\ X # {} /\ ~Ends(X)
    BY <1>t DEF FiniteSubsetsOf
  <2>3. PICK x \in X : TRUE
    BY <2>2
  <2>4. x \in Int /\ key[x] \in Int
    BY <2>2, <2>3
  <2>5. X \ {x} # {}
    <3>1. CASE X \ {x} = {}
      <4>1. \A b \in X : b = x
        BY <3>1
      <4>2. Comes(key, x, x)
        BY <2>4 DEF Comes
      <4> QED BY <2>2, <2>3, <4>1, <4>2
    <3> QED BY <3>1
  <2>6. Ends(X \ {x})
    <3>1. X \ {x} \in FiniteSubsetsOf(S) /\ X \ {x} \notin Bad
      BY <2>1, <2>2, <2>3, FS_Subset DEF FiniteSubsetsOf
    <3> QED BY <1>t, <2>5, <3>1
  <2>7. PICK a \in X \ {x} : \A b \in X \ {x} : Comes(key, a, b)
    BY <2>6
  <2>8. a \in Int /\ key[a] \in Int
    BY <2>2
  <2>9. CASE Comes(key, a, x)
    <3>1. \A b \in X : Comes(key, a, b)
      BY <2>7, <2>9
    <3> QED BY <2>2, <2>7, <3>1
  <2>10. CASE ~Comes(key, a, x)
    <3>1. ASSUME NEW b \in X PROVE Comes(key, x, b)
      <4>1. CASE b = x
        BY <2>4, <4>1 DEF Comes
      <4>2. CASE b # x
        <5>1. b \in Int /\ key[b] \in Int /\ Comes(key, a, b)
          BY <2>2, <2>7, <4>2
        <5> QED BY <2>4, <2>8, <2>10, <5>1 DEF Comes
      <4> QED BY <4>1, <4>2
    <3> QED BY <2>2, <2>3, <3>1
  <2> QED BY <2>9, <2>10
<1>b. Ends(S)
  BY <1>a, <1>t DEF FiniteSubsetsOf
<1> QED BY <1>b DEF LastOf, Comes

LastIn(key, S) == [T \in SUBSET S |-> LastOf(key, T)]

LEMMA LastPicks ==
  ASSUME NEW S \in SUBSET Int, IsFiniteSet(S), NEW key, \A a \in S : key[a] \in Int
  PROVE  Picks(LastIn(key, S), S)
<1>1. ASSUME NEW T \in SUBSET S, T # {} PROVE LastOf(key, T) \in T
  <2>1. T \in SUBSET Int /\ IsFiniteSet(T) /\ \A a \in T : key[a] \in Int
    BY FS_Subset
  <2> QED BY <1>1, <2>1, LastIs
<1> QED BY <1>1 DEF Picks, LastIn

LEMMA LoopIs ==
  ASSUME NEW S, NEW key, NEW last, last = LastIn(key, S), Picks(last, S), NEW T \in SUBSET S, T # {}
  PROVE  /\ last[T] \in S /\ last[T] \notin But(T, last) /\ But(T, last) \in SUBSET S
         /\ LastOf(key, T) = last[T] /\ T \ {last[T]} = But(T, last)
BY ButIs DEF LastIn, But

LEMMA IdPicks ==
  ASSUME NEW S \in SUBSET Nat, IsFiniteSet(S)
  PROVE  Picks(LastIn(ById, S), S)
<1>1. S \in SUBSET Int /\ \A a \in S : ById[a] \in Int
  BY DEF ById
<1> QED BY <1>1, LastPicks

-----------------------------------------------------------------------------
(* Numbers.                                                                *)
LEMMA MinIs2 ==
  ASSUME NEW a \in Int, NEW b \in Int
  PROVE  Min({a, b}) = IF a <= b THEN a ELSE b
<1>1. PICK m : m = IF a <= b THEN a ELSE b
  OBVIOUS
<1>2. m \in {a, b} /\ \A y \in {a, b} : m <= y
  BY <1>1
<1>3. \A x \in {a, b} : (\A y \in {a, b} : x <= y) => x = m
  BY <1>1
<1>4. Min({a, b}) = m
  BY <1>2, <1>3 DEF Min
<1> QED BY <1>1, <1>4

LEMMA MinIs3 ==
  ASSUME NEW a \in Int, NEW b \in Int, NEW c \in Int
  PROVE  /\ Min({a, b, c}) \in {a, b, c}
         /\ \A y \in {a, b, c} : Min({a, b, c}) <= y
<1>1. \E x \in {a, b, c} : \A y \in {a, b, c} : x <= y
  OBVIOUS
<1> QED BY <1>1 DEF Min

LEMMA MinIs4 ==
  ASSUME NEW a \in Int, NEW b \in Int, NEW c \in Int, NEW d \in Int
  PROVE  /\ Min({a, b, c, d}) \in {a, b, c, d}
         /\ \A y \in {a, b, c, d} : Min({a, b, c, d}) <= y
<1>1. \E x \in {a, b, c, d} : \A y \in {a, b, c, d} : x <= y
  OBVIOUS
<1> QED BY <1>1 DEF Min

LEMMA MaxIs2 ==
  ASSUME NEW a \in Int, NEW b \in Int
  PROVE  Max({a, b}) = IF a >= b THEN a ELSE b
<1>1. PICK m : m = IF a >= b THEN a ELSE b
  OBVIOUS
<1>2. m \in {a, b} /\ \A y \in {a, b} : m >= y
  BY <1>1
<1>3. \A x \in {a, b} : (\A y \in {a, b} : x >= y) => x = m
  BY <1>1
<1>4. Max({a, b}) = m
  BY <1>2, <1>3 DEF Max
<1> QED BY <1>1, <1>4

LEMMA Bounds ==
  /\ NSess \in Nat \ {0} /\ Rate \in Nat \ {0} /\ Least \in Nat \ {0} /\ H \in Nat \ {0}
  /\ Reserve \in Nat /\ Margin \in Nat /\ Infinity \in Nat /\ Least <= Rate
  /\ Sess \in SUBSET Nat /\ IsFiniteSet(Sess) /\ Slot \in SUBSET Nat /\ IsFiniteSet(Slot)
<1>1. /\ NSess \in Nat \ {0} /\ Rate \in Nat \ {0} /\ Least \in Nat \ {0} /\ H \in Nat \ {0}
      /\ Reserve \in Nat /\ Margin \in Nat /\ Infinity \in Nat /\ Least <= Rate
  BY PlanAssumption
<1>2. Sess \in SUBSET Nat /\ Slot \in SUBSET Nat
  BY <1>1 DEF Sess, Slot
<1>3. IsFiniteSet(Sess) /\ IsFiniteSet(Slot)
  <2>1. H - 1 \in Int /\ NSess \in Int /\ 0 \in Int /\ 1 \in Int
    BY <1>1
  <2> QED BY <2>1, FS_Interval DEF Sess, Slot
<1> QED BY <1>1, <1>2, <1>3

LEMMA AcceptsIs ==
  ASSUME NEW s \in Sess, NEW taken \in Nat
  PROVE  /\ Accepts(s, taken) \in 0 .. Rate
         /\ s \notin Declared => Accepts(s, taken) = Rate
         /\ s \in Declared => Accepts(s, taken) = IF Least >= Rate - taken THEN Least ELSE Rate - taken
<1>1. CASE s \notin Declared
  BY <1>1, Bounds DEF Accepts
<1>2. CASE s \in Declared
  <2>1. Rate - taken \in Int /\ Rate - taken <= Rate
    BY Bounds
  <2>2. CASE Rate - taken \in Nat
    <3>1. {Rate - taken} \cap Nat = {Rate - taken}
      BY <2>2
    <3>2. {Least} \cup {Rate - taken} = {Least, Rate - taken}
      OBVIOUS
    <3>3. Accepts(s, taken) = Max({Least, Rate - taken})
      BY <1>2, <3>1, <3>2 DEF Accepts
    <3>4. Least \in Int /\ Max({Least, Rate - taken}) = IF Least >= Rate - taken THEN Least ELSE Rate - taken
      BY <2>1, Bounds, MaxIs2
    <3> QED BY <1>2, <2>1, <2>2, <3>3, <3>4, Bounds
  <2>3. CASE Rate - taken \notin Nat
    <3>1. {Least} \cup ({Rate - taken} \cap Nat) = {Least, Least}
      BY <2>3
    <3>2. Accepts(s, taken) = Max({Least, Least})
      BY <1>2, <3>1 DEF Accepts
    <3>4. Least \in Int /\ Max({Least, Least}) = Least
      BY Bounds, MaxIs2
    <3>5. Accepts(s, taken) = Least /\ Least >= Rate - taken
      BY <2>1, <2>3, <3>2, <3>4, Bounds
    <3> QED BY <1>2, <3>5, Bounds
  <2> QED BY <2>2, <2>3
<1> QED BY <1>1, <1>2

-----------------------------------------------------------------------------
(* Sums.                                                                   *)
Column(x, t) == [s \in Sess |-> x[s][t]]
Floors1(c) == [s \in Sess |-> Floor(c, s)]
FloorsOf(vs) == [s \in DOMAIN vs |-> vs[s].floor]

LEMMA ColumnIs == ASSUME NEW x, NEW t PROVE Total(x, t) = Sum(Column(x, t), Sess)
<1>1. PICK w : w = Column(x, t)
  OBVIOUS
<1> DEFINE Adds(g) == g = [T \in SUBSET Sess |-> IF T = {} THEN 0 ELSE x[AnyOf(T)][t] + g[Rest(T)]]
<1>2. Total(x, t) = (CHOOSE g : Adds(g))[Sess]
  BY DEF Total, MapThenSumSet, MapThenFoldSet, AnyOf, Rest
<1>3. \A g : Adds(g) <=> IsSum(g, Sess, w)
  <2>1. \A T \in SUBSET Sess : T # {} => w[AnyOf(T)] = x[AnyOf(T)][t]
    BY <1>1, RestIs DEF Column
  <2> QED BY <2>1 DEF IsSum
<1>4. PICK h : h = (CHOOSE g : Adds(g))
  OBVIOUS
<1>5. \E g : Adds(g)
  BY <1>3, SumExists, Bounds
<1>6. IsSum(h, Sess, w)
  BY <1>3, <1>4, <1>5
<1>7. Sum(w, Sess) = h[Sess]
  BY <1>6, SumIs, Bounds
<1> QED BY <1>1, <1>2, <1>4, <1>7

LEMMA FloorSumIs ==
  ASSUME NEW c, NEW S \in SUBSET Sess
  PROVE  MapThenSumSet(LAMBDA o : Floor(c, o), S) = Sum(Floors1(c), S)
<1>1. PICK w : w = Floors1(c)
  OBVIOUS
<1> DEFINE Adds(g) == g = [T \in SUBSET S |-> IF T = {} THEN 0 ELSE Floor(c, AnyOf(T)) + g[Rest(T)]]
<1>2. MapThenSumSet(LAMBDA o : Floor(c, o), S) = (CHOOSE g : Adds(g))[S]
  BY DEF MapThenSumSet, MapThenFoldSet, AnyOf, Rest
<1>3. \A g : Adds(g) <=> IsSum(g, S, w)
  <2>1. \A T \in SUBSET S : T # {} => w[AnyOf(T)] = Floor(c, AnyOf(T))
    BY <1>1, RestIs DEF Floors1
  <2> QED BY <2>1 DEF IsSum
<1>4. PICK h : h = (CHOOSE g : Adds(g))
  OBVIOUS
<1>f. IsFiniteSet(S)
  BY Bounds, FS_Subset
<1>5. \E g : Adds(g)
  BY <1>3, <1>f, SumExists
<1>6. IsSum(h, S, w)
  BY <1>3, <1>4, <1>5
<1>7. Sum(w, S) = h[S]
  BY <1>6, <1>f, SumIs
<1> QED BY <1>1, <1>2, <1>4, <1>7

LEMMA PromiseSumIs ==
  ASSUME NEW vs, IsFiniteSet(DOMAIN vs)
  PROVE  Promises(vs) = Sum(FloorsOf(vs), DOMAIN vs)
<1>1. PICK w, S : w = FloorsOf(vs) /\ S = DOMAIN vs
  OBVIOUS
<1> DEFINE Adds(g) == g = [T \in SUBSET S |-> IF T = {} THEN 0 ELSE vs[AnyOf(T)].floor + g[Rest(T)]]
<1>2. Promises(vs) = (CHOOSE g : Adds(g))[S]
  BY <1>1 DEF Promises, MapThenSumSet, MapThenFoldSet, AnyOf, Rest
<1>3. \A g : Adds(g) <=> IsSum(g, S, w)
  <2>1. \A T \in SUBSET S : T # {} => w[AnyOf(T)] = vs[AnyOf(T)].floor
    BY <1>1, RestIs DEF FloorsOf
  <2> QED BY <2>1 DEF IsSum
<1>4. PICK h : h = (CHOOSE g : Adds(g))
  OBVIOUS
<1>5. \E g : Adds(g)
  BY <1>1, <1>3, SumExists
<1>6. IsSum(h, S, w)
  BY <1>3, <1>4, <1>5
<1>7. Sum(w, S) = h[S]
  BY <1>1, <1>6, SumIs
<1> QED BY <1>1, <1>2, <1>4, <1>7

-----------------------------------------------------------------------------
(* What a vehicle has taken, and what a certificate is worth.              *)
LEMMA TakenIs ==
  ASSUME NEW s \in Sess, NEW x \in [Sess -> [Slot -> Nat]], NEW t \in Slot
  PROVE  Taken(s, x, t) \in Nat /\ Taken(s, x, t) <= Sum(x[s], Slot)
<1>1. PICK S, last, w : S = 0 .. t - 1 /\ last = LastIn(ById, S) /\ w = x[s]
  OBVIOUS
<1>2. S \in SUBSET Slot /\ S \in SUBSET Nat /\ IsFiniteSet(S) /\ Picks(last, S)
  <2>1. t \in Nat /\ t <= H - 1 /\ H \in Nat
    BY Bounds DEF Slot
  <2>2. S \in SUBSET Slot
    BY <1>1, <2>1 DEF Slot
  <2> QED BY <1>1, <2>2, Bounds, FS_Subset, IdPicks
<1> DEFINE Op(a, i) == a + Min({x[s][i], Accepts(s, a)})
           G(T) == {a \in Nat : a <= Sum(w, T)}
<1>w. ASSUME NEW T \in SUBSET S PROVE IsFiniteSet(T) /\ AllNat(w, T)
  <2>1. T \in SUBSET Slot
    BY <1>2
  <2>2. \A i \in T : w[i] \in Nat
    BY <1>1, <2>1
  <2> QED BY <1>2, <2>2, FS_Subset DEF AllNat
<1>3. 0 \in G({})
  BY SumEmpty
<1>4. ASSUME NEW R \in SUBSET S, NEW i \in S \ R, NEW a \in G(R) PROVE Op(a, i) \in G(R \cup {i})
  <2>1. x[s][i] \in Nat /\ Accepts(s, a) \in Nat
    BY <1>2, AcceptsIs, Bounds
  <2>2. PICK m : m = Min({x[s][i], Accepts(s, a)})
    OBVIOUS
  <2>3. m \in Nat /\ m <= w[i]
    BY <1>1, <2>1, <2>2, MinIs2
  <2>4. i \in R \cup {i} /\ (R \cup {i}) \ {i} = R /\ R \cup {i} \in SUBSET S
    OBVIOUS
  <2>5. Sum(w, R) \in Nat /\ w[i] \in Nat /\ Sum(w, R \cup {i}) = w[i] + Sum(w, R)
    <3>1. PICK D : D = R \cup {i}
      OBVIOUS
    <3>2. IsFiniteSet(D) /\ AllNat(w, D) /\ i \in D /\ D \ {i} = R
      BY <1>w, <2>4, <3>1
    <3>3. Sum(w, D \ {i}) \in Nat /\ w[i] \in Nat /\ Sum(w, D) = w[i] + Sum(w, D \ {i})
      BY <3>2, SumStep
    <3> QED BY <3>1, <3>2, <3>3
  <2>6. a + m \in Nat /\ a + m <= Sum(w, R \cup {i})
    BY <2>3, <2>5
  <2> QED BY <2>2, <2>6
<1> HIDE DEF Op, G
<1>l. last = LastIn(ById, S) /\ Picks(last, S)
  BY <1>1, <1>2
<1>5. PICK Good : Good = [T \in SUBSET S |-> G(T)]
  OBVIOUS
<1>a. PICK step : step = [i \in S |-> [a \in UNION {Good[T] : T \in SUBSET S} |-> Op(a, i)]]
  OBVIOUS
<1>b. ASSUME NEW T \in SUBSET S, T # {}
      PROVE  /\ last[T] \in S \ But(T, last) /\ But(T, last) \in SUBSET S /\ But(T, last) \cup {last[T]} = T
             /\ LastOf(ById, T) = last[T] /\ T \ {last[T]} = But(T, last)
             /\ Good[But(T, last)] = G(But(T, last)) /\ Good[T] = G(T)
  <2>1. /\ last[T] \in S /\ last[T] \notin But(T, last) /\ But(T, last) \in SUBSET S
        /\ LastOf(ById, T) = last[T] /\ T \ {last[T]} = But(T, last)
    BY <1>l, <1>b, LoopIs
  <2>2. last[T] \in T
    BY <1>l, <1>b DEF Picks
  <2> QED BY <1>5, <2>1, <2>2
<1>s. ASSUME NEW T \in SUBSET S, T # {}, NEW a \in Good[But(T, last)]
      PROVE  step[last[T]][a] = Op(a, last[T])
  <2>1. a \in UNION {Good[R] : R \in SUBSET S} /\ last[T] \in S
    BY <1>b, <1>s
  <2> QED BY <1>a, <2>1
<1>6. 0 \in Good[{}] /\ StepKeeps(last, step, S, Good)
  <2>1. 0 \in Good[{}]
    BY <1>3, <1>5
  <2>2. ASSUME NEW T \in SUBSET S, T # {}, NEW a \in Good[But(T, last)] PROVE step[last[T]][a] \in Good[T]
    BY <1>4, <1>b, <1>s, <2>2
  <2> QED BY <2>1, <2>2 DEF StepKeeps
<1>7. PICK g : IsFold(g, S, last, 0, step) /\ \A T \in SUBSET S : g[T] \in Good[T]
  BY <1>2, <1>6, FoldGood
<1> DEFINE Adds(k) == k = [T \in SUBSET S |-> IF T = {} THEN 0 ELSE Op(k[T \ {LastOf(ById, T)}], LastOf(ById, T))]
<1>8. Adds(g)
  <2>1. ASSUME NEW T \in SUBSET S, T # {}
        PROVE  step[last[T]][g[But(T, last)]] = Op(g[T \ {LastOf(ById, T)}], LastOf(ById, T))
    <3>1. T \ {LastOf(ById, T)} = But(T, last) /\ LastOf(ById, T) = last[T]
      BY <1>b, <2>1
    <3>2. g[But(T, last)] \in Good[But(T, last)]
      BY <1>7, <1>b, <2>1
    <3>3. step[last[T]][g[But(T, last)]] = Op(g[But(T, last)], last[T])
      BY <1>s, <2>1, <3>2
    <3> QED BY <3>1, <3>3
  <2> QED BY <1>7, <2>1 DEF IsFold
<1>9. PICK h : h = (CHOOSE k : Adds(k))
  OBVIOUS
<1>10. Adds(h)
  BY <1>8, <1>9
<1>11. Follows(h, last, 0, step, S, Good)
  <2>1. h[{}] = 0
    BY <1>10
  <2>2. ASSUME NEW T \in SUBSET S, T # {}, h[But(T, last)] \in Good[But(T, last)]
        PROVE  h[T] = step[last[T]][h[But(T, last)]]
    <3>1. T \ {LastOf(ById, T)} = But(T, last) /\ LastOf(ById, T) = last[T]
      BY <1>b, <2>2
    <3>2. h[T] = Op(h[T \ {LastOf(ById, T)}], LastOf(ById, T))
      BY <1>10, <2>2
    <3>3. h[T] = Op(h[But(T, last)], last[T])
      BY <3>1, <3>2
    <3> QED BY <1>s, <2>2, <3>3
  <2> QED BY <2>1, <2>2 DEF Follows
<1>12. \A T \in SUBSET S : h[T] \in Good[T]
  BY <1>2, <1>6, <1>11, FoldKeeps
<1>13. h[S] \in G(S)
  BY <1>5, <1>12
<1>14. Taken(s, x, t) = h[S]
  BY <1>1, <1>9 DEF Taken, InOrder, MapThenFoldSet, Op
<1>15. AllNat(w, S) /\ AllNat(w, Slot) /\ IsFiniteSet(S) /\ IsFiniteSet(Slot)
  <2>1. \A i \in Slot : w[i] \in Nat
    BY <1>1
  <2> QED BY <1>2, <2>1, Bounds DEF AllNat
<1>16. Sum(w, S) \in Nat /\ Sum(w, Slot) \in Nat /\ Sum(w, S) <= Sum(w, Slot)
  <2>1. Covers(w, w, S, Slot)
    BY <1>2, <1>15 DEF Covers, AllNat
  <2> QED BY <1>15, <2>1, SumAtMost, SumNat
<1> QED BY <1>1, <1>13, <1>14, <1>15, <1>16 DEF G

LEMMA SupplyIs ==
  ASSUME NEW s \in Sess, NEW due \in Nat, NEW residual \in Nat, NEW target \in Nat
  PROVE  /\ Supply(s, due, residual, target) \in [sum : Nat, rate : 0 .. Rate]
         /\ Supply(s, due, residual, target).rate <= residual
         /\ s \in Declared => \/ Supply(s, due, residual, target).rate <= Least
                             \/ Supply(s, due, residual, target).sum <= Rate
<1>1. PICK S, last : S = 1 .. Max({1, due}) /\ last = LastIn(ById, S)
  OBVIOUS
<1>2. S \in SUBSET Nat /\ IsFiniteSet(S) /\ Picks(last, S)
  <2>1. 1 \in Int /\ Max({1, due}) \in Int
    BY MaxIs2
  <2>2. S \in SUBSET Nat /\ IsFiniteSet(S)
    BY <1>1, <2>1, FS_Interval
  <2> QED BY <1>1, <2>2, IdPicks
<1> DEFINE Op(a, i) == IF a.sum >= target /\ i > 1 THEN a
                       ELSE LET r == Min({Accepts(s, a.sum), residual}) IN [sum |-> a.sum + r, rate |-> r]
           G(T) == {a \in [sum : Nat, rate : 0 .. Rate] :
                      a.rate <= residual /\ (s \in Declared => a.rate <= Least \/ a.sum <= Rate)}
           none == [sum |-> 0, rate |-> 0]
<1>3. none \in G({})
  BY Bounds
<1>4. ASSUME NEW R \in SUBSET S, NEW i \in S \ R, NEW a \in G(R) PROVE Op(a, i) \in G(R \cup {i})
  <2>1. PICK r : r = Min({Accepts(s, a.sum), residual})
    OBVIOUS
  <2>2. PICK y, n : y = Accepts(s, a.sum) /\ n = a.sum
    OBVIOUS
  <2>3. /\ n \in Nat /\ y \in 0 .. Rate
        /\ s \in Declared => y = IF Least >= Rate - n THEN Least ELSE Rate - n
    BY <2>2, AcceptsIs
  <2>4. r \in 0 .. Rate /\ r <= residual /\ r <= y
    BY <2>1, <2>2, <2>3, MinIs2, Bounds
  <2>5. s \in Declared => r <= Least \/ n + r <= Rate
    BY <2>3, <2>4, Bounds
  <2>6. n + r \in Nat
    BY <2>3, <2>4, Bounds
  <2>7. [sum |-> n + r, rate |-> r] \in G(R \cup {i})
    BY <2>4, <2>5, <2>6
  <2> QED BY <2>1, <2>2, <2>7
<1> HIDE DEF Op, G
<1>l. last = LastIn(ById, S) /\ Picks(last, S)
  BY <1>1, <1>2
<1>5. PICK Good : Good = [T \in SUBSET S |-> G(T)]
  OBVIOUS
<1>a. PICK step : step = [i \in S |-> [a \in UNION {Good[T] : T \in SUBSET S} |-> Op(a, i)]]
  OBVIOUS
<1>b. ASSUME NEW T \in SUBSET S, T # {}
      PROVE  /\ last[T] \in S \ But(T, last) /\ But(T, last) \in SUBSET S /\ But(T, last) \cup {last[T]} = T
             /\ LastOf(ById, T) = last[T] /\ T \ {last[T]} = But(T, last)
             /\ Good[But(T, last)] = G(But(T, last)) /\ Good[T] = G(T)
  <2>1. /\ last[T] \in S /\ last[T] \notin But(T, last) /\ But(T, last) \in SUBSET S
        /\ LastOf(ById, T) = last[T] /\ T \ {last[T]} = But(T, last)
    BY <1>l, <1>b, LoopIs
  <2>2. last[T] \in T
    BY <1>l, <1>b DEF Picks
  <2> QED BY <1>5, <2>1, <2>2
<1>s. ASSUME NEW T \in SUBSET S, T # {}, NEW a \in Good[But(T, last)]
      PROVE  step[last[T]][a] = Op(a, last[T])
  <2>1. a \in UNION {Good[R] : R \in SUBSET S} /\ last[T] \in S
    BY <1>b, <1>s
  <2> QED BY <1>a, <2>1
<1>6. none \in Good[{}] /\ StepKeeps(last, step, S, Good)
  <2>1. none \in Good[{}]
    BY <1>3, <1>5
  <2>2. ASSUME NEW T \in SUBSET S, T # {}, NEW a \in Good[But(T, last)] PROVE step[last[T]][a] \in Good[T]
    BY <1>4, <1>b, <1>s, <2>2
  <2> QED BY <2>1, <2>2 DEF StepKeeps
<1>7. PICK g : IsFold(g, S, last, none, step) /\ \A T \in SUBSET S : g[T] \in Good[T]
  BY <1>2, <1>6, FoldGood
<1> DEFINE Adds(k) == k = [T \in SUBSET S |-> IF T = {} THEN none ELSE Op(k[T \ {LastOf(ById, T)}], LastOf(ById, T))]
<1>8. Adds(g)
  <2>1. ASSUME NEW T \in SUBSET S, T # {}
        PROVE  step[last[T]][g[But(T, last)]] = Op(g[T \ {LastOf(ById, T)}], LastOf(ById, T))
    <3>1. T \ {LastOf(ById, T)} = But(T, last) /\ LastOf(ById, T) = last[T]
      BY <1>b, <2>1
    <3>2. g[But(T, last)] \in Good[But(T, last)]
      BY <1>7, <1>b, <2>1
    <3>3. step[last[T]][g[But(T, last)]] = Op(g[But(T, last)], last[T])
      BY <1>s, <2>1, <3>2
    <3> QED BY <3>1, <3>3
  <2> QED BY <1>7, <2>1 DEF IsFold
<1>9. PICK h : h = (CHOOSE k : Adds(k))
  OBVIOUS
<1>10. Adds(h)
  BY <1>8, <1>9
<1>11. Follows(h, last, none, step, S, Good)
  <2>1. h[{}] = none
    BY <1>10
  <2>2. ASSUME NEW T \in SUBSET S, T # {}, h[But(T, last)] \in Good[But(T, last)]
        PROVE  h[T] = step[last[T]][h[But(T, last)]]
    <3>1. T \ {LastOf(ById, T)} = But(T, last) /\ LastOf(ById, T) = last[T]
      BY <1>b, <2>2
    <3>2. h[T] = Op(h[T \ {LastOf(ById, T)}], LastOf(ById, T))
      BY <1>10, <2>2
    <3>3. h[T] = Op(h[But(T, last)], last[T])
      BY <3>1, <3>2
    <3> QED BY <1>s, <2>2, <3>3
  <2> QED BY <2>1, <2>2 DEF Follows
<1>12. \A T \in SUBSET S : h[T] \in Good[T]
  BY <1>2, <1>6, <1>11, FoldKeeps
<1>13. h[S] \in G(S)
  BY <1>5, <1>12
<1>14. Supply(s, due, residual, target) = h[S]
  BY <1>1, <1>9 DEF Supply, InOrder, MapThenFoldSet, Op
<1> QED BY <1>13, <1>14 DEF G
-----------------------------------------------------------------------------
(* Certificates.                                                            *)
PromiseRow == [status : {"NONE", "ACTIVE", "ERODED", "FAILED"}, floor : 0 .. Rate]
SessRow == [state : {"NONE", "LIVE", "DONE"}, need : Nat, due : 0 .. H + 1]

LEMMA FloorIs ==
  ASSUME NEW c \in [Sess -> PromiseRow], NEW s \in Sess
  PROVE  Floor(c, s) \in 0 .. Rate /\ Floors1(c)[s] = Floor(c, s)
BY Bounds DEF Floor, Floors1, PromiseRow

LEMMA FloorsCount ==
  ASSUME NEW c \in [Sess -> PromiseRow], NEW S \in SUBSET Sess
  PROVE  AllNat(Floors1(c), S) /\ IsFiniteSet(S)
<1>1. \A s \in S : Floors1(c)[s] \in Nat
  <2> SUFFICES ASSUME NEW s \in S PROVE Floors1(c)[s] \in Nat
    OBVIOUS
  <2>1. Floor(c, s) \in 0 .. Rate /\ Floors1(c)[s] = Floor(c, s)
    BY FloorIs
  <2> QED BY <2>1, Bounds
<1> QED BY <1>1, Bounds, FS_Subset DEF AllNat

LEMMA VehicleIs ==
  ASSUME sess \in [Sess -> SessRow], NEW c \in [Sess -> PromiseRow], NEW on \in SUBSET Sess, NEW s \in on
  PROVE  /\ Vehicles(on, c)[s].need = sess[s].need /\ sess[s].need \in Nat
         /\ Vehicles(on, c)[s].due \in 0 .. H
         /\ Vehicles(on, c)[s].floor = Floor(c, s)
         /\ Vehicles(on, c)[s] \in [need : Nat, due : 0 .. H, floor : 0 .. Rate]
<1>1. sess[s] \in SessRow /\ H \in Nat /\ s \in Sess
  BY Bounds
<1>2. sess[s].need \in Nat /\ sess[s].due \in 0 .. H + 1
  BY <1>1 DEF SessRow
<1>3. Min({sess[s].due, H}) \in 0 .. H
  BY <1>1, <1>2, MinIs2
<1>4. Floor(c, s) \in 0 .. Rate
  BY <1>1, FloorIs
<1> QED BY <1>2, <1>3, <1>4 DEF Vehicles

(* A promise that stands is one its session can still draw: it asks for no *)
(* more than a full battery accepts, or for less than the taper of a       *)
(* declared one starts at.                                                 *)
Bearing(r, c) == r.state # "NONE" /\ (r.need <= Rate \/ c.floor <= Least)
Bearable(c) == \A s \in Declared : c[s].status = "ACTIVE" => Bearing(sess[s], c[s])
Begun == {s \in Sess : sess[s].state # "NONE"}

LEMMA CertifyIs ==
  ASSUME sess \in [Sess -> SessRow], cert \in [Sess -> PromiseRow], NEW on \in SUBSET Sess, NEW cap \in Nat
  PROVE  /\ Certify(on, cap) \in [Sess -> PromiseRow]
         /\ Sum(Floors1(cert), on) <= cap => Sum(Floors1(Certify(on, cap)), on) <= cap
         /\ on \subseteq Begun /\ Bearable(cert) => Bearable(Certify(on, cap))
<1>1. PICK S, last : S = on /\ last = LastIn(ById, S)
  OBVIOUS
<1>2. S \in SUBSET Nat /\ IsFiniteSet(S) /\ Picks(last, S)
  BY <1>1, Bounds, FS_Subset, IdPicks
<1> DEFINE Others(c, s) == MapThenSumSet(LAMBDA o : Floor(c, o), on \ {s})
           Ver(c, s) == Verdict(s, Vehicles(on, c)[s], cap, Others(c, s))
           Op(c, s) == IF c[s].status \in {"ACTIVE", "ERODED"} THEN c
                       ELSE [c EXCEPT ![s] = IF Ver(c, s).admitted THEN [status |-> "ACTIVE", floor |-> Ver(c, s).floor]
                                             ELSE [status |-> "FAILED", floor |-> 0]]
           G(T) == {c \in [Sess -> PromiseRow] :
                      /\ Sum(Floors1(cert), on) <= cap => Sum(Floors1(c), on) <= cap
                      /\ on \subseteq Begun /\ Bearable(cert) => Bearable(c)}
<1>3. cert \in G({})
  OBVIOUS
<1>4. ASSUME NEW R \in SUBSET S, NEW s \in S \ R, NEW c \in G(R) PROVE Op(c, s) \in G(R \cup {s})
  <2>0. c \in [Sess -> PromiseRow] /\ s \in on /\ s \in Sess
    BY <1>1
  <2>1. CASE c[s].status \in {"ACTIVE", "ERODED"}
    BY <2>1
  <2>2. CASE c[s].status \notin {"ACTIVE", "ERODED"}
    <3>1. PICK v, others : v = Ver(c, s) /\ others = Sum(Floors1(c), on \ {s})
      OBVIOUS
    <3>2. Others(c, s) = others /\ others \in Nat
      <4>1. on \ {s} \in SUBSET Sess
        OBVIOUS
      <4>2. Others(c, s) = others
        BY <3>1, <4>1, FloorSumIs
      <4>3. others \in Nat
        BY <2>0, <3>1, <4>1, FloorsCount, SumNat
      <4> QED BY <4>2, <4>3
    <3>3. /\ v.floor \in 0 .. Rate /\ v.floor <= Residual(cap, others)
          /\ s \in Declared /\ v.admitted => sess[s].need <= Rate \/ v.floor <= Least
      <4>1. PICK w : w = Vehicles(on, c)[s]
        OBVIOUS
      <4>2. w.need + Margin \in Nat /\ w.due \in Nat
        BY <2>0, <4>1, VehicleIs, Bounds
      <4>3. Residual(cap, others) \in Nat
        BY <3>2 DEF Residual
      <4>4. PICK u : u = Supply(s, w.due, Residual(cap, others), w.need + Margin)
        OBVIOUS
      <4>5. /\ u.rate \in 0 .. Rate /\ u.rate <= Residual(cap, others) /\ u.sum \in Nat
            /\ s \in Declared => u.rate <= Least \/ u.sum <= Rate
        <5>1. PICK d, r, n : d = w.due /\ r = Residual(cap, others) /\ n = w.need + Margin
          OBVIOUS
        <5>2. d \in Nat /\ r \in Nat /\ n \in Nat /\ s \in Sess /\ u = Supply(s, d, r, n)
          BY <2>0, <4>2, <4>3, <4>4, <5>1
        <5>3. /\ u \in [sum : Nat, rate : 0 .. Rate] /\ u.rate <= r
              /\ s \in Declared => u.rate <= Least \/ u.sum <= Rate
          BY <5>2, SupplyIs
        <5> QED BY <5>1, <5>3
      <4>6. v.floor = u.rate /\ v.admitted = (u.sum >= w.need + Margin)
        BY <3>1, <3>2, <4>1, <4>4 DEF Verdict
      <4>7. w.need = sess[s].need /\ sess[s].need \in Nat /\ Margin \in Nat /\ Rate \in Nat
        BY <2>0, <4>1, VehicleIs, Bounds
      <4>8. ASSUME v.admitted, u.sum <= Rate PROVE sess[s].need <= Rate
        <5>1. PICK z, m, n : z = u.sum /\ m = sess[s].need /\ n = Margin
          OBVIOUS
        <5>2. z \in Nat /\ m \in Nat /\ n \in Nat /\ z >= m + n /\ z <= Rate /\ Rate \in Nat
          BY <4>5, <4>6, <4>7, <4>8, <5>1
        <5>3. m <= Rate
          BY <5>2
        <5> QED BY <5>1, <5>3
      <4> QED BY <4>5, <4>6, <4>8
    <3> HIDE DEF Ver, Others
    <3>4. PICK f, d : /\ f = IF v.admitted THEN v.floor ELSE 0
                      /\ d = [c EXCEPT ![s] = IF v.admitted THEN [status |-> "ACTIVE", floor |-> v.floor]
                                              ELSE [status |-> "FAILED", floor |-> 0]]
      OBVIOUS
    <3>5. Op(c, s) = d /\ f \in 0 .. Rate /\ f <= Residual(cap, others)
      BY <2>2, <3>1, <3>2, <3>3, <3>4, Bounds DEF Residual
    <3>6. /\ d \in [Sess -> PromiseRow] /\ Floor(d, s) = f /\ Floor(c, s) = 0
          /\ \A o \in Sess \ {s} : Floor(d, o) = Floor(c, o)
      <4>1. d[s] = IF v.admitted THEN [status |-> "ACTIVE", floor |-> v.floor] ELSE [status |-> "FAILED", floor |-> 0]
        BY <2>0, <3>4
      <4>2. d[s] \in PromiseRow
        BY <3>3, <4>1, Bounds DEF PromiseRow
      <4>3. d \in [Sess -> PromiseRow] /\ \A o \in Sess \ {s} : d[o] = c[o]
        BY <2>0, <3>4, <4>1, <4>2
      <4> QED BY <2>2, <3>4, <4>1, <4>3 DEF Floor
    <3>7. PICK w, x, m, n : w = Floors1(c) /\ x = Floors1(d) /\ m = Sum(w, on) /\ n = Sum(x, on)
      OBVIOUS
    <3>8. w[s] = 0 /\ x[s] = f /\ \A o \in on : o # s => x[o] = w[o]
      BY <2>0, <3>6, <3>7 DEF Floors1
    <3>9. AllNat(w, on) /\ AllNat(x, on) /\ IsFiniteSet(on)
      BY <2>0, <3>6, <3>7, FloorsCount
    <3>10. m \in Nat /\ n \in Nat /\ n = m + f
      <4>1. s \in on /\ \A o \in on : o # s => x[o] = w[o]
        BY <2>0, <3>8
      <4>2. m \in Nat /\ n \in Nat /\ n = (m - w[s]) + x[s]
        BY <3>7, <3>9, <4>1, SumChange
      <4> QED BY <3>5, <3>8, <4>2
    <3>11. others = m
      <4>1. m = w[s] + Sum(w, on \ {s})
        BY <2>0, <3>7, <3>9, SumStep
      <4> QED BY <3>1, <3>2, <3>7, <3>8, <4>1
    <3>12. m <= cap => n <= cap
      BY <3>5, <3>10, <3>11, Bounds DEF Residual
    <3>13. ASSUME on \subseteq Begun, Bearable(c) PROVE Bearable(d)
      <4> SUFFICES ASSUME NEW o \in Declared, d[o].status = "ACTIVE" PROVE Bearing(sess[o], d[o])
        BY DEF Bearable
      <4>1. o \in Sess
        BY PlanAssumption DEF Sess
      <4>2. CASE o = s
        <5>1. d[s] = IF v.admitted THEN [status |-> "ACTIVE", floor |-> v.floor] ELSE [status |-> "FAILED", floor |-> 0]
          BY <2>0, <3>4
        <5>2. v.admitted /\ d[s].floor = v.floor
          BY <4>2, <5>1
        <5>3. sess[s].state # "NONE"
          BY <2>0, <3>13 DEF Begun
        <5> QED BY <3>3, <4>2, <5>2, <5>3 DEF Bearing
      <4>3. CASE o # s
        <5>1. d[o] = c[o]
          BY <2>0, <3>4, <4>1, <4>3
        <5> QED BY <3>13, <5>1 DEF Bearable
      <4> QED BY <4>2, <4>3
    <3> QED BY <3>5, <3>6, <3>7, <3>12, <3>13
  <2> QED BY <2>1, <2>2
<1> HIDE DEF Op, G, Ver, Others
<1>l. last = LastIn(ById, S) /\ Picks(last, S)
  BY <1>1, <1>2
<1>5. PICK Good : Good = [T \in SUBSET S |-> G(T)]
  OBVIOUS
<1>a. PICK step : step = [i \in S |-> [a \in UNION {Good[T] : T \in SUBSET S} |-> Op(a, i)]]
  OBVIOUS
<1>b. ASSUME NEW T \in SUBSET S, T # {}
      PROVE  /\ last[T] \in S \ But(T, last) /\ But(T, last) \in SUBSET S /\ But(T, last) \cup {last[T]} = T
             /\ LastOf(ById, T) = last[T] /\ T \ {last[T]} = But(T, last)
             /\ Good[But(T, last)] = G(But(T, last)) /\ Good[T] = G(T)
  <2>1. /\ last[T] \in S /\ last[T] \notin But(T, last) /\ But(T, last) \in SUBSET S
        /\ LastOf(ById, T) = last[T] /\ T \ {last[T]} = But(T, last)
    BY <1>l, <1>b, LoopIs
  <2>2. last[T] \in T
    BY <1>l, <1>b DEF Picks
  <2> QED BY <1>5, <2>1, <2>2
<1>s. ASSUME NEW T \in SUBSET S, T # {}, NEW a \in Good[But(T, last)]
      PROVE  step[last[T]][a] = Op(a, last[T])
  <2>1. a \in UNION {Good[R] : R \in SUBSET S} /\ last[T] \in S
    BY <1>b, <1>s
  <2> QED BY <1>a, <2>1
<1>6. cert \in Good[{}] /\ StepKeeps(last, step, S, Good)
  <2>1. cert \in Good[{}]
    BY <1>3, <1>5
  <2>2. ASSUME NEW T \in SUBSET S, T # {}, NEW a \in Good[But(T, last)] PROVE step[last[T]][a] \in Good[T]
    BY <1>4, <1>b, <1>s, <2>2
  <2> QED BY <2>1, <2>2 DEF StepKeeps
<1>7. PICK g : IsFold(g, S, last, cert, step) /\ \A T \in SUBSET S : g[T] \in Good[T]
  BY <1>2, <1>6, FoldGood
<1> DEFINE Adds(k) == k = [T \in SUBSET S |-> IF T = {} THEN cert ELSE Op(k[T \ {LastOf(ById, T)}], LastOf(ById, T))]
<1>8. Adds(g)
  <2>1. ASSUME NEW T \in SUBSET S, T # {}
        PROVE  step[last[T]][g[But(T, last)]] = Op(g[T \ {LastOf(ById, T)}], LastOf(ById, T))
    <3>1. T \ {LastOf(ById, T)} = But(T, last) /\ LastOf(ById, T) = last[T]
      BY <1>b, <2>1
    <3>2. g[But(T, last)] \in Good[But(T, last)]
      BY <1>7, <1>b, <2>1
    <3>3. step[last[T]][g[But(T, last)]] = Op(g[But(T, last)], last[T])
      BY <1>s, <2>1, <3>2
    <3> QED BY <3>1, <3>3
  <2> QED BY <1>7, <2>1 DEF IsFold
<1>9. PICK h : h = (CHOOSE k : Adds(k))
  OBVIOUS
<1>10. Adds(h)
  BY <1>8, <1>9
<1>11. Follows(h, last, cert, step, S, Good)
  <2>1. h[{}] = cert
    BY <1>10
  <2>2. ASSUME NEW T \in SUBSET S, T # {}, h[But(T, last)] \in Good[But(T, last)]
        PROVE  h[T] = step[last[T]][h[But(T, last)]]
    <3>1. T \ {LastOf(ById, T)} = But(T, last) /\ LastOf(ById, T) = last[T]
      BY <1>b, <2>2
    <3>2. h[T] = Op(h[T \ {LastOf(ById, T)}], LastOf(ById, T))
      BY <1>10, <2>2
    <3>3. h[T] = Op(h[But(T, last)], last[T])
      BY <3>1, <3>2
    <3> QED BY <1>s, <2>2, <3>3
  <2> QED BY <2>1, <2>2 DEF Follows
<1>12. \A T \in SUBSET S : h[T] \in Good[T]
  BY <1>2, <1>6, <1>11, FoldKeeps
<1>13. h[S] \in G(S)
  BY <1>5, <1>12
<1>14. Certify(on, cap) = h[S]
  BY <1>1, <1>9 DEF Certify, InOrder, MapThenFoldSet, Op, Ver, Others
<1> QED BY <1>13, <1>14 DEF G
-----------------------------------------------------------------------------
(* Schedules.                                                              *)
Grid == [Sess -> [Slot -> Nat]]
Vehicle == [need : Nat, due : 0 .. H, floor : 0 .. Rate]
Fleet == UNION {[on -> Vehicle] : on \in SUBSET Sess}

(* The cap is kept, nothing is given after a deadline, and what a vehicle  *)
(* was given and what it lacks make up its need.                           *)
UnderCap(x, cap) == cap # Infinity => \A t \in Slot : Sum(Column(x, t), Sess) <= cap
InTime(x, vs) == \A s \in DOMAIN vs, t \in Slot : t >= vs[s].due => x[s][t] = 0
Kept(p, vs) == \A s \in DOMAIN vs : Sum(p.x[s], Slot) + p.need[s] = vs[s].need
Schedule(vs, cap) ==
  {p \in [x : Grid, need : [Sess -> Nat]] : UnderCap(p.x, cap) /\ InTime(p.x, vs) /\ Kept(p, vs)}

LEMMA FleetIs ==
  ASSUME NEW vs \in Fleet
  PROVE  /\ DOMAIN vs \in SUBSET Sess /\ IsFiniteSet(DOMAIN vs) /\ DOMAIN vs \in SUBSET Nat
         /\ \A s \in DOMAIN vs : /\ vs[s] \in Vehicle /\ vs[s].need \in Nat /\ vs[s].floor \in 0 .. Rate
                                 /\ vs[s].due \in 0 .. H /\ vs[s].due \in Nat /\ vs[s].floor \in Nat
<1>1. DOMAIN vs \in SUBSET Sess /\ \A s \in DOMAIN vs : vs[s] \in Vehicle
  BY DEF Fleet
<1>2. DOMAIN vs \in SUBSET Nat /\ IsFiniteSet(DOMAIN vs)
  BY <1>1, Bounds, FS_Subset
<1>3. ASSUME NEW s \in DOMAIN vs
      PROVE  /\ vs[s] \in Vehicle /\ vs[s].need \in Nat /\ vs[s].floor \in 0 .. Rate
             /\ vs[s].due \in 0 .. H /\ vs[s].due \in Nat /\ vs[s].floor \in Nat
  <2>1. PICK v : v = vs[s] /\ v \in Vehicle
    BY <1>1
  <2>2. v.need \in Nat /\ v.floor \in 0 .. Rate /\ v.due \in 0 .. H
    BY <2>1 DEF Vehicle
  <2>3. v.floor \in Nat /\ v.due \in Nat
    BY <2>2, Bounds
  <2> QED BY <2>1, <2>2, <2>3
<1> QED BY <1>1, <1>2, <1>3

LEMMA GridSums ==
  ASSUME NEW x \in Grid
  PROVE  /\ \A s \in Sess : AllNat(x[s], Slot) /\ Sum(x[s], Slot) \in Nat
         /\ \A t \in Slot : /\ AllNat(Column(x, t), Sess) /\ Sum(Column(x, t), Sess) \in Nat
                             /\ Total(x, t) = Sum(Column(x, t), Sess)
<1>1. ASSUME NEW s \in Sess PROVE AllNat(x[s], Slot)
  BY DEF Grid, AllNat
<1>2. ASSUME NEW t \in Slot PROVE AllNat(Column(x, t), Sess)
  BY DEF Grid, AllNat, Column
<1> QED BY <1>1, <1>2, SumNat, ColumnIs, Bounds

OneCell(x, y, s, t) == \A o \in Sess, u \in Slot : o # s \/ u # t => y[o][u] = x[o][u]

LEMMA CellChange ==
  ASSUME NEW x \in Grid, NEW y \in Grid, NEW s \in Sess, NEW t \in Slot, OneCell(x, y, s, t)
  PROVE  /\ Sum(Column(y, t), Sess) = (Sum(Column(x, t), Sess) - x[s][t]) + y[s][t]
         /\ \A u \in Slot : u # t => Sum(Column(y, u), Sess) = Sum(Column(x, u), Sess)
         /\ Sum(y[s], Slot) = (Sum(x[s], Slot) - x[s][t]) + y[s][t]
         /\ x[s][t] <= Sum(Column(x, t), Sess) /\ x[s][t] <= Sum(x[s], Slot)
         /\ \A o \in Sess : o # s => y[o] = x[o]
<1>1. ASSUME NEW u \in Slot, u # t PROVE Sum(Column(y, u), Sess) = Sum(Column(x, u), Sess)
  <2>1. Column(y, u) = Column(x, u)
    BY <1>1 DEF Column, OneCell
  <2> QED BY <2>1
<1>2. ASSUME NEW o \in Sess, o # s PROVE y[o] = x[o]
  BY <1>2 DEF Grid, OneCell
<1>3. /\ Sum(Column(y, t), Sess) = (Sum(Column(x, t), Sess) - x[s][t]) + y[s][t]
      /\ x[s][t] <= Sum(Column(x, t), Sess)
  <2>1. PICK w, v : w = Column(x, t) /\ v = Column(y, t)
    OBVIOUS
  <2>2. w[s] = x[s][t] /\ v[s] = y[s][t] /\ \A o \in Sess : o # s => v[o] = w[o]
    BY <2>1 DEF Column, OneCell
  <2>3. AllNat(w, Sess) /\ AllNat(v, Sess) /\ IsFiniteSet(Sess)
    BY <2>1, GridSums, Bounds
  <2>4. w[s] <= Sum(w, Sess) /\ Sum(v, Sess) = (Sum(w, Sess) - w[s]) + v[s]
    BY <2>2, <2>3, SumChange
  <2> QED BY <2>1, <2>2, <2>4
<1>4. Sum(y[s], Slot) = (Sum(x[s], Slot) - x[s][t]) + y[s][t] /\ x[s][t] <= Sum(x[s], Slot)
  <2>1. PICK w, v : w = x[s] /\ v = y[s]
    OBVIOUS
  <2>2. \A u \in Slot : u # t => v[u] = w[u]
    BY <2>1 DEF OneCell
  <2>3. AllNat(w, Slot) /\ AllNat(v, Slot) /\ IsFiniteSet(Slot)
    BY <2>1, GridSums, Bounds
  <2>4. w[t] <= Sum(w, Slot) /\ Sum(v, Slot) = (Sum(w, Slot) - w[t]) + v[t]
    BY <2>2, <2>3, SumChange
  <2> QED BY <2>1, <2>4
<1> QED BY <1>1, <1>2, <1>3, <1>4

LEMMA RoomIs ==
  ASSUME NEW x \in Grid, NEW t \in Slot, NEW cap \in Nat
  PROVE  /\ RoomAt(x, t, cap) \in Nat
         /\ cap = Infinity => RoomAt(x, t, cap) = Infinity
         /\ cap # Infinity => RoomAt(x, t, cap) = IF cap > Sum(Column(x, t), Sess)
                                                 THEN cap - Sum(Column(x, t), Sess) ELSE 0
<1>1. PICK m : m = Sum(Column(x, t), Sess)
  OBVIOUS
<1>2. m \in Nat /\ Total(x, t) = m
  BY <1>1, GridSums
<1> QED BY <1>1, <1>2, Bounds DEF RoomAt, Residual

(* give: what is added to one cell comes off one need.                     *)
Gives(p, q, s, t, g) ==
  /\ q.x \in Grid /\ q.need \in [Sess -> Nat] /\ q \in [x : Grid, need : [Sess -> Nat]]
  /\ q.x[s][t] = p.x[s][t] + g /\ q.need[s] = p.need[s] - g
  /\ \A o \in Sess, u \in Slot : o # s \/ u # t => q.x[o][u] = p.x[o][u]
  /\ \A o \in Sess : o # s => q.need[o] = p.need[o]

LEMMA GiveIs ==
  ASSUME NEW vs \in Fleet, NEW cap \in Nat, NEW p \in Schedule(vs, cap), NEW s \in DOMAIN vs,
         NEW t \in Slot, NEW amount \in Nat, NEW q, q = Give(p, s, t, amount, vs[s], cap)
  PROVE  /\ q \in Schedule(vs, cap)
         /\ t >= vs[s].due => q = p
         /\ t < vs[s].due => \E g \in Nat : /\ Gives(p, q, s, t, g) /\ g <= amount /\ g <= p.need[s]
                                           /\ g \in {amount, Accepts(s, Taken(s, p.x, t)), RoomAt(p.x, t, cap), p.need[s]}
<1>1. /\ p.x \in Grid /\ p.need \in [Sess -> Nat] /\ s \in Sess /\ UnderCap(p.x, cap) /\ InTime(p.x, vs) /\ Kept(p, vs)
      /\ vs[s].due \in Nat /\ t \in Nat
  BY FleetIs, Bounds DEF Schedule
<1>2. CASE t >= vs[s].due
  BY <1>1, <1>2 DEF Give
<1>3. CASE t < vs[s].due
  <2>1. PICK a, r, n : a = Accepts(s, Taken(s, p.x, t)) /\ r = RoomAt(p.x, t, cap) /\ n = p.need[s]
    OBVIOUS
  <2>2. a \in Nat /\ r \in Nat /\ n \in Nat
    <3>1. Taken(s, p.x, t) \in Nat
      BY <1>1, TakenIs DEF Grid
    <3>2. a \in 0 .. Rate
      BY <1>1, <2>1, <3>1, AcceptsIs
    <3> QED BY <1>1, <2>1, <3>2, RoomIs, Bounds
  <2>3. PICK g : g = Min({amount, a, r, n})
    OBVIOUS
  <2>i. amount \in Int /\ a \in Int /\ r \in Int /\ n \in Int
    BY <2>2
  <2>4. g \in {amount, a, r, n} /\ g <= amount /\ g <= a /\ g <= r /\ g <= n
    BY <2>i, <2>3, MinIs4
  <2>5. g \in Nat
    BY <2>2, <2>4
  <2>6. q = [x |-> [p.x EXCEPT ![s][t] = @ + g], need |-> [p.need EXCEPT ![s] = @ - g]]
    <3>1. ~(t >= vs[s].due)
      BY <1>1, <1>3
    <3> QED BY <2>1, <2>3, <3>1 DEF Give
  <2>7. PICK x, m : x = [p.x EXCEPT ![s][t] = @ + g] /\ m = [p.need EXCEPT ![s] = @ - g]
    OBVIOUS
  <2>8. q.x = x /\ q.need = m /\ q = [x |-> x, need |-> m]
    BY <2>6, <2>7
  <2>9. m \in [Sess -> Nat] /\ m[s] = n - g /\ \A o \in Sess : o # s => m[o] = p.need[o]
    BY <1>1, <2>1, <2>2, <2>4, <2>5, <2>7
  <2>10. /\ x \in Grid /\ x[s][t] = p.x[s][t] + g
         /\ \A o \in Sess, u \in Slot : o # s \/ u # t => x[o][u] = p.x[o][u]
    BY <1>1, <2>5, <2>7 DEF Grid
  <2>11. Gives(p, q, s, t, g)
    BY <2>1, <2>8, <2>9, <2>10 DEF Gives
  <2>c. PICK w : w = p.x /\ w \in Grid /\ OneCell(w, x, s, t)
    BY <1>1, <2>10 DEF OneCell
  <2>d.  /\ Sum(Column(x, t), Sess) = (Sum(Column(w, t), Sess) - w[s][t]) + x[s][t]
         /\ \A u \in Slot : u # t => Sum(Column(x, u), Sess) = Sum(Column(w, u), Sess)
         /\ Sum(x[s], Slot) = (Sum(w[s], Slot) - w[s][t]) + x[s][t]
         /\ \A o \in Sess : o # s => x[o] = w[o]
    BY <1>1, <2>10, <2>c, CellChange
  <2>12. /\ Sum(Column(x, t), Sess) = (Sum(Column(p.x, t), Sess) - p.x[s][t]) + x[s][t]
         /\ \A u \in Slot : u # t => Sum(Column(x, u), Sess) = Sum(Column(p.x, u), Sess)
         /\ Sum(x[s], Slot) = (Sum(p.x[s], Slot) - p.x[s][t]) + x[s][t]
         /\ \A o \in Sess : o # s => x[o] = p.x[o]
    BY <2>c, <2>d
  <2>13. p.x[s][t] \in Nat /\ Sum(Column(p.x, t), Sess) \in Nat /\ Sum(p.x[s], Slot) \in Nat
    BY <1>1, GridSums DEF Grid
  <2>14. Sum(Column(x, t), Sess) = Sum(Column(p.x, t), Sess) + g /\ Sum(x[s], Slot) = Sum(p.x[s], Slot) + g
    BY <2>5, <2>10, <2>12, <2>13
  <2>15. UnderCap(x, cap)
    <3> SUFFICES ASSUME cap # Infinity, NEW u \in Slot PROVE Sum(Column(x, u), Sess) <= cap
      BY DEF UnderCap
    <3>1. CASE u # t
      BY <1>1, <2>12, <3>1 DEF UnderCap
    <3>2. CASE u = t
      <4>1. r = IF cap > Sum(Column(p.x, t), Sess) THEN cap - Sum(Column(p.x, t), Sess) ELSE 0
        BY <1>1, <2>1, RoomIs
      <4>2. Sum(Column(p.x, t), Sess) <= cap
        BY <1>1 DEF UnderCap
      <4> QED BY <2>4, <2>5, <2>13, <2>14, <3>2, <4>1, <4>2
    <3> QED BY <3>1, <3>2
  <2>16. InTime(x, vs)
    <3> SUFFICES ASSUME NEW o \in DOMAIN vs, NEW u \in Slot, u >= vs[o].due PROVE x[o][u] = 0
      BY DEF InTime
    <3>1. o # s \/ u # t
      BY <1>1, <1>3
    <3>2. o \in Sess /\ p.x[o][u] = 0
      BY <1>1, FleetIs DEF InTime
    <3> QED BY <2>10, <3>1, <3>2
  <2>17. Kept([x |-> x, need |-> m], vs)
    <3> SUFFICES ASSUME NEW o \in DOMAIN vs PROVE Sum(x[o], Slot) + m[o] = vs[o].need
      BY DEF Kept
    <3>1. Sum(p.x[o], Slot) + p.need[o] = vs[o].need /\ o \in Sess
      BY <1>1, FleetIs DEF Kept
    <3>2. CASE o # s
      BY <2>9, <2>12, <3>1, <3>2
    <3>3. CASE o = s
      BY <2>1, <2>2, <2>4, <2>5, <2>9, <2>13, <2>14, <3>1, <3>3
    <3> QED BY <3>2, <3>3
  <2>18. q \in Schedule(vs, cap)
    BY <2>8, <2>9, <2>10, <2>15, <2>16, <2>17 DEF Schedule
  <2> QED BY <1>1, <1>3, <2>1, <2>4, <2>5, <2>11, <2>18
<1> QED BY <1>1, <1>2, <1>3

(* Floors.  One vehicle is given its floor in every slot, or all it needs, *)
(* where what stands already leaves room for its floor.                    *)
Served(q, vs, s, T) == q.need[s] = 0 \/ \A t \in T : t < vs[s].due => q.x[s][t] >= vs[s].floor
Calm(p, vs, s, cap) ==
  cap = Infinity \/ \A t \in Slot : Sum(Column(p.x, t), Sess) + vs[s].floor <= cap
Bears(v, s) == s \in Declared => v.need <= Rate \/ v.floor <= Least
SameBut(p, q, s) == \A o \in Sess : o # s => q.x[o] = p.x[o] /\ q.need[o] = p.need[o]
Floored(p, vs, cap, s, T) ==
  {q \in Schedule(vs, cap) :
     /\ SameBut(p, q, s)
     /\ \A t \in Slot : q.x[s][t] <= vs[s].floor
     /\ \A t \in Slot \ T : q.x[s][t] = 0
     /\ Bears(vs[s], s) /\ Calm(p, vs, s, cap) => Served(q, vs, s, T)}

LEMMA InfinityIs == Infinity >= Rate
<1>1. PICK n, r : n = NSess /\ r = Rate
  OBVIOUS
<1>2. n \in Nat \ {0} /\ r \in Nat /\ Infinity \in Nat /\ Infinity >= n * r
  BY <1>1, PlanAssumption
<1>3. n * r >= r
  <2>1. PICK m \in Nat : n = m + 1
    BY <1>2
  <2>2. n * r = m * r + r /\ m * r \in Nat
    BY <1>2, <2>1
  <2> QED BY <1>2, <2>2
<1>4. n * r \in Nat
  BY <1>2
<1> QED BY <1>1, <1>2, <1>3, <1>4

LEMMA FloorGive ==
  ASSUME NEW vs \in Fleet, NEW cap \in Nat, NEW p \in Schedule(vs, cap), NEW s \in DOMAIN vs,
         \A t \in Slot : p.x[s][t] = 0,
         NEW R \in SUBSET Slot, NEW t \in Slot \ R, NEW a \in Floored(p, vs, cap, s, R)
  PROVE  Give(a, s, t, Min({vs[s].floor, Rate}), vs[s], cap) \in Floored(p, vs, cap, s, R \cup {t})
<1>1. PICK f, d : f = vs[s].floor /\ d = vs[s].due
  OBVIOUS
<1>2. f \in Nat /\ f <= Rate /\ d \in Nat /\ Rate \in Nat /\ Rate \in Int /\ f \in Int /\ s \in Sess
  BY <1>1, FleetIs, Bounds
<1>3. Min({vs[s].floor, Rate}) = f
  BY <1>1, <1>2, MinIs2
<1>4. /\ a \in Schedule(vs, cap) /\ SameBut(p, a, s)
      /\ \A u \in Slot : a.x[s][u] <= f
      /\ \A u \in Slot \ R : a.x[s][u] = 0
      /\ Bears(vs[s], s) /\ Calm(p, vs, s, cap) => Served(a, vs, s, R)
  BY <1>1 DEF Floored
<1>5. PICK q : q = Give(a, s, t, f, vs[s], cap)
  OBVIOUS
<1>6. /\ q \in Schedule(vs, cap)
      /\ t >= d => q = a
      /\ t < d => \E g \in Nat : /\ Gives(a, q, s, t, g) /\ g <= f /\ g <= a.need[s]
                                /\ g \in {f, Accepts(s, Taken(s, a.x, t)), RoomAt(a.x, t, cap), a.need[s]}
  <2>1. /\ q \in Schedule(vs, cap)
        /\ t >= vs[s].due => q = a
        /\ t < vs[s].due => \E g \in Nat : /\ Gives(a, q, s, t, g) /\ g <= f /\ g <= a.need[s]
                                          /\ g \in {f, Accepts(s, Taken(s, a.x, t)), RoomAt(a.x, t, cap), a.need[s]}
    <3>1. a \in Schedule(vs, cap) /\ f \in Nat /\ t \in Slot /\ q = Give(a, s, t, f, vs[s], cap)
      BY <1>2, <1>4, <1>5
    <3> QED BY <3>1, GiveIs
  <2> QED BY <1>1, <2>1
<1>7. a.x \in Grid /\ a.need \in [Sess -> Nat] /\ t \in Slot /\ t \in Nat
  BY <1>4, Bounds DEF Schedule
<1>8. CASE t >= d
  <2>1. q = a
    BY <1>6, <1>8
  <2>2. Bears(vs[s], s) /\ Calm(p, vs, s, cap) => Served(a, vs, s, R \cup {t})
    BY <1>1, <1>2, <1>4, <1>7, <1>8 DEF Served
  <2>3. q \in Floored(p, vs, cap, s, R \cup {t})
    BY <1>1, <1>4, <2>1, <2>2 DEF Floored
  <2> QED BY <1>3, <1>5, <2>3
<1>9. CASE t < d
  <2>1. PICK g \in Nat : /\ Gives(a, q, s, t, g) /\ g <= f /\ g <= a.need[s]
                         /\ g \in {f, Accepts(s, Taken(s, a.x, t)), RoomAt(a.x, t, cap), a.need[s]}
    BY <1>6, <1>9
  <2>2. /\ q.x \in Grid /\ q.need \in [Sess -> Nat] /\ q.need[s] = a.need[s] - g
        /\ \A o \in Sess, u \in Slot : o # s \/ u # t => q.x[o][u] = a.x[o][u]
        /\ \A o \in Sess : o # s => q.need[o] = a.need[o]
    BY <2>1 DEF Gives
  <2>3. q.x[s][t] = g
    <3>1. a.x[s][t] = 0 /\ q.x[s][t] = a.x[s][t] + g
      BY <1>4, <2>1 DEF Gives
    <3> QED BY <3>1
  <2>4. SameBut(p, q, s)
    <3>1. ASSUME NEW o \in Sess, o # s PROVE q.x[o] = p.x[o] /\ q.need[o] = p.need[o]
      <4>1. q.x[o] = a.x[o]
        <5>1. q.x[o] \in [Slot -> Nat] /\ a.x[o] \in [Slot -> Nat]
          BY <1>7, <2>2 DEF Grid
        <5>2. \A u \in Slot : q.x[o][u] = a.x[o][u]
          BY <2>2, <3>1
        <5> QED BY <5>1, <5>2
      <4> QED BY <1>4, <2>2, <3>1, <4>1 DEF SameBut
    <3> QED BY <3>1 DEF SameBut
  <2>5. \A u \in Slot : q.x[s][u] <= f
    BY <1>2, <1>4, <2>1, <2>2, <2>3
  <2>6. \A u \in Slot \ (R \cup {t}) : q.x[s][u] = 0
    BY <1>2, <1>4, <2>2
  <2>7. ASSUME Bears(vs[s], s), Calm(p, vs, s, cap) PROVE Served(q, vs, s, R \cup {t})
    <3>1. Served(a, vs, s, R)
      BY <1>4, <2>7
    <3>2. a.need[s] \in Nat /\ q.need[s] \in Nat
      BY <1>2, <1>7, <2>2
    <3>3. CASE g = f
      <4>1. CASE a.need[s] = 0
        BY <2>1, <2>2, <3>2, <4>1 DEF Served
      <4>2. CASE a.need[s] # 0
        <5>1. \A u \in R : u < d => a.x[s][u] >= f
          BY <1>1, <3>1, <4>2 DEF Served
        <5>2. \A u \in R \cup {t} : u < d => q.x[s][u] >= f
          BY <1>2, <2>2, <2>3, <3>3, <5>1
        <5> QED BY <1>1, <5>2 DEF Served
      <4> QED BY <4>1, <4>2
    <3>4. CASE g = a.need[s]
      BY <2>2, <3>2, <3>4 DEF Served
    <3>5. Accepts(s, Taken(s, a.x, t)) >= f \/ Accepts(s, Taken(s, a.x, t)) >= a.need[s]
      <4>1. PICK k, y, n, m : /\ k = Taken(s, a.x, t) /\ y = Accepts(s, k)
                              /\ n = a.need[s] /\ m = Sum(a.x[s], Slot)
        OBVIOUS
      <4>2. k \in Nat /\ k <= m /\ m \in Nat
        BY <1>2, <1>7, <4>1, TakenIs, GridSums DEF Grid
      <4>3. m + n = vs[s].need /\ n \in Nat
        BY <1>4, <3>2, <4>1 DEF Schedule, Kept
      <4>4. /\ s \notin Declared => y = Rate
            /\ s \in Declared => y = IF Least >= Rate - k THEN Least ELSE Rate - k
        BY <1>2, <4>1, <4>2, AcceptsIs
      <4>5. s \in Declared => m + n <= Rate \/ f <= Least
        BY <1>1, <2>7, <4>3 DEF Bears
      <4>6. y >= f \/ y >= n
        BY <1>2, <4>2, <4>3, <4>4, <4>5, Bounds
      <4> QED BY <4>1, <4>6
    <3>6. CASE g = Accepts(s, Taken(s, a.x, t))
      BY <1>2, <2>1, <3>2, <3>3, <3>4, <3>5, <3>6
    <3>7. CASE g = RoomAt(a.x, t, cap)
      <4>1. g >= f
        <5>1. CASE cap = Infinity
          <6>1. g = Infinity
            BY <1>7, <3>7, <5>1, RoomIs
          <6> QED BY <1>2, <6>1, InfinityIs, Bounds
        <5>2. CASE cap # Infinity
          <6>1. Column(a.x, t) = Column(p.x, t)
            <7>1. \A o \in Sess : a.x[o][t] = p.x[o][t]
              BY <1>4 DEF SameBut
            <7> QED BY <7>1 DEF Column
          <6>2. Sum(Column(a.x, t), Sess) + f <= cap
            BY <1>1, <2>7, <5>2, <6>1 DEF Calm
          <6>3. Sum(Column(a.x, t), Sess) \in Nat
            BY <1>7, GridSums
          <6>4. g = IF cap > Sum(Column(a.x, t), Sess) THEN cap - Sum(Column(a.x, t), Sess) ELSE 0
            BY <1>7, <3>7, <5>2, RoomIs
          <6> QED BY <1>2, <6>2, <6>3, <6>4
        <5> QED BY <5>1, <5>2
      <4> QED BY <1>2, <2>1, <3>3, <4>1
    <3> QED BY <2>1, <3>3, <3>4, <3>6, <3>7
  <2>8. q \in Floored(p, vs, cap, s, R \cup {t})
    <3>1. Bears(vs[s], s) /\ Calm(p, vs, s, cap) => Served(q, vs, s, R \cup {t})
      BY <2>7
    <3> QED BY <1>1, <1>6, <2>4, <2>5, <2>6, <3>1 DEF Floored
  <2> QED BY <1>3, <1>5, <2>8
<1> QED BY <1>2, <1>7, <1>8, <1>9

LEMMA FloorOfIs ==
  ASSUME NEW vs \in Fleet, NEW cap \in Nat, NEW p \in Schedule(vs, cap), NEW s \in DOMAIN vs,
         \A t \in Slot : p.x[s][t] = 0
  PROVE  FloorOf(p, s, vs, cap) \in Floored(p, vs, cap, s, Slot)
<1>1. PICK S, last : S = Slot /\ last = LastIn(ById, S)
  OBVIOUS
<1>2. S \in SUBSET Slot /\ IsFiniteSet(S) /\ Picks(last, S)
  BY <1>1, Bounds, IdPicks
<1> DEFINE Op(a, i) == Give(a, s, i, Min({vs[s].floor, Rate}), vs[s], cap)
           G(T) == Floored(p, vs, cap, s, T)
<1>3. p \in G({})
  <2>1. SameBut(p, p, s) /\ Served(p, vs, s, {})
    BY DEF SameBut, Served
  <2>2. vs[s].floor \in Nat
    BY FleetIs
  <2> QED BY <2>1, <2>2 DEF Floored
<1>4. ASSUME NEW R \in SUBSET S, NEW i \in S \ R, NEW a \in G(R) PROVE Op(a, i) \in G(R \cup {i})
  <2>1. R \in SUBSET Slot /\ i \in Slot \ R
    BY <1>2
  <2> QED BY <2>1, FloorGive
<1> HIDE DEF Op, G
<1>l. last = LastIn(ById, S) /\ Picks(last, S)
  BY <1>1, <1>2
<1>5. PICK Good : Good = [T \in SUBSET S |-> G(T)]
  OBVIOUS
<1>a. PICK step : step = [i \in S |-> [a \in UNION {Good[T] : T \in SUBSET S} |-> Op(a, i)]]
  OBVIOUS
<1>b. ASSUME NEW T \in SUBSET S, T # {}
      PROVE  /\ last[T] \in S \ But(T, last) /\ But(T, last) \in SUBSET S /\ But(T, last) \cup {last[T]} = T
             /\ LastOf(ById, T) = last[T] /\ T \ {last[T]} = But(T, last)
             /\ Good[But(T, last)] = G(But(T, last)) /\ Good[T] = G(T)
  <2>1. /\ last[T] \in S /\ last[T] \notin But(T, last) /\ But(T, last) \in SUBSET S
        /\ LastOf(ById, T) = last[T] /\ T \ {last[T]} = But(T, last)
    BY <1>l, <1>b, LoopIs
  <2>2. last[T] \in T
    BY <1>l, <1>b DEF Picks
  <2> QED BY <1>5, <2>1, <2>2
<1>s. ASSUME NEW T \in SUBSET S, T # {}, NEW a \in Good[But(T, last)]
      PROVE  step[last[T]][a] = Op(a, last[T])
  <2>1. a \in UNION {Good[R] : R \in SUBSET S} /\ last[T] \in S
    BY <1>b, <1>s
  <2> QED BY <1>a, <2>1
<1>6. p \in Good[{}] /\ StepKeeps(last, step, S, Good)
  <2>1. p \in Good[{}]
    BY <1>3, <1>5
  <2>2. ASSUME NEW T \in SUBSET S, T # {}, NEW a \in Good[But(T, last)] PROVE step[last[T]][a] \in Good[T]
    BY <1>4, <1>b, <1>s, <2>2
  <2> QED BY <2>1, <2>2 DEF StepKeeps
<1>7. PICK g : IsFold(g, S, last, p, step) /\ \A T \in SUBSET S : g[T] \in Good[T]
  BY <1>2, <1>6, FoldGood
<1> DEFINE Adds(k) == k = [T \in SUBSET S |-> IF T = {} THEN p ELSE Op(k[T \ {LastOf(ById, T)}], LastOf(ById, T))]
<1>8. Adds(g)
  <2>1. ASSUME NEW T \in SUBSET S, T # {}
        PROVE  step[last[T]][g[But(T, last)]] = Op(g[T \ {LastOf(ById, T)}], LastOf(ById, T))
    <3>1. T \ {LastOf(ById, T)} = But(T, last) /\ LastOf(ById, T) = last[T]
      BY <1>b, <2>1
    <3>2. g[But(T, last)] \in Good[But(T, last)]
      BY <1>7, <1>b, <2>1
    <3>3. step[last[T]][g[But(T, last)]] = Op(g[But(T, last)], last[T])
      BY <1>s, <2>1, <3>2
    <3> QED BY <3>1, <3>3
  <2> QED BY <1>7, <2>1 DEF IsFold
<1>9. PICK h : h = (CHOOSE k : Adds(k))
  OBVIOUS
<1>10. Adds(h)
  BY <1>8, <1>9
<1>11. Follows(h, last, p, step, S, Good)
  <2>1. h[{}] = p
    BY <1>10
  <2>2. ASSUME NEW T \in SUBSET S, T # {}, h[But(T, last)] \in Good[But(T, last)]
        PROVE  h[T] = step[last[T]][h[But(T, last)]]
    <3>1. T \ {LastOf(ById, T)} = But(T, last) /\ LastOf(ById, T) = last[T]
      BY <1>b, <2>2
    <3>2. h[T] = Op(h[T \ {LastOf(ById, T)}], LastOf(ById, T))
      BY <1>10, <2>2
    <3>3. h[T] = Op(h[But(T, last)], last[T])
      BY <3>1, <3>2
    <3> QED BY <1>s, <2>2, <3>3
  <2> QED BY <2>1, <2>2 DEF Follows
<1>12. \A T \in SUBSET S : h[T] \in Good[T]
  BY <1>2, <1>6, <1>11, FoldKeeps
<1>13. h[S] \in G(S)
  BY <1>5, <1>12
<1>14. FloorOf(p, s, vs, cap) = h[S]
  BY <1>1, <1>9 DEF FloorOf, InOrder, MapThenFoldSet, Op
<1> QED BY <1>1, <1>13, <1>14 DEF G

(* After the floors pass: floors that fit the cap together are all served. *)
Promised(vs, cap, R) ==
  {q \in Schedule(vs, cap) :
     /\ \A o \in Sess \ R, t \in Slot : q.x[o][t] = 0
     /\ \A o \in R, t \in Slot : q.x[o][t] <= vs[o].floor
     /\ Sum(FloorsOf(vs), DOMAIN vs) <= cap => \A o \in R : Bears(vs[o], o) => Served(q, vs, o, Slot)}

LEMMA FleetSums ==
  ASSUME NEW vs \in Fleet
  PROVE  \A S \in SUBSET DOMAIN vs : /\ IsFiniteSet(S) /\ AllNat(FloorsOf(vs), S)
                                     /\ Sum(FloorsOf(vs), S) \in Nat
<1>1. ASSUME NEW S \in SUBSET DOMAIN vs PROVE IsFiniteSet(S) /\ AllNat(FloorsOf(vs), S)
  <2>1. \A s \in S : FloorsOf(vs)[s] \in Nat
    BY FleetIs DEF FloorsOf
  <2> QED BY <2>1, FleetIs, FS_Subset DEF AllNat
<1> QED BY <1>1, SumNat

LEMMA FloorsStep ==
  ASSUME NEW vs \in Fleet, NEW cap \in Nat, NEW R \in SUBSET DOMAIN vs, NEW s \in DOMAIN vs \ R,
         NEW a \in Promised(vs, cap, R)
  PROVE  FloorOf(a, s, vs, cap) \in Promised(vs, cap, R \cup {s})
<1>1. /\ a \in Schedule(vs, cap) /\ a.x \in Grid
      /\ \A o \in Sess \ R, t \in Slot : a.x[o][t] = 0
      /\ \A o \in R, t \in Slot : a.x[o][t] <= vs[o].floor
      /\ Sum(FloorsOf(vs), DOMAIN vs) <= cap => \A o \in R : Bears(vs[o], o) => Served(a, vs, o, Slot)
  BY DEF Promised, Schedule
<1>2. s \in Sess /\ s \in DOMAIN vs /\ R \in SUBSET Sess /\ DOMAIN vs \in SUBSET Sess
  BY FleetIs
<1>3. PICK q : q = FloorOf(a, s, vs, cap)
  OBVIOUS
<1>4. q \in Floored(a, vs, cap, s, Slot)
  <2>1. \A t \in Slot : a.x[s][t] = 0
    BY <1>1, <1>2
  <2> QED BY <1>1, <1>2, <1>3, <2>1, FloorOfIs
<1>5. /\ q \in Schedule(vs, cap) /\ SameBut(a, q, s)
      /\ \A t \in Slot : q.x[s][t] <= vs[s].floor
      /\ Bears(vs[s], s) /\ Calm(a, vs, s, cap) => Served(q, vs, s, Slot)
  BY <1>4 DEF Floored
<1>6. ASSUME NEW o \in Sess \ (R \cup {s}), NEW t \in Slot PROVE q.x[o][t] = 0
  BY <1>1, <1>5 DEF SameBut
<1>7. ASSUME NEW o \in R \cup {s}, NEW t \in Slot PROVE q.x[o][t] <= vs[o].floor
  <2>1. CASE o = s
    BY <1>5, <2>1
  <2>2. CASE o # s
    <3>1. o \in R /\ o \in Sess
      BY <1>2, <2>2
    <3>2. q.x[o] = a.x[o]
      BY <1>5, <2>2, <3>1 DEF SameBut
    <3> QED BY <1>1, <3>1, <3>2
  <2> QED BY <2>1, <2>2
<1>8. ASSUME Sum(FloorsOf(vs), DOMAIN vs) <= cap PROVE Calm(a, vs, s, cap)
  <2> SUFFICES ASSUME NEW t \in Slot PROVE Sum(Column(a.x, t), Sess) + vs[s].floor <= cap
    BY DEF Calm
  <2>1. PICK w, v, S : w = Column(a.x, t) /\ v = FloorsOf(vs) /\ S = DOMAIN vs \ {s}
    OBVIOUS
  <2>2. IsFiniteSet(Sess) /\ IsFiniteSet(S) /\ AllNat(w, Sess) /\ AllNat(v, S) /\ S \in SUBSET DOMAIN vs
    BY <1>1, <2>1, GridSums, FleetSums, Bounds
  <2>3. Covers(w, v, Sess, S)
    <3> SUFFICES ASSUME NEW o \in Sess PROVE /\ o \in S => w[o] <= v[o]
                                             /\ o \notin S => w[o] = 0
      BY DEF Covers
    <3>1. w[o] = a.x[o][t]
      BY <2>1 DEF Column
    <3>2. CASE o \in R
      BY <1>1, <2>1, <3>1, <3>2 DEF FloorsOf
    <3>3. CASE o \notin R
      <4>1. w[o] = 0
        BY <1>1, <3>1, <3>3
      <4>2. o \in S => v[o] \in Nat
        BY <2>2 DEF AllNat
      <4> QED BY <4>1, <4>2
    <3> QED BY <3>2, <3>3
  <2>4. Sum(w, Sess) <= Sum(v, S)
    BY <2>2, <2>3, SumAtMost
  <2>5. IsFiniteSet(DOMAIN vs) /\ AllNat(v, DOMAIN vs)
    BY <2>1, FleetSums
  <2>6. Sum(v, S) \in Nat /\ v[s] \in Nat /\ Sum(v, DOMAIN vs) = v[s] + Sum(v, S)
    BY <1>2, <2>1, <2>5, SumStep
  <2>7. v[s] = vs[s].floor /\ Sum(w, Sess) \in Nat
    BY <1>1, <1>2, <2>1, GridSums DEF FloorsOf
  <2>8. Sum(v, DOMAIN vs) <= cap
    BY <1>8, <2>1
  <2> QED BY <2>1, <2>4, <2>6, <2>7, <2>8
<1>9. ASSUME Sum(FloorsOf(vs), DOMAIN vs) <= cap, NEW o \in R \cup {s}, Bears(vs[o], o)
      PROVE  Served(q, vs, o, Slot)
  <2>1. CASE o = s
    BY <1>5, <1>8, <1>9, <2>1
  <2>2. CASE o # s
    <3>1. o \in R /\ o \in Sess
      BY <1>2, <1>9, <2>2
    <3>2. q.x[o] = a.x[o] /\ q.need[o] = a.need[o]
      BY <1>5, <2>2, <3>1 DEF SameBut
    <3>3. Served(a, vs, o, Slot)
      BY <1>1, <1>9, <3>1
    <3> QED BY <3>2, <3>3 DEF Served
  <2> QED BY <2>1, <2>2
<1>10. q \in Promised(vs, cap, R \cup {s})
  BY <1>5, <1>6, <1>7, <1>9 DEF Promised
<1> QED BY <1>3, <1>10

LEMMA FloorsIs ==
  ASSUME NEW vs \in Fleet, NEW cap \in Nat, NEW p \in Schedule(vs, cap),
         \A s \in Sess, t \in Slot : p.x[s][t] = 0
  PROVE  Floors(p, vs, cap) \in Promised(vs, cap, DOMAIN vs)
<1>1. PICK S, last : S = DOMAIN vs /\ last = LastIn(ById, S)
  OBVIOUS
<1>2. S \in SUBSET Sess /\ IsFiniteSet(S) /\ Picks(last, S)
  BY <1>1, FleetIs, IdPicks
<1> DEFINE Op(a, i) == FloorOf(a, i, vs, cap)
           G(T) == Promised(vs, cap, T)
<1>3. p \in G({})
  BY DEF Promised
<1>4. ASSUME NEW R \in SUBSET S, NEW i \in S \ R, NEW a \in G(R) PROVE Op(a, i) \in G(R \cup {i})
  <2>1. R \in SUBSET DOMAIN vs /\ i \in DOMAIN vs \ R
    BY <1>1
  <2> QED BY <2>1, FloorsStep
<1> HIDE DEF Op, G
<1>l. last = LastIn(ById, S) /\ Picks(last, S)
  BY <1>1, <1>2
<1>5. PICK Good : Good = [T \in SUBSET S |-> G(T)]
  OBVIOUS
<1>a. PICK step : step = [i \in S |-> [a \in UNION {Good[T] : T \in SUBSET S} |-> Op(a, i)]]
  OBVIOUS
<1>b. ASSUME NEW T \in SUBSET S, T # {}
      PROVE  /\ last[T] \in S \ But(T, last) /\ But(T, last) \in SUBSET S /\ But(T, last) \cup {last[T]} = T
             /\ LastOf(ById, T) = last[T] /\ T \ {last[T]} = But(T, last)
             /\ Good[But(T, last)] = G(But(T, last)) /\ Good[T] = G(T)
  <2>1. /\ last[T] \in S /\ last[T] \notin But(T, last) /\ But(T, last) \in SUBSET S
        /\ LastOf(ById, T) = last[T] /\ T \ {last[T]} = But(T, last)
    BY <1>l, <1>b, LoopIs
  <2>2. last[T] \in T
    BY <1>l, <1>b DEF Picks
  <2> QED BY <1>5, <2>1, <2>2
<1>s. ASSUME NEW T \in SUBSET S, T # {}, NEW a \in Good[But(T, last)]
      PROVE  step[last[T]][a] = Op(a, last[T])
  <2>1. a \in UNION {Good[R] : R \in SUBSET S} /\ last[T] \in S
    BY <1>b, <1>s
  <2> QED BY <1>a, <2>1
<1>6. p \in Good[{}] /\ StepKeeps(last, step, S, Good)
  <2>1. p \in Good[{}]
    BY <1>3, <1>5
  <2>2. ASSUME NEW T \in SUBSET S, T # {}, NEW a \in Good[But(T, last)] PROVE step[last[T]][a] \in Good[T]
    BY <1>4, <1>b, <1>s, <2>2
  <2> QED BY <2>1, <2>2 DEF StepKeeps
<1>7. PICK g : IsFold(g, S, last, p, step) /\ \A T \in SUBSET S : g[T] \in Good[T]
  BY <1>2, <1>6, FoldGood
<1> DEFINE Adds(k) == k = [T \in SUBSET S |-> IF T = {} THEN p ELSE Op(k[T \ {LastOf(ById, T)}], LastOf(ById, T))]
<1>8. Adds(g)
  <2>1. ASSUME NEW T \in SUBSET S, T # {}
        PROVE  step[last[T]][g[But(T, last)]] = Op(g[T \ {LastOf(ById, T)}], LastOf(ById, T))
    <3>1. T \ {LastOf(ById, T)} = But(T, last) /\ LastOf(ById, T) = last[T]
      BY <1>b, <2>1
    <3>2. g[But(T, last)] \in Good[But(T, last)]
      BY <1>7, <1>b, <2>1
    <3>3. step[last[T]][g[But(T, last)]] = Op(g[But(T, last)], last[T])
      BY <1>s, <2>1, <3>2
    <3> QED BY <3>1, <3>3
  <2> QED BY <1>7, <2>1 DEF IsFold
<1>9. PICK h : h = (CHOOSE k : Adds(k))
  OBVIOUS
<1>10. Adds(h)
  BY <1>8, <1>9
<1>11. Follows(h, last, p, step, S, Good)
  <2>1. h[{}] = p
    BY <1>10
  <2>2. ASSUME NEW T \in SUBSET S, T # {}, h[But(T, last)] \in Good[But(T, last)]
        PROVE  h[T] = step[last[T]][h[But(T, last)]]
    <3>1. T \ {LastOf(ById, T)} = But(T, last) /\ LastOf(ById, T) = last[T]
      BY <1>b, <2>2
    <3>2. h[T] = Op(h[T \ {LastOf(ById, T)}], LastOf(ById, T))
      BY <1>10, <2>2
    <3>3. h[T] = Op(h[But(T, last)], last[T])
      BY <3>1, <3>2
    <3> QED BY <1>s, <2>2, <3>3
  <2> QED BY <2>1, <2>2 DEF Follows
<1>12. \A T \in SUBSET S : h[T] \in Good[T]
  BY <1>2, <1>6, <1>11, FoldKeeps
<1>13. h[S] \in G(S)
  BY <1>5, <1>12
<1>14. Floors(p, vs, cap) = h[S]
  BY <1>1, <1>9 DEF Floors, InOrder, MapThenFoldSet, Op
<1> QED BY <1>1, <1>13, <1>14 DEF G

-----------------------------------------------------------------------------
(* Filling.  Nothing that was given is taken back.                         *)
Grown(p, vs, cap) ==
  {q \in Schedule(vs, cap) :
     \A s \in Sess : q.need[s] <= p.need[s] /\ \A t \in Slot : q.x[s][t] >= p.x[s][t]}

LEMMA GiveGrows ==
  ASSUME NEW vs \in Fleet, NEW cap \in Nat, NEW p \in Schedule(vs, cap), NEW a \in Grown(p, vs, cap),
         NEW s \in DOMAIN vs, NEW t \in Slot
  PROVE  Give(a, s, t, Rate, vs[s], cap) \in Grown(p, vs, cap)
<1>1. PICK q : q = Give(a, s, t, Rate, vs[s], cap)
  OBVIOUS
<1>2. /\ a \in Schedule(vs, cap) /\ a.x \in Grid /\ a.need \in [Sess -> Nat]
      /\ \A o \in Sess : a.need[o] <= p.need[o] /\ \A u \in Slot : a.x[o][u] >= p.x[o][u]
  BY DEF Grown, Schedule
<1>3. p.x \in Grid /\ p.need \in [Sess -> Nat] /\ Rate \in Nat /\ vs[s].due \in Nat /\ t \in Nat /\ s \in Sess
  BY FleetIs, Bounds DEF Schedule
<1>4. /\ q \in Schedule(vs, cap)
      /\ t >= vs[s].due => q = a
      /\ t < vs[s].due => \E g \in Nat : Gives(a, q, s, t, g)
  BY <1>1, <1>2, <1>3, GiveIs
<1>5. CASE q = a
  BY <1>1, <1>5
<1>6. ASSUME NEW g \in Nat, Gives(a, q, s, t, g) PROVE q \in Grown(p, vs, cap)
  <2>1. /\ q.x[s][t] = a.x[s][t] + g /\ q.need[s] = a.need[s] - g
        /\ \A o \in Sess, u \in Slot : o # s \/ u # t => q.x[o][u] = a.x[o][u]
        /\ \A o \in Sess : o # s => q.need[o] = a.need[o]
    BY <1>6 DEF Gives
  <2>2. ASSUME NEW o \in Sess PROVE q.need[o] <= p.need[o]
    <3>1. a.need[o] \in Nat /\ p.need[o] \in Nat
      BY <1>2, <1>3
    <3> QED BY <1>2, <2>1, <3>1
  <2>3. ASSUME NEW o \in Sess, NEW u \in Slot PROVE q.x[o][u] >= p.x[o][u]
    <3>1. a.x[o][u] \in Nat /\ p.x[o][u] \in Nat /\ a.x[o][u] >= p.x[o][u]
      BY <1>2, <1>3 DEF Grid
    <3> QED BY <2>1, <3>1
  <2> QED BY <1>4, <2>2, <2>3 DEF Grown
<1> QED BY <1>1, <1>3, <1>4, <1>5, <1>6

Dues(vs) == [s \in DOMAIN vs |-> vs[s].due]

LEMMA FillSlotIs ==
  ASSUME NEW vs \in Fleet, NEW cap \in Nat, NEW p \in Schedule(vs, cap), NEW q \in Grown(p, vs, cap),
         NEW t \in Slot
  PROVE  FillSlot(q, t, vs, cap) \in Grown(p, vs, cap)
<1>1. PICK S, last : S = DOMAIN vs /\ last = LastIn(Dues(vs), S)
  OBVIOUS
<1>2. IsFiniteSet(S) /\ Picks(last, S)
  <2>1. S \in SUBSET Int /\ IsFiniteSet(S)
    BY <1>1, FleetIs
  <2>2. \A s \in S : Dues(vs)[s] \in Int
    BY <1>1, FleetIs DEF Dues
  <2> QED BY <1>1, <2>1, <2>2, LastPicks
<1> DEFINE Op(a, i) == Give(a, i, t, Rate, vs[i], cap)
           G(T) == Grown(p, vs, cap)
<1>3. q \in G({})
  OBVIOUS
<1>4. ASSUME NEW R \in SUBSET S, NEW i \in S \ R, NEW a \in G(R) PROVE Op(a, i) \in G(R \cup {i})
  <2>1. i \in DOMAIN vs
    BY <1>1
  <2> QED BY <2>1, GiveGrows
<1> HIDE DEF Op, G
<1>l. last = LastIn(Dues(vs), S) /\ Picks(last, S)
  BY <1>1, <1>2
<1>5. PICK Good : Good = [T \in SUBSET S |-> G(T)]
  OBVIOUS
<1>a. PICK step : step = [i \in S |-> [a \in UNION {Good[T] : T \in SUBSET S} |-> Op(a, i)]]
  OBVIOUS
<1>b. ASSUME NEW T \in SUBSET S, T # {}
      PROVE  /\ last[T] \in S \ But(T, last) /\ But(T, last) \in SUBSET S /\ But(T, last) \cup {last[T]} = T
             /\ LastOf(Dues(vs), T) = last[T] /\ T \ {last[T]} = But(T, last)
             /\ Good[But(T, last)] = G(But(T, last)) /\ Good[T] = G(T)
  <2>1. /\ last[T] \in S /\ last[T] \notin But(T, last) /\ But(T, last) \in SUBSET S
        /\ LastOf(Dues(vs), T) = last[T] /\ T \ {last[T]} = But(T, last)
    BY <1>l, <1>b, LoopIs
  <2>2. last[T] \in T
    BY <1>l, <1>b DEF Picks
  <2> QED BY <1>5, <2>1, <2>2
<1>s. ASSUME NEW T \in SUBSET S, T # {}, NEW a \in Good[But(T, last)]
      PROVE  step[last[T]][a] = Op(a, last[T])
  <2>1. a \in UNION {Good[R] : R \in SUBSET S} /\ last[T] \in S
    BY <1>b, <1>s
  <2> QED BY <1>a, <2>1
<1>6. q \in Good[{}] /\ StepKeeps(last, step, S, Good)
  <2>1. q \in Good[{}]
    BY <1>3, <1>5
  <2>2. ASSUME NEW T \in SUBSET S, T # {}, NEW a \in Good[But(T, last)] PROVE step[last[T]][a] \in Good[T]
    BY <1>4, <1>b, <1>s, <2>2
  <2> QED BY <2>1, <2>2 DEF StepKeeps
<1>7. PICK g : IsFold(g, S, last, q, step) /\ \A T \in SUBSET S : g[T] \in Good[T]
  BY <1>2, <1>6, FoldGood
<1> DEFINE Adds(k) == k = [T \in SUBSET S |-> IF T = {} THEN q ELSE Op(k[T \ {LastOf(Dues(vs), T)}], LastOf(Dues(vs), T))]
<1>8. Adds(g)
  <2>1. ASSUME NEW T \in SUBSET S, T # {}
        PROVE  step[last[T]][g[But(T, last)]] = Op(g[T \ {LastOf(Dues(vs), T)}], LastOf(Dues(vs), T))
    <3>1. T \ {LastOf(Dues(vs), T)} = But(T, last) /\ LastOf(Dues(vs), T) = last[T]
      BY <1>b, <2>1
    <3>2. g[But(T, last)] \in Good[But(T, last)]
      BY <1>7, <1>b, <2>1
    <3>3. step[last[T]][g[But(T, last)]] = Op(g[But(T, last)], last[T])
      BY <1>s, <2>1, <3>2
    <3> QED BY <3>1, <3>3
  <2> QED BY <1>7, <2>1 DEF IsFold
<1>9. PICK h : h = (CHOOSE k : Adds(k))
  OBVIOUS
<1>10. Adds(h)
  BY <1>8, <1>9
<1>11. Follows(h, last, q, step, S, Good)
  <2>1. h[{}] = q
    BY <1>10
  <2>2. ASSUME NEW T \in SUBSET S, T # {}, h[But(T, last)] \in Good[But(T, last)]
        PROVE  h[T] = step[last[T]][h[But(T, last)]]
    <3>1. T \ {LastOf(Dues(vs), T)} = But(T, last) /\ LastOf(Dues(vs), T) = last[T]
      BY <1>b, <2>2
    <3>2. h[T] = Op(h[T \ {LastOf(Dues(vs), T)}], LastOf(Dues(vs), T))
      BY <1>10, <2>2
    <3>3. h[T] = Op(h[But(T, last)], last[T])
      BY <3>1, <3>2
    <3> QED BY <1>s, <2>2, <3>3
  <2> QED BY <2>1, <2>2 DEF Follows
<1>12. \A T \in SUBSET S : h[T] \in Good[T]
  BY <1>2, <1>6, <1>11, FoldKeeps
<1>13. h[S] \in G(S)
  BY <1>5, <1>12
<1>14. FillSlot(q, t, vs, cap) = h[S]
  BY <1>1, <1>9 DEF FillSlot, Dues, InOrder, MapThenFoldSet, Op
<1> QED BY <1>13, <1>14 DEF G

LEMMA FillIs ==
  ASSUME NEW vs \in Fleet, NEW cap \in Nat, NEW p \in Schedule(vs, cap)
  PROVE  Fill(p, vs, cap) \in Grown(p, vs, cap)
<1>1. PICK S, last : S = Slot /\ last = LastIn(ById, S)
  OBVIOUS
<1>2. S \in SUBSET Slot /\ IsFiniteSet(S) /\ Picks(last, S)
  BY <1>1, Bounds, IdPicks
<1> DEFINE Op(a, i) == FillSlot(a, i, vs, cap)
           G(T) == Grown(p, vs, cap)
<1>3. p \in G({})
  <2>1. p.x \in Grid /\ p.need \in [Sess -> Nat]
    BY DEF Schedule
  <2>2. \A s \in Sess : p.need[s] <= p.need[s] /\ \A t \in Slot : p.x[s][t] >= p.x[s][t]
    BY <2>1 DEF Grid
  <2> QED BY <2>2 DEF Grown
<1>4. ASSUME NEW R \in SUBSET S, NEW i \in S \ R, NEW a \in G(R) PROVE Op(a, i) \in G(R \cup {i})
  <2>1. i \in Slot
    BY <1>1
  <2> QED BY <2>1, FillSlotIs
<1> HIDE DEF Op, G
<1>l. last = LastIn(ById, S) /\ Picks(last, S)
  BY <1>1, <1>2
<1>5. PICK Good : Good = [T \in SUBSET S |-> G(T)]
  OBVIOUS
<1>a. PICK step : step = [i \in S |-> [a \in UNION {Good[T] : T \in SUBSET S} |-> Op(a, i)]]
  OBVIOUS
<1>b. ASSUME NEW T \in SUBSET S, T # {}
      PROVE  /\ last[T] \in S \ But(T, last) /\ But(T, last) \in SUBSET S /\ But(T, last) \cup {last[T]} = T
             /\ LastOf(ById, T) = last[T] /\ T \ {last[T]} = But(T, last)
             /\ Good[But(T, last)] = G(But(T, last)) /\ Good[T] = G(T)
  <2>1. /\ last[T] \in S /\ last[T] \notin But(T, last) /\ But(T, last) \in SUBSET S
        /\ LastOf(ById, T) = last[T] /\ T \ {last[T]} = But(T, last)
    BY <1>l, <1>b, LoopIs
  <2>2. last[T] \in T
    BY <1>l, <1>b DEF Picks
  <2> QED BY <1>5, <2>1, <2>2
<1>s. ASSUME NEW T \in SUBSET S, T # {}, NEW a \in Good[But(T, last)]
      PROVE  step[last[T]][a] = Op(a, last[T])
  <2>1. a \in UNION {Good[R] : R \in SUBSET S} /\ last[T] \in S
    BY <1>b, <1>s
  <2> QED BY <1>a, <2>1
<1>6. p \in Good[{}] /\ StepKeeps(last, step, S, Good)
  <2>1. p \in Good[{}]
    BY <1>3, <1>5
  <2>2. ASSUME NEW T \in SUBSET S, T # {}, NEW a \in Good[But(T, last)] PROVE step[last[T]][a] \in Good[T]
    BY <1>4, <1>b, <1>s, <2>2
  <2> QED BY <2>1, <2>2 DEF StepKeeps
<1>7. PICK g : IsFold(g, S, last, p, step) /\ \A T \in SUBSET S : g[T] \in Good[T]
  BY <1>2, <1>6, FoldGood
<1> DEFINE Adds(k) == k = [T \in SUBSET S |-> IF T = {} THEN p ELSE Op(k[T \ {LastOf(ById, T)}], LastOf(ById, T))]
<1>8. Adds(g)
  <2>1. ASSUME NEW T \in SUBSET S, T # {}
        PROVE  step[last[T]][g[But(T, last)]] = Op(g[T \ {LastOf(ById, T)}], LastOf(ById, T))
    <3>1. T \ {LastOf(ById, T)} = But(T, last) /\ LastOf(ById, T) = last[T]
      BY <1>b, <2>1
    <3>2. g[But(T, last)] \in Good[But(T, last)]
      BY <1>7, <1>b, <2>1
    <3>3. step[last[T]][g[But(T, last)]] = Op(g[But(T, last)], last[T])
      BY <1>s, <2>1, <3>2
    <3> QED BY <3>1, <3>3
  <2> QED BY <1>7, <2>1 DEF IsFold
<1>9. PICK h : h = (CHOOSE k : Adds(k))
  OBVIOUS
<1>10. Adds(h)
  BY <1>8, <1>9
<1>11. Follows(h, last, p, step, S, Good)
  <2>1. h[{}] = p
    BY <1>10
  <2>2. ASSUME NEW T \in SUBSET S, T # {}, h[But(T, last)] \in Good[But(T, last)]
        PROVE  h[T] = step[last[T]][h[But(T, last)]]
    <3>1. T \ {LastOf(ById, T)} = But(T, last) /\ LastOf(ById, T) = last[T]
      BY <1>b, <2>2
    <3>2. h[T] = Op(h[T \ {LastOf(ById, T)}], LastOf(ById, T))
      BY <1>10, <2>2
    <3>3. h[T] = Op(h[But(T, last)], last[T])
      BY <3>1, <3>2
    <3> QED BY <1>s, <2>2, <3>3
  <2> QED BY <2>1, <2>2 DEF Follows
<1>12. \A T \in SUBSET S : h[T] \in Good[T]
  BY <1>2, <1>6, <1>11, FoldKeeps
<1>13. h[S] \in G(S)
  BY <1>5, <1>12
<1>14. Fill(p, vs, cap) = h[S]
  BY <1>1, <1>9 DEF Fill, InOrder, MapThenFoldSet, Op
<1> QED BY <1>13, <1>14 DEF G

-----------------------------------------------------------------------------
(* Shifting.  Every vehicle keeps what the row says it was given.          *)
Regiven(row, vs, cap) ==
  {y \in Grid : UnderCap(y, cap) /\ InTime(y, vs) /\ \A s \in Sess : Sum(y[s], Slot) = row[s]}

LEMMA MoveIs ==
  ASSUME NEW vs \in Fleet, NEW cap \in Nat, NEW row, NEW x \in Regiven(row, vs, cap), NEW s \in DOMAIN vs,
         NEW from \in Slot, NEW to \in Slot, from # to, to < vs[s].due
  PROVE  Move(x, s, from, to, cap) \in Regiven(row, vs, cap)
<1>1. /\ x \in Grid /\ UnderCap(x, cap) /\ InTime(x, vs) /\ \A o \in Sess : Sum(x[o], Slot) = row[o]
      /\ s \in Sess /\ vs[s].due \in Nat /\ to \in Nat /\ from \in Nat
  BY FleetIs, Bounds DEF Regiven
<1>2. PICK fits, a, r, b : /\ fits = Accepts(s, Taken(s, x, to)) /\ a = x[s][from]
                           /\ r = RoomAt(x, to, cap) /\ b = x[s][to]
  OBVIOUS
<1>3. fits \in Nat /\ a \in Nat /\ r \in Nat /\ b \in Nat
  <2>1. Taken(s, x, to) \in Nat
    BY <1>1, TakenIs DEF Grid
  <2>2. fits \in 0 .. Rate
    BY <1>1, <1>2, <2>1, AcceptsIs
  <2> QED BY <1>1, <1>2, <2>2, RoomIs, Bounds DEF Grid
<1>4. PICK c : c = IF fits > b THEN fits - b ELSE 0
  OBVIOUS
<1>5. PICK m : m = Min({a, r, c})
  OBVIOUS
<1>6. c \in Nat /\ a \in Int /\ r \in Int /\ c \in Int
  BY <1>3, <1>4
<1>7. m \in {a, r, c} /\ m <= a /\ m <= r
  BY <1>5, <1>6, MinIs3
<1>8. m \in Nat
  BY <1>3, <1>6, <1>7
<1>9. PICK y, z : y = [x EXCEPT ![s][from] = @ - m, ![s][to] = @ + m] /\ z = [x EXCEPT ![s][from] = @ - m]
  OBVIOUS
<1>10. Move(x, s, from, to, cap) = y
  BY <1>2, <1>4, <1>5, <1>9 DEF Move
<1>11. z \in Grid /\ OneCell(x, z, s, from) /\ z[s][from] = a - m /\ z[s][to] = b
  BY <1>1, <1>2, <1>3, <1>7, <1>8, <1>9 DEF Grid, OneCell
<1>12. y = [z EXCEPT ![s][to] = @ + m]
  BY <1>1, <1>9 DEF Grid
<1>13. y \in Grid /\ OneCell(z, y, s, to) /\ y[s][to] = b + m
  BY <1>1, <1>3, <1>8, <1>11, <1>12 DEF Grid, OneCell
<1>14. /\ Sum(Column(z, from), Sess) = (Sum(Column(x, from), Sess) - a) + (a - m)
       /\ \A u \in Slot : u # from => Sum(Column(z, u), Sess) = Sum(Column(x, u), Sess)
       /\ Sum(z[s], Slot) = (Sum(x[s], Slot) - a) + (a - m)
       /\ a <= Sum(Column(x, from), Sess) /\ a <= Sum(x[s], Slot)
       /\ \A o \in Sess : o # s => z[o] = x[o]
  BY <1>1, <1>2, <1>11, CellChange
<1>15. /\ Sum(Column(y, to), Sess) = (Sum(Column(z, to), Sess) - b) + (b + m)
       /\ \A u \in Slot : u # to => Sum(Column(y, u), Sess) = Sum(Column(z, u), Sess)
       /\ Sum(y[s], Slot) = (Sum(z[s], Slot) - b) + (b + m)
       /\ \A o \in Sess : o # s => y[o] = z[o]
  BY <1>1, <1>11, <1>13, CellChange
<1>16. Sum(x[s], Slot) \in Nat /\ Sum(Column(x, from), Sess) \in Nat /\ Sum(Column(x, to), Sess) \in Nat
  BY <1>1, GridSums
<1>17. ASSUME NEW o \in Sess PROVE Sum(y[o], Slot) = row[o]
  <2>1. CASE o = s
    <3>1. PICK n : n = Sum(x[s], Slot)
      OBVIOUS
    <3>2. Sum(z[s], Slot) = n - m
      BY <1>3, <1>8, <1>14, <1>16, <3>1
    <3>3. Sum(y[s], Slot) = n
      BY <1>3, <1>8, <1>15, <1>16, <3>1, <3>2
    <3> QED BY <1>1, <2>1, <3>1, <3>3
  <2>2. CASE o # s
    BY <1>1, <1>14, <1>15, <2>2
  <2> QED BY <2>1, <2>2
<1>18. UnderCap(y, cap)
  <2> SUFFICES ASSUME cap # Infinity, NEW u \in Slot PROVE Sum(Column(y, u), Sess) <= cap
    BY DEF UnderCap
  <2>1. \A t \in Slot : Sum(Column(x, t), Sess) <= cap
    BY <1>1 DEF UnderCap
  <2>2. CASE u = to
    <3>1. PICK n : n = Sum(Column(x, to), Sess)
      OBVIOUS
    <3>2. Sum(Column(z, to), Sess) = n
      BY <1>14, <3>1
    <3>3. Sum(Column(y, to), Sess) = n + m
      BY <1>3, <1>8, <1>15, <1>16, <3>1, <3>2
    <3>4. r = IF cap > n THEN cap - n ELSE 0
      BY <1>1, <1>2, <3>1, RoomIs
    <3>5. n \in Nat /\ n <= cap
      BY <1>16, <2>1, <3>1
    <3> QED BY <1>7, <1>8, <2>2, <3>3, <3>4, <3>5
  <2>3. CASE u = from
    <3>1. PICK n : n = Sum(Column(x, from), Sess)
      OBVIOUS
    <3>2. Sum(Column(y, from), Sess) = n - m
      BY <1>3, <1>8, <1>14, <1>15, <1>16, <3>1
    <3>3. n \in Nat /\ n <= cap
      BY <1>16, <2>1, <3>1
    <3> QED BY <1>8, <2>3, <3>2, <3>3
  <2>4. CASE u # to /\ u # from
    BY <1>14, <1>15, <2>1, <2>4
  <2> QED BY <2>2, <2>3, <2>4
<1>19. InTime(y, vs)
  <2> SUFFICES ASSUME NEW o \in DOMAIN vs, NEW u \in Slot, u >= vs[o].due PROVE y[o][u] = 0
    BY DEF InTime
  <2>1. o \in Sess /\ x[o][u] = 0 /\ u \in Nat /\ (o = s => u # to)
    BY <1>1, FleetIs, Bounds DEF InTime
  <2>2. y[o][u] = z[o][u]
    BY <1>13, <2>1 DEF OneCell
  <2>3. CASE o = s /\ u = from
    <3>1. a = 0
      BY <1>2, <2>1, <2>3
    <3> QED BY <1>3, <1>7, <1>8, <1>11, <2>2, <2>3, <3>1
  <2>4. CASE ~(o = s /\ u = from)
    BY <1>11, <2>1, <2>2, <2>4 DEF OneCell
  <2> QED BY <2>3, <2>4
<1> QED BY <1>10, <1>13, <1>17, <1>18, <1>19 DEF Regiven

Prices == [Slot -> Nat]

LEMMA ShiftOfIs ==
  ASSUME NEW vs \in Fleet, NEW cap \in Nat, NEW price \in Prices, NEW row, NEW x \in Regiven(row, vs, cap),
         NEW s \in DOMAIN vs, NEW from \in Slot
  PROVE  ShiftOf(x, s, from, vs, price, cap) \in Regiven(row, vs, cap)
<1>1. PICK S, last : S = Slot /\ last = LastIn(price, S)
  OBVIOUS
<1>2. S \in SUBSET Slot /\ IsFiniteSet(S) /\ Picks(last, S)
  <2>1. S \in SUBSET Int /\ IsFiniteSet(S) /\ \A t \in S : price[t] \in Int
    BY <1>1, Bounds DEF Prices
  <2> QED BY <1>1, <2>1, LastPicks
<1> DEFINE Op(a, i) == IF i < vs[s].due /\ price[i] < price[from] THEN Move(a, s, from, i, cap) ELSE a
           G(T) == Regiven(row, vs, cap)
<1>3. x \in G({})
  OBVIOUS
<1>4. ASSUME NEW R \in SUBSET S, NEW i \in S \ R, NEW a \in G(R) PROVE Op(a, i) \in G(R \cup {i})
  <2>1. i \in Slot /\ price[i] \in Nat /\ price[from] \in Nat
    BY <1>1 DEF Prices
  <2>2. CASE i < vs[s].due /\ price[i] < price[from]
    <3>1. from # i
      BY <2>1, <2>2
    <3> QED BY <2>1, <2>2, <3>1, MoveIs
  <2>3. CASE ~(i < vs[s].due /\ price[i] < price[from])
    BY <2>3
  <2> QED BY <2>2, <2>3
<1> HIDE DEF Op, G
<1>l. last = LastIn(price, S) /\ Picks(last, S)
  BY <1>1, <1>2
<1>5. PICK Good : Good = [T \in SUBSET S |-> G(T)]
  OBVIOUS
<1>a. PICK step : step = [i \in S |-> [a \in UNION {Good[T] : T \in SUBSET S} |-> Op(a, i)]]
  OBVIOUS
<1>b. ASSUME NEW T \in SUBSET S, T # {}
      PROVE  /\ last[T] \in S \ But(T, last) /\ But(T, last) \in SUBSET S /\ But(T, last) \cup {last[T]} = T
             /\ LastOf(price, T) = last[T] /\ T \ {last[T]} = But(T, last)
             /\ Good[But(T, last)] = G(But(T, last)) /\ Good[T] = G(T)
  <2>1. /\ last[T] \in S /\ last[T] \notin But(T, last) /\ But(T, last) \in SUBSET S
        /\ LastOf(price, T) = last[T] /\ T \ {last[T]} = But(T, last)
    BY <1>l, <1>b, LoopIs
  <2>2. last[T] \in T
    BY <1>l, <1>b DEF Picks
  <2> QED BY <1>5, <2>1, <2>2
<1>s. ASSUME NEW T \in SUBSET S, T # {}, NEW a \in Good[But(T, last)]
      PROVE  step[last[T]][a] = Op(a, last[T])
  <2>1. a \in UNION {Good[R] : R \in SUBSET S} /\ last[T] \in S
    BY <1>b, <1>s
  <2> QED BY <1>a, <2>1
<1>6. x \in Good[{}] /\ StepKeeps(last, step, S, Good)
  <2>1. x \in Good[{}]
    BY <1>3, <1>5
  <2>2. ASSUME NEW T \in SUBSET S, T # {}, NEW a \in Good[But(T, last)] PROVE step[last[T]][a] \in Good[T]
    BY <1>4, <1>b, <1>s, <2>2
  <2> QED BY <2>1, <2>2 DEF StepKeeps
<1>7. PICK g : IsFold(g, S, last, x, step) /\ \A T \in SUBSET S : g[T] \in Good[T]
  BY <1>2, <1>6, FoldGood
<1> DEFINE Adds(k) == k = [T \in SUBSET S |-> IF T = {} THEN x ELSE Op(k[T \ {LastOf(price, T)}], LastOf(price, T))]
<1>8. Adds(g)
  <2>1. ASSUME NEW T \in SUBSET S, T # {}
        PROVE  step[last[T]][g[But(T, last)]] = Op(g[T \ {LastOf(price, T)}], LastOf(price, T))
    <3>1. T \ {LastOf(price, T)} = But(T, last) /\ LastOf(price, T) = last[T]
      BY <1>b, <2>1
    <3>2. g[But(T, last)] \in Good[But(T, last)]
      BY <1>7, <1>b, <2>1
    <3>3. step[last[T]][g[But(T, last)]] = Op(g[But(T, last)], last[T])
      BY <1>s, <2>1, <3>2
    <3> QED BY <3>1, <3>3
  <2> QED BY <1>7, <2>1 DEF IsFold
<1>9. PICK h : h = (CHOOSE k : Adds(k))
  OBVIOUS
<1>10. Adds(h)
  BY <1>8, <1>9
<1>11. Follows(h, last, x, step, S, Good)
  <2>1. h[{}] = x
    BY <1>10
  <2>2. ASSUME NEW T \in SUBSET S, T # {}, h[But(T, last)] \in Good[But(T, last)]
        PROVE  h[T] = step[last[T]][h[But(T, last)]]
    <3>1. T \ {LastOf(price, T)} = But(T, last) /\ LastOf(price, T) = last[T]
      BY <1>b, <2>2
    <3>2. h[T] = Op(h[T \ {LastOf(price, T)}], LastOf(price, T))
      BY <1>10, <2>2
    <3>3. h[T] = Op(h[But(T, last)], last[T])
      BY <3>1, <3>2
    <3> QED BY <1>s, <2>2, <3>3
  <2> QED BY <2>1, <2>2 DEF Follows
<1>12. \A T \in SUBSET S : h[T] \in Good[T]
  BY <1>2, <1>6, <1>11, FoldKeeps
<1>13. h[S] \in G(S)
  BY <1>5, <1>12
<1>14. ShiftOf(x, s, from, vs, price, cap) = h[S]
  BY <1>1, <1>9 DEF ShiftOf, InOrder, MapThenFoldSet, Op
<1> QED BY <1>13, <1>14 DEF G

LEMMA ShiftSlotIs ==
  ASSUME NEW vs \in Fleet, NEW cap \in Nat, NEW price \in Prices, NEW row, NEW x \in Regiven(row, vs, cap),
         NEW from \in Slot
  PROVE  ShiftSlot(x, from, vs, price, cap) \in Regiven(row, vs, cap)
<1>1. PICK S, last : S = DOMAIN vs /\ last = LastIn(ById, S)
  OBVIOUS
<1>2. S \in SUBSET Sess /\ IsFiniteSet(S) /\ Picks(last, S)
  BY <1>1, FleetIs, IdPicks
<1> DEFINE Op(a, i) == ShiftOf(a, i, from, vs, price, cap)
           G(T) == Regiven(row, vs, cap)
<1>3. x \in G({})
  OBVIOUS
<1>4. ASSUME NEW R \in SUBSET S, NEW i \in S \ R, NEW a \in G(R) PROVE Op(a, i) \in G(R \cup {i})
  <2>1. i \in DOMAIN vs
    BY <1>1
  <2> QED BY <2>1, ShiftOfIs
<1> HIDE DEF Op, G
<1>l. last = LastIn(ById, S) /\ Picks(last, S)
  BY <1>1, <1>2
<1>5. PICK Good : Good = [T \in SUBSET S |-> G(T)]
  OBVIOUS
<1>a. PICK step : step = [i \in S |-> [a \in UNION {Good[T] : T \in SUBSET S} |-> Op(a, i)]]
  OBVIOUS
<1>b. ASSUME NEW T \in SUBSET S, T # {}
      PROVE  /\ last[T] \in S \ But(T, last) /\ But(T, last) \in SUBSET S /\ But(T, last) \cup {last[T]} = T
             /\ LastOf(ById, T) = last[T] /\ T \ {last[T]} = But(T, last)
             /\ Good[But(T, last)] = G(But(T, last)) /\ Good[T] = G(T)
  <2>1. /\ last[T] \in S /\ last[T] \notin But(T, last) /\ But(T, last) \in SUBSET S
        /\ LastOf(ById, T) = last[T] /\ T \ {last[T]} = But(T, last)
    BY <1>l, <1>b, LoopIs
  <2>2. last[T] \in T
    BY <1>l, <1>b DEF Picks
  <2> QED BY <1>5, <2>1, <2>2
<1>s. ASSUME NEW T \in SUBSET S, T # {}, NEW a \in Good[But(T, last)]
      PROVE  step[last[T]][a] = Op(a, last[T])
  <2>1. a \in UNION {Good[R] : R \in SUBSET S} /\ last[T] \in S
    BY <1>b, <1>s
  <2> QED BY <1>a, <2>1
<1>6. x \in Good[{}] /\ StepKeeps(last, step, S, Good)
  <2>1. x \in Good[{}]
    BY <1>3, <1>5
  <2>2. ASSUME NEW T \in SUBSET S, T # {}, NEW a \in Good[But(T, last)] PROVE step[last[T]][a] \in Good[T]
    BY <1>4, <1>b, <1>s, <2>2
  <2> QED BY <2>1, <2>2 DEF StepKeeps
<1>7. PICK g : IsFold(g, S, last, x, step) /\ \A T \in SUBSET S : g[T] \in Good[T]
  BY <1>2, <1>6, FoldGood
<1> DEFINE Adds(k) == k = [T \in SUBSET S |-> IF T = {} THEN x ELSE Op(k[T \ {LastOf(ById, T)}], LastOf(ById, T))]
<1>8. Adds(g)
  <2>1. ASSUME NEW T \in SUBSET S, T # {}
        PROVE  step[last[T]][g[But(T, last)]] = Op(g[T \ {LastOf(ById, T)}], LastOf(ById, T))
    <3>1. T \ {LastOf(ById, T)} = But(T, last) /\ LastOf(ById, T) = last[T]
      BY <1>b, <2>1
    <3>2. g[But(T, last)] \in Good[But(T, last)]
      BY <1>7, <1>b, <2>1
    <3>3. step[last[T]][g[But(T, last)]] = Op(g[But(T, last)], last[T])
      BY <1>s, <2>1, <3>2
    <3> QED BY <3>1, <3>3
  <2> QED BY <1>7, <2>1 DEF IsFold
<1>9. PICK h : h = (CHOOSE k : Adds(k))
  OBVIOUS
<1>10. Adds(h)
  BY <1>8, <1>9
<1>11. Follows(h, last, x, step, S, Good)
  <2>1. h[{}] = x
    BY <1>10
  <2>2. ASSUME NEW T \in SUBSET S, T # {}, h[But(T, last)] \in Good[But(T, last)]
        PROVE  h[T] = step[last[T]][h[But(T, last)]]
    <3>1. T \ {LastOf(ById, T)} = But(T, last) /\ LastOf(ById, T) = last[T]
      BY <1>b, <2>2
    <3>2. h[T] = Op(h[T \ {LastOf(ById, T)}], LastOf(ById, T))
      BY <1>10, <2>2
    <3>3. h[T] = Op(h[But(T, last)], last[T])
      BY <3>1, <3>2
    <3> QED BY <1>s, <2>2, <3>3
  <2> QED BY <2>1, <2>2 DEF Follows
<1>12. \A T \in SUBSET S : h[T] \in Good[T]
  BY <1>2, <1>6, <1>11, FoldKeeps
<1>13. h[S] \in G(S)
  BY <1>5, <1>12
<1>14. ShiftSlot(x, from, vs, price, cap) = h[S]
  BY <1>1, <1>9 DEF ShiftSlot, InOrder, MapThenFoldSet, Op
<1> QED BY <1>13, <1>14 DEF G

Dearness(price) == [t \in Slot |-> -price[t]]

LEMMA ShiftIs ==
  ASSUME NEW vs \in Fleet, NEW cap \in Nat, NEW price \in Prices, NEW row, NEW x \in Regiven(row, vs, cap)
  PROVE  Shift(x, vs, price, cap) \in Regiven(row, vs, cap)
<1>1. PICK S, last : S = Slot /\ last = LastIn(Dearness(price), S)
  OBVIOUS
<1>2. S \in SUBSET Slot /\ IsFiniteSet(S) /\ Picks(last, S)
  <2>1. S \in SUBSET Int /\ IsFiniteSet(S)
    BY <1>1, Bounds
  <2>2. \A t \in S : Dearness(price)[t] \in Int
    BY <1>1 DEF Prices, Dearness
  <2> QED BY <1>1, <2>1, <2>2, LastPicks
<1> DEFINE Op(a, i) == ShiftSlot(a, i, vs, price, cap)
           G(T) == Regiven(row, vs, cap)
<1>3. x \in G({})
  OBVIOUS
<1>4. ASSUME NEW R \in SUBSET S, NEW i \in S \ R, NEW a \in G(R) PROVE Op(a, i) \in G(R \cup {i})
  <2>1. i \in Slot
    BY <1>1
  <2> QED BY <2>1, ShiftSlotIs
<1> HIDE DEF Op, G
<1>l. last = LastIn(Dearness(price), S) /\ Picks(last, S)
  BY <1>1, <1>2
<1>5. PICK Good : Good = [T \in SUBSET S |-> G(T)]
  OBVIOUS
<1>a. PICK step : step = [i \in S |-> [a \in UNION {Good[T] : T \in SUBSET S} |-> Op(a, i)]]
  OBVIOUS
<1>b. ASSUME NEW T \in SUBSET S, T # {}
      PROVE  /\ last[T] \in S \ But(T, last) /\ But(T, last) \in SUBSET S /\ But(T, last) \cup {last[T]} = T
             /\ LastOf(Dearness(price), T) = last[T] /\ T \ {last[T]} = But(T, last)
             /\ Good[But(T, last)] = G(But(T, last)) /\ Good[T] = G(T)
  <2>1. /\ last[T] \in S /\ last[T] \notin But(T, last) /\ But(T, last) \in SUBSET S
        /\ LastOf(Dearness(price), T) = last[T] /\ T \ {last[T]} = But(T, last)
    BY <1>l, <1>b, LoopIs
  <2>2. last[T] \in T
    BY <1>l, <1>b DEF Picks
  <2> QED BY <1>5, <2>1, <2>2
<1>s. ASSUME NEW T \in SUBSET S, T # {}, NEW a \in Good[But(T, last)]
      PROVE  step[last[T]][a] = Op(a, last[T])
  <2>1. a \in UNION {Good[R] : R \in SUBSET S} /\ last[T] \in S
    BY <1>b, <1>s
  <2> QED BY <1>a, <2>1
<1>6. x \in Good[{}] /\ StepKeeps(last, step, S, Good)
  <2>1. x \in Good[{}]
    BY <1>3, <1>5
  <2>2. ASSUME NEW T \in SUBSET S, T # {}, NEW a \in Good[But(T, last)] PROVE step[last[T]][a] \in Good[T]
    BY <1>4, <1>b, <1>s, <2>2
  <2> QED BY <2>1, <2>2 DEF StepKeeps
<1>7. PICK g : IsFold(g, S, last, x, step) /\ \A T \in SUBSET S : g[T] \in Good[T]
  BY <1>2, <1>6, FoldGood
<1> DEFINE Adds(k) == k = [T \in SUBSET S |-> IF T = {} THEN x ELSE Op(k[T \ {LastOf(Dearness(price), T)}], LastOf(Dearness(price), T))]
<1>8. Adds(g)
  <2>1. ASSUME NEW T \in SUBSET S, T # {}
        PROVE  step[last[T]][g[But(T, last)]] = Op(g[T \ {LastOf(Dearness(price), T)}], LastOf(Dearness(price), T))
    <3>1. T \ {LastOf(Dearness(price), T)} = But(T, last) /\ LastOf(Dearness(price), T) = last[T]
      BY <1>b, <2>1
    <3>2. g[But(T, last)] \in Good[But(T, last)]
      BY <1>7, <1>b, <2>1
    <3>3. step[last[T]][g[But(T, last)]] = Op(g[But(T, last)], last[T])
      BY <1>s, <2>1, <3>2
    <3> QED BY <3>1, <3>3
  <2> QED BY <1>7, <2>1 DEF IsFold
<1>9. PICK h : h = (CHOOSE k : Adds(k))
  OBVIOUS
<1>10. Adds(h)
  BY <1>8, <1>9
<1>11. Follows(h, last, x, step, S, Good)
  <2>1. h[{}] = x
    BY <1>10
  <2>2. ASSUME NEW T \in SUBSET S, T # {}, h[But(T, last)] \in Good[But(T, last)]
        PROVE  h[T] = step[last[T]][h[But(T, last)]]
    <3>1. T \ {LastOf(Dearness(price), T)} = But(T, last) /\ LastOf(Dearness(price), T) = last[T]
      BY <1>b, <2>2
    <3>2. h[T] = Op(h[T \ {LastOf(Dearness(price), T)}], LastOf(Dearness(price), T))
      BY <1>10, <2>2
    <3>3. h[T] = Op(h[But(T, last)], last[T])
      BY <3>1, <3>2
    <3> QED BY <1>s, <2>2, <3>3
  <2> QED BY <2>1, <2>2 DEF Follows
<1>12. \A T \in SUBSET S : h[T] \in Good[T]
  BY <1>2, <1>6, <1>11, FoldKeeps
<1>13. h[S] \in G(S)
  BY <1>5, <1>12
<1>14. Shift(x, vs, price, cap) = h[S]
  BY <1>1, <1>9 DEF Shift, Dearness, InOrder, MapThenFoldSet, Op
<1> QED BY <1>13, <1>14 DEF G

-----------------------------------------------------------------------------
(* The plan.                                                               *)
LEMMA SumOfOne ==
  ASSUME NEW f \in Nat, NEW S, IsFiniteSet(S), NEW w, \A t \in S : w[t] = f
  PROVE  Sum(w, S) = f * Cardinality(S)
<1>t. PICK Bad : Bad = {X \in FiniteSubsetsOf(S) : Sum(w, X) # f * Cardinality(X)}
  OBVIOUS
<1>a. ASSUME S \in Bad PROVE FALSE
  <2>s. Bad \in SUBSET FiniteSubsetsOf(S) /\ Bad # {}
    BY <1>a, <1>t
  <2>1. PICK X \in Bad : \A Y \in Bad : Y \subseteq X => Y = X
    BY <2>s, SmallestSet
  <2>2. X \in SUBSET S /\ IsFiniteSet(X) /\ Sum(w, X) # f * Cardinality(X)
    BY <1>t DEF FiniteSubsetsOf
  <2>3. X # {}
    <3>1. CASE X = {}
      <4>1. Sum(w, X) = 0 /\ Cardinality(X) = 0
        BY <3>1, SumEmpty, FS_EmptySet
      <4>2. f * 0 = 0
        OBVIOUS
      <4> QED BY <2>2, <4>1, <4>2
    <3> QED BY <3>1
  <2>4. PICK x \in X : TRUE
    BY <2>3
  <2>5. X \ {x} \in FiniteSubsetsOf(S) /\ X \ {x} \notin Bad
    BY <2>1, <2>2, <2>4, FS_Subset DEF FiniteSubsetsOf
  <2>6. PICK k, n : k = Cardinality(X \ {x}) /\ n = Sum(w, X \ {x})
    OBVIOUS
  <2>7. k \in Nat /\ Cardinality(X) = k + 1
    <3>1. Cardinality(X) \in Nat /\ Cardinality(X \ {x}) = Cardinality(X) - 1
      BY <2>2, <2>4, FS_RemoveElement, FS_CardinalityType
    <3>2. k \in Nat
      BY <2>2, <2>6, FS_Subset, FS_CardinalityType
    <3> QED BY <2>6, <3>1, <3>2
  <2>8. n = f * k
    BY <1>t, <2>5, <2>6
  <2>9. AllNat(w, X) /\ w[x] = f
    BY <2>2, <2>4 DEF AllNat
  <2>10. Sum(w, X) = f + n
    BY <2>2, <2>4, <2>6, <2>9, SumStep
  <2>11. f * (k + 1) = f + f * k
    BY <2>7
  <2> QED BY <2>2, <2>7, <2>8, <2>10, <2>11
<1> QED BY <1>a, <1>t DEF FiniteSubsetsOf

LEMMA RowAtLeast ==
  ASSUME NEW w, AllNat(w, Slot), NEW f \in Nat, NEW d \in 0 .. H, \A t \in Slot : t < d => w[t] >= f
  PROVE  Sum(w, Slot) >= f * d
<1>1. PICK S, v : S = 0 .. d - 1 /\ v = [t \in S |-> f]
  OBVIOUS
<1>2. H \in Nat /\ d \in Nat /\ d <= H /\ 0 \in Int /\ d - 1 \in Int /\ IsFiniteSet(Slot)
  BY Bounds
<1>3. IsFiniteSet(S) /\ Cardinality(S) = d
  <2>1. IsFiniteSet(S) /\ Cardinality(S) = IF 0 > d - 1 THEN 0 ELSE (d - 1) - 0 + 1
    BY <1>1, <1>2, FS_Interval
  <2> QED BY <1>2, <2>1
<1>4. \A t \in S : t \in Slot /\ t < d
  BY <1>1, <1>2 DEF Slot
<1>5. AllNat(v, S) /\ Covers(v, w, S, Slot)
  BY <1>1, <1>4 DEF AllNat, Covers
<1>6. Sum(v, S) <= Sum(w, Slot)
  BY <1>2, <1>3, <1>5, SumAtMost
<1>7. Sum(v, S) = f * Cardinality(S)
  <2>1. \A t \in S : v[t] = f
    BY <1>1
  <2> QED BY <1>3, <2>1, SumOfOne
<1>8. Sum(v, S) = f * d
  BY <1>3, <1>7
<1>9. PICK n, m : n = f * d /\ m = Sum(w, Slot)
  OBVIOUS
<1>10. n \in Nat /\ m \in Nat /\ n <= m
  BY <1>2, <1>6, <1>8, <1>9, SumNat
<1> QED BY <1>9, <1>10

LEMMA SolveIs ==
  ASSUME NEW vs \in Fleet, NEW cap \in Nat, NEW price \in Prices, NEW x, x = Solve(vs, price, cap)
  PROVE  /\ x \in Grid /\ UnderCap(x, cap) /\ InTime(x, vs)
         /\ \A s \in DOMAIN vs : Sum(x[s], Slot) <= vs[s].need
         /\ Sum(FloorsOf(vs), DOMAIN vs) <= cap =>
              \A s \in DOMAIN vs :
                Bears(vs[s], s) => Sum(x[s], Slot) >= Min({vs[s].need, vs[s].floor * vs[s].due})
<1>1. PICK none, p, q : /\ none = [x |-> [s \in Sess |-> [t \in Slot |-> 0]],
                                   need |-> [s \in Sess |-> IF s \in DOMAIN vs THEN vs[s].need ELSE 0]]
                        /\ p = Floors(none, vs, cap) /\ q = Fill(p, vs, cap)
  OBVIOUS
<1>2. none \in Schedule(vs, cap) /\ \A s \in Sess, t \in Slot : none.x[s][t] = 0
  <2>1. PICK z, n : /\ z = [s \in Sess |-> [t \in Slot |-> 0]]
                    /\ n = [s \in Sess |-> IF s \in DOMAIN vs THEN vs[s].need ELSE 0]
    OBVIOUS
  <2>2. none = [x |-> z, need |-> n] /\ z \in Grid /\ n \in [Sess -> Nat] /\ \A s \in Sess, t \in Slot : z[s][t] = 0
    BY <1>1, <2>1, FleetIs DEF Grid
  <2>3. UnderCap(z, cap)
    <3> SUFFICES ASSUME NEW t \in Slot PROVE Sum(Column(z, t), Sess) <= cap
      BY DEF UnderCap
    <3>1. \A s \in Sess : Column(z, t)[s] = 0
      BY <2>2 DEF Column
    <3>2. Sum(Column(z, t), Sess) = 0
      BY <3>1, SumZero, Bounds
    <3> QED BY <3>2
  <2>4. InTime(z, vs)
    BY <2>2, FleetIs DEF InTime
  <2>5. \A s \in DOMAIN vs : Sum(z[s], Slot) + n[s] = vs[s].need
    <3> SUFFICES ASSUME NEW s \in DOMAIN vs PROVE Sum(z[s], Slot) + n[s] = vs[s].need
      OBVIOUS
    <3>1. s \in Sess /\ vs[s].need \in Nat
      BY FleetIs
    <3>2. Sum(z[s], Slot) = 0
      BY <2>2, <3>1, SumZero, Bounds
    <3> QED BY <2>1, <3>1, <3>2
  <2>6. Kept(none, vs)
    BY <2>2, <2>5 DEF Kept
  <2> QED BY <2>2, <2>3, <2>4, <2>6 DEF Schedule
<1>3. p \in Promised(vs, cap, DOMAIN vs)
  BY <1>1, <1>2, FloorsIs
<1>4. p \in Schedule(vs, cap)
  BY <1>3 DEF Promised
<1>5. q \in Grown(p, vs, cap)
  BY <1>1, <1>4, FillIs
<1>6. q \in Schedule(vs, cap)
  BY <1>5 DEF Grown
<1>7. PICK row : row = [s \in Sess |-> Sum(q.x[s], Slot)]
  OBVIOUS
<1>8. q.x \in Regiven(row, vs, cap)
  BY <1>6, <1>7 DEF Schedule, Regiven
<1>9. x = Shift(q.x, vs, price, cap)
  BY <1>1 DEF Solve
<1>10. x \in Regiven(row, vs, cap)
  BY <1>8, <1>9, ShiftIs
<1>11. x \in Grid /\ UnderCap(x, cap) /\ InTime(x, vs) /\ \A s \in Sess : Sum(x[s], Slot) = Sum(q.x[s], Slot)
  BY <1>7, <1>10 DEF Regiven
<1>12. ASSUME NEW s \in DOMAIN vs
       PROVE  /\ Sum(x[s], Slot) \in Nat /\ q.need[s] \in Nat /\ s \in Sess /\ vs[s].need \in Nat
              /\ Sum(x[s], Slot) + q.need[s] = vs[s].need
  BY <1>6, <1>11, FleetIs, GridSums DEF Schedule, Kept
<1>13. ASSUME NEW s \in DOMAIN vs PROVE Sum(x[s], Slot) <= vs[s].need
  <2>1. PICK a, b, c : a = Sum(x[s], Slot) /\ b = q.need[s] /\ c = vs[s].need
    OBVIOUS
  <2>2. a \in Nat /\ b \in Nat /\ c \in Nat /\ a + b = c
    BY <1>12, <2>1
  <2> QED BY <2>1, <2>2
<1>14. ASSUME Sum(FloorsOf(vs), DOMAIN vs) <= cap, NEW s \in DOMAIN vs, Bears(vs[s], s)
       PROVE  Sum(x[s], Slot) >= Min({vs[s].need, vs[s].floor * vs[s].due})
  <2>1. PICK a, b, c, f, d, n : /\ a = Sum(x[s], Slot) /\ b = q.need[s] /\ c = vs[s].need
                                /\ f = vs[s].floor /\ d = vs[s].due /\ n = f * d
    OBVIOUS
  <2>2. a \in Nat /\ b \in Nat /\ c \in Nat /\ a + b = c /\ s \in Sess /\ f \in Nat /\ d \in 0 .. H
    BY <1>12, <2>1, FleetIs
  <2>3. n \in Nat /\ d \in Nat
    BY <2>1, <2>2, Bounds
  <2>4. Min({c, n}) = IF c <= n THEN c ELSE n
    <3>1. c \in Int /\ n \in Int
      BY <2>2, <2>3
    <3> QED BY <3>1, MinIs2
  <2>5. Served(p, vs, s, Slot)
    BY <1>3, <1>14 DEF Promised
  <2>6. CASE b = 0
    BY <2>1, <2>2, <2>3, <2>4, <2>6
  <2>7. CASE b # 0
    <3>1. p.need[s] \in Nat /\ b <= p.need[s]
      BY <1>4, <1>5, <2>1, <2>2 DEF Schedule, Grown
    <3>2. \A t \in Slot : t < d => p.x[s][t] >= f
      BY <2>1, <2>2, <2>5, <2>7, <3>1 DEF Served
    <3>3. \A t \in Slot : q.x[s][t] \in Nat /\ p.x[s][t] \in Nat /\ q.x[s][t] >= p.x[s][t]
      BY <1>4, <1>5, <1>6, <2>2 DEF Schedule, Grown, Grid
    <3>4. PICK w : w = q.x[s]
      OBVIOUS
    <3>5. AllNat(w, Slot) /\ \A t \in Slot : t < d => w[t] >= f
      BY <2>2, <3>2, <3>3, <3>4 DEF AllNat
    <3>6. Sum(w, Slot) >= f * d
      BY <2>2, <3>5, RowAtLeast
    <3>7. a >= n
      BY <1>11, <2>1, <2>2, <3>4, <3>6
    <3> QED BY <2>1, <2>2, <2>3, <2>4, <3>7
  <2> QED BY <2>6, <2>7
<1> QED BY <1>11, <1>13, <1>14

-----------------------------------------------------------------------------
(* The site.                                                               *)
RootRow == [cap : SiteCaps, status : {"ACTIVE", "PENDING"}, proposed : Admin \cup {Nil}]
TypedSite ==
  /\ root = Nil \/ root \in RootRow
  /\ sess \in [Sess -> SessRow] /\ cert \in [Sess -> PromiseRow]
SiteInv == TypedSite /\ Bearable(cert) /\ PlanSound /\ PromiseServed

LEMMA CapIs ==
  ASSUME TypedSite
  PROVE  /\ SiteCap \in Nat /\ Usable(SiteCap) \in Nat
         /\ SiteCap # Infinity => Usable(SiteCap) # Infinity
<1>1. SiteCaps \subseteq 1 .. Infinity - 1 /\ Infinity \in Nat /\ Reserve \in Nat
  BY SiteAssumption, Bounds
<1>2. SiteCap = Infinity \/ SiteCap \in SiteCaps
  BY DEF SiteCap, TypedSite, RootRow
<1>3. PICK c : c = SiteCap
  OBVIOUS
<1>4. c \in Nat /\ (c = Infinity \/ c < Infinity)
  <2>1. CASE c = Infinity
    BY <1>1, <2>1
  <2>2. CASE c \in SiteCaps
    <3>1. c \in 1 .. Infinity - 1
      BY <1>1, <2>2
    <3> QED BY <1>1, <3>1
  <2> QED BY <1>2, <1>3, <2>1, <2>2
<1> QED BY <1>1, <1>3, <1>4 DEF Usable

LEMMA VehiclesIs ==
  ASSUME TypedSite, NEW c \in [Sess -> PromiseRow], NEW on \in SUBSET Sess
  PROVE  Vehicles(on, c) \in Fleet /\ DOMAIN Vehicles(on, c) = on
<1>1. \A s \in on : Vehicles(on, c)[s] \in Vehicle
  BY VehicleIs DEF Vehicle, TypedSite
<1>2. Vehicles(on, c) \in [on -> Vehicle]
  BY <1>1 DEF Vehicles
<1> QED BY <1>2 DEF Fleet

LEMMA CommittedIs == ASSUME NEW c PROVE Committed(c) = Sum(Floors1(c), Charging)
<1>1. Charging \in SUBSET Sess
  BY DEF Charging
<1> QED BY <1>1, FloorSumIs DEF Committed

LEMMA PlanStep ==
  ASSUME TypedSite, Bearable(cert), NEW price \in Tariff, NEW out, PlanSite(price, out)
  PROVE  /\ cert' \in [Sess -> PromiseRow] /\ Bearable(cert)' /\ PlanSound' /\ PromiseServed'
         /\ Committed(cert) <= Usable(SiteCap) => Committed(cert') <= Usable(SiteCap)
<1>1. PICK on, cap, c, vs, x : /\ on = Charging /\ cap = Usable(SiteCap) /\ c = Certify(on, cap)
                               /\ vs = Vehicles(on, c) /\ x = Solve(vs, price, cap)
  OBVIOUS
<1>2. cert' = c /\ plan' = [x |-> x, vs |-> vs, cap |-> SiteCap]
  BY <1>1 DEF PlanSite
<1>3. on \in SUBSET Sess /\ cap \in Nat /\ price \in Prices
  BY <1>1, CapIs, SiteAssumption DEF Charging, Prices
<1>4. sess \in [Sess -> SessRow] /\ cert \in [Sess -> PromiseRow]
  BY DEF TypedSite
<1>5. /\ c \in [Sess -> PromiseRow]
      /\ Sum(Floors1(cert), on) <= cap => Sum(Floors1(c), on) <= cap
      /\ Bearable(c)
  <2>1. on \subseteq Begun
    BY <1>1 DEF Begun, Charging
  <2> QED BY <1>1, <1>3, <1>4, <2>1, CertifyIs
<1>6. vs \in Fleet /\ DOMAIN vs = on
  BY <1>1, <1>3, <1>5, VehiclesIs
<1>7. /\ x \in Grid /\ UnderCap(x, cap) /\ InTime(x, vs)
      /\ \A s \in DOMAIN vs : Sum(x[s], Slot) <= vs[s].need
      /\ Sum(FloorsOf(vs), DOMAIN vs) <= cap =>
           \A s \in DOMAIN vs : Sum(x[s], Slot) >= Min({vs[s].need, vs[s].floor * vs[s].due})
  <2>1. ASSUME NEW s \in DOMAIN vs PROVE Bears(vs[s], s)
    <3>1. vs[s].need = sess[s].need /\ vs[s].floor = Floor(c, s)
      BY <1>1, <1>3, <1>4, <1>5, <1>6, VehicleIs
    <3>2. CASE c[s].status = "ACTIVE"
      <4>1. Floor(c, s) = c[s].floor
        BY <3>2 DEF Floor
      <4> QED BY <1>5, <3>1, <3>2, <4>1 DEF Bearable, Bearing, Bears
    <3>3. CASE c[s].status # "ACTIVE"
      <4>1. Floor(c, s) = 0
        BY <3>3 DEF Floor
      <4> QED BY <3>1, <4>1, Bounds DEF Bears
    <3> QED BY <3>2, <3>3
  <2> QED BY <1>1, <1>3, <1>6, <2>1, SolveIs
<1>8. PICK k : k = SiteCap /\ cap = Usable(k) /\ (k # Infinity => cap # Infinity)
  BY <1>1, CapIs
<1>9. PICK pl : pl = [x |-> x, vs |-> vs, cap |-> k]
  OBVIOUS
<1>10. plan' = pl /\ pl.x = x /\ pl.vs = vs /\ pl.cap = k
  BY <1>2, <1>8, <1>9
<1>11. \A s : Given(x, s) = Sum(x[s], Slot)
  BY DEF Given, Sum, MapThenSumSet, MapThenFoldSet
<1>12. PlanSound'
  <2>1. k # Infinity => \A t \in Slot : Total(x, t) <= Usable(k)
    BY <1>7, <1>8, ColumnIs DEF UnderCap
  <2>2. \A s \in DOMAIN vs, t \in Slot : t >= vs[s].due => x[s][t] = 0
    BY <1>7 DEF InTime
  <2>3. \A s \in DOMAIN vs : Given(x, s) <= vs[s].need
    BY <1>7, <1>11
  <2> QED BY <1>10, <2>1, <2>2, <2>3 DEF PlanSound
<1>13. PromiseServed'
  <2>1. Promises(vs) = Sum(FloorsOf(vs), DOMAIN vs)
    BY <1>6, FleetIs, PromiseSumIs
  <2>2. Promises(vs) <= Usable(k) =>
          \A s \in DOMAIN vs : Given(x, s) >= Min({vs[s].need, vs[s].floor * vs[s].due})
    BY <1>7, <1>8, <1>11, <2>1
  <2> QED BY <1>10, <2>2 DEF PromiseServed
<1>14. Committed(cert) <= Usable(SiteCap) => Committed(cert') <= Usable(SiteCap)
  <2>1. Committed(cert) = Sum(Floors1(cert), on)
    BY <1>1, CommittedIs
  <2>2. Committed(c) = Sum(Floors1(c), on)
    BY <1>1, CommittedIs
  <2> QED BY <1>1, <1>2, <1>5, <2>1, <2>2
<1>15. Bearable(cert)'
  BY <1>2, <1>5 DEF Bearable, PlanSite
<1> QED BY <1>2, <1>5, <1>12, <1>13, <1>14, <1>15

LEMMA PlanStands ==
  ASSUME PlanSound, PromiseServed, UNCHANGED plan
  PROVE  PlanSound' /\ PromiseServed'
BY DEF PlanSound, PromiseServed

LEMMA SiteTyped ==
  ASSUME TypedSite, [Next]_vars, cert' \in [Sess -> PromiseRow]
  PROVE  TypedSite'
<1> USE DEF TypedSite
<1>1. ASSUME NEW a \in Admin, ApproveGridAsset(a) PROVE TypedSite'
  <2>1. root \in RootRow /\ root' = [root EXCEPT !.status = "ACTIVE", !.proposed = Nil]
    BY <1>1 DEF ApproveGridAsset
  <2>2. root' \in RootRow
    BY <2>1 DEF RootRow
  <2> QED BY <1>1, <2>2 DEF ApproveGridAsset
<1>2. ASSUME NEW a \in Admin, NEW cap \in SiteCaps, UpsertGridAsset(a, cap) PROVE TypedSite'
  <2>1. root' \in RootRow
    BY <1>2 DEF UpsertGridAsset, RootRow
  <2> QED BY <1>2, <2>1 DEF UpsertGridAsset
<1>3. ASSUME NEW m, SetMode(m) PROVE TypedSite'
  BY <1>3 DEF SetMode
<1>4. ASSUME NEW price, NEW out, PlanSite(price, out) PROVE TypedSite'
  BY <1>4 DEF PlanSite
<1>5. ASSUME NEW s \in Sess, CertifySession(s) PROVE TypedSite'
  BY <1>5 DEF CertifySession
<1>6. ASSUME NEW s \in Sess, End(s) PROVE TypedSite'
  <2>1. [NotBegun EXCEPT !.state = "DONE"] \in SessRow
    BY Bounds DEF NotBegun, SessRow
  <2>2. sess' \in [Sess -> SessRow]
    BY <1>6, <2>1 DEF End
  <2> QED BY <1>6, <2>2 DEF End
<1>7. ASSUME NEW s \in Sess, NEW ask \in Ask, Begin(s, ask) PROVE TypedSite'
  <2>1. ask.need \in Nat /\ ask.due \in 1 .. H + 1
    BY SiteAssumption
  <2>2. [state |-> "LIVE", need |-> ask.need, due |-> ask.due] \in SessRow
    BY <2>1, Bounds DEF SessRow
  <2>3. sess' \in [Sess -> SessRow]
    BY <1>7, <2>2 DEF Begin
  <2> QED BY <1>7, <2>3 DEF Begin
<1>8. ASSUME NEW i, NEW answer, Acked(i, answer) PROVE TypedSite'
  BY <1>8 DEF Acked
<1>9. ASSUME NEW got \in [Sess -> 0 .. Rate], Elapse(got) PROVE TypedSite'
  <2>1. ASSUME NEW s \in Sess
        PROVE [sess[s] EXCEPT !.need = Remaining(@, got[s]),
                 !.due = IF @ = NoDeadline THEN @ ELSE IF @ = 0 THEN 0 ELSE @ - 1] \in SessRow
    <3>1. PICK r, g : r = sess[s] /\ g = got[s] /\ r \in SessRow /\ g \in Nat
      BY Bounds
    <3>2. r.need \in Nat /\ r.due \in 0 .. H + 1 /\ r.state \in {"NONE", "LIVE", "DONE"}
      BY <3>1 DEF SessRow
    <3>3. Remaining(r.need, g) \in Nat
      BY <3>1, <3>2 DEF Remaining
    <3>4. PICK d : d = IF r.due = NoDeadline THEN r.due ELSE IF r.due = 0 THEN 0 ELSE r.due - 1
      OBVIOUS
    <3>5. d \in 0 .. H + 1
      BY <3>2, <3>4, Bounds DEF NoDeadline
    <3>6. [r EXCEPT !.need = Remaining(@, g), !.due = d] \in SessRow
      BY <3>1, <3>3, <3>5 DEF SessRow
    <3>7. [r EXCEPT !.need = Remaining(@, g),
             !.due = IF @ = NoDeadline THEN @ ELSE IF @ = 0 THEN 0 ELSE @ - 1]
          = [r EXCEPT !.need = Remaining(@, g), !.due = d]
      BY <3>1, <3>4 DEF SessRow
    <3> QED BY <3>1, <3>6, <3>7
  <2>2. sess' \in [Sess -> SessRow]
    BY <1>9, <2>1 DEF Elapse
  <2> QED BY <1>9, <2>2 DEF Elapse
<1>10. ASSUME VerifyCompliance PROVE TypedSite'
  BY <1>10 DEF VerifyCompliance
<1>11. ASSUME UNCHANGED vars PROVE TypedSite'
  BY <1>11 DEF vars
<1> QED BY <1>1, <1>2, <1>3, <1>4, <1>5, <1>6, <1>7, <1>8, <1>9, <1>10, <1>11 DEF Next

LEMMA SiteStep ==
  ASSUME SiteInv, [Next]_vars
  PROVE  SiteInv' /\ (dec' # dec /\ Committed(cert) <= Usable(SiteCap) => Committed(cert') <= Usable(SiteCap))
<1>i. TypedSite /\ Bearable(cert) /\ PlanSound /\ PromiseServed
  BY DEF SiteInv
<1> DEFINE Fine == dec' # dec /\ Committed(cert) <= Usable(SiteCap) => Committed(cert') <= Usable(SiteCap)
<1>1. ASSUME NEW price \in Tariff, NEW out, PlanSite(price, out) PROVE SiteInv' /\ Fine
  <2>1. /\ cert' \in [Sess -> PromiseRow] /\ Bearable(cert)' /\ PlanSound' /\ PromiseServed'
        /\ Committed(cert) <= Usable(SiteCap) => Committed(cert') <= Usable(SiteCap)
    BY <1>i, <1>1, PlanStep
  <2>2. TypedSite'
    BY <1>i, <2>1, SiteTyped
  <2> QED BY <2>1, <2>2 DEF SiteInv
<1>2. ASSUME UNCHANGED <<plan, dec>>, cert' \in [Sess -> PromiseRow], Bearable(cert)' PROVE SiteInv' /\ Fine
  <2>1. TypedSite'
    BY <1>i, <1>2, SiteTyped
  <2>2. PlanSound' /\ PromiseServed'
    BY <1>i, <1>2, PlanStands
  <2> QED BY <1>2, <2>1, <2>2 DEF SiteInv
<1>3. cert \in [Sess -> PromiseRow]
  BY <1>i DEF TypedSite
<1> HIDE DEF Fine
<1>4. ASSUME NEW s \in Sess, CertifySession(s) PROVE SiteInv' /\ Fine
  <2>1. {s} \in SUBSET Sess /\ Usable(SiteCap) \in Nat /\ sess \in [Sess -> SessRow]
    BY <1>i, CapIs DEF TypedSite
  <2>2. {s} \subseteq Begun
    BY <1>4 DEF CertifySession, Charging, Begun
  <2>3. PICK c : c = Certify({s}, Usable(SiteCap))
    OBVIOUS
  <2>4. c \in [Sess -> PromiseRow] /\ Bearable(c)
    BY <1>i, <1>3, <2>1, <2>2, <2>3, CertifyIs
  <2>5. cert' = c /\ UNCHANGED <<sess, plan, dec>>
    BY <1>4, <2>3 DEF CertifySession
  <2>6. Bearable(cert)'
    BY <2>4, <2>5 DEF Bearable
  <2> QED BY <1>2, <2>4, <2>5, <2>6
<1>5. ASSUME VerifyCompliance PROVE SiteInv' /\ Fine
  <2>1. \A s \in Sess : [cert[s] EXCEPT !.status = "ERODED"] \in PromiseRow
    BY <1>3 DEF PromiseRow
  <2>2. cert' \in [Sess -> PromiseRow]
    BY <1>3, <1>5, <2>1 DEF VerifyCompliance
  <2>3. \A s \in Sess : cert'[s].status = "ACTIVE" => cert'[s] = cert[s]
    BY <1>3, <1>5 DEF VerifyCompliance, PromiseRow
  <2>4. Declared \subseteq Sess /\ sess' = sess
    BY <1>5, PlanAssumption DEF VerifyCompliance, Sess
  <2>5. Bearable(cert)'
    BY <1>i, <2>3, <2>4 DEF Bearable
  <2> QED BY <1>2, <1>5, <2>2, <2>5 DEF VerifyCompliance
<1>6. ASSUME UNCHANGED <<sess, cert, plan, dec>> PROVE SiteInv' /\ Fine
  <2>1. Bearable(cert)'
    BY <1>i, <1>6 DEF Bearable
  <2> QED BY <1>2, <1>3, <1>6, <2>1
<1>b. ASSUME UNCHANGED <<cert, plan, dec>>,
             \A s \in Declared : Bearing(sess[s], cert[s]) => Bearing(sess'[s], cert[s])
      PROVE  SiteInv' /\ Fine
  <2>1. Bearable(cert)'
    BY <1>i, <1>b DEF Bearable
  <2> QED BY <1>2, <1>3, <1>b, <2>1
<1>d. Declared \subseteq Sess /\ sess \in [Sess -> SessRow]
  BY <1>i, PlanAssumption DEF Sess, TypedSite
<1>7. ASSUME NEW a \in Admin, ApproveGridAsset(a) PROVE SiteInv' /\ Fine
  BY <1>6, <1>7 DEF ApproveGridAsset
<1>8. ASSUME NEW a \in Admin, NEW cap \in SiteCaps, UpsertGridAsset(a, cap) PROVE SiteInv' /\ Fine
  BY <1>6, <1>8 DEF UpsertGridAsset
<1>9. ASSUME NEW m, SetMode(m) PROVE SiteInv' /\ Fine
  BY <1>6, <1>9 DEF SetMode
<1>10. ASSUME NEW s \in Sess, End(s) PROVE SiteInv' /\ Fine
  <2>1. sess' = [sess EXCEPT ![s] = [NotBegun EXCEPT !.state = "DONE"]]
    BY <1>10 DEF End
  <2>2. ASSUME NEW o \in Declared, Bearing(sess[o], cert[o]) PROVE Bearing(sess'[o], cert[o])
    <3>1. CASE o = s
      <4>1. sess'[o].state = "DONE" /\ sess'[o].need = 0
        BY <1>d, <2>1, <3>1 DEF NotBegun
      <4> QED BY <4>1, Bounds DEF Bearing
    <3>2. CASE o # s
      BY <1>d, <2>1, <2>2, <3>2
    <3> QED BY <3>1, <3>2
  <2> QED BY <1>b, <1>10, <2>2 DEF End
<1>11. ASSUME NEW s \in Sess, NEW ask \in Ask, Begin(s, ask) PROVE SiteInv' /\ Fine
  <2>1. ASSUME NEW o \in Declared, Bearing(sess[o], cert[o]) PROVE Bearing(sess'[o], cert[o])
    <3>1. o # s
      BY <1>11, <2>1 DEF Begin, Bearing
    <3>2. sess'[o] = sess[o]
      BY <1>d, <1>11, <3>1 DEF Begin
    <3> QED BY <2>1, <3>2
  <2> QED BY <1>b, <1>11, <2>1 DEF Begin
<1>12. ASSUME NEW i, NEW answer, Acked(i, answer) PROVE SiteInv' /\ Fine
  BY <1>6, <1>12 DEF Acked
<1>13. ASSUME NEW got \in [Sess -> 0 .. Rate], Elapse(got) PROVE SiteInv' /\ Fine
  <2>1. ASSUME NEW o \in Declared, Bearing(sess[o], cert[o]) PROVE Bearing(sess'[o], cert[o])
    <3>1. PICK r, g : r = sess[o] /\ g = got[o]
      OBVIOUS
    <3>2. o \in Sess /\ r \in SessRow /\ g \in Nat
      BY <1>d, <3>1, Bounds
    <3>3. r.need \in Nat
      BY <3>2 DEF SessRow
    <3>4. sess'[o].state = r.state /\ (sess'[o].need = r.need \/ sess'[o].need = Remaining(r.need, g))
      <4>1. CASE o \notin Charging
        BY <1>13, <3>1, <3>2, <4>1 DEF Elapse
      <4>2. CASE o \in Charging
        <5>1. sess'[o] = [sess[o] EXCEPT !.need = Remaining(@, got[o]),
                            !.due = IF @ = NoDeadline THEN @ ELSE IF @ = 0 THEN 0 ELSE @ - 1]
          BY <1>13, <3>2, <4>2 DEF Elapse
        <5> QED BY <3>1, <3>2, <5>1 DEF SessRow
      <4> QED BY <4>1, <4>2
    <3>5. Remaining(r.need, g) \in Nat /\ Remaining(r.need, g) <= r.need
      BY <3>2, <3>3 DEF Remaining
    <3>6. r.state # "NONE" /\ (r.need <= Rate \/ cert[o].floor <= Least)
      BY <2>1, <3>1 DEF Bearing
    <3> QED BY <3>3, <3>4, <3>5, <3>6, Bounds DEF Bearing
  <2> QED BY <1>b, <1>13, <2>1 DEF Elapse
<1>14. ASSUME UNCHANGED vars PROVE SiteInv' /\ Fine
  BY <1>6, <1>14 DEF vars
<1>15. SiteInv' /\ Fine
  BY <1>1, <1>4, <1>5, <1>7, <1>8, <1>9, <1>10, <1>11, <1>12, <1>13, <1>14 DEF Next
<1> QED BY <1>15 DEF Fine

LEMMA SiteInit == Init => SiteInv
<1> SUFFICES ASSUME Init PROVE SiteInv
  OBVIOUS
<1>1. NotBegun \in SessRow /\ NoCert \in PromiseRow
  BY Bounds DEF NotBegun, NoCert, SessRow, PromiseRow
<1>2. Declared \subseteq Sess
  BY PlanAssumption DEF Sess
<1>3. Bearable(cert)
  BY <1>2 DEF Init, Bearable, NoCert
<1> QED BY <1>1, <1>3 DEF Init, SiteInv, TypedSite, PlanSound, PromiseServed

(* Whatever the sessions, caps, tariffs and horizon, the three passes of   *)
(* solveSchedule keep every plan to the usable cap, give no vehicle more   *)
(* than it needs and nothing past its deadline.                            *)
THEOREM PlansAreSound == Spec => []PlanSound
<1>1. SiteInv => PlanSound
  BY DEF SiteInv
<1>2. SiteInv /\ [Next]_vars => SiteInv'
  BY SiteStep
<1> QED BY <1>1, <1>2, SiteInit, PTL DEF Spec

(* Certified floors that fit the cap together are served by the deadlines, *)
(* whatever the other vehicles need and whatever the cost pass moves       *)
(* (controller.js, "the floor is honoured by the scheduler").              *)
THEOREM PromisesAreServed == Spec => []PromiseServed
<1>1. SiteInv => PromiseServed
  BY DEF SiteInv
<1>2. SiteInv /\ [Next]_vars => SiteInv'
  BY SiteStep
<1> QED BY <1>1, <1>2, SiteInit, PTL DEF Spec

(* A plan cycle of certifySite never promises more than the usable cap     *)
(* when what stood before it did not.                                      *)
THEOREM CyclesNeverOvercommit == Spec => NeverOvercommits
<1>1. SiteInv /\ [Next]_vars => SiteInv'
  BY SiteStep
<1>2. SiteInv /\ [Next]_vars =>
        [dec' # dec /\ Committed(cert) <= Usable(SiteCap) => Committed(cert') <= Usable(SiteCap)]_vars
  BY SiteStep
<1> QED BY <1>1, <1>2, SiteInit, PTL DEF Spec, NeverOvercommits
=============================================================================
