--------------------------- MODULE ControlMirror ----------------------------
(***************************************************************************)
(* The rows of grid control, in memory and in Oracle                       *)
(* (src/apps/api/src/db/store.js, wrapControl of db/oracle.js): electrical *)
(* assets, optimizer decisions, feasibility certificates, profile pushes   *)
(* and dead letters.  Memory is changed at once and answered; the mirrors  *)
(* follow in a queue of their own and nobody waits for them.               *)
(*                                                                         *)
(* A mirror writes what memory holds when its turn comes.  An UPDATE of a  *)
(* row that is not there is no error.  The triggers of grid_asset read the *)
(* table they guard, which Oracle may refuse: any mirror may fail.         *)
(***************************************************************************)
EXTENDS Naturals, Sequences, FiniteSets, FiniteSetsExt, SequencesExt

CONSTANTS
  Staff, Ref, Absent,
  Cap,      \* kilowatts
  MaxRows,  \* bound: rows of each table
  MaxJobs   \* bound: mirrors waiting

Table == {"assets", "decisions", "certs", "pushes", "letters"}

VARIABLES
  mem,     \* the store's maps
  ora,     \* the tables of V007
  queue,   \* controlChain
  counted, \* _mirrorErrors is not zero
  gone,    \* the rows whose INSERT failed, or was merged into an older letter's
  unsent   \* the rows created with no INSERT: their request named an unknown id

ctlVars == <<mem, ora, queue, counted, gone, unsent>>

AssetRow == [parent : 0 .. MaxRows["assets"], cap : Cap, status : {"ACTIVE", "PENDING"}, by : Staff]
PushRow == [decision : 1 .. MaxRows["decisions"], ack : {Absent, "Accepted", "Rejected"}]
LetterRow == [ref : Ref, status : {"OPEN", "REPLAYED", "DISMISSED"}]
CertRow == {"ACTIVE", "FAILED", "ERODED", "MET"}

ASSUME ControlAssumption ==
  /\ MaxRows \in [Table -> Nat] /\ Cap \subseteq Nat
  /\ Absent \notin AssetRow \cup PushRow \cup LetterRow \cup CertRow \cup {"COMMITTED"}

NoRows == [t \in Table |-> [i \in 1 .. MaxRows[t] |-> Absent]]

CtlInit ==
  /\ mem = NoRows /\ ora = NoRows
  /\ queue = <<>> /\ counted = FALSE /\ gone = {} /\ unsent = {}

Ids(rows, t) == {i \in DOMAIN rows[t] : rows[t][i] # Absent}
NextId(t) == IF Ids(mem, t) = {} THEN 1 ELSE Max(Ids(mem, t)) + 1
Space(t) == NextId(t) <= MaxRows[t] /\ Len(queue) < MaxJobs

(* The local half of every operation, and the mirror it leaves behind: an  *)
(* UPDATE, even of a new row, when the request named an asset.             *)
Write(t, i, row, op) ==
  /\ Len(queue) < MaxJobs
  /\ mem' = [mem EXCEPT ![t][i] = row]
  /\ queue' = Append(queue, [op |-> op, table |-> t, id |-> i])
  /\ unsent' = IF op = "update" /\ i \notin Ids(mem, t) THEN unsent \cup {<<t, i>>} ELSE unsent
  /\ UNCHANGED <<ora, counted, gone>>

-----------------------------------------------------------------------------
(* upsertGridAsset.  The request's kind and parent are checked, also when  *)
(* it names an asset, whose own stay.  A root has no parent (0) and is     *)
(* alone on its site; a child may not exceed its parent.                   *)
Shaped(parent, cap, asset) ==
  IF parent = 0 THEN \A a \in Ids(mem, "assets") \ {asset} : mem["assets"][a].parent # 0
  ELSE parent \in Ids(mem, "assets") /\ cap <= mem["assets"][parent].cap

(* named: the request's asset_id is one that memory does not hold.         *)
CreateAsset(parent, cap, who, named) ==
  /\ Space("assets") /\ Shaped(parent, cap, 0)
  /\ Write("assets", NextId("assets"),
           [parent |-> parent, cap |-> cap, status |-> "ACTIVE", by |-> who],
           IF named THEN "update" ELSE "insert")

(* Less than before waits for a second person; as much or more does not.   *)
ChangeAsset(a, parent, cap, who) ==
  /\ a \in Ids(mem, "assets") /\ Shaped(parent, cap, a)
  /\ LET old == mem["assets"][a]
     IN  Write("assets", a,
               IF cap < old.cap THEN [old EXCEPT !.cap = cap, !.status = "PENDING", !.by = who]
               ELSE [old EXCEPT !.cap = cap, !.status = "ACTIVE"], "update")

ApproveAsset(a, who) ==
  /\ a \in Ids(mem, "assets")
  /\ LET old == mem["assets"][a]
     IN  /\ old.status = "PENDING" /\ old.by # who
         /\ Write("assets", a, [old EXCEPT !.status = "ACTIVE"], "approve")

(* setControlMode: the mirror is the audit row alone.                      *)
SetControlMode ==
  /\ Len(queue) < MaxJobs
  /\ queue' = Append(queue, [op |-> "audit", table |-> "assets", id |-> 0])
  /\ UNCHANGED <<mem, ora, counted, gone, unsent>>

-----------------------------------------------------------------------------
(* Decisions, certificates, pushes and letters.                            *)
RecordDecision ==
  Space("decisions") /\ Write("decisions", NextId("decisions"), "COMMITTED", "insert")

IssueCertificate(admitted) ==
  /\ Space("certs")
  /\ Write("certs", NextId("certs"), IF admitted THEN "ACTIVE" ELSE "FAILED", "insert")

Legal == ("ISSUED" :> {"ACTIVE", "FAILED"}) @@ ("ACTIVE" :> {"ERODED", "FAILED", "MET"})
         @@ ("ERODED" :> {"FAILED", "MET", "ACTIVE"})

TransitionCertificate(c, to) ==
  /\ c \in Ids(mem, "certs") /\ mem["certs"][c] \in DOMAIN Legal
  /\ to \in Legal[mem["certs"][c]]
  /\ Write("certs", c, to, "update")

(* recordProfilePush: once for a charge point and a decision.              *)
RecordProfilePush(d) ==
  /\ Space("pushes") /\ d \in Ids(mem, "decisions")
  /\ \A p \in Ids(mem, "pushes") : mem["pushes"][p].decision # d
  /\ Write("pushes", NextId("pushes"), [decision |-> d, ack |-> Absent], "insert")

SetPushAck(p, ack) ==
  /\ p \in Ids(mem, "pushes")
  /\ Write("pushes", p, [mem["pushes"][p] EXCEPT !.ack = ack], "update")

Letter(ref) == {l \in Ids(mem, "letters") : mem["letters"][l].ref = ref}

DeadLetter(ref) ==
  \/ /\ Letter(ref) = {} /\ Space("letters")
     /\ Write("letters", NextId("letters"), [ref |-> ref, status |-> "OPEN"], "merge")
  \/ \E l \in Letter(ref) : Write("letters", l, mem["letters"][l], "merge")

ResolveDeadLetter(l, action) ==
  /\ l \in Ids(mem, "letters")
  /\ Write("letters", l, [mem["letters"][l] EXCEPT !.status = action], "resolve")

-----------------------------------------------------------------------------
(* The mirrors.                                                            *)

(* Mutant of FirstJob: every mirror takes a connection of its own.         *)
AnyJob == DOMAIN queue

FirstJob == DOMAIN queue \cap {1}

(* The rows a mirror finds in the table: a parent, a decision, or its own. *)
Needs(job) ==
  LET row == mem[job.table][job.id]
  IN  CASE job.op \in {"update", "approve", "resolve"} -> {<<job.table, job.id>>}
        [] job.op = "insert" /\ job.table = "assets" /\ row.parent # 0 -> {<<"assets", row.parent>>}
        [] job.op = "insert" /\ job.table = "pushes" -> {<<"decisions", row.decision>>}
        [] OTHER -> {}

In(need) == ora[need[1]][need[2]] # Absent

(* What the keys and triggers allow: ids and references once, the needed   *)
(* row, and a cap no higher than the parent's.                             *)
Fits(job) ==
  LET row == mem[job.table][job.id]
  IN  job.op = "insert" =>
        /\ ~In(<<job.table, job.id>>) /\ \A n \in Needs(job) : In(n)
        /\ job.table = "assets" /\ row.parent # 0 => row.cap <= ora["assets"][row.parent].cap
        /\ job.table = "pushes" =>
             \A p \in Ids(ora, "pushes") : ora["pushes"][p].decision # row.decision

(* The rows in which Oracle already knows a letter's reference.            *)
Known(job) == {l \in Ids(ora, "letters") : ora["letters"][l].ref = mem["letters"][job.id].ref}

(* The row as the statement leaves it.                                     *)
Stated(job) ==
  LET row == mem[job.table][job.id]
      old == ora[job.table][job.id]
  IN  CASE job.op = "update" /\ job.table = "assets" ->
             [old EXCEPT !.cap = row.cap, !.status = row.status]
        [] job.op = "update" /\ job.table = "pushes" -> [old EXCEPT !.ack = row.ack]
        [] job.op \in {"approve", "resolve"} -> [old EXCEPT !.status = row.status]
        [] OTHER -> row

Writes(job) ==
  CASE job.op = "audit" -> FALSE
    [] job.op = "insert" -> TRUE
    [] job.op = "merge" -> Known(job) = {}
    [] OTHER -> In(<<job.table, job.id>>)

Stores(job) ==
  IF Writes(job) THEN [ora EXCEPT ![job.table][job.id] = Stated(job)] ELSE ora

ControlMirrored ==
  \E n \in FirstJob :
    LET job == queue[n]
    IN  /\ Fits(job)
        /\ job.op = "merge" => Known(job) # {} \/ ~In(<<"letters", job.id>>)
        /\ ora' = Stores(job)
        /\ gone' = IF job.op = "merge" /\ Known(job) \ {job.id} # {}
                   THEN gone \cup {<<"letters", job.id>>} ELSE gone
        /\ queue' = RemoveAt(queue, n)
        /\ UNCHANGED <<mem, counted, unsent>>

(* Mutant of Counts: the failures of assets go unseen.                     *)
CountsAudit(job) == job.op \in {"audit", "resolve"}

Counts(job) == job.table = "assets" \/ job.op = "resolve"

ControlFails ==
  \E n \in FirstJob :
    LET job == queue[n]
    IN  /\ counted' = (counted \/ Counts(job))
        /\ gone' = IF job.op \in {"insert", "merge"} THEN gone \cup {<<job.table, job.id>>} ELSE gone
        /\ queue' = RemoveAt(queue, n)
        /\ UNCHANGED <<mem, ora, unsent>>

(* hydrate reads assets, decisions and certificates; pushes and letters    *)
(* begin with their first id again.                                        *)
RestartControl ==
  /\ mem' = [ora EXCEPT !["pushes"] = NoRows["pushes"], !["letters"] = NoRows["letters"]]
  /\ queue' = <<>> /\ counted' = FALSE /\ gone' = {} /\ unsent' = {}
  /\ UNCHANGED ora

CtlNext ==
  \/ \E parent \in 0 .. MaxRows["assets"], cap \in Cap, who \in Staff :
       \/ \E named \in BOOLEAN : CreateAsset(parent, cap, who, named)
       \/ \E a \in 1 .. MaxRows["assets"] : ChangeAsset(a, parent, cap, who)
  \/ \E a \in 1 .. MaxRows["assets"], who \in Staff : ApproveAsset(a, who)
  \/ SetControlMode \/ RecordDecision
  \/ \E admitted \in BOOLEAN : IssueCertificate(admitted)
  \/ \E c \in 1 .. MaxRows["certs"], to \in {"ERODED", "FAILED", "MET", "ACTIVE"} :
       TransitionCertificate(c, to)
  \/ \E d \in 1 .. MaxRows["decisions"] : RecordProfilePush(d)
  \/ \E p \in 1 .. MaxRows["pushes"], ack \in {"Accepted", "Rejected"} : SetPushAck(p, ack)
  \/ \E ref \in Ref : DeadLetter(ref)
  \/ \E l \in 1 .. MaxRows["letters"], action \in {"REPLAYED", "DISMISSED"} :
       ResolveDeadLetter(l, action)
  \/ ControlMirrored \/ ControlFails \/ RestartControl

-----------------------------------------------------------------------------
(* The mirrors land in the order of the local writes: when one's turn      *)
(* comes, the parent, the decision or the row it needs is in Oracle,       *)
(* unless its own mirror failed, or found its letter under the id of an    *)
(* earlier process, or was no INSERT (oracle.js: "a child grid asset can   *)
(* reference a parent whose INSERT is still in flight").                   *)
NeededRowsFirst ==
  \A n \in FirstJob : \A need \in Needs(queue[n]) : In(need) \/ need \in gone \cup unsent

(* Oracle holds the electrical limit that the planner uses.                *)
Agree(a) ==
  LET m == mem["assets"][a] o == ora["assets"][a]
  IN  IF m = Absent \/ o = Absent THEN m = o
      ELSE m.parent = o.parent /\ m.cap = o.cap /\ m.status = o.status

(* Nobody waits for a mirror, but the electrical limits Oracle holds       *)
(* differ unseen from those the planner uses only in the rows that were    *)
(* never sent: once the queue is empty all others agree, or /health        *)
(* reports mirror errors (wrapControl: "divergence is observable instead   *)
(* of assumed").  An asset created by a request that names an unknown id   *)
(* is mirrored by an UPDATE of no row, which is no error.                  *)
DivergenceCounted ==
  queue = <<>> /\ ~counted =>
    \A a \in DOMAIN mem["assets"] : Agree(a) \/ <<"assets", a>> \in unsent

(* Writes answered before they are mirrored end up in Oracle, in an order  *)
(* that its keys accept, or are seen not to.                               *)
ControlDurable == NeededRowsFirst /\ DivergenceCounted
=============================================================================
