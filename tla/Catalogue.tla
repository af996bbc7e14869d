----------------------------- MODULE Catalogue ------------------------------
(***************************************************************************)
(* What an administrator maintains, in memory and in Oracle: tariff        *)
(* versions, stations and charge points                                    *)
(* (src/apps/api/src/db/store.js, db/oracle.js).                           *)
(*                                                                         *)
(* A handler changes memory, then waits for its turn on the mirror         *)
(* connection, writes its rows in one transaction, and takes back what it  *)
(* changed when that fails.  No one else writes these tables, and an       *)
(* administrator changes one station at a time.                            *)
(***************************************************************************)
EXTENDS Naturals, Sequences, FiniteSets, FiniteSetsExt

CONSTANTS
  Ident,      \* OCPP identities
  None,
  MaxPlan, MaxStation, MaxCp   \* bounds: ids given out

Plan == 1 .. MaxPlan
Station == 1 .. MaxStation
Cp == 1 .. MaxCp

PlanRow == [open : BOOLEAN, supersedes : 0 .. MaxPlan]
CpRow == [station : Station, ident : Ident]

ASSUME CatalogueAssumption ==
  /\ MaxPlan \in Nat \ {0} /\ MaxStation \in Nat /\ MaxCp \in Nat
  /\ IsFiniteSet(Ident)
  /\ None \notin PlanRow \cup CpRow \cup Cp \cup {"ACTIVE", "INACTIVE"}

VARIABLES
  plans, stations, cps, \* the store's maps
  byOcpp,               \* store.cpsByOcpp
  seq,                  \* store.seq
  db,                   \* the tables
  jobs                  \* the mirrors waiting for their turn, in order

catVars == <<plans, stations, cps, byOcpp, seq, db, jobs>>

(* The seed: one open version of the tariff.                               *)
CatInit ==
  /\ plans = [p \in Plan |-> IF p = 1 THEN [open |-> TRUE, supersedes |-> 0] ELSE None]
  /\ stations = [s \in Station |-> None]
  /\ cps = [c \in Cp |-> None]
  /\ byOcpp = [x \in Ident |-> None]
  /\ seq = [plan |-> 1, station |-> 0, cp |-> 0]
  /\ db = [plans |-> plans, stations |-> stations, cps |-> cps]
  /\ jobs = <<>>

Rows(map) == {k \in DOMAIN map : map[k] # None}
Queue(job) == jobs' = Append(jobs, job)

-----------------------------------------------------------------------------
(* createTariffVersion: the newest version, as memory has it, is closed    *)
(* and superseded.  version_no follows the order of the ids.               *)
Newest == Max(Rows(plans))

CreateTariffVersion ==
  /\ seq.plan < MaxPlan
  /\ LET p == seq.plan + 1
     IN  /\ plans' = [plans EXCEPT ![p] = [open |-> TRUE, supersedes |-> Newest],
                                   ![Newest].open = FALSE]
         /\ Queue([kind |-> "plan", id |-> p, before |-> plans[Newest].open])
         /\ seq' = [seq EXCEPT !.plan = p]
  /\ UNCHANGED <<stations, cps, byOcpp, db>>

(* The version superseded must be open in Oracle.                          *)
PlanFits(p) ==
  LET prev == plans[p].supersedes IN db.plans[prev] # None /\ db.plans[prev].open

PlanRows(p) ==
  [db EXCEPT !.plans[p] = [open |-> TRUE, supersedes |-> plans[p].supersedes],
             !.plans[plans[p].supersedes].open = FALSE]

(* Mutant of PlanUndone: the version it superseded stays closed.           *)
KeepsClosed(job) == [plans EXCEPT ![job.id] = None]

PlanUndone(job) ==
  LET prev == plans[job.id].supersedes
  IN  [p \in Plan |-> IF p = job.id THEN None
                      ELSE IF p = prev /\ plans[p] # None THEN [plans[p] EXCEPT !.open = job.before]
                      ELSE plans[p]]

-----------------------------------------------------------------------------
(* Hardware.  Charge points get the next ids, and their identities must be *)
(* free in memory.                                                         *)
NewCps(s, ids) ==
  LET n == seq.cp + 1 .. seq.cp + Cardinality(ids)
  IN  {f \in [n -> [station : {s}, ident : ids]] :
         \A c, d \in n : c # d => f[c].ident # f[d].ident}

Fresh(ids) == \A x \in ids : byOcpp[x] = None

WithCps(f) ==
  /\ cps' = [c \in Cp |-> IF c \in DOMAIN f THEN f[c] ELSE cps[c]]
  /\ byOcpp' = [x \in Ident |-> IF \E c \in DOMAIN f : f[c].ident = x
                               THEN CHOOSE c \in DOMAIN f : f[c].ident = x ELSE byOcpp[x]]

(* provisionStation: every identity is looked at before anything changes.  *)
ProvisionStation(ids) ==
  /\ seq.station < MaxStation /\ seq.cp + Cardinality(ids) <= MaxCp
  /\ Fresh(ids)
  /\ LET s == seq.station + 1
     IN  /\ stations' = [stations EXCEPT ![s] = "ACTIVE"]
         /\ \E f \in NewCps(s, ids) : WithCps(f) /\ Queue([kind |-> "station", id |-> s, cps |-> f])
         /\ seq' = [seq EXCEPT !.station = s, !.cp = @ + Cardinality(ids)]
  /\ UNCHANGED <<plans, db>>

ProvisionChargePoint(s, x) ==
  /\ stations[s] # None /\ seq.cp < MaxCp /\ Fresh({x})
  /\ \E f \in NewCps(s, {x}) : WithCps(f) /\ Queue([kind |-> "cp", id |-> s, cps |-> f])
  /\ seq' = [seq EXCEPT !.cp = @ + 1]
  /\ UNCHANGED <<plans, stations, db>>

(* The foreign key of charge_point, and its unique identity.               *)
HardwareFits(job) ==
  /\ job.kind = "cp" => db.stations[job.id] # None
  /\ \A c \in DOMAIN job.cps : \A d \in Rows(db.cps) : db.cps[d].ident # job.cps[c].ident

HardwareRows(job) ==
  [db EXCEPT !.stations[job.id] = IF job.kind = "station" THEN "ACTIVE" ELSE @,
             !.cps = [c \in Cp |-> IF c \in DOMAIN job.cps THEN job.cps[c] ELSE @[c]]]

HardwareUndone(job) ==
  /\ stations' = IF job.kind = "station" THEN [stations EXCEPT ![job.id] = None] ELSE stations
  /\ cps' = [c \in Cp |-> IF c \in DOMAIN job.cps THEN None ELSE cps[c]]
  /\ byOcpp' = [x \in Ident |-> IF \E c \in DOMAIN job.cps : job.cps[c].ident = x THEN None
                               ELSE byOcpp[x]]

(* updateStation.                                                          *)
Updating == {jobs[j].id : j \in {k \in DOMAIN jobs : jobs[k].kind = "update"}}

UpdateStation(s, to) ==
  /\ stations[s] # None /\ s \notin Updating
  /\ stations' = [stations EXCEPT ![s] = to]
  /\ Queue([kind |-> "update", id |-> s, before |-> stations[s]])
  /\ UNCHANGED <<plans, cps, byOcpp, seq, db>>

(* A row that is not there is no error.                                    *)
UpdatedRow(s) ==
  IF db.stations[s] = None \/ stations[s] = None THEN db
  ELSE [db EXCEPT !.stations[s] = stations[s]]

UpdateUndone(job) == [stations EXCEPT ![job.id] = IF @ = None THEN None ELSE job.before]

-----------------------------------------------------------------------------
(* The first mirror in the queue commits, or fails as a whole; it fails    *)
(* when its rows do not fit, or for any reason of Oracle's.                *)
RowsFit(job) ==
  CASE job.kind = "plan" -> PlanFits(job.id)
    [] job.kind = "update" -> TRUE
    [] OTHER -> HardwareFits(job)

CatalogueStored ==
  /\ jobs # <<>> /\ RowsFit(Head(jobs))
  /\ LET job == Head(jobs)
     IN  db' = CASE job.kind = "plan" -> PlanRows(job.id)
                 [] job.kind = "update" -> UpdatedRow(job.id)
                 [] OTHER -> HardwareRows(job)
  /\ jobs' = Tail(jobs)
  /\ UNCHANGED <<plans, stations, cps, byOcpp, seq>>

PlanFails ==
  /\ jobs # <<>> /\ Head(jobs).kind = "plan"
  /\ plans' = PlanUndone(Head(jobs))
  /\ jobs' = Tail(jobs)
  /\ UNCHANGED <<stations, cps, byOcpp, seq, db>>

HardwareFails ==
  /\ jobs # <<>> /\ Head(jobs).kind \in {"station", "cp"}
  /\ HardwareUndone(Head(jobs))
  /\ jobs' = Tail(jobs)
  /\ UNCHANGED <<plans, seq, db>>

UpdateFails ==
  /\ jobs # <<>> /\ Head(jobs).kind = "update"
  /\ stations' = UpdateUndone(Head(jobs))
  /\ jobs' = Tail(jobs)
  /\ UNCHANGED <<plans, cps, byOcpp, seq, db>>

(* hydrate after a restart: the mirrors that were waiting are gone, and    *)
(* the counters go on from the highest ids.                                *)
Top(map) == IF Rows(map) = {} THEN 0 ELSE Max(Rows(map))

Rehydrate ==
  /\ plans' = db.plans /\ stations' = db.stations /\ cps' = db.cps
  /\ byOcpp' = [x \in Ident |-> IF \E c \in Rows(db.cps) : db.cps[c].ident = x
                               THEN CHOOSE c \in Rows(db.cps) : db.cps[c].ident = x ELSE None]
  /\ seq' = [plan |-> Top(db.plans), station |-> Top(db.stations), cp |-> Top(db.cps)]
  /\ jobs' = <<>>
  /\ UNCHANGED db

CatNext ==
  \/ CreateTariffVersion
  \/ \E ids \in SUBSET Ident : ProvisionStation(ids)
  \/ \E s \in Station, x \in Ident : ProvisionChargePoint(s, x)
  \/ \E s \in Station, to \in {"ACTIVE", "INACTIVE"} : UpdateStation(s, to)
  \/ CatalogueStored \/ PlanFails \/ HardwareFails \/ UpdateFails
  \/ Rehydrate

-----------------------------------------------------------------------------
(* Whatever was staged on top of what, and whichever of it failed, once no *)
(* mirror is waiting memory is what a restart would read, exactly one      *)
(* version of the tariff is open, and the gateway finds every charge point *)
(* under its identity (oracle.js: "Undo on mirror failure leaves no ghost  *)
(* station/CP/connector in the cache").                                    *)
CatalogueMirrored ==
  /\ jobs = <<>> => /\ db = [plans |-> plans, stations |-> stations, cps |-> cps]
                    /\ Cardinality({p \in Rows(plans) : plans[p].open}) = 1
  /\ \A x \in Ident : IF byOcpp[x] = None THEN \A c \in Rows(cps) : cps[c].ident # x
                      ELSE cps[byOcpp[x]] # None /\ cps[byOcpp[x]].ident = x
=============================================================================
