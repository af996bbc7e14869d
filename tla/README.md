# VoltHub CSMS: models and proofs

VoltHub is a charging-station management system: a Node.js API that keeps its
state in one in-memory store and, when it is configured so, writes it through to
Oracle; an OCPP 1.6 gateway for the charge points; a relay worker that moves
events to TimescaleDB and triggers housekeeping; a web console. This directory
holds TLA+ models of it, the TLC configurations that check them on small
instances, and TLAPS proofs for instances of every size.

## The system

| Part | State it keeps | Operations | What is hard |
|---|---|---|---|
| Booking engine (`apps/api/src/db/store.js`) | `reservations`, `sessions`, `connectors[].status`, the chains of `Mutex` | `createReservation`, `cancelReservation`, `expireStale`, `startSession`, `transition`, `recordTick`, `stopSession` | three kinds of keys, one taken inside another; state read before a key is free; status written without the key |
| Metering and billing (`store.js`, `oracle.js`, `ocpp/gateway.js`) | readings, tick cursor, `end_meter_kwh`, invoices, in memory and in Oracle | StartTransaction, MeterValues, StopTransaction, remote stop, bill | registers read outside the key; ticks that overtake one another; a bill asked for again |
| Wallet rail (`store.js`, `wallet/rail.js`, `oracle.js`) | challenges, links, intents, balances, ledger | challenge, link, intent, settle, top up, pay | single use under an awaited mirror, expiry by bystanders, undo of a link |
| Outbox (`store.js`, `routes.js`) and relay worker (`apps/worker`) | `outbox`, its keys, dead letters, the sink, `outbox_event` | emit, poll, write, quarantine, ack, prune | crash between write and ack, duplicates, poison rows, caps, ids that differ between memory and Oracle |
| Oracle adapter (`db/oracle.js`) | the durable rows, id maps, the queue of mirrors | a wrapper per port, with its undo; `hydrate` | one half fails, the other has changed meanwhile; two numberings |
| PL/SQL packages (`db/oracle/*.sql`) | rows under row locks | `reservation_pkg`, `charge_session_pkg`, `billing_pkg` | two lock orders; reads of rows nobody has locked |
| OCPP gateway (`ocpp/*.js`) | socket registry, pending calls, audit rows | connection, push, remote call, awaited command, answer, sweep | reconnects, late answers, calls that time out twice |
| Grid control (`control/*.js`, `control-routes.js`) | assets, mode, certificates, decisions, profiles | cap and its approval, certify, plan, push, verify | promises made one by one against a cap that changes |
| Users (`middleware/auth.js`, `routes.js`) | accounts, refresh tokens | register, log in, refresh, log out, suspend | duplicate checks across an await, ids taken by others, reuse of tokens |
| Catalogue (`store.js`, `oracle.js`) | tariff versions, stations, charge points | new version, provision, update | a change staged on one whose mirror then fails |
| HTTP hardening (`middleware/security.js`) | sliding windows | a request, the sweep | a sweep between two requests of one bucket |
| Web console (`apps/web/src/lib/ui.js`) | token, refresh in flight, timers, abort controllers | `api`, `refreshAccessToken`, `logout`, `usePoll` | calls refused together, answers of a page already left |
| Carbon, seeds, Timescale reader, simulator, forecasting | tables, demo data, none | | arithmetic, presentation, test clients |

How they meet. REST routes and OCPP frames call the store's ports. A port that
must be serialised takes a key of the store's promise-chain mutex (`conn:` per
connector, `sess:` per session, `res:` per reservation, `inv:` per invoice,
`intent:` per top-up). With Oracle, `oracle.js` wraps every port: bookings,
ticks, stops and payments go to Oracle first and to memory after its answer;
session starts, top-ups, links, users and the catalogue change memory first and
are undone when Oracle refuses; grid control is answered from memory and
mirrored later. The gateway's StatusNotification and the maintenance routes
write `connector.status` directly. The store appends events to the outbox; the
worker polls them over HTTP, writes them to the sink, acknowledges them, and
calls `POST /internal/expire`, which runs `expireStale`.

## Modules

| Module | Models | Composes or extends |
|---|---|---|
| `ChargingStore` | the booking engine with its key chains | refines `Booking` |
| `Booking` | what the engine promises: atomic grant, withdrawal, arrival, departure | implemented by `ChargingStore` and by `OracleLocks` |
| `ConnectorFleet` | the engine plus StatusNotification, fault reports and repairs | extends `ChargingStore` |
| `OracleLocks` | the booking packages as transactions under row locks, statement by statement | refines `Booking` |
| `WriteThrough` | bookings and sessions in memory and in Oracle, with failures and restarts | |
| `Metering` | registers, readings, end meter and invoice, from frame to both copies | |
| `WalletRail` | links, signed and plain top-ups, payments, in both copies | |
| `OutboxRelay` | the outbox and the relay worker, the API staying up | |
| `DurableOutbox` | the same with Oracle behind the store: the durable table, undone starts, restarts of the API | extends `OutboxRelay` |
| `OcppCalls` | connections, calls and answers of charge points | |
| `SitePlan` | the arithmetic of certificates and of the three-pass schedule | |
| `SiteControl` | assets, modes, certificates, plans, pushes and what is delivered | extends `SitePlan` |
| `Accounts` | registration, login, tokens, suspension, over two copies | |
| `Catalogue` | tariff versions, stations and charge points, in two copies | |
| `ControlMirror` | the rows of grid control and their queue of mirrors | |
| `Console`, `Poll` | one tab's calls with their shared refresh; the polling effect of a page | |
| `Limits` | the sliding windows and their sweep | |
| `MC_*` | symmetry sets, instances, several parts in one run (`MC_Records`, `MC_Plans`, `MC_Services`), the table sizes of `ControlMirror` (`MC_Services`) | |
| `*_proofs` | theorems about the module they are named after; `Records_proofs` is about `ChargingStore` and `ConnectorFleet` and about `OutboxRelay` and `DurableOutbox`, `Services_proofs` about the tokens of `Accounts`, about `Console`, `Poll`, `Limits` and `OcppCalls`, `Operator_proofs` about the two copies in `Accounts`, `Catalogue` and `ControlMirror` and about `SiteControl` | |
| `Sums` | lemmas only: what a sum over a finite set is, and what a fold keeps | |

### ChargingStore and ConnectorFleet

JavaScript runs one handler at a time and can only change hands at an `await`.
`Mutex.run` always suspends once, at `await prev`, and then runs the body. So an
operation is two steps: `Ask*` (the request joins the chain `connQ`, `sessQ` or
`resQ` of its key, with the arguments its body will read) and `Run*` or
`Refuse*` (the body of the request at the head of the chain). A body under
`conn:` has no await and is one step. `cancelReservation` and a
`transitionLocal` that ends a session await a `conn:` key inside their own, so
they are two steps: `RunCancel` / `RunEnd` put the row in `cancelling` /
`ending` and a `syncRes` / `syncSess` request on the connector's chain;
`RunSyncRes` / `RunSyncSess` run `syncConnectorHold` and leave the outer key.

| Code | Action |
|---|---|
| `vReservation`, then `createReservation` | `AskReserve`, `RunReserve`, `RefuseConn` |
| `startSession` (REST and OCPP StartTransaction) | `AskStart`, `RunStart` with `Claims`, `RefuseConn` |
| `expireStale` (one loop iteration per window) | `AskExpire`, `RunExpire`, `RefuseConn` |
| `cancelReservation` | `AskCancel`, `RunCancel`, `RunSyncRes`, `RefuseCancel` |
| `transitionLocal` | `AskMove`, `RunMove`, `RunEnd`, `RunSyncSess`, `RefuseSess` |
| `recordTick` (its effect on the state) | `AskTick`, `RunTick`, `RefuseSess` |
| `stopSession` (target chosen before the key) | `AskStop`, then as `transitionLocal` |
| the clock | `TimePasses` |

Abstracted: registers and prices (module `Metering`); audit rows,
notifications, outbox events and state events (written, never read by these
bodies); the operator's station scope (one `Staff` who may cancel anything).
Whether a tick is refused depends on registers, so any tick may be refused. A
time unit is a quarter of an hour, the shortest window; the one-minute tolerance
of "in the past" is below that grain.

### OutboxRelay and DurableOutbox

The worker (`stage`, `batch`, `bad`, `laps`) is a sequential program whose every
statement to the sink and call to the API may fail, stall past its time-out or
lose its answer; the API handles one request at a time. `queue` and `acked` are
`s.outbox` and its `processed_at`; `letters` are the dead-lettered keys; `sink`
is what the hypertables hold, under their dedupe keys.

| Code | Action |
|---|---|
| `emitOutbox`, with the prune past the soft cap | `Emit`, `PruneIfDue`, `Shed` |
| `GET /internal/outbox` and the poll | `Poll` |
| `writeSpecs`: commit, data-shaped error, any other error | `WriteBatch`, `WriteRejected`, `WriteFails` |
| `writeOneByOne`: all tried, or the sink lost on the way | `Isolate`, `IsolateFails` |
| `POST /internal/outbox/quarantine`, `/ack`, with the prune after it | `Quarantined`, `Acknowledged`; `Arrives` for a call the worker gave up on |
| `sweepOnce`; the `catch` and back-off of the loop | `Sweep`; `Throw` |
| crash of the worker, poll or call that fails or times out | `Fails` |
| wrappers of the Oracle adapter: durable half, local half | `Commit`, `Complete` |
| wrapper of `startSession`: local half, Oracle's answer, undo | `StartSession`, `StartConfirmed`, `StartUndone` |
| `markDurableProcessed` inside the two calls | `OwnCallMarked` / `LateCallMarked` up to its await, `CallDone` / `CallFails` after it |
| `pruneDurableOutbox`; `hydrate` after a restart | `PruneDurable`; `Restart` |

Abstracted: payloads (an event is its id and key, and its kind matters only as
`Meta`, `Refused` or `Poison`); clocks (any acked row may be past retention when
the prune runs); the cap on dead letters; the JSONL mirror of the local profile;
the station map. `hydrate` reads the table in no stated order, so the polls of
the durable configuration take all rows.

### Metering

Every call has two halves: `calls[c].at` is `"oracle"` until Oracle has served
the call under the session's row lock, then `"memory"` until the event loop
turns to the answer. Calls overtake one another in both directions.

| Code | Action |
|---|---|
| OCPP StartTransaction, `POST /sessions/start` (which sets no cursor) | `StartTransaction` |
| OCPP MeterValues: `seqByTx`, the carried register | `MeterValues`, with `NextSeq`, `Carried` |
| OCPP StopTransaction; remote stop; `PATCH /sessions/:id/state`; `POST /sessions/:id/bill` | `StopTransaction`; `RemoteStop`; `PatchState`; `AskBill` |
| `charge_session_pkg`, `billing_pkg.bill_session` | `RecordTick`, `StopSession`, `Transition`, `BillSession` |
| the store's half, after Oracle's answer | `RecordTickLocal`, `StopSessionLocal`, `TransitionLocal`, `BillSessionLocal` |
| a failed call; `hydrate` | `OracleFails`; `Restart` |
| `receiptForSession` | `Receipt`, compared with the invoice |

Abstracted: tariff bands (a kilowatt-hour costs one), timestamps, carbon
intensity (the receipt attributes energy, not grams). Assumed of the world: a
charge point sends no MeterValues after StopTransaction; a statement of a dead
API does not commit after the restart; an identity column may skip numbers.

### WalletRail

| Code | Action |
|---|---|
| `pruneWalletAuth` in front of every wallet request; the clock | `Pruned`, `Expired`; `GetsLate` |
| `/me/wallet/challenge`, `/link` (POST and DELETE), `/intent` | `Challenge`, `LinkWallet`, `UnlinkWallet`, `CreateTopupIntent` |
| `/me/wallet/settle`: `settleTopup` waits for `intent:`, then its body | `AskSettle`, `RunSettle`, `RefuseSettle` |
| `topup`; its mirror; the undo | `PlainTopup`; `TopupMirrored`; `TopupUndone` |
| mirror of a link or unlink; its undo | `LinkMirrored`; `LinkUndone` |
| `payInvoice`: Oracle, then memory; `hydrate` | `PayDurable`, `PayLocal`; `Restart` |

The store links the address that signed; the mirror chooses between INSERT and
UPDATE by the address the request names, which may be another one or none
(`named` of `LinkWallet`). `misnamed` remembers the addresses of such requests.

Abstracted: signature recovery (good or not), amounts (one for all top-ups, one
for all invoices). Not modelled: a top-up that Oracle commits and whose answer is
lost, which the undo takes back in memory only; `truncateTo` cutting the rows of
other users' ledgers on disk.

### WriteThrough

`Request` is what memory does before the call (only `AskStart` does anything), `Dur*`
Oracle's half, `Mem*` what the wrapper does with the answer.

| Wrapper | Actions |
|---|---|
| `createReservation`, with the id map and the row that is added when memory refuses | `AskReserve`, `DurReserve`, `MemReserve`, `Remap`, `RowOnRefusal` |
| `cancelReservation`, `expireStale`, `transition`/`stopSession` | `AskCancel`, `DurCancel`, `MemCancel`; `AskSweep`...; `AskEnd`... |
| `startSession`, its undo and the re-keying of the session | `AskStart`, `DurStart`, `Undone`, `MemStart`, `Rekeyed` |
| failed call; `hydrate` | `OracleFails`; `Restart` |

A package call is atomic here; its statements are in `OracleLocks`. Windows are
slots, and two overlap if they have one slot in common.

### OracleLocks

A transaction is `tx[t]`: the statement it is at, the row locks it holds, what it
has written and not committed.

| PL/SQL | Action |
|---|---|
| `create_reservation`; `cancel_reservation`; `expire_stale` (SKIP LOCKED) | `CreateReservation`; `CancelReservation`; `ExpireStale` |
| `release_hold_if_free`, per window | `Release` with `HoldFree` |
| `start_session` up to the connector's lock; the window's lock | `StartSession`; `ClaimWindow` |
| `transition`: the session, the count, `guard_pkg.set_status` | `Transition`, `CountBooked`, `SetConnector` |
| `record_meter_tick`, the first reading | `RecordMeterTick` |
| COMMIT; ORA-00060; a lost connection | `Commit`; `Deadlock`; `Lost` |

Abstracted: audit rows, outbox rows and prices, which lock no row anybody waits
for.

### OcppCalls

| Code (`ocpp/gateway.js`, `commands.js`, `smart-charging.js`) | Action |
|---|---|
| connection handler; close handler | `Connect`; `Closed` with `OwnsSlot` |
| the charge point leaves a connection; its close frame arrives | `Abandon`; `PeerCloses` |
| `setChargingProfile`, past its six a minute | `SendPush`, `RefusePush` |
| remote start/stop; awaited commands | `SendRemote`; `SendCommand` |
| the charge point reads and answers, or does not | `Read` |
| `handleCsmsResult` | `HandleResult` from `Receive`, or from `Stray` (an answer under another's id, which changes nothing) |
| `sweepExpiredAcks`; the timer of `send` | `Sweep`; `GiveUp` |

Not modelled: the restart of the API, which forgets the pending calls; the cap
on dead letters; the limit on unknown answers.

### SitePlan and SiteControl

`SitePlan` is the arithmetic, in whole kilowatts and slots. `InOrder` is a loop
over a sorted array: a fold that steps last on the member the sort puts last
(`LastOf`: by key, then by number). With it, `Supply` and `Verdict` are the
feasibility certificate; `Floors`, `Fill` and `Shift` the three passes of
`solveSchedule`, each loop inside another an operator of its own (`FloorOf`,
`FillSlot`, `ShiftSlot`, `ShiftOf`); `Compile` and `WithinEnvelope` the profile
and its clamp.

| Code | Action |
|---|---|
| `upsertGridAsset`, `approveGridAsset`, `setControlMode` | `UpsertGridAsset`, `ApproveGridAsset`, `SetMode` |
| one cycle of the planner: certify, solve, push | `PlanSite`, with `Certify` and `Push` |
| `certifySession` | `CertifySession` |
| answer to a profile | `Acked` |
| sessions that begin and end; a slot that passes with what each vehicle took | `Begin`, `End`; `Elapse` |
| `verifyCompliance` | `VerifyCompliance` |

Left out: panels and feeders below the site, the load regression (the reserve is
a constant), rounding, the carbon term of the price. A battery that its driver
declares tapers by one unit of power for each unit of energy it has taken, down
to `Least`; the code's curve has other slopes. With a steeper one, a vehicle
whose floor is above what it still accepts can miss it by a fraction of a
percent of what the charger gives in one slot, because the certifier steps
through the slots at the floor and the plan may have given more in an earlier one.

### Accounts, Catalogue, ControlMirror

| Code | Action |
|---|---|
| `POST /auth/register`: duplicate check, hash, staging, mirror, `realignMirrorSeq`, one retry, welcome top-up | `Register`, `Stage`, `Inserted`, `InsertClashes`, `Realign`, `MirrorFails`, `Welcome` |
| login; refresh; logout; thirty days | `Login`, `Verified`; `Refresh`; `Logout`; `TokenExpires` |
| `PATCH /admin/users/:id` | `SetStatus`, `StatusMirrored`, `StatusFails` |
| another writer of `app_user`; `hydrate` | `Foreign`; `Restart` |
| `createTariffVersion`, `provisionStation`, `provisionChargePoint`, `updateStation` | the actions of those names |
| the mirror at the head of the queue; its undo; `hydrate` | `CatalogueStored`; `PlanFails`, `HardwareFails`, `UpdateFails`; `Rehydrate` |
| asset, mode, decision, certificate, push and letter ports | `CreateAsset`, `ChangeAsset`, `ApproveAsset`, `SetControlMode`, `RecordDecision`, `IssueCertificate`, `TransitionCertificate`, `RecordProfilePush`, `SetPushAck`, `DeadLetter`, `ResolveDeadLetter` |
| `controlChain`; `hydrate` | `ControlMirrored`, `ControlFails`; `RestartControl` |

`POST` of a grid asset may name an `asset_id` that memory does not hold: it
creates one under a new id (`named` of `CreateAsset`), and its mirror is an
UPDATE of no row. `unsent` remembers such assets.

Abstracted: passwords and tokens (good or not; a token is its place in the
order of issue), prices of a tariff, connectors of a charge point, most fields
of an asset. Assumed: an administrator changes one station, and one account, at
a time.

### Console, Poll, Limits

| Code | Action |
|---|---|
| `api`: send, a 401, any other end | `Send`, `Refused`, `Answered` |
| `refreshAccessToken`: the server's two verdicts, the three ends | `Rotate`, `Refuse`; `Refreshed`, `SignedOut`, `NoAnswer` |
| `logout`; the login page; the access token's life | `Leave`, `Left`; `Enter`; `Expire` |
| `usePoll`: effect and cleanup; timer; `refresh` | `Pick`; `TimerGoesOff`; `AskTick` |
| a request of a tick that is answered, or fails and ends the tick; one that outlived its tick | `Answer`, `Fails`; `StrayAnswers` |
| `visibilitychange` | `Hide`, `Reveal` |
| login tier, route limiter, throttle; `sweepIdle` | `Request`; `SweepIdle` |

A tick of `Poll` has one request for each panel of the page, as the dashboard's
`Promise.all` has. The first that fails ends the tick, and the others stay on
the wire (`stray`), where no abort reaches them; `late` remembers the panels
they fill. `Console` is one tab: two tabs share the cookie and not `refreshing`
(see below). Left out are the pages themselves.

## Bounds

At a bound a system simply stops, so every configuration whose system can stop
says `CHECK_DEADLOCK FALSE`; `CF_double` and `OR_delivery` never stop, and check
deadlock. The bounds were raised until the cases named here happened.

| Configuration | Bounds | Why enough |
|---|---|---|
| `CS_windows`, `CS_sessions` | one connector, two drivers; two windows and one session, or one and two; two requests waiting when a client's joins (those of sweeps, cancellations and session ends come on top) | no key, row or status is shared between connectors, and the proofs are for any number; two waiting requests and the nested sync are the shape of every race in "hazards"; two windows tell "the last" from "a" |
| `RC_records` | as above with one waiting request and reports at any time; three events, two ids in each engine | ids diverge, a key is repeated, a restart lies between |
| `CF_double` | two sessions, no windows | the least that can fail |
| `OR_delivery` | one event of each sort, five ids, polls of four, two batches a cycle, caps one and two, one late call | a pruned key is emitted again; both caps bind; the poll takes all refused events and one good one, without which a batch of which nothing lands goes back for ever |
| `MT_meter` | one session, three calls, registers 0 and 1, two readings, two invoice ids, one fault or restart | readings, stop and bill of a session, all under way at once; sessions share only invoice ids |
| `WR_rail` | two drivers, two addresses, two nonces, one intent, one invoice, two settlements waiting, one fault; `Welcome` 1, `Credit` and `Due` 2 | a payment needs the top-up; an address is linked, unlinked and linked again; a request names the other address |
| `PL_plans` (calls), `WT_lost` | two connectors, one slot of time, two calls, two windows, two sessions, one fault | two calls suspended at once re-key one another; identities skip |
| `OL_locks` | one connector, two transactions, two windows, two sessions, three instants | every pair of package calls; adjacent and overlapping windows |
| `OC_calls` | two charge points, two connections, two calls (pushes, remote calls and commands whose answer has no status: these take every branch of an answer), one push a minute | a reconnect with a call on each side of it; the governor refuses |
| `PL_plans` (site) | two sessions at one charge point, two slots, two administrators, caps 3 and 4 against a demand of 2 each, reserve 1, one cycle, one slot that passes | the cap binds, the floors compete, one vehicle tapers |
| `SV_parts` (API) | per part: two addresses, two requests; three plans, or two stations; windows of two instants | clashes of staged rows, a used cookie, a sweep inside a window |
| `SV_parts` (grid control) | two assets, one decision with its push and certificate, or two letters; three mirrors waiting | a child's mirror behind its parent's, which fails or is an UPDATE of no row |
| `SV_parts` (console) | three calls; two panels, two scopes, three effects, two timers of an effect | calls refused together; a dead effect's answer; one panel's request fails while the other's is on the wire |

Symmetry is used in runs without liveness properties only.

## Runs

Every property of a passing run has a mutant in `PROJECT.json`: a plausible slip
in the modelled code under which TLC finds that property violated.

| Run | Checks | States |
|---|---|---|
| `cs_windows` | `NoOverlap`, `HoldSound`, `SettledStays`, `Implements` (the engine implements `Booking`) | 283 000 |
| `cs_sessions` | `OneSessionPerConnector`, `ConvertedOnce`, `NestedKeysReleased`, `StaleSettled` | 252 000 |
| `rc_records` | `RecordsSound` (the engine under any status report), `StoredWasCommitted` (the outbox over restarts) | 889 000 |
| `or_delivery` | `AckedHandled`, `PendingKept`, `Settled` | 149 000 |
| `mt_meter` | `BilledOnce`, `EndCovers`, `ReadingsKept` | 1 000 000 |
| `wr_rail` | `CreditedOnce`, `PaidOnce`, `LinksMirrored`, `SettleAnswered` | 803 000 |
| `pl_plans` | `BookingsMirrored`, `SessionsDurable` (calls of the adapter), `PlanSound`, `PromiseServed`, `NeverOvercommits` (a site) | 1 524 000 |
| `ol_locks` | `StatusTrue`, `HoldsReleased`, `Implements` (the packages implement `Booking`), `TransactionsEnd` | 106 000 |
| `oc_calls` | `NewestRegistered`, `OutcomeStands`, `CallsSettle` | 341 000 |
| `sv_parts` | `UsersMirrored`, `OneLiveToken`, `CatalogueMirrored`, `ControlDurable`, `WithinLimit` (parts of the API), `NoSelfReplay`, `ScreenMatchesScope`, `PollAlive` (the console) | 940 000 |
| `cf_double`, `wt_lost` | `OneLiveSession`, `SessionsKnown`: words of the repository that the code breaks (see below) | to the counterexample |

`rc_records`, `pl_plans` and `sv_parts` put parts that share nothing side by
side: the first state picks the part that runs.

Several properties have an exception, and each exception is something the code
does against the repository's words: `HoldsReleased` (nothing but the end of a
session leaves a hold without a window), `SessionsDurable` (every session memory
shows is Oracle's, and memory knows every one of Oracle's that is beyond its
counter), `LinksMirrored` (every address but those of a request that misnamed
one), `DivergenceCounted` (every asset but those of a request that named an
unknown one), `ScreenMatchesScope` (every panel but those filled by a request
that outlived its tick). The next section but one says what happens there.

`ControlDurable` is `NeededRowsFirst` (a mirror's turn finds the row it refers
to) and `DivergenceCounted` (a limit that differs in the end was counted).

`BilledOnce` says that Oracle has one invoice for each billed session, for the
energy between its meters, and that an invoice in memory bears the number of
Oracle's invoice for the same session. `EndCovers` says that the end meter of a
stopped session covers its readings and that an invoice that charges anything
charges what the session's carbon receipt attributes. `UsersMirrored` and
`CatalogueMirrored` say that what is not under way is what a restart would read.
`NeverOvercommits` compares a cycle's certificates before and after.

## Fairness

`ChargingStore`: weak fairness of `ConnStep`, `ResStep` and `SessStep` per key,
since the event loop resumes every promise that has settled and the body at the
head of a chain waits for nothing else; weak fairness of `AskExpire` per window,
since the worker calls `/internal/expire` in every cycle that gets that far
(`apps/worker/src/index.js:184-209`). `StaleSettled` has no ground while every
relay cycle throws. No request of a client is assumed to come, and time is not
assumed to pass.

`OutboxRelay`: strong fairness of each step of the worker. It is restarted when
it dies, and a fault is transient, so that what is tried again and again
succeeds again and again; weak fairness would say nothing of a step that a
failure disables. `TrueIsolation` is the row-by-row pass in which only the
poison rows fail. Nothing is assumed of emits or of late calls.

`OcppCalls`: weak fairness of the sweep per call, a timer of the process.
Nothing is assumed of charge points, connections or answers.

`WalletRail`: weak fairness of the mirror at the head of its chain (a statement
ends with an answer or an error), of `PayLocal`, and of the body at the head of
an intent's key chain.

`OracleLocks`: strong fairness, per transaction, of the statements that wait for
a row, because Oracle serves the waiters of a row in turn, and weak fairness of
those that wait for none, of the commit and of ORA-00060.

## Where the code and its words differ

Two have a run:
- `cf_double` (`gateway.js:445`, against `gateway.js:434-436`). Faulted and then
  Available, both during one session, make the connector bookable; a second
  session goes live on it.
- `wt_lost` (`oracle.js:1180`, against `oracle.js:1145-1147`). The remap of a
  session to Oracle's number does not raise memory's counter. The next start in
  memory takes that number, overwrites the session, and deletes it by its own
  remap or undo. A failed start or a restart is enough to put Oracle's counter
  ahead.

The others were met while modelling. The models do what the code does, and the
properties are stated so that they say what is true of it.

Booking and sessions:
- The end of a session counts a BOOKED window that a cancellation or expiry is
  settling. That one saw OCCUPIED and freed nothing; when it has committed, the
  end writes RESERVED for it, until another session there ends
  (`V012__reservation_hold.sql:179`, against `invariants.sql:45-47`, which expects
  no such row). `HoldsReleased` allows it to the end of a session only; TLC
  reaches it in `OL_locks` as soon as that exception is taken out.
- The end of a session writes AVAILABLE at once and re-derives the hold when the
  connector's chain gets to its sync; a start without a window that waits there
  goes past another driver's BOOKED window (`store.js:1038`, against
  `store.js:1042-1043` and `953-954`). `Booking` promises that windows do not
  clash and are consumed by their owners; it does not promise that nobody
  charges between two windows.
- `stopSession` picks CANCELLED for a PREPARING session before it has the key; a
  tick that waits in front moves it on and the stop fails with
  ILLEGAL_TRANSITION (`store.js:1163`, against `gateway.js:634-636`).
- Completing a repair makes a connector AVAILABLE although a BOOKED window waits
  on it (`routes.js:861`, against `store.js:767`).
- A session transition has one key in memory and another in Oracle; if the API
  restarts between write and ack the sink stores it twice (`store.js:1048`,
  against `docs/adr/0003-outbox-pipeline.md:5`).

Outbox:
- A cycle whose relay throws skips the expiry sweep (`worker/src/index.js:201`,
  against `index.js:181-182`).
- An ack marks rows of `outbox_event` by the ids the events have in memory,
  which Oracle has given to others; those are not served after a restart
  (`routes.js:1138`, against `relay-timescale.js:385-386`).
- The undo of a refused start cuts off what others emitted during its await and
  keeps its own (`oracle.js:1203`, against `oracle.js:592-594` and
  `store.js:310-311`).

Meters and money:
- The end meter is computed twice, from Oracle's readings and from memory's,
  which may differ while ticks are under way; memory can refuse a stop that
  Oracle has carried out.
- A session completed by PATCH has no end meter: it is billed nothing.
- The undo of a top-up restores the balance read before its await, and erases in
  memory the top-ups that ran meanwhile (`oracle.js:984`).
- The mirror of a link is chosen by the address the request names
  (`oracle.js:919`, against `oracle.js:901-903` and `docs/wallet.md:50-51`, which
  does not trust it). Without it, or with another one, an address already linked
  is inserted again and refused, and the undo deletes the link from memory while
  Oracle keeps it; `LinksMirrored` leaves such addresses out (`misnamed`).

Grid control:
- A grid asset created by a request with an unknown `asset_id` never gets to
  Oracle: its mirror is an UPDATE of no row, and nothing counts that as an error
  (`oracle.js:1590`, against `oracle.js:1549-1553`); `DivergenceCounted` leaves
  such assets out (`unsent`).
- The triggers of `grid_asset` select from the table they guard, which Oracle
  refuses for rows changed by an UPDATE (ORA-04091).
- `proposed_by` is not written by the mirror of an UPDATE: after a restart the
  person who proposed a lower cap may approve it. Entering the same cap again on
  a PENDING asset makes it ACTIVE without a second person.
- A site whose only cap is PENDING has no cap (`siteCapKw` is Infinity).
- Passes one and two bound what a slot adds by what the battery accepts, without
  what the slot already has: together they can exceed a charger's rate.
- `certifySession` sees only its own session's floor, not the others'.
- A certificate without deadline is refused by Oracle's NOT NULL; certificates
  never end as MET; a child's cap is compared with its parent's when it is
  written, not when the parent's is reduced.
- A profile in force is not revised when the cap goes down; clearing a profile
  leaves it the one compliance is measured against.
- The mirrors of decisions, certificates, pushes and letters fail without being
  counted; modes, pushes and letters are not read back after a restart, so a new
  letter can take a stored one's id.

Users, catalogue, console:
- The undo of `provisionStation` cuts the lists of all stations back; two
  overlapping updates of one station, or accounts, restore each other's values.
- Two tabs share the refresh cookie, and each has its own `refreshing`: together
  they can burn their session. A refresh that is answered during a logout leaves
  a good access token.
- A tick that one failed request has ended leaves the others on the wire; a repick
  does not abort them, and their answers fill the panels of the next station
  (`ui.js:190`, against `dashboard/page.js:64-67`); `ScreenMatchesScope` leaves
  such panels out (`late`).
- `usePoll`'s `refresh` can leave a second chain of timers that the cleanup does
  not know of; `ScreenMatchesScope` is therefore stated for pages that do not
  call it.
- A refused request counts against the next one's limit.

## What is proved

TLAPS checks the theorems below, for constants of any size.

| Module | Theorem | Statement |
|---|---|---|
| `Records_proofs` | `TypeCorrect` | `Spec => []TypeOK` of `ChargingStore` |
| | `WindowsNeverOverlap`, `OneSessionAtATime`, `HoldsDerived`, `ConvertedByOne` | `Spec => []NoOverlap`, `[]OneSessionPerConnector`, `[]HoldSound`, `[]ConvertedOnce` |
| | `SettledForGood` | `Spec => SettledStays` |
| | `KeepsPromise` | `Spec => Implements`: the refinement of `Booking` |
| | `RecordsStaySound`, `RecordsStaySettled` | the records survive any report and repair (`FleetSpec`) |
| | `RelayTypeCorrect`, `NothingAckedUnhandled`, `PendingNeverDropped` | `RelaySpec => []RelayTypeOK`, `[]AckedHandled`, `PendingKept` |
| | `OnlyCommittedIsStored` | `DurSpec => []StoredWasCommitted` |
| `OracleLocks_proofs` | `LockedStatusTrue`, `LockedHoldsReleased` | `Spec => []StatusTrue`, `HoldsReleased` |
| | `LockedKeepsPromise` | `Spec => Implements`: the packages refine `Booking` too |
| `WriteThrough_proofs` | `BookingsStayMirrored`, `SessionsStayDurable` | `Spec => []BookingsMirrored`, `[]SessionsDurable` |
| `Metering_proofs` | `NoReadingLost`, `SessionBilledOnce` | `Spec => []ReadingsKept`, `[]BilledOnce` |
| | `InvoiceIsReceipt` | `Spec => []EndCovers` |
| `WalletRail_proofs` | `SignatureCreditsOnce`, `InvoicePaidOnce`, `LinksStayMirrored` | `Spec => []CreditedOnce`, `[]PaidOnce`, `[]LinksMirrored` |
| `Services_proofs` | `NewestTokenOnly` | `AccSpec => []OneLiveToken` |
| | `RegistryIsNewest`, `OutcomesStand` | `Spec => []NewestRegistered`, `OutcomeStands` of `OcppCalls` |
| | `OneTabIsSafe` | `[]NoSelfReplay` of `Console` |
| | `ScreenIsHonest`, `PollGoesOn` | `[]ScreenMatchesScope`, `[]PollAlive` of `Poll` |
| | `LimitsHold` | `LimSpec => []WithinLimit` |
| `Operator_proofs` | `UsersStayMirrored` | `AccSpec => []UsersMirrored` |
| | `CatalogueStaysMirrored` | `CatSpec => []CatalogueMirrored` |
| | `RowsComeFirst`, `NothingDivergesUnseen`, `ControlStaysDurable` | `CtlSpec => []NeededRowsFirst`, `[]DivergenceCounted`, and `[]ControlDurable`, which is both |
| | `PlansAreSound`, `PromisesAreServed`, `CyclesNeverOvercommit` | `Spec => []PlanSound`, `[]PromiseServed`, `NeverOvercommits` of `SiteControl` |

They assume, by name: the bounds are natural numbers (`BoundsAssumption`);
`Staff` is no driver and an operator asks for states of the state machine
(`RequestAssumption`); the sorts of events are disjoint, a poll and a cycle take
at least one event, the soft cap is below the hard one (`OutboxAssumption`); two
events share no key, in memory or in Oracle (`TwinAssumption`); `Kinds` are
kinds and the bounds natural numbers (`CallsAssumption`); a page has a panel
(`PanelAssumption`); `Nil` is neither a
call nor a cookie (`NilAssumption`); the bounds of the mirrors are natural
numbers, capacities too, identities of charge points finitely many, and `None`
and `Absent` are not rows (`AccountsAssumption`, `CatalogueAssumption`,
`ControlAssumption`); `None` is no row's number and no call
(`LocksAssumption`, `WriteThroughAssumption`); the sweep forgets no sooner than
a window ends, as its 120 and 60 seconds have it, and limits are natural numbers
(`LimitsAssumption`); sessions, slots, powers and energies are natural numbers,
the taper ends below the rate, caps are below `Infinity` and that is above all
connectors together (`PlanAssumption`, `SiteAssumption`); users and sessions are finitely
many, amounts are positive, and the marks of a wallet row (an intent, an invoice
or neither) can be told apart (`WalletAssumption`, `MeteringAssumption`).

**ChargingStore.** `TypeOK` is not inductive: a request in a chain names a row,
and its body would be ill-typed if that row were missing or on another
connector. `Typed` adds `AllPlaced` (a request waits at the key of the connector
its row names, rows being permanent) and `Chained` (a waiting sync belongs to a
body that is suspended and still holds its outer key, and each such body has one
sync). Each action gets a lemma for the types and placement (`...Sound`) and,
where it moves a sync, one for the chains (`...Chained`); together `NextTyped`.
On top of `Typed`, `Effect` says what each body does to rows and statuses, with
no chains left in it: `Books`, `Begins`, `Expires`, `Syncs`, `Cancels`, `Goes`,
`Ends`. `NextEffect` proves once that every step is one of these; each safety
property is then an induction over seven cases. `OneSessionPerConnector` is
inductive with it (a start needs AVAILABLE or RESERVED, hence no live session).
`HoldSound` needs `CancelledRows`: a window whose cancellation is suspended is
CANCELLED, and settled rows never change. `KeepsPromise` maps `Books` to
`Grant`, `Begins` to an arrival, `Expires` and `Cancels` to `Withdraw`, `Ends`
to `Leave`, the rest to stutters. The fleet's other steps change only the
connector's status, which `Typed`, `NoOverlap` and `ConvertedOnce` do not use.

**OracleLocks.** What a transaction will commit was decided statements ago, from
rows that may have changed since unless it holds them. So the invariant says of
each transaction what it may be in the middle of (`Doing`: a booking, a
settlement of windows, a claim, a start, a move or the end of a session), with
the facts about the table its statements relied on (the window does not overlap,
the session is live, no BOOKED window is left), and that it holds the rows these
facts are about (`Holds`); locks exclude one another (`Exclusive`). A commit is
one of five `Effect`s; a lemma for each shows that what the other transactions
rely on survives, since they hold other rows. `StatusTrue` needs `OneLive`: two
live sessions share no connector. The count of `transition` is taken before the
connector is locked: it survives because a new window needs a connector that is
not OCCUPIED, and the session's own row is held. The refinement maps the five
effects to the steps of `Booking`, every other statement to a stutter.
`HoldsReleased` needs `HInv`, which adds of a transaction that settled windows
that each of them it is past was let go: it holds the connector's row, and it
frees it, or it was not on hold, or has another window (`Freed`). So no cancel and
no expire leaves a hold behind, and what is left is the end of a session.

**WriteThrough.** An answer on its way speaks of a row Oracle has
(`AnswersTrue`), a row of memory that is not answered belongs to the start under
way that made it (`Unanswered`), identities are new (`Numbered`). The other
direction rests on the counter: a start that is not answered bears a number
memory has counted (`Counted`), so that a session answered under a number beyond
the counter is not what its undo deletes, and a row stays beyond the counter
until a start is given its number (`KeptBeyond`). With the properties themselves
that is inductive; what happens to states and statuses plays no part in it, which
`Alike` makes a lemma.

**Metering.** Per session: `KnownOK` (memory shows only what Oracle has);
`NumbersOK` (the numbers of readings on their way are free in Oracle and differ,
the cursor is past all of them, and while there is none memory has every
reading, so that the cursor can be recovered); `RegistersOK` (nothing on its way
is above the register, and a stop that bears one bears the last); `CoversOK`;
`BillsOK` and `InvoicesOK` (one invoice per billed session, and those in memory
or on their way there are Oracle's). The cursor is the maximum of a set: that a
finite set of numbers has one is proved from the well-foundedness of proper
inclusion, by a least counterexample, for the library's induction principles
cannot be instantiated.

`EndCovers` compares an invoice in memory with a receipt computed from the
readings, which needs two more things. `CInv` says what an invoice may charge:
Oracle ends a session first and once, at most one call brings the news to
memory, and until it has, memory shows no end meter (`OverOK`); a session
completed with an end meter in memory is billed by nobody before that end covers
the readings, and an invoice charges nothing or all there is up to it
(`ChargesOK`); Oracle has no two readings under one number (`ReadOnce`).
`Telescope` then says that what the readings add one after the other, each above
the highest before it, is what the highest of them adds to the start meter:
of the sets that hold the readings up to some number, the least for which it did
not could do without its last reading.

**WalletRail.** `CreditOK`: while an intent may still be credited, or its credit
is in the queue of mirrors, Oracle has no row of it, and there is one such job
at most, under the intent's key. `DebitOK`: a row in either ledger exists
exactly when that side has the invoice PAID, once, and memory follows Oracle.
`LinkOK`: while a link of an address is in the queue, it is linked in memory
only, to the one user of the job, and the unlinks behind it are that user's;
otherwise both sides agree. This is why the undo may clear the link without
looking at whose it is. It is stated for the addresses no request misnamed:
`Noted` says that a mirror chosen by another address than the signed one is a
misnamed address's, so that none is met here.

**The outbox.** `AckedHandled` needs to know what a call in flight will ack:
`BatchWritten` (what the worker is about to ack has landed), `LateHandled` (so
has what a late ack names), `IdsUnique` (an id names one row for ever, so a late
call cannot hit another) and `Untried`. `IdsUnique` is what a restart destroys,
for `hydrate` numbers the events anew; `AckedHandled` is stated for an API that
stays up. `StoredWasCommitted` survives restarts: its invariant `Founded` follows
every key through queue, batch, calls, table, sink and letters.

**OcppCalls.** `NewestRegistered` is inductive with the types of the registry:
`RInv`. `OutcomeStands` needs `OInv`, which adds that a call is `Untold`: while
it is pending or waited for, nothing has been recorded or told of it, so that
the first answer, sweep or timer settles it and every later one finds it
settled.

**Accounts.** `TokInv`: the families are numbered without gaps, so that a new
one is new; each has a newest token; in each, every token but the newest is
revoked and the generations rise. `Refresh` issues a successor only after it
revoked the newest. `UsersMirrored` needs more than the tokens do (`AccInv`):
an object is named before it is staged, and by one request (`Named`); answered
accounts have different ids (`OwnRows`), though two that are still being
registered may not, for a retry takes Oracle's highest id plus one while another
registration may have been given that number; and a status change under way is
in memory already, with what it replaced still in Oracle (`StatusOK`). That a
retry's id is then nobody else's follows from its insert having succeeded, and
`Highest` is above every row since a finite set of numbers has a maximum.

**Catalogue.** `CatalogueMirrored` speaks of an empty queue; `CatInv` says what
each waiting mirror accounts for. Tariffs (`PlansAt`, `ChainOK`): Oracle's
versions have one that is open, every other staged version is newer and waits in
the order of its id; each supersedes the newest version there was when it was
made, and Oracle's open one is closed in memory exactly while a staged version
supersedes it. So the undo of one that failed reopens the right version, also
where a later one was staged on top of it. Stations: a row is Oracle's or new,
the update under way remembers what it replaced, and it waits behind the insert
of its row. Charge points: each is Oracle's or carried by exactly one waiting
mirror, and the index by identity finds it.

**ControlMirror.** `NeededRowsFirst` is about the head of the queue only;
`CtlInv` says of every position (`Backed`) that the row a mirror needs is in
Oracle, gone, unsent (made in memory by a body with an unknown id, whose mirror
is an UPDATE) or inserted by an earlier job, and the same of every row in memory
with respect to the end of the queue (`RowsBacked`), from which new jobs get it.
`DivergenceCounted` follows from `AssetsOK`: until an error is counted, a
difference between the two copies of an asset is on its way, field by field, in
a job that writes that field, or the asset is unsent. A restart empties
the queue and forgets both the count and what was unsent.

**SiteControl.** What a loop does to every input is an induction over the set it
runs through, and such a set has a least subset for which the claim fails: `Sums`
proves once, for any step, that a fold keeps what each step keeps (`FoldKeeps`),
and a lemma per loop says what that is. `Schedule`: the column of every slot is
within the cap, nothing stands past a deadline, and what a row holds and what is
still needed make up the need. `Give` keeps it (`GiveIs`), hence `Fill`. The
floors pass keeps more (`Promised`): rows not reached yet are empty, no slot is
above the floor of its row, and where the floors fit the cap together each row
reached is at its floor until its deadline or needs nothing (`Served`), for the
others take at most their floors and so leave room for this one. `Fill` only
adds (`Grown`). `Shift` takes and gives in one row, in two different slots since
their prices differ, and only into the room there is, so it keeps the sum of
every row (`Regiven`). The sum of a row that is at its floor until the deadline
is the floor times the slots before it. `CertifyIs` follows the certificates:
the floor of a new one is at most what the others leave. `Floored` keeps `Served`
for a vehicle that declares a battery because the taper never refuses a floor it
was certified for: it still needs no more than one slot at full rate, or its floor
is at most what the taper lets through last (`Bears`). The certifier grants a
floor only after it replayed the taper (`SupplyIs`), and what a vehicle needs only
falls, so this stays true of every active certificate (`Bearable`). The state
invariant is `SiteInv`: the types of the cap, sessions and certificates, `Bearable`
and the two properties; every action but `PlanSite` leaves the plan alone.

**Console.** `ConInv`: at most one request for a refresh is under way, it is the
one `refreshing` names, and its call waits for it; a used cookie in the jar, or
on its way, means that a successor's answer is coming or was lost.

**Poll.** `Fine`, per effect: a kept id stands for a running timer; a live effect
of a hidden tab keeps none and one of a visible tab has a timer or a request in
flight; if the page asked for no tick, a dead effect has neither, a live one
never both, and what it fetches is for the scope the page names. So a panel gets
another scope's answer only from a request whose tick an error had ended, and
such an answer notes its panel in `late` until the next one fills it or a picked
scope blanks the screen (`ScreenOK`).

**Limits.** `WithinLimit` speaks of every window of the past, a request of the
hits still remembered. `Remembered` links them: what was let in within the last
window is remembered, and nothing was let in at a time to come. So a request
that is let in counts at least what the window that ends now has let in; a
window that does not reach `now` is untouched, and one that begins after another
holds a part of it. `Sums` has what this needs of a sum over a finite set: it
does not depend on the order, it grows with its terms, and changing one of them
changes it by as much.

## Only model-checked

- Liveness (`NestedKeysReleased`, `StaleSettled`, `Settled`, `SettleAnswered`,
  `TransactionsEnd`, `CallsSettle`): fairness and ENABLED are out of the
  prover's reach.

Every safety invariant and action property of the runs has its theorem.

## What is left

In the order of their worth: a composition of `Metering` with the store's keys;
panels and feeders in `SiteControl`; a restart in `OcppCalls`; two tabs in `Console`;
`Idempotency-Key` replay, whose answers are stored after the booking was awaited.

## Not modelled

- Seeds, adapter selection, start-up: no protocol state.
- The Timescale reader: read-only queries.
- The forecasting service, load regression and carbon curves: floating-point
  numerics. The energy a carbon receipt attributes is modelled.
- BootNotification, Heartbeat, Authorize: answered from rows they do not change,
  but for time stamps.
- `maintenance_pkg`: no code calls it. Views, grants, partitions, jobs.
- The JSONL mirror and the station-map synchronisation of the worker.
- Vehicles, reviews, notifications and read-only routes.
- The web console's pages and the simulator's scenarios: presentation.
- Tokens and signatures: cryptography, external to the models.
