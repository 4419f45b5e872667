# A TLA+ model of the Linux control plane

This directory holds a verification development of the Linux control plane of
Spider AI (`backend_ai/backend`) and of the licence token bot beside it
(`token-bot`): TLA+ modules translated from their source, the TLC configurations
that check them, and TLAPS proofs. `PROJECT.json` lists the components, the runs,
what each definition models (`map`, down to the lines), the hazards of the code,
the findings and the theorems.

## 1. The system

A FastAPI backend (two API processes and background jobs) controls MT5 trading
bots that run on Windows machines, the *runners*. PostgreSQL is the source of
truth, Redis carries the commands, and the runners report over HTTP. A Telegram
bot sells partners the activation codes that give a right to run a bot.

    user --HTTP--> API processes --rows--> PostgreSQL <--rows-- background jobs
                       |  ^                                         |
                       |  +--HTTP-- token bot (own database)        |
                       +--Lua publish--> Redis lists <--requeue-----+
                                            | BRPOPLPUSH / LREM
                                            v
                                         runner --HTTP reports, events--> API

### 1.1 Inventory

| Component | State | Operations | Interacts through | Hard behaviour | What makes it correct |
|---|---|---|---|---|---|
| Runner command queue (`infra/redis_streams.py`, `runner/queue_consumer.py`) | stream, live list, processing list, dedupe keys | publish (Lua), pop, ack, requeue, recover, remove | Redis | two-call moves, replay, crashes between calls | one copy per command, one publication, publication order |
| Command router (`events/command_router.py`) | none | dispatch, dispatch_batch | rows, Redis, login lease | check-then-publish, failure after publication | row and envelope agree; nothing stale is sent |
| Command rows (`mixins/commands.py`) | `execution_commands`, `execution_events` | some twenty statements, most unconditional | PostgreSQL | late and repeated updates | a settled command stays settled unless the runner reopens it |
| Delivery reconciler (`events/command_delivery_reconciler.py`) | advisory lock | replay, requeue, remove, close | rows, Redis | stale listings, partial failure | every open command is settled |
| Deployment manager (`orchestration/deployment_manager.py`, `mixins/deployments.py`) | `bot_deployments` (status, desired_state, is_active, intent_seq, health_status) | start, stop, cancel, replace, config restart, hot update | router, slots | overlapping requests, crashes between statements | one active deployment per account; what waits is started or ended |
| Event ingestion (`events/runner_event_*.py`) | events, idempotency keys | about thirty event types, heartbeat | rows, router | duplicate, late, reordered events | an old event does not undo a newer intent |
| Slots and bindings (`mixins/runners_slots.py`) | `runner_slots`, `account_slot_bindings` | allocate, release, sticky reuse, quarantine | PostgreSQL indexes | racing allocation | a slot serves one account, and comes back |
| Login reservations (`mixins/login_reservations.py`) | `account_login_reservations` | create, dispatch, verify, claim, release, expire | slots, starts | expiry racing a claim, second final event | a claimed slot is neither leaked nor shared |
| Login lease (`services/login_lease.py`) | Redis key per login | acquire, renew, release | router, heartbeat | read-then-write | one runner per login |
| Scheduler (`orchestration/scheduler.py`, `broker_routing.py`) | none | rank slots | slots | ties, limits | picks an eligible slot |
| Failover and recovery (`orchestration/runner_failover.py`, `start_failure_policy.py`) | recovery columns | claim, cooldown, budget | deployments | racing claims | one recovery at a time, within budget |
| Jobs (`monitoring/`, `services/watchdog.py`) | none | health sweeps, timeouts | rows | timeout racing a late answer | what is stuck is failed, what runs is not |
| Webhook delivery (`events/webhook_delivery_service.py`) | delivery rows | claim, post, retry | external HTTP | retry of what was delivered | every event is delivered or given up |
| Policies (`risk/`), rate limits (`core/rate_limit.py`) | counters | check, count | requests | limit boundaries | the limit holds |
| Bot token licences (`services/bot_token_license.py`, `services/bot_tokens/`, `api/v2/deployments.py`, token-bot's issue and lock) | `bot_access_tokens`, `bot_token_entitlements`, token-bot's own row | issue, claim, assert and bind at a start, expire, lock | deployments, HTTP between two databases | claim racing a lock, unanswered calls, a reconciler that dies between stop and record | one use per code, no right without a valid code, its bot goes off with it |
| Partner billing (`token-bot/app/tg_bot.py`) | payment proofs, snapshots, `billing_anchor_at`, `user_data` | summary of cycles, bill, photograph, confirm, reject | the backend's report of codes, Telegram | everything due is computed anew each time; buttons of old messages | billed is what was used, paid once |
| `ai/`, `hubbot/`, `frontend-v2/`, providers, `ops/` | chat memory, UI | | HTTP | | outside the control-plane core |

The production runner is not in the repository; `scripts/run_mt5_runner_stub.py`
is its reference, and the model's runner is translated from that.

### 1.2 Hazards

`PROJECT.json` lists them by line. Most come from four facts: every statement
is a transaction of its own; most `UPDATE`s are unconditional, so what a request
has read may be stale when it writes; a Redis list and a row, or the databases of
two services, change in separate steps; and a published command cannot be taken
back.

## 2. Modules

| Module | Models | Composes with |
|---|---|---|
| `RedisLists` | the Redis list commands, on sequences | |
| `RunnerQueue` | Redis side of one runner's command channel | `RedisLists` |
| `CommandDelivery` | START_BOT and STOP_BOT of one account, from the API request to the runner's event | an instance of `RunnerQueue`, which it refines |
| `AccountSlots` | who holds a runner slot: logins, starts, stops, deletions, and the jobs that take back what they leave | |
| `BotSwitch` | which bot of an account runs: starts, replacements, restarts, OFFs and cancels against the events that carry them on | |
| `ActivationCodes` | what the licences promise: codes, rights and the bots bound to them, every operation at once | |
| `BotTokenLicense` | activation codes and the right to run a bot, across two services | an instance of `ActivationCodes`, which it implements |
| `PartnerBilling` | what a partner owes for its codes, and how it pays | |
| `...Proofs` | theorems about the module they extend; `AccountSlots` has two, the second under a hypothesis on its constants | |
| `MC...` | small instances | |

The three views of a deployment (`CommandDelivery`, `AccountSlots`,
`BotSwitch`) are kept apart because each needs a finer grain than the others: the
Redis calls, the slot tables, and the chain request - event - next command. What
one leaves out, another has; each module's header says what it takes for granted.

### 2.1 RunnerQueue

One action is one Redis command or one Lua script. Lists are sequences whose
first element is the list's head: `LPUSH` writes in front, `BRPOPLPUSH` takes
the last. A move made of two commands (`requeue_runner_command_from_processing`,
`remove_runner_command`, the consumer's `requeue`) is two actions with a
register between them, and the process may die in between. `LRANGE` is merged
with the `LREM` after it, since `LREM` of an element that went away removes
nothing, as a late scan would.

The history variables name the cases in which a property is *not* promised by
the code: a command put back (`moved`) changes its place in the order; the
consumer's own `requeue` pushes whatever `LREM` found (`blind`); a dedupe key
that ran out (`expired`) allows a second publication.

Left out: the stream's `MAXLEN` trimming, the scan limits (500 and 5000
entries), the per-account list that nothing reads, envelopes that do not decode.

### 2.2 CommandDelivery

One action is one database transaction or one Redis call, so a request that
does six things is six actions with everything else in between. A request's
`pc` says which statement comes next.

| Code | Actions |
|---|---|
| `start_deployment` | `StartAdmit`, `StartCreate`, `StartBump` |
| `dispatch(START_BOT)` | `StartCommand`, `StartGuard`, `StartDrop`, `PublishCommand`, `StartMark`, `DispatchRaises` |
| `_cleanup_start_dispatch_failure` | `CancelUpdate` ... , `CleanupRaises`, `Fallback` |
| `stop_deployment` | `OffRead`, `OffFlip`, `OffBump`, `StopCommand`, `PublishCommand`, `StopMark`, `FailDeploymentStarts`, `FailAccountStarts` |
| `cancel_pending_deployment` | `CancelRead`, `CancelUpdate`, `CancelBump`, `FailAccountStarts`, `StopCommand`, ..., `FailDeploymentStarts` |
| `reconcile_once` | the `Rec...` actions: four listings, and per row one action for each call |
| `fail_stale_acknowledged_start_commands` | `FailUnconfirmedStart` |
| the stub's loop | `RunnerPop`, `RunnerReport`, `RunnerAck`, `RunnerRaises` |
| `ingest_event` | `IngestStore`, `IngestSettle`, then `IngestStarted...` or `IngestFinalize...` |
| an API process, the reconciler, the runner dying | `RequestCrash`, `RecCrash`, `RunnerDies` |

Abstractions. START_BOT and STOP_BOT are dispatched with the deployment's
`trace_id`, and `uq_execution_commands_trace_identity` makes the pair of type
and deployment unique, so that pair is the command's name. Every modelled
`UPDATE bot_deployments` writes `status`, `desired_state` and `is_active`
together, so the last two are functions of the first. A listing returns any
subset of the eligible rows: which of them are old enough is not modelled.

### 2.3 AccountSlots

One action is one database transaction. `slot` keeps the account on a slot and
whether `control_plane_state` says allocated; the slot's `status` follows the
account in every flow modelled. `binding` is the current row of an account, `res`
the reservation a login request inserts, `cmds` the login commands and what the
runner answered.

| Code | Actions |
|---|---|
| `request_account_login_slot` | `LoginAdmit`, `Pick`, `Allocate`, `LoginReserve`, `LoginDispatch`, `LoginMark`, and their failures |
| `start_deployment` | `StartAdmit`, `StartClaim`, `StartGuard`, `StartRefused`, `StartManage`, `StartPrepare`, `Pick`, `Allocate`, `StartCreate`, `StartDispatch`; when something raises `StartRelease`, `StartCancel`, `StartUnbind` |
| account deletion | `DeleteAdmit`, `DeleteDrop`, `DeleteRead`, `DeleteSoft`, `DeleteUnbind` |
| the runner's answers, late or twice | `LoginVerified`, `LoginFailed`, `LoginReleased`, `Stopped`, `StoppedRelease` |
| jobs | `Sweep`, `Heartbeat`, `ExpireSticky`, `ZeroRuntime`, `Lapse`; the readiness request that acts on the list it has read, `ReadyRead` and `ReadyRelease` |
| an API process dying | `Crash` |

Slot health, maintenance, capacity and broker routing can only make a slot
unavailable and are left out, and so is the recovery of a lost binding from what a
slot's heartbeat says (`runners_slots.py:1430-1520`, `safe_account`).

### 2.4 BotSwitch

One action is one database transaction or one publication; writes that follow
each other and that nothing tells apart are taken together. Requests are processes
with a program counter, and so is the runner while the API ingests the event it
posts. `row` names for every command the flow it belongs to and the STOP it
follows, which is what `get_open_config_restart_command` and
`get_open_replacement_stop_command` look for.

| Code | Actions |
|---|---|
| `start_deployment`, of the service and of the manager | `StartAdmit`; `StartManage`, `StartPending`, `StartInsert` |
| `_request_replacement_start` | `FindQueued`, `CreateQueued`, `FindStop`, `StopPrevious`, `SendReplacementStop`, `Unreplace` |
| `stop_deployment` | `OffBegin`, `OffAgain`, `OffFlip`, `OffQueued`, `SendOff`, `FailPending` |
| `cancel_pending_deployment`, by a user or after a failed dispatch | `CancelBegin`, `CancelFlip`, `CancelSweep`, `SendCancel`, `FailPending` |
| `update_deployment_config`, `request_config_restart` | `RestartBegin`, `RestartFlip`, `SendRestartStop`, `RestartRestore` |
| `dispatch` | `InsertStart`, `GuardStart`, `DropStart`, `Publish`, `PublishFails` |
| the runner, and `ingest_event` | `Execute`, `StartedWrite`, `StoppedPending`, `KillDone`, `KillNoted`, `StoppedWrite` |
| what a BOT_STOPPED carries on | `Reopen`, `RestartFailed`, `ReplaceAdmit`, `ReplaceFails`, `ReplaceActivate` |
| jobs | `Replay`, `HealStop` |

A start is looked at twice. The service refuses an account with an active deployment
(`control_plane_service.py:2207-2241`), so a user's start of another bot while one
runs goes no further. The manager looks again in a transaction of its own
(`deployment_manager.py:812-826`), and what has become active in between is
replaced: a start that overlaps another one, the deployment that the BOT_STOPPED of
a configuration restart reopens, a BOT_STARTED that comes after a cancel. That is how
`_request_replacement_start` is entered here. Its callers inside the control plane
that skip the service, rerouting (`runner_event_ingest.py:2283`) and failover
(`runner_failover.py:185`), are not modelled.

Every STOP_BOT carries `kill_mt5` by normalisation
(`runner_payload_identity.py:133-139`), so a BOT_STOPPED either confirms that the
terminal is gone or leaves the deployment `terminal_cleanup_pending` until
SLOT_TERMINAL_KILL_DONE; only that order of the two events is modelled. There is
one runner and delivery is one step. Left out: an API process dying between two
steps, command timeouts, the cooldown of bot controls, COMMAND_REJECTED,
SLOT_BROKEN and the heartbeat.

### 2.5 BotTokenLicense

One action is one database transaction, or one call of the token bot to the
backend, which may raise, be served without an answer, or not be served.

| Code | Actions |
|---|---|
| issue | `IssueToken`, `IssueSave`, `IssueFails` |
| `claim_token` | `ClaimRead`, `ClaimWrite` |
| a start (`api/v2/deployments.py`), hot update included | `StartAssert`, `StartDeploy`, `StartHot`, `StartBind`, `StartUndo`, `StartDies` |
| events and stops of the deployment | `StartedRead`, `StartedWrite`, `BotStopped`, `StartFails`, `UserStop` |
| lock of a code, and cancellation of a grant | `LockRead`, `RevokeToken`, `LockStop`, `LockReply`, `LockStopRaises`, `LockUnanswered` |
| `expiry_reconciler` | `RecExpire`, `RecList`, `RecStop`, `RecRecord`, `RecRound`, `RecStopRaises`, `RecDies` |
| the term of an entitlement | `Lapse` |

There is one partner and one account per user. The partner's durations, quotas
per day and suspension only refuse claims.

### 2.6 PartnerBilling

Days are numbers: the code compares the beginnings of days in one time zone
without daylight saving. Nothing but proofs and snapshots is stored; `Due`,
`Accrued`, `BilledSeats` and `CycleIndex` are the arithmetic of
`_billing_cycle_summary`, and every look (`Look`) computes them again. `Press` asks
for a bill, `SendPhoto` submits a proof, `Forget` clears a member's dialogue,
`ConfirmRead` and `ConfirmMark` are the two halves of a confirmation, `Reject` the
other button, `Restart` loses what the bot keeps in memory; the outside world is
`NextDay`, `Activate` and `Stop`. A customer's seat is chosen when a code is
activated. The report is taken to hold every code of the partner (the code asks
for 5000), and of a row of the audit what was paid before and what is paid now are
kept.

## 3. Runs

| Run | Instance | Checks |
|---|---|---|
| `runner_queue` | 3 commands, `MaxExpired` 1 | `TypeOK`, `PublishedAtMostOnce`, `SingleCopy`, `MarkerCovers`, `PublishOrder`, `NeverReturns`, `PopsInPublishOrder` |
| `delivery_one` | 1 deployment, 2 requests, 1 fault, no slow requeue, `MaxLoad` 3 | `TypeOK`, `RowsFollowRedis`, `OpenHasCopy`, `ReopenedByRunnerOnly`, `UsesQueue` |
| `delivery_live` | 1 deployment, 2 requests, 1 fault, 1 slow requeue, `MaxLoad` 2, fairness | `Settles` |
| `double_start` | 2 deployments, 2 requests, 1 slow requeue, `MaxLoad` 3 | violates `NoDoubleStart` |
| `slots_safe` | 2 accounts, 2 slots, a login, two starts, a deletion; 2 faults, 1 refusal | `TypeOK`, `OneBotPerSlot`, `OneCurrentPerSlot`, `KeptForLogin`, `NoSteal`, `EndedStaysEnded` |
| `slots_live` | 2 accounts, 1 slot, a login, two starts; 1 readiness request, overlapping requests, reservations lapsing in flight, fairness | `ReleasedIfUnused`, `SlotReturns` |
| `switch` | 3 requests of any kind, a second start overlapping the first, 1 fault, fairness | `TypeOK`, `CancelledStaysCancelled`, `ReplacementSettles`, `StartSettles` |
| `switch_off` | a start, a configuration restart, an OFF, no fault | violates `OffHolds` |
| `licence` | 2 codes, 3 claims, 2 starts, 2 locks, any 4 of them; 1 fault, 1 right at a time, fairness | `TypeOK`, `RedeemedOnce`, `LockHolds`, `ActiveLimit`, `LockedIsLocked`, `AsAtOnce`, `LockStops`, `ExpiryStops` |
| `licence_renewed` | 2 claims, a start under each, no fault | violates `StopsOnlyUncovered` |
| `licence_restart` | 2 claims, two starts under the first, no fault | violates `StartsWhileInForce` |
| `billing` | codes of 3 and 1 days, cycles of 2 days, 4 days, 2 seats, 2 members, 1 stop, 2 proofs | `TypeOK`, `SeatsMatchUse`, `AuditChain`, `OneOpenPerMember`, `ClosedCyclesFixed`, `DebtNotForgotten`, `DecidedOnce` |

Bounds, and why they are enough.

- `runner_queue`: three commands are the fewest with which two can change places
  while a third is between the lists; one dedupe key may run out. `Publish` adds
  a command again only after its key ran out, so the lists are bounded by the code
  itself.
- `delivery_*`: `MaxFaults` counts every death of a process and every call that
  raises, `MaxSlow` the requeues of an envelope the runner is still handling, and
  `MaxLoad` both of them and the requests together. One fault at any point of
  two overlapping requests covers each window between two steps. With
  `MaxLoad` 2 the liveness run covers two requests, or one request and one fault
  or impatient requeue. Requests are numbered in the order they arrive, which
  leaves no symmetry to use.
- `slots_*`: two accounts are what a slot can pass between, two slots let an
  account hold a sticky binding to one while it is given another. What the safety
  run shuts off (`Overlap`, `LapseInFlight`) is where the code does not keep the
  property; see 3.1. A second fault can hit the cleanup that the first one made
  necessary.
- `switch`: three requests are a bot, its replacement, and what comes between. The
  second may be a start, an OFF or a cancel that overlaps the first, the third an OFF
  that overlaps both (`SomeOverlap`); the others arrive when earlier requests are
  served, while the runner and the jobs go on. A second start that overlaps the first
  is the shortest way into a replacement and is in the run; two that both find an
  active deployment are not, see 3.1.
- `licence`: two codes and two users meet every race of claim, lock and limit; the
  second start is of the second entitlement or changes the settings of the first.
- `billing`: four days are two cycles, so that there is a closed one and a current
  one; a code of three days spans both, one of a day ends within one. Seats and
  members are alike, which the run uses as symmetry; no temporal property but
  action properties is checked there.
Deadlock is checked in `runner_queue` and `billing`, where there is always
something to do. The other systems may really stop, with every request served and
every list empty.

### 3.1 What the properties say, and where they stop

RunnerQueue and CommandDelivery:

- `SingleCopy`, `PublishedAtMostOnce`, `MarkerCovers`: the dedupe key makes the
  replay safe. A command has one physical copy under every interleaving of
  requeue, removal, acknowledgement and crash.
- `PublishOrder`, `PopsInPublishOrder`: a STOP cannot overtake its START, nor the
  reverse, unless one of them was put back.
- `NeverReturns`: what left the lists for good stays away.
- `RowsFollowRedis`: a row says queued or dispatched only when the script ran.
- `OpenHasCopy`: a row that waits for the runner still has its envelope
  somewhere. The only exceptions are the interrupted requeue and the removal, in
  `gone`; a command the runner holds is no exception, since its envelope stays in
  the processing list until the acknowledgement has been reported.
- `ReopenedByRunnerOnly`: however late the router's or the reconciler's updates
  come, only the runner's "dispatched" report reopens a settled command.
- `UsesQueue`: `CommandDelivery` refines `RunnerQueue`: it uses the lists only as
  that module allows, so what is proved of `RunnerQueue` holds of the lists here.
- `Settles`: every open command is settled in the end, or was lost (`gone`).

AccountSlots:

- `OneBotPerSlot`, `OneCurrentPerSlot`: nothing but the bindings keeps two bots
  off a slot, no index of `bot_deployments` names it. A reservation that runs out
  while a start of its account is in flight breaks the first, so the run takes
  `LapseInFlight` away: a reservation lasts minutes, a request moments. A start
  that could not be dispatched gives back the reservation first and cancels its
  deployment afterwards; in between, and for good if the process dies there
  (`lost`), the deployment is active without a binding, and the property leaves it
  out.
- `KeptForLogin`: a slot kept for a login is nobody else's. It holds when requests
  of one account do not overlap; a stop that is half ingested when the login
  begins frees the slot the login was given.
- `NoSteal`: a slot changes hands only by being free in between.
- `EndedStaysEnded`: late and repeated login results.
- `ReleasedIfUnused`: a verified login is started, released or expires. The run has
  no refused start: `start_deployment` claims the reservation before it looks at
  the cooldown and the TradingView access (`control_plane_service.py:2268-2322`),
  and a refusal there leaves it claimed with nothing to release it.
- `SlotReturns`: a slot nobody uses comes back, again and again. The run has no
  crash: one between `Allocate` and `LoginReserve` leaves an active binding to a
  slot that is otherwise free.

BotSwitch:

- `TypeOK` carries what the unique index keeps, one active deployment.
- `CancelledStaysCancelled`: a deployment that ended before it had a slot, which is
  a replacement cancelled or failed while it waited, never wants a bot again.
- `ReplacementSettles`: a replacement for which a STOP was sent does not wait for
  ever. Two exceptions are part of it: a configuration restart of the bot to be
  replaced, arriving between its BOT_STOPPED and SLOT_TERMINAL_KILL_DONE, rewrites
  the health the second event looks at and starts the old bot again; and a STOP
  the runner reports failed, because the unique index refused `stop_requested`.
- `StartSettles`: a start ends in a running bot, a stop or a failure, unless the
  STOP of a restart could not be published: the restart then puts back the status
  it had read, though the event that ended the start may have come in between.
- One start may overlap another in the run. When two starts overlap and both find an
  active deployment (with three requests, all of them starts, TLC reaches it),
  `ReplacementSettles` fails: both bump the account's `intent_seq`
  (`deployment_manager.py:527`), so the STOP of the first is stale when its
  BOT_STOPPED comes and the replacement stays queued. With a replacement each, the
  first one's stays; where the second start has adopted the first one's replacement,
  it finds that STOP sent and sends none of its own. The replacement then waits
  until an OFF, a cancel or another start takes it up.
- An OFF of a deployment still queued, read without a runner, writes
  `stop_requested` and sends no STOP; a second OFF coalesces with the first.

BotTokenLicense:

- `RedeemedOnce`, `ActiveLimit`: claims that race. The limit is counted inside the
  transaction that holds the partner's row.
- `LockHolds`, `LockedIsLocked`: a claim racing a lock, and what the token bot shows
  when the backend did not answer.
- `AsAtOnce`: `BotTokenLicense` implements `ActivationCodes`. A claim reads the code in
  one step and writes it in another, a start checks a right long before it binds its
  deployment, a lock is a call between two databases; codes, rights and bindings
  change all the same as if each had happened at once. A locked code stays locked,
  a right that is over does not come back, and is never bound again.
- `LockStops`, `ExpiryStops`: a bot ends up off for good when its right ends. A
  lock's stop is sent once, so it is claimed without failures. The expiry reconciler
  repeats a stop that raised before it wrote anything, and one that a late
  BOT_STARTED has overwritten, but not one that raised half done: `stop_deployment`
  commits `desired_state = 'stopped'` (`deployment_manager.py:970-976`) before it
  dispatches (986), and the listing passes over a deployment that wants to be stopped
  (`bot_token_license.py:927`). The bot of such a deployment (`HalfStopped`) runs on;
  `ExpiryStops` excuses it by name, and without the excuse TLC finds it broken.

PartnerBilling:

- `SeatsMatchUse`: the index arithmetic bills a seat exactly in the cycles in which
  one of its codes counts.
- `ClosedCyclesFixed`, `DebtNotForgotten`: closed cycles do not change, and what
  has accrued does not fall, but for a stop on the first day of the current cycle,
  which takes that seat out of it.
- `OneOpenPerMember`: one bill for each member; two members can each have a bill
  for the same debt, and both can be confirmed.
- `AuditChain`, `DecidedOnce`: every confirmed proof has one snapshot that starts
  where the one before it ended; a decision is final.

### 3.2 Where the code does less than is said of it

- `double_start`: the START acknowledgement timeout fails a START the runner is
  still executing, without sending a STOP. The user starts again; both bots
  start, and the late `BOT_STARTED` is ignored.
- `switch_off`: the BOT_STOPPED of a configuration restart reopens the deployment
  without looking at what the user wants by now, and its START carries no
  `intent_seq`. An OFF that came in between is handled first, and the bot runs
  under a deployment that says it was switched off.
- `licence_renewed`: the expiry reconciler looks at the expired entitlement alone
  and stops the bot of a user who has already renewed.
- `licence_restart`: a start inserts a new deployment, and an entitlement stays
  bound to the first one, so the second start within the days of a code stops what
  it has just started.

`PROJECT.json` quotes the lines that promise otherwise. Two more have no run of
their own. The expiry reconciler is there to "expire entitlements and stop
deployments" (`expiry_reconciler.py:16`), and a stop of its that raises half done is
never repeated (`HalfStopped`, 3.1). A replacement is started by the BOT_STOPPED of
the bot it replaces, unless another start asks for one at the same time (3.1).

### 3.3 Fairness

`CommandDelivery` assumes what the loops do: a request goes on while it can (`WF`
of `Request(r)`; new requests need not arrive), the runner's and the reconciler's
loops go on, and the reconciler starts another round. `run_forever` sleeps
between rounds and a listing takes rows by age, so a row that stays eligible is
listed sooner or later: that is the strong fairness of `RecBegin(Replayable)` and
`RecListProcessing(StaleProcessing)`, strong because a round in progress disables
them. No fairness is assumed of faults, timeouts, or `FailUnconfirmedStart`.
`dispatched_at` is written once (`AND dispatched_at IS NULL`), so a requeued
command is stale again in the next round, fifteen seconds later, even while the
runner handles it; nothing in the code bounds how often the envelope is taken from
under a slow runner, and `Settles` is claimed under `MaxSlow` only.

`AccountSlots`: a request goes on, the second half of a stop follows its first, the
heartbeat of every slot, the sweep and the readiness request come round, and
reservations run out. No login need be answered, no deployment need stop.

`BotSwitch`: requests go on, the runner works its list off, and the delivery
reconciler and the control-plane reconciler come round.

`BotTokenLicense`: the expiry reconciler's loop goes on, a claim or a lock that was
begun goes on, and a deployment asked to stop reports it. Starts need not finish.

`PartnerBilling` has no liveness: everything waits for people.

## 4. Proofs

Every theorem holds for all values of the constants, under the named assumption of
its module (`NoCommand` is no command; the requests are numbered; and the like); only
those of `AccountSlotsAloneProofs` have a hypothesis besides, `Alone`. `Invariance`
(`AloneInvariance`, and `BooksInvariance` for the bills) is in each `Spec => []IInv`, from `Init => IInv` and
`IInv /\ [Next]_vars => IInv'`, with one lemma for each action.

| Module | Theorems |
|---|---|
| `RunnerQueueProofs` | `TypeCorrect`, `PublishedOnce`, `OneCopy`, `Marked`, `Ordered`, `Gone`, `PopOrder` |
| `CommandDeliveryProofs` | `TypeCorrect`, `RedisFirst`, `NothingWaitsForNothing`, `OnlyTheRunnerReopens`, `RefinesQueue` |
| `AccountSlotsProofs` | `TypeCorrect`, `OneBindingPerSlot`, `NoneComesBack` |
| `AccountSlotsAloneProofs` | `AloneInvariance`, `OneBot`, `KeptForItsLogin`, `NothingStolen`, all under `Alone` |
| `BotSwitchProofs` | `TypeCorrect`, `NotRevived` |
| `BotTokenLicenseProofs` | `TypeCorrect`, `OncePerCode`, `NoRightWhenLocked`, `ShownIsLocked`, `WithinLimit`, `AtOnce` |
| `PartnerBillingProofs` | `TypeCorrect`, `BillsPerMember`, `DecisionFinal`, `OneLedger`, `BilledWhatIsUsed`, `CyclesSettle`, `DebtGrows` |

With these, every invariant and every action property the passing runs check is a
theorem, three of the slots' under `Alone`, and so are the two refinements.

`RunnerQueueProofs`. The lemmas on the list operations are in `RedisListsProofs`,
which the command delivery uses as well: what `LPUSH`, `RPUSH`, `RPOP` and `LREM`
do to membership, multiplicity and order.
`LRemElements` is the deep one: `RemoveFirst` chooses the least index by `CHOOSE`,
so its proof needs a least element of a set of naturals, taken from
well-foundedness. `IInv` joins the type invariant and the four safety invariants,
none of which is inductive alone. `Publish` keeps `SingleCopy` and
`PublishedAtMostOnce` only because `MarkerCovers` says a command without a key is
nowhere; `PublishOrder` survives `Publish` because a command published a second
time has `expired`, and survives `Pop` because `Pop` takes the end.

`CommandDeliveryProofs`. Requests, the reconciler and the runner act on what they
read some steps before, so `IInv` says for every program counter what of it still
holds (`RequestsOK`, `RecOK`, `RunnerOK`): a request that is about to publish has
written the row, and one that marks a row queued has published it. Most steps are
`Sound`: no settled row is reopened, what is known or sent stays so, a row newly sent
has an envelope, and an envelope leaves the lists only for `gone` or for a settled
row. One lemma for each process shows that a sound step of another leaves it right.
Two kinds of step are not sound and have lemmas of their own: the births of a row,
and the runner's "dispatched" report, which may reopen a row because the runner
holds its envelope. `RefinesQueue` maps every step to a step of `RunnerQueue`
or to a stutter, so all that `RunnerQueueProofs` proves of the queue holds of the
lists here.

`AccountSlotsProofs`. That two accounts never have a current binding to one slot
rests on the allocation, which asks again inside its transaction whatever the
request has picked before. That a reservation which has ended does not come back
rests on the guards of the statements that answer it, and on `Consistent`: a login
that has not inserted its reservation yet finds none under its name, so the insert
is never a second one.

`AccountSlotsAloneProofs`. Who is on a slot is proved under `Alone`, which says of the
constants what the safety run fixes: requests of one account come one at a time,
no reservation runs out under one, no operator asks for readiness, and a deployment
that may stop by itself belongs to an account with no other request. It is the
hypothesis the properties need and not a convenience: on the instance of
`slots_safe`, giving back any of the first three breaks all three properties, and
letting the start stop that shares its account breaks `KeptForLogin` and `NoSteal`
(3.1, and the hazards in `PROJECT.json`). Accounts, slots,
requests and faults are any number. `AInv` says that an account's running bot and
its open login are where its binding is (`BotsHeld`, `LoginsHeld`), that no other
account is on a slot an active binding names (`SlotsBound`), and for each program counter
what a request may rely on (`Position`). The proof separates the steps that let
something go, for which general lemmas suffice (`ResKept`, `BindingsHold`,
`PositionStays`), from the two that begin something, `LoginReserve` and
`StartCreate`, where the request's position must supply the binding.

`BotSwitchProofs`. The account has one active deployment, and what ended without a
slot stays ended, at any overlap of requests, including the overlaps the run leaves
out. The strengthening is local to each process: deployments that were inserted,
slots that were given and rows that were sent never go away (`DeploymentsGrow`,
`RowStep`), so what a process has read of them is still true when it acts
(`SoundStays`), and `Allowed` says for each step what that is. It is needed because
every write of `start_requested` or `running` must be to a deployment with a slot,
and the deployment is named by what the process read several steps before.

`BotTokenLicenseProofs`. `CodeInv` strengthens the invariants of the codes by what
the processes hold: a claim with the row lock of a code has read it as issued and
holds it alone (`HoldsIssued`), and a lock that goes on to its stops has changed
the code (`RevokedFirst`). The limit needs the finiteness of the claims, and that the count is taken in the
transaction that inserts. For `AtOnce`, `Prepared` adds what a request knows when it
writes: a start about to bind has a deployment of its own user, a lock under way a
code that was issued. A claim takes effect at its write, a lock when the backend
revokes, a lapse when the day passes; the reconciler's marks, the stops and the
token bot's own row are not seen (`Unseen`).

`PartnerBillingProofs`. `OneWaits` is what keeps bills single: a member in a dialogue
has no bill that waits, and nobody has two. This part leaves the amounts open
(`\E A : Tables(A)`). The rest is about sums and days.

- Sums. `Paid` and `Accrued` are folds of the library over finite sets, computed by
  a function it chooses. `FoldExists` shows that there is such a function and
  `FoldIs` that any other that adds up in any order agrees with it, both by a
  counterexample with the fewest elements (`LeastSet`); so the sum of the confirmed
  proofs grows by exactly the proof that is confirmed (`PaidGrows`). `Ledger` then
  says that the last snapshot ends where the sum is now, and that a confirmation on
  its way still carries the right sum, which needs that no other handler runs
  meanwhile.
- Days. `Dates` orders activation, stop and today. `Quotient` and `QuotientIs`
  characterise the division by a cycle length that is any positive number, and
  `SupportedIs` shows that the four comparisons of the code hold exactly for the
  cycles of the days on which a code counts: the witness is the later of the first
  day of the cycle and of the code.
- The past. `ReportStep` says all that a step can do to the report, `AnchorStays`
  that the first day never moves after the first activation; so a day of a closed
  cycle is before today, where nothing changes any more, and the charges of all
  cycles grow, and with them the fold (`FoldGrows`).

Only model-checked: all liveness (`Settles`, `ReleasedIfUnused`, `SlotReturns`,
`ReplacementSettles`, `StartSettles`, `LockStops`, `ExpiryStops`), which is out of the
prover's reach; and the four disagreements of 3.2, which are counterexamples.

## 5. Not modelled, and the plan

In the order in which they are worth doing:

1. Runner failover and recovery (`runner_failover.py`, `start_failure_policy.py`):
   claims, cooldown and budget. Two things met while reading: a failure that is not
   retryable never fences the old bot, and an OFF of a deployment that waits blocked
   changes nothing, so failover starts it later.
2. Webhook delivery: one worker that claims due rows and backs off.
3. The login lease, released by a read and then a delete (off by default).
4. The events `BotSwitch` leaves out: SLOT_DEGRADED and SLOT_BROKEN,
   COMMAND_REJECTED and rerouting, SLOT_TERMINAL_KILL_DONE before BOT_STOPPED, the
   health sweeps and command timeouts; and an API process dying in a replacement.
5. The event consumer and its idempotency keys; the hot update of a configuration.
6. An abstract `Delivery`: a command is requested, executed at most once, and
   settled; `CommandDelivery` as its implementation, with the proof of it. What the
   slots keep when stops are half ingested under another request.
7. The scheduler's ranking, policies, rate limits and the circuit breaker, as
   operators against a reference definition.

Not worth modelling: `ai/`, `hubbot/`, the Mini App, the clients of brokers and VPS
providers, and the operations scripts, which keep no state of the control plane;
the wallet and rewards stores, whose operations are single statements.

The runner's own behaviour beyond the stub, PostgreSQL's isolation of the
statements inside one transaction, and the network are taken as given: a
transaction is atomic, and an HTTP report is the one the runner waits for.
