# perch-controller in TLA+

perch-controller manages home routers, access points and their collectors. Its
hardest part is the two-way configuration of a router it does not trust to stay
reachable: a change is committed on the router with a timer that rolls it back
unless the controller, on a *fresh* connection, confirms it. Around it are the
hub that carries its requests, the queues that serialise its tasks, the pushes it
learns from, the updates of the agents' own binaries, and the alerts. This
directory holds TLA+ modules of these, the TLC runs that check small instances,
and TLAPS proofs for every instance. File names below are relative to the
repository root; `apply_lifecycle.ts` and its neighbours are in
`app/services/gateway_config/`.

## Inventory

| Component | State it keeps | Operations | Talks to | Hard part | Correct when |
|---|---|---|---|---|---|
| Apply lifecycle (`apply_lifecycle.ts`, `apply_checks.ts`) | `gateway_applies` rows | request, send, retry, confirm halves, confirm, settle, revert, chain, 5 s tick | agent (RPC), section rows, revisions | lost answers, late outcomes, restarts | verdict = what the router did; one open job; every job ends |
| Gateway plane (`gateway_plane.ts`, `gateway_agent.ts`) | none of its own | one task per agent event, admin write or tick; reads | all of the above | state read before an RPC and used after it | a task finds its job as it left it |
| Serial queues (`serial_queue.ts`, used by `gateway_plane.ts` and `wifi_config/store.ts`) | an entry per key: the last promise, a count | run a task in its key's turn, or at once if the async context holds the key | every plane | nested calls, two queues, timers that inherit a context | one task per key, in order; none waits for ever |
| Section sync engine (`sync_engine.ts`, `apply_plan.ts`, `canonical.ts`) | `gateway_sections` rows: base, router, desired, conflict | merge a read, plan an apply, settle it | lifecycle | reads while a job is in flight, edits on both sides | no side's edit is lost unseen |
| Section edits (`gateway_config_service.ts`) | the same rows | edit, resolve, discard | lifecycle | edits against a job in flight | rows of a job in flight hold still |
| Agent hub (`agent_hub.ts`) | sessions, pending RPCs | register, unregister, disconnect, request, answer, timeout | sockets | a session replaced under its requests; late closes | each request is settled once; an old close takes nothing down |
| Collector endpoint (`agent_gateway.ts`, `collector_agent_gateway.ts`) | sockets | upgrade, hello, close | hub, announce, plane | hello racing a close, a dismissal, a newer hello | context is the live session's |
| Collector pushes (`collector_agent.ts`) | per collector: one running push, one waiting, the time of the last accepted; session facts | receive, check, ingest, resolve | poller, plane | pushes during a slow ingestion, the clock | in order, apart, the newest not lost |
| Collector registry (`collector_registry.ts`) | collector rows, lifecycle | adopt, dismiss, enable | hub | decisions during a hello | a dismissed row has no session |
| Gateway registry (`gateway_registry.ts`) | hello facts per session | remember, forget, write access | plane | facts of a session that is gone | read only while online |
| Pairing and signing (`pairing.ts`, `rpc_signing.ts`) | pairing key, challenge | start, approve, expire, reconcile | agent | key switched during a session | both ends hold the same key or none |
| Configuration domains (`domains/`, `*_service.ts`) | none | UCI sections to form models and back | sync engine | breadth, not interleaving | round trips |
| Wi-Fi plane (`app/services/wifi_config/`) | AP applies, rollouts | apply, confirm, staged rollout | AP agents | a second commit-confirm; a rollout that stops half way | a rollout stops at the first failure |
| Agent updates (`app/services/agent_updates/`) | jobs, rollouts and their devices; the devices in flight | stage, install, confirm, abort; resync with a hello's block; canary, batches, pause | agents, the apply lifecycles | handlers that save a row they read before an await; a restart between the saves of a step | one open job per device; record = device; canary first, never more than a batch |
| Alerts (`app/services/alerts/`) | alerts, deliveries | raise, clear, recover, flap; group, digest, collapse; send, retry | senders (mail, web push, webhooks) | a worker with old copies beside the router of events | the notice of an active alert survives; no alarm after the all-clear |
| Guest portal (`app/services/portal*`) | grants, vouchers, sessions | redeem, extend, revoke, reconcile | router | a voucher used twice; grants against the router's list | a voucher grants once |
| Polling and rollups (`collector_poller.ts`, `rollup_*.ts`, `bucket_*.ts`) | counters, buckets, watermarks | ingest, roll up, prune | database | counter resets; pruning before rollup | no byte counted twice |
| QoS and SQM (`qos_*.ts`, `sqm_*.ts`) | policies, delivery state | plan, deliver, retry | lifecycle, agent | retries from inside the queue | router = plan |
| Observation, topology, history | observed facts | ingest, read, prune | database | retention | read models only |
| HTTP layer, dashboard, commands | none | validation, formatting | services | - | - |

`PROJECT.json` lists every component with its files and status, and the hazards
of the code at their lines.

## Plan

1. `GatewayApply` (the apply lifecycle with its queue, link and router), the
   abstract `CommitConfirm` it implements, runs and proofs. **Done.**
2. `AgentHub`: sessions of one row, replaced and disconnected, with their pending
   requests; every request settled once, no answer for another one's. **Done**,
   with proofs.
3. `SerialQueue`: entries, nested calls, work detached from a task, and the
   abstract `Turns` it implements; what `GatewayApply` takes for granted of its
   queue. **Done**, with proofs.
4. `CollectorPush`: the push queue (one runs, the newest waits). **Done**, with
   proofs.
5. `UpdateJob`: a device's update jobs against the device, its link and the admin.
   **Done**, with proofs.
6. `UpdateRollout`: the staged rollouts over those jobs. **Done**, with proofs.
7. `AlertDelivery`: conditions, routing and the delivery worker. **Done**, with
   proofs.
8. Next: `SectionMerge` and `SectionSync` (the three-way merge of options against
   a reference over bounded inputs, and the rows under reads and edits); the crash
   between two saves of one handler (frames of `GatewayApply` split); enforcement
   and revert jobs of authoritative gateways; pairing; the Wi-Fi rollout; portal
   vouchers.

Abstract specifications: `CommitConfirm` and `Turns` exist; the sync modules would
have one of "both sides' edits survive or conflict", pairing one of "both ends
hold the same key or none".

Proved are the type invariants and most safety properties of the runs; Proofs says
which are not, and why. Theorems worth proving next: that an edit of the router's
admin is merged or in conflict before the next plan, once the sync modules exist;
and an abstract specification of the update jobs that `UpdateJob` implements and
`UpdateRollout` rests on.

## Modules

### GatewayApply

One managed router in two-way mode.

| In the model | In the code |
|---|---|
| `jobs` | `gateway_applies` rows (`app/models/gateway_apply.ts`) |
| `rows` | `gateway_sections`: base B, router R, desired C, conflict (`SectionState`) |
| `observed` | `gateways.observed_hashes` |
| `queue`, `run` | the waiting tasks of `gatewayQueue` and the running one, as a stack of the functions it is in |
| `reply` | what the pending `hub.request` of the running task will return |
| `ingest` | a `collector.push` between its acceptance and `onCollectorPushAccepted` |
| `session`, `hello`, `wire` | the hub's live session, the facts of its hello, RPCs on their way |
| `uci`, `snapshot`, `fate`, `jobSession`, `agentChecks`, `results` | the router and its agent |
| `window` | a job's confirm window: open, closed, and over once the grace has passed |
| `count` | the bounds |

Every function of the lifecycle that runs between two RPCs is one frame and one
action: `SendApply` ... `AwaitApply` is `sendApply` up to and after its
`gateway.config.apply`, with `onSendError` and `onApplyReply`; `TryConfirm` ...
`AwaitConfirm` is `tryConfirm`; `ApplyResult`, `AckResults`, `ChainNext`,
`OnAgentReconnected`, `OnPushAccepted`, `RecordChecksReport`,
`ReadAndReconcile` ... `AwaitRead` are the functions of those names. The admin's
requests (`RequestApply`, `AdminConfirm`, `RevertApply`, `EditSections`,
`ResolveConflict`) and the tick are tasks too. They are started when no task runs,
wherever they would stand among the waiting ones; the queue's own events keep
their order.

One request does not wait for its turn. `onApply` of `qos_plane_writers.ts`
(459-466) sets a timer inside a task; its callback inherits the task's async
context, finds the key held (`serial_queue.ts` 42) and plans and sends a job at
once, beside whatever task has the turn. That is the finding of the run `detached`,
and `DetachedRequest` is what it does here: between two steps of a task of
`DetachedOn` it creates a job as `startApply` does and sends it, while the task
waits below. `MaxDetached` bounds it. `OneOpen`, `TaskHoldsJob` and
`CarriedRowsHold` rest on the exclusion that it breaks, so they speak of behaviours
in which no timer has made a request yet; the other theorems do not, and hold beside
any number of such requests. Of the runs `chain` has one. Its limits: it starts no
send while an RPC is awaited with a session (the model has one outstanding request);
the task below stands still while the timer's RPC runs; and a timer set before a
restart is not told from one set after.

The steps of a task between two RPCs are not interleaved with the rest of the
system (`Waiting`): Node runs them between two network events, and what the rest
does then touches nothing they read, except for a controller restart, which
may come between any two of them.

The agent on the router is not in this repository. `AgentApply`, `AgentConfirm`,
`AgentRollback`, `AgentRead`, the confirm timer, the checks and the boot guard are
modelled from how the code uses them and from the scripted agent of its tests
(`tests/helpers/fake_gateway.ts`), and marked external.

Abstractions: a section's content is one opaque value; all sections are in one
UCI config, whose hash is the content; a result's reasons other than
`checks_failed`, and `failed` against `rolled_back`, are not told apart; the
`checks_failed` refusal of a confirm is `checks_pending`; clocks agree. A
retransmitted ack is the next hello's. Simpler than the code are three handlers.
`AckResults` is one step, where `apply_lifecycle.ts` 1546-1563 awaits each ack: a
lost ack of some is chosen at once. `ReadIfMoved` leaves out `fetchCapabilities`
and `reconcilePairing` before the read (`gateway_plane.ts` 101-109), which touch no
job or row. `Notify` leaves out the echo of a change the controller made itself
(150-166), which moves the observed hashes without a read: on the router's side it
reports what a job wrote.

### CommitConfirm

What the protocol promises of each job, with no session, queue or message: the
router keeps a job only once it is agreed, takes it at most once and runs one
unconfirmed job at a time; the controller confirms only what is kept and reports
a rollback only of what is restored. `GatewayApply!KeepsPromise` instantiates it:
`router <- fate`, `verdict <- Verdict`, `agreed <- Agreed`.

### SerialQueue and Turns

A queue keeps no list: a task is chained to the promise of the one before it, and
which keys a flow of code holds travels in its `AsyncLocalStorage` context, which
timers inherit too. An *activity* is one such flow, a task or a timer's callback.

| In the model | In `serial_queue.ts` and its callers |
|---|---|
| `entries`, `objects` | `#entries`, and the entry objects with `tail` and `pending` |
| `after`, `key`, `entryOf` | the promise a task is chained to, its key, the entry it settles |
| `held`, `inTurn` | the context's keys; the keys in whose turn it works |
| `caller` | who awaits the task |
| `Call`, `Nested`, `Reenter` | `run` from outside, from a fleet task for a device, for a key already held |
| `ScheduleFleetWork` | `scheduleFleetWork` of `wifi_config/store.ts`, in the snapshot of module load |
| `Start`, `Finish` | the `then` of the chain; the task's end with `#settle` |
| `SetTimer`, `Fire`, `Return` | a timer left behind by a task, as `onApply` of `qos_plane_writers.ts` |

A task's end and its `#settle` are one step: only promise callbacks of the same key
lie between them. A refused call changes nothing and is left out. Resolved and
rejected are one: `#settle` and the chain treat them alike. `Turns` is the plain
FIFO per key; `SerialQueue!TakesTurns` instantiates it with the line read off the
`after` links.

### AgentHub

The sockets of one row, with the hello of `collector_agent_gateway.ts`, the RPC
tables of `agent_hub.ts` and what `collector_agent.ts` and `gateway_registry.ts`
remember of a session.

| In the model | In the code |
|---|---|
| `socket`, `told` | each socket as the server knows it; the lifecycle its hello is answered by |
| `current`, `closed`, `replaced` | the hub's map; `session.closed`; `session.replaced` |
| `context` | the session that wrote the remembered key, capabilities and hello facts |
| `pending`, `nextId`, `call`, `answer` | `AgentSession.pending`, the id counter, each caller's promise and whose answer it got |
| `wire` | the requests a socket carried that its agent has not answered |
| `inbound` | `inboundInFlight`, the slots a session counts as taken |
| `ask`, `asker` | what became of each request of an agent (its handler runs, answered, refused as busy, nobody left to answer), and the session it came on |
| `lifecycle`, `dismissing` | the row's lifecycle; a dismissal between its save and its disconnect |

`Connect`, `Announce`, `HelloDone` are the hello up to its first await, to its
announcement, and on to `register` (a row that is not adopted is turned away).
`SocketClosed` and `SocketLost` are the close event with and without a session.
`Dismiss` and `SendAway` are the two halves of `dismissCollector`, with the database
between. Agents answer late, never, twice, or after their session was replaced.
`disconnect` for every row is `closeAll`. The lazy forgetting of `gatewaySession`
(which drops facts of a dead session when asked for them) is left out: the close
has to do without it. `HandlerResolved` and `HandlerThrew` are the two ends of a
handler (`agent_hub.ts` 427-450); what counts the slots and what runs are separate,
and related by `BusyOnlyWhenFull` only.

### CollectorPush

One collector's pushes. `Receive` is `handleCollectorPush` (taken in at once, or put
in the one waiting place, whose holder is superseded), `Check` the row read and the
gap test of `ingestPush`, `Unread` the read that throws (`runPush` catches it),
`Ingested` the end of the ingestion, well or not, with the `finally` that starts the
waiting push. `serving` stands for what `ingestPush` reads of the row (enabled,
adopted, mode). The clock is the server's wall clock and may be set back. The
freshness check of the snapshot is not modelled: it only adds a reason to refuse.

### UpdateJob

The update jobs of one device. Nothing serialises these handlers: each reads the
job's row, may await the device or a query, and saves the columns it changed
(`Saved`) over whatever the others made of the row meanwhile.

| In the model | In `app/services/agent_updates/` and its model |
|---|---|
| `row` | `agent_update_jobs`: state, whether `active_key` is set, the count of restages, whether the install was sent |
| `tick`, `confirm`, `abort` | what the pass, a confirm and an abort are at, with the copy of the row each read |
| `wire`, `notes`, `report`, `session` | requests to the device, results it notified, the block of a hello being handled (`recordUpdateReport`), the live session and what its block said |
| `hold`, `ticked`, `apply` | the in-memory set of `state.ts`, whether a pass ran since the start, an apply of a configuration plane on the device |
| `reopened`, `crossed` | history: jobs whose closed row was saved as open again; jobs whose row moved while the pass or an abort had a copy of it, or that were queued again while the device had them |
| `RefreshInFlight`, `ReadJob`, `LetGo` | `agentUpdatesTick` (`tick.ts`): the set, the queries of its parts, a job left for a later pass |
| `StartQueued` ... `InstallAnswered` | `startQueuedJob` and `installStagedJob`, each up to its request and from its answer |
| `MarkOverdue`, `ExpireQueued` | the save of one row by `markOverdue`, `expireQueued`, of a copy read earlier |
| `SeeCandidate`, `SendConfirm`, `ConfirmAnswered` | the confirm of a version that came back (`checkConfirm`) |
| `CreateJob`, `Abort`, `AbortAnswered` | the admin's requests |
| `HandleNote`, `HandleResult`, `Resync` | results and the block of a hello (`bridge.ts`, `jobs.ts`), with `Settle` for `settleResult`, `Resync` for `resyncFromReport` |
| `dev` and its actions (external) | the agent: download, stage, swap, probation, roll back, lost files |

A version is the job that brings it. `rolled_back` stands for `rollback_failed`
and `rollback_unavailable` too. Deadlines may pass at any time. A session's loss
fails the requests it carried; their effects on the device may have happened.

Every overlap of the code is allowed: an abort, a result or a report comes at any
time, also while the pass has a copy of the row and before its answer or its next
save. "One open job" then does not hold (run `overlap`), and the properties of the
run `jobs` say what does. No closed job keeps the unique key, no two jobs hold it,
and only a job that was closed and opened again is open without it
(`OneOpenUnlessReopened`); the record never contradicts the device
(`VerdictIsTrue`); the key is given back (`KeyGivenBack`). `InstallsOpenJobs` and
`NeverBoth` hold of jobs that are not in `crossed`: an install already on its way
does reach a device whose job is closed meanwhile, and the in-flight set follows
the last save.

### UpdateRollout

A staged rollout. A step of the engine (`advanceRollout`) reads the rollout and its
devices once, then saves row after row; what it read is in `step`.

| In the model | In `rollouts.ts` |
|---|---|
| `rollout`, `device` | `agent_update_rollouts` and `agent_update_rollout_devices` |
| `job`, `other` | the rollout's last job on a device; the last one of somebody else there since |
| `torn` | history: failed devices whose step broke off before it saved the pause |
| `Begin`, `PauseUnofferable`, `Settle`, `SettledAll`, `PauseOnFailure` | `advanceRollouts`, `settleRunning`, `pauseRollout` |
| `Demote`, `Promote`, `StartCanary`, `CanaryConfirmed`, `Observed` ... | the canary and its observation |
| `Gap`, `StartBatch`, `Complete`, `Hold` | the batches of `advanceRollout` |
| `SkipDevice`, `PassOver`, `Adopt`, `StartJob`, `Record` | `startDevice` and the loop around it |
| `Create`, `Pause`, `Resume`, `Cancel`, `Withdraw`, `Restore`, `UpdateByHand`, `RollBackByHand`, `AbortJob` | the admin: `createRollout`, `pauseByAdmin`, `resumeRollout`, `cancelRollout`, `pauseRolloutsOfRelease`, and updates and rollbacks started and jobs aborted one by one; a rollback asks for no rollout that owns the device |
| `JobLeavesQueue`, `JobEnds`, `OtherEnds` | the update jobs below |
| `Crash` | a restart or an error between two saves of a step |

The admin acts and the controller restarts between any two saves of a step. An
admin's request is one step, where `rollouts.ts` 824-907 saves several rows that
the controller read earlier: a request broken off half way, or beside a step's
save of the same row, is not covered. The canary is observed for some time or, with
`canaryObserveMinutes` 0, not at all; one rollout is open at a time.

### AlertDelivery

The engine's events of the alerts of one type, the rows routed from them, and the
worker's pass for one destination.

| In the model | In `app/services/alerts/` |
|---|---|
| `alert` | `alerts`: state, the recovery that is due, whether it was notified, transitions, flapping |
| `rows` | `alert_deliveries` in the order of their ids, with the outage they tell of |
| `task` | what `engine.ts` has still to route for the event it is at |
| `worker` | the pass of `delivery_worker.ts`: copies of the rows found due, the one it is at, the text it has rendered |
| `Open`, `RaiseInHold`, `Reopen`, `Remind`, `Clear`, `Recover`, `Settle`, `ResolveQuietly` | `processRaise`, `processClear` and the sweeps |
| `AddToGroup`, `RouteOutage`, `CollapseUnsent`, `RouteRecovery`, `TellRecovery`, `ReleaseGroup`, `ReleaseHeld`, `CreateDigest`, `CollapseIntoDigest` | `routeNotification`, `collapseUnsent`, `routingTick` (`routing.ts`) |
| `BeginPass`, `GiveUp`, `Hold`, `Build`, `Send`, `Sent`, `NotSent` | `runDeliveryPass` (`delivery_worker.ts`) with `render.ts` |

Conditions open at once (`holdSeconds` 0) and their recovery is notified. "lost"
is failed, expired, or collapsed because the destination is gone. A mute, a rule's
hourly limit and the filters are `RouteNobody`. `MaxItems` is the cap of a group and
of a digest (50 in the code): a full group is joined by none, a digest takes the
alerts of its first rows. A restart may come between the collapse of a recovery
and its row (`RouteRecovery`, `TellRecovery`) and between a digest and its
collapse; `collapseUnsent` itself, which saves one row after the other, is one
step.

### Proof modules

`GatewayApplyTypes` proves type correctness of `GatewayApply`, `GatewayApplyProofs`
its invariants; `AgentHubProofs`, `SerialQueueProofs`, `CollectorPushProofs`,
`UpdateJobProofs`, `UpdateRolloutProofs` and `AlertDeliveryProofs` are about the
modules they are named after.

## Runs

All bounds are constants of the modules. The runs of `GatewayApply` but `live` are
symmetric in `Contents`, two or three model values. Deadlock is not checked where
bounds count what may still happen (jobs, sessions, pushes): once they are spent
nothing is left to do. It is checked in `turns`, whose activities are used again.

| Run | Checks | Instance |
|---|---|---|
| `faults` | `TypeOK`, `KeptWithEveryGate` (the router keeps a change only when the agent is back and has pushed, the admin agreed if asked, and the checks passed or were overridden), `VerdictIsTrue`, `ResultWaitsForSettlement`, `FinishedIsFinal`, `CommittedOnce` | one checked job in the mode that asks for both halves, a controller restart, a timeout, reboots, lost acks, an edit on each side |
| `edits` | `NoUnseenEditOverwritten` | both admins edit one section, also during the confirm window, three contents |
| `chain` | `OneOpen`, `CarriedRowsHold`, `TaskHoldsJob` (each until a detached timer requests a job), `KeepsPromise` (beside that timer, too) | an ordinary and a guarded section: two jobs in a chain, on a router that is read meanwhile; one request of a detached timer in the middle of it |
| `live` | `JobsEnd` under `FairSpec` | one job in either mode, a timeout, sessions lost for good |
| `turns` | `TypeOK`, `OneAtATime`, `CountsMatch`, `TakesTurns`, `EveryTaskStarts` | two devices and the fleet, three activities, two tasks per key at most |
| `sessions` | `TypeOK`, `OnlyCurrentWorks`, `OwnAnswer`, `ContextIsLive`, `BusyOnlyWhenFull` (an agent is refused as busy only while the full number of its handlers runs), `CallsEnd` | two overlapping sockets, two calls, two agent requests at a limit of one, whose handlers resolve or throw, one decision of the admin |
| `pushes` | `TypeOK`, `NewestIsChecked`, `InOrderAndApart`, `PushesResolve` | four pushes, a clock of five values set back once, one toggle of the row, reads of it that throw |
| `jobs` | `TypeOK`, `OneOpenUnlessReopened`, `VerdictIsTrue`, `NeverBoth`, `InstallsOpenJobs`, `KeyGivenBack` | a job of a device, one restage, two events (lost sessions, power cuts, late answers, restarts, aborts, applies), every handler beside every other |
| `rollouts` | `TypeOK`, `OneBatch`, `NothingAfterFailure`, `RolloutEnds` | three devices in batches of two, three events (the admin's requests, jobs aborted, updates and rollbacks by hand, restarts) between any two saves |
| `deliveries` | `TypeOK`, `AlarmStands`, `NoAlarmAfterAllClear` | three alerts of a type with grouping and a cap of two, with and without a flap threshold that is reached, four events, restarts and mutes among them |

One job is enough for what a job does with its own answers; a second one is there
for what one job does to another (one open at a time, chains, carried rows), and its
runs leave out what the one-job runs already explore. Two sessions are the least a
confirm needs (the second is the fresh one); what is proved holds for any number.
Two contents tell a draft from the router's side; the third a draft, a router edit
and the base.

Three activities are one that works, one that waits for it and one that comes
between, for two queues of which one calls the other; names are used again, so
behaviours are not bounded. Two sockets are the least that can be replaced in each
other's hello; the theorems hold for any number. Four pushes are one that is
ingested, one that waits, one that supersedes it and one more after those; the gap
of two in five clock values leaves room for too early, in time and set back.

One update job and two events are a fault, or an abort, beside what the pass has
read and what the admin or the link does about it; the liveness of the run keeps
it to one job. With two jobs and one event (`MaxJobs = 2`, `MaxEvents = 1`, under
`Spec`) the safety properties of `jobs` hold as well, in 1.6 million states. Three
devices are a canary, or one that replaces it, and a full batch. Three alerts
against a cap of two are the least of which a group or a digest leaves one out, and
four events let an alert open, clear, reopen and clear again, or two alerts open and
clear. Proved for any number of jobs, devices, alerts and events are
`OneOpenUnlessReopened` and `VerdictIsTrue` of the update jobs, `OneBatch` and
`NothingAfterFailure` of the rollouts, and `AlarmStands` and `NoAlarmAfterAllClear`;
of the queues `OneAtATime` and `TakesTurns`; of the hub `BusyOnlyWhenFull`.

The runs marked `violation` show where the code does other than its documents or
comments say. Each is a finding of `PROJECT.json`:

| Run | Property | What happens |
|---|---|---|
| `detached` | `AllOneAtATime` | the timer `onApply` sets inside a task inherits its context and works in the gateway's turn beside another task |
| `overlap` | `OneOpenJob` | an abort while the pass awaits the answer to `agent.update.stage`: the pass saves its old copy, the cancelled job is open again and holds no key |

`OneAtATime` is what holds beside `detached`: of the activities that do not work
for a timer's callback, at first or second hand, one at a time works for a key.
What `detached` does to the gateway's jobs is under Known divergences; what stays
of "one open job" beside `overlap` is `OneOpenUnlessReopened`.

### Known divergences

Definitions that also fail, outside the listed runs. Each is found within four
minutes by naming it, in place of the run's own properties, in the configuration
given.

| Definition | What happens | Found with |
|---|---|---|
| `GatewayApply!ReadFollowsConfirm` | only a confirm that comes with a push is followed by a read (`docs/gateway/config-plane.md` 441: after every confirm); a router edit deferred during the job stays unmerged | `faults`, with `WindowEdits` |
| `GatewayApply!AgentHalfFromFreshSession` | a push accepted on the old session and ingested late gives the agent's half (`config-plane.md` 457) | `faults` |
| `MCGatewayApply!EndedWithoutChange` | the answer to the confirm is lost: the router keeps what the controller calls rolled back or failed | `faults` |
| `MCGatewayApply!DraftStays` | a job given up without an answer is committed, read as the new base, then rolled back: the draft goes with it | `faults` |
| `MCGatewayApply!QueuedConfirmByAgent` | a chained job that cannot be sent waits with the admin's confirm required | `chain`, both modes |
| `MCGatewayApply!DiscardedEditsComeBack` | the rollback discards an edit of a section outside the job, and no conflict says so | `chain`, no guarded section, one job, one edit on each side, `WindowEdits`, `MaxPending = 3` |
| `GatewayApply!CarriedRowsHold` | an edit of the window is in the late result of a job assumed rolled back; the result disputes a section the next job carries, and the admin's settling (`resolveSections`, `gateway_config_service.ts` 570), refused to no section in flight, changes its draft | `chain`, one section, no guarded one, three contents, chains of one, one edit on each side, `WindowEdits` |
| `GatewayApply!NoUnseenEditOverwritten` | the admin of the router edits in the window of the first job of a chain; the hashes of the confirm's answer (`apply_lifecycle.ts` 1290) include the edit before any read brings it to the rows, so the next job is planned without it, passes the base check and overwrites it, with no conflict | `chain`, three contents, `WindowEdits`, `MaxRouterEdits = 1` |
| `MCAgentHub!DismissedIsOffline` | `handleHello` decides by the lifecycle `recordAnnounce` read; a row dismissed between the two keeps a live session, whatever `docs/collector-agent.md` 222 and 443 say | `sessions` |
| `UpdateRollout!NothingOnceCancelled` | a step that read the rollout before it was cancelled starts the next device all the same | `rollouts` |
| `MCAlertDelivery!RecoveryAfterHold` | a queued alarm is rendered when it is sent, so inside the recovery hold it says that the alert is over; raised again in the hold it is not told once more | `deliveries` |
| `MCAlertDelivery!NoGroupAlarmAfterAllClear` | a group that was being sent when one of its alerts resolved is tried again with that alert in it, after the all-clear | `deliveries` |

Sequences outside the runs, known from longer ones or from other settings of the
constants:

* Two open apply jobs, by the timer of `onApply`: a job is over and the task goes on
  to chain the next one; between its look for an open job and its new row the
  timer's request looks, too, and creates its own. With `MaxJobs = 3` and the other
  constants of `chain`, `OneOpen` without its condition fails so after 26 steps;
  `TaskHoldsJob` fails without it in `chain` itself. `CarriedRowsHold` was not seen
  to fail without it, but nothing keeps it: its argument is that one job is in
  flight, and with two the confirm of one may move what the other carries. What is
  left is proved: a send finds its job queued, the answer to an apply finds it being
  sent and that to a confirm pending (`ApplyHeldAlways`), verdicts are true, every
  gate holds, and the router takes each job at most once.
* Two apply jobs: `assumeRolledBack` restores R on record but leaves observed
  hashes of a read made while the router ran the job, so the next job's base check
  passes on content the rows do not hold.
* `UpdateJob`, by a row read before an await: an abort while the pass asks the
  device to stage, or to install, is undone by the pass (run `overlap`); the job is
  open again without its key, is staged and installed like any other, beside the
  next one, but what looks a job up by its key (the block of a hello, the confirm) does
  not find it any more, so it may stay in `staging` for ever. `markOverdue` and `expireQueued`
  save copies, too: a job that is settled between the query and its turn is
  `unknown`, or one that was started `expired`, the first without its key. A result
  of the attempt before (`url_expired`, `failed`) that is handled after the job was
  started again queues or fails it while the device works on it.
* `UpdateJob`, besides: a job that is `unknown` stays so although its files are staged on the
  device, until the admin closes it, which an online device that no longer knows it
  answers with 409; the block of a hello that is older than the answer to a stage
  fails the job as lost; an abort answered `unknown_update` after the result
  `failed` leaves `cancelled`; an apply can begin before the first pass after a
  restart (as `state.ts` says).
* `UpdateRollout`: a restart after a failed device's row (`rollouts.ts` 532) and before
  the pause (669) loses the stop: the next step goes on with the other devices, or,
  if it was the canary, waits in `canary` for one that will not be confirmed. A
  failure met by the step that adopts the job stops only the next step. A restart
  between a job and its device's row, followed by a long absence of the device, skips
  the device and leaves its job beside the next canary's. A job left `unknown` keeps
  its rollout running.
* `AlertDelivery`: a digest of more than 50 alerts (`routing.ts` 404) collapses the
  rows of all and tells of the first 50: the notices of the others, held for quiet
  hours, are gone. A restart between the save of an alert and its routing loses the
  notice; one between a digest and the collapse of what it holds sends both; a pass
  ordered by severity, or a retry's backoff, may deliver an older recovery after a
  newer alarm; a row collapsed under the worker's copy is sent and saved as sent; a
  row left `sending` for less than two minutes at a restart stays so until the next.

## Fairness

`JobsEnd` assumes that a started task goes on, that an RPC is answered or times
out (`hub.request` has a timer), that the router's confirm timer and the clock
advance, and strong fairness of the tick's terminating branches: the tick runs
every 5 s and its task is served in FIFO order although others keep coming.
Nothing is assumed of the link, the admins, or the agent's answers. Weak fairness
would not do for the tick: other tasks disable it again and again.

`EveryTaskStarts` assumes that promise callbacks and timers run (weak) and that a
task's body ends (strong): every RPC it awaits has a timeout, and a fleet task
visits each device once, so it may go back to a nested call, but not for ever.
`CallsEnd` assumes only that the timer of `AgentHub.request` fires; neither agent
nor socket need do anything. `PushesResolve` assumes that the queries of one
ingestion end, well or not.

`KeyGivenBack` assumes that the pass goes on every 5 s and that answers or their
timeouts come; that the device works on what it has begun and dials in again; and
strongly that a part of the pass reaches a staged, queued or overdue job although
sessions come and go. It excepts `unknown`, which waits for the device or the admin,
and says nothing of a job that was opened again without its key. `RolloutEnds`
assumes that a step which has begun goes on, that time passes, and strongly that the
engine's decision is one that gets further whenever it stays possible again and
again (a device of the batch is started, adopted or skipped and not passed over for
ever: the code skips a device that is away for too long). It assumes nothing of the
jobs: a rollout ends or waits for the admin, or a job of one of its devices stays
open for ever (an `unknown` one may), or its canary failed in a step that broke off
before the pause. Of the deliveries no liveness is claimed: a notice may expire.

## Proofs

TLAPS, for every value of the constants that satisfies `ApplyAssumption`.

* `TypeOKAlways` (`Spec => []TypeOK`). `TypeOK` is not inductive: a result is
  built from the sections a job wrote and replaced, so the inductive `TypeInv`
  adds that both are defined on exactly the sections of the job (`PlansOK`). One
  lemma per action; operators that build a record have a typing lemma of their own.
* `OneOpenAlways`, `TaskHoldsJobAlways`, `ApplyHeldAlways`, `FinishedIsFinalAlways`.
  The first two hold until a detached timer requests a job (finding `detached`),
  which their formulas say; `ApplyHeldAlways` is what is left of the second beside
  any number of such requests, and the last holds beside them. The inductive
  invariant is `TypeInv`, `OneOpen`, `HoldsJob` and `StackOK`, which says of every
  frame *below* the top what its callers rely on: a pending send has a queued job
  whatever the read above it does, a chain goes on only when no job is open (until
  the timer's request), and no frame underneath a result refers to a job that could
  open again. `TaskHoldsJob` alone says nothing of the frames a return uncovers.
  `FinishedIsFinal` follows from it step by step.
* `KeptWithEveryGateAlways`, `VerdictIsTrueAlways`, `ResultWaitsAlways`,
  `CommittedOnceAlways`, for any number of jobs, sessions, detached requests and
  faults. What the first says of the agent is what the code asks for: back on a
  session newer than the apply's, and a push ingested after that, which may have been
  sent on the old one (`AgentHalfFromFreshSession` under Known divergences). What the
  controller saves was said by the router some steps ago, so `VInv` says that
  everything on its way is true: the outcomes the agent lists, greets with, or that
  wait in the queue and on the stack (`OutcomesTrue`); that a request on the wire,
  a late one included, may still be carried out, an apply at most once and a confirm
  only with every gate open (`WireOK`); that only the last request is awaited, and
  the answer is about what became of its job (`TalkOK`); that one job at most is
  live on the router (`AgentOK`); and of each job what its row, its halves and its
  fate have to do with each other (`JobsTrue`). The argument is that what became of
  a job on the router is final (`Grows`), which is `CommittedOnce`.
* `KeepsPromiseAlways`: `GatewayApply` implements `CommitConfirm`, with `Verdict`
  and `Agreed` as the refinement mapping. `Tells` sorts every step: it does nothing
  to jobs and fates, one thing to one job of the controller, or one to a job of the
  router; `TellsMaps` makes each a step of `CommitConfirm` or a stutter.
* `CarriedRowsHoldUnlessResolved`: until a detached timer requests a job, of all steps
  only the settling of a conflict changes the base or the draft of a section that is
  carried. `CarriedRowsHold` itself fails with edits in the window (Known
  divergences), through just that step; without them it is model-checked.
  For the rest the invariant `CInv` says that no section a job in flight
  carries is in conflict (`Undisputed`); only the outcome of a job that discards an
  edit would dispute one, and none is listed, on its way or held by a frame
  (`NothingDiscarded`), because the router runs just what the live job wrote over
  what it replaced (`Committed`).
* `ReplacesAsPlanned`, for all constants: what a live job replaced is the
  configuration whose hashes it was planned on (`AsPlanned`). It rests on no job
  being planned again once it was sent (`PlansStay`), retries after `stale_base`
  and late requests included. It is the part of `NoUnseenEditOverwritten` that holds
  for chains, too: what fails there is that the plan knew of the edit's hash and
  the rows did not know of the edit.
* `FirstReplacesOnRecord`, for all constants: as long as no job was kept or
  restored, the rows do know. What the live job replaces is content that was on
  record when it was planned. `FInv` says that until then the rows and the hashes
  are of one read (`OnRecord`), so that a plan made of both is of one configuration
  (`PlannedOnRecord`). What moves the one without the other comes later or moves
  neither. A confirm needs a job that was kept, and an assumed rollback a window
  that ended, which it does only while the router is off (`OverOffline`), so that
  nothing is sent before the result is there. The answer `noop` moves the base of
  the rows it carried and the hashes, but to what was on record (`NoopOnRecord`),
  because the task that sent the job has held the queue since (`SentOnRecord`). For
  a job that follows a kept one it fails (Known divergences); the run `edits` checks
  it for one job.
* `AgentHubProofs`: `TypeOKAlways`, `OnlyCurrentWorksAlways`, `OwnAnswerAlways`,
  `ContextFollowsSession`, `BusyOnlyWhenFullAlways`, for any number of sockets,
  calls and agent requests. The inductive invariant adds to `TypeOK` what ties the
  hub's map to the sockets (`SessionsOK`: the row's session is an open registered
  one, every other registered session is on its way out, and the context is the
  current session's or that of one whose close has still to come), the pending
  tables to the calls (`PendingOK`: an id belongs to one call, only the current
  session has entries, and a call waits exactly while it has one) and the answers on
  their way to the ids (`RequestsMatch`: ids are used once per session, so an answer
  can only meet the call that sent the request), and the slots a session counts to
  the handlers that run for it (`SlotsCounted`), through resolved, failed and late
  handlers and the loss of their socket.

* `SerialQueueProofs`: `TypeOKAlways`, `OneStartedAlways`, `CountsMatchAlways`, for
  any set of devices, any finite number of activities and any bounds. The links
  between the promises are the state, so the invariant (`Chained`) says of each key
  that its unsettled tasks are one sequence, each chained to the one before it, whose
  last is the entry's `tail` and whose length is `pending`; that two keys share no
  entry (`OwnEntries`); and what each state of an activity means (`Flows`).
  Of a key's tasks at most one has then started: only the first hangs on nothing.
  `OneAtATimeAlways` is about what works, not what has started, and a nested call
  works in its caller's turns as well. `Contexts` adds what an activity's context
  holds: its own key and its caller's; that it works only in turns it holds; and that
  a caller awaits. Of two that work in one turn each would be under the task that
  has started there, and under one task one works: who awaits whom is a line, since a
  caller awaits one call (the model's recursive functions are used by their
  equations only). `TakesTurnsAlways` is the refinement of `Turns`: `Lines` shows that
  the served task and the line of the mapping, which `LineOf` picks as the order of
  the queued tasks by their depth in the chain, are what the chain gives; each step
  then moves the chains as `Turns` moves its lines.
* `CollectorPushProofs`: `TypeOKAlways`, `NewestIsCheckedAlways`,
  `InOrderAndApartAlways`. The invariant adds `InLine`: the waiting push is later
  than the running one, and that one later than the last that was taken in.
* `UpdateJobProofs`: `TypeOKAlways`, and what holds however the handlers overlap and
  however old the copies they save; nothing is assumed but the bounds' types.
  `VerdictIsTrueAlways`: `VInv` says that the device is where calls, results and
  session say it is (`DeviceAgrees`), that the row of a job it tests or keeps is one
  that ends in `confirmed` (`Sure`), and that the row the pass has a copy of, whatever
  others make of it, does not get past the install meanwhile and is of no job the
  device keeps (`PassApart`), so that what the pass writes back contradicts nothing.
  `OneOpenUnlessReopenedAlways`: only an open job holds the unique key and no two
  jobs do (`KeyHeldByOpen`), because a copy that has lost the key is of a row that has,
  too, and one that has it is of an open row (`KeyOf`): of "one open job" this is the
  half that stays, so that no new job is refused for the sake of one that is closed.
  The other half fails only through a row that was closed and saved as open again
  (`KeylessReopened`).
* `UpdateRolloutProofs`: `TypeOKAlways`, `OneBatchAlways`, with the admin and
  restarts between any two saves. A step saves rows it read earlier, so the
  invariant relates the copy to the table: what only a step changes is in both the
  same, and a device that runs does so in the copy until the step starts devices
  itself (`CopyOK`); the states before and after the canary's confirmation
  (`PhasesOK`); one canary, and only it runs or is about to until it is confirmed
  (`OneCanary`, `CanaryFirst`); and a step that starts a batch found nothing running
  and counts what it starts (`Batches`). `NothingAfterFailureAlways` excepts the
  failed devices of a step that broke off before its pause (`torn`), which the code
  does go past (Known divergences), and nothing else: `FInv` says that with any
  other failure that stops it a rollout does not run, or its step is on its way to
  the pause (`Stopped`), that the copy of a step that still starts devices knows of
  every failure (`FailedKnown`), and that it starts what it read as pending
  (`StartsPending`).
* `AlertDeliveryProofs`: `TypeOKAlways`, `AlarmStandsAlways`,
  `NoAlarmAfterAllClearAlways`, for any alerts, thresholds, caps and events. `Routed` says
  where the notice of an alert is between two saves of a recovery or a digest, and
  that a digest tells all that its rows would have told or is full (`InDigest`), which
  `AlarmStands` excepts because the code loses what is beyond the cap;
  `OverWhenDue` and `NoEarlyAllClear` that an all-clear is of the outage it ends,
  so that what the worker holds of an older one is no alarm for this one.

Only model-checked: all liveness, `JobsEnd`, `EveryTaskStarts`, `CallsEnd`,
`PushesResolve`, `KeyGivenBack`, `RolloutEnds`. Liveness under fairness is beyond the
prover, as are ENABLED and induction over recursively defined data. Of the safety
properties: `NoUnseenEditOverwritten`, which fails for chains and of which
`ReplacesAsPlanned` and `FirstReplacesOnRecord` prove what holds for all constants;
`CarriedRowsHold`, of which `CarriedRowsHoldUnlessResolved` does; `NeverBoth` and
`InstallsOpenJobs`, which need the order of the requests on the wire and their copies.

## Not modelled

Everything listed `not_modelled` in `PROJECT.json`, with its reason. Of the
modelled components:

* apply lifecycle and sync: enforcement and revert jobs of authoritative gateways,
  per-option merging, creation and deletion of sections, secrets, section order,
  the revision log, post actions, write access and signing; the saves of one
  handler are one step;
* agent updates: automatic rollouts, two rollouts that are open together, the
  release store with its manifests and signatures, windows, retention, manual and
  plugin-file updates;
* alerts: the detectors, the hold before an alert opens, notices, deduplication,
  mass withholding, the grace after a boot, several destinations (each has rows and
  a worker's turn of its own), item limits, the senders, test sends, retention.

Most of the repository is not protocol but data: UCI domains, forms, read models
and the dashboard are sequential translations that their table tests reach.
