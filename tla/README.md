# Verification of comebacktwitterembed

comebacktwitterembed is a Discord bot. Besides expanding links in messages it watches
accounts, prices and push notifications for its users, evaluates their rules
("workflows") over the events, and delivers the results to Discord. Two machines can run
it, one at a time. This directory holds TLA+ models of the parts of the system that are
hardest to test: the automatic watch that discovers what is new, the reception of X
notifications, the executor of flow graphs, the durable delivery of notifications, its
quota and the lease that keeps the two machines apart, with TLC configurations that
check them and TLAPS proofs about them.

## 1. Inventory

Paths are relative to `src/src/automation/` unless they start with `src/`.

| Component | State it keeps | Operations | Talks to | What makes it correct |
|---|---|---|---|---|
| Delivery queue (`queue.js`) | `automation_jobs`, rate-gate counters | route, routeX, claim (with recovery), refreshFlowJob, check, beginSend, acknowledgeStep, renewLease, transition | called by the worker and the routers; rows shared by all processes | no message twice; a retryable row has nothing at Discord; a batch is frozen once sent; an abandoned send is resolved |
| Delivery worker (`runtime.js`) | locals of one `tick`, pace counters | start, stop, tick, paceStep | queue, transport, quota | the lease is checked again before every submission |
| Transport (`transport.js`) | a prepared batch in memory | prepare, reserve, sendStep, release | Discord REST, quota | every answer is classified as posted, not posted or unknown |
| History (`history.js`) | the job rows | cancel, reschedule, retry, lists | owners, through the API | never touches a row that may have been delivered |
| Withdrawals (`monitors.js`, `workflow-deletion.js`, `marketplace-core.js`) | monitors, rules, packages | cancelPending, removeWorkflow, revoke | job rows | queued content of a withdrawn monitor is not sent |
| Quota (`rate-limits.js`) | `automation_counters`, `automation_rate_reservations` | reserve, begin, commit, retain, release, recover orphans, sweep, usage | transport, job leases | limits hold; books balance; lost holds come back |
| Flow graph (`graph-*.js`, `flow-*.js`) | runs, units, steps, edges, batches, merge decisions, sends | initialize, claim, settle, failStep, admitBatch, closeBatch, parkMerge, synchronize, projectOne | rule evaluation in, queue out | each activation settles once; a merge decides once, after all paths closed |
| X push (`x-push-*.js`, `x-event-router.js`, `x-monitor-quota.js`) | receivers with a lease and a window, the inbox, hints and cursors in memory | claim, renew, release, store, acknowledge, drain, hand over, mark | push service in, queue out | what was acknowledged is stored; a receipt is closed only when its monitors have it; pending ones do not block others |
| Automatic watch (`src/src/providers/autoWatch`) | sources with a cursor, watchers, items, deliveries | register, pause, resume, remove, claim, poll, drain, admit, hand over | providers in, routers out | nothing discovered is lost, replayed or handed over twice |
| Price watch (`src/src/providers/priceWatch`) | products, targets, deliveries | poll, claim, hand over | shops in, routers out | as the automatic watch, for prices |
| Personal links (`src/src/personalLinks`) | reminders | claim, prepare, send, cancel | Discord | as the queue, in small |
| Fleet authority, guardian (`src/recovery/authority.py`, `guardian.py`, `src/src/recoveryLease.js`) | epoch, active node, lease, drain and quarantine times | acquire, renew, release, enroll, arm, promote, failback | the two machines over HTTP | at most one machine runs the bot |
| Fleet controllers (`src/recovery/controller.py`, `failback_orchestrator.py`) | phase files, the handoff marker | restore, promote, fail back | authority, systemd, routing | a crash in any phase resumes or stops, fenced; the marker tells the truth |
| Schedules, evaluation, billing, marketplace, push capacity, API | tables of their own | see `PROJECT.json` | | calendar arithmetic, validation, single transactions |
| Link expansion, commands, texts, lifecycle, dashboard, admin agent, setup client | mostly none, or in memory | | | presentation and I/O |

The hard behaviour is in the rows of the queue, the quota, the flow graph, the inbox and
the fleet: several processes share the
database (two machines during a switch, an old and a restarted process during a
deployment), leases time out under slow workers, Discord's answers get lost,
owners act in the middle of everything, and windows roll over. `PROJECT.json`
lists under `hazards` the lines where this bites, with the properties that cover
each, and the hazards that are still open.

## 2. What is modelled

### DeliveryQueue

One database row per job, any number of worker processes, Discord and the
owners. Every database transaction is one action; a worker's code between two
awaits is one step, and its place in `tick` is `pc`. Between two steps anything
may happen.

* `state`, `parent`, `members`, `lease`, `live`, `attempts`, `sentSteps` are
  columns of `automation_jobs` (`members` and `charged` are fields of
  `plan_json`). A lease token is a number that is never reused, as the code's
  random UUID. `wjob` to `goal` are the locals of `tick`; a crash forgets them.
* `ClaimRecover` is the first transaction of `claim` (held, abandoned and orphaned
  rows), `ClaimLease`, `ClaimCorrupt` and `ClaimNothing` its second; `Refresh*` is
  `refreshFlowJob`; `Preflight` the unlocked check; `Prepare` and `PrepareRefused`
  the transport's preparation and quota; `Begin*` is `beginSend`; `Pace`, `Gate`,
  `LeaseLost`, `SendRefused`, `SendBreaks`, `Submit`, `Answer*`, `Acknowledge*` are
  the loop over the messages of a batch; `Settle` is `transition`.
* `CountAttempt` is the statement of the catch block that counts an attempt which
  failed before `beginSend`. `SettleBreaks` is the catch block's `partial` when the
  transition to `sent` throws.
* `UserCancel`, `UserReschedule`, `UserRetry` are `history.change`;
  `MonitorChanges` is `cancelPending`; `RuleWithdrawn` stands for removing a rule
  and revoking a package, which treat queued rows alike.
* A request to Discord is a record in `wire` until Discord accepts it
  (`delivered`) or refuses it. A worker that got no answer knows nothing.

Abstractions: a lease is live until it runs out, which may happen at any moment,
and a pending row may be due at any moment, so no clock is needed. Content is a
set of items (job, monitor). A rule evaluation with several outputs creates its
rows in one transaction in the code, one by one in the model. Attempt counters
stop at the limit they are compared with. The version an owner's operation
carries makes it act on the current row, so it is modelled as one step. Message
nonces, payloads, schedules, permissions, priorities and pace values are left
out: they only decide which of the modelled outcomes occurs.

`DeliveryPromise` is the abstract specification: for each job a verdict (open,
folded into another job, sent, uncertain, unsent) and the messages its recipient
got, and nothing about workers, leases or rows. `PromiseKept` says that the queue
implements it.

### RateLimits

The counters and reservations of the notification quota, with the attempts that
use them. A counter is `used`, the window it counts for (`epoch`) and whether
this window still runs (`open`); the code's comparison of `expires_at_ms` with
the expiry stored in the reservation is the comparison of epochs. A reservation
row exists per attempt and slot (`row`), with the windows it was charged to
(`at`) and the state of each message (`part`).

`Reserve` and `ReserveDenied` are `consume`; `Begin`, `Commit`, `RetainUnknown`,
`UndoPart` and `Release` are `settle` with its outcomes, called from `sendStep`'s body
and catch block and from `tick`'s finally block; `RecoverOrphan` and `Sweep` are
the recovery run before each claim and the deletion of old rows. A job's lease is
`live`, `late` (out of time, which an acknowledgement undoes) or `gone`. Charges
are cardinalities of sets of messages, which is what the proofs reason about.
The quota of API operations shares `consume` but makes no reservation, and is
left out; a plan that changes during a delivery is one way to `PostRefused`.

### GraphFlow

The executor of a published flow graph: one namespace, its runs, and any number of
workers. Every operation of `graph-store.js` and `graph-join-store.js` is one
transaction under the lock of the flow, and one action here.

* A unit is named by what the store derives its identity from: the node that last
  formed it, the edges taken since, the batches it came out of and its runs. A step is
  a node, the edge it was reached over and a unit, so `Activate` inserts what is
  not there, as `putStep` does. `steps[s]` has the columns of
  `automation_flow_steps`; `version` is the lease token.
* `flights` are evaluations in progress, between `claim` and the transaction that ends
  them: `Settle`, `SettleRevoked`, `Wait`, `Partition` and `Gate` are `settle`; `Admit` is
  `admitBatch`, `Park` `parkMerge`, `RecordSend` and `FailStep` the operations of their
  names; `Late` is a transaction that finds the lease with another worker, `Abandon` a
  crash or a refusal. `LeaseEnds` under a slow worker counts as a fault.
* `CloseBatch` is `closeBatch` with all its outcomes. `Synchronize` is `synchronize` for
  a set of runs, with the propagation of closed edges (`ClosedNow`, from
  `propagateClosures`), the decisions (`Accepts`, from `mergeLineage`) and the units that
  leave the merge. `syncs` holds the synchronizations a worker still has to make;
  it may die first (`Skip`), and `Resync` finds the flagged runs again.
* A tick looks for a due batch, then for a step, then for flagged runs: `Claim` and `Resync`
  are guarded by `NoneDue`.
* `Project` is `projectOne`. `Revoke`, `Expire` and `Tick` are the environment.

Abstractions: which branch an event takes, whether displays conflict and whether
a unit is too large to store is nondeterministic. There is a deadline per run;
the horizons of schedules are left out. Time is counted in windows of the limiting
and aggregating nodes. Owning a step is a matter of the token: the code also
compares the end of the lease with the time its tick began, which is before that
end. The look for a due batch and the claim are one action: a batch that another worker
fills late, between the two, does not show in the runs; no proof uses the guard. All "ready" decisions of a synchronization are emitted in the same
transaction (the code pages through more than 100 groups). The repair of initial
steps and the projector's handling of destinations that vanished are left out. A
`dictionary` node differs from a `condition` only in how its text is evaluated.

### AutoWatch

One watched source, its watchers, and the processes that poll it and hand over
what they discover.

* `source` is the row of `auto_watch_sources`: `init` (initialized_at_ms), `seen` and `tail`
  (the fields seenContentIds and deferredItems of the cursor), `tag` (the stored
  validators, as the listing they describe), and the lease. `target`, `item`, `delivery`
  and `runs` are the rows of watchers, items, deliveries and of `automation_runs`.
* `ClaimSource`, `Fetch`, then `Seed`, `NotModified`, `Observe` or `Drain` are `processSource`
  and `drainBacklog` with `completeSource` or `completeBacklog`; `SaveRefused` is their
  fence, `PollBreaks` pacing, a failed fetch and a transaction rolled back.
* `ClaimDelivery`, `Route*` and `FailDelivery` are the second loop of `tick` with
  `route` of `queue.js`; `RouteRaises` covers a commit whose answer is lost.
* `Register`, `Pause`, `Resume`, `Remove` are the owner's operations of `store.js` and
  `monitors.js`; `deleteTarget` also collects the source, `remove` does not.
* `seed` and `basis` are history: the contents of the first observation, and of the
  observation that set a watcher's baseline.

Abstractions: one source; whatever is free may be due, since a completion moves
the next check past the time of its claim; the order of a listing is ignored, so any
`AcceptLimit` of its new contents may be admitted. Left out are the pacing and budgets of
providers, cadence windows, historical contents of the first observation
(`isHistoricalAtBaseline`), the tabs of YouTube, the recovery quarantine, the legacy
backlog and the size limits of the cursor. Assumed is that the clocks of the
processes agree and that separate events have separate times; the model then needs a
clock only for the order of recorded times.

### XPush

The reception for one subscription, by the processes of two releases that may run at the
same time.

* `receiver` is the row of `automation_x_push_receivers` (lease and window), `inbox` the rows
  of `automation_x_push_inbox` in the order of their ids. `monitor` and `mode` are what the
  router and the hand-over find of each monitor, `runs` the rows of `automation_runs` by
  their dedupe key. `memory` is what a process keeps between two drains: the hints, the
  cursors of the scan and of the formats it has tried, and whether to go round again.
* `Connect`, `Receive`, `Acknowledge`, `Disconnect` and `Reconcile` are `run` of the gateway with
  `claim`, `recordFrame` and `release`, and the closing of sessions nobody needs.
* `Tick`, `Recover`, `Pass`, `Scan`, `Window`, `Complete`, `Skip`, `PutAside`, `Open`, `HandOver`,
  `Close` and `Advance` are one drain, from awaited operation to awaited operation; `Break` is
  every way it can fail. Only one drain per process runs at a time; `Acknowledge` leaves a
  hint for the one in progress.
* `HandOver` is `routeX`, which the lease does not fence: a process that lost it may still
  hand a receipt over, and the key of the run makes that harmless.
* `owed` of a receipt and `refused` are history: the monitors bound when it arrived, and the
  hand-overs that were refused for good.

Abstractions: the effective mode of a monitor is read once at the hand-over (the code reads
it before and within the transaction); the order of the monitors within a receipt is any;
how long a process waits before it claims again is left open; one bound, `MaxDisturbances`,
holds for faults and for changes by owners and plans. A realtime pass scans to the end (the
code stops after ten pages and goes on with the next drain) and keeps all hints (the code
100; the rest is found by the scan). Left out are encryption, foreign and undecryptable
frames, reenrollment, the rollout, the recovery quarantine, the deletion and revision of
subscriptions; a deleted monitor is not registered again.

A pause that falls between the router's read of the monitors and the hand-over is one the
model keeps as the code has it: `routeX` answers `cancelled` (or `excluded` when plan or rollout
ended), the router counts only `pending` answers (`x-event-router.js:198`), and the receipt is
closed for this monitor, while a pause an instant earlier would have kept it open
(`x-event-router.js:189-190`). `refused` marks these cases, and `ClosedIsServed` allows them.

### FleetLease

The authority (one process with a database row), the guardian of each machine,
the controller that promotes the standby `oci` and the coordinator that gives the
role back to `primary`.

* `db` is the row of table `authority`; `anchor` stands for `clock_anchor_wall` and
  `clock_anchor_mono`, as the offset of the wall clock when the two were last
  compared. Every call begins with `Checked`, the row after `_check_clock`, and
  ends with `Commit`, which also keeps the row of a refused call (`Refuse`), as
  `call` does. `Restart` is `__init__` on an existing database, `HandoffReady` its
  reading of the marker.
* `guard[n]` is a guardian's process: `pc` is its place in `run`, `at` the time its
  request began, `deadline` its `local_deadline`. `requests` are requests on their
  way; one that nobody waits for may still arrive. `answer` is what the worker
  thread of `call` has put in its queue. `GiveUp` is each way a call can fail,
  `Adopt` is `adopt`, `Launch` the last comparison and the start of the child,
  `Fence` the watchdog and the ends of the loop, `GiveBack` the release of the
  `finally` block, `Die` the end of the unit.
* `phase` is the coordinator's state file. `RestartWithMarker` and `RestartFails` are
  the outcomes of `systemctl restart`; `FailBack` covers an answer that is lost.
* `legacy` is a primary that runs without a guardian, as before the installation.

There is one boot clock `now` for all; guardians measure with it. The authority's
wall clock is `now + skew`, and `skew` is set anew at any moment. What the model
assumes: a workload is over at most `Late` after its local deadline (`Tick`; the
code reserves `STOP_BUDGET` seconds before it and kills the unit); a call of the
authority reads one time; so do the last comparison before a start and the start
itself. Abstractions: the random instance names and lease ids are taken from those
nobody remembers; `last_wall`, which can only lengthen a quarantine, is left out; the
checks the authority makes on an enrollment proof, intents and approvals of
operators, routing and the data of the two machines are guards that may or may
not hold, so the action may or may not happen. The comment in `authority.py:147-150`
says that after a handoff `failback()` does not wait for a drain; the code sets
`lease_expires` to the time of the restart, so it still waits `DRAIN`, and so does
the model.

Two constants switch on behaviour that the code has and that breaks its promises.
`UnfencedBoot` lets the `oci` host boot while the coordinator holds the source for
frozen (section 5). `LostQuarantine` lets the very call that notices a clock step
fail with an unexpected exception: `call` then rolls the quarantine back, while
`_check_clock` has already moved the anchor, so the step is never noticed again
and the workload can run on both machines. The run `fleet` and the theorems have
both switched off.

## 3. What the runs check

| Run | Instance | Question |
|---|---|---|
| `queue_flow` | a graph job over 2 monitors, 2 workers, 3 leases, 2 messages, 1 attempt | types, `AtMostOnce`, `UnsentMeansUndelivered`, `SentMeansDelivered`, `DeliveryOutcomeStands`, `SendBeginsCurrent`, and the refinement `PromiseKept` |
| `queue_batch` | 2 jobs of one monitor (one may be held by an earlier release), 1 worker that crashes, mode all, a gate of one place | `BatchFrozen`, `ChildAwaitsOpenParent`, `GateChargedOnce`, `SentChildWasInBatch`, and `SendingResolves` under fairness |
| `quota_attempts` | 2 attempts, one of 2 messages and one of a single one, 1 slot with limit 2, a day window and its successor | `ChargedExactly`, `PostedStaysCharged`, `PostedWithinLimit`, `UsageShowsConfirmed`, and `HoldsComeBack` under fairness |
| `fleet` | both roles at the start, times of 1 to 3 ticks, one step of the wall clock, 3 epochs | `OneWorkload`, `DrainedMeansStopped`, `MarkerMeansFenced`, `OnlyActiveRuns` |
| `fleet_boot` | `oci` active, boots of the host allowed in every phase | expected violation, see section 5 |
| `fleet_resume` | `oci` active, a coordinator that keeps trying | expected violation, see section 5 |
| `graph` | 2 runs, one of which may expire; a batch and a branch that waits are joined, then a limiting node and a send | types, `AbsentMeansAbsent`, `MergeSawEverything`, `OneNotification`, `SyncNotForgotten` |
| `graph_faults` | 1 run that may be revoked, 2 workers, a batch and a waiting branch through a limiting node into a merge, one fault | `GateHonest`, `BatchBooks`, and `FlowSettles` under fairness |
| `graph_reconverge` | two ways into a batch, beside a direct way to the join | expected violation, see section 5 |
| `graph_forgotten` | a batch of batches next to a direct way to the join, 2 runs, one of which may expire | expected violation, see section 5 |
| `watch` | 2 contents, one of which may leave the listing, 1 watcher, 2 processes, a change by the owner and a fault | `DiscoveryKept`, `OwedMeansQueued`, `ClosedAsItWent`, `NoReplay`, `SavesWhatItRead`, and `WatchCatchesUp` under fairness |
| `push` | 2 notifications about 2 posts, a realtime monitor of both and a batch monitor of the second, a release that understands one format and one that understands both, pages of one receipt, one disturbance | `NothingLost`, and `BacklogClears` under fairness |

Bounds. Three leases are a worker that lost its lease, one that took over, and the first
returning; two messages distinguish a first from a later one; an attempt limit of two
separates a retry from the last attempt (one is enough where retries are not the
question; owners' retries are counted by leases). Two events make a batch, and one that
joins too late. The limit of the quota lets the second attempt in only after a refund or
in the next window, and two epochs are a window and its successor. One registration with
one counter is as much as a run with liveness can take; that a reservation charges all of
its counters or none is exercised by the theorems only, which hold for any number of slots
and windows. `MaxLeases` and
`MaxEpoch` bound the runs, not the code; the theorems hold for every value of them. In
`fleet` the times are the smallest that keep their order in the code (the margin is
shorter than the drain, the drain than the lease) with `Late + 2 * Tolerance =
StopMargin + Drain - 1`, so the inequality that the proof needs is tight. A failover
takes a lease and a drain, which five ticks just allow from time 0; a failback with a
marker takes a drain, which they allow from time 3. A step of 1 is within the tolerance,
one of 9 longer than a lease and its drain; going back from it is the same as a start
with it. Three epochs are an epoch, a change of the role or a restart, and one more; one
request at a time per machine is what `call` enforces, and `MaxRequests` of one lets a
late request stand in the way of the next. In the graphs two runs are a batch and
whoever is missing from it; two windows let a batch, a delay and a limiting node each
make something wait for the next. One worker is enough in `graph`, since every
transaction of the executor is an action and what a worker read is in its flight;
`graph_faults` adds a second one and lets one of them fail. The other modes of merges
and batches and the other overflow were checked with the same graphs. In `watch` two
contents and an admission limit of one give a tail, which a content that leaves the
listing may be part of; two processes let one overtake the other. In `push` pages of one
receipt make every scan and window have a next page, two receipts let one stay pending
before the other, and two monitors one mode each; a receipt the old release puts aside
has to be recovered by the new one. Deadlock is not checked in the fleet runs, which
stop at their bounds, in the quota run, where each attempt is made once, nor in the
graph, watch and push runs, where everything may be done: such an instance stops when
all is used up.

Fairness. `runtime.js` `start` runs a tick every second and the process is restarted by
systemd, so a worker keeps taking steps (weak fairness of `WorkerStep`, which includes
the claim's recovery); a lease of 120 s that nobody renews runs out (`LeaseRunsOut`).
Nothing is assumed of Discord, owners or crashes: a worker may crash for ever between
its steps. In `RateLimits` the steps of an attempt, the expiry of its lease and the
recovery of its orphans are fair for the same reasons. In `GraphFlow` workers keep
ticking and every tick ends, so claims, the end of an evaluation (which may be its
failure), seals, synchronizations and the clock are weakly fair, and the lease of a dead
worker runs out. In `AutoWatch` what a busy worker does next is weakly fair; the claims
of the source and of deliveries are strongly fair, because each tick runs both loops,
oldest first, and between two ticks the other loop or an owner may take a claim away for
a while. In `XPush` each process goes on with its connection and with its drain when
nothing disturbs them (`start` ticks every few seconds, and a tick reconnects and
drains), a lease nobody renews ends and the interval passes; no fault and no change by
an owner has to happen. `fleet_resume` assumes that the coordinator goes on
(`FairSpec`): `failback_orchestrator.py` `run` repeats its step until it is done.

## 4. What is proved

`DeliveryQueue_proofs`, `DeliveryPromise_proofs`, `RateLimits_proofs`, `GraphFlow_proofs`,
`GraphJoin_proofs`, `AutoWatch_proofs`, `XPush_proofs` and `FleetLease_proofs` prove, for every number of jobs,
workers, leases, messages, slots, windows, runs, graphs, contents, watchers, notifications,
monitors, processes, faults and limits and for every choice of times, from the assumptions
on the constants stated in the modules (`JobAssumption`, `ConfigAssumption`, `LimitAssumption`,
`QuotaAssumption`, `GraphAssumption`, `PlanAssumption`, `ValueAssumption`, `PushAssumption`, `FleetAssumption`):

* `TypeCorrect` of these modules (`WatchTyped` of the watch, `PushTyped` of the reception);
* the queue: `NeverTwice`: `Spec => []AtMostOnce`; `RetryIsSafe`: `Spec =>
  []UnsentMeansUndelivered`; `OutcomesStand`: `Spec => DeliveryOutcomeStands`;
  `SentIsDelivered`: `Spec => []SentMeansDelivered`; `BatchIsFrozen`: `Spec => []BatchFrozen`;
  `ChildrenWereSent`: `Spec => []SentChildWasInBatch`; `NoOrphans`: `Spec =>
  []ChildAwaitsOpenParent`; `ChargedOnce`: `Spec => []GateChargedOnce`;
  `SendsWhatIsCurrent`: `Spec => SendBeginsCurrent`; and the refinement,
  `QueueKeepsPromise`: `Spec => PromiseKept`;
* the quota: `NeverUncharged`: `Spec => []PostedStaysCharged`; `BooksBalance`: `Spec =>
  []ChargedExactly`; `WithinQuota`: `Spec => []PostedWithinLimit`; `UsageIsTrue`: `Spec =>
  []UsageShowsConfirmed`;
* the flow graph: `BooksOfBatches`: `Spec => []BatchBooks`; `NotifiedOnce`: `Spec =>
  []OneNotification`, with `RunLeavesOnce` for its first half; `GatesHonest`: `Spec =>
  []GateHonest`; `FlagsTellTruth`: `Spec => []FlagsTrue`; under a hypothesis on the graph
  or its runs `MergesSeeAll`: `Treelike => (Spec => []MergeSawEverything)`, `BranchesCount`:
  `Treelike => (Spec => []AbsentMeansAbsent)` and `NobodyForgotten`: `OneKey /\ Perishable =
  {} => (Spec => []SyncNotForgotten)`;
* the watch: `WatchKeepsDiscoveries`: `Spec => []DiscoveryKept`; `WatchQueuesWhatIsOwed`:
  `Spec => []OwedMeansQueued`; `WatchClosesAsItWent`: `Spec => []ClosedAsItWent`;
  `WatchReplaysNothing`: `Spec => NoReplay`; `WatchSavesWhatItRead`: `Spec => SavesWhatItRead`;
* the reception: `PushLosesNothing`: `Spec => []NothingLost`;
* the fleet: `OneMachine`: `Spec => []OneWorkload`; `OnlyTheActive`: `Spec => []OnlyActiveRuns`;
  `DrainIsLongEnough`: `Spec => []DrainedMeansStopped`; `MarkerIsTrue`: `Spec =>
  []MarkerMeansFenced`, these four where `UnfencedBoot` and `LostQuarantine` are false.

`AtMostOnce` is not inductive. `QueueInv` strengthens it with what the code relies
on without saying so: a lease token is held by one worker and is never issued
again (`Tokens`, `OneSender`); a worker in its sending phases either owns a row
in `sending` or the row was abandoned to an uncertain outcome for good
(`OwnsOrAbandoned`), which is why `acknowledgeStep` may ignore the lease's time;
only the holder of a row submits for it and its requests are those it counts
(`HolderSubmits`, `OwnSubmissions`, `Counts`); a row that can be claimed has no
request (`UnsentMeansUndelivered`, `NothingSubmitted`). Each action of `Next` has
one step in the preservation proof.

`DeliveryPromise_proofs` adds what relates rows to each other. `FamilyInv` is about
batches and their members (a member names its batch and the batch contains it, a batch
is nobody's member, and waits only for one that is open), `BatchInv` about the worker
(the plan it read is what the batch contains for as long as it may submit from it, since
nobody joins a leased row), `CurrentInv` about the content that owners withdrew. On them
the refinement is a step simulation: each action maps to one step of `DeliveryPromise`
for each job or to a stutter. What makes the abstract steps possible is that a message
is new when Discord accepts it (`AtMostOnce`), that a row is shown as sent only with,
and as unsent only without, a message at Discord, and that a verdict which tells of a
delivery is never taken back.

For the quota, `QuotaInv` has a control part (which parts of an attempt can be in
which state at which place of the code: nothing ahead of the current message has
begun, a posted message is marked) and a books part (a reservation never refers
to a future window; a reservation of a running window keeps its row; used is
within the limit; a counter equals the charges of its window). The steps fall
into four classes: those that leave the books alone (`Quiet`), refunds
(`GiveBack`), `Reserve`, and the deletion of old rows (`Sweep`); each class is
shown once to keep the books, by cardinality facts of the library. That a posted
message counts against its window follows at the end: it is charged, the charges
are the counter, and the counter is within the limit. The usage shown to an owner is a
difference of counter and reservations; it is right because the charges of a window split
into those of confirmed messages and those still held, without overlap.

For the flow graph, `GraphInv` says that the inputs of a batch are activations that wait for it
or are complete (`InputsHeld`), each run once (`BatchBooks`); that the segments of a batch
are numbered without gaps, so a new batch never takes the identity of an old one; that
whoever left a merge has been decided there; and that the units which leave in one
synchronization have disjoint runs. `RunLeavesOnce` follows since a run that was decided is
never decided again. An evaluation that lost its lease changes nothing, which is what keeps
an activation from entering a batch twice.

`GraphJoin_proofs` builds on that with `PlanAssumption`, which is what `validateWorkflow`
(`schema.js:145-171`) refuses to publish a flow without: no cycle, one start block nothing
leads to, and no loose end. Two chains of invariants follow.

*The joins.* `SyncInv` says where every activation came from (`Whence`: it is the first of
its run or every member has a receipt for it), that members of units have entered the flow
(`Members`), and that a run whose flag is cleared is calm (`NotForgotten`). The last needs a
reservation: a batch that is sealed closes edges for all members of its activations and
flags those of its inputs. `FlagsTrue` therefore excepts a run whose activation was put into
a batch that has been sealed without the run itself. That happens to members of another
group and to members that expired, so `OneKey` and `Perishable = {}` exclude it
(`NobodyForgotten`). Neither condition can be dropped: a run that expires is forgotten for
good (`graph_forgotten`), and a run of another group lacks its flag from the end of the
activation's last batch until what its own batch sent on is parked. `WayInv` follows a run to blocks it can reach by one way
only (`Simple`): it visits them once (`Visits`), has one activation there at a time and
leaves over each edge in one unit (`Once`), and its sends keep books with the jobs
(`SendBooks`). `NotifiedOnce` follows for every graph. `TreeInv` is about graphs that only
merges bring together again (`Treelike`; branches may part anywhere): an edge is closed for
a run only if the block before it is through with it (`ClosedMeans`), a merge decides only
when all its edges are closed (`DecidedMeans`), and then nothing arrives any more. Upstream
of a closed edge everything is settled, by induction along the graph, which has no cycle;
that is `BranchesCount`. What happens without `Treelike` is the finding of
`graph_reconverge`.

*The limits.* What passed a limiting block is a set of units in `data`, what was counted a sum
over windows in `used`, so `GateHonest` needs that a unit which passes is new. `UnitInv` says
why it is: a unit is known by its way (`Trails`: the edges it took lead from the block
that formed it to where it is), every activation was brought by receipts of its unit
or is the part of one that belongs to one group (`Roots`, `Parts`), parts of one activation
have no run in common (`PartsApart`), what a block sent came from an activation that is
complete (`Senders`), and one that is not settled has sent nothing (`Unsent`). A second worker that settles the same activation is refused by its token, a
copy on another way is another unit. `GateInv` adds the books: no window is overdrawn
(`InTime`), and what passed for a key is what all windows counted (`Counted`). The sums
are recursive functions over windows; the lemmas about `Sums` show what one more count does
to them. No condition on the graph, its runs or its faults is needed.

For the watch, `WatchInv` adds what makes an overtaken poll harmless: whoever holds the lease
of the source with its token read the very cursor that is stored, and at a time later
than everything recorded (`HolderCurrent`); what a watcher's baseline was set from was
known or waiting from then on (`BasisKnown`), which excludes replays; the contents of the
first observation are known (`Known`); recorded times lie before the clock (`Clocked`); an
open delivery has no run (`OpenMeansUnrun`), which is why a lost answer of the hand-over
cannot close it wrongly.

For the reception, `PushInv` adds who may do what under the lease. A token belongs to one
process (`OwnTokens`), rows that pages, hints and connections refer to exist (`KnownRows`), a
notification about to be acknowledged is in the inbox (`StoredRows`). The heart is
`HandIsTrue`: a process that is handing a receipt over, and still has the lease, has for
every monitor the receipt is owed to either served it, has it still to do, or keeps the
receipt open. The hand-over itself is not fenced, but the mark that closes the receipt is,
and under the lease nobody else closes what is on the page (`PageIsOpen`), so what the
process found when it began is enough. Steps of others are shown not to disturb this
(`OtherKeeps`, `AnotherDrain`): monitors may change in any way, since a monitor that became
bound later is not owed the receipt, and one that is gone needs nothing.

For the fleet, `FleetInv` says of every lease that may still be used for a workload,
in an answer or in a guardian, that its local deadline is covered by the row
(`DeadlinesCovered`): it is at least the stop margin before the end that the row's
drain allows for, counted with the wall clock the authority last settled on and up
to the tolerance, and no later than a whole lease from now, which is what a
quarantine that begins now outlasts; a workload ends at most `Late` after that
(`FencedInTime`). The row's drain reaches `DRAIN` beyond the lease (`LeaseDrains`), and
the answers a guardian waits for were given after its request began (`CallsMatch`).
A drain is therefore long enough if `Late + 2 * Tolerance < StopMargin + Drain`: the
tolerance counts twice, because the clock may be ahead by it when the lease is
granted and behind by it when the drain is compared. With the code's values, 10
seconds of tolerance stand against 80, which leaves 70 for a late fencing. That the
role moves only after the drain gives `OnlyActiveRuns`, and with `LegacyUnenrolled`
`OneWorkload`. `SourceFrozen` and `MarkerCurrent` carry the marker: from the fence to
the restart nothing starts on `oci`, and a marker's epoch is over with the first
restart after it. A step of the clock is covered since the quarantine begins anew
with the clock of the call that notices it.

Every invariant and every action property of the passing runs is a theorem. Only
model-checked are liveness (`SendingResolves`, `HoldsComeBack`, `FlowSettles`, `WatchCatchesUp`,
`BacklogClears`), because the prover has no rules for fairness and ENABLED, and the four
disagreements of section 5, which are counterexamples.

## 5. Findings

**A boot between the fence and the marker.** `authority.py:138-140` says of the
handoff marker that it "is created only after the source cgroup and database are
fenced". The coordinator fences once, in `PRIMARY_PREPARED`, and saves `SOURCE_FROZEN`.
`INSTALL.md:263-264` enables the controller and the workload at boot. If the `oci`
host boots in `SOURCE_FROZEN`, the workload runs again when the quarantine of the
restarted authority is over, and the coordinator, once the primary is ready, writes
`"sourceFenced": True` (`failback_orchestrator.py:393`) without fencing again.
`fleet_boot` shows it: the authority would take that marker for the truth, drop the
quarantine, and the role may move while the source still writes.

**A lost answer to the failback.** `INSTALL.md:287` promises that a stage that succeeded
is resumed ("成功した段階は再起動後も再開されます"). The request for the failback has a key that is
fixed for the operation and a body with the authority's current epoch
(`failback_orchestrator.py:339-342`). If the authority commits and its answer is lost,
the epoch is another one, the repeated request has another digest, and the authority
refuses it as a conflict (`authority.py:466-468`) for ever. `fleet_resume` shows the
coordinator in `OWNERSHIP_COMMITTING` with the role already at `primary`; the controller
stays stopped and routing is not switched until somebody edits the state file.

**An edge closed by one of two activations.** A block may be reached over two edges,
and "reconverging ordinary blocks keep every copy" (`fanout.js:5`): the same run then
activates it twice. When the first activation's batch is sealed, `closeBatch` closes the
block's outgoing edges for the run (`graph-store.js:381`), while the second activation
is still waiting; a merge behind the block decides, and what the second one sends
arrives after the decision and is dropped. `settle` closes unused edges in the same way
(`graph-driver.js:17`). `docs/automation-graph-execution.md:120-121` says "Edge closure is
never inferred solely from the absence of an emission in this single activation",
and `graph-join.js:13` "A queued/deferred branch must never count as absent."
`graph_reconverge` shows it; the run `graph` uses a graph in which only merges join branches,
where `AbsentMeansAbsent` and `MergeSawEverything` hold. `MergesSeeAll` and `BranchesCount`
prove them for all such graphs, so it takes an ordinary block that branches reconverge at.

**A run nobody tells the merge about.** `closeBatch` closes the edges of all members of
the activations a batch was made of when the last batch of them closes
(`graph-store.js:367-381`), but flags only the runs of this batch's own inputs for
synchronization (`graph-store.js:324-329`). A run that expires on its way from one batch into
the next is a member of the activation, but not of the input: when the batch is sealed the
run's last open edge is closed, and nothing synchronizes the run. Its activation at a merge
stays `joining` for ever. Of removed members `graph-join-store.js:18-20` says that they "must
not keep a merge open". `graph_forgotten` shows it.

The same lines are exposed when an aggregating block with a grouping field divides the
members of one activation among several batches (`admitBatch`). The run whose batch is
sealed first is not among the inputs of the last one. As a rule this does no harm: all these
batches have the same end, a tick seals them all before it claims a step
(`graph-driver.js:26-33`), and when what the first one sent on is parked at the merge, that
sets the flag again. Only if the first batch sent nothing on for the run (it expired
there, a newer input replaced it or the batch was too large to store) may the run be
forgotten. TLC finds the last case with a `KeyOf` that tells the runs apart at `again` and
`MaxFaults = 1`, and finds no run forgotten with that `KeyOf` alone. With one group per block
and no expiry `NobodyForgotten` excludes it.

**Members of a batch (a remark).** `transition` (`queue.js:564`) carries only members that are
still `aggregated` along. `cancelPending` (`monitors.js:63`) cancels members of a batch that is
being sent, although the batch itself is left alone and delivered, and `history.change`
retries a failed batch without its members. The history of such an event then says
`cancelled` or `failed` although it was in a message that was sent. `SentChildWasInBatch` holds,
its converse does not. Only batches that the queue makes itself are concerned; the
production configuration routes rules with aggregation through the flow graph.

## 6. Not modelled, and the plan

In order of importance:

1. An abstract specification for `FleetLease` (one holder of the role at a time) that it
   refines; the checks the bot itself makes on its lease file (`recoveryLease.js`).
2. How plans and slots make X monitors eligible (`x-monitor-quota.js`), and the composition of
   `XPush` and `AutoWatch` with `GraphFlow` and `DeliveryQueue`, which now meet only in the rows
   of `automation_runs`.
3. The reminders of personal links, which repeat the queue's protocol in small, the
   polls of the price watch, the cache and the work queue of a process.

The largest parts of the repository by lines are left out for good, so the modelled share
of all lines stays small: the dashboard, its legacy copy and the admin console
(presentation), commands, settings menus and their texts, the clients of the watched
services and the expansion of links (fetching and formatting), rule evaluation
(strings), the error tracker and analytics (logging), database schema beyond the tables
modelled, backup tools and the admin agent (I/O). They have no state shared between
actors whose steps could be modelled in less than they are written in.

## 7. Running

    tlc -config queue_flow.cfg MCDeliveryQueue
    tlc -config watch.cfg MCAutoWatch
    tlc -config fleet.cfg MCFleetLease
    tlc -config push.cfg MCXPush
    tlapm FleetLease_proofs.tla
    tlapm XPush_proofs.tla
    tlapm GraphJoin_proofs.tla

Definitions preceded by a comment that starts with "Fault:" are single mistakes a
programmer could plausibly make in the definition that follows. They take no part
in the specifications; `PROJECT.json` lists which property notices which of them.
