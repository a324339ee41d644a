# TLA+ models of Gotcha

Gotcha is a self-hosted observability platform: one Go binary over PostgreSQL and ClickHouse, run
as one process or as several (`--mode=ingest|web|uptime|probe|all`), in as many replicas as the
operator wants. Replicas never talk to each other. They coordinate through PostgreSQL only: rows
with leases, `FOR UPDATE SKIP LOCKED`, unique keys, conditional `UPDATE`s and session advisory
locks. A unit test runs one replica at a time and rarely kills it between two statements, so what
this directory models is that coordination.

Everywhere a PostgreSQL statement (or a transaction) is one atomic step, and everything between two
statements may be interleaved with other processes, crashes and the passing of time.

## 1. Inventory

| Component (source) | State | Operations | Hard part | What makes it correct |
|---|---|---|---|---|
| Notification outbox (`internal/notify`) | `notification_outbox`, the workers' claimed jobs | Enqueue, Claim, deliver, MarkSent / MarkRetry / MarkFailed, PurgeOld, channel deletion | leases against slow workers, lost answers, crash after the send | no silent duplicate, a verdict is final and is reached |
| Escalation (`internal/escalation`, a source in `internal/host`) | the incident's level, `incident_escalations` | SendStepIfDue, the scheduler's tick, release of suppressed incidents, recovery, retention | several replicas and the evaluator at the same step; partial delivery | a step reaches a channel once, no step is passed in silence, a recovery finds who was alarmed, the ladder ends |
| Dependency suppression (`internal/depsuppress`) | snapshot of the graph and of what is down | ParentDown, DownRoot, the snapshot cache | cycles, stale snapshots | a node is silenced only if somebody above it speaks |
| Uptime queue and probes (`internal/uptime`, `web/probeapi.go`) | `check_queue`, `monitor_state`, jobs in the hands of runners and probes | Schedule, lease, check, claim, ApplyResult, edits | leases overtaken, results out of order, lost and repeated requests | each job counts once, the newest result wins, no job blocks its region |
| Exports (`internal/export`, `web/exports.go`) | `export_jobs`, the files of `GOTCHA_EXPORT_DIR`, the advisory lock | Claim, build, Done / Fail / Release, SweepStale, expiry, purge, orphans, deletion | attempts share their file names; lock lost while building; crash next to a file of personal data | a done job has its file, one email, no file stays for ever |
| Uptime detector and watchdog (`uptime/detector.go`, `watchdog.go`) | `incidents`, step-0 rows | open, hold, settle, resolve, remind, heartbeat misses | read-decide-write over several statements, retries of step 0 | one open incident per monitor, whoever was alarmed hears of the end |
| Incident groups (`internal/incidentgroup`) | `incident_groups`, `group_id` | Attach, OnRootOpened, OnRootClosed, sweep | roots and members open and close meanwhile | no member is muted by a group whose root is gone |
| Event batcher (`event/batcher.go`, `chbatch`) | bounded buffer, failure streak | Add, flush, IsolatePoison, Close | drops at the limit, ambiguous inserts | every row is stored, dropped and counted, or still buffered |
| Telemetry purge (`telemetry/purge_queue.go`) | `project_purge_queue` | Enqueue, Claim, Done, Fail, Reconcile | head-of-line blocking, writes after the purge | the data of a deleted project goes away |
| Issue, metric and SLO alerts (`alert`, `metric`, `slo`) | rules, incidents, digests | evaluate, open, resolve | same incident life cycle over other thresholds | as escalation |
| Ingest, tracing, profiling, logs, issues, agent | ClickHouse tables | decoding, storage, queries | parsing | outside these models |
| Organisations, auth, SSO, web UI, plumbing | CRUD tables | requests | - | outside these models |

How they interact: the detector and the evaluators open and resolve incidents; before an alarm they
ask depsuppress and incidentgroup whether a failed ancestor already speaks; the alarm is step 0 of
the ladder and the scheduler sends the later steps; every message is a row of the outbox, whose
workers call the senders. The uptime queue feeds the detector. Exports and the telemetry purge
share nothing with the rest but the database.

`PROJECT.json` lists every component with its status, and under `hazards` the places where this
code is hard to test, with the properties that cover them; a hazard that nothing covers yet says why.

## 2. Modules

| Module | Models | Checked by | Proofs |
|---|---|---|---|
| `DeliveryContract` | what the outbox promises to its callers (abstract specification) | refinement in run `outbox` | `OutboxProofs` |
| `Outbox` | `notify/outbox.go`, `worker.go`, `direct.go`, `janitor.go` | `MCOutbox`, `Outbox.cfg` | `OutboxProofs` |
| `Escalation` | `escalation/step.go`, `scheduler.go`, `retention.go` with `host/evaluator.go`, `incident.go` | `MCEscalation`, four configurations | `EscalationProofs` |
| `DepSuppress` | both walks of `depsuppress/suppressor.go` | `MCDepSuppress`, `DepSuppress.cfg` | `DepSuppressProofs` |
| `UptimeQueue` | `uptime/queue.go`, `state.go`, `runner.go`, `ingest.go`, `probeclient.go`, `web/probeapi.go` | `MCUptimeQueue`, `UptimeQueue.cfg` | `UptimeQueueProofs` |
| `Export` | `export/store.go`, `worker.go`, `janitor.go`, `web/exports.go` | `MCExport`, two configurations | `ExportProofs` |
| `Detector` | `uptime/detector.go`, `incident.go`, `notifier.go`, with the leased claims of `escalation` | `MCDetector`, `Detector.cfg` | `DetectorProofs` |
| `IncidentGroup` | `incidentgroup`, the cache of `depsuppress/suppressor.go`, and the calls of the evaluators and the scheduler; INSTANCEs `DepSuppress` for the walks | `MCIncidentGroup`, `IncidentGroup.cfg` | `IncidentGroupProofs` |
| `Batcher` | `event/batcher.go`, `chbatch/isolate.go` | with `TelemetryPurge` | `TelemetryPurgeProofs` |
| `TelemetryPurge` | `telemetry/purge_queue.go`, `purge.go`, `DeleteProject` of `org/project.go`; EXTENDS `Batcher`, whose rows arrive in the tables it purges | `MCTelemetry`, `Telemetry.cfg` | `TelemetryPurgeProofs` |

Besides the state of the code each module has *observation* variables (what receivers saw, which
outcome was lost, how many faults happened). No guard reads them, but for the bound on faults; the
properties are stated with them. Operators such as `DueIgnoringLease` or `OwnsAnyAttempt` are
variants of the operator that follows them, used by the mutants of `PROJECT.json`: putting the
variant in place of the operator must break the named property.

### Outbox

State: the columns of each row (`status`, `attempts`, `retryIn` = `next_retry_at - now()`, `age`)
and, per worker and job, the phase of the goroutine of `deliver`, `token` (`Job.Attempts`, the fence)
and the calls of MarkSent so far. `Claim` is the one `UPDATE ... FOR UPDATE SKIP LOCKED` that takes
up to `BatchSize` due rows, adds 1 to attempts and sets the lease; `Acquire`, `SendOk`, `SendFails`,
`MarkSent` and `RetryOrFail` are the steps of the goroutine. Faults: `Crash`, `Stall` (a worker
outlives its lease), `SendAmbiguous` (the message arrives and the sender reports an error), and for
every statement an error with or without effect. `DeleteChannel` is the cascade of the foreign key.
The payload, the channel's configuration and the wording are left out.

- `DuplicateOnlyAfterLoss`: a receiver sees a message twice only if the outcome of an earlier
  attempt was lost.
- `AttemptsBeyondLimitAreLosses`: an attempt beyond the last delay of `backoff()` is made only for
  an attempt whose outcome was lost.
- `ContractSpec`: `Outbox` implements `DeliveryContract` (`status` as it is, `received` = the message
  was delivered at least once), with its liveness: every accepted message gets a verdict.

### Escalation

One incident of a host with its ladder. Schedulers and evaluators are processes whose `pc` names the
statement that is next in `SendStepIfDue` / `tickOne` / `notifyOpen` / `notifyClose`: read
(`OpenUnacked`), gates, `ClaimStepChannels`, one `NotifyStep` per channel, `ReleaseStepChannels`,
`BumpEscalation`. Maintenance windows and the parent in the dependency graph change at any time
(`GatesChange`) within the constant `Gates`. Incident groups are left out: the incident has no
`group_id`.

- `NoDoubleAlarm`, `AlarmedCanRecover`, `NoStepSkipped`, `AckStopsLadder`: the run `escalation` has a
  scheduler that races with an evaluator, the gates and two faults; the proofs have any number of
  replicas.
- `LadderCompletes`: an incident that stays open, unacknowledged and ungated is escalated to the end.
- Two comments of the code do not hold: see section 4.

### DepSuppress

The walks `parentDownFromSnapshot` and `downRootFromSnapshot` over an arbitrary graph and an
arbitrary set of failed nodes. The stack is a set from which any node may be popped, since the order
of the edges is the order of a query without `ORDER BY`. The reference definition does not walk:
`Above` is the least set closed under failed parents, `Tops` its members without failed parents.

### UptimeQueue

One monitor. `queue[r]` is the row of `check_queue` of a region, `state[r]` that of `monitor_state`;
`run` is a check in a runner, `held` the jobs a probe took, `req` a `POST /probe/results` under way
(look up, claim, then result by result). A batch of leases is a run of single leases. Lost requests,
cancelled contexts and failed statements are `LoseRun`, `LoseProbe`, `LoseResults`; an edit
of the regions can fall between any two statements. The second region `eu` has a registered probe
that never polls. Not modelled: deletion of the monitor, organisations and revoked probes,
the detector behind `OnResult`, and clocks that differ between replicas.

- `AppliedOnce`, `LastLeaseWins`: the claim is an exactly-once gate, won on the last lease.
- `NewestResultWins`, `DownIsEarned`: monitor_state follows the newest result, whatever the order
  of arrival, and is down only after `fail_threshold` failed jobs.
- `JobsSettle`: no job of a served region stays in the queue for good.

### Export

One job. `part` and `file` hold the attempt that wrote the file, which is all the properties need of
its contents. `Tick` ages the lease, the context of the build, the part file and the
verdict. A build is cancelled by `JobTimeout`, which `Config.Validate` keeps below the lease: an
attempt that outlives its lease all the same (a process paused by the host) is a fault. The
disk budget is shared with other jobs, so `NoSpace` may happen to any build.

- `DoneHasFile`: a done job has the file of the attempt that finished it. Two cases are excused and
  recorded: a lease outlived, and an answer to `Done` that is lost (then `process()` removes
  the file although the row says done; the job shows as done without a file until it expires).
- `OneMail`, `VerdictIsFinal`, `JobEnds`, `FilesGo`.

### Detector

One monitor from the states of its regions to incidents. `st` is `monitor_state`, `incidents` and
`log` (step-0 rows of `incident_escalations`) are the tables, `fresh` the claims younger than
`notifyOpenLease`. Every region has one handler at a time (`OnResult` after `ApplyResult`), and its
`pc` names the next statement: `ReadStates`, `OpenIncidentFor`, then either `OpenIncident` / `Held` /
`Gate` / `ClaimStepChannelsWithLease` / `NotifyOpenStep0` / `Release` / `MarkNotified`, or
`ResolveIncident` / `ReadRecoveryChannels` / `NotifyRecovery`. `late` are checks leased before an edit
of the regions, which may re-create a row that the edit dropped. The number of a resolved incident is
used again once no handler has it in hand. Left out: the SSL expiry, the calls into incident groups
(`IncidentGroup` has them for hosts), `maxLogFailureAttempts` (more failures than the bounds allow),
acknowledgement and the later steps (`Escalation`).

- `NoStrayRecovery`: one recovery per incident and channel, and only where the alarm arrived.
- `AlarmedIsTold`: who was alarmed hears of the end.

Both have exceptions, each of which the code really has. An incident resolved after its alarm was
enqueued and before `MarkNotified` gets no recovery: `owed` records the incidents whose resolver found
`notified_open`, and `AlarmedIsTold` is about these. `excused` records the channels of an incident
for which
  - a handler was cut short (its process died, a statement failed) or stalled for longer than
    `notifyOpenLease`, so that it may release a claim that another handler has taken since;
  - an `Enqueue` reported an error after its row was stored: the claim is released, the alarm is out;
  - the resolver read a claim that another handler had yet to send and took it for an alarm, the one
    way to a recovery without an alarm;
  - a retry claimed the row of a channel that an earlier attempt had alarmed, did not enqueue it
    (the channel had been switched off) and released it, so that no row is left for the recovery;
  - the claim came after the resolve: the alarm follows the end of the incident;
  - the channel could not be delivered to at the time of the recovery.

The retry and the claim after the resolve came out of the attempt to prove `AlarmedIsTold`: they take
two attempts at one incident, where the run had one.

- `IncidentFollowsStates`: handlers act on states that others overtake, but an open incident and the
  verdict of the regions cannot stay apart, also after an edit.
- `DownIsAlarmed`: crashes, claims left behind and suppression only delay the first alarm.

### IncidentGroup

`status`, `notified`, `gid` and `group` are the columns of the incidents and of `incident_groups`;
`order`, `cached` and `fresh` are the Suppressor's snapshot with the loads under way, ordered by their
`loadedAt`. Three goroutines, the evaluator of silent hosts, an evaluator of members and the
scheduler, go through `Attach`, `OnRootOpened`, `OnRootClosed` and `DepGate` statement by statement,
with the walk over the snapshot as one step (an INSTANCE of `DepSuppress`, where the walks themselves
are checked and proved). The janitor sweeps and purges. Dependencies are constant, roots are silent
hosts (monitors are left out: the uptime detector attaches its incidents only when it suppresses them,
`uptime/detector.go:309`, and `openCandidates` does not look at them, `grouper.go:110`), one kind of
member stands for metric, threshold and SLO incidents, there is one process and
hence one cache, the alarm of a root may go out or not (delivery is in `Escalation`), and a group is
purged only while no call has it in hand, retention being days. A check that is switched off is resolved
by the evaluator's next tick (`CloseDisabled`); the settings page does the same at once
(`web/hosts.go:974`) and may take an incident out of the evaluator's hands, which is left out: it
doubles the states of the run. The queries of the feed only read.

- `SomebodySpeaks`: no ring of incidents that are silent for each other. It fails where hosts depend on
  each other (run `incident_ring`, section 4), and only there: `RingsNeedCycles`, section 5.
- `GroupIsComplete`: below an open root everything is in a group, whichever opened first, as soon as the
  evaluators are at rest. The exceptions are what the code really misses. `excused` ends the claim
  for good: a fault, a load that began before `Invalidate` and is stored after it because nothing newer
  is there, a retroactive pass not begun because the snapshot names a closed root. `freed` are single
  incidents, until their next root falls silent: their root or group closed, incidents, until their next root falls silent: their root or group closed, `Attach` lost the root it
  had found (`RootLost`), or the pass of their new root ran for another one (`Passed`). The property does
  not find these misses wrong; it says that there are no others.
- `NoVolley`: the ladder of a former member counts from the end of its group.
- `MembersAreReleased`: no member waits for ever for a root that is closed, also when the check was
  switched off and `evalOrCloseKind` resolved it without `groupRootClosed` (`CloseDisabled`).

The model also shows behaviour that no property calls wrong: once a root closes nothing regroups its
members below another failed root before their next change (`freed`); if the scheduler attaches a
new root's incident before the evaluator's own `Attach` does, that `Attach` reports no attachment, the
retroactive pass runs for the incident itself instead of the root above it
(`host/evaluator.go:648-671`), and what opened earlier below it stays outside (`Passed`; the
proof attempt of `GroupIsComplete` found this on a chain of three hosts, two hosts do not show it); two attaches at once can leave a group without members in spite of `MemberEligible`; a member
of one group can be moved to that of a newer root before it ever alarmed.

### Batcher

`buf`, `bufBytes`, `failStreak` and `dropped` are the fields; `feed` is the sequence of rows that will
come. A flush is `Take`, `InsertOk` / `InsertFails`, and, after `PoisonThreshold` failures, the
recursion of `IsolatePoison` as a stack of slices (`SliceOk`, `SliceFails`, `Deadline`, `Isolated`).
A row may be refused with a code that marks it as poison, or with another error (`odd`); an INSERT may
fail in passing, with or without effect. `Close` drains until the buffer is empty or its context ends.
The kick of a full batch, the counts by organisation and the texts are left out.

- `Accounted`, `DropsAddUp`, `BufferInOrder`: every row is in one place, the counters say how many
  were dropped, and the oldest go first, within the limits.
- `BufferDrains`: rows that ClickHouse takes do not wait for ever. Odd rows do: a batch of
  nothing else stays in front until it overflows, as the code intends.

### TelemetryPurge

The queue of deleted projects, in order of the requests, and one worker per replica under the session
lock `purgeWorkerLockID`: `Claim` / `PurgeProject` / `Done`, `Fail`, and `Scan` / `Reconcile`, which
compares the tables with the live projects. One table stands for all of them. A session that breaks
frees the lock while its worker goes on. A failure ends the pass, so that a project that cannot be
purged holds up those behind it until it can; that is by design (`Fail` keeps `enqueued_at`).

- `PurgeIsExact`: no live project is ever purged, and a request ends only when its rows are gone.
- `DeletedIsGone`: rows that a buffer wrote after the purge are found by `Reconcile`.

## 3. Runs and bounds

| Run | Instance | Why it is enough |
|---|---|---|
| `outbox` | 2 workers, 2 rows, one with a key, 2 attempts, lease 2, 1 fault | two workers and an expired lease make every race of the fence; the second row shares the batch; the proofs remove the bounds |
| `escalation` | 1 scheduler, 1 evaluator, 2 channels, 2 steps, both gates, 2 faults | two competitors for the first step, partial success in a step, a fault in each of two steps, gates that open and close under a tick; safety and liveness. Two schedulers at the later step are in the violation runs and in the proofs, which hold for any number: with the gates and liveness they are beyond five minutes |
| `dep_suppress` | every graph over 3 nodes, every set of failed nodes, both queries | self-loops, 2- and 3-cycles, diamonds with one arm; the proofs hold for every graph |
| `uptime_queue` | 1 runner and 1 probe in the same region, 1 request, 2 regions, 2 jobs, batches of 2, 1 edit, 1 fault | two holders of one job, a re-lease, a duplicate in a batch, a late result after a newer one |
| `export` | 2 workers, 2 attempts, job timeout 1 < lease 2, 2 faults | two attempts that share the files need a lost session and an outlived lease, hence two faults; safety and liveness |
| `detector` | 2 regions, 2 channels, consensus "all", every parent, 2 attempts, 1 upset | two handlers in every order; a retry next to the first attempt; an alarm that reaches one channel of two; the upset is a fault, an edit or a change of the gates |
| `incident_group` | three hosts in a chain, the upper two fall silent, an alert of the third, at most 2 of the 3 goroutines at work, 1 fault | a root above a root, a root after its members, a pass for another root than that of the members, a load overtaken by `Invalidate`; a third goroutine adds no pair |
| `incident_ring` | two hosts that depend on each other, each silent, one of them twice, an alert of the other, no fault | the smallest instance with the violation: without the alert there is none |
| `telemetry` | 2 projects, 2 workers, three feeds of 3 or 4 rows, buffer 3 rows and weight 3, batches of 3, threshold 2, 1 upset | poison in both halves, a heavy row, an odd row next to good ones; a batch that returns to a full buffer; both workers with a broken lock |

The bounds are constants named in the modules: `MaxFaults`, `MaxOverdue`, `MaxElapsed`, `MaxJobs`,
`MaxEdits`, `MaxBatch`, `MaxUpsets`, `MaxAttempts` (the code's own limit), `MaxBusy`. Clocks are kept as ages, capped at the largest value that a guard tells
apart. Deadlock is checked for `Export`, `Detector` and `TelemetryPurge`; the other systems stop when
the bounded work is done (no more jobs, a walk that has returned, incidents that are closed).

Fairness is weak fairness of what a live process does by itself: tickers (`Worker.Run`,
`Scheduler.Run`, `Runner.Run`, `Janitor.Run`), calls that return because they have a
timeout, and time. Nothing is assumed of users, of gates or of faults; a process that dies is
replaced by its supervisor, which is what makes a ticker fair although each process may crash.
`Detector` assumes that checks recur, handlers go on and leases run out; `IncidentGroup` only the
janitor's sweep. `TelemetryPurge` has strong fairness for `Claim` and `Scan`: both need the lock, which
the other keeps taking, and Go's `select` takes either ticker when both are due.

## 4. Where code and documentation disagree

Each is a run that expects a violation.

- `escalation_recovery` (`RecoveryNeverFirst`): the comment on `RecoveryChannels` says a channel that
  has not seen the alarm must not see "closed" first. The rows it reads are written before the alarm
  is enqueued, so an incident closed in between sends the recovery first.
- `escalation_release` (`ReleasedIsRepeated`): the comments on `SendStepIfDue` and
  `ReleaseStepChannels` say the next tick repeats the step for the channels whose claim was
  released. The level is bumped once any channel of the step was enqueued, and nothing looks at the
  step again.
- `export_restart` (`RestartIsFree`): the documentation says an orderly restart does not spend one of
  the three attempts. `Claim` has counted the attempt and `Release` does not give it back.
- `incident_ring` (`SomebodySpeaks`): the comment on `Store.Create` (`depsuppress/store.go:71-72`) calls an
  edge that closes a cycle benign, because the walk of `ParentDown` stands cycles. So it does, within
  one snapshot. With two hosts that depend on each other the scheduler can hold a snapshot with only `gw`
  down while the pass of `app` caches one with only `app` down: the next incident of `gw` joins the group of
  `app`, the scheduler joins `app` to that of `gw`, and neither is alarmed or escalated until one of
  them closes. `checkCycle` (`store.go:332`) refuses edges that close a cycle; it does not see edges by label
  (`store.go:323`), nor an edge that another request creates meanwhile.

## 5. Proofs

`OutboxProofs` (any sets of jobs, workers and keys, any lease, delays and number of faults; from
`OutboxAssumption` only):

- `TypeCorrect`, `NoSilentDuplicate`, `AttemptsBounded`: the invariants above. They are not inductive:
  nothing in them says what a worker with an old token may still do. `IInv` adds `HolderInv` (an
  attempt in hand is at most the row's, and an older one is lost; an attempt that is current on a
  row that is due again is lost), `DistinctTokens` (no two workers own the same attempt)
  and `Attended` (an attempt that must not be repeated has a worker at it). One lemma per action.
- `ImplementsContract`: every step of the outbox is a step of `DeliveryContract` or leaves its
  variables alone (`Contract!Safety`).

`DepSuppressProofs` (any set of nodes, finite or not, any graph):

- `TypeCorrect`, `NoBlackHole` (`ParentDownIsRight`), `GroupedUnderTop` (`DownRootIsRight`). The
  invariant says that what was visited or stacked is above the start (`Sound`), that the failed
  parents of what was visited are visited or stacked (`Complete`), and which tops were met
  (`Recorded`). When the stack is empty the visited set is closed, so it is all of `Above`.

`ExportProofs` (any workers, attempts, faults and periods with job timeout < lease < age of a stale part
file and TTL <= retention of rows: `Config.Validate`, the constants `leaseTTL` and `stalePartAge`, and
`exportRowRetention` of `main.go`):

- `TypeCorrect`: the bound on the attempts needs that a queued job has one left (`QueuedHasAttempt`) and
  that every attempt beyond the limit is paid for by the stop of a process (`Budget`).
- `OneMailOnly` (`OneMail`): `MailInv` says that one process at most is about to mail, and none while
  the job is queued or running.
- `FinalVerdict` (`VerdictIsFinal`): an action property; every step is checked against it under
  `TypeInv`.
- `DoneKeepsFile` (`DoneHasFile`): attempts share their file names, so the invariant must say who can
  still touch them. `FileInv` has that one worker at most is at the job, and that it owns the row, unless
  a lease was outlived (`Apart`), that what it finds under the shared names is its own work
  (`OwnFiles`), and that the author deletes a job only after its verdict (`AuthorInv`).

`UptimeQueueProofs` (any finite set of regions, any runners, probes, thresholds, batches, jobs, edits
and faults; the lease is at least two intervals, as `lease` computes it in `queue.go`):

- `TypeCorrect`, `ExactlyOnceGate` (`AppliedOnce`), `ClaimOnLastLease` (`LastLeaseWins`),
  `NewestResultKept` (`NewestResultWins`), `DownTakesThreshold` (`DownIsEarned`). `OnePlace` says that a
  job is in one place: in its row, with the runner or the request that claimed it, or applied;
  `RowLease` that the row carries the last lease; `StateInv` that the failures counted in
  `monitor_state` are different jobs, each applied.

`EscalationProofs` (any ladder, channels, schedulers, evaluators, gates and faults):

- `TypeCorrect`, `ClaimBeforeNotify` (`NoDoubleAlarm`), `AlarmKeepsRow` (`AlarmedCanRecover`),
  `LadderTells` (`NoStepSkipped`), `AckEndsLadder` (`AckStopsLadder`). `ClaimInv` says that a row of
  `incident_escalations` has one process that owes its message, and none once the message is out;
  `CoverInv` that a step that was passed, or is about to be, has told somebody, has no channels, or
  has a process at it; `AckInv` that nobody is ahead of the level, nor of the acknowledgement.

`DetectorProofs` (any finite set of regions, any channels, attempts, upsets and every consensus):

- `RecoveryOnce` (`NoStrayRecovery`), `AlarmedHearTheEnd` (`AlarmedIsTold`). One handler at most has
  resolved an incident and not finished (`OneResolver`), an open incident has no recovery (`OpenUntold`),
  a channel still to be told has none (`ToldOnce`); a claim in hand is in the table, young and
  nobody else's (`HoldInv`), what is noted as sent was sent (`SentInv`), the table is the record of the
  alarms but for the claims in hand (`JournalInv`); a recovery, sent or about to
  be, has its alarm (`ToldInv`), and an owed incident has told its channels or has a resolver that will
  (`OwedInv`), unless excused.

`IncidentGroupProofs` (any hosts, dependencies, incidents, bound on goroutines and faults):

- `LadderRestarts` (`NoVolley`), for every graph.
- `RingsNeedCycles` (`RingsAreCycles`), for every graph over finitely many hosts: incidents that are hidden
  behind each other only include the silence of a host that depends on itself, so that a cycle is all
  that the violation of `incident_ring` needs and nothing less will do: no race of the three
  goroutines, stale snapshot or fault makes a ring on a graph without cycles. `LinksOK` says that a
  `group_id`, in the table or in the hands of a goroutine, leads to a host above, `OneOpen` is the unique
  index on open roots, `TasksOK` says what each goroutine knows at each statement. Each silent host of
  a ring then has an ancestor in the ring, and the one with the fewest ancestors is its own (`LoopIsCycle`).
- `GroupsAreComplete`: `GroupIsComplete` for a graph without cycles, from hosts' ids that differ (the order
  `Rank`). The inductive invariant `GInv` holds unless `excused`. `WorkOK`: which goroutine is where, and that
  the new incident and the root of a pass stay open under it. `GroupsOK`: the group of an open
  root is not over. `SnapshotsOK`: the cache and every load under way lack at most the host that has just
  fallen silent, and during the pass they are exact, which is what `Invalidate` is for. `CoveredOK`: an open
  incident with another's incident at its root is hidden, or the pass will come to it (`Awaited`), or its own
  `Attach` will put it into a group (`Attaching`). The lemmas `RootIsOne`, `RootOfRoot` and `RootOfNew` say what
  `DownRoot` returns when a host is added: an incident that has a root now and had none has the root of the new
  host. Here the hypothesis on cycles stays: without it a host that speaks again can give an incident a root it did not have.

`TelemetryPurgeProofs` (any feeds, limits, batch sizes, workers and upsets, any finite set of projects;
from `BatcherAssumption` and `PurgeAssumption`):

- `PurgedWhenDone` (`PurgeIsExact`): requests, and what workers hold of them, are about deleted
  projects (`RequestInv`); once a request has ended, or is about to, only rows written after the deletion
  are left (`GoneInv`); only projects that were created have rows (`CreatedInv`).
- `OldestFirst` (`BufferInOrder`), `CountersAreRight` (`DropsAddUp`), `EveryRowAccounted` (`Accounted`).
  The batch, the stack of `IsolatePoison` and the buffer are in order and apart (`OrderInv`), `bufBytes`
  is the weight of the buffer and within the limit but for a single heavy row (`LimitInv`), every row has one fate (`FateInv`, with
  one lemma per way a row can move), the counters are the sizes of the sets of dropped rows
  (`CountInv`). The weight of a sequence and the flattening of the stack are recursive; their
  few laws are proved by induction over a set of numbers, from the least element of such a set.

The inductive invariants of these six modules also hold in TLC on the instance of the module's run. The proofs use no fairness; the constants that
bound the runs (`MaxFaults`, `MaxUpsets`, `MaxJobs` and so on) are arbitrary numbers in them.

Only model-checked: liveness (`ContractSpec`'s fairness part, `LadderCompletes`, `WalkEnds`,
`JobsSettle`, `JobEnds`, `FilesGo`, `IncidentFollowsStates`, `DownIsAlarmed`, `BufferDrains`,
`DeletedIsGone`, `MembersAreReleased`), which is out of the prover's reach. Every
invariant and every action property of a passing run is proved.

## 6. Plan

1. How long a ring can last, once the comment at `depsuppress/store.go:71` is settled.
2. Extensions: two concurrent requests and a clock per replica in `UptimeQueue`, several jobs and
   `EnqueueLimited` in `Export`, several incidents and edits of the ladder in `Escalation`, edges
   edited while groups are open and monitors as roots in `IncidentGroup`, missed heartbeats and
   reminders of the watchdog next to `Detector`, the digest queue of issue alerts.

### Not modelled

The greater part of the repository is code without a protocol of its own: the web UI (most of it
generated from templates), the senders and checkers, the parsers of ingest, OTLP and logs, ClickHouse
queries, statistics, CRUD, authentication and the agent's collectors. Where a modelled component
depends on such a part, its outcome is a choice of the model (a send, a check, a build, an INSERT).
Metric, threshold and SLO alerts repeat the life of a host incident over other measurements.
