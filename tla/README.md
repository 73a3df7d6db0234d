# Verification of bk-lite: remote execution and alerting

This directory holds TLA+ models of two parts of bk-lite. One runs work on remote
machines: the **Ansible executor** agent (`agents/ansible-executor`) and the **job
execution lifecycle** of the server (`server/apps/job_mgmt`). The other raises alerts
and gets people to answer them: the **monitor**'s alerts (`server/apps/monitor`) and
the **alert center**'s response to one alert (`server/apps/alerts`). All four are
long-lived and failure-prone, and share rows and messages between processes without a
common lock. Paths below are relative to the repository.

- `tlc -workers 2 -config <file>.cfg <MC module>` runs a model;
- `tlapm AnsibleExecutorProofs.tla` checks the proofs of a module (two or three minutes
  each); `JobExecutionProofs`, `JobOutcomeProofs`, `AlertResponseProofs` and
  `MonitorAlertsProofs` likewise.

## 1. The system and its parts

bk-lite is an operations platform. A Django server (`server/apps/*`) holds the
domains; agents (`agents/*`) run near the managed hosts; NATS (request/reply and
JetStream) connects them; Celery runs the server's background work.

### Parts that carry protocol state

| Part | State it keeps | Operations | Interacts with |
|---|---|---|---|
| Ansible executor, task table (`service/task_store.py`) | one SQLite row per task: status, execution status, callback status, result, lease, attempt | `create_if_absent`, `claim_task`, `renew_lease`, `update_execution_result`, `update_callback_status` | called by the service loops only |
| Ansible executor, service (`service/nats_service.py`) | coroutines: enqueue handlers, `max_workers` worker loops, ack keepalives, one callback-retry loop | enqueue, claim, run, keep alive, call back, retry, dead-letter, restart | clients (request/reply), JetStream (two work queues, a dead-letter subject), callback receivers |
| Job execution (`job_mgmt`: `services/*runner.py`, `playbook_execution.py`, `execution_base_service.py`, `nats_api.py`, `views/execution.py`, `tasks.py`) | the row `JobExecution`: status, results per target, counters | dispatch, prepare, run in batches, submit to the executor, finalize, callback, cancel, terminate, force an end | Celery, sidecars and the Ansible executor (RPC), users, third-party callbacks |
| Scheduled jobs (`job_mgmt/tasks.py`, `scheduled_task_service.py`) | periodic tasks, their concurrency policy | trigger, skip, queue | job execution |
| Result notification (`callback_service.py`) | Celery retries of an HTTP or NATS callback | send, retry | third parties |
| nats-executor agent (`agents/nats-executor`) | running local and SSH commands | execute, stream, time out, kill | job execution |
| Monitor (`monitor`: `tasks/monitor_policy.py`, `policy_scan/*`, `alert_lifecycle_notify.py`, `views/monitor_alert.py`, `views/monitor_policy.py`) | policies; per alert its status, count of quiet windows, notified flag, number of retries | scan (detect, count, recover, create), close by hand, edit or disable a policy, notify, compensate | alert center (events), operators, Celery beat |
| Alert center (`alerts`: `escalation_service.py`, `reminder_service.py`, `alter_operator.py`, `auto_close.py`, `aggregation/recovery/*`) | the alert's status, operators and session, its reminder and its escalation task, the assignment rule | assign, claim, reassign, close, resolve, auto-close, recover, confirm a session, remind, escalate, edit the rule | monitor (events), people, Celery beat |
| Node management (`server/apps/node_mgmt`) | installation sessions, sidecar configuration | install, report, time out | sidecar, executor |

The other domains (CMDB, log, system management, console, operation analysis,
OpsPilot, MLOps), the collectors and shell agents and the front ends are CRUD,
data transformation, external models or user interface; `PROJECT.json` lists each
with the reason it has no model.

### What is hard

- **Ansible executor.** At-least-once delivery with a limited number of
  deliveries; leases that expire under a worker that still runs; a keepalive whose
  failure surfaces after the work is done; a callback whose reply is lost after its
  receiver acted; retry messages whose ack deadline is shorter than one attempt; a
  crash at any await; start-up that re-creates the consumers while old leases live.
- **Job execution.** Five kinds of process read the row, decide, and save columns
  of it later: the Celery runner with its pool threads, callback handlers, two
  cancel APIs and the delayed finalizer. Only the cancel APIs, the finalizer's first
  statement and the recount protect themselves (compare-and-swap, row lock). The
  finalizer is scheduled after the job became CANCELLING, and the broker may refuse it.
- **Monitor.** A scan reads the active alerts once and acts on that copy through
  recovery, notification and creation; a scan that raises leaves the watermark behind and
  its window is scanned again; a request to close or update an alert saves every column
  of the row it read; an edit of the policy closes alerts inside a transaction; each of them
  pushes to the alert center and marks the rows afterwards, and the compensation task
  does both again. A process may die between any two of these.
- **Alert center.** Reminder scans may overlap: a scan decides under the lock, sends
  after the commit, and counts in a second transaction. Recovery and the deletion of
  a strategy write a status they decided on earlier, without a lock. An edit of the
  rule saves an old copy of the reminder task. Closing leaves both tasks running.

The hazards, each at the line where it bites and with the properties aimed at it,
are in `PROJECT.json`.

### What makes the parts correct

- A task has one verdict, for good; only the current claim may record it; its
  receiver is told that verdict and no other; a task message disappears only when
  its task is settled; stored tasks and failed callbacks come to an end.
- A cancellation stops further work; SUCCESS is only claimed for work that was
  done; final states are final; whoever waits for a job sees it end.
- A metric instance has one active alert; an alert recovers only after the quiet time
  that was asked for and never comes back; its end reaches the alert center in spite
  of failures, and the flag that says so can be trusted.
- Whoever is asked to answer an alert may claim it; a claim stops the escalation and an
  unclaimed alert goes on to the next layer; reminders are bounded; an alert that has
  ended stays ended and everybody is left alone.

## 2. Modules

| Module | Models |
|---|---|
| `TaskStore` | the columns of a row and each `TaskStore` method as an operator on rows |
| `JetStreamQueue` | one message of a work-queue stream: delivery count, ack deadline, `max_deliver` (external, from the way `nats_service.py` uses it) |
| `AnsibleExecutor` | the service: composes the two above with the coroutines of `nats_service.py`; all properties of the executor |
| `TaskLedger` | abstract specification: what a client may rely on about a task |
| `AnsibleExecutorProofs` | the theorems and their proofs |
| `JobExecution` | one execution and all processes that touch its row; its properties |
| `MonitorAlerts` | the alerts of one policy for one metric instance, and what the alert center hears of them; its properties |
| `AlertResponse` | the response to one alert of the alert center; its properties |
| `JobExecutionProofs`, `MonitorAlertsProofs`, `AlertResponseProofs` | their theorems and proofs |
| `JobOutcomeProofs` | how a job ends: the theorems on final statuses, results and notices, built on `JobExecutionProofs` |
| `MCAnsibleExecutor`, `MCJobExecution`, `MCMonitorAlerts`, `MCAlertResponse` | instances for TLC (symmetry sets, chains) |

### AnsibleExecutor

The process is one asyncio event loop, so a step is what a coroutine does between
two awaits. `row` is the SQLite table, `queue` and `retryQueue` the two streams,
`worker[w]` the `_worker_loop` coroutines (`pc` says at which await they wait),
`retrier` the `_callback_retry_loop`, `enqueuing` the `_enqueue_task` handlers
between their insert and their publish, `dlq` what was published on `dlq_subject`.
`accepted`, `stored` and `received` observe what submitters, the stream and callback
receivers saw; the code has no such state and no action reads it.

| Code | Actions |
|---|---|
| `_enqueue_task` | `EnqueueInsert`, `EnqueueDuplicate`, `EnqueuePublish`, `EnqueuePublishFails` |
| `_worker_loop` | `Deliver`, `Claim`, `LeasedSkipRaises`, `Ack`, `RaiseDeadLetter`, `RaiseNak`, `WorkerDies` |
| `_run_task`, `_invoke_callback`, `_enqueue_callback_retry` | `Execute`, `CallbackSkipped`, `CallbackArrives`, `CallbackAnswered`, `CallbackFails`, `EnqueueRetry`, `EnqueueRetryFails` |
| `_run_task_with_ack_progress`, `_keep_message_in_progress` | `KeepAlive`, `KeepAliveBreaks`, `Return` |
| `_callback_retry_loop` | `RetryDeliver`, `RetryCallbackArrives`, `RetryCallbackAnswered`, `RetryCallbackFails`, `RetryAck`, `RetryRaiseDeadLetter`, `RetryRaiseNak`, `RetrierDies` |
| clocks and broker | `AckWaitExpires`, `LeaseExpires`, `RetryAckWaitExpires`, `DeliveryLost` |
| process | `Crash` (death and the next start's `_ensure_stream_and_consumer`) |

Abstractions. Clock values become the flag `lease_live` and the message state
`ready`/`pending`. Owner ids, a fresh uuid per claim in the code, are the attempt
numbers. A run of ansible ends with either verdict. The tasks of `Unaddressed` carry a
callback that names no receiver (no dict, or neither a subject nor a namespace and a
method): `_invoke_callback` skips it and the row says "sent". What the time constants
guarantee (heartbeat 0.4, lease 1.5 times the first backoff) is in the guards of
`AckWaitExpires` and `LeaseExpires`: a deadline which a live keepalive renews passes
only when the event loop stalls (fault `"stall"`). A restart is atomic: nothing of
the process runs while it is down; leases and deadlines may expire before or after.

### TaskLedger

A task is queued, runs, ends with a verdict, the verdict may be told, and the
callback is noted as sent (only after telling, but for the tasks of `Silent`) or failed.
The mapping is `Silent <- Unaddressed`,
`phase <- execution_status`, `told <- received`, `note <- callback_status`: workers,
leases, streams and crashes disappear.

### JobExecution

A step is one database statement or one remote effect. `db` is the row; `runner` the
Celery task with the values it holds in memory; `thread` the pool threads of a batch;
`remote` the Ansible executor (external here: it has one report and may deliver it
several times); `handler` the `ansible_task_callback` handlers; `canceller` the cancel
view and `job_task_terminate`; `finalizer` the task `finalize_cancelling_execution`
("refused" if the broker did not take it).
`dispatched`, `notices` and `cancel` observe remote effects, the notifications of
`send_callback`, and the cancellation that took effect.

| Code | Actions |
|---|---|
| `dispatch_celery_task` | `Dispatch`, `DispatchFails` |
| `prepare_execution` | `PrepareRead`, `PrepareSave`, `FinishEmpty` |
| `_run_via_sidecar`, `run_distribution_for_targets` | `SubmitBatch`, `ThreadCheck`, `ThreadDispatch`, `ThreadReturns`, `BatchEnd` |
| `finalize_execution` | `FinalizeResults`, `FinalizeRefresh`, `FinalizeCounts`, `FinalizeStatus`, `FinalizeNotify` |
| Ansible paths and refused jobs | `PlaybookCheck`, `PlaybookRecheck`, `Submit`, `SubmitAnswered`, `SubmitFails`, `FailStatus`, `FailResults`, `RejectResults`, `RejectStatus` |
| `ansible_task_callback` | `CallbackRead`, `CallbackSave` |
| `cancel`, `job_task_terminate` | `CancelRead`, `CancelCas` (with `Revoke`), `CancelSchedule`, `CancelScheduleFails`, `CancelNotify` |
| `finalize_cancelling_execution` | `FinalizerCas`, `FinalizerLoad`, `FinalizerSave` |

Abstractions. FAILED and TIMEOUT of a target are one value: both are counted as
failures. `finished_at`, log streaming and output are left out. The finalizer's
countdown is the job's timeout plus a minute, so it is taken to start after a status
read before the cancellation has been written back (`OldReadsWritten`); reads made
after the cancellation may still be in flight. Kinds of job are enumerated in `Kind`.

### MonitorAlerts

A step is one statement, one transaction or one push to the alert center. `policy` and
`alerts` are the rows; `scan`, `manual`, `view` and `comp` are the four actors with what
they have read; `heard` is what the alert center was told (external). `recount` says
that the window past the watermark `last_run_time` was counted by a scan that did not
succeed; a later scan may have the same window (`scan.again`) or one that ends now.
`quiet`, `failed`, `muted`, `late` and `stale` are observers: no step of the code depends
on them.

| Code | Actions |
|---|---|
| `scan_policy_task`, `MonitorPolicyScan.run` | `ScanStart`, `ScanDetect`, `ScanEnds`, `ScanFails`, `ScanKilled` |
| `count_events`, `recover_threshold_alerts`, `recover_no_data_alerts` | `ScanCount`, `ScanRecover` |
| `create_events_and_alerts` and the notification after it | `ScanCreate`, `ScanPush`, `ScanMark` |
| `MonitorAlertViewSet.update` | `ManualRead`, `ManualSave` (with `Edited`), `ManualPush`, `ManualMark`, `ManualKilled` |
| `MonitorPolicyViewSet.update`, `partial_update`, `close_alerts` | `EditPolicy`, `ViewReads`, `ViewCommits` |
| `retry_alert_center_lifecycle_notify_task` | `CompReads`, `CompPush`, `CompMark`, `CompKilled` |

Abstractions. What a window of data says is one value (`Window`): queries and threshold
arithmetic are data. Of an alert's level only "higher than before" is kept, and its value
and content are left out: nothing below depends on them. `notice_logs` are left out:
where the code asks them whether the alert center knows of an alert, either answer may
come. The channels of a policy are a constant. A request closes its alert or says nothing
of the status (`manual.closes`); either way all columns of the copy it read are saved.
Requests that set a status other than closed, and the deletion of a policy, are not
modelled. The count of quiet windows
saturates at `recovery_condition`, beyond which nothing tells values apart. The Singleton
lock of a Celery task has no expiry: a killed worker leaves it behind (`"lost"`).

### AlertResponse

A transaction that locks the `Alert` row is one step; whatever reads without that lock
and writes later is two steps or more. `alert`, `rem`, `esc` and `rule` are the rows
`Alert`, `AlertReminderTask`, `AlertEscalationTask` and `AlertAssignment`; `sender[s]` are
reminder scans, `writer` a recovery or the deletion of a strategy with the session it
read, `editor` an edit of the rule; `round` observes the reminders sent since the reminder task was last reset.

| Code | Actions |
|---|---|
| `AlertOperator` | `Assign`, `AutoAssign`, `_acknowledge_alert`, `_reassign_alert`, `_close_alert`, `_resolve_alert` |
| auto-close, recovery, deletion of a strategy, sessions | `auto_close_alert`, `WriterReads`, `RecoveryWrites`, `RecoveryStops`, `DeletionWrites`, `_confirm_session_alert` |
| `check_and_send_reminders` | `check_and_process_reminders`, `Enqueue`, `EnqueueFails`, `WorkerDies`, `_advance_reminder_after_enqueue` |
| `check_and_send_escalations`, cleanup | `check_and_process_escalations`, `cleanup_reminder_tasks` |
| clocks | `ReminderComesDue`, `LayerComesDue` |
| `perform_update` of a rule | `EditRule`, `EditSaves` |

Abstractions. A timer is "due" or not, and may become due at any moment after it was set.
People are model values, channels and texts are left out. An edit changes whether the
rule is enabled, its reminder budget or only the interval, which has the running
reminders saved again too; its chain stays as it is. `WorkerDies` also stands for a
failure of the second transaction, which is only logged: the reminder went out and was
not counted.

## 3. What is model-checked

| Run | Bounds | Shows |
|---|---|---|
| `executor_faults` (safety) | 1 task with callback, 2 workers, `max_deliver` 2, 1 crash, every fault; 1.9 M states | the type invariant, the six safety properties below, and that the executor implements `TaskLedger` |
| `executor_liveness` | 1 task, 2 workers, `max_deliver` 2; lost acks, broken keepalives, stalls, failing callbacks | `FailedCallbackHasRetry`, `StoredTaskSettles`, `FailedCallbackSettles` |
| `executor_recovery` | 2 tasks, one of them with a callback that names no receiver, 2 workers, `max_deliver` 3, 1 crash; 58 k states | `StoredTaskSettles` across a crash at any point, `SentWasReceived` |
| `executor_callback_lost` | 1 task, 1 crash | **violated**: `FinishedTaskCallsBack` |
| `job_cancel` | 3 targets in batches of 2, all kinds, both cancel APIs, 2 concurrent handlers, 3 deliveries of the report, the broker may refuse; 0.82 M states | `TypeOK`, `CancelStopsDispatch`, `SuccessIsHonest`, `NoticesAgree`, `TerminalStable` |
| `job_converges` | 2 targets in batches of 1, all kinds, both cancel APIs, 1 handler, 2 deliveries, broker and RPC failures; 0.39 M states | `UnfinishedHasWriter`, `CancellingConverges`, `JobConverges` |
| `job_pending_cancel`, `job_cancelling_overwritten`, `job_real_results` | 2 targets, one cancel | **violated**: see Findings |
| `monitor_alerts` | both alert types, 2 alerts, 2 quiet windows to recover, 1 retry, 1 request (a close, an update or an edit of the policy), refused pushes, failing scans, killed processes; 1.4 M states, three and a half minutes | `TypeOK`, `OneActiveAlert`, `FlagIsHonest`, `EndedStaysEnded`, `RecoversAfterQuiet`, `EndReachesCenter` |
| `alert_response` | 3 layers of one person, 2 overlapping reminder scans, budget 1 or edited, 1 edit, refused notifications and dying workers; 0.59 M states | `TypeOK`, `ReachedMayClaim`, `ClaimStopsEscalation`, `RoundIsBounded`, `FinishedStaysFinished`, `UnclaimedEscalates`, `FinishedFallsQuiet` |
| `alert_last_layer` | 2 layers, 1 scan, no fault | **violated**: `LastLayerIsReminded` |

Properties of the executor: `ResultIsFinal` (a verdict is never changed or
executed again), `LiveLeaseNotStolen`, `OnlyLatestClaimOwns`, `ReceivedIsRecorded`,
`SentWasReceived`, `StatusCoherent`, `RemovedOnlyWhenSettled`.

**Why the bounds are enough to be interesting.** Tasks share only the coroutines, so
one task meets every race on its row and messages; two workers are one owner and one
usurper, and `OnlyLatestClaimOwns` is checked between them. With `max_deliver` 2 there
is one redelivery and one last delivery; with a crash the count starts again, so up
to four deliveries happen. Recovery needs three deliveries: the one that died, one
that finds the abandoned lease still live, one that takes over. In the job model three
targets in batches of two give a full batch, a partial batch and a boundary; two
handlers and three deliveries allow both concurrent and late repeated reports.
Two alerts let one end and a second begin while actors still hold the first; with two
quiet windows there is a count between none and enough; one retry makes both the first
and the last attempt happen; one request is already concurrent with a scan, its
notification and the compensation task (the theorems of section 5 cover any number of
all of these). Three layers have a first, a middle and a last one; two reminder scans
are the least that overlap, and a budget of one is exceeded by the second. One edit, of
the interval alone, is enough to save a reminder over its stop. `MaxRetry` is 1 where the
code has 10, so the compensation task tries each alert once per arming of the flag.
`MaxCrash`, `MaxReports`, `MaxAlerts`, `MaxRequests` and `MaxEdits` are bounds of the model, not of the code. Two faults of
one kind may both happen: faults other than crashes are not counted. Symmetry of
workers and handlers is used in safety runs only.

**Fairness.** `Fairness` (executor): the event loop runs every ready coroutine, a run
of ansible ends by `execute_timeout`, a callback request by its timeout, and clocks
advance. `ServerFairness` (jobs): Celery workers, pool threads, request handlers and
the delayed finalizer make progress. Nothing is assumed of submitters, users or
faults. `RemoteFairness` (remote calls return by their timeout, the executor's report
arrives) is a hypothesis of `JobConverges` only; `CancellingConverges` does without it.
The report's arrival is not guaranteed by the executor: see the first finding.
`Fairness` of `AlertResponse`: Celery beat starts the reminder and the escalation scan
every minute, time passes, and a recovery or an edit that has begun goes on; nobody has
to claim, close, confirm or edit anything. `Fairness` of `MonitorAlerts`: beat starts the
compensation task every five minutes and it goes on; nothing is assumed of scans, requests
or the metric. A killed worker's actor is no longer enabled, so nothing is assumed of it.

**Left out of a run on purpose.** The liveness runs exclude `"publish"`, `"loop"` and
`"delivery"`: a failed publish leaves a row without a message, a dead loop consumes
nothing, and deliveries into expired pull requests may use up `max_deliver` without
anybody seeing the message; no document promises otherwise (the first two are hazards
with a note). `job_cancel` excludes
RPC failures: when a submission times out although the executor accepted it, the
runner writes FAILED over, or beside, what the callback stored, and `TerminalStable`,
`SuccessIsHonest` and `NoticesAgree` do not hold; `job_converges` includes it.
The `job_*`, `alert_*` and `monitor_*` runs switch deadlock checking off: a finished job or
alert has no next step, and neither has a policy whose workers were all killed.

**What the properties excuse, and why.** Each exception is a case the code really has;
the property says exactly which, so anything beyond it is a violation.

- `SentWasReceived` and `ImplementsLedger`: tasks of `Unaddressed`, whose skipped callback
  the code records as sent.
- `CancellingConverges`: the broker refused the finalizer (`finalizer.pc = "refused"`).
  The design says without exception that CANCELLING never stays; the code keeps it only
  if `apply_async` succeeds. `UnfinishedHasWriter` and `JobConverges` excuse a refusal only
  for playbooks (`Abandoned`): a playbook that finds itself cancelled writes
  `finished_at` and no status.
- `RoundIsBounded`: rounds in which the budget was edited, an edit saved the reminder
  again, or a queued reminder was not counted (its worker died or the second transaction
  failed).
- `UnclaimedEscalates`: a rule that is disabled meanwhile (see section 4).
- `ReachedMayClaim` is weaker than section 3.4 of the requirement, by which nobody who was
  reached is ever removed: after a reassignment it speaks of the restarted chain only.
- `FlagIsHonest`, `EndReachesCenter`: alerts in `late`. The notifier marks an alert as told
  after pushing "created" or "upgraded"; if the alert was closed between push and mark,
  the mark overwrites the flag that the end has cleared, and the compensation task never
  pushes the end. Also policies whose notice switch was ever off (the code then decides by
  `notice_logs`), and for `EndReachesCenter` a killed compensation worker, whose lock stays.
- `EndedStaysEnded`: the save of a request that does not close and read the alert while
  it was active. It writes the old status over a recovery or a close. `OneActiveAlert`,
  `RecoversAfterQuiet` and `EndReachesCenter` leave out alerts this happened to (`stale`).
- `RecoversAfterQuiet` counts *different* quiet windows, and allows one less for each scan
  that raised after `count_events` (`failed`): the watermark stays, and the window may be
  counted again. The white paper speaks of N consecutive periods.
- `TypeOK` of the monitor: a request that saves an old `alert_center_retry_count` may raise
  it over the limit, by at most one per request.

## 4. Findings

1. **A crash loses the callback** (`executor_callback_lost`). The verdict is persisted
   before the callback is sent; after a crash in between, the redelivered message is
   acked because the row is terminal.
2. **A cancelled pending job may run** (`job_pending_cancel`). `prepare_execution` saves
   RUNNING without a condition over CANCELLED.
3. **CANCELLING may become SUCCESS or FAILED** (`job_cancelling_overwritten`).
   `finalize_execution` and the callback save a status derived from an older read.
4. **Real results may be lost** (`job_real_results`). The finalizer saves a list of
   results it loaded before a callback handler stored the real ones.
5. **The last layer is not reminded** (`alert_last_layer`). The scan after the one that
   reached the last layer ends the chain, and the reminders go back to the people the
   rule assigned first.

Quotations and lines are in `PROJECT.json`. Further disagreements were met that have no
run of their own; the models contain them and the properties name them as exceptions:

- a refused `apply_async` leaves a job CANCELLING, although the design of honest
  cancellation says it never stays so;
- the escalation scan does not ask whether the rule is enabled, although the requirement
  (`spec/requirements/告警中心/20260531.告警中心-新增告警升级策略.md:81`) says that disabling the rule
  stops further escalation of all its alerts;
- a window that is counted twice after a failed scan shortens the N consecutive periods of
  the white paper (`spec/whitepaper/02-监控系统-白皮书.md:290`);
- a policy that is disabled while a task works through several windows may still get a
  new alert, which nothing closes, although the white paper (line 283) says that
  disabling closes all active alerts.

## 5. What is proved

Every theorem holds for all values of the constants that meet the `ConstantsAssumption` of
its module, which says no more than what the constants are (sets of people or tasks,
positive limits, natural bounds, known faults); TLC evaluates it in every run.

### The executor (`AnsibleExecutorProofs`)

For any sets of tasks and workers, any `max_deliver`, number of crashes and set of faults:

| Theorem | Statement |
|---|---|
| `Invariance` | `Spec => []IInv` |
| `TypeCorrect`, `LatestClaimOwns`, `ReceiverToldRecorded`, `SentMeansReceived`, `StatusIsCoherent` | the invariants `TypeOK`, `OnlyLatestClaimOwns`, `ReceivedIsRecorded`, `SentWasReceived`, `StatusCoherent` |
| `RemovedWhenSettled` | the invariant `RemovedOnlyWhenSettled` |
| `ResultFinal`, `LiveLeaseKept` | the action properties `ResultIsFinal`, `LiveLeaseNotStolen` |
| `Refinement` | `Spec => ImplementsLedger` |
| `FailedCallbackKeepsRetry` | `FailedCallbackHasRetry` holds until the first crash, if publishes succeed |

**The inductive invariant.** None of the invariants is inductive by itself: a worker
or the retry loop carries a copy of what the row said at an earlier await, and the
property breaks one step later if that copy is wrong. `IInv == TypeOK /\ Coherent` ties
each copy to the row:

- `RowOK`: the columns agree; a lease exists exactly while the task runs, and its owner
  is the latest attempt;
- `RetryOK`: a retry message carries the recorded verdict of a task whose first
  callback was given up;
- `WorkerOK`: a running worker has a claim no later than the latest; a worker that calls
  back holds the recorded verdict, and the callback is pending until it has an outcome;
- `PairOK`: two workers on one task have different claims and only one calls back. It
  holds because only the owner gets past `update_execution_result`, which clears the
  owner;
- `RetrierOK`: what the retry loop carries is what the row says.

The proof has one lemma per group of actions for types (`...Typed`) and one for
`Coherent` (`...Coherent`), put together in `NextIInv`.

**Steps as seen by a client.** `NextEffect` shows that under `IInv` a step changes one
task at most, in one of five ways: inserted, claimed, recorded, told, noted. Both
action properties and the refinement follow from it, the latter by matching the five
with the actions of `TaskLedger` (a repeated claim or a repeated outcome is a stutter).

The two facts about "sent" make the exception of `Unaddressed` and no other: the proofs
show that such a task never has a retry message or an attempt to deliver it.

**Removal** needs a second invariant, `Removing`: a worker about to ack has a settled
task in hand. It is proved inductive relative to `IInv`.

**Retries.** `FailedCallbackHasRetry` promises nothing after a crash or a lost publish, where
the code forgets callbacks (the first finding), so the theorem has both as hypotheses:
`"publish" \notin Faults`, and the property is claimed while `crashes = 0`; all other faults and
any number of workers, tasks and deliveries are covered. `RetryKept` adds what the ack of a
retry message needs: a retry loop that is about to drop the message was answered or has
dead-lettered it (`CallbackSettled`), and nothing takes either back.

### Jobs (`JobExecutionProofs`, `JobOutcomeProofs`)

For any number of targets, size of a batch, cancel requests, handlers, deliveries of the
report, kinds of job and faults:

| Theorem | Statement |
|---|---|
| `TypeCorrect` | the invariant `TypeOK` |
| `CancelAlwaysStopsDispatch` | the invariant `CancelStopsDispatch` |
| `NoJobIsOrphaned` | the invariant `UnfinishedHasWriter` |
| `SuccessIsAlwaysHonest`, `NoticesAlwaysAgree` | `Spec /\ Answered` implies the invariants `SuccessIsHonest`, `NoticesAgree` |
| `FinalIsStable` | `Spec /\ Answered` implies the action property `TerminalStable` |

`TypeInv` adds `CasOK` to the types: a request that is about to compare and swap has read
PENDING or RUNNING, so the status it writes is one. `StopInv` holds for the jobs that run through
sidecars. Such a job is written to by its runner, the cancel requests and the finalizer only
(`NoExecutor`). It is running or cancelling only after its runner has begun
(`RunningIsStarted`), the threads that may still start something belong to the batch in the
pool (`PoolIsCurrent`), and while that batch is under way nothing takes a cancellation back, so
the runner that looks before its next batch finds it (`CancelHolds`). The last part is what
makes the property inductive; the first three say why no process can break it.

`JobOutcomeProofs` first says what each process does to the row and to its own place
(`RunnerEffect`, `CancelEffect`, `ThreadEffect`, `FinalizerEffect`, `CallbackEffect`,
`DeliveryEffect`, `ReportEffect`): the runner, for example, moves, gives up, saves, tells,
submits, starts or ends, whatever its kind of job. The invariants below are proved over these
few effects.

**No orphans** (`WriterOK`). A runner may reach its end only if the status is final or a
report is under way. The hard case is a revoke: a request that misses its compare-and-swap has
still dropped the queued task, and a cancellation waits for its request to schedule the
finalizer. Once the broker has refused that, the runner or the report must still be there,
which holds for every kind of job but the playbook (`Abandoned`). `CasStarted` shows that it cannot leave the job without a writer,
because a request that read RUNNING read it after the runner had begun.

**One writer at a time** (`AnsweredInv`). The other three properties fail when a submission
reaches the executor and its answer is lost (the fault `"rpc"`): the runner then writes FAILED
beside what the handlers save. `Answered` excludes exactly this, on the first state of a behaviour:
the fault does not happen, or the job is not one that goes to the executor. It follows that once
the executor has the job its runner writes no more (`RemoteOK`).

**Jobs that nobody cancels** (`Quiet`). The status is PENDING before the runner begins and
RUNNING while it works; afterwards a report can only write the same verdict and the same results
again, so a second handler, also one that read RUNNING before the first one saved, changes
nothing and tells the caller nothing new.

**Honest success** (`HonestInv`) covers cancelled jobs too, and follows the results from the
threads to the row. Threads belong to the current batch, earlier batches were joined, and a joined
thread left a result (`PoolOK`; `BatchBounds` is the arithmetic of batches without a gap). A
success stands for a remote effect in each place a result is held (`ResultsReal`). When the pool
is joined the results are complete or the job is cancelled, in the row until the runner reads the
status back and in its memory from then on (`JoinOK`). The finalizer is the one process that may
overwrite results on the way: while it does, only runners and handlers that hold the cancellation
are left, so none of them can write SUCCESS (`ForcedOK`, which rests on `OldReadsWritten`, the
countdown of section 2). `AllSucceed` turns a count of no failures into a success of every target.

### The alert center (`AlertResponseProofs`)

For any people, chain, escalation mode, budgets, number of overlapping scans, edits and
faults:

| Theorem | Statement |
|---|---|
| `TypeCorrect` | the invariant `TypeOK` |
| `ReachedMayAlwaysClaim`, `ClaimAlwaysStopsEscalation` | the invariants `ReachedMayClaim`, `ClaimStopsEscalation` |
| `RoundIsAlwaysBounded` | the invariant `RoundIsBounded` |
| `FinishedIsFinal` | the action property `FinishedStaysFinished` |

`ChainInv` adds to the types `ChainRests`: before an assignment and after a claim no chain
runs. That is what makes `ReachedMayClaim` inductive, because an assignment overwrites the
operators, and what gives `ClaimStopsEscalation`. `RoundInv` counts the scans: the reminders
sent are at most those counted plus the scans that have sent and not counted
(`SentIsCounted`), and those plus the scans that have decided stay within the budget plus
the number of scans (`SentIsBounded`). Neither half holds without the other: a scan decides
when the count is below the budget, but the count lags.

### The monitor (`MonitorAlertsProofs`)

For any number of alerts, retries, requests and quiet windows, and any faults:

| Theorem | Statement |
|---|---|
| `TypeCorrect` | the invariant `TypeOK` |
| `AlwaysOneActive`, `FlagIsAlwaysHonest` | the invariants `OneActiveAlert`, `FlagIsHonest` |
| `EndIsFinal`, `RecoveryIsEarned` | the action properties `EndedStaysEnded`, `RecoversAfterQuiet` |

`TypeInv` adds `CountsOK` to the types: rows that the compensation task is about to count, and
the copy a request is about to save, are one below the reach of the count, which grows with
each request; without it the retry count is not bounded. `AlertInv` adds `OneInv`: from its
read of the active alerts to its create, a scan's copy contains every active alert that no
outdated copy was saved over (`Sound`), because nobody else makes an alert active. It also
adds `QuietInv`: the count of such an alert is at most the different quiet windows plus the
scans that failed after counting; a scan of a window that was counted before (`Replay`) is
covered by the failure that left the watermark behind. `CopyInv` says that an alert which
had ended when a request read it is still ended when the request saves. `HonestInv` says of each actor
that is about to mark rows what it knows: the alerts it marks were heard of, or were not to
be told (`ScanMarks`, `ManualMarks`, `CompMarks`), and the copy a request saves is itself
honest (`ManualCopies`). `RowStep` says which steps change a row's status or count, and from
it the action properties follow.

**Only model-checked**: liveness, which TLAPS does not prove (`StoredTaskSettles`,
`FailedCallbackSettles`, `CancellingConverges`, `JobConverges`, `UnclaimedEscalates`,
`FinishedFallsQuiet`, `EndReachesCenter`). `NoJobIsOrphaned` is the safety half of `JobConverges`:
somebody is always left to end the job; that it does is the fairness of its process. Every safety
property of the passing runs has a theorem; those that fail under some fault are proved with that
fault as a hypothesis, as said above.

## 6. Not modelled

- Preparing and parsing ansible runs, payload redaction, subject allow-lists, and
  start-up conflicts of streams: data and configuration.
- Undecodable messages of the executor and the read-only query handler.
- Celery worker loss, database errors and deletion of executions: the code has no
  recovery there to check.
- Two crashes closer together than a restart.
- How events are aggregated into alerts, shields, incidents and notification channels of the
  alert center; metric queries, baselines and snapshots of the monitor; deletion of rules and
  policies: data, or rows whose loss nothing recovers.
- The parts section 1 and `PROJECT.json` list as planned or out of scope.

## 7. Plan

Done: `TaskStore`, `JetStreamQueue`, `AnsibleExecutor`, `TaskLedger`, `JobExecution`,
`MonitorAlerts`, `AlertResponse`, and the proof modules of the four components: every safety
property of a passing run is a theorem. Next, in this order:

1. `JobSystem`: `JobExecution` composed with the executor as `TaskLedger` promises it in
   place of the external `remote`; end-to-end properties (what a lost callback means for
   a job and for a scheduled task).
2. `ScheduledTask`: the policies skip and queue of `scheduled_task_service.py` over several
   executions, with CANCELLING and stuck executions.
3. `ResultNotification`: the retries of `do_callback_task` and `do_nats_callback_task`, and
   the order of notices a third party sees.
4. The node installer session and the nats-executor's timeout and kill.
