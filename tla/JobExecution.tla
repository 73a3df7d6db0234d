---------------------------- MODULE JobExecution ----------------------------
(***************************************************************************)
(* One job execution of the server (server/apps/job_mgmt): the row         *)
(* JobExecution and the processes that share it without a common lock:     *)
(* the Celery runner (script, file distribution or playbook), the NATS     *)
(* handlers of the Ansible executor's callback, the cancel view and the    *)
(* terminate API, and the task that forces a stuck cancellation to an end. *)
(*                                                                         *)
(* A step of the model is one database statement or one remote effect; a   *)
(* save with update_fields writes only the columns it names.               *)
(***************************************************************************)
EXTENDS Naturals, FiniteSets

CONSTANTS
    NTargets,    \* the length of target_list
    MaxWorkers,  \* MAX_WORKERS, the size of a batch
    Kinds,       \* the kinds of job explored
    Canceller,   \* the cancel requests that may be made
    Handler,     \* the callback handlers that may run at the same time
    MaxReports,  \* bound: how often the executor delivers its report
    Faults       \* the failures of the environment that may happen

\* "script" and "files" run target by target through sidecars, "ansible" and
\* "playbook" are submitted to the Ansible executor, "blocked" is refused by
\* the dangerous-command or path rules or for Windows targets without the
\* Ansible driver, "unsupported" is a playbook for targets without that driver,
\* "missing" one whose playbook is gone, "empty" has nothing to do.
Kind == {"script", "files", "ansible", "playbook", "blocked", "unsupported", "missing", "empty"}

\* "broker": Celery's broker refuses a task (the process that was about to queue
\* it may as well have died).  "rpc": the submission to the
\* executor fails, before or after the executor accepted it.
FaultKind == {"broker", "rpc"}

ASSUME ConstantsAssumption ==
    /\ NTargets \in Nat \ {0}
    /\ MaxWorkers \in Nat \ {0}
    /\ Kinds \subseteq Kind
    /\ Canceller \subseteq {"view", "terminate"}
    /\ MaxReports \in Nat
    /\ Faults \subseteq FaultKind

Target == 1..NTargets

\* target_list[batch_start : batch_start + workers]
Batch(b) == {t \in Target : (b - 1) * MaxWorkers < t /\ t <= b * MaxWorkers}

TERMINAL_STATES == {"success", "failed", "cancelled"}
CancelStates == {"cancelling", "cancelled"}
Status == {"pending", "running", "cancelling"} \cup TERMINAL_STATES

\* The status of one target in execution_results; "none": it has no entry.
\* "failed" stands for FAILED and TIMEOUT, which are counted alike.
ResultStatus == {"none", "success", "failed", "cancelled"}
Results == [Target -> ResultStatus]
NoResults == [t \in Target |-> "none"]
AllFailed == [t \in Target |-> "failed"]

Count(results, s) == Cardinality({t \in Target : results[t] = s})

VARIABLES
    kind,        \* the kind of this job
    db,          \* the row
    runner,      \* the Celery task of the job
    thread,      \* the pool threads of the current batch
    dispatched,  \* targets a remote side effect was started on
    remote,      \* the Ansible executor's side of the job
    handler,     \* ansible_task_callback handlers
    canceller,   \* cancel requests
    finalizer,   \* finalize_cancelling_execution
    notices,     \* the statuses send_callback told the caller
    cancel       \* observer: the cancellation that took effect

vars == <<kind, db, runner, thread, dispatched, remote, handler, canceller,
          finalizer, notices, cancel>>

Row == [status : Status, results : Results, success_count : Nat, failed_count : Nat]

RunnerPc == {"new", "queued", "prepare", "empty", "batch", "wait", "results",
             "refresh", "count", "status", "notify", "check", "recheck", "submit",
             "rpc", "fail", "failresults", "reject", "rejectstatus", "done"}

\* status and failed are the values the runner holds in memory.
Runner == [pc : RunnerPc, status : Status, batch : Nat, results : Results, failed : Nat]

TypeOK ==
    /\ kind \in Kind
    /\ db \in Row
    /\ runner \in Runner
    /\ thread \in [Target -> {"idle", "check", "dispatch", "remote", "done"}]
    /\ dispatched \in SUBSET Target
    /\ remote \in [state : {"none", "accepted", "reported"}, wellformed : BOOLEAN,
                   results : Results, deliveries : Nat]
    /\ handler \in [Handler -> [pc : {"idle", "save"}, was_cancelling : BOOLEAN]]
    /\ canceller \in [Canceller -> [pc : {"idle", "cas", "schedule", "notify", "done"}, status_now : Status]]
    /\ finalizer \in [pc : {"off", "refused", "armed", "load", "save", "done"}, status : Status, results : Results]
    /\ notices \in SUBSET Status
    /\ cancel \in [from : {"no", "pending", "running"}, batch : Nat, late : SUBSET Target]

Init ==
    /\ kind \in Kinds
    /\ db = [status |-> "pending", results |-> NoResults, success_count |-> 0, failed_count |-> 0]
    /\ runner = [pc |-> "new", status |-> "pending", batch |-> 1, results |-> NoResults, failed |-> 0]
    /\ thread = [t \in Target |-> "idle"]
    /\ dispatched = {}
    /\ remote = [state |-> "none", wellformed |-> TRUE, results |-> NoResults, deliveries |-> 0]
    /\ handler = [h \in Handler |-> [pc |-> "idle", was_cancelling |-> FALSE]]
    /\ canceller = [c \in Canceller |-> [pc |-> "idle", status_now |-> "pending"]]
    /\ finalizer = [pc |-> "off", status |-> "pending", results |-> NoResults]
    /\ notices = {}
    /\ cancel = [from |-> "no", batch |-> 0, late |-> {}]

\* Mutant of is_cancelled: CANCELLING is not taken for cancelled.
is_cancelled_OnlyFinal == db.status = "cancelled"

is_cancelled == db.status \in CancelStates

update_execution_status(status) == db' = [db EXCEPT !.status = status]

Goto(pc) == runner' = [runner EXCEPT !.pc = pc]

\* A remote side effect starts on the targets ts; the observer notes the ones
\* that start after a cancellation took effect.
StartOn(ts) ==
    /\ dispatched' = dispatched \cup ts
    /\ cancel' = IF cancel.from = "no" THEN cancel
                 ELSE [cancel EXCEPT !.late = @ \cup ts]

-----------------------------------------------------------------------------
(* dispatch_celery_task and prepare_execution                              *)

Dispatch ==
    /\ runner.pc = "new"
    /\ Goto("queued")
    /\ UNCHANGED <<kind, db, thread, dispatched, remote, handler, canceller, finalizer, notices, cancel>>

DispatchFails ==
    /\ "broker" \in Faults
    /\ runner.pc = "new"
    /\ update_execution_status("failed")
    /\ Goto("done")
    /\ UNCHANGED <<kind, thread, dispatched, remote, handler, canceller, finalizer, notices, cancel>>

PrepareRead ==
    /\ runner.pc = "queued"
    /\ Goto(IF is_cancelled THEN "done" ELSE "prepare")
    /\ UNCHANGED <<kind, db, thread, dispatched, remote, handler, canceller, finalizer, notices, cancel>>

\* RUNNING is saved whatever the row says by now.
PrepareSave ==
    /\ runner.pc = "prepare"
    /\ update_execution_status("running")
    /\ Goto(CASE kind \in {"script", "files"} -> "batch"
              [] kind = "ansible" -> "submit"
              [] kind = "playbook" -> "check"
              [] kind = "blocked" -> "fail"
              [] kind = "unsupported" -> "reject"
              [] kind = "missing" -> "rejectstatus"
              [] kind = "empty" -> "empty")
    /\ UNCHANGED <<kind, thread, dispatched, remote, handler, canceller, finalizer, notices, cancel>>

FinishEmpty ==
    /\ runner.pc = "empty"
    /\ update_execution_status("success")
    /\ Goto("done")
    /\ UNCHANGED <<kind, thread, dispatched, remote, handler, canceller, finalizer, notices, cancel>>

-----------------------------------------------------------------------------
(* _run_via_sidecar and run_distribution_for_targets: batches of threads   *)

SubmitBatch ==
    /\ runner.pc = "batch"
    /\ thread' = [t \in Target |-> IF t \in Batch(runner.batch) THEN "check" ELSE thread[t]]
    /\ Goto("wait")
    /\ UNCHANGED <<kind, db, dispatched, remote, handler, canceller, finalizer, notices, cancel>>

ThreadCheck(t) ==
    /\ thread[t] = "check"
    /\ thread' = [thread EXCEPT ![t] = IF is_cancelled THEN "done" ELSE "dispatch"]
    /\ runner' = IF is_cancelled THEN [runner EXCEPT !.results[t] = "cancelled"] ELSE runner
    /\ UNCHANGED <<kind, db, dispatched, remote, handler, canceller, finalizer, notices, cancel>>

ThreadDispatch(t) ==
    /\ thread[t] = "dispatch"
    /\ thread' = [thread EXCEPT ![t] = "remote"]
    /\ StartOn({t})
    /\ UNCHANGED <<kind, db, runner, remote, handler, canceller, finalizer, notices>>

\* The thread returns: the remote call answered, or something raised, possibly
\* before the call (no credentials).  A file distribution looks for a
\* cancellation again before each file, the first included.
ThreadReturns(t, status) ==
    /\ thread[t] \in {"dispatch", "remote"}
    /\ \/ status = "failed"
       \/ status = "success" /\ thread[t] = "remote"
       \/ status = "cancelled" /\ kind = "files" /\ is_cancelled
    /\ thread' = [thread EXCEPT ![t] = "done"]
    /\ runner' = [runner EXCEPT !.results[t] = status]
    /\ UNCHANGED <<kind, db, dispatched, remote, handler, canceller, finalizer, notices, cancel>>

\* The pool is joined; a cancelled job submits no further batch.
BatchEnd ==
    /\ runner.pc = "wait"
    /\ \A t \in Batch(runner.batch) : thread[t] = "done"
    /\ runner' = IF is_cancelled \/ runner.batch * MaxWorkers >= NTargets
                 THEN [runner EXCEPT !.pc = "results"]
                 ELSE [runner EXCEPT !.pc = "batch", !.batch = @ + 1]
    /\ UNCHANGED <<kind, db, thread, dispatched, remote, handler, canceller, finalizer, notices, cancel>>

-----------------------------------------------------------------------------
(* finalize_execution                                                      *)

FinalizeResults ==
    /\ runner.pc = "results"
    /\ db' = [db EXCEPT !.results = runner.results]
    /\ Goto("refresh")
    /\ UNCHANGED <<kind, thread, dispatched, remote, handler, canceller, finalizer, notices, cancel>>

\* Mutant of FinalizeRefresh: the callback is sent before the status is saved.
FinalizeRefresh_Notifies ==
    /\ runner.pc = "refresh"
    /\ runner' = [runner EXCEPT !.pc = "count", !.status = db.status, !.results = db.results]
    /\ notices' = notices \cup {db.status}
    /\ UNCHANGED <<kind, db, thread, dispatched, remote, handler, canceller, finalizer, cancel>>

FinalizeRefresh ==
    /\ runner.pc = "refresh"
    /\ runner' = [runner EXCEPT !.pc = "count", !.status = db.status, !.results = db.results]
    /\ UNCHANGED <<kind, db, thread, dispatched, remote, handler, canceller, finalizer, notices, cancel>>

\* update_execution_counts: one transaction that locks the row.
FinalizeCounts ==
    /\ runner.pc = "count"
    /\ db' = [db EXCEPT !.success_count = Count(db.results, "success"),
                        !.failed_count = Count(db.results, "failed")]
    /\ runner' = [runner EXCEPT !.pc = "status", !.failed = Count(db.results, "failed")]
    /\ UNCHANGED <<kind, thread, dispatched, remote, handler, canceller, finalizer, notices, cancel>>

FinalizeStatus ==
    /\ runner.pc = "status"
    /\ update_execution_status(IF runner.status \in CancelStates THEN "cancelled"
                               ELSE IF runner.failed > 0 THEN "failed" ELSE "success")
    /\ Goto("notify")
    /\ UNCHANGED <<kind, thread, dispatched, remote, handler, canceller, finalizer, notices, cancel>>

FinalizeNotify ==
    /\ runner.pc = "notify"
    /\ notices' = notices \cup {db.status}
    /\ Goto("done")
    /\ UNCHANGED <<kind, db, thread, dispatched, remote, handler, canceller, finalizer, cancel>>

-----------------------------------------------------------------------------
(* _run_via_ansible_if_needed and PlaybookExecution._run_via_ansible       *)

\* A cancelled playbook only gets its finished_at.
PlaybookCheck ==
    /\ runner.pc = "check"
    /\ Goto(IF is_cancelled THEN "done" ELSE "recheck")
    /\ UNCHANGED <<kind, db, thread, dispatched, remote, handler, canceller, finalizer, notices, cancel>>

\* The check after the upload of the playbook raises, which is a failure.
PlaybookRecheck ==
    /\ runner.pc = "recheck"
    /\ Goto(IF is_cancelled THEN "fail" ELSE "submit")
    /\ UNCHANGED <<kind, db, thread, dispatched, remote, handler, canceller, finalizer, notices, cancel>>

Submit ==
    /\ runner.pc = "submit"
    /\ remote' = [remote EXCEPT !.state = "accepted"]
    /\ StartOn(Target)
    /\ Goto("rpc")
    /\ UNCHANGED <<kind, db, thread, handler, canceller, finalizer, notices>>

\* Mutant of SubmitAnswered: RUNNING is saved once the submission is answered.
SubmitAnswered_SavesRunning ==
    /\ runner.pc = "rpc"
    /\ update_execution_status("running")
    /\ Goto("done")
    /\ UNCHANGED <<kind, thread, dispatched, remote, handler, canceller, finalizer, notices, cancel>>

SubmitAnswered ==
    /\ runner.pc = "rpc"
    /\ Goto("done")
    /\ UNCHANGED <<kind, db, thread, dispatched, remote, handler, canceller, finalizer, notices, cancel>>

\* The executor never got the request, or its answer is lost.
SubmitFails ==
    /\ "rpc" \in Faults
    /\ runner.pc \in {"submit", "rpc"}
    /\ Goto("fail")
    /\ UNCHANGED <<kind, db, thread, dispatched, remote, handler, canceller, finalizer, notices, cancel>>

\* Two saves: the status, then the results; the blocked paths do the same.
FailStatus ==
    /\ runner.pc = "fail"
    /\ update_execution_status("failed")
    /\ Goto("failresults")
    /\ UNCHANGED <<kind, thread, dispatched, remote, handler, canceller, finalizer, notices, cancel>>

FailResults ==
    /\ runner.pc = "failresults"
    /\ db' = [db EXCEPT !.results = AllFailed]
    /\ Goto("done")
    /\ UNCHANGED <<kind, thread, dispatched, remote, handler, canceller, finalizer, notices, cancel>>

\* An unsupported playbook saves its results first; both end with the status.
RejectResults ==
    /\ runner.pc = "reject"
    /\ db' = [db EXCEPT !.results = AllFailed]
    /\ Goto("rejectstatus")
    /\ UNCHANGED <<kind, thread, dispatched, remote, handler, canceller, finalizer, notices, cancel>>

RejectStatus ==
    /\ runner.pc = "rejectstatus"
    /\ update_execution_status("failed")
    /\ Goto("done")
    /\ UNCHANGED <<kind, thread, dispatched, remote, handler, canceller, finalizer, notices, cancel>>

-----------------------------------------------------------------------------
(* The executor's report and ansible_task_callback                         *)

\* The executor is external (AnsibleExecutor models it): it has one report,
\* which it may deliver several times.  A host without a result is filled in
\* as failed, so a well-formed report gives each target success or failed.
ReportReady ==
    /\ remote.state = "accepted"
    /\ \E ok \in BOOLEAN, results \in [Target -> {"success", "failed"}] :
          /\ ok \/ results = AllFailed
          /\ remote' = [remote EXCEPT !.state = "reported", !.wellformed = ok, !.results = results]
    /\ UNCHANGED <<kind, db, runner, thread, dispatched, handler, canceller, finalizer, notices, cancel>>

\* A row in a final state is left alone.
CallbackRead(h) ==
    /\ remote.state = "reported"
    /\ remote.deliveries < MaxReports
    /\ handler[h].pc = "idle"
    /\ remote' = [remote EXCEPT !.deliveries = @ + 1]
    /\ handler' = IF db.status \in TERMINAL_STATES THEN handler
                  ELSE [handler EXCEPT ![h] =
                          [pc |-> "save", was_cancelling |-> db.status = "cancelling"]]
    /\ UNCHANGED <<kind, db, runner, thread, dispatched, canceller, finalizer, notices, cancel>>

\* Mutant of CallbackStatus: one success makes the job a success.
CallbackStatus_AnySuccess(h) ==
    IF ~remote.wellformed THEN "failed"
    ELSE IF handler[h].was_cancelling THEN "cancelled"
    ELSE IF Count(remote.results, "success") = 0 THEN "failed" ELSE "success"

\* The status a callback writes: _fail_execution for a malformed report.
CallbackStatus(h) ==
    IF ~remote.wellformed THEN "failed"
    ELSE IF handler[h].was_cancelling THEN "cancelled"
    ELSE IF Count(remote.results, "failed") > 0 THEN "failed" ELSE "success"

\* Mutant of CallbackSave: a malformed report is answered and otherwise ignored.
CallbackSave_IgnoresMalformed(h) ==
    /\ handler[h].pc = "save"
    /\ IF remote.wellformed
       THEN /\ db' = [status |-> CallbackStatus(h), results |-> remote.results,
                      success_count |-> Count(remote.results, "success"),
                      failed_count |-> Count(remote.results, "failed")]
            /\ notices' = notices \cup {CallbackStatus(h)}
       ELSE UNCHANGED <<db, notices>>
    /\ handler' = [handler EXCEPT ![h].pc = "idle"]
    /\ UNCHANGED <<kind, runner, thread, dispatched, remote, canceller, finalizer, cancel>>

CallbackSave(h) ==
    /\ handler[h].pc = "save"
    /\ db' = [status |-> CallbackStatus(h), results |-> remote.results,
              success_count |-> Count(remote.results, "success"),
              failed_count |-> Count(remote.results, "failed")]
    /\ notices' = notices \cup {CallbackStatus(h)}
    /\ handler' = [handler EXCEPT ![h].pc = "idle"]
    /\ UNCHANGED <<kind, runner, thread, dispatched, remote, canceller, finalizer, cancel>>

-----------------------------------------------------------------------------
(* JobExecutionViewSet.cancel ("view") and job_task_terminate ("terminate") *)

CancelRead(c) ==
    /\ canceller[c].pc = "idle"
    /\ canceller' = [canceller EXCEPT ![c] =
                       [pc |-> IF db.status \in {"pending", "running"} THEN "cas" ELSE "done",
                        status_now |-> db.status]]
    /\ UNCHANGED <<kind, db, runner, thread, dispatched, remote, handler, finalizer, notices, cancel>>

\* revoke drops a task no Celery worker has taken yet, if it works.  It precedes
\* the compare-and-swap and touches only the queued task, which takes no step of
\* its own in between, so the two are one step.
Revoke ==
    \/ UNCHANGED runner
    \/ runner.pc = "queued" /\ Goto("done")

\* The compare-and-swap on the status that was read.
CancelCas(c) ==
    LET hit == db.status = canceller[c].status_now
        running == canceller[c].status_now = "running"
    IN  /\ canceller[c].pc = "cas"
        /\ Revoke
        /\ db' = IF hit THEN [db EXCEPT !.status = IF running THEN "cancelling" ELSE "cancelled"]
                 ELSE db
        /\ cancel' = IF hit THEN [from |-> canceller[c].status_now, batch |-> runner.batch, late |-> {}]
                     ELSE cancel
        /\ canceller' = [canceller EXCEPT ![c].pc =
                           CASE hit /\ running -> "schedule"
                             [] hit /\ ~running /\ c = "terminate" -> "notify"
                             [] OTHER -> "done"]
        /\ UNCHANGED <<kind, thread, dispatched, remote, handler, finalizer, notices>>

\* Mutant of CancelSchedule: no finalizer is scheduled.
CancelSchedule_NoFinalizer(c) ==
    /\ canceller[c].pc = "schedule"
    /\ canceller' = [canceller EXCEPT ![c].pc = IF c = "terminate" THEN "notify" ELSE "done"]
    /\ UNCHANGED <<kind, db, runner, thread, dispatched, remote, handler, finalizer, notices, cancel>>

\* apply_async schedules the finalizer of a job that is CANCELLING by now.
CancelSchedule(c) ==
    /\ canceller[c].pc = "schedule"
    /\ finalizer' = [finalizer EXCEPT !.pc = "armed"]
    /\ canceller' = [canceller EXCEPT ![c].pc = IF c = "terminate" THEN "notify" ELSE "done"]
    /\ UNCHANGED <<kind, db, runner, thread, dispatched, remote, handler, notices, cancel>>

\* apply_async raises and the exception ends the request: the row stays as it
\* is, nobody is told, and a further request is turned away.
CancelScheduleFails(c) ==
    /\ "broker" \in Faults
    /\ canceller[c].pc = "schedule"
    /\ finalizer' = [finalizer EXCEPT !.pc = "refused"]
    /\ canceller' = [canceller EXCEPT ![c].pc = "done"]
    /\ UNCHANGED <<kind, db, runner, thread, dispatched, remote, handler, notices, cancel>>

\* Only the terminate API sends the callback.
CancelNotify(c) ==
    /\ canceller[c].pc = "notify"
    /\ notices' = notices \cup {db.status}
    /\ canceller' = [canceller EXCEPT ![c].pc = "done"]
    /\ UNCHANGED <<kind, db, runner, thread, dispatched, remote, handler, finalizer, cancel>>

-----------------------------------------------------------------------------
(* finalize_cancelling_execution                                           *)

\* The countdown is the job's timeout plus a minute: a status that was read
\* before the cancellation has been written back long since.
OldReadsWritten ==
    /\ \A h \in Handler : handler[h].pc = "save" => handler[h].was_cancelling
    /\ runner.pc \in {"count", "status"} => runner.status \in CancelStates
    /\ runner.pc # "empty"

FinalizerCas ==
    /\ finalizer.pc = "armed"
    /\ OldReadsWritten
    /\ IF db.status = "cancelling"
       THEN update_execution_status("cancelled") /\ finalizer' = [finalizer EXCEPT !.pc = "load"]
       ELSE UNCHANGED db /\ finalizer' = [finalizer EXCEPT !.pc = "done"]
    /\ UNCHANGED <<kind, runner, thread, dispatched, remote, handler, canceller, notices, cancel>>

FinalizerLoad ==
    /\ finalizer.pc = "load"
    /\ finalizer' = [pc |-> "save", status |-> db.status, results |-> db.results]
    /\ UNCHANGED <<kind, db, runner, thread, dispatched, remote, handler, canceller, notices, cancel>>

\* Mutant of FilledIn: the filled-in entries get a status of their own.
FilledIn_Unknown(results) ==
    [t \in Target |-> IF results[t] = "none" THEN "unknown" ELSE results[t]]

\* Targets without an entry become cancelled, "remote result unknown".
FilledIn(results) == [t \in Target |-> IF results[t] = "none" THEN "cancelled" ELSE results[t]]

FinalizerSave ==
    LET results == FilledIn(finalizer.results) IN
    /\ finalizer.pc = "save"
    /\ db' = [db EXCEPT !.results = results,
                        !.success_count = Count(results, "success"),
                        !.failed_count = Count(results, "failed")]
    /\ notices' = notices \cup {finalizer.status}
    /\ finalizer' = [finalizer EXCEPT !.pc = "done"]
    /\ UNCHANGED <<kind, runner, thread, dispatched, remote, handler, canceller, cancel>>

-----------------------------------------------------------------------------
\* What the runner does by itself; the rest waits for a remote party.
RunnerStep ==
    \/ Dispatch \/ PrepareRead \/ PrepareSave \/ FinishEmpty
    \/ SubmitBatch \/ BatchEnd
    \/ FinalizeResults \/ FinalizeRefresh \/ FinalizeCounts \/ FinalizeStatus \/ FinalizeNotify
    \/ PlaybookCheck \/ PlaybookRecheck \/ Submit \/ FailStatus \/ FailResults
    \/ RejectResults \/ RejectStatus

ThreadStep(t) == ThreadCheck(t) \/ ThreadDispatch(t)
CancelStep(c) == CancelCas(c) \/ CancelSchedule(c) \/ CancelNotify(c)
FinalizerStep == FinalizerCas \/ FinalizerLoad \/ FinalizerSave

ThreadAnswer(t) == \E status \in ResultStatus : ThreadReturns(t, status)
ExecutorStep == ReportReady \/ \E h \in Handler : CallbackRead(h)

Next ==
    \/ RunnerStep
    \/ DispatchFails
    \/ SubmitAnswered
    \/ SubmitFails
    \/ \E t \in Target : ThreadStep(t) \/ ThreadAnswer(t)
    \/ ExecutorStep
    \/ \E h \in Handler : CallbackSave(h)
    \/ \E c \in Canceller : CancelRead(c) \/ CancelStep(c) \/ CancelScheduleFails(c)
    \/ FinalizerStep

Spec == Init /\ [][Next]_vars

\* The server's own processes make progress; nothing is assumed of sidecars,
\* of the executor and of users.
ServerFairness ==
    /\ WF_vars(RunnerStep)
    /\ \A t \in Target : WF_vars(ThreadStep(t))
    /\ \A h \in Handler : WF_vars(CallbackSave(h))
    /\ \A c \in Canceller : WF_vars(CancelStep(c))
    /\ WF_vars(FinalizerStep)

FairSpec == Spec /\ ServerFairness

\* Remote calls return by their timeout, and the executor's report arrives.
RemoteFairness ==
    /\ \A t \in Target : WF_vars(ThreadAnswer(t))
    /\ WF_vars(SubmitAnswered)
    /\ WF_vars(ExecutorStep)

-----------------------------------------------------------------------------
(* Properties                                                              *)

\* "No further batch is submitted after a cancellation" (_run_via_sidecar): once
\* RUNNING became CANCELLING, remote effects start only on targets of the batch
\* whose threads were already in the pool, and nothing undoes the cancellation
\* for a thread that checks later.
CancelStopsDispatch ==
    cancel.from = "running" /\ kind \in {"script", "files"} =>
        cancel.late \subseteq Batch(cancel.batch)

\* A job that says SUCCESS ran on every target, every target succeeded, and the
\* counters agree, whichever of runner, callback, canceller and finalizer wrote
\* last (a job with nothing to do excepted).
SuccessIsHonest ==
    db.status = "success" /\ kind # "empty" =>
        /\ dispatched = Target
        /\ \A t \in Target : db.results[t] = "success"
        /\ db.success_count = NTargets
        /\ db.failed_count = 0

\* Without a cancellation a final status and its results are final: a callback
\* delivered twice, also to two handlers at once, changes nothing.
TerminalStable ==
    [][db.status \in TERMINAL_STATES /\ cancel'.from = "no" =>
          /\ db'.status = db.status
          /\ runner.pc # "failresults" => db'.results = db.results]_vars

\* Without a cancellation the caller is never told anything but the status the
\* job has for good.
NoticesAgree == cancel.from = "no" => notices \subseteq {db.status}

\* The executor still owes its report, or a handler is about to save it.
ReportPending ==
    \/ remote.state = "accepted"
    \/ remote.state = "reported" /\ remote.deliveries = 0
    \/ \E h \in Handler : handler[h].pc = "save"

\* The one cancellation the server abandons: the broker refused its finalizer
\* after the row became CANCELLING, and no later write is left to end it.  A
\* playbook that finds itself cancelled only gets its finished_at.
Abandoned == finalizer.pc = "refused" /\ kind = "playbook"

\* No job is orphaned: whoever revokes, refuses, overtakes or overwrites, while
\* the status is not final its runner is at work or the executor owes a report
\* that will be saved.  A cancelling job has its finalizer scheduled or about to
\* be; where the broker refused it, only the runner and the report are left to
\* end the job, and for a playbook perhaps neither (Abandoned).
UnfinishedHasWriter ==
    /\ db.status \in {"pending", "running"} => runner.pc # "done" \/ ReportPending
    /\ db.status = "cancelling" =>
          \/ finalizer.pc = "armed"
          \/ \E c \in Canceller : canceller[c].pc = "schedule"
          \/ finalizer.pc = "refused" /\ (runner.pc # "done" \/ ReportPending)
          \/ Abandoned

\* Design of honest cancellation: a cancelling job never stays so, even if no
\* sidecar and no executor ever answers.  The code keeps this only if apply_async
\* accepts the finalizer: a refusal leaves the job to those remote parties.
CancellingConverges ==
    db.status = "cancelling" ~> db.status \in TERMINAL_STATES \/ finalizer.pc = "refused"

\* ansible_task_callback: every branch must converge to a final state.  If the
\* remote parties answer, every job ends in a final state and stays in one,
\* whatever cancellations and submission failures happen, the refusal of its
\* finalizer included; only the abandoned playbook may stay CANCELLING.
JobConverges ==
    RemoteFairness =>
        <>[](db.status \in TERMINAL_STATES \/ (db.status = "cancelling" /\ Abandoned))

\* Design of honest cancellation: PENDING --cancel--> CANCELLED, without any
\* side effect.
PendingCancelHasNoEffect == cancel.from = "pending" => cancel.late = {}

\* Design of honest cancellation: CANCELLING converges to CANCELLED.
CancellingEndsCancelled ==
    [][db.status = "cancelling" => db'.status \in CancelStates]_vars

\* finalize_cancelling_execution: results that exist are kept.
RealResultsKept ==
    [][\A t \in Target : db.results[t] \in {"success", "failed"} =>
          db'.results[t] # "cancelled"]_vars
=============================================================================
