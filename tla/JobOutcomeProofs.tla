-------------------------- MODULE JobOutcomeProofs --------------------------
(***************************************************************************)
(* How a job ends: proofs about the statuses, results and notices of       *)
(* JobExecution, whoever writes the row last.                              *)
(***************************************************************************)
EXTENDS JobExecutionProofs

-----------------------------------------------------------------------------
(* What a step does to the row and to the runner's place                   *)

\* The runner has not begun; it is at work and the row is its own to end.
Before == {"new", "queued", "prepare"}
Busy == {"empty", "batch", "wait", "results", "refresh", "count", "status", "check",
         "recheck", "submit", "fail", "reject", "rejectstatus"}

LEMMA GotoFields ==
    ASSUME TypeOK, NEW pc, Goto(pc)
    PROVE  /\ runner'.pc = pc
           /\ runner'.status = runner.status
           /\ runner'.batch = runner.batch
           /\ runner'.results = runner.results
           /\ runner'.failed = runner.failed
BY DEF TypeOK, Goto, Runner

LEMMA StatusFields ==
    ASSUME TypeOK, NEW s, update_execution_status(s)
    PROVE  /\ db'.status = s
           /\ db'.results = db.results
           /\ db'.success_count = db.success_count
           /\ db'.failed_count = db.failed_count
BY DEF TypeOK, update_execution_status, Row

\* The runner moves on and writes nothing.
Moves ==
    /\ UNCHANGED <<db, remote, notices>>
    /\ \/ runner.pc = "new" /\ runner'.pc = "queued"
       \/ runner.pc = "queued" /\ runner'.pc = IF is_cancelled THEN "done" ELSE "prepare"
       \/ runner.pc = "check" /\ is_cancelled /\ runner'.pc = "done"
       \/ runner.pc \in Busy \ {"fail"} /\ runner'.pc \in Busy
       \/ runner.pc = "rpc" /\ runner'.pc = "done"

\* The submission fails.
GivesUp ==
    /\ "rpc" \in Faults
    /\ UNCHANGED <<db, remote, notices>>
    /\ runner.pc \in {"submit", "rpc"}
    /\ runner'.pc = "fail"

\* It saves results or counts.
Saves ==
    /\ UNCHANGED <<remote, notices>>
    /\ db'.status = db.status
    /\ \/ runner.pc \in Busy \ {"fail"} /\ runner'.pc \in Busy
       \/ runner.pc = "failresults" /\ runner'.pc = "done"

Tells ==
    /\ UNCHANGED <<db, remote>>
    /\ runner.pc = "notify"
    /\ runner'.pc = "done"
    /\ notices' = notices \cup {db.status}

Submits ==
    /\ UNCHANGED <<db, notices>>
    /\ runner.pc = "submit"
    /\ runner'.pc = "rpc"
    /\ remote' = [remote EXCEPT !.state = "accepted"]

Starts ==
    /\ UNCHANGED <<remote, notices>>
    /\ runner.pc = "prepare"
    /\ runner'.pc \in Busy
    /\ db'.status = "running"

\* It saves a final status.
Ends ==
    /\ UNCHANGED <<remote, notices>>
    /\ runner.pc \in Busy \cup {"new"}
    /\ runner'.pc \in {"notify", "failresults", "done"}
    /\ runner.pc = "fail" => runner'.pc = "failresults"
    /\ db'.status \in TERMINAL_STATES
    /\ db'.status \in CancelStates => runner.status \in CancelStates

\* Every step of the runner is one of these.
LEMMA RunnerEffect ==
    ASSUME TypeOK, RunnerStep \/ DispatchFails \/ SubmitAnswered \/ SubmitFails
    PROVE  /\ UNCHANGED <<kind, handler, canceller, finalizer>>
           /\ cancel'.from = cancel.from
           /\ runner'.status \in {runner.status, db.status}
           /\ Moves \/ GivesUp \/ Saves \/ Tells \/ Submits \/ Starts \/ Ends
<1>0. runner \in Runner /\ db \in Row /\ kind \in Kind
      /\ cancel \in [from : {"no", "pending", "running"}, batch : Nat, late : SUBSET Target]
  BY DEF TypeOK
<1>1. CASE Dispatch \/ PrepareRead \/ PlaybookCheck \/ PlaybookRecheck \/ SubmitAnswered
  <2>1. runner'.status = runner.status
    BY <1>1, GotoFields DEF Dispatch, PrepareRead, PlaybookCheck, PlaybookRecheck, SubmitAnswered
  <2>2. UNCHANGED <<kind, db, remote, handler, canceller, finalizer, notices, cancel>>
    BY <1>1 DEF Dispatch, PrepareRead, PlaybookCheck, PlaybookRecheck, SubmitAnswered
  <2>3. Moves
    <3>1. CASE Dispatch
      BY <2>2, <3>1, GotoFields DEF Dispatch, Moves
    <3>2. CASE PrepareRead
      BY <2>2, <3>2, GotoFields DEF PrepareRead, Moves
    <3>3. CASE PlaybookCheck
      BY <2>2, <3>3, GotoFields DEF PlaybookCheck, Moves, Busy
    <3>4. CASE PlaybookRecheck
      BY <2>2, <3>4, GotoFields DEF PlaybookRecheck, Moves, Busy
    <3>5. CASE SubmitAnswered
      BY <2>2, <3>5, GotoFields DEF SubmitAnswered, Moves
    <3> QED
      BY <1>1, <3>1, <3>2, <3>3, <3>4, <3>5
  <2> QED
    BY <2>1, <2>2, <2>3
<1>2. CASE SubmitBatch \/ BatchEnd \/ FinalizeRefresh
  <2>1. runner'.status \in {runner.status, db.status}
    BY <1>0, <1>2, GotoFields DEF SubmitBatch, BatchEnd, FinalizeRefresh, Runner
  <2>2. UNCHANGED <<kind, db, remote, handler, canceller, finalizer, notices, cancel>>
    BY <1>2 DEF SubmitBatch, BatchEnd, FinalizeRefresh
  <2>3. runner.pc \in {"batch", "wait", "refresh"} /\ runner'.pc \in {"wait", "batch", "results", "count"}
    BY <1>0, <1>2, GotoFields DEF SubmitBatch, BatchEnd, FinalizeRefresh, Runner
  <2> QED
    BY <2>1, <2>2, <2>3 DEF Moves, Busy
<1>3. CASE FinalizeResults \/ FinalizeCounts \/ FailResults \/ RejectResults
  <2>1. runner'.status = runner.status /\ db'.status = db.status
    BY <1>0, <1>3, GotoFields DEF FinalizeResults, FinalizeCounts, FailResults, RejectResults, Runner, Row
  <2>2. UNCHANGED <<kind, remote, handler, canceller, finalizer, notices, cancel>>
    BY <1>3 DEF FinalizeResults, FinalizeCounts, FailResults, RejectResults
  <2>3. \/ runner.pc \in {"results", "count", "reject"} /\ runner'.pc \in {"refresh", "status", "rejectstatus"}
        \/ runner.pc = "failresults" /\ runner'.pc = "done"
    BY <1>0, <1>3, GotoFields DEF FinalizeResults, FinalizeCounts, FailResults, RejectResults, Runner
  <2> QED
    BY <2>1, <2>2, <2>3 DEF Saves, Busy
<1>4. CASE DispatchFails \/ FinishEmpty \/ FailStatus \/ RejectStatus \/ FinalizeStatus
  <2>1. /\ runner'.status = runner.status
        /\ runner.pc \in {"new", "empty", "fail", "rejectstatus", "status"}
        /\ runner'.pc \in {"notify", "failresults", "done"}
        /\ runner.pc = "fail" => runner'.pc = "failresults"
    BY <1>4, GotoFields DEF DispatchFails, FinishEmpty, FailStatus, RejectStatus, FinalizeStatus
  <2>2. UNCHANGED <<kind, remote, handler, canceller, finalizer, notices, cancel>>
    BY <1>4 DEF DispatchFails, FinishEmpty, FailStatus, RejectStatus, FinalizeStatus
  <2>3. db'.status \in {"success", "failed"} \/ (db'.status = "cancelled" /\ runner.status \in CancelStates)
    BY <1>4, StatusFields DEF DispatchFails, FinishEmpty, FailStatus, RejectStatus, FinalizeStatus
  <2>4. db'.status \in TERMINAL_STATES /\ (db'.status \in CancelStates => runner.status \in CancelStates)
    BY <2>3 DEF TERMINAL_STATES, CancelStates
  <2> QED
    BY <2>1, <2>2, <2>4 DEF Ends, Busy
<1>5. CASE FinalizeNotify
  BY <1>5, GotoFields DEF FinalizeNotify, Tells
<1>6. CASE Submit
  <2>1. cancel'.from = cancel.from
    BY <1>0, <1>6 DEF Submit, StartOn
  <2> QED
    BY <1>6, <2>1, GotoFields DEF Submit, Submits
<1>7. CASE PrepareSave
  <2>1. runner'.pc \in Busy
    BY <1>0, <1>7, GotoFields DEF PrepareSave, Kind, Busy
  <2> QED
    BY <1>7, <2>1, GotoFields, StatusFields DEF PrepareSave, Starts
<1>8. CASE SubmitFails
  BY <1>8, GotoFields DEF SubmitFails, GivesUp
<1> QED
  BY <1>1, <1>2, <1>3, <1>4, <1>5, <1>6, <1>7, <1>8 DEF RunnerStep

\* A cancel request that compares and swaps.
Misses(c) ==
    /\ db.status # canceller[c].status_now
    /\ UNCHANGED <<db, cancel>>
    /\ canceller'[c].pc = "done"

CancelsPending(c) ==
    /\ db.status = "pending"
    /\ db'.status = "cancelled"
    /\ canceller'[c].pc \in {"notify", "done"}
    /\ cancel'.from = "pending"

CancelsRunning(c) ==
    /\ db.status = "running"
    /\ db'.status = "cancelling"
    /\ canceller'[c].pc = "schedule"
    /\ cancel'.from = "running"

LEMMA CancelEffect ==
    ASSUME TypeOK, CasOK, NEW c \in Canceller, CancelCas(c)
    PROVE  /\ UNCHANGED <<kind, thread, dispatched, remote, handler, finalizer, notices>>
           /\ canceller[c].pc = "cas"
           /\ \/ UNCHANGED runner
              \/ /\ runner.pc = "queued"
                 /\ runner'.pc = "done"
                 /\ runner'.status = runner.status
                 /\ runner'.batch = runner.batch
                 /\ runner'.results = runner.results
           /\ db'.results = db.results
           /\ db'.success_count = db.success_count
           /\ db'.failed_count = db.failed_count
           /\ \A d \in Canceller \ {c} : canceller'[d] = canceller[d]
           /\ Misses(c) \/ CancelsPending(c) \/ CancelsRunning(c)
<1> DEFINE now == canceller[c].status_now
<1>0. /\ db \in Row
      /\ canceller \in [Canceller -> [pc : {"idle", "cas", "schedule", "notify", "done"}, status_now : Status]]
      /\ canceller[c].pc = "cas"
      /\ now \in {"pending", "running"}
  BY DEF TypeOK, CasOK, CancelCas
<1>1. UNCHANGED <<kind, thread, dispatched, remote, handler, finalizer, notices>> /\ canceller[c].pc = "cas"
  BY DEF CancelCas
<1>2. UNCHANGED runner \/ (runner.pc = "queued" /\ Goto("done"))
  BY DEF CancelCas, Revoke
<1>3. db'.results = db.results /\ db'.success_count = db.success_count /\ db'.failed_count = db.failed_count
  BY <1>0 DEF CancelCas, Row
<1>4. \A d \in Canceller \ {c} : canceller'[d] = canceller[d]
  BY <1>0 DEF CancelCas
<1>5. CASE db.status # now
  <2>1. canceller'[c].pc = "done"
    BY <1>0, <1>5 DEF CancelCas
  <2>2. Misses(c)
    BY <1>5, <2>1 DEF CancelCas, Misses
  <2> QED
    BY <1>1, <1>2, <1>3, <1>4, <2>2, GotoFields
<1>6. CASE db.status = now /\ now = "pending"
  <2>1. db'.status = "cancelled" /\ cancel'.from = "pending"
    BY <1>0, <1>6 DEF CancelCas, Row
  <2>2. canceller'[c].pc \in {"notify", "done"}
    BY <1>0, <1>6 DEF CancelCas
  <2>3. CancelsPending(c)
    BY <1>6, <2>1, <2>2 DEF CancelsPending
  <2> QED
    BY <1>1, <1>2, <1>3, <1>4, <2>3, GotoFields
<1>7. CASE db.status = now /\ now = "running"
  <2>1. db'.status = "cancelling"
    BY <1>0, <1>7 DEF CancelCas, Row
  <2>2. canceller'[c].pc = "schedule" /\ cancel'.from = "running"
    BY <1>0, <1>7 DEF CancelCas
  <2>3. CancelsRunning(c)
    BY <1>7, <2>1, <2>2 DEF CancelsRunning
  <2> QED
    BY <1>1, <1>2, <1>3, <1>4, <2>3, GotoFields
<1> QED
  BY <1>0, <1>5, <1>6, <1>7

\* A cancel request that schedules the finalizer, or is refused it.
LEMMA ScheduleEffect ==
    ASSUME TypeOK, NEW c \in Canceller, CancelSchedule(c) \/ CancelScheduleFails(c)
    PROVE  /\ UNCHANGED <<kind, db, runner, thread, dispatched, remote, handler, notices, cancel>>
           /\ canceller[c].pc = "schedule"
           /\ canceller'[c].pc \in {"notify", "done"}
           /\ \A d \in Canceller \ {c} : canceller'[d] = canceller[d]
           /\ finalizer'.pc \in {"armed", "refused"}
           /\ finalizer'.results = finalizer.results
<1>0. /\ canceller \in [Canceller -> [pc : {"idle", "cas", "schedule", "notify", "done"}, status_now : Status]]
      /\ finalizer \in [pc : {"off", "refused", "armed", "load", "save", "done"}, status : Status, results : Results]
  BY DEF TypeOK
<1>1. finalizer'.pc \in {"armed", "refused"} /\ finalizer'.results = finalizer.results
  BY <1>0 DEF CancelSchedule, CancelScheduleFails
<1>2. canceller'[c].pc \in {"notify", "done"} /\ \A d \in Canceller \ {c} : canceller'[d] = canceller[d]
  BY <1>0 DEF CancelSchedule, CancelScheduleFails
<1> QED
  BY <1>1, <1>2 DEF CancelSchedule, CancelScheduleFails

\* The pool threads touch the results in the runner's memory only.
LEMMA ThreadEffect ==
    ASSUME TypeOK, NEW t \in Target, ThreadStep(t) \/ ThreadAnswer(t)
    PROVE  /\ UNCHANGED <<kind, db, remote, handler, canceller, finalizer, notices>>
           /\ cancel'.from = cancel.from
           /\ runner'.pc = runner.pc
           /\ runner'.status = runner.status
           /\ runner'.batch = runner.batch
<1>0. /\ runner \in Runner
      /\ cancel \in [from : {"no", "pending", "running"}, batch : Nat, late : SUBSET Target]
  BY DEF TypeOK
<1>1. UNCHANGED <<kind, db, remote, handler, canceller, finalizer, notices>>
  BY DEF ThreadStep, ThreadAnswer, ThreadCheck, ThreadDispatch, ThreadReturns
<1>2. cancel'.from = cancel.from
  BY <1>0 DEF ThreadStep, ThreadAnswer, ThreadCheck, ThreadDispatch, ThreadReturns, StartOn
<1>3. runner'.pc = runner.pc /\ runner'.status = runner.status /\ runner'.batch = runner.batch
  BY <1>0 DEF ThreadStep, ThreadAnswer, ThreadCheck, ThreadDispatch, ThreadReturns, Runner
<1> QED
  BY <1>1, <1>2, <1>3

\* The finalizer forces the end, finds nothing to do, reads or fills in.
Forces ==
    /\ OldReadsWritten
    /\ db.status = "cancelling"
    /\ db'.status = "cancelled"
    /\ db'.results = db.results
    /\ finalizer.pc = "armed"
    /\ finalizer'.pc = "load"
    /\ finalizer'.results = finalizer.results
    /\ UNCHANGED notices

Stands ==
    /\ db.status # "cancelling"
    /\ finalizer.pc = "armed"
    /\ finalizer'.pc = "done"
    /\ finalizer'.results = finalizer.results
    /\ UNCHANGED <<db, notices>>

Loads ==
    /\ finalizer.pc = "load"
    /\ finalizer'.pc = "save"
    /\ finalizer'.results = db.results
    /\ UNCHANGED <<db, notices>>

Fills ==
    /\ finalizer.pc = "save"
    /\ finalizer'.pc = "done"
    /\ finalizer'.results = finalizer.results
    /\ db'.status = db.status
    /\ db'.results = FilledIn(finalizer.results)

LEMMA FinalizerEffect ==
    ASSUME TypeOK, FinalizerStep
    PROVE  /\ UNCHANGED <<kind, runner, thread, dispatched, remote, handler, canceller, cancel>>
           /\ Forces \/ Stands \/ Loads \/ Fills
<1>0. /\ db \in Row
      /\ finalizer \in [pc : {"off", "refused", "armed", "load", "save", "done"}, status : Status, results : Results]
  BY DEF TypeOK
<1>1. UNCHANGED <<kind, runner, thread, dispatched, remote, handler, canceller, cancel>>
  BY DEF FinalizerStep, FinalizerCas, FinalizerLoad, FinalizerSave
<1>2. CASE FinalizerCas
  BY <1>0, <1>1, <1>2, StatusFields DEF FinalizerCas, Forces, Stands
<1>3. CASE FinalizerLoad
  BY <1>1, <1>3 DEF FinalizerLoad, Loads
<1>4. CASE FinalizerSave
  <2>1. db'.status = db.status /\ db'.results = FilledIn(finalizer.results)
    BY <1>0, <1>4 DEF FinalizerSave, Row
  <2>2. finalizer.pc = "save" /\ finalizer'.pc = "done" /\ finalizer'.results = finalizer.results
    BY <1>0, <1>4 DEF FinalizerSave
  <2> QED
    BY <1>1, <2>1, <2>2 DEF Fills
<1> QED
  BY <1>2, <1>3, <1>4 DEF FinalizerStep

\* A handler saves the report.
LEMMA CallbackEffect ==
    ASSUME TypeOK, NEW h \in Handler, CallbackSave(h)
    PROVE  /\ UNCHANGED <<kind, runner, thread, dispatched, remote, canceller, finalizer, cancel>>
           /\ handler[h].pc = "save"
           /\ handler'[h].pc = "idle"
           /\ \A g \in Handler \ {h} : handler'[g] = handler[g]
           /\ db'.status = CallbackStatus(h)
           /\ db'.status \in TERMINAL_STATES
           /\ db'.results = remote.results
           /\ db'.success_count = Count(remote.results, "success")
           /\ db'.failed_count = Count(remote.results, "failed")
           /\ notices' = notices \cup {CallbackStatus(h)}
<1>0. handler \in [Handler -> [pc : {"idle", "save"}, was_cancelling : BOOLEAN]]
  BY DEF TypeOK
<1>1. CallbackStatus(h) \in TERMINAL_STATES
  BY DEF CallbackStatus, TERMINAL_STATES
<1>2. handler[h].pc = "save" /\ handler'[h].pc = "idle" /\ \A g \in Handler \ {h} : handler'[g] = handler[g]
  BY <1>0 DEF CallbackSave
<1> QED
  BY <1>1, <1>2 DEF CallbackSave

\* The report is delivered to a handler, which leaves a final row alone.
LEMMA DeliveryEffect ==
    ASSUME TypeOK, NEW h \in Handler, CallbackRead(h)
    PROVE  /\ UNCHANGED <<kind, db, runner, thread, dispatched, canceller, finalizer, notices, cancel>>
           /\ remote.state = "reported"
           /\ remote'.state = "reported"
           /\ remote'.wellformed = remote.wellformed
           /\ remote'.results = remote.results
           /\ \A g \in Handler \ {h} : handler'[g] = handler[g]
           /\ handler[h].pc = "idle"
           /\ IF db.status \in TERMINAL_STATES THEN UNCHANGED handler
              ELSE handler'[h] = [pc |-> "save", was_cancelling |-> db.status = "cancelling"]
<1>0. /\ handler \in [Handler -> [pc : {"idle", "save"}, was_cancelling : BOOLEAN]]
      /\ remote \in [state : {"none", "accepted", "reported"}, wellformed : BOOLEAN,
                     results : Results, deliveries : Nat]
  BY DEF TypeOK
<1> QED
  BY <1>0 DEF CallbackRead

LEMMA ReportEffect ==
    ASSUME TypeOK, ReportReady
    PROVE  /\ UNCHANGED <<kind, db, runner, thread, dispatched, handler, canceller, finalizer, notices, cancel>>
           /\ remote.state = "accepted"
           /\ remote'.state = "reported"
           /\ remote'.deliveries = remote.deliveries
           /\ remote'.results \in [Target -> {"success", "failed"}]
BY DEF TypeOK, ReportReady

-----------------------------------------------------------------------------
(* No job is orphaned.  UnfinishedHasWriter is not inductive: the steps     *)
(* that take the runner to its end must be known to find a final status or  *)
(* a report under way, a playbook that is being cancelled excepted.         *)

StartedOK == db.status \in {"running", "cancelling"} => runner.pc \notin Before

\* A request that read RUNNING read it after the runner had begun.
CasStarted ==
    \A c \in Canceller :
        canceller[c].pc = "cas" /\ canceller[c].status_now = "running" => runner.pc \notin Before

WriterOK ==
    /\ StartedOK
    /\ CasStarted
    /\ runner.pc \in {"notify", "failresults"} => db.status \in TERMINAL_STATES
    /\ runner.pc \in {"rpc", "done"} /\ db.status \in {"pending", "running"} => ReportPending
    /\ runner.pc \in {"rpc", "done"} /\ db.status = "cancelling" => kind = "playbook" \/ ReportPending
    /\ db.status = "cancelling" =>
          \/ finalizer.pc \in {"armed", "refused"}
          \/ \E c \in Canceller : canceller[c].pc = "schedule"
    /\ runner.pc = "check" => kind = "playbook"
    /\ remote.state # "none" => runner.pc \in {"rpc", "fail", "failresults", "done"}
    /\ remote.state # "reported" => remote.deliveries = 0

\* Only a playbook looks for a cancellation before its upload.
LEMMA RunnerCheck ==
    ASSUME TypeOK, RunnerStep \/ DispatchFails \/ SubmitAnswered \/ SubmitFails
    PROVE  runner'.pc = "check" => kind = "playbook"
<1>1. CASE PrepareSave
  BY <1>1, GotoFields DEF PrepareSave, TypeOK, Kind
<1>2. CASE \/ Dispatch \/ PrepareRead \/ FinishEmpty \/ PlaybookCheck \/ PlaybookRecheck \/ Submit
           \/ DispatchFails \/ SubmitAnswered \/ SubmitFails
  BY <1>2, GotoFields DEF Dispatch, PrepareRead, FinishEmpty, PlaybookCheck, PlaybookRecheck, Submit,
       DispatchFails, SubmitAnswered, SubmitFails
<1>3. CASE \/ SubmitBatch \/ FinalizeResults \/ FinalizeStatus \/ FinalizeNotify
           \/ FailStatus \/ FailResults \/ RejectResults \/ RejectStatus
  BY <1>3, GotoFields DEF SubmitBatch, FinalizeResults, FinalizeStatus, FinalizeNotify, FailStatus, FailResults,
       RejectResults, RejectStatus
<1>4. CASE BatchEnd \/ FinalizeRefresh \/ FinalizeCounts
  BY <1>4 DEF BatchEnd, FinalizeRefresh, FinalizeCounts, TypeOK, Runner
<1> QED
  BY <1>1, <1>2, <1>3, <1>4 DEF RunnerStep

LEMMA RunnerWriter ==
    ASSUME TypeOK, WriterOK, RunnerStep \/ DispatchFails \/ SubmitAnswered \/ SubmitFails
    PROVE  WriterOK'
<1>0. /\ UNCHANGED <<kind, handler, canceller, finalizer>>
      /\ Moves \/ GivesUp \/ Saves \/ Tells \/ Submits \/ Starts \/ Ends
      /\ runner'.pc = "check" => kind = "playbook"
      /\ db.status \in Status
      /\ remote \in [state : {"none", "accepted", "reported"}, wellformed : BOOLEAN,
                     results : Results, deliveries : Nat]
  BY RunnerEffect, RunnerCheck DEF TypeOK, Row
<1>1. CASE Moves
  <2>1. UNCHANGED <<db, remote>>
    BY <1>1 DEF Moves
  <2>2. /\ runner'.pc \in Before => runner.pc \in Before
        /\ runner'.pc \notin {"notify", "failresults", "rpc"}
        /\ runner'.pc = "done" => \/ runner.pc = "rpc"
                                  \/ db.status = "cancelled"
                                  \/ db.status = "cancelling" /\ runner.pc \in {"queued", "check"}
        /\ runner.pc \in {"rpc", "fail", "failresults", "done"} => runner'.pc = "done"
    BY <1>1 DEF Moves, Before, Busy, is_cancelled, CancelStates
  <2> QED
    BY <1>0, <2>1, <2>2 DEF WriterOK, StartedOK, CasStarted, ReportPending, Before
<1>2. CASE GivesUp
  BY <1>0, <1>2 DEF GivesUp, WriterOK, StartedOK, CasStarted, Before, Busy, ReportPending
<1>3. CASE Saves
  <2>1. remote' = remote /\ db'.status = db.status
    BY <1>3 DEF Saves
  <2>2. /\ runner'.pc \notin Before \cup {"notify", "failresults", "rpc"}
        /\ runner'.pc = "done" => runner.pc = "failresults"
        /\ runner.pc \in {"rpc", "fail", "failresults", "done"} => runner'.pc = "done"
    BY <1>3 DEF Saves, Before, Busy
  <2> QED
    BY <1>0, <2>1, <2>2 DEF WriterOK, StartedOK, CasStarted, ReportPending, TERMINAL_STATES
<1>4. CASE Tells
  BY <1>0, <1>4 DEF Tells, TERMINAL_STATES, WriterOK, StartedOK, CasStarted, Before, Busy, ReportPending
<1>5. CASE Submits
  BY <1>0, <1>5 DEF Submits, WriterOK, StartedOK, CasStarted, Before, Busy, ReportPending
<1>6. CASE Starts
  BY <1>0, <1>6 DEF Starts, WriterOK, StartedOK, CasStarted, Before, Busy, ReportPending
<1>7. CASE Ends
  <2>1. /\ remote' = remote /\ db'.status \in {"success", "failed", "cancelled"}
        /\ runner'.pc \in {"notify", "failresults", "done"}
        /\ runner.pc \in {"rpc", "fail", "failresults", "done"} => runner'.pc = "failresults"
    BY <1>7 DEF Ends, Busy, TERMINAL_STATES
  <2> QED
    BY <1>0, <2>1 DEF WriterOK, StartedOK, CasStarted, Before, TERMINAL_STATES
<1> QED
  BY <1>0, <1>1, <1>2, <1>3, <1>4, <1>5, <1>6, <1>7

LEMMA CancelWriter ==
    ASSUME TypeOK, CasOK, WriterOK, NEW c \in Canceller, CancelRead(c) \/ CancelStep(c) \/ CancelScheduleFails(c)
    PROVE  WriterOK'
<1>0. canceller \in [Canceller -> [pc : {"idle", "cas", "schedule", "notify", "done"}, status_now : Status]]
  BY DEF TypeOK
<1>1. CASE CancelRead(c)
  <2>1. UNCHANGED <<kind, db, runner, remote, handler, finalizer>> /\ canceller[c].pc = "idle"
    BY <1>1 DEF CancelRead
  <2>2. /\ \A d \in Canceller \ {c} : canceller'[d] = canceller[d]
        /\ canceller'[c].status_now = db.status
    BY <1>0, <1>1 DEF CancelRead
  <2>3. CasStarted'
    BY <2>1, <2>2 DEF WriterOK, CasStarted, StartedOK
  <2>4. (\E d \in Canceller : canceller[d].pc = "schedule") => \E d \in Canceller : canceller'[d].pc = "schedule"
    BY <2>1, <2>2
  <2> QED
    BY <2>1, <2>3, <2>4 DEF WriterOK, StartedOK, ReportPending
<1>2. CASE CancelNotify(c)
  <2>1. UNCHANGED <<kind, db, runner, remote, handler, finalizer>> /\ canceller[c].pc = "notify"
    BY <1>2 DEF CancelNotify
  <2>2. /\ \A d \in Canceller \ {c} : canceller'[d] = canceller[d]
        /\ canceller'[c].pc = "done"
    BY <1>0, <1>2 DEF CancelNotify
  <2>3. CasStarted'
    BY <2>1, <2>2 DEF WriterOK, CasStarted
  <2>4. (\E d \in Canceller : canceller[d].pc = "schedule") => \E d \in Canceller : canceller'[d].pc = "schedule"
    BY <2>1, <2>2
  <2> QED
    BY <2>1, <2>3, <2>4 DEF WriterOK, StartedOK, ReportPending
<1>3. CASE CancelCas(c)
  <2>1. /\ UNCHANGED <<kind, remote, handler, finalizer>>
        /\ UNCHANGED runner \/ (runner.pc = "queued" /\ runner'.pc = "done")
        /\ canceller[c].pc = "cas"
        /\ \A d \in Canceller \ {c} : canceller'[d] = canceller[d]
        /\ Misses(c) \/ CancelsPending(c) \/ CancelsRunning(c)
    BY <1>3, CancelEffect
  <2>2. CasStarted'
    BY <2>1 DEF WriterOK, CasStarted, Before, Misses, CancelsPending, CancelsRunning
  <2>0. (\E d \in Canceller : canceller[d].pc = "schedule") => \E d \in Canceller : canceller'[d].pc = "schedule"
    BY <2>1
  <2>3. CASE Misses(c)
    <3>1. canceller[c].pc = "cas" /\ canceller[c].status_now \in {"pending", "running"}
      BY <1>3 DEF CancelCas, CasOK
    <3>2. runner' # runner => db.status \notin {"pending", "running", "cancelling"}
      BY <2>1, <2>3, <3>1 DEF Misses, WriterOK, CasStarted, StartedOK, Before
    <3> QED
      BY <2>0, <2>1, <2>2, <2>3, <3>2 DEF Misses, WriterOK, StartedOK, ReportPending, Before
  <2>4. CASE CancelsPending(c)
    BY <2>1, <2>2, <2>4 DEF CancelsPending, WriterOK, StartedOK, ReportPending, TERMINAL_STATES
  <2>5. CASE CancelsRunning(c)
    <3>1. runner' = runner
      BY <2>1, <2>5 DEF CancelsRunning, WriterOK, StartedOK, Before
    <3> QED
      BY <2>1, <2>2, <2>5, <3>1 DEF CancelsRunning, WriterOK, StartedOK, ReportPending, TERMINAL_STATES
  <2> QED
    BY <2>1, <2>3, <2>4, <2>5
<1>4. CASE CancelSchedule(c) \/ CancelScheduleFails(c)
  <2>1. /\ UNCHANGED <<kind, db, runner, remote, handler>>
        /\ canceller'[c].pc \in {"notify", "done"}
        /\ \A d \in Canceller \ {c} : canceller'[d] = canceller[d]
        /\ finalizer'.pc \in {"armed", "refused"}
    BY <1>4, ScheduleEffect
  <2>2. CasStarted'
    BY <2>1 DEF WriterOK, CasStarted
  <2> QED
    BY <2>1, <2>2 DEF WriterOK, StartedOK, ReportPending
<1> QED
  BY <1>1, <1>2, <1>3, <1>4 DEF CancelStep

LEMMA OthersWriter ==
    ASSUME TypeOK, WriterOK,
           \/ \E t \in Target : ThreadStep(t) \/ ThreadAnswer(t)
           \/ ExecutorStep
           \/ \E h \in Handler : CallbackSave(h)
           \/ FinalizerStep
           \/ UNCHANGED vars
    PROVE  WriterOK'
<1>1. ASSUME NEW t \in Target, ThreadStep(t) \/ ThreadAnswer(t) PROVE WriterOK'
  BY <1>1, ThreadEffect DEF WriterOK, StartedOK, CasStarted, ReportPending
<1>2. CASE ReportReady
  BY <1>2, ReportEffect DEF WriterOK, StartedOK, CasStarted, ReportPending
<1>3. ASSUME NEW h \in Handler, CallbackRead(h) PROVE WriterOK'
  <2>1. /\ UNCHANGED <<kind, db, runner, canceller, finalizer>>
        /\ remote.state = "reported" /\ remote'.state = "reported"
        /\ \A g \in Handler \ {h} : handler'[g] = handler[g]
        /\ db.status \notin TERMINAL_STATES => handler'[h].pc = "save"
    BY <1>3, DeliveryEffect
  <2>2. db.status \in {"pending", "running", "cancelling"} => ReportPending'
    BY <2>1 DEF TERMINAL_STATES, ReportPending
  <2> QED
    BY <2>1, <2>2 DEF WriterOK, StartedOK, CasStarted
<1>4. ASSUME NEW h \in Handler, CallbackSave(h) PROVE WriterOK'
  <2>1. UNCHANGED <<kind, runner, remote, canceller, finalizer>> /\ db'.status \in {"success", "failed", "cancelled"}
    BY <1>4, CallbackEffect DEF TERMINAL_STATES
  <2> QED
    BY <2>1 DEF WriterOK, StartedOK, CasStarted, TERMINAL_STATES
<1>5. CASE FinalizerStep
  <2>1. UNCHANGED <<kind, runner, remote, handler, canceller>> /\ (Forces \/ Stands \/ Loads \/ Fills)
    BY <1>5, FinalizerEffect
  <2> QED
    BY <2>1 DEF Forces, Stands, Loads, Fills, WriterOK, StartedOK, CasStarted, ReportPending, TERMINAL_STATES
<1>6. CASE UNCHANGED vars
  BY <1>6 DEF vars, WriterOK, StartedOK, CasStarted, ReportPending
<1> QED
  BY <1>1, <1>2, <1>3, <1>4, <1>5, <1>6 DEF ExecutorStep

LEMMA InitWriter == Init => WriterOK
BY DEF Init, WriterOK, StartedOK, CasStarted

LEMMA NextWriter == TypeInv /\ WriterOK /\ [Next]_vars => WriterOK'
<1> SUFFICES ASSUME TypeInv, WriterOK, [Next]_vars PROVE WriterOK'
  OBVIOUS
<1>1. TypeOK /\ CasOK
  BY DEF TypeInv
<1> QED
  BY <1>1, RunnerWriter, CancelWriter, OthersWriter DEF Next

\* While a job is not finished somebody is left to finish it: its runner, the
\* executor's report or, for a cancelling job, the scheduled finalizer, whatever
\* is revoked, refused or lost and however requests interleave.  If the broker
\* refuses the finalizer, the runner or the report is left, save for a playbook.
THEOREM NoJobIsOrphaned == Spec => []UnfinishedHasWriter
<1>1. WriterOK => UnfinishedHasWriter
  BY DEF WriterOK, UnfinishedHasWriter, Abandoned
<1> QED
  BY <1>1, InitWriter, InitTyped, NextTyped, NextWriter, PTL DEF Spec

-----------------------------------------------------------------------------
(* Jobs whose submission is answered.  When the executor accepts a job and  *)
(* the answer is lost, the runner writes FAILED beside what the handlers    *)
(* save; every other job, and every job while submissions are answered, has *)
(* one writer at a time, which is what the rest rests on.                   *)

\* It is about a behaviour's first state: neither Faults nor kind ever changes.
Answered == "rpc" \notin Faults \/ kind \notin {"ansible", "playbook"}

KindOK ==
    /\ kind \notin {"ansible", "playbook"} => runner.pc \notin {"check", "recheck", "submit", "rpc"}
    /\ kind # "empty" => runner.pc # "empty"

\* Once the executor has the job the runner writes no more, and a handler
\* saves a report that is there.
RemoteOK ==
    /\ remote.state # "none" => runner.pc \in {"rpc", "done"} /\ dispatched = Target
    /\ remote.state = "reported" => remote.results \in [Target -> {"success", "failed"}]
    /\ \A h \in Handler : handler[h].pc = "save" => remote.state = "reported"

AnsweredInv == Answered /\ KindOK /\ RemoteOK

LEMMA RunnerKind ==
    ASSUME TypeOK, KindOK, RunnerStep \/ DispatchFails \/ SubmitAnswered \/ SubmitFails
    PROVE  KindOK'
<1>0. kind' = kind /\ kind \in Kind /\ runner \in Runner
  BY RunnerEffect DEF TypeOK
<1>1. CASE PrepareSave
  BY <1>0, <1>1, GotoFields DEF PrepareSave, KindOK, Kind
<1>2. CASE PlaybookCheck \/ PlaybookRecheck \/ Submit \/ SubmitAnswered \/ SubmitFails
  <2>1. runner.pc \in {"check", "recheck", "submit", "rpc"} /\ runner'.pc # "empty"
    BY <1>2, GotoFields DEF PlaybookCheck, PlaybookRecheck, Submit, SubmitAnswered, SubmitFails
  <2> QED
    BY <1>0, <2>1 DEF KindOK
<1>3. CASE Dispatch \/ PrepareRead \/ DispatchFails \/ FinishEmpty \/ FailStatus \/ FailResults
           \/ RejectResults \/ RejectStatus
  <2>1. runner'.pc \in {"queued", "prepare", "failresults", "rejectstatus", "done"}
    BY <1>3, GotoFields DEF Dispatch, PrepareRead, DispatchFails, FinishEmpty, FailStatus, FailResults,
         RejectResults, RejectStatus
  <2> QED
    BY <1>0, <2>1 DEF KindOK
<1>4. CASE SubmitBatch \/ BatchEnd \/ FinalizeResults \/ FinalizeRefresh \/ FinalizeCounts
           \/ FinalizeStatus \/ FinalizeNotify
  <2>1. runner'.pc \in {"batch", "wait", "results", "refresh", "count", "status", "notify", "done"}
    BY <1>0, <1>4, GotoFields DEF SubmitBatch, BatchEnd, FinalizeResults, FinalizeRefresh, FinalizeCounts,
         FinalizeStatus, FinalizeNotify, Runner
  <2> QED
    BY <1>0, <2>1 DEF KindOK
<1> QED
  BY <1>1, <1>2, <1>3, <1>4 DEF RunnerStep

LEMMA RunnerAnswered ==
    ASSUME TypeOK, AnsweredInv, RunnerStep \/ DispatchFails \/ SubmitAnswered \/ SubmitFails
    PROVE  AnsweredInv' /\ ~GivesUp
<1>0. /\ UNCHANGED <<kind, handler>>
      /\ Moves \/ GivesUp \/ Saves \/ Tells \/ Submits \/ Starts \/ Ends
      /\ dispatched \in SUBSET Target
      /\ remote \in [state : {"none", "accepted", "reported"}, wellformed : BOOLEAN,
                     results : Results, deliveries : Nat]
  BY RunnerEffect DEF TypeOK
<1>1. Answered' /\ KindOK'
  BY <1>0, RunnerKind DEF AnsweredInv, Answered
<1>2. ~GivesUp
  BY DEF AnsweredInv, Answered, KindOK, GivesUp
<1>3. dispatched' = dispatched \/ (Submit /\ dispatched' = Target)
  BY <1>0 DEF RunnerStep, Dispatch, PrepareRead, PrepareSave, FinishEmpty, SubmitBatch, BatchEnd, FinalizeResults,
       FinalizeRefresh, FinalizeCounts, FinalizeStatus, FinalizeNotify, PlaybookCheck, PlaybookRecheck, Submit,
       FailStatus, FailResults, RejectResults, RejectStatus, DispatchFails, SubmitAnswered, SubmitFails, StartOn
<1>4. CASE Submit
  <2>1. /\ runner.pc = "submit" /\ runner'.pc = "rpc" /\ dispatched' = Target
        /\ remote' = [remote EXCEPT !.state = "accepted"]
    BY <1>0, <1>4, GotoFields DEF Submit, StartOn
  <2>2. remote.state = "none"
    BY <2>1 DEF AnsweredInv, RemoteOK
  <2>3. RemoteOK'
    BY <1>0, <2>1, <2>2 DEF AnsweredInv, RemoteOK
  <2> QED
    BY <1>1, <1>2, <2>3 DEF AnsweredInv
<1>5. CASE ~Submit
  <2>1. remote' = remote /\ dispatched' = dispatched
    <3>1. remote' = remote
      BY <1>5 DEF RunnerStep, Dispatch, PrepareRead, PrepareSave, FinishEmpty, SubmitBatch, BatchEnd,
         FinalizeResults, FinalizeRefresh, FinalizeCounts, FinalizeStatus, FinalizeNotify, PlaybookCheck,
         PlaybookRecheck, FailStatus, FailResults, RejectResults, RejectStatus, DispatchFails, SubmitAnswered,
         SubmitFails
    <3> QED
      BY <1>3, <1>5, <3>1
  <2>2. runner.pc \in {"rpc", "done"} => runner'.pc = "done"
    BY <1>0, <1>2 DEF Moves, Saves, Tells, Submits, Starts, Ends, Busy
  <2>3. RemoteOK'
    BY <1>0, <2>1, <2>2 DEF AnsweredInv, RemoteOK
  <2> QED
    BY <1>1, <1>2, <2>3 DEF AnsweredInv
<1> QED
  BY <1>4, <1>5

LEMMA NextAnswered ==
    ASSUME TypeInv, AnsweredInv, [Next]_vars
    PROVE  AnsweredInv'
<1>0. TypeOK /\ CasOK
  BY DEF TypeInv
<1>1. ASSUME NEW t \in Target, ThreadStep(t) \/ ThreadAnswer(t) PROVE AnsweredInv'
  <2>1. dispatched' \in {dispatched, dispatched \cup {t}}
    BY <1>1 DEF ThreadStep, ThreadAnswer, ThreadCheck, ThreadDispatch, ThreadReturns, StartOn
  <2>2. dispatched = Target => dispatched' = Target
    BY <2>1
  <2> QED
    BY <1>0, <1>1, <2>2, ThreadEffect DEF AnsweredInv, Answered, KindOK, RemoteOK
<1>2. CASE ReportReady
  BY <1>0, <1>2, ReportEffect DEF AnsweredInv, Answered, KindOK, RemoteOK
<1>3. ASSUME NEW h \in Handler, CallbackRead(h) PROVE AnsweredInv'
  BY <1>0, <1>3, DeliveryEffect DEF AnsweredInv, Answered, KindOK, RemoteOK
<1>4. ASSUME NEW h \in Handler, CallbackSave(h) PROVE AnsweredInv'
  <2>1. /\ UNCHANGED <<kind, runner, dispatched, remote>> /\ handler'[h].pc = "idle"
        /\ \A g \in Handler \ {h} : handler'[g] = handler[g]
    BY <1>0, <1>4, CallbackEffect
  <2> QED
    BY <2>1 DEF AnsweredInv, Answered, KindOK, RemoteOK
<1>5. ASSUME NEW c \in Canceller, CancelRead(c) \/ CancelStep(c) \/ CancelScheduleFails(c) PROVE AnsweredInv'
  <2>1. CASE CancelCas(c)
    <3>1. /\ UNCHANGED <<kind, dispatched, remote, handler>>
          /\ UNCHANGED runner \/ (runner.pc = "queued" /\ runner'.pc = "done")
      BY <1>0, <2>1, CancelEffect
    <3> QED
      BY <3>1 DEF AnsweredInv, Answered, KindOK, RemoteOK
  <2>2. CASE CancelRead(c) \/ CancelNotify(c) \/ CancelSchedule(c) \/ CancelScheduleFails(c)
    <3>1. UNCHANGED <<kind, runner, dispatched, remote, handler>>
      BY <2>2 DEF CancelRead, CancelNotify, CancelSchedule, CancelScheduleFails
    <3> QED
      BY <3>1 DEF AnsweredInv, Answered, KindOK, RemoteOK
  <2> QED
    BY <1>5, <2>1, <2>2 DEF CancelStep
<1>6. CASE FinalizerStep
  <2>1. UNCHANGED <<kind, runner, dispatched, remote, handler>>
    BY <1>0, <1>6, FinalizerEffect
  <2> QED
    BY <2>1 DEF AnsweredInv, Answered, KindOK, RemoteOK
<1>7. CASE UNCHANGED vars
  BY <1>7 DEF vars, AnsweredInv, Answered, KindOK, RemoteOK
<1> QED
  BY <1>0, <1>1, <1>2, <1>3, <1>4, <1>5, <1>6, <1>7, RunnerAnswered DEF Next, ExecutorStep

LEMMA InitAnswered == Init /\ Answered => AnsweredInv
BY DEF Init, AnsweredInv, KindOK, RemoteOK

-----------------------------------------------------------------------------
(* Jobs that nobody cancels: one final status, and what the caller hears    *)

\* What the executor's report makes of a job that is not being cancelled.
ReportVerdict ==
    IF remote.wellformed /\ Count(remote.results, "failed") = 0 THEN "success" ELSE "failed"

Quiet ==
    /\ db.status \notin CancelStates
    /\ runner.status \notin CancelStates
    /\ finalizer.pc = "off"
    /\ \A h \in Handler : handler[h].pc = "save" => ~handler[h].was_cancelling
    /\ \A c \in Canceller : canceller[c].pc \notin {"schedule", "notify"}
    /\ runner.pc \in Before => db.status = "pending" /\ notices = {}
    /\ runner.pc \in Busy => db.status = "running" /\ notices = {}
    /\ remote.state # "none" =>
          \/ db.status = "running" /\ notices = {}
          \/ remote.state = "reported" /\ db.status = ReportVerdict /\ db.results = remote.results
    /\ notices \subseteq {db.status}

QuietOK == cancel.from = "no" => Quiet

\* A cancellation that took effect is not forgotten, and what a step does to a
\* job that is not cancelled.
QuietStep ==
    cancel'.from = "no" =>
        /\ cancel.from = "no"
        /\ Quiet'
        /\ db.status \in TERMINAL_STATES =>
              /\ db'.status = db.status
              /\ runner.pc # "failresults" => db'.results = db.results

LEMMA RunnerQuiet ==
    ASSUME TypeOK, AnsweredInv, QuietOK, RunnerStep \/ DispatchFails \/ SubmitAnswered \/ SubmitFails
    PROVE  QuietStep
<1>0. /\ UNCHANGED <<kind, handler, canceller, finalizer>>
      /\ cancel'.from = cancel.from
      /\ runner'.status \in {runner.status, db.status}
      /\ Moves \/ Saves \/ Tells \/ Submits \/ Starts \/ Ends
  BY RunnerEffect, RunnerAnswered
<1> SUFFICES ASSUME cancel'.from = "no", Quiet
             PROVE  /\ Quiet'
                    /\ db.status \in TERMINAL_STATES =>
                          /\ db'.status = db.status
                          /\ runner.pc # "failresults" => db'.results = db.results
  BY <1>0 DEF QuietOK, QuietStep
<1>1. /\ runner'.status \notin CancelStates
      /\ finalizer'.pc = "off"
      /\ \A h \in Handler : handler'[h].pc = "save" => ~handler'[h].was_cancelling
      /\ \A c \in Canceller : canceller'[c].pc \notin {"schedule", "notify"}
  BY <1>0 DEF Quiet
<1>2. remote.state # "none" => runner.pc \in {"rpc", "done"}
  BY DEF AnsweredInv, RemoteOK
<1>3. CASE Moves
  <2>1. UNCHANGED <<db, remote, notices>>
    BY <1>3 DEF Moves
  <2>2. ReportVerdict' = ReportVerdict
    BY <2>1 DEF ReportVerdict, Count
  <2>3. /\ runner'.pc \in Before => runner.pc \in Before
        /\ runner'.pc \in Busy => runner.pc \in Busy
    BY <1>3 DEF Moves, Before, Busy
  <2> QED
    BY <1>1, <2>1, <2>2, <2>3 DEF Quiet
<1>4. CASE Saves
  <2>1. UNCHANGED <<remote, notices>> /\ db'.status = db.status
    BY <1>4 DEF Saves
  <2>2. /\ remote.state = "none"
        /\ runner'.pc \notin Before
        /\ runner'.pc \in Busy => runner.pc \in Busy
        /\ runner.pc # "failresults" => runner.pc \in Busy
    BY <1>2, <1>4 DEF Saves, Before, Busy
  <2>3. runner.pc \in Busy => db.status \notin TERMINAL_STATES
    BY DEF Quiet, TERMINAL_STATES
  <2> QED
    BY <1>1, <2>1, <2>2, <2>3 DEF Quiet
<1>5. CASE Tells
  BY <1>1, <1>2, <1>5 DEF Tells, Quiet, Before, Busy
<1>6. CASE Submits
  <2>1. UNCHANGED <<db, notices>> /\ db.status = "running" /\ notices = {} /\ runner'.pc = "rpc"
    BY <1>6 DEF Submits, Quiet, Busy
  <2> QED
    BY <1>1, <2>1 DEF Quiet, Before, Busy
<1>7. CASE Starts
  <2>1. /\ UNCHANGED <<remote, notices>> /\ db'.status = "running" /\ runner'.pc \in Busy
        /\ db.status = "pending" /\ notices = {}
    BY <1>7 DEF Starts, Quiet, Before
  <2> QED
    BY <1>1, <2>1 DEF Quiet, Before, Busy, CancelStates, TERMINAL_STATES
<1>8. CASE Ends
  <2>1. /\ UNCHANGED <<remote, notices>> /\ remote.state = "none"
        /\ runner'.pc \notin Before \cup Busy
        /\ db'.status \notin CancelStates
        /\ db.status \in {"pending", "running"} /\ notices = {}
    BY <1>2, <1>8 DEF Ends, Quiet, Before, Busy
  <2> QED
    BY <1>1, <2>1 DEF Quiet, TERMINAL_STATES
<1> QED
  BY <1>0, <1>3, <1>4, <1>5, <1>6, <1>7, <1>8

LEMMA NextQuiet ==
    ASSUME TypeInv, AnsweredInv, QuietOK, [Next]_vars
    PROVE  QuietStep
<1>0. TypeOK /\ CasOK
  BY DEF TypeInv
<1>1. ASSUME cancel'.from = cancel.from, UNCHANGED <<db, remote, handler, finalizer, notices>>,
             runner'.status = runner.status, runner'.pc = runner.pc \/ runner'.pc = "done",
             \A c \in Canceller : canceller[c].pc \notin {"schedule", "notify"} =>
                                      canceller'[c].pc \notin {"schedule", "notify"}
      PROVE  QuietStep
  <2>1. ReportVerdict' = ReportVerdict
    BY <1>1 DEF ReportVerdict, Count
  <2> QED
    BY <1>1, <2>1 DEF QuietStep, QuietOK, Quiet, Before, Busy
<1>2. ASSUME NEW t \in Target, ThreadStep(t) \/ ThreadAnswer(t) PROVE QuietStep
  BY <1>0, <1>1, <1>2, ThreadEffect
<1>3. CASE ReportReady
  <2>1. /\ UNCHANGED <<db, runner, handler, canceller, finalizer, notices, cancel>>
        /\ remote.state = "accepted" /\ remote'.state = "reported"
    BY <1>0, <1>3, ReportEffect
  <2> QED
    BY <2>1 DEF QuietStep, QuietOK, Quiet
<1>4. ASSUME NEW h \in Handler, CallbackRead(h) PROVE QuietStep
  <2>1. /\ UNCHANGED <<db, runner, canceller, finalizer, notices, cancel>>
        /\ remote'.state = remote.state /\ remote'.wellformed = remote.wellformed
        /\ remote'.results = remote.results
    BY <1>0, <1>4, DeliveryEffect
  <2>2. ReportVerdict' = ReportVerdict
    BY <2>1 DEF ReportVerdict, Count
  <2>3. ASSUME db.status \notin CancelStates, NEW g \in Handler, handler'[g].pc = "save",
               \A f \in Handler : handler[f].pc = "save" => ~handler[f].was_cancelling
        PROVE  ~handler'[g].was_cancelling
    <3>1. /\ \A f \in Handler \ {h} : handler'[f] = handler[f]
          /\ IF db.status \in TERMINAL_STATES THEN UNCHANGED handler
             ELSE handler'[h] = [pc |-> "save", was_cancelling |-> db.status = "cancelling"]
      BY <1>0, <1>4, DeliveryEffect
    <3>2. db.status # "cancelling"
      BY <2>3 DEF CancelStates
    <3>3. handler' = handler \/ handler'[h] = [pc |-> "save", was_cancelling |-> FALSE]
      BY <3>1, <3>2
    <3> QED
      BY <2>3, <3>1, <3>3
  <2> QED
    BY <2>1, <2>2, <2>3 DEF QuietStep, QuietOK, Quiet
<1>5. ASSUME NEW h \in Handler, CallbackSave(h) PROVE QuietStep
  <2>1. /\ UNCHANGED <<runner, remote, canceller, finalizer, cancel>>
        /\ handler[h].pc = "save" /\ handler'[h].pc = "idle"
        /\ \A g \in Handler \ {h} : handler'[g] = handler[g]
        /\ db'.status = CallbackStatus(h) /\ db'.results = remote.results
        /\ notices' = notices \cup {CallbackStatus(h)}
    BY <1>0, <1>5, CallbackEffect
  <2>2. remote.state = "reported" /\ runner.pc \in {"rpc", "done"}
    BY <2>1 DEF AnsweredInv, RemoteOK
  <2>3. ReportVerdict' = ReportVerdict /\ ReportVerdict \in {"success", "failed"}
    BY <2>1 DEF ReportVerdict, Count
  <2>4. ~handler[h].was_cancelling => CallbackStatus(h) = ReportVerdict
    <3>1. Count(remote.results, "failed") \in Nat
      BY CountTyped
    <3> QED
      BY <3>1 DEF CallbackStatus, ReportVerdict
  <2>5. ASSUME Quiet
        PROVE  /\ Quiet'
               /\ db.status \in TERMINAL_STATES => db'.status = db.status /\ db'.results = db.results
    <3>1. CallbackStatus(h) = ReportVerdict
      BY <2>1, <2>4, <2>5 DEF Quiet
    <3>2. (db.status = "running" /\ notices = {}) \/ (db.status = ReportVerdict /\ db.results = remote.results)
      BY <2>2, <2>5 DEF Quiet
    <3>3. Quiet'
      BY <2>1, <2>2, <2>3, <2>5, <3>1, <3>2 DEF Quiet, Before, Busy, CancelStates
    <3> QED
      BY <2>1, <3>1, <3>2, <3>3 DEF TERMINAL_STATES
  <2> QED
    BY <2>1, <2>5 DEF QuietStep, QuietOK
<1>6. ASSUME NEW c \in Canceller, CancelRead(c) \/ CancelStep(c) \/ CancelScheduleFails(c) PROVE QuietStep
  <2>0. canceller \in [Canceller -> [pc : {"idle", "cas", "schedule", "notify", "done"}, status_now : Status]]
    BY <1>0 DEF TypeOK
  <2>1. CASE CancelRead(c)
    <3>1. \A d \in Canceller : canceller[d].pc \notin {"schedule", "notify"} => canceller'[d].pc \notin {"schedule", "notify"}
      BY <2>0, <2>1 DEF CancelRead
    <3> QED
      BY <1>1, <2>1, <3>1 DEF CancelRead
  <2>2. CASE CancelNotify(c)
    BY <2>2 DEF CancelNotify, QuietStep, QuietOK, Quiet
  <2>3. CASE CancelCas(c)
    <3>1. /\ UNCHANGED <<remote, handler, finalizer, notices>>
          /\ runner'.status = runner.status
          /\ runner'.pc = runner.pc \/ runner'.pc = "done"
          /\ \A d \in Canceller \ {c} : canceller'[d] = canceller[d]
          /\ Misses(c) \/ CancelsPending(c) \/ CancelsRunning(c)
      BY <1>0, <2>3, CancelEffect
    <3>2. CASE Misses(c)
      BY <1>1, <3>1, <3>2 DEF Misses
    <3>3. CASE CancelsPending(c) \/ CancelsRunning(c)
      BY <3>3 DEF CancelsPending, CancelsRunning, QuietStep
    <3> QED
      BY <3>1, <3>2, <3>3
  <2>4. CASE CancelSchedule(c) \/ CancelScheduleFails(c)
    BY <1>0, <2>4, ScheduleEffect DEF QuietStep, QuietOK, Quiet
  <2> QED
    BY <1>6, <2>1, <2>2, <2>3, <2>4 DEF CancelStep
<1>7. CASE FinalizerStep
  <2>1. UNCHANGED cancel /\ finalizer.pc # "off"
    BY <1>0, <1>7, FinalizerEffect DEF Forces, Stands, Loads, Fills
  <2> QED
    BY <2>1 DEF QuietStep, QuietOK, Quiet
<1>8. CASE UNCHANGED vars
  BY <1>1, <1>8 DEF vars
<1> QED
  BY <1>0, <1>2, <1>3, <1>4, <1>5, <1>6, <1>7, <1>8, RunnerQuiet DEF Next, ExecutorStep

LEMMA InitQuiet == Init => QuietOK
BY DEF Init, QuietOK, Quiet, Before, Busy, CancelStates

LEMMA QuietInvariance == Spec /\ Answered => [](TypeInv /\ AnsweredInv /\ QuietOK)
<1>1. TypeInv /\ AnsweredInv /\ QuietOK /\ [Next]_vars => QuietOK'
  BY NextQuiet DEF QuietStep, QuietOK
<1>2. TypeInv /\ AnsweredInv /\ [Next]_vars => AnsweredInv'
  BY NextAnswered
<1> QED
  BY <1>1, <1>2, InitTyped, NextTyped, InitAnswered, InitQuiet, PTL DEF Spec

\* The caller of a job that nobody cancels hears nothing but the status the job
\* has for good, however often and to how many handlers the report is delivered,
\* if submissions are answered or the job is not submitted to the executor.
THEOREM NoticesAlwaysAgree == Spec /\ Answered => []NoticesAgree
<1>1. QuietOK => NoticesAgree
  BY DEF QuietOK, Quiet, NoticesAgree
<1> QED
  BY <1>1, QuietInvariance, PTL

\* Under the same condition the final status of such a job and its results are
\* never written again.
THEOREM FinalIsStable == Spec /\ Answered => TerminalStable
<1> DEFINE Stable == db.status \in TERMINAL_STATES /\ cancel'.from = "no" =>
                        /\ db'.status = db.status
                        /\ runner.pc # "failresults" => db'.results = db.results
<1>1. TypeInv /\ AnsweredInv /\ QuietOK /\ [Next]_vars => [Stable]_vars
  BY NextQuiet DEF QuietStep
<1> HIDE DEF Stable
<1>2. Spec /\ Answered => [][Stable]_vars
  BY <1>1, QuietInvariance, PTL DEF Spec
<1> QED
  BY <1>2 DEF Stable, TerminalStable

-----------------------------------------------------------------------------
(* Success is honest.  The argument follows the results from the threads    *)
(* to the row: what a thread reports, what the joined pool leaves behind,   *)
(* and that only a runner that holds a cancellation can be overtaken by the *)
(* finalizer on the way.                                                    *)

\* The runner is between the first batch and its final status.
Collecting == {"batch", "wait", "results", "refresh", "count", "status"}

AllReported(r) == \A t \in Target : r[t] \in {"success", "failed"}

LEMMA AllSucceed ==
    ASSUME NEW r, AllReported(r), Count(r, "failed") = 0
    PROVE  (\A t \in Target : r[t] = "success") /\ Count(r, "success") = NTargets
<1>1. IsFiniteSet(Target) /\ Cardinality(Target) = NTargets
  BY FS_Interval, ConstantsAssumption DEF Target
<1>2. IsFiniteSet({t \in Target : r[t] = "failed"})
  BY <1>1, FS_Subset
<1>3. {t \in Target : r[t] = "failed"} = {}
  BY <1>2, FS_EmptySet DEF Count
<1>4. \A t \in Target : r[t] = "success"
  BY <1>3 DEF AllReported
<1>5. {t \in Target : r[t] = "success"} = Target
  BY <1>4
<1> QED
  BY <1>1, <1>4, <1>5 DEF Count

\* Batches follow each other without a gap, and the last one ends the list.
LEMMA BatchBounds ==
    ASSUME NEW b \in Nat, NEW t \in Target
    PROVE  /\ t \in Batch(b) => t > (b - 1) * MaxWorkers
           /\ t <= b * MaxWorkers => t <= (b - 1) * MaxWorkers \/ t \in Batch(b)
           /\ b * MaxWorkers >= NTargets => t <= b * MaxWorkers
           /\ b * MaxWorkers \in Int /\ (b - 1) * MaxWorkers \in Int
<1>1. MaxWorkers \in Nat /\ NTargets \in Nat /\ t \in Nat /\ t <= NTargets
  BY ConstantsAssumption DEF Target
<1>2. b * MaxWorkers \in Int /\ (b - 1) * MaxWorkers \in Int
  BY <1>1
<1> DEFINE hi == b * MaxWorkers
           lo == (b - 1) * MaxWorkers
<1>3. t \in Batch(b) <=> lo < t /\ t <= hi
  BY DEF Batch
<1>4. hi \in Int /\ lo \in Int
  BY <1>2
<1> HIDE DEF hi, lo
<1>5. /\ t \in Batch(b) => t > lo
      /\ t <= hi => t <= lo \/ t \in Batch(b)
      /\ hi >= NTargets => t <= hi
  BY <1>1, <1>3, <1>4
<1> QED
  BY <1>2, <1>5 DEF hi, lo

Fresh ==
    runner.pc \in Before =>
        runner.batch = 1 /\ runner.results = NoResults /\ \A t \in Target : thread[t] = "idle"

\* Threads of the pool belong to the current batch; the earlier batches were
\* joined, and a joined thread left a result.
PoolOK ==
    \A t \in Target :
        /\ thread[t] \notin {"idle", "done"} => runner.pc = "wait" /\ t \in Batch(runner.batch)
        /\ thread[t] = "remote" => t \in dispatched
        /\ Batching /\ t <= (runner.batch - 1) * MaxWorkers => thread[t] = "done"
        /\ Batching /\ thread[t] = "done" => runner.results[t] # "none"

\* A success stands for a remote effect, wherever the result is held.
ResultsReal ==
    \A t \in Target :
        /\ runner.results[t] = "success" => t \in dispatched
        /\ db.results[t] = "success" => t \in dispatched
        /\ finalizer.results[t] = "success" => t \in dispatched

\* On the way to the row the results are complete, or the job is cancelled:
\* until the runner reads the status back in the row, then in its memory.
JoinOK ==
    /\ Batching \/ runner.pc = "results" =>
          db.status \in CancelStates \/ \A t \in Target : runner.results[t] # "cancelled"
    /\ runner.pc = "results" => db.status \in CancelStates \/ AllReported(runner.results)
    /\ runner.pc = "refresh" => db.status \in CancelStates \/ AllReported(db.results)
    /\ runner.pc \in {"count", "status"} => runner.status \in CancelStates \/ AllReported(db.results)
    /\ runner.pc = "status" =>
          \/ runner.status \in CancelStates
          \/ /\ db.success_count = Count(db.results, "success")
             /\ db.failed_count = Count(db.results, "failed")
             /\ runner.failed = db.failed_count

\* While the finalizer fills in what it forced, nobody can make it a success.
ForcedOK ==
    finalizer.pc \in {"load", "save"} =>
        /\ db.status \in {"cancelled", "failed"}
        /\ Batching \/ runner.pc \in {"results", "refresh"} => db.status = "cancelled"
        /\ runner.pc \in {"count", "status"} => runner.status \in CancelStates
        /\ runner.pc \notin Before \cup {"empty"}
        /\ \A h \in Handler : handler[h].pc = "save" => handler[h].was_cancelling

SuccessOK ==
    db.status = "success" /\ kind # "empty" => runner.pc \in {"notify", "rpc", "done"}

HonestInv ==
    Fresh /\ PoolOK /\ ResultsReal /\ JoinOK /\ ForcedOK /\ SuccessOK /\ SuccessIsHonest

\* What the runner does outside Collecting, the save of RUNNING excepted.
LEMMA AsideHonest ==
    ASSUME HonestInv, UNCHANGED <<kind, thread, handler, finalizer>>,
           runner.pc \notin Collecting, runner'.pc \notin Collecting,
           runner'.pc \in Before \cup {"empty"} => runner.pc \in Before,
           runner.pc \in {"notify", "rpc", "done"} => runner'.pc = "done",
           runner'.batch = runner.batch, runner'.results = runner.results,
           dispatched \subseteq dispatched', dispatched' \subseteq Target,
           \/ db' = db
           \/ /\ db'.status = "failed" \/ (db'.status = "success" /\ kind = "empty" /\ runner.pc = "empty")
              /\ db'.results = db.results
           \/ /\ db'.status = db.status
              /\ db'.results = AllFailed
              /\ runner.pc \in {"failresults", "reject"}
    PROVE  HonestInv'
<1>1. Fresh'
  BY DEF HonestInv, Fresh
<1>2. PoolOK'
  BY DEF HonestInv, PoolOK, Batching, Collecting
<1>3. ResultsReal'
  BY DEF HonestInv, ResultsReal, AllFailed
<1>4. JoinOK'
  BY DEF JoinOK, Batching, Collecting
<1>5. ForcedOK'
  BY DEF HonestInv, ForcedOK, Batching, Collecting
<1>6. SuccessOK'
  BY DEF HonestInv, SuccessOK
<1>7. SuccessIsHonest'
  BY DEF HonestInv, SuccessOK, SuccessIsHonest
<1> QED
  BY <1>1, <1>2, <1>3, <1>4, <1>5, <1>6, <1>7 DEF HonestInv

LEMMA RunnerAsideHonest ==
    ASSUME TypeOK, AnsweredInv, HonestInv,
           \/ Dispatch \/ PrepareRead \/ PlaybookCheck \/ PlaybookRecheck \/ Submit \/ SubmitAnswered \/ SubmitFails
           \/ DispatchFails \/ FinishEmpty \/ FailStatus \/ RejectStatus \/ FailResults \/ RejectResults
           \/ FinalizeNotify
    PROVE  HonestInv'
<1>0. dispatched \subseteq Target /\ db \in Row /\ KindOK
  BY DEF TypeOK, AnsweredInv
<1>1. CASE Dispatch \/ PrepareRead \/ PlaybookCheck \/ PlaybookRecheck \/ SubmitAnswered \/ FinalizeNotify
  <2>1. UNCHANGED <<kind, db, thread, dispatched, handler, finalizer>>
    BY <1>1 DEF Dispatch, PrepareRead, PlaybookCheck, PlaybookRecheck, SubmitAnswered, FinalizeNotify
  <2>2. runner'.batch = runner.batch /\ runner'.results = runner.results
    BY <1>1, GotoFields DEF Dispatch, PrepareRead, PlaybookCheck, PlaybookRecheck, SubmitAnswered, FinalizeNotify
  <2>3. \/ runner.pc = "new" /\ runner'.pc = "queued"
        \/ runner.pc = "queued" /\ runner'.pc \in {"done", "prepare"}
        \/ runner.pc = "check" /\ runner'.pc \in {"done", "recheck"}
        \/ runner.pc = "recheck" /\ runner'.pc \in {"fail", "submit"}
        \/ runner.pc \in {"rpc", "notify"} /\ runner'.pc = "done"
    BY <1>1, GotoFields DEF Dispatch, PrepareRead, PlaybookCheck, PlaybookRecheck, SubmitAnswered, FinalizeNotify
  <2>4. /\ runner.pc \notin Collecting /\ runner'.pc \notin Collecting
        /\ runner'.pc \in Before \cup {"empty"} => runner.pc \in Before
        /\ runner.pc \in {"notify", "rpc", "done"} => runner'.pc = "done"
    BY <2>3 DEF Collecting, Before
  <2> QED
    BY <1>0, <2>1, <2>2, <2>4, AsideHonest
<1>2. CASE Submit
  <2>1. /\ UNCHANGED <<kind, db, thread, handler, finalizer>>
        /\ dispatched' = dispatched \cup Target
        /\ runner.pc = "submit" /\ runner'.pc = "rpc"
        /\ runner'.batch = runner.batch /\ runner'.results = runner.results
    BY <1>2, GotoFields DEF Submit, StartOn
  <2> QED
    BY <1>0, <2>1, AsideHonest DEF Collecting, Before
<1>3. CASE DispatchFails \/ FinishEmpty \/ FailStatus \/ RejectStatus
  <2>1. /\ UNCHANGED <<kind, thread, dispatched, handler, finalizer>>
        /\ runner'.batch = runner.batch /\ runner'.results = runner.results
        /\ db'.results = db.results
        /\ runner'.pc \in {"failresults", "done"}
        /\ \/ runner.pc \in {"new", "fail", "rejectstatus"} /\ db'.status = "failed"
           \/ runner.pc = "empty" /\ db'.status = "success"
    BY <1>3, GotoFields, StatusFields DEF DispatchFails, FinishEmpty, FailStatus, RejectStatus
  <2>2. runner.pc = "empty" => kind = "empty"
    BY <1>0 DEF KindOK
  <2>3. /\ runner.pc \notin Collecting /\ runner'.pc \notin Collecting
        /\ runner'.pc \notin Before \cup {"empty"}
        /\ runner.pc \notin {"notify", "rpc", "done"}
    BY <2>1 DEF Collecting, Before
  <2> QED
    BY <1>0, <2>1, <2>2, <2>3, AsideHonest
<1>4. CASE FailResults \/ RejectResults
  <2>1. /\ UNCHANGED <<kind, thread, dispatched, handler, finalizer>>
        /\ runner'.batch = runner.batch /\ runner'.results = runner.results
        /\ runner.pc \in {"failresults", "reject"} /\ runner'.pc \in {"rejectstatus", "done"}
    BY <1>4, GotoFields DEF FailResults, RejectResults
  <2>2. db'.status = db.status /\ db'.results = AllFailed
    BY <1>0, <1>4 DEF FailResults, RejectResults, Row
  <2>3. /\ runner.pc \notin Collecting /\ runner'.pc \notin Collecting
        /\ runner'.pc \notin Before \cup {"empty"}
        /\ runner.pc \notin {"notify", "rpc", "done"}
    BY <2>1 DEF Collecting, Before
  <2> QED
    BY <1>0, <2>1, <2>2, <2>3, AsideHonest
<1>5. ~SubmitFails
  BY RunnerAnswered, GotoFields DEF SubmitFails, GivesUp
<1> QED
  BY <1>1, <1>2, <1>3, <1>4, <1>5

LEMMA PrepareSaveHonest ==
    ASSUME TypeOK, HonestInv, PrepareSave
    PROVE  HonestInv'
<1>0. /\ UNCHANGED <<kind, thread, dispatched, handler, finalizer>>
      /\ runner.pc = "prepare" /\ runner'.batch = runner.batch /\ runner'.results = runner.results
      /\ db'.status = "running" /\ db'.results = db.results
  BY GotoFields, StatusFields DEF PrepareSave
<1>1. runner'.pc \in {"batch", "submit", "check", "fail", "reject", "rejectstatus", "empty"}
  BY GotoFields DEF PrepareSave, TypeOK, Kind
<1>2. /\ runner.batch = 1 /\ runner.results = NoResults /\ \A t \in Target : thread[t] = "idle"
      /\ finalizer.pc \notin {"load", "save"}
  BY <1>0 DEF HonestInv, Fresh, ForcedOK, Before
<1>3. Fresh'
  BY <1>1 DEF Fresh, Before
<1>4. PoolOK'
  <2>1. \A t \in Target : ~(t <= (runner'.batch - 1) * MaxWorkers)
    BY <1>0, <1>2, ConstantsAssumption DEF Target
  <2> QED
    BY <1>0, <1>2, <2>1 DEF PoolOK
<1>5. ResultsReal'
  BY <1>0 DEF HonestInv, ResultsReal
<1>6. JoinOK'
  BY <1>0, <1>1, <1>2 DEF JoinOK, NoResults, Batching
<1>7. ForcedOK' /\ SuccessOK' /\ SuccessIsHonest'
  BY <1>0, <1>2 DEF ForcedOK, SuccessOK, SuccessIsHonest
<1> QED
  BY <1>3, <1>4, <1>5, <1>6, <1>7 DEF HonestInv

LEMMA SubmitBatchHonest ==
    ASSUME TypeOK, HonestInv, SubmitBatch
    PROVE  HonestInv'
<1>0. /\ UNCHANGED <<kind, db, dispatched, handler, finalizer>>
      /\ runner.pc = "batch" /\ runner'.pc = "wait"
      /\ runner'.batch = runner.batch /\ runner'.results = runner.results
      /\ thread' = [t \in Target |-> IF t \in Batch(runner.batch) THEN "check" ELSE thread[t]]
      /\ runner.batch \in Nat
  BY GotoFields DEF SubmitBatch, TypeOK, Runner
<1>1. Fresh' /\ JoinOK'
  BY <1>0 DEF HonestInv, Fresh, JoinOK, Batching, Before
<1>2. PoolOK'
  <2> SUFFICES ASSUME NEW t \in Target
               PROVE  /\ thread'[t] \notin {"idle", "done"} => t \in Batch(runner.batch)
                      /\ thread'[t] # "remote"
                      /\ t <= (runner.batch - 1) * MaxWorkers => thread'[t] = "done"
                      /\ thread'[t] = "done" => runner.results[t] # "none"
    BY <1>0 DEF PoolOK
  <2>1. t \in Batch(runner.batch) => ~(t <= (runner.batch - 1) * MaxWorkers)
    <3>1. (runner.batch - 1) * MaxWorkers \in Int /\ t \in Int
      BY <1>0, BatchBounds DEF Target
    <3>2. t \in Batch(runner.batch) => t > (runner.batch - 1) * MaxWorkers
      BY <1>0, BatchBounds
    <3> DEFINE lo == (runner.batch - 1) * MaxWorkers
    <3>3. lo \in Int /\ (t \in Batch(runner.batch) => t > lo)
      BY <3>1, <3>2
    <3> HIDE DEF lo
    <3>4. t \in Batch(runner.batch) => ~(t <= lo)
      BY <3>1, <3>3
    <3> QED
      BY <3>4 DEF lo
  <2>2. CASE t \in Batch(runner.batch)
    BY <1>0, <2>1, <2>2
  <2>3. CASE t \notin Batch(runner.batch)
    <3>1. thread'[t] = thread[t]
      BY <1>0, <2>3
    <3> QED
      BY <1>0, <2>3, <3>1 DEF HonestInv, PoolOK, Batching
  <2> QED
    BY <2>2, <2>3
<1>3. ResultsReal' /\ SuccessIsHonest'
  BY <1>0 DEF HonestInv, ResultsReal, SuccessIsHonest
<1>4. ForcedOK' /\ SuccessOK'
  BY <1>0 DEF HonestInv, ForcedOK, SuccessOK, Batching, Before
<1> QED
  BY <1>1, <1>2, <1>3, <1>4 DEF HonestInv

\* The join: no thread is left, and the last batch leaves a result for each target.
LEMMA BatchEndHonest ==
    ASSUME TypeOK, HonestInv, BatchEnd
    PROVE  HonestInv'
<1>0. /\ UNCHANGED <<kind, db, thread, dispatched, handler, finalizer>>
      /\ runner.pc = "wait" /\ runner.batch \in Nat /\ runner.results \in Results
      /\ \A t \in Batch(runner.batch) : thread[t] = "done"
  BY DEF BatchEnd, TypeOK, Runner
<1>1. /\ runner'.results = runner.results
      /\ \/ /\ runner'.pc = "results" /\ runner'.batch = runner.batch
            /\ is_cancelled \/ runner.batch * MaxWorkers >= NTargets
         \/ runner'.pc = "batch" /\ runner'.batch = runner.batch + 1
  BY DEF BatchEnd, TypeOK, Runner
<1>2. \A t \in Target : thread[t] \in {"idle", "done"}
  BY <1>0 DEF HonestInv, PoolOK
<1>3. \A t \in Target : t <= runner.batch * MaxWorkers => thread[t] = "done"
  <2> SUFFICES ASSUME NEW t \in Target, t <= runner.batch * MaxWorkers PROVE thread[t] = "done"
    OBVIOUS
  <2>1. t <= (runner.batch - 1) * MaxWorkers \/ t \in Batch(runner.batch)
    BY <1>0, BatchBounds
  <2> QED
    BY <1>0, <2>1 DEF HonestInv, PoolOK, Batching
<1>4. \A t \in Target : thread[t] = "done" => runner.results[t] # "none"
  BY <1>0 DEF HonestInv, PoolOK, Batching
<1>5. Fresh'
  BY <1>1 DEF Fresh, Before
<1>6. PoolOK'
  <2>1. CASE runner'.pc = "results"
    BY <1>0, <1>2, <2>1 DEF PoolOK, Batching
  <2>2. CASE runner'.batch = runner.batch + 1
    <3>1. runner'.batch - 1 = runner.batch
      BY <1>0, <2>2
    <3> QED
      BY <1>0, <1>1, <1>2, <1>3, <1>4, <3>1 DEF PoolOK
  <2> QED
    BY <1>1, <2>1, <2>2
<1>7. JoinOK'
  <2>1. db.status \in CancelStates \/ \A t \in Target : runner.results[t] # "cancelled"
    BY <1>0 DEF HonestInv, JoinOK, Batching
  <2>2. runner'.pc = "results" => db.status \in CancelStates \/ AllReported(runner.results)
    <3> SUFFICES ASSUME db.status \notin CancelStates, runner'.pc = "results", NEW t \in Target
                 PROVE  runner.results[t] \in {"success", "failed"}
      BY DEF AllReported
    <3>1. runner.batch * MaxWorkers >= NTargets
      BY <1>1 DEF is_cancelled
    <3>2. t <= runner.batch * MaxWorkers
      BY <1>0, <3>1, BatchBounds
    <3>3. runner.results[t] \notin {"none", "cancelled"}
      BY <1>3, <1>4, <2>1, <3>2
    <3> QED
      BY <1>0, <3>3 DEF Results, ResultStatus
  <2> QED
    BY <1>0, <1>1, <2>1, <2>2 DEF JoinOK, Batching
<1>8. ResultsReal' /\ SuccessIsHonest'
  BY <1>0, <1>1 DEF HonestInv, ResultsReal, SuccessIsHonest
<1>9. ForcedOK' /\ SuccessOK'
  BY <1>0, <1>1 DEF HonestInv, ForcedOK, SuccessOK, Batching, Before
<1> QED
  BY <1>5, <1>6, <1>7, <1>8, <1>9 DEF HonestInv

LEMMA FinalizeHonest ==
    ASSUME TypeOK, HonestInv, FinalizeResults \/ FinalizeRefresh \/ FinalizeCounts \/ FinalizeStatus
    PROVE  HonestInv'
<1>0. UNCHANGED <<kind, thread, dispatched, handler, finalizer>>
  BY DEF FinalizeResults, FinalizeRefresh, FinalizeCounts, FinalizeStatus
<1>1. /\ runner.pc \in {"results", "refresh", "count", "status"}
      /\ runner'.pc \in {"refresh", "count", "status", "notify"}
      /\ db \in Row /\ runner \in Runner /\ dispatched \subseteq Target
  <2>1. db \in Row /\ runner \in Runner /\ dispatched \subseteq Target
    BY DEF TypeOK
  <2> QED
    BY <2>1, GotoFields DEF FinalizeResults, FinalizeRefresh, FinalizeCounts, FinalizeStatus, Runner
<1>2. Fresh' /\ PoolOK'
  BY <1>0, <1>1 DEF HonestInv, Fresh, PoolOK, Batching, Before
<1>3. db.status = "success" => kind = "empty"
  BY <1>1 DEF HonestInv, SuccessOK
<1>4. CASE FinalizeResults
  <2>1. /\ runner.pc = "results" /\ runner'.pc = "refresh"
        /\ db'.status = db.status /\ db'.results = runner.results /\ runner'.results = runner.results
    BY <1>1, <1>4, GotoFields DEF FinalizeResults, Row
  <2>2. ResultsReal' /\ SuccessOK' /\ SuccessIsHonest'
    BY <1>0, <1>3, <2>1 DEF HonestInv, ResultsReal, SuccessOK, SuccessIsHonest
  <2>3. JoinOK' /\ ForcedOK'
    BY <1>0, <2>1 DEF HonestInv, JoinOK, ForcedOK, Batching, Before, AllReported
  <2> QED
    BY <1>2, <2>2, <2>3 DEF HonestInv
<1>5. CASE FinalizeRefresh
  <2>1. /\ runner.pc = "refresh" /\ runner'.pc = "count" /\ db' = db
        /\ runner'.status = db.status /\ runner'.results = db.results
    BY <1>1, <1>5 DEF FinalizeRefresh, Runner
  <2>2. ResultsReal' /\ SuccessOK' /\ SuccessIsHonest'
    BY <1>0, <1>3, <2>1 DEF HonestInv, ResultsReal, SuccessOK, SuccessIsHonest
  <2>3. JoinOK' /\ ForcedOK'
    BY <1>0, <2>1 DEF HonestInv, JoinOK, ForcedOK, Batching, Before, AllReported, CancelStates
  <2> QED
    BY <1>2, <2>2, <2>3 DEF HonestInv
<1>6. CASE FinalizeCounts
  <2>1. /\ runner.pc = "count" /\ runner'.pc = "status"
        /\ runner'.status = runner.status /\ runner'.results = runner.results
        /\ runner'.failed = Count(db.results, "failed")
    BY <1>1, <1>6 DEF FinalizeCounts, Runner
  <2>2. /\ db'.status = db.status /\ db'.results = db.results
        /\ db'.success_count = Count(db.results, "success")
        /\ db'.failed_count = Count(db.results, "failed")
    BY <1>1, <1>6 DEF FinalizeCounts, Row
  <2>3. ResultsReal' /\ SuccessOK' /\ SuccessIsHonest'
    BY <1>0, <1>3, <2>1, <2>2 DEF HonestInv, ResultsReal, SuccessOK, SuccessIsHonest
  <2>4. JoinOK' /\ ForcedOK'
    <3>1. ForcedOK'
      BY <1>0, <2>1, <2>2 DEF HonestInv, ForcedOK, Batching, Before
    <3>2. runner.status \in CancelStates \/ AllReported(db.results)
      BY <2>1 DEF HonestInv, JoinOK
    <3>3. JoinOK'
      BY <2>1, <2>2, <3>2 DEF JoinOK, Batching, AllReported
    <3> QED
      BY <3>1, <3>3
  <2> QED
    BY <1>2, <2>3, <2>4 DEF HonestInv
<1>7. CASE FinalizeStatus
  <2>1. /\ runner.pc = "status" /\ runner'.pc = "notify" /\ runner'.results = runner.results
        /\ db'.results = db.results
        /\ db'.success_count = db.success_count /\ db'.failed_count = db.failed_count
        /\ db'.status = IF runner.status \in CancelStates THEN "cancelled"
                        ELSE IF runner.failed > 0 THEN "failed" ELSE "success"
    BY <1>7, GotoFields, StatusFields DEF FinalizeStatus
  <2>2. ResultsReal' /\ SuccessOK'
    BY <1>0, <2>1 DEF HonestInv, ResultsReal, SuccessOK
  <2>3. JoinOK' /\ ForcedOK'
    BY <1>0, <2>1 DEF HonestInv, JoinOK, ForcedOK, Batching, Before
  <2>4. SuccessIsHonest'
    <3> SUFFICES ASSUME db'.status = "success"
                 PROVE  /\ dispatched = Target
                        /\ \A t \in Target : db.results[t] = "success"
                        /\ db.success_count = NTargets
                        /\ db.failed_count = 0
      BY <1>0, <2>1 DEF SuccessIsHonest
    <3>1. runner.status \notin CancelStates /\ ~(runner.failed > 0)
      BY <2>1
    <3>2. /\ AllReported(db.results)
          /\ db.success_count = Count(db.results, "success")
          /\ db.failed_count = Count(db.results, "failed")
          /\ runner.failed = db.failed_count
      BY <2>1, <3>1 DEF HonestInv, JoinOK
    <3>3. Count(db.results, "failed") = 0
      BY <3>1, <3>2, CountTyped
    <3>4. (\A t \in Target : db.results[t] = "success") /\ Count(db.results, "success") = NTargets
      BY <3>2, <3>3, AllSucceed
    <3>5. dispatched = Target
      BY <1>1, <3>4 DEF HonestInv, ResultsReal
    <3> QED
      BY <3>2, <3>3, <3>4, <3>5
  <2> QED
    BY <1>2, <2>2, <2>3, <2>4 DEF HonestInv
<1> QED
  BY <1>4, <1>5, <1>6, <1>7

\* A thread reports success after its remote call, and a cancellation only when
\* the row says so.
LEMMA ThreadHonest ==
    ASSUME TypeOK, HonestInv, NEW t \in Target, ThreadStep(t) \/ ThreadAnswer(t)
    PROVE  HonestInv'
<1>0. /\ runner \in Runner /\ dispatched \subseteq Target
      /\ thread \in [Target -> {"idle", "check", "dispatch", "remote", "done"}]
      /\ runner.results \in Results
  BY DEF TypeOK, Runner
<1>1. /\ UNCHANGED <<kind, db, handler, finalizer>>
      /\ runner'.pc = runner.pc /\ runner'.status = runner.status /\ runner'.batch = runner.batch
  BY ThreadEffect
<1>2. runner'.failed = runner.failed
  BY <1>0 DEF ThreadStep, ThreadAnswer, ThreadCheck, ThreadDispatch, ThreadReturns, Runner
<1>3. thread[t] \in {"check", "dispatch", "remote"}
  BY DEF ThreadStep, ThreadAnswer, ThreadCheck, ThreadDispatch, ThreadReturns
<1>4. runner.pc = "wait" /\ t \in Batch(runner.batch) /\ thread[t] # "done"
  BY <1>3 DEF HonestInv, PoolOK
<1>5. \A u \in Target \ {t} : thread'[u] = thread[u] /\ runner'.results[u] = runner.results[u]
  BY <1>0 DEF ThreadStep, ThreadAnswer, ThreadCheck, ThreadDispatch, ThreadReturns, Runner, Results
<1>6. \/ /\ thread'[t] \in {"dispatch", "remote"} /\ runner' = runner
         /\ thread'[t] = "remote" => dispatched' = dispatched \cup {t}
      \/ /\ thread'[t] = "done" /\ dispatched' = dispatched
         /\ \/ runner'.results[t] = "failed"
            \/ runner'.results[t] = "success" /\ thread[t] = "remote"
            \/ runner'.results[t] = "cancelled" /\ db.status \in CancelStates
  <2>1. CASE ThreadCheck(t)
    BY <1>0, <2>1 DEF ThreadCheck, is_cancelled, Runner, Results
  <2>2. CASE ThreadDispatch(t)
    BY <1>0, <2>2 DEF ThreadDispatch, StartOn
  <2>3. ASSUME NEW status, ThreadReturns(t, status)
        PROVE  /\ thread'[t] = "done" /\ dispatched' = dispatched
               /\ \/ runner'.results[t] = "failed"
                  \/ runner'.results[t] = "success" /\ thread[t] = "remote"
                  \/ runner'.results[t] = "cancelled" /\ db.status \in CancelStates
    BY <1>0, <2>3 DEF ThreadReturns, is_cancelled, Runner, Results
  <2> QED
    BY <2>1, <2>2, <2>3 DEF ThreadStep, ThreadAnswer
<1>7. dispatched' = dispatched \/ dispatched' = dispatched \cup {t}
  BY DEF ThreadStep, ThreadAnswer, ThreadCheck, ThreadDispatch, ThreadReturns, StartOn
<1>8. Fresh'
  BY <1>1, <1>4 DEF Fresh, Before
<1>9. PoolOK'
  <2>1. /\ thread'[t] \notin {"idle", "done"} => runner'.pc = "wait" /\ t \in Batch(runner'.batch)
        /\ thread'[t] = "remote" => t \in dispatched'
        /\ ~(t <= (runner'.batch - 1) * MaxWorkers)
        /\ thread'[t] = "done" => runner'.results[t] # "none"
    BY <1>1, <1>4, <1>6 DEF HonestInv, PoolOK, Batching
  <2>2. ASSUME NEW u \in Target \ {t}
        PROVE  /\ thread'[u] \notin {"idle", "done"} => runner'.pc = "wait" /\ u \in Batch(runner'.batch)
               /\ thread'[u] = "remote" => u \in dispatched'
               /\ u <= (runner'.batch - 1) * MaxWorkers => thread'[u] = "done"
               /\ thread'[u] = "done" => runner'.results[u] # "none"
    BY <1>1, <1>4, <1>5, <1>7 DEF HonestInv, PoolOK, Batching
  <2> QED
    BY <2>1, <2>2 DEF PoolOK
<1>10. ResultsReal'
  <2>1. runner'.results[t] = "success" => t \in dispatched'
    BY <1>6, <1>7 DEF HonestInv, ResultsReal, PoolOK
  <2> QED
    BY <1>1, <1>5, <1>7, <2>1 DEF HonestInv, ResultsReal
<1>11. JoinOK'
  <2>1. db.status \in CancelStates \/ \A u \in Target : runner.results[u] # "cancelled"
    BY <1>4 DEF HonestInv, JoinOK, Batching
  <2>2. db.status \in CancelStates \/ \A u \in Target : runner'.results[u] # "cancelled"
    BY <1>5, <1>6, <2>1
  <2> QED
    BY <1>1, <1>4, <2>2 DEF JoinOK
<1>12. ForcedOK' /\ SuccessOK'
  BY <1>1, <1>4 DEF HonestInv, ForcedOK, SuccessOK, Batching
<1>13. SuccessIsHonest'
  BY <1>1, <1>4 DEF HonestInv, SuccessOK, SuccessIsHonest
<1> QED
  BY <1>8, <1>9, <1>10, <1>11, <1>12, <1>13 DEF HonestInv

\* A cancel request only ever relaxes what the runner owes.
LEMMA CancelHonest ==
    ASSUME TypeOK, CasOK, HonestInv, NEW c \in Canceller, CancelCas(c)
    PROVE  HonestInv'
<1>0. /\ UNCHANGED <<kind, thread, dispatched, handler, finalizer>>
      /\ \/ UNCHANGED runner
         \/ /\ runner.pc = "queued" /\ runner'.pc = "done"
            /\ runner'.batch = runner.batch /\ runner'.results = runner.results
      /\ db'.results = db.results
      /\ db'.success_count = db.success_count /\ db'.failed_count = db.failed_count
      /\ Misses(c) \/ CancelsPending(c) \/ CancelsRunning(c)
  BY CancelEffect
<1>1. \/ db' = db
      \/ db.status \in {"pending", "running"} /\ db'.status \in {"cancelling", "cancelled"}
  BY <1>0 DEF Misses, CancelsPending, CancelsRunning
<1>2. Fresh'
  BY <1>0 DEF HonestInv, Fresh, Before
<1>3. PoolOK'
  BY <1>0 DEF HonestInv, PoolOK, Batching
<1>4. ResultsReal'
  BY <1>0, <1>1 DEF HonestInv, ResultsReal
<1>5. JoinOK'
  <2>1. CASE runner' = runner
    BY <1>0, <1>1, <2>1 DEF HonestInv, JoinOK, Batching, AllReported, CancelStates
  <2>2. CASE runner'.pc = "done"
    BY <2>2 DEF JoinOK, Batching
  <2> QED
    BY <1>0, <2>1, <2>2
<1>6. ForcedOK'
  <2>1. CASE runner' = runner
    BY <1>0, <1>1, <2>1 DEF HonestInv, ForcedOK, Batching
  <2>2. CASE runner.pc = "queued" /\ runner'.pc = "done"
    BY <1>0, <1>1, <2>2 DEF HonestInv, ForcedOK, Before
  <2> QED
    BY <1>0, <2>1, <2>2
<1>7. SuccessOK'
  BY <1>0, <1>1 DEF HonestInv, SuccessOK
<1>8. SuccessIsHonest'
  BY <1>0, <1>1 DEF HonestInv, SuccessIsHonest
<1> QED
  BY <1>2, <1>3, <1>4, <1>5, <1>6, <1>7, <1>8 DEF HonestInv

\* The finalizer forces an end only when what was read before the cancellation
\* has been written, and keeps every result it finds.
LEMMA FinalizerHonest ==
    ASSUME TypeOK, StartedOK, HonestInv, FinalizerStep
    PROVE  HonestInv'
<1>0. /\ UNCHANGED <<kind, runner, thread, dispatched, handler>>
      /\ Forces \/ Stands \/ Loads \/ Fills
  BY FinalizerEffect
<1>1. Fresh' /\ PoolOK'
  BY <1>0 DEF HonestInv, Fresh, PoolOK, Batching
<1>2. CASE Forces
  <2>1. /\ OldReadsWritten /\ db.status = "cancelling" /\ db'.status = "cancelled" /\ db'.results = db.results
        /\ finalizer'.pc = "load" /\ finalizer'.results = finalizer.results
    BY <1>2 DEF Forces
  <2>2. ResultsReal' /\ SuccessOK' /\ SuccessIsHonest'
    BY <1>0, <2>1 DEF HonestInv, ResultsReal, SuccessOK, SuccessIsHonest
  <2>3. ForcedOK'
    <3>1. runner.pc \notin Before
      BY <2>1 DEF StartedOK
    <3> QED
      BY <1>0, <2>1, <3>1 DEF ForcedOK, OldReadsWritten
  <2>4. JoinOK'
    BY <1>0, <2>1 DEF OldReadsWritten, JoinOK, Batching, CancelStates
  <2> QED
    BY <1>1, <2>2, <2>3, <2>4 DEF HonestInv
<1>3. CASE Stands \/ Loads
  <2>1. /\ db' = db
        /\ finalizer'.results \in {finalizer.results, db.results}
        /\ finalizer'.pc \in {"load", "save"} => finalizer.pc \in {"load", "save"}
    BY <1>3 DEF Stands, Loads
  <2>2. ResultsReal' /\ SuccessOK' /\ SuccessIsHonest'
    BY <1>0, <2>1 DEF HonestInv, ResultsReal, SuccessOK, SuccessIsHonest
  <2>3. ForcedOK' /\ JoinOK'
    BY <1>0, <2>1 DEF HonestInv, ForcedOK, JoinOK, Batching, AllReported
  <2> QED
    BY <1>1, <2>2, <2>3 DEF HonestInv
<1>4. CASE Fills
  <2>1. /\ finalizer.pc = "save" /\ finalizer'.pc = "done" /\ finalizer'.results = finalizer.results
        /\ db'.status = db.status /\ db'.results = FilledIn(finalizer.results)
    BY <1>4 DEF Fills
  <2>2. ForcedOK
    BY DEF HonestInv
  <2>3. ResultsReal'
    BY <1>0, <2>1 DEF HonestInv, ResultsReal, FilledIn
  <2>4. ForcedOK' /\ SuccessOK' /\ SuccessIsHonest'
    BY <2>1, <2>2 DEF ForcedOK, SuccessOK, SuccessIsHonest
  <2>5. JoinOK'
    BY <1>0, <2>1, <2>2 DEF ForcedOK, JoinOK, Batching, CancelStates
  <2> QED
    BY <1>1, <2>3, <2>4, <2>5 DEF HonestInv
<1> QED
  BY <1>0, <1>2, <1>3, <1>4

\* A handler saves a report of every target, while the runner writes nothing.
LEMMA CallbackHonest ==
    ASSUME TypeOK, AnsweredInv, HonestInv, NEW h \in Handler, CallbackSave(h)
    PROVE  HonestInv'
<1>0. /\ UNCHANGED <<kind, runner, thread, dispatched, remote, finalizer>>
      /\ handler[h].pc = "save" /\ handler'[h].pc = "idle"
      /\ \A g \in Handler \ {h} : handler'[g] = handler[g]
      /\ db'.status = CallbackStatus(h) /\ db'.results = remote.results
      /\ db'.success_count = Count(remote.results, "success")
      /\ db'.failed_count = Count(remote.results, "failed")
  BY CallbackEffect
<1>1. /\ runner.pc \in {"rpc", "done"} /\ dispatched = Target
      /\ remote.results \in [Target -> {"success", "failed"}]
  BY <1>0 DEF AnsweredInv, RemoteOK
<1>2. Fresh' /\ PoolOK'
  BY <1>0 DEF HonestInv, Fresh, PoolOK, Batching
<1>3. ResultsReal'
  BY <1>0, <1>1 DEF ResultsReal
<1>4. JoinOK' /\ SuccessOK'
  BY <1>0, <1>1 DEF JoinOK, SuccessOK, Batching
<1>5. ForcedOK'
  <2>1. ASSUME finalizer.pc \in {"load", "save"} PROVE CallbackStatus(h) \in {"cancelled", "failed"}
    BY <1>0, <2>1 DEF HonestInv, ForcedOK, CallbackStatus
  <2> QED
    BY <1>0, <1>1, <2>1 DEF HonestInv, ForcedOK, Batching
<1>6. SuccessIsHonest'
  <2> SUFFICES ASSUME CallbackStatus(h) = "success"
               PROVE  /\ \A t \in Target : remote.results[t] = "success"
                      /\ Count(remote.results, "success") = NTargets
                      /\ Count(remote.results, "failed") = 0
    BY <1>0, <1>1 DEF SuccessIsHonest
  <2>1. ~(Count(remote.results, "failed") > 0)
    BY DEF CallbackStatus
  <2>2. Count(remote.results, "failed") = 0
    BY <2>1, CountTyped
  <2>3. AllReported(remote.results)
    BY <1>1 DEF AllReported
  <2> QED
    BY <2>2, <2>3, AllSucceed
<1> QED
  BY <1>2, <1>3, <1>4, <1>5, <1>6 DEF HonestInv

LEMMA NextHonest ==
    ASSUME TypeInv, WriterOK, AnsweredInv, HonestInv, [Next]_vars
    PROVE  HonestInv'
<1>0. TypeOK /\ CasOK /\ StartedOK
  BY DEF TypeInv, WriterOK
<1>1. ASSUME UNCHANGED <<kind, db, runner, thread, dispatched, finalizer>>,
             finalizer.pc \in {"load", "save"} => handler' = handler
      PROVE  HonestInv'
  <2>1. Fresh' /\ PoolOK' /\ ResultsReal' /\ SuccessOK' /\ SuccessIsHonest'
    BY <1>1 DEF HonestInv, Fresh, PoolOK, ResultsReal, SuccessOK, SuccessIsHonest, Batching
  <2>2. JoinOK' /\ ForcedOK'
    BY <1>1 DEF HonestInv, JoinOK, ForcedOK, Batching, AllReported
  <2> QED
    BY <2>1, <2>2 DEF HonestInv
<1>2. CASE RunnerStep \/ DispatchFails \/ SubmitAnswered \/ SubmitFails
  BY <1>0, <1>2, RunnerAsideHonest, PrepareSaveHonest, SubmitBatchHonest, BatchEndHonest, FinalizeHonest DEF RunnerStep
<1>3. ASSUME NEW c \in Canceller, CancelRead(c) \/ CancelStep(c) \/ CancelScheduleFails(c) PROVE HonestInv'
  <2>1. CASE CancelRead(c) \/ CancelNotify(c)
    BY <1>1, <2>1 DEF CancelRead, CancelNotify
  <2>2. CASE CancelSchedule(c) \/ CancelScheduleFails(c)
    <3>1. /\ UNCHANGED <<kind, db, runner, thread, dispatched, handler>>
          /\ finalizer'.pc \notin {"load", "save"} /\ finalizer'.results = finalizer.results
      BY <1>0, <2>2, ScheduleEffect
    <3>2. Fresh' /\ PoolOK' /\ ResultsReal' /\ SuccessOK' /\ SuccessIsHonest'
      BY <3>1 DEF HonestInv, Fresh, PoolOK, ResultsReal, SuccessOK, SuccessIsHonest, Batching
    <3>3. JoinOK' /\ ForcedOK'
      BY <3>1 DEF HonestInv, JoinOK, ForcedOK, Batching, AllReported
    <3> QED
      BY <3>2, <3>3 DEF HonestInv
  <2> QED
    BY <1>0, <1>3, <2>1, <2>2, CancelHonest DEF CancelStep
<1>4. CASE ReportReady
  BY <1>1, <1>4 DEF ReportReady
<1>5. ASSUME NEW h \in Handler, CallbackRead(h) PROVE HonestInv'
  <2>1. finalizer.pc \in {"load", "save"} => db.status \in TERMINAL_STATES
    BY DEF HonestInv, ForcedOK, TERMINAL_STATES
  <2> QED
    BY <1>1, <1>5, <2>1 DEF CallbackRead
<1>6. CASE UNCHANGED vars
  BY <1>1, <1>6 DEF vars
<1> QED
  BY <1>0, <1>2, <1>3, <1>4, <1>5, <1>6, ThreadHonest, FinalizerHonest, CallbackHonest DEF Next, ExecutorStep

LEMMA InitHonest == Init => HonestInv
<1> SUFFICES ASSUME Init PROVE HonestInv
  OBVIOUS
<1>1. Fresh /\ PoolOK /\ ResultsReal
  BY DEF Init, Fresh, PoolOK, ResultsReal, NoResults, Batching
<1>2. JoinOK /\ ForcedOK /\ SuccessOK /\ SuccessIsHonest
  BY DEF Init, JoinOK, ForcedOK, SuccessOK, SuccessIsHonest, Batching
<1> QED
  BY <1>1, <1>2 DEF HonestInv

\* A job that says SUCCESS ran on every target, every target succeeded and the
\* counters say so, for any number of targets, batches, handlers, deliveries
\* and cancel requests, if submissions are answered or the job is not submitted
\* to the executor.
THEOREM SuccessIsAlwaysHonest == Spec /\ Answered => []SuccessIsHonest
<1>1. TypeInv /\ WriterOK /\ AnsweredInv /\ HonestInv /\ [Next]_vars => HonestInv'
  BY NextHonest
<1>2. TypeInv /\ AnsweredInv /\ [Next]_vars => AnsweredInv'
  BY NextAnswered
<1>3. HonestInv => SuccessIsHonest
  BY DEF HonestInv
<1> QED
  BY <1>1, <1>2, <1>3, InitTyped, NextTyped, InitWriter, NextWriter, InitAnswered, InitHonest, PTL DEF Spec

=============================================================================
