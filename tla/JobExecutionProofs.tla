------------------------- MODULE JobExecutionProofs -------------------------
(***************************************************************************)
(* Proofs about JobExecution, for any number of targets, size of a batch,  *)
(* handlers, deliveries of the report and kinds of job, with every fault.  *)
(***************************************************************************)
EXTENDS JobExecution, FiniteSetTheorems, TLAPS

-----------------------------------------------------------------------------
(* Lemmas on results, rows and the runner's memory                         *)

\* Counting results gives a number, because target_list is finite.
LEMMA CountTyped ==
    ASSUME NEW r, NEW s
    PROVE  Count(r, s) \in Nat
<1>1. IsFiniteSet(Target)
  BY FS_Interval, ConstantsAssumption DEF Target
<1>2. IsFiniteSet({t \in Target : r[t] = s})
  BY <1>1, FS_Subset
<1> QED
  BY <1>2, FS_CardinalityType DEF Count

LEMMA ResultsTyped ==
    /\ NoResults \in Results
    /\ AllFailed \in Results
    /\ \A r \in Results : FilledIn(r) \in Results
    /\ \A r \in Results, t \in Target, s \in ResultStatus : [r EXCEPT ![t] = s] \in Results
    /\ [Target -> {"success", "failed"}] \subseteq Results
BY DEF NoResults, AllFailed, FilledIn, Results, ResultStatus

LEMMA RowTyped ==
    ASSUME db \in Row
    PROVE  /\ \A s \in Status : [db EXCEPT !.status = s] \in Row
           /\ \A r \in Results : [db EXCEPT !.results = r] \in Row
           /\ \A r \in Results : db.results \in Results /\ db.status \in Status
BY DEF Row

LEMMA GotoTyped ==
    ASSUME runner \in Runner
    PROVE  \A pc \in RunnerPc : [runner EXCEPT !.pc = pc] \in Runner
BY DEF Runner

\* A step that only moves the runner to pc, and leaves the row or saves a status.
LEMMA MoveTyped ==
    ASSUME TypeOK, NEW pc \in RunnerPc, Goto(pc), db' \in Row,
           UNCHANGED <<kind, thread, dispatched, remote, handler, canceller, finalizer, cancel>>,
           notices' \in SUBSET Status
    PROVE  TypeOK'
BY GotoTyped DEF TypeOK, Goto

\* A cancel request compares and swaps only PENDING and RUNNING.
CasOK == \A c \in Canceller : canceller[c].pc = "cas" => canceller[c].status_now \in {"pending", "running"}

TypeInv == TypeOK /\ CasOK

LEMMA InitTyped == Init => TypeInv
<1> SUFFICES ASSUME Init PROVE TypeInv
  OBVIOUS
<1>1. kind \in Kind
  BY ConstantsAssumption DEF Init
<1>2. db \in Row /\ runner \in Runner
  BY ResultsTyped DEF Init, Row, Runner, Status, RunnerPc
<1>3. thread \in [Target -> {"idle", "check", "dispatch", "remote", "done"}] /\ dispatched \in SUBSET Target
  BY DEF Init
<1>4. remote \in [state : {"none", "accepted", "reported"}, wellformed : BOOLEAN,
                  results : Results, deliveries : Nat]
  BY ResultsTyped DEF Init
<1>5. handler \in [Handler -> [pc : {"idle", "save"}, was_cancelling : BOOLEAN]]
  BY DEF Init
<1>6. canceller \in [Canceller -> [pc : {"idle", "cas", "schedule", "notify", "done"}, status_now : Status]] /\ CasOK
  BY DEF Init, Status, CasOK
<1>7. finalizer \in [pc : {"off", "refused", "armed", "load", "save", "done"}, status : Status, results : Results]
  BY ResultsTyped DEF Init, Status
<1>8. notices \in SUBSET Status
      /\ cancel \in [from : {"no", "pending", "running"}, batch : Nat, late : SUBSET Target]
  BY DEF Init
<1> QED
  BY <1>1, <1>2, <1>3, <1>4, <1>5, <1>6, <1>7, <1>8 DEF TypeInv, TypeOK

\* The steps of the Celery task.
LEMMA RunnerTyped ==
    ASSUME TypeOK, RunnerStep \/ DispatchFails \/ SubmitAnswered \/ SubmitFails
    PROVE  TypeOK'
<1>0. db \in Row /\ runner \in Runner /\ db.status \in Status /\ db.results \in Results
      /\ notices \in SUBSET Status
  BY DEF TypeOK, Row
<1>1. {"queued", "prepare", "empty", "batch", "wait", "results", "refresh", "count", "status", "notify",
       "check", "recheck", "submit", "rpc", "fail", "failresults", "reject", "rejectstatus", "done"}
        \subseteq RunnerPc
      /\ {"success", "failed", "cancelled", "running"} \subseteq Status
  BY DEF RunnerPc, Status, TERMINAL_STATES
<1>2. /\ \A s \in Status : [db EXCEPT !.status = s] \in Row
      /\ \A r \in Results : [db EXCEPT !.results = r] \in Row
  BY <1>0, RowTyped
<1>3. CASE Dispatch \/ PrepareRead \/ PlaybookCheck \/ PlaybookRecheck \/ SubmitAnswered \/ SubmitFails
  <2>1. \E pc \in RunnerPc : Goto(pc)
    BY <1>1, <1>3 DEF Dispatch, PrepareRead, PlaybookCheck, PlaybookRecheck, SubmitAnswered, SubmitFails
  <2>2. UNCHANGED <<kind, db, thread, dispatched, remote, handler, canceller, finalizer, notices, cancel>>
    BY <1>3 DEF Dispatch, PrepareRead, PlaybookCheck, PlaybookRecheck, SubmitAnswered, SubmitFails
  <2> QED
    BY <1>0, <2>1, <2>2, MoveTyped
<1>4. CASE DispatchFails \/ FinishEmpty \/ FailStatus \/ RejectStatus
  <2>1. \E pc \in RunnerPc : Goto(pc)
    BY <1>1, <1>4 DEF DispatchFails, FinishEmpty, FailStatus, RejectStatus
  <2>2. db' \in Row
    BY <1>1, <1>2, <1>4 DEF DispatchFails, FinishEmpty, FailStatus, RejectStatus, update_execution_status
  <2>3. UNCHANGED <<kind, thread, dispatched, remote, handler, canceller, finalizer, notices, cancel>>
    BY <1>4 DEF DispatchFails, FinishEmpty, FailStatus, RejectStatus
  <2> QED
    BY <1>0, <2>1, <2>2, <2>3, MoveTyped
<1>5. CASE PrepareSave
  <2>1. \E pc \in RunnerPc : Goto(pc)
    BY <1>1, <1>5 DEF PrepareSave, TypeOK, Kind
  <2>2. db' \in Row
    BY <1>1, <1>2, <1>5 DEF PrepareSave, update_execution_status
  <2>3. UNCHANGED <<kind, thread, dispatched, remote, handler, canceller, finalizer, notices, cancel>>
    BY <1>5 DEF PrepareSave
  <2> QED
    BY <1>0, <2>1, <2>2, <2>3, MoveTyped
<1>6. CASE SubmitBatch
  <2>1. thread' \in [Target -> {"idle", "check", "dispatch", "remote", "done"}]
    BY <1>6 DEF SubmitBatch, TypeOK
  <2>2. runner' \in Runner
    BY <1>0, <1>1, <1>6, GotoTyped DEF SubmitBatch, Goto
  <2> QED
    BY <1>6, <2>1, <2>2 DEF SubmitBatch, TypeOK
<1>7. CASE BatchEnd
  <2>1. runner' \in Runner
    <3>1. [runner EXCEPT !.pc = "results"] \in Runner
      BY <1>0, <1>1, GotoTyped
    <3>2. [runner EXCEPT !.pc = "batch", !.batch = @ + 1] \in Runner
      <4>1. runner.batch + 1 \in Nat
        BY <1>0 DEF Runner
      <4> QED
        BY <1>0, <1>1, <4>1 DEF Runner
    <3> QED
      BY <1>7, <3>1, <3>2 DEF BatchEnd
  <2> QED
    BY <1>7, <2>1 DEF BatchEnd, TypeOK
<1>8. CASE FinalizeResults \/ FailResults \/ RejectResults
  <2>1. \E pc \in RunnerPc : Goto(pc)
    BY <1>1, <1>8 DEF FinalizeResults, FailResults, RejectResults
  <2>2. runner.results \in Results
    BY <1>0 DEF Runner
  <2>3. db' \in Row
    BY <1>2, <1>8, <2>2, ResultsTyped DEF FinalizeResults, FailResults, RejectResults
  <2>4. UNCHANGED <<kind, thread, dispatched, remote, handler, canceller, finalizer, notices, cancel>>
    BY <1>8 DEF FinalizeResults, FailResults, RejectResults
  <2> QED
    BY <1>0, <2>1, <2>3, <2>4, MoveTyped
<1>9. CASE FinalizeRefresh
  <2>1. runner' \in Runner
    BY <1>0, <1>1, <1>9 DEF FinalizeRefresh, Runner
  <2> QED
    BY <1>9, <2>1 DEF FinalizeRefresh, TypeOK
<1>10. CASE FinalizeCounts
  <2>1. Count(db.results, "success") \in Nat /\ Count(db.results, "failed") \in Nat
    BY CountTyped
  <2>2. db' \in Row
    BY <1>0, <1>10, <2>1 DEF FinalizeCounts, Row
  <2>3. runner' \in Runner
    BY <1>0, <1>1, <1>10, <2>1 DEF FinalizeCounts, Runner
  <2> QED
    BY <1>10, <2>2, <2>3 DEF FinalizeCounts, TypeOK
<1>11. CASE FinalizeStatus
  <2>1. Goto("notify") /\ UNCHANGED <<kind, thread, dispatched, remote, handler, canceller, finalizer, notices, cancel>>
    BY <1>11 DEF FinalizeStatus
  <2>2. db' \in Row
    BY <1>1, <1>2, <1>11 DEF FinalizeStatus, update_execution_status
  <2> QED
    BY <1>0, <1>1, <2>1, <2>2, MoveTyped
<1>12. CASE FinalizeNotify
  <2>1. Goto("done") /\ UNCHANGED <<kind, db, thread, dispatched, remote, handler, canceller, finalizer, cancel>>
    BY <1>12 DEF FinalizeNotify
  <2>2. notices' \in SUBSET Status
    BY <1>0, <1>12 DEF FinalizeNotify
  <2> QED
    BY <1>0, <1>1, <2>1, <2>2, MoveTyped
<1>13. CASE Submit
  <2>1. runner' \in Runner
    BY <1>0, <1>1, <1>13, GotoTyped DEF Submit, Goto
  <2>2. remote' \in [state : {"none", "accepted", "reported"}, wellformed : BOOLEAN,
                     results : Results, deliveries : Nat]
    BY <1>13 DEF Submit, TypeOK
  <2>3. dispatched' \in SUBSET Target
        /\ cancel' \in [from : {"no", "pending", "running"}, batch : Nat, late : SUBSET Target]
    BY <1>13 DEF Submit, StartOn, TypeOK
  <2> QED
    BY <1>13, <2>1, <2>2, <2>3 DEF Submit, TypeOK
<1> QED
  BY <1>3, <1>4, <1>5, <1>6, <1>7, <1>8, <1>9, <1>10, <1>11, <1>12, <1>13 DEF RunnerStep

\* The pool threads, and the answers they get.
LEMMA ThreadTyped ==
    ASSUME TypeOK, NEW t \in Target, ThreadStep(t) \/ ThreadAnswer(t)
    PROVE  TypeOK'
<1>0. runner \in Runner /\ runner.results \in Results
  BY DEF TypeOK, Runner
<1>1. ASSUME NEW s \in ResultStatus
      PROVE  [runner EXCEPT !.results[t] = s] \in Runner
  <2>1. [runner.results EXCEPT ![t] = s] \in Results
    BY <1>0, ResultsTyped
  <2>2. [runner EXCEPT !.results[t] = s] = [runner EXCEPT !.results = [runner.results EXCEPT ![t] = s]]
    BY <1>0 DEF Runner
  <2> QED
    BY <1>0, <2>1, <2>2 DEF Runner
<1>2. CASE ThreadCheck(t)
  <2>1. thread' \in [Target -> {"idle", "check", "dispatch", "remote", "done"}]
    BY <1>2 DEF ThreadCheck, TypeOK
  <2>2. runner' \in Runner
    BY <1>0, <1>1, <1>2 DEF ThreadCheck, ResultStatus
  <2> QED
    BY <1>2, <2>1, <2>2 DEF ThreadCheck, TypeOK
<1>3. CASE ThreadDispatch(t)
  <2>1. thread' \in [Target -> {"idle", "check", "dispatch", "remote", "done"}]
    BY <1>3 DEF ThreadDispatch, TypeOK
  <2>2. dispatched' \in SUBSET Target
        /\ cancel' \in [from : {"no", "pending", "running"}, batch : Nat, late : SUBSET Target]
    BY <1>3 DEF ThreadDispatch, StartOn, TypeOK
  <2> QED
    BY <1>3, <2>1, <2>2 DEF ThreadDispatch, TypeOK
<1>4. CASE ThreadAnswer(t)
  <2>1. PICK s \in ResultStatus : ThreadReturns(t, s)
    BY <1>4 DEF ThreadAnswer
  <2>2. thread' \in [Target -> {"idle", "check", "dispatch", "remote", "done"}]
    BY <2>1 DEF ThreadReturns, TypeOK
  <2>3. runner' \in Runner
    BY <1>1, <2>1 DEF ThreadReturns
  <2> QED
    BY <2>1, <2>2, <2>3 DEF ThreadReturns, TypeOK
<1> QED
  BY <1>2, <1>3, <1>4 DEF ThreadStep

\* The executor's report and its handlers.
LEMMA CallbackTyped ==
    ASSUME TypeOK, ExecutorStep \/ \E h \in Handler : CallbackSave(h)
    PROVE  TypeOK'
<1> DEFINE Remote == [state : {"none", "accepted", "reported"}, wellformed : BOOLEAN,
                      results : Results, deliveries : Nat]
           Handlers == [Handler -> [pc : {"idle", "save"}, was_cancelling : BOOLEAN]]
<1>0. remote \in Remote /\ handler \in Handlers
  BY DEF TypeOK
<1>1. CASE ReportReady
  <2>1. PICK ok \in BOOLEAN, results \in [Target -> {"success", "failed"}] :
          remote' = [remote EXCEPT !.state = "reported", !.wellformed = ok, !.results = results]
    BY <1>1 DEF ReportReady
  <2>2. results \in Results
    BY ResultsTyped
  <2>3. remote' \in Remote
    BY <1>0, <2>1, <2>2
  <2> QED
    BY <1>1, <2>3 DEF ReportReady, TypeOK
<1>2. ASSUME NEW h \in Handler, CallbackRead(h) PROVE TypeOK'
  <2>1. remote' \in Remote
    <3>1. remote.deliveries + 1 \in Nat
      BY <1>0
    <3> QED
      BY <1>0, <1>2, <3>1 DEF CallbackRead
  <2>2. handler' \in Handlers
    BY <1>0, <1>2 DEF CallbackRead
  <2> QED
    BY <1>2, <2>1, <2>2 DEF CallbackRead, TypeOK
<1>3. ASSUME NEW h \in Handler, CallbackSave(h) PROVE TypeOK'
  <2>1. CallbackStatus(h) \in Status
    BY DEF CallbackStatus, Status, TERMINAL_STATES
  <2>2. Count(remote.results, "success") \in Nat /\ Count(remote.results, "failed") \in Nat
    BY CountTyped
  <2>3. remote.results \in Results
    BY <1>0
  <2>4. db' \in Row
    BY <1>3, <2>1, <2>2, <2>3 DEF CallbackSave, Row
  <2>5. notices' \in SUBSET Status
    BY <1>3, <2>1 DEF CallbackSave, TypeOK
  <2>6. handler' \in Handlers
    <3>1. handler[h] \in [pc : {"idle", "save"}, was_cancelling : BOOLEAN]
      BY <1>0
    <3>2. [handler[h] EXCEPT !.pc = "idle"] \in [pc : {"idle", "save"}, was_cancelling : BOOLEAN]
      BY <3>1
    <3>3. handler' = [handler EXCEPT ![h] = [handler[h] EXCEPT !.pc = "idle"]]
      BY <1>3 DEF CallbackSave
    <3> QED
      BY <1>0, <3>2, <3>3
  <2> QED
    BY <1>3, <2>4, <2>5, <2>6 DEF CallbackSave, TypeOK
<1> QED
  BY <1>1, <1>2, <1>3 DEF ExecutorStep

\* The cancel requests.
LEMMA CancelTyped ==
    ASSUME TypeInv, NEW c \in Canceller, CancelRead(c) \/ CancelStep(c) \/ CancelScheduleFails(c)
    PROVE  TypeInv'
<1> DEFINE One == [pc : {"idle", "cas", "schedule", "notify", "done"}, status_now : Status]
<1>0. /\ TypeOK /\ CasOK
      /\ db \in Row /\ db.status \in Status
      /\ runner \in Runner /\ runner.batch \in Nat
      /\ canceller \in [Canceller -> One] /\ canceller[c] \in One
  BY DEF TypeInv, TypeOK, Row, Runner
<1>1. CASE CancelRead(c)
  <2> DEFINE new == [pc |-> IF db.status \in {"pending", "running"} THEN "cas" ELSE "done",
                     status_now |-> db.status]
  <2>1. new \in One /\ (new.pc = "cas" => new.status_now \in {"pending", "running"})
    BY <1>0
  <2>2. canceller' = [canceller EXCEPT ![c] = new]
    BY <1>1 DEF CancelRead
  <2> HIDE DEF new
  <2>3. canceller' \in [Canceller -> One] /\ CasOK'
    BY <1>0, <2>1, <2>2 DEF CasOK
  <2> QED
    BY <1>0, <1>1, <2>3 DEF CancelRead, TypeInv, TypeOK
<1>2. ASSUME NEW pc \in {"schedule", "notify", "done"}, canceller' = [canceller EXCEPT ![c].pc = pc]
      PROVE  canceller' \in [Canceller -> One] /\ CasOK'
  <2>1. [canceller[c] EXCEPT !.pc = pc] \in One /\ [canceller[c] EXCEPT !.pc = pc].pc = pc
    BY <1>0
  <2>2. canceller' = [canceller EXCEPT ![c] = [canceller[c] EXCEPT !.pc = pc]]
    BY <1>2
  <2>3. canceller' \in [Canceller -> One]
    BY <1>0, <2>1, <2>2
  <2>4. \A d \in Canceller : canceller'[d] = canceller[d] \/ canceller'[d].pc = pc
    BY <1>0, <2>1, <2>2
  <2> QED
    BY <1>0, <2>3, <2>4 DEF CasOK
<1>3. CASE CancelCas(c)
  <2>1. canceller[c].pc = "cas" /\ canceller[c].status_now \in {"pending", "running"}
    BY <1>0, <1>3 DEF CancelCas, CasOK
  <2>2. db' \in Row
    <3>1. [db EXCEPT !.status = "cancelling"] \in Row /\ [db EXCEPT !.status = "cancelled"] \in Row
      BY <1>0, RowTyped DEF Status, TERMINAL_STATES
    <3> QED
      BY <1>0, <1>3, <3>1 DEF CancelCas
  <2>3. runner' \in Runner
    <3>1. [runner EXCEPT !.pc = "done"] \in Runner
      BY <1>0, GotoTyped DEF RunnerPc
    <3> QED
      BY <1>0, <1>3, <3>1 DEF CancelCas, Revoke, Goto
  <2>4. finalizer' \in [pc : {"off", "refused", "armed", "load", "save", "done"}, status : Status, results : Results]
    BY <1>0, <1>3 DEF CancelCas, TypeOK
  <2>5. cancel' \in [from : {"no", "pending", "running"}, batch : Nat, late : SUBSET Target]
    <3>1. [from |-> canceller[c].status_now, batch |-> runner.batch, late |-> {}]
            \in [from : {"no", "pending", "running"}, batch : Nat, late : SUBSET Target]
      BY <1>0, <2>1
    <3> QED
      BY <1>0, <1>3, <3>1 DEF CancelCas, TypeOK
  <2>6. canceller' \in [Canceller -> One] /\ CasOK'
    <3>1. \E pc \in {"schedule", "notify", "done"} : canceller' = [canceller EXCEPT ![c].pc = pc]
      BY <1>3 DEF CancelCas
    <3> QED
      BY <1>2, <3>1
  <2>7. UNCHANGED <<kind, thread, dispatched, remote, handler, notices>>
    BY <1>3 DEF CancelCas
  <2> QED
    BY <1>0, <2>2, <2>3, <2>4, <2>5, <2>6, <2>7 DEF TypeInv, TypeOK
<1>4. CASE CancelNotify(c)
  <2>1. canceller' \in [Canceller -> One] /\ CasOK'
    BY <1>2, <1>4 DEF CancelNotify
  <2>2. notices' \in SUBSET Status
    BY <1>0, <1>4 DEF CancelNotify, TypeOK
  <2> QED
    BY <1>0, <1>4, <2>1, <2>2 DEF CancelNotify, TypeInv, TypeOK
<1>5. CASE CancelSchedule(c) \/ CancelScheduleFails(c)
  <2>1. canceller' \in [Canceller -> One] /\ CasOK'
    <3>1. \E pc \in {"schedule", "notify", "done"} : canceller' = [canceller EXCEPT ![c].pc = pc]
      BY <1>5 DEF CancelSchedule, CancelScheduleFails
    <3> QED
      BY <1>2, <3>1
  <2>2. finalizer' \in [pc : {"off", "refused", "armed", "load", "save", "done"}, status : Status, results : Results]
    BY <1>0, <1>5 DEF CancelSchedule, CancelScheduleFails, TypeOK
  <2>3. UNCHANGED <<kind, db, runner, thread, dispatched, remote, handler, notices, cancel>>
    BY <1>5 DEF CancelSchedule, CancelScheduleFails
  <2> QED
    BY <1>0, <2>1, <2>2, <2>3 DEF TypeInv, TypeOK
<1> QED
  BY <1>1, <1>3, <1>4, <1>5 DEF CancelStep

\* The task that forces a stuck cancellation to an end.
LEMMA FinalizerTyped ==
    ASSUME TypeOK, FinalizerStep
    PROVE  TypeOK'
<1> DEFINE Finalizer == [pc : {"off", "refused", "armed", "load", "save", "done"}, status : Status, results : Results]
<1>0. finalizer \in Finalizer /\ db \in Row /\ db.status \in Status /\ db.results \in Results
  BY DEF TypeOK, Row
<1>1. CASE FinalizerCas
  <2>1. finalizer' \in Finalizer
    BY <1>0, <1>1 DEF FinalizerCas
  <2>2. db' \in Row
    BY <1>0, <1>1, RowTyped DEF FinalizerCas, update_execution_status, Status, TERMINAL_STATES
  <2> QED
    BY <1>1, <2>1, <2>2 DEF FinalizerCas, TypeOK
<1>2. CASE FinalizerLoad
  <2>1. finalizer' \in Finalizer
    BY <1>0, <1>2 DEF FinalizerLoad
  <2> QED
    BY <1>2, <2>1 DEF FinalizerLoad, TypeOK
<1>3. CASE FinalizerSave
  <2> DEFINE results == FilledIn(finalizer.results)
  <2>1. results \in Results /\ Count(results, "success") \in Nat /\ Count(results, "failed") \in Nat
    BY <1>0, ResultsTyped, CountTyped
  <2>2. db' = [db EXCEPT !.results = results, !.success_count = Count(results, "success"),
                         !.failed_count = Count(results, "failed")]
    BY <1>3 DEF FinalizerSave
  <2> HIDE DEF results
  <2>3. db' \in Row
    BY <1>0, <2>1, <2>2 DEF Row
  <2>4. notices' \in SUBSET Status /\ finalizer' \in Finalizer
    BY <1>0, <1>3 DEF FinalizerSave, TypeOK
  <2> QED
    BY <1>3, <2>3, <2>4 DEF FinalizerSave, TypeOK
<1> QED
  BY <1>1, <1>2, <1>3 DEF FinalizerStep

LEMMA NextTyped == TypeInv /\ [Next]_vars => TypeInv'
<1> SUFFICES ASSUME TypeInv, [Next]_vars PROVE TypeInv'
  OBVIOUS
<1>0. TypeOK /\ CasOK
  BY DEF TypeInv
<1>1. CASE UNCHANGED vars
  BY <1>1 DEF vars, TypeInv, TypeOK, CasOK
<1>2. CASE \E c \in Canceller : CancelRead(c) \/ CancelStep(c) \/ CancelScheduleFails(c)
  BY <1>2, CancelTyped
<1>3. CASE /\ TypeOK'
           /\ UNCHANGED canceller
  BY <1>0, <1>3 DEF TypeInv, CasOK
<1>4. CASE RunnerStep \/ DispatchFails \/ SubmitAnswered \/ SubmitFails
  <2>1. UNCHANGED canceller
    BY <1>4 DEF RunnerStep, DispatchFails, SubmitAnswered, SubmitFails, Dispatch, PrepareRead, PrepareSave,
         FinishEmpty, SubmitBatch, BatchEnd, FinalizeResults, FinalizeRefresh, FinalizeCounts, FinalizeStatus,
         FinalizeNotify, PlaybookCheck, PlaybookRecheck, Submit, FailStatus, FailResults, RejectResults, RejectStatus
  <2> QED
    BY <1>0, <1>3, <1>4, <2>1, RunnerTyped
<1>5. CASE \E t \in Target : ThreadStep(t) \/ ThreadAnswer(t)
  <2>1. UNCHANGED canceller
    BY <1>5 DEF ThreadStep, ThreadAnswer, ThreadCheck, ThreadDispatch, ThreadReturns
  <2> QED
    BY <1>0, <1>3, <1>5, <2>1, ThreadTyped
<1>6. CASE ExecutorStep \/ \E h \in Handler : CallbackSave(h)
  <2>1. UNCHANGED canceller
    BY <1>6 DEF ExecutorStep, ReportReady, CallbackRead, CallbackSave
  <2> QED
    BY <1>0, <1>3, <1>6, <2>1, CallbackTyped
<1>7. CASE FinalizerStep
  <2>1. UNCHANGED canceller
    BY <1>7 DEF FinalizerStep, FinalizerCas, FinalizerLoad, FinalizerSave
  <2> QED
    BY <1>0, <1>3, <1>7, <2>1, FinalizerTyped
<1> QED
  BY <1>1, <1>2, <1>4, <1>5, <1>6, <1>7 DEF Next

\* Every column and every value a process keeps in memory has its type, for any
\* number of targets and with every fault; in particular a cancellation that
\* takes effect was one of a pending or of a running job.
THEOREM TypeCorrect == Spec => []TypeOK
<1>1. TypeInv => TypeOK
  BY DEF TypeInv
<1> QED
  BY InitTyped, NextTyped, <1>1, PTL DEF Spec

-----------------------------------------------------------------------------
(* Cancellation stops the dispatch.  A job that runs through sidecars is    *)
(* written to by its runner, the cancel requests and the finalizer only;    *)
(* while batches are under way none of them takes back a cancellation.      *)

Sidecar == kind \in {"script", "files"}
Started == {"batch", "wait", "results", "refresh", "count", "status", "notify", "done"}
Batching == runner.pc \in {"batch", "wait"}

\* No executor takes part.
NoExecutor ==
    /\ runner.pc \in {"new", "queued", "prepare"} \cup Started
    /\ remote.state = "none"
    /\ \A h \in Handler : handler[h].pc = "idle"

\* Only a job whose runner has begun is running or cancelling.
RunningIsStarted == db.status \in {"running", "cancelling"} => runner.pc \in Started

\* The threads that may still start something belong to the current batch.
PoolIsCurrent ==
    \A t \in Target : thread[t] \in {"check", "dispatch"} => runner.pc = "wait" /\ t \in Batch(runner.batch)

\* A running job that was cancelled stays so while its batch is under way.
CancelHolds ==
    cancel.from = "running" =>
        /\ runner.pc \in Started
        /\ Batching => db.status \in CancelStates /\ runner.batch = cancel.batch
        /\ cancel.late \subseteq Batch(cancel.batch)

StopInv == TypeInv /\ (Sidecar => NoExecutor /\ RunningIsStarted /\ PoolIsCurrent /\ CancelHolds)

LEMMA InitStop == Init => StopInv
<1> SUFFICES ASSUME Init PROVE StopInv
  OBVIOUS
<1>1. NoExecutor /\ RunningIsStarted
  BY DEF Init, NoExecutor, RunningIsStarted
<1>2. PoolIsCurrent /\ CancelHolds
  BY DEF Init, PoolIsCurrent, CancelHolds
<1> QED
  BY <1>1, <1>2, InitTyped DEF StopInv

\* A step of the runner after its batches, or before them.
LEMMA RunnerMoves ==
    ASSUME TypeOK, NoExecutor, PoolIsCurrent, CancelHolds, runner.pc # "wait",
           NEW pc \in {"queued", "prepare", "results", "refresh", "count", "status", "notify", "done"},
           runner'.pc = pc, runner.pc \in Started => pc \in Started,
           UNCHANGED <<thread, remote, handler, cancel>>
    PROVE  NoExecutor' /\ PoolIsCurrent' /\ CancelHolds'
<1>1. NoExecutor'
  BY DEF NoExecutor, Started
<1>2. PoolIsCurrent'
  BY DEF PoolIsCurrent
<1>3. CancelHolds'
  BY DEF CancelHolds, Batching
<1> QED
  BY <1>1, <1>2, <1>3

LEMMA RunnerStop ==
    ASSUME StopInv, Sidecar, RunnerStep \/ DispatchFails \/ SubmitAnswered \/ SubmitFails
    PROVE  NoExecutor' /\ RunningIsStarted' /\ PoolIsCurrent' /\ CancelHolds'
<1>0. /\ TypeOK /\ NoExecutor /\ RunningIsStarted /\ PoolIsCurrent /\ CancelHolds
      /\ runner \in Runner /\ db \in Row
      /\ runner.pc \in {"new", "queued", "prepare"} \cup Started
  BY DEF StopInv, TypeInv, TypeOK, NoExecutor
<1>1. ASSUME NEW pc, Goto(pc) PROVE runner'.pc = pc /\ runner'.batch = runner.batch
  BY <1>0, <1>1 DEF Goto, Runner
<1>2. ASSUME NEW st, update_execution_status(st) PROVE db'.status = st
  BY <1>0, <1>2 DEF update_execution_status, Row
<1>3. CASE Dispatch
  <2>1. /\ runner'.pc = "queued" /\ runner.pc = "new"
        /\ UNCHANGED <<db, thread, remote, handler, cancel>>
    BY <1>1, <1>3 DEF Dispatch
  <2>2. NoExecutor' /\ PoolIsCurrent' /\ CancelHolds'
    BY <1>0, <2>1, RunnerMoves DEF Started
  <2> QED
    BY <1>0, <2>1, <2>2 DEF RunningIsStarted, Started
<1>4. CASE DispatchFails
  <2>1. /\ runner'.pc = "done" /\ runner.pc = "new" /\ db'.status = "failed"
        /\ UNCHANGED <<thread, remote, handler, cancel>>
    BY <1>1, <1>2, <1>4 DEF DispatchFails
  <2>2. NoExecutor' /\ PoolIsCurrent' /\ CancelHolds'
    BY <1>0, <2>1, RunnerMoves DEF Started
  <2> QED
    BY <2>1, <2>2 DEF RunningIsStarted
<1>5. CASE PrepareRead
  <2>1. /\ runner'.pc \in {"done", "prepare"} /\ runner.pc = "queued"
        /\ UNCHANGED <<db, thread, remote, handler, cancel>>
    BY <1>1, <1>5 DEF PrepareRead
  <2>2. NoExecutor' /\ PoolIsCurrent' /\ CancelHolds'
    BY <1>0, <2>1, RunnerMoves DEF Started
  <2> QED
    BY <1>0, <2>1, <2>2 DEF RunningIsStarted, Started
<1>6. CASE PrepareSave
  <2>1. /\ runner'.pc = "batch" /\ runner.pc = "prepare"
        /\ UNCHANGED <<thread, remote, handler, cancel>>
    BY <1>1, <1>6 DEF PrepareSave, Sidecar
  <2> QED
    BY <1>0, <2>1 DEF NoExecutor, RunningIsStarted, PoolIsCurrent, CancelHolds, Started
<1>7. CASE SubmitBatch
  <2>1. /\ runner'.pc = "wait" /\ runner.pc = "batch" /\ runner'.batch = runner.batch
        /\ thread' = [t \in Target |-> IF t \in Batch(runner.batch) THEN "check" ELSE thread[t]]
        /\ UNCHANGED <<db, remote, handler, cancel>>
    BY <1>1, <1>7 DEF SubmitBatch
  <2>2. PoolIsCurrent'
    BY <1>0, <2>1 DEF PoolIsCurrent
  <2>3. NoExecutor' /\ RunningIsStarted' /\ CancelHolds'
    BY <1>0, <2>1 DEF NoExecutor, RunningIsStarted, CancelHolds, Batching, Started
  <2> QED
    BY <2>2, <2>3
<1>8. CASE BatchEnd
  <2>1. runner.pc = "wait" /\ \A t \in Batch(runner.batch) : thread[t] = "done"
    BY <1>8 DEF BatchEnd
  <2>2. UNCHANGED <<db, thread, remote, handler, cancel>>
    BY <1>8 DEF BatchEnd
  <2>3. \A t \in Target : thread[t] \notin {"check", "dispatch"}
    BY <1>0, <2>1 DEF PoolIsCurrent
  <2>4. PoolIsCurrent'
    BY <2>2, <2>3 DEF PoolIsCurrent
  <2>5. runner'.pc \in {"results", "batch"}
    BY <1>0, <1>8 DEF BatchEnd, Runner
  <2>6. NoExecutor' /\ RunningIsStarted'
    BY <1>0, <2>2, <2>5 DEF NoExecutor, RunningIsStarted, Started
  <2>7. CancelHolds'
    <3>1. CASE cancel.from = "running"
      <4>1. is_cancelled
        BY <1>0, <2>1, <3>1 DEF CancelHolds, Batching, is_cancelled
      <4>2. runner'.pc = "results"
        BY <1>0, <1>8, <4>1 DEF BatchEnd, Runner
      <4> QED
        BY <1>0, <2>2, <4>2 DEF CancelHolds, Batching, Started
    <3>2. CASE cancel.from # "running"
      BY <2>2, <3>2 DEF CancelHolds
    <3> QED
      BY <3>1, <3>2
  <2> QED
    BY <2>4, <2>6, <2>7
<1>9. CASE FinalizeResults \/ FinalizeRefresh \/ FinalizeCounts \/ FinalizeStatus \/ FinalizeNotify
  <2>1. /\ runner.pc \in {"results", "refresh", "count", "status", "notify"}
        /\ UNCHANGED <<thread, remote, handler, cancel>>
    BY <1>9 DEF FinalizeResults, FinalizeRefresh, FinalizeCounts, FinalizeStatus, FinalizeNotify
  <2>2. runner'.pc \in {"refresh", "count", "status", "notify", "done"}
    BY <1>0, <1>9 DEF FinalizeResults, FinalizeRefresh, FinalizeCounts, FinalizeStatus, FinalizeNotify, Goto, Runner
  <2>3. NoExecutor' /\ PoolIsCurrent' /\ CancelHolds'
    BY <1>0, <2>1, <2>2, RunnerMoves DEF Started
  <2> QED
    BY <2>2, <2>3 DEF RunningIsStarted, Started
<1>10. ASSUME FinishEmpty \/ PlaybookCheck \/ PlaybookRecheck \/ Submit \/ SubmitAnswered \/ SubmitFails
              \/ FailStatus \/ FailResults \/ RejectResults \/ RejectStatus
       PROVE  FALSE
  <2>1. runner.pc \in {"empty", "check", "recheck", "submit", "rpc", "fail", "failresults", "reject", "rejectstatus"}
    BY <1>10 DEF FinishEmpty, PlaybookCheck, PlaybookRecheck, Submit, SubmitAnswered, SubmitFails, FailStatus,
         FailResults, RejectResults, RejectStatus
  <2> QED
    BY <1>0, <2>1 DEF Started
<1> QED
  BY <1>3, <1>4, <1>5, <1>6, <1>7, <1>8, <1>9, <1>10 DEF RunnerStep

LEMMA ThreadStop ==
    ASSUME StopInv, Sidecar, NEW t \in Target, ThreadStep(t) \/ ThreadAnswer(t)
    PROVE  NoExecutor' /\ RunningIsStarted' /\ PoolIsCurrent' /\ CancelHolds'
<1>0. /\ NoExecutor /\ RunningIsStarted /\ PoolIsCurrent /\ CancelHolds
      /\ runner \in Runner
      /\ thread \in [Target -> {"idle", "check", "dispatch", "remote", "done"}]
      /\ cancel \in [from : {"no", "pending", "running"}, batch : Nat, late : SUBSET Target]
  BY DEF StopInv, TypeInv, TypeOK
<1>1. /\ UNCHANGED <<db, remote, handler>>
      /\ runner'.pc = runner.pc /\ runner'.batch = runner.batch
  BY <1>0 DEF ThreadStep, ThreadAnswer, ThreadCheck, ThreadDispatch, ThreadReturns, Runner
<1>2. NoExecutor' /\ RunningIsStarted'
  BY <1>0, <1>1 DEF NoExecutor, RunningIsStarted
<1>3. thread[t] \in {"check", "dispatch", "remote"}
  BY DEF ThreadStep, ThreadAnswer, ThreadCheck, ThreadDispatch, ThreadReturns
<1>4. PoolIsCurrent'
  <2>1. \A u \in Target : thread'[u] = thread[u] \/ u = t
    BY <1>0 DEF ThreadStep, ThreadAnswer, ThreadCheck, ThreadDispatch, ThreadReturns
  <2>2. thread'[t] \in {"check", "dispatch"} => thread[t] \in {"check", "dispatch"}
    BY <1>0 DEF ThreadStep, ThreadAnswer, ThreadCheck, ThreadDispatch, ThreadReturns
  <2> QED
    BY <1>0, <1>1, <2>1, <2>2 DEF PoolIsCurrent
<1>5. CASE UNCHANGED cancel
  BY <1>0, <1>1, <1>2, <1>4, <1>5 DEF CancelHolds, Batching
<1>6. CASE ThreadDispatch(t)
  <2>1. runner.pc = "wait" /\ t \in Batch(runner.batch)
    BY <1>0, <1>6 DEF ThreadDispatch, PoolIsCurrent
  <2>2. cancel'.from = cancel.from /\ cancel'.batch = cancel.batch
        /\ (cancel.from = "running" => cancel'.late = cancel.late \cup {t})
    BY <1>0, <1>6 DEF ThreadDispatch, StartOn
  <2>3. CancelHolds'
    BY <1>0, <1>1, <2>1, <2>2 DEF CancelHolds, Batching
  <2> QED
    BY <1>2, <1>4, <2>3
<1>7. UNCHANGED cancel \/ ThreadDispatch(t)
  BY DEF ThreadStep, ThreadAnswer, ThreadCheck, ThreadReturns
<1> QED
  BY <1>5, <1>6, <1>7

LEMMA CancelStop ==
    ASSUME StopInv, Sidecar, NEW c \in Canceller, CancelRead(c) \/ CancelStep(c) \/ CancelScheduleFails(c)
    PROVE  NoExecutor' /\ RunningIsStarted' /\ PoolIsCurrent' /\ CancelHolds'
<1>0. /\ CasOK /\ NoExecutor /\ RunningIsStarted /\ PoolIsCurrent /\ CancelHolds
      /\ runner \in Runner /\ db \in Row
      /\ cancel \in [from : {"no", "pending", "running"}, batch : Nat, late : SUBSET Target]
  BY DEF StopInv, TypeInv, TypeOK
<1>1. CASE UNCHANGED <<db, runner, thread, remote, handler, cancel>>
  BY <1>0, <1>1 DEF NoExecutor, RunningIsStarted, PoolIsCurrent, CancelHolds, Batching
<1>2. CASE CancelCas(c)
  <2> DEFINE now == canceller[c].status_now
  <2>1. /\ now \in {"pending", "running"}
        /\ UNCHANGED <<thread, remote, handler>>
    BY <1>0, <1>2 DEF CancelCas, CasOK
  <2>2. UNCHANGED runner \/ (runner.pc = "queued" /\ runner'.pc = "done")
    BY <1>0, <1>2 DEF CancelCas, Revoke, Goto, Runner
  <2>3. NoExecutor' /\ PoolIsCurrent'
    BY <1>0, <2>1, <2>2 DEF NoExecutor, PoolIsCurrent, Started
  <2>4. CASE db.status # now
    <3>1. UNCHANGED <<db, cancel>>
      BY <1>2, <2>4 DEF CancelCas
    <3>2. RunningIsStarted' /\ CancelHolds'
      BY <1>0, <2>2, <3>1 DEF RunningIsStarted, CancelHolds, Batching, Started
    <3> QED
      BY <2>3, <3>2
  <2>5. CASE db.status = "pending" /\ now = "pending"
    <3>1. db'.status = "cancelled" /\ cancel'.from = "pending"
      BY <1>0, <1>2, <2>5 DEF CancelCas, Row
    <3> QED
      BY <2>3, <3>1 DEF RunningIsStarted, CancelHolds
  <2>6. CASE db.status = "running" /\ now = "running"
    <3>1. /\ db'.status = "cancelling"
          /\ cancel' = [from |-> "running", batch |-> runner.batch, late |-> {}]
      BY <1>0, <1>2, <2>6 DEF CancelCas, Row
    <3>2. runner.pc \in Started /\ UNCHANGED runner
      BY <1>0, <2>2, <2>6 DEF RunningIsStarted, Started
    <3>3. RunningIsStarted' /\ CancelHolds'
      BY <3>1, <3>2 DEF RunningIsStarted, CancelHolds, CancelStates
    <3> QED
      BY <2>3, <3>3
  <2> QED
    BY <2>1, <2>4, <2>5, <2>6
<1>3. CancelCas(c) \/ UNCHANGED <<db, runner, thread, remote, handler, cancel>>
  BY DEF CancelRead, CancelStep, CancelNotify, CancelSchedule, CancelScheduleFails
<1> QED
  BY <1>1, <1>2, <1>3

LEMMA OthersStop ==
    ASSUME StopInv, Sidecar,
           FinalizerStep \/ ExecutorStep \/ (\E h \in Handler : CallbackSave(h)) \/ UNCHANGED vars
    PROVE  NoExecutor' /\ RunningIsStarted' /\ PoolIsCurrent' /\ CancelHolds'
<1>0. NoExecutor /\ RunningIsStarted /\ PoolIsCurrent /\ CancelHolds /\ db \in Row
  BY DEF StopInv, TypeInv, TypeOK
<1>1. CASE FinalizerStep
  <2>1. UNCHANGED <<runner, thread, remote, handler, cancel>>
    BY <1>1 DEF FinalizerStep, FinalizerCas, FinalizerLoad, FinalizerSave
  <2>2. db'.status = db.status \/ (db.status = "cancelling" /\ db'.status = "cancelled")
    BY <1>0, <1>1 DEF FinalizerStep, FinalizerCas, FinalizerLoad, FinalizerSave, update_execution_status, Row
  <2> QED
    BY <1>0, <2>1, <2>2 DEF NoExecutor, RunningIsStarted, PoolIsCurrent, CancelHolds, Batching, CancelStates
<1>2. ~ExecutorStep /\ ~(\E h \in Handler : CallbackSave(h))
  BY <1>0 DEF NoExecutor, ExecutorStep, ReportReady, CallbackRead, CallbackSave
<1>3. CASE UNCHANGED vars
  BY <1>0, <1>3 DEF vars, NoExecutor, RunningIsStarted, PoolIsCurrent, CancelHolds, Batching
<1> QED
  BY <1>1, <1>2, <1>3

\* Once a running job was cancelled, remote effects start only on the targets of
\* the batch that was in the pool by then, for every number of targets, size
\* of a batch and interleaving of the threads' checks.
THEOREM CancelAlwaysStopsDispatch == Spec => []CancelStopsDispatch
<1>1. ASSUME StopInv, [Next]_vars PROVE StopInv'
  <2>1. TypeInv'
    BY <1>1, NextTyped DEF StopInv
  <2>2. kind' = kind
    BY <1>1 DEF vars, Next, RunnerStep, DispatchFails, SubmitAnswered, SubmitFails, Dispatch, PrepareRead, PrepareSave,
         FinishEmpty, SubmitBatch, BatchEnd, FinalizeResults, FinalizeRefresh, FinalizeCounts, FinalizeStatus,
         FinalizeNotify, PlaybookCheck, PlaybookRecheck, Submit, FailStatus, FailResults, RejectResults, RejectStatus,
         ThreadStep, ThreadAnswer, ThreadCheck, ThreadDispatch, ThreadReturns, ExecutorStep, ReportReady, CallbackRead,
         CallbackSave, CancelRead, CancelStep, CancelCas, CancelNotify, CancelSchedule,
         CancelScheduleFails, FinalizerStep, FinalizerCas, FinalizerLoad,
         FinalizerSave
  <2>3. Sidecar => NoExecutor' /\ RunningIsStarted' /\ PoolIsCurrent' /\ CancelHolds'
    BY <1>1, RunnerStop, ThreadStop, CancelStop, OthersStop DEF Next
  <2> QED
    BY <2>1, <2>2, <2>3 DEF StopInv, Sidecar
<1>2. StopInv => CancelStopsDispatch
  BY DEF StopInv, CancelHolds, CancelStopsDispatch, Sidecar
<1>3. StopInv /\ [Next]_vars => StopInv'
  BY <1>1
<1> QED
  BY InitStop, <1>2, <1>3, PTL DEF Spec
=============================================================================
