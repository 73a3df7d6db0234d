---------------------------- MODULE MonitorAlerts ----------------------------
(***************************************************************************)
(* The alerts one monitoring policy raises for one metric instance         *)
(* (server/apps/monitor) and what the alert center hears of them: the      *)
(* policy scan that creates, counts and recovers alerts, the view that     *)
(* updates or closes one by hand, the policy view that closes them when    *)
(* the policy is disabled or changed, the notifier each of them calls      *)
(* afterwards, and the compensation task that pushes again what was not    *)
(* delivered.                                                              *)
(*                                                                         *)
(* Nothing locks an alert across a read and the write that depends on it:  *)
(* each actor keeps what it read, and a step is one statement, one         *)
(* transaction or one push to the alert center.                            *)
(***************************************************************************)
EXTENDS Naturals, FiniteSets

CONSTANTS
    Types,               \* the alert types explored, "alert" and "no_data"
    Center,              \* notice_type_ids holds the channel of the alert center
    MaxAlerts,           \* bound: alerts ever created
    recovery_condition,  \* quiet windows after which an alert recovers
    MaxRetry,            \* pushes the compensation task tries, 10 in the code
    MaxRequests,         \* bound: requests of operators, closes and edits
    Faults               \* the failures of the environment that may happen

\* "push": the alert center does not take an event.  "error": a scan raises.
\* "crash": a process is killed between two steps.
FaultKind == {"push", "error", "crash"}

ASSUME ConstantsAssumption ==
    /\ Types \subseteq {"alert", "no_data"}
    /\ Center \in BOOLEAN
    /\ MaxAlerts \in Nat
    /\ recovery_condition \in Nat \ {0}
    /\ MaxRetry \in Nat \ {0}
    /\ MaxRequests \in Nat
    /\ Faults \subseteq FaultKind

Id == 1..MaxAlerts
Ended == {"closed", "recovered"}

\* What a window shows.  For thresholds: a value over one, at the level of the
\* alert the scan knows or at a higher one, a quiet value, or nothing.  For
\* no_data: whether there is data within no_data_recovery_period and whether
\* there is none within no_data_period; "both" may hold.
Window(type) == IF type = "alert" THEN {"over", "higher", "quiet", "nothing"}
                ELSE {"data", "nodata", "both"}
Raises(event) == event \in {"over", "higher", "nodata", "both"}

VARIABLES
    type,    \* the alert type
    policy,  \* the row MonitorPolicy
    alerts,  \* the rows MonitorAlert
    scan,    \* scan_policy_task
    recount, \* the window past the watermark last_run_time was counted already
    manual,  \* an operator's request to update or close an alert
    view,    \* an edit of the policy that closes alerts
    left,    \* requests operators may still make
    comp,    \* retry_alert_center_lifecycle_notify_task
    heard,   \* the alerts whose end the alert center was told of
    quiet,   \* observer: different windows found quiet in a row
    failed,  \* observer: scans among them that raised after they had counted
    muted,   \* observer: policy.notice was off at some time
    late,    \* observer: alerts whose start was marked as told after their end
    stale    \* observer: alerts over whose row an outdated copy was saved

vars == <<type, policy, alerts, scan, recount, manual, view, left, comp, heard, quiet, failed, muted, late, stale>>

\* info, notified and retry are info_event_count, alert_center_notified and
\* alert_center_retry_count.  A request that saves an old count while the
\* compensation task is under way may push it over the limit.
Alert == [status : {"none", "new"} \cup Ended, info : 0..recovery_condition,
          notified : BOOLEAN, retry : 0..(MaxRetry + MaxRequests)]
NoAlert == [status |-> "none", info |-> 0, notified |-> TRUE, retry |-> 0]

Action == {"created", "upgraded", "recovered", "closed"}

\* A call of notify_alerts: its alerts and its action; after the pushes also
\* the alerts the channel was meant for and those it took.
Notice == [ids : SUBSET Id, action : Action, hit : SUBSET Id, ok : SUBSET Id]
Notify(ids, action) == [ids |-> ids, action |-> action, hit |-> {}, ok |-> {}]
NoNotice == Notify({}, "created")

TypeOK ==
    /\ type \in {"alert", "no_data"}
    /\ policy \in [enable : BOOLEAN, notice : BOOLEAN]
    /\ alerts \in [Id -> Alert]
    /\ scan \in [pc : {"idle", "detect", "count", "recover", "create", "push", "mark", "end", "lost"},
                 notice : BOOLEAN, again : BOOLEAN, seen : SUBSET Id,
                 event : Window("alert") \cup Window("no_data"), n : Notice]
    /\ recount \in BOOLEAN
    /\ manual \in [pc : {"idle", "save", "push", "mark"}, closes : BOOLEAN, id : Id \cup {0},
                   copy : Alert, n : Notice]
    /\ view \in [pc : {"idle", "commit"}, enable : BOOLEAN, ids : SUBSET Id]
    /\ left \in 0..MaxRequests
    /\ comp \in [pc : {"idle", "push", "mark", "lost"}, ids : SUBSET Id, ok : SUBSET Id]
    /\ heard \in SUBSET Id
    /\ quiet \in 0..recovery_condition
    /\ failed \in 0..recovery_condition
    /\ muted \in BOOLEAN
    /\ late \in SUBSET Id
    /\ stale \in SUBSET Id

ScanIdle == [pc |-> "idle", notice |-> TRUE, again |-> FALSE, seen |-> {}, event |-> "quiet", n |-> NoNotice]
ManualIdle == [pc |-> "idle", closes |-> FALSE, id |-> 0, copy |-> NoAlert, n |-> NoNotice]
ViewIdle == [pc |-> "idle", enable |-> TRUE, ids |-> {}]
CompIdle == [pc |-> "idle", ids |-> {}, ok |-> {}]

Init ==
    /\ type \in Types
    /\ policy = [enable |-> TRUE, notice |-> TRUE]
    /\ alerts = [i \in Id |-> NoAlert]
    /\ scan = ScanIdle
    /\ recount = FALSE
    /\ manual = ManualIdle
    /\ view = ViewIdle
    /\ left = MaxRequests
    /\ comp = CompIdle
    /\ heard = {}
    /\ quiet = 0
    /\ failed = 0
    /\ muted = FALSE
    /\ late = {}
    /\ stale = {}

Active == {i \in Id : alerts[i].status = "new"}
Free == {i \in Id : alerts[i].status = "none"}

-----------------------------------------------------------------------------
(* AlertLifecycleNotifier                                                   *)

\* The alert center may refuse any of the alerts it is sent.
Accepted(ids) == IF "push" \in Faults THEN SUBSET ids ELSE {ids}

\* The sets of alerts the alert-center channel may be meant for.  With the switch
\* off it is told only of the upgrade or the end of an alert whose notice_logs
\* hold a successful "created"; the logs are left out, so any of them may.
_should_notify_channel(ids, action, notice) ==
    CASE ~Center -> {{}}
      [] notice -> {ids}
      [] OTHER -> IF action = "created" THEN {{}} ELSE SUBSET ids

\* The alert center is told of the alerts ok.
Push(action, ok) ==
    heard' = IF action \in {"recovered", "closed"} THEN heard \cup ok ELSE heard

\* _mark_alert_center_notified for the pushes that were taken; the flag goes
\* back to TRUE for the alerts that had no alert-center channel to tell.
Mark(ids, hit, ok) ==
    [i \in Id |-> CASE i \in ids /\ i \in ok -> [alerts[i] EXCEPT !.notified = TRUE, !.retry = 0]
                    [] i \in ids \ (hit \cup ok) -> [alerts[i] EXCEPT !.notified = TRUE]
                    [] OTHER -> alerts[i]]

-----------------------------------------------------------------------------
(* scan_policy_task                                                         *)

\* The window ends now or, two periods or more after the last scan that
\* succeeded, one period past the watermark: what the failed scan saw is
\* scanned again.
ScanStart ==
    /\ scan.pc = "idle"  \* Singleton: one scan of a policy at a time
    /\ policy.enable
    /\ \E again \in {FALSE, recount} :
        scan' = [ScanIdle EXCEPT !.pc = "detect", !.notice = policy.notice, !.again = again]
    /\ UNCHANGED <<type, policy, alerts, recount, manual, view, left, comp, heard, quiet, failed, muted, late, stale>>

\* Mutant of Counted: a value over the threshold does not clear the count.
Counted_NotCleared(i, event) ==
    IF event = "quiet" /\ alerts[i].info < recovery_condition
    THEN [alerts[i] EXCEPT !.info = @ + 1]
    ELSE alerts[i]

\* count_events: info_event_count of an alert, which saturates here.
Counted(i, event) ==
    CASE event = "quiet" /\ alerts[i].info < recovery_condition -> [alerts[i] EXCEPT !.info = @ + 1]
      [] event \in {"over", "higher"} -> [alerts[i] EXCEPT !.info = 0]
      [] OTHER -> alerts[i]

\* The window's data is read, then the active alerts, which the scan keeps
\* (active_alerts is a queryset that is evaluated once, when first used).
ScanDetect ==
    /\ scan.pc = "detect"
    /\ \E event \in Window(type) :
        /\ Raises(event) /\ Active = {} => Free # {}
        /\ scan' = [scan EXCEPT !.pc = IF type = "alert" THEN "count" ELSE "recover",
                                !.seen = Active, !.event = event]
    /\ UNCHANGED <<type, policy, alerts, recount, manual, view, left, comp, heard, quiet, failed, muted, late, stale>>

\* The observers begin anew with an alert and with a value over the threshold.
Starts == scan.seen = {} \/ scan.event \in {"over", "higher"}

ScanCount ==
    /\ scan.pc = "count"
    /\ scan' = [scan EXCEPT !.pc = "recover", !.again = FALSE]
    /\ alerts' = [i \in Id |-> IF i \in scan.seen THEN Counted(i, scan.event) ELSE alerts[i]]
    /\ recount' = TRUE
    /\ quiet' = CASE Starts -> 0
                  [] scan.event = "quiet" /\ ~scan.again /\ quiet + failed < recovery_condition -> quiet + 1
                  [] OTHER -> quiet
    /\ failed' = IF Starts THEN 0 ELSE failed
    /\ UNCHANGED <<type, policy, manual, view, left, comp, heard, muted, late, stale>>

\* The alerts that recover: by their count as it is now, or because the window
\* has data; whether they are still active is not asked.
Recovering ==
    {i \in scan.seen : IF type = "alert" THEN alerts[i].info >= recovery_condition
                       ELSE scan.event \in {"data", "both"}}

EndAs(status, ids) ==
    [i \in Id |-> IF i \in ids THEN [alerts[i] EXCEPT !.status = status, !.notified = FALSE]
                  ELSE alerts[i]]

\* recover_threshold_alerts and recover_no_data_alerts up to the notification.
ScanRecover ==
    /\ scan.pc = "recover"
    /\ scan' = IF Recovering = {} THEN [scan EXCEPT !.pc = "create"]
               ELSE [scan EXCEPT !.pc = "push", !.n = Notify(Recovering, "recovered")]
    /\ alerts' = EndAs("recovered", Recovering)
    /\ UNCHANGED <<type, policy, recount, manual, view, left, comp, heard, quiet, failed, muted, late, stale>>

\* Mutant of Matching: no key of an event equals one of an alert.
Matching_None == {}

\* The alerts of active_alerts_map an event of this window belongs to.
Matching == scan.seen

\* Mutant of _update_existing_alerts_from_events: all the
\* columns of the scan's copy are written.
_update_existing_alerts_from_events_WholeRow(ids) ==
    [i \in Id |-> IF i \in ids THEN [alerts[i] EXCEPT !.status = "new"] ELSE alerts[i]]

\* Writes the level, the value and the content, none of which is modelled, and
\* leaves every other column alone.
_update_existing_alerts_from_events(ids) == alerts

\* The transaction of create_events_and_alerts: an event joins the alert the
\* scan has seen, and may raise its level, or makes a new one.  With the switch
\* off nobody is notified of either.
ScanCreate ==
    LET raised == IF scan.event = "higher" THEN Matching ELSE {}
        done == [scan EXCEPT !.pc = "end", !.seen = {}, !.event = "quiet"]
        Then(ids, action) == IF scan.notice /\ ids # {}
                             THEN [done EXCEPT !.pc = "push", !.n = Notify(ids, action)]
                             ELSE done
    IN /\ scan.pc = "create"
       /\ \/ /\ ~Raises(scan.event)
             /\ scan' = done
             /\ UNCHANGED alerts
          \/ /\ Raises(scan.event)
             /\ Matching # {}
             /\ alerts' = _update_existing_alerts_from_events(raised)
             /\ scan' = Then(raised, "upgraded")
          \/ /\ Raises(scan.event)
             /\ Matching = {}
             /\ \E new \in Free :
                    /\ \A i \in Free : new <= i
                    /\ alerts' = [alerts EXCEPT ![new] = [NoAlert EXCEPT !.status = "new"]]
                    /\ scan' = Then({new}, "created")
       /\ UNCHANGED <<type, policy, recount, manual, view, left, comp, heard, quiet, failed, muted, late, stale>>

ScanPush ==
    /\ scan.pc = "push"
    /\ \E hit \in _should_notify_channel(scan.n.ids, scan.n.action, scan.notice) :
        \E ok \in Accepted(hit) :
            /\ Push(scan.n.action, ok)
            /\ scan' = [scan EXCEPT !.pc = "mark", !.n.hit = hit, !.n.ok = ok]
    /\ UNCHANGED <<type, policy, alerts, recount, manual, view, left, comp, quiet, failed, muted, late, stale>>

ScanMark ==
    /\ scan.pc = "mark"
    /\ alerts' = Mark(scan.n.ids, scan.n.hit, scan.n.ok)
    /\ scan' = [scan EXCEPT !.pc = IF scan.n.action = "recovered" THEN "create" ELSE "end",
                            !.n = NoNotice]
    /\ late' = IF scan.n.action = "recovered" THEN late
               ELSE late \cup {i \in scan.n.ok : alerts[i].status \in Ended}
    /\ UNCHANGED <<type, policy, recount, manual, view, left, comp, heard, quiet, failed, muted, stale>>

\* The watermark moves on; a task that is behind, by any number of windows, scans
\* the next one without reading the policy again.
ScanEnds ==
    /\ scan.pc = "end"
    /\ \/ scan' = ScanIdle
       \/ scan' = [ScanIdle EXCEPT !.pc = "detect", !.notice = scan.notice]
    /\ recount' = FALSE
    /\ UNCHANGED <<type, policy, alerts, manual, view, left, comp, heard, quiet, failed, muted, late, stale>>

\* A step raises: the task fails and frees its lock, and the watermark stays
\* where it was, whatever the scan has written by then.
ScanFails ==
    /\ "error" \in Faults
    /\ scan.pc \notin {"idle", "lost"}
    /\ scan' = ScanIdle
    /\ failed' = IF type = "no_data" \/ scan.pc \in {"detect", "count"} \/ quiet + failed >= recovery_condition
                 THEN failed ELSE failed + 1
    /\ UNCHANGED <<type, policy, alerts, recount, manual, view, left, comp, heard, quiet, muted, late, stale>>

\* The worker is killed: its Singleton lock has no expiry and nobody clears it.
ScanKilled ==
    /\ "crash" \in Faults
    /\ scan.pc \notin {"idle", "lost"}
    /\ scan' = [ScanIdle EXCEPT !.pc = "lost"]
    /\ UNCHANGED <<type, policy, alerts, recount, manual, view, left, comp, heard, quiet, failed, muted, late, stale>>

-----------------------------------------------------------------------------
(* MonitorAlertViewSet.update: an operator closes an alert, or updates it   *)
(* without a word about its status                                          *)

ManualRead ==
    /\ manual.pc = "idle"
    /\ left > 0
    /\ left' = left - 1
    /\ \E i \in Id \ Free, closes \in BOOLEAN :
        manual' = [ManualIdle EXCEPT !.pc = "save", !.closes = closes, !.id = i, !.copy = alerts[i]]
    /\ UNCHANGED <<type, policy, alerts, scan, recount, view, comp, heard, quiet, failed, muted, late, stale>>

\* Mutant of Edited: the flag is left as it was read.
Edited_NotArmed(copy) == IF manual.closes THEN [copy EXCEPT !.status = "closed"] ELSE copy

\* What the serializer makes of the copy: closing an active alert arms the flag.
Edited(copy) ==
    IF manual.closes
    THEN [copy EXCEPT !.status = "closed", !.notified = @ /\ copy.status # "new"]
    ELSE copy

\* Every column of the copy is saved, also over a row that has changed since.
ManualSave ==
    LET row == alerts[manual.id]
        copy == manual.copy
    IN /\ manual.pc = "save"
       /\ alerts' = [alerts EXCEPT ![manual.id] = Edited(copy)]
       /\ manual' = IF copy.status = "new" THEN [ManualIdle EXCEPT !.pc = "push", !.id = manual.id]
                    ELSE ManualIdle
       /\ stale' = IF manual.closes \/ (copy.status = row.status /\ copy.info = row.info) THEN stale
                   ELSE stale \cup {manual.id}
       /\ UNCHANGED <<type, policy, scan, recount, view, left, comp, heard, quiet, failed, muted, late>>

\* The row is read again: it may say something else by now, and then nobody is
\* notified here.
ManualPush ==
    /\ manual.pc = "push"
    /\ IF alerts[manual.id].status # "closed"
       THEN /\ manual' = ManualIdle
            /\ UNCHANGED heard
       ELSE \E hit \in _should_notify_channel({manual.id}, "closed", policy.notice) :
                \E ok \in Accepted(hit) :
                    /\ Push("closed", ok)
                    /\ manual' = [manual EXCEPT !.pc = "mark",
                                                !.n = [Notify({manual.id}, "closed") EXCEPT !.hit = hit, !.ok = ok]]
    /\ UNCHANGED <<type, policy, alerts, scan, recount, view, left, comp, quiet, failed, muted, late, stale>>

ManualMark ==
    /\ manual.pc = "mark"
    /\ alerts' = Mark(manual.n.ids, manual.n.hit, manual.n.ok)
    /\ manual' = ManualIdle
    /\ UNCHANGED <<type, policy, scan, recount, view, left, comp, heard, quiet, failed, muted, late, stale>>

ManualKilled ==
    /\ "crash" \in Faults
    /\ manual.pc # "idle"
    /\ manual' = ManualIdle
    /\ UNCHANGED <<type, policy, alerts, scan, recount, view, left, comp, heard, quiet, failed, muted, late, stale>>

-----------------------------------------------------------------------------
(* MonitorPolicyViewSet.update and partial_update                           *)

\* A change of the notice settings, or enabling the policy, closes nothing.
EditPolicy ==
    /\ view.pc = "idle"
    /\ left > 0
    /\ left' = left - 1
    /\ \E enable \in {policy.enable, TRUE}, notice \in BOOLEAN :
        /\ policy' = [enable |-> enable, notice |-> notice]
        /\ policy' # policy
        /\ muted' = (muted \/ ~notice)
    /\ UNCHANGED <<type, alerts, scan, recount, manual, view, comp, heard, quiet, failed, late, stale>>

\* Disabling the policy, or a change of what it watches, closes its alerts.
ViewReads ==
    /\ view.pc = "idle"
    /\ left > 0
    /\ left' = left - 1
    /\ \E enable \in {policy.enable, FALSE} :
        view' = [pc |-> "commit", enable |-> enable, ids |-> Active]
    /\ UNCHANGED <<type, policy, alerts, scan, recount, manual, comp, heard, quiet, failed, muted, late, stale>>

\* close_alerts and the notification are inside the transaction: the rows stay
\* locked from the write on, and everything shows at once.  Where it is rolled
\* back, the alert center has heard of it all the same.
ViewCommits ==
    /\ view.pc = "commit"
    /\ \E hit \in _should_notify_channel(view.ids, "closed", policy.notice) :
        \E ok \in Accepted(hit) :
            /\ Push("closed", ok)
            /\ \/ /\ policy' = [policy EXCEPT !.enable = view.enable]
                  /\ alerts' = [i \in Id |->
                                  IF i \in view.ids
                                  THEN [alerts[i] EXCEPT !.status = "closed",
                                                         !.notified = i \in ok \/ i \notin hit,
                                                         !.retry = IF i \in ok THEN 0 ELSE @]
                                  ELSE alerts[i]]
               \/ /\ "crash" \in Faults
                  /\ UNCHANGED <<policy, alerts>>
    /\ view' = ViewIdle
    /\ UNCHANGED <<type, scan, recount, manual, left, comp, quiet, failed, muted, late, stale>>

-----------------------------------------------------------------------------
(* retry_alert_center_lifecycle_notify_task                                 *)

\* Mutant of ToRetry: the number of retries is not looked at.
ToRetry_Unbounded == {i \in Id : alerts[i].status \in Ended /\ ~alerts[i].notified}

ToRetry == {i \in Id : alerts[i].status \in Ended /\ ~alerts[i].notified /\ alerts[i].retry < MaxRetry}

CompReads ==
    /\ comp.pc = "idle"
    /\ ToRetry # {}
    /\ comp' = [pc |-> "push", ids |-> ToRetry, ok |-> {}]
    /\ UNCHANGED <<type, policy, alerts, scan, recount, manual, view, left, heard, quiet, failed, muted, late, stale>>

\* push_to_alert_center_only asks neither the policy nor the alert's channels.
CompPush ==
    /\ comp.pc = "push"
    /\ \E ok \in Accepted(comp.ids) :
        /\ comp' = [comp EXCEPT !.pc = "mark", !.ok = ok]
        /\ Push("closed", ok)  \* or "recovered"
    /\ UNCHANGED <<type, policy, alerts, scan, recount, manual, view, left, quiet, failed, muted, late, stale>>

\* Mutant of CompMark: a failed push is not counted.
CompMark_NotCounted ==
    /\ comp.pc = "mark"
    /\ alerts' = [i \in Id |-> IF i \in comp.ok THEN [alerts[i] EXCEPT !.notified = TRUE, !.retry = 0]
                               ELSE alerts[i]]
    /\ comp' = CompIdle
    /\ UNCHANGED <<type, policy, scan, recount, manual, view, left, heard, quiet, failed, muted, late, stale>>

CompMark ==
    /\ comp.pc = "mark"
    /\ alerts' = [i \in Id |->
                    CASE i \in comp.ok -> [alerts[i] EXCEPT !.notified = TRUE, !.retry = 0]
                      [] i \in comp.ids \ comp.ok -> [alerts[i] EXCEPT !.retry = @ + 1]
                      [] OTHER -> alerts[i]]
    /\ comp' = CompIdle
    /\ UNCHANGED <<type, policy, scan, recount, manual, view, left, heard, quiet, failed, muted, late, stale>>

\* Like a scan, it never runs again once its worker was killed.
CompKilled ==
    /\ "crash" \in Faults
    /\ comp.pc \in {"push", "mark"}
    /\ comp' = [CompIdle EXCEPT !.pc = "lost"]
    /\ UNCHANGED <<type, policy, alerts, scan, recount, manual, view, left, heard, quiet, failed, muted, late, stale>>

-----------------------------------------------------------------------------
ScanStep == ScanDetect \/ ScanCount \/ ScanRecover \/ ScanCreate \/ ScanPush \/ ScanMark \/ ScanEnds
ManualStep == ManualSave \/ ManualPush \/ ManualMark
CompStep == CompReads \/ CompPush \/ CompMark

Next ==
    \/ ScanStart
    \/ ScanStep
    \/ ScanFails
    \/ ScanKilled
    \/ ManualRead
    \/ ManualStep
    \/ ManualKilled
    \/ EditPolicy
    \/ ViewReads
    \/ ViewCommits
    \/ CompStep
    \/ CompKilled

Spec == Init /\ [][Next]_vars

\* Celery beat runs the compensation task every five minutes.  No metric has to
\* recover, nobody has to close anything, and no scan or request has to go on.
Fairness == WF_vars(CompStep)

FairSpec == Spec /\ Fairness

-----------------------------------------------------------------------------
(* Properties                                                               *)

\* A metric instance has one active alert of a type: the scan is the only one
\* that creates them, one runs at a time, and the copy of the active alerts it
\* works from is at most one window old.  Alerts an outdated copy was saved over
\* are left out: that save makes an ended alert active again, beside a new one.
OneActiveAlert == Cardinality(Active \ stale) <= 1

\* The flag alert_center_notified can be trusted: an alert that has ended and
\* is marked has been heard of by the alert center, if its channels name it and
\* the policy's notice switch was never off.  The compensation task looks at
\* nothing else, so a flag that is set too early loses the event.  (The one case
\* in which the code does set it too early is excused by late: the notification
\* of the start is marked after the end has armed the flag.)
FlagIsHonest ==
    \A i \in Id \ late :
        alerts[i].status \in Ended /\ alerts[i].notified /\ Center /\ ~muted => i \in heard

\* An alert that has ended stays ended: neither the scan's copy of the active
\* alerts nor a late close brings it back.  One step does: a request that does not
\* close saves the copy it read while the alert was active, status and all.
EndedStaysEnded ==
    [][\A i \in Id : alerts[i].status \in Ended =>
          \/ alerts'[i].status \in Ended
          \/ manual.pc = "save" /\ ~manual.closes /\ manual.id = i /\ manual.copy.status = "new"]_vars

\* "N consecutive periods" (white paper of the monitor): a threshold alert
\* recovers only after recovery_condition different quiet windows, none over the
\* threshold in between.  A scan that raises after it has counted may make one
\* window count twice, so each such scan may save one window, and no more; and a
\* stale copy of the count may have been saved over the alert's.
RecoversAfterQuiet ==
    [][\A i \in Id \ stale :
        type = "alert" /\ alerts[i].status = "new" /\ alerts'[i].status = "recovered"
            => quiet + failed >= recovery_condition]_vars

\* The end of an alert reaches the alert center, unless the retries are used
\* up, the notice switch was off, a stale copy undid the end, or the compensation
\* task's worker was killed and left its lock behind: a push that fails, or a
\* process that dies between the write and the push, is made good.
EndReachesCenter ==
    \A i \in Id :
        alerts[i].status \in Ended /\ Center
            ~> \/ i \in heard \cup late \cup stale
               \/ alerts[i].retry >= MaxRetry
               \/ muted
               \/ comp.pc = "lost"
=============================================================================
