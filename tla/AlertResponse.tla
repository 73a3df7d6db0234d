---------------------------- MODULE AlertResponse ----------------------------
(***************************************************************************)
(* The response to one alert of the alert center (server/apps/alerts):     *)
(* the row Alert with its operators, its reminder task and its escalation  *)
(* task, and the actors that share them: people who assign, claim,         *)
(* reassign, close or resolve it, the reminder and the escalation scans    *)
(* that run every minute, the auto-close task, recovery, and an            *)
(* administrator who edits the assignment rule.                            *)
(*                                                                         *)
(* A transaction that locks the Alert row is one step.  Recovery, the      *)
(* deletion of a strategy and the edit of a rule read without that lock    *)
(* and write later: each is two steps or more.  Times are abstracted to    *)
(* "due": a timer that is set may become due at any later moment.          *)
(***************************************************************************)
EXTENDS Integers, Sequences, FiniteSets

CONSTANTS
    User,       \* people
    Assignee,   \* the lists of people an assignment or reassignment may name
    Personnel,  \* assignment.personnel, the people the rule assigns to
    UILayers,   \* the layers of the rule's escalation config; <<>>: no chain
    Mode,       \* the escalation mode, "append" or "replace"
    Budgets,    \* the values of max_count a rule may be given; 0: unlimited
    Scanner,    \* check_and_send_reminders tasks that may overlap
    MaxEdits,   \* bound: edits of the rule
    CountCap,   \* bound: where reminder_count saturates when it is unlimited
    Faults      \* the failures of the environment that may happen

\* "broker": a notification task is refused by the broker.  "crash": a Celery
\* worker dies between the reminder's notification and its bookkeeping, or the
\* bookkeeping itself fails.
FaultKind == {"broker", "crash"}

ASSUME ConstantsAssumption ==
    /\ Assignee \in SUBSET (SUBSET User)
    /\ Personnel \in SUBSET User
    /\ UILayers \in Seq(SUBSET User)
    /\ Mode \in {"append", "replace"}
    /\ Budgets \in SUBSET Nat
    /\ IsFiniteSet(Scanner)
    /\ MaxEdits \in Nat
    /\ CountCap \in Nat
    /\ \A m \in Budgets : m < CountCap
    /\ Faults \in SUBSET FaultKind

ACTIVATE_STATUS == {"unassigned", "pending", "processing"}
Finished == {"resolved", "closed", "auto_close", "auto_recovery"}
Status == ACTIVATE_STATUS \cup Finished

\* "none": not a session alert.
SessionStatus == {"none", "observing", "confirmed", "recovered"}

\* Where the observer of the reminders sent stops counting.
SentCap == CountCap + Cardinality(Scanner)

\* The initial assignees are the first layer, the configured ones follow.
build_effective_chain ==
    IF Personnel = {} THEN UILayers ELSE <<Personnel>> \o UILayers

Chain == IF UILayers = <<>> THEN <<>> ELSE build_effective_chain
Layer == 1..Len(Chain)
LastLayer == Len(Chain)

\* The people of the layers up to k.
UpTo(k) == UNION {Chain[i] : i \in 1..k}

compute_roster(k) == IF Mode = "replace" THEN Chain[k] ELSE UpTo(k)

NoReminders == -1  \* the rule has no notification frequency for the alert's level

VARIABLES
    alert,   \* the row Alert
    rem,     \* the row AlertReminderTask of this alert
    esc,     \* the row AlertEscalationTask of this alert
    rule,    \* the row AlertAssignment: enabled, and its reminder budget
    sender,  \* the reminder scans: how far each is with a reminder it decided on
    writer,  \* recovery or strategy deletion, between its read and its writes
    editor,  \* an edit of the rule, between its read and its writes
    round    \* observer: the reminders sent since the reminder task was reset

vars == <<alert, rem, esc, rule, sender, writer, editor, round>>

Budget == Budgets \cup {NoReminders}
Rule == [on : BOOLEAN, budget : Budget]

\* max is current_max_reminders, the copy of the rule's budget.
Reminder == [exists : BOOLEAN, active : BOOLEAN, count : 0..CountCap, max : Budgets \cup {0}, due : BOOLEAN]
NoReminder == [exists |-> FALSE, active |-> FALSE, count |-> 0, max |-> 0, due |-> FALSE]

\* layer is current_layer_index, counted from 1.
Escalation == [exists : BOOLEAN, active : BOOLEAN, layer : Layer \cup {1}, due : BOOLEAN]
NoEscalation == [exists |-> FALSE, active |-> FALSE, layer |-> 1, due |-> FALSE]

TypeOK ==
    /\ alert \in [status : Status, operator : SUBSET User, session : SessionStatus]
    /\ rem \in Reminder
    /\ esc \in Escalation
    /\ rule \in Rule
    /\ sender \in [Scanner -> {"idle", "enqueue", "advance"}]
    /\ writer \in [pc : {"idle", "write", "stop"}, kind : {"recovery", "deletion"}, session : SessionStatus]
    /\ editor \in [pc : {"idle", "save"}, rule : Rule, rem : Reminder, left : 0..MaxEdits]
    /\ round \in [sent : 0..SentCap, exact : BOOLEAN]

Init ==
    /\ alert \in [status : {"unassigned"}, operator : {{}}, session : {"none", "observing"}]
    /\ rem = NoReminder
    /\ esc = NoEscalation
    /\ rule \in [on : {TRUE}, budget : Budgets]
    /\ sender = [s \in Scanner |-> "idle"]
    /\ writer = [pc |-> "idle", kind |-> "recovery", session |-> "none"]
    /\ editor = [pc |-> "idle", rule |-> rule, rem |-> NoReminder, left |-> MaxEdits]
    /\ round = [sent |-> 0, exact |-> TRUE]

\* A session alert is notified about only once it is confirmed.
Notifiable == alert.session \in {"none", "confirmed"}

\* An edit holds the lock of the AlertAssignment row: the scans lock that row
\* too, and skip the alert or wait.
RuleLocked == editor.pc = "save"

-----------------------------------------------------------------------------
(* ReminderService and EscalationService: the tasks of an alert            *)

NewRound == round' = [sent |-> 0, exact |-> TRUE]
Inexact == [sent |-> 0, exact |-> FALSE]

\* Mutant of create_reminder_task: a rule without a frequency is not looked for.
create_reminder_task_NoCheck ==
    IF rem.active
    THEN UNCHANGED <<rem, round>>
    ELSE /\ rem' = [exists |-> TRUE, active |-> TRUE, count |-> 0,
                    max |-> rule.budget, due |-> FALSE]
         /\ NewRound

\* A task that is active is left as it is; an inactive one is started afresh.
create_reminder_task ==
    IF rule.budget = NoReminders \/ rem.active
    THEN UNCHANGED <<rem, round>>
    ELSE /\ rem' = [exists |-> TRUE, active |-> TRUE, count |-> 0,
                    max |-> rule.budget, due |-> FALSE]
         /\ NewRound

\* The rule is the one named in the request, or the one of the alert's task;
\* either way it must be enabled.
ensure_reminder_task(withRule) ==
    IF rule.on /\ (withRule \/ rem.exists)
    THEN create_reminder_task
    ELSE UNCHANGED <<rem, round>>

Stopped(task) == [task EXCEPT !.active = FALSE]

\* The last layer has no wait: it is due at once.
AtLayer(k) == [exists |-> TRUE, active |-> TRUE, layer |-> k, due |-> k = LastLayer]

\* The escalation task and the operators after create_escalation_task.
create_escalation_task(operator) ==
    IF Chain = <<>>
    THEN [esc |-> esc, operator |-> operator]
    ELSE [esc |-> AtLayer(1), operator |-> operator \cup Chain[1]]

\* Whether the rule is still enabled is asked only of a rule the request names.
reset_escalation_task(withRule, operator) ==
    IF (withRule /\ rule.on) \/ esc.exists
    THEN create_escalation_task(operator)
    ELSE [esc |-> esc, operator |-> operator]

-----------------------------------------------------------------------------
(* AlertOperator: what people do to the alert, under the lock of its row    *)

_assign_alert(assignee, withRule) ==
    /\ alert.status = "unassigned"
    /\ assignee # {}
    /\ LET chain == IF withRule /\ rule.on
                    THEN create_escalation_task(assignee)
                    ELSE [esc |-> esc, operator |-> assignee]
       IN /\ alert' = [alert EXCEPT !.status = "pending", !.operator = chain.operator]
          /\ esc' = chain.esc
    /\ IF withRule /\ rule.on THEN create_reminder_task ELSE UNCHANGED <<rem, round>>
    /\ UNCHANGED <<rule, sender, writer, editor>>

Assign == \E assignee \in Assignee, withRule \in BOOLEAN : _assign_alert(assignee, withRule)

\* Automatic assignment by the rule passes over a session under observation.
AutoAssign ==
    /\ rule.on
    /\ Notifiable
    /\ _assign_alert(Personnel, TRUE)

\* Mutant of _acknowledge_alert: only the reminders are stopped.
_acknowledge_alert_EscalationRuns ==
    /\ alert.status = "pending"
    /\ alert.operator # {}
    /\ alert' = [alert EXCEPT !.status = "processing"]
    /\ rem' = Stopped(rem)
    /\ UNCHANGED <<esc, rule, sender, writer, editor, round>>

_acknowledge_alert ==
    /\ alert.status = "pending"
    /\ alert.operator # {}  \* the user who claims it is one of them
    /\ alert' = [alert EXCEPT !.status = "processing"]
    /\ rem' = Stopped(rem)
    /\ esc' = Stopped(esc)
    /\ UNCHANGED <<rule, sender, writer, editor, round>>

\* Mutant of _reassign_alert: the status is not looked at under the lock.
_reassign_alert_AnyStatus ==
    \E assignee \in Assignee, withRule \in BOOLEAN :
        /\ assignee # {}
        /\ alert.operator # {}
        /\ LET chain == reset_escalation_task(withRule, assignee)
           IN /\ alert' = [alert EXCEPT !.status = "pending", !.operator = chain.operator]
              /\ esc' = chain.esc
        /\ ensure_reminder_task(withRule)
        /\ UNCHANGED <<rule, sender, writer, editor>>

_reassign_alert ==
    \E assignee \in Assignee, withRule \in BOOLEAN :
        /\ assignee # {}
        /\ alert.status = "processing"
        /\ alert.operator # {}
        /\ LET chain == reset_escalation_task(withRule, assignee)
           IN /\ alert' = [alert EXCEPT !.status = "pending", !.operator = chain.operator]
              /\ esc' = chain.esc
        /\ ensure_reminder_task(withRule)
        /\ UNCHANGED <<rule, sender, writer, editor>>

\* _close_alert and _resolve_alert leave both tasks as they are.
Finish(status) ==
    /\ alert.status = "processing"
    /\ alert.operator # {}
    /\ alert' = [alert EXCEPT !.status = status]
    /\ UNCHANGED <<rem, esc, rule, sender, writer, editor, round>>

_close_alert == Finish("closed")

_resolve_alert == Finish("resolved")

-----------------------------------------------------------------------------
(* Ends that nobody asked for                                               *)

\* Locks the row, looks at the status again, stops the reminders only.
auto_close_alert ==
    /\ Notifiable
    /\ alert.status \in ACTIVATE_STATUS
    /\ alert' = [alert EXCEPT !.status = "auto_close"]
    /\ rem' = Stopped(rem)
    /\ UNCHANGED <<esc, rule, sender, writer, editor, round>>

\* handle_recovery_events and _recover_missing_alert find the alert active;
\* close_observing_session_alerts_by_strategy finds it active and observing.
WriterReads(kind) ==
    /\ writer.pc = "idle"
    /\ alert.status \in ACTIVATE_STATUS
    /\ kind = "deletion" => alert.session = "observing"
    /\ writer' = [pc |-> "write", kind |-> kind, session |-> alert.session]
    /\ UNCHANGED <<alert, rem, esc, rule, sender, editor, round>>

\* check_and_recover_alert writes the status it decided on, whatever the row
\* holds by now, and ends the session if it was under observation when read; it
\* stops the reminders in a statement of its own.
RecoveryWrites ==
    /\ writer.pc = "write"
    /\ writer.kind = "recovery"
    /\ alert' = [alert EXCEPT !.status = "auto_recovery",
                              !.session = IF writer.session = "observing" THEN "recovered" ELSE @]
    /\ writer' = [writer EXCEPT !.pc = "stop", !.session = "none"]
    /\ UNCHANGED <<rem, esc, rule, sender, editor, round>>

RecoveryStops ==
    /\ writer.pc = "stop"
    /\ rem' = Stopped(rem)
    /\ writer' = [writer EXCEPT !.pc = "idle"]
    /\ UNCHANGED <<alert, esc, rule, sender, editor, round>>

\* The deletion of a session strategy stops neither task.
DeletionWrites ==
    /\ writer.pc = "write"
    /\ writer.kind = "deletion"
    /\ alert' = [alert EXCEPT !.status = "closed", !.session = "recovered"]
    /\ writer' = [writer EXCEPT !.pc = "idle", !.kind = "recovery", !.session = "none"]
    /\ UNCHANGED <<rem, esc, rule, sender, editor, round>>

\* The session's observation time runs out, or its strategy changes.
_confirm_session_alert ==
    /\ alert.session = "observing"
    /\ alert.status \in ACTIVATE_STATUS
    /\ alert' = [alert EXCEPT !.session = "confirmed"]
    /\ UNCHANGED <<rem, esc, rule, sender, writer, editor, round>>

-----------------------------------------------------------------------------
(* check_and_send_reminders                                                 *)

\* 0: unlimited.  A rule that is now unlimited overrides the task's own copy.
_get_effective_max_reminders == IF rule.budget = 0 THEN 0 ELSE rem.max

Exhausted ==
    /\ _get_effective_max_reminders > 0
    /\ rem.count >= _get_effective_max_reminders

\* The people a reminder goes to: the chain's while it runs, else the rule's.
active_roster_for_reminder == IF esc.active THEN compute_roster(esc.layer) ELSE Personnel

\* The first transaction of a scan: it ends the task of an alert that no longer
\* waits for an answer or has used up its budget, or decides to send a reminder
\* to the people on the roster now.
check_and_process_reminders(s) ==
    /\ sender[s] = "idle"
    /\ rem.active
    /\ rem.due
    /\ ~RuleLocked
    /\ \/ /\ alert.status # "pending" \/ Exhausted
          /\ rem' = Stopped(rem)
          /\ UNCHANGED sender
       \/ /\ alert.status = "pending"
          /\ ~Exhausted
          /\ Notifiable
          /\ active_roster_for_reminder # {}
          /\ sender' = [sender EXCEPT ![s] = "enqueue"]
          /\ UNCHANGED rem
    /\ UNCHANGED <<alert, esc, rule, writer, editor, round>>

Idle(s) == sender' = [sender EXCEPT ![s] = "idle"]

\* After the commit: sync_notify is queued for the people decided on before.
Enqueue(s) ==
    /\ sender[s] = "enqueue"
    /\ sender' = [sender EXCEPT ![s] = "advance"]
    /\ round' = IF round.exact /\ round.sent < SentCap
                THEN [round EXCEPT !.sent = @ + 1]
                ELSE round
    /\ UNCHANGED <<alert, rem, esc, rule, writer, editor>>

EnqueueFails(s) ==
    /\ "broker" \in Faults
    /\ sender[s] = "enqueue"
    /\ Idle(s)
    /\ UNCHANGED <<alert, rem, esc, rule, writer, editor, round>>

\* The worker dies, or _advance_reminder_after_enqueue raises, which is only
\* logged: a reminder it queued is not counted.
WorkerDies(s) ==
    /\ "crash" \in Faults
    /\ sender[s] # "idle"
    /\ Idle(s)
    /\ round' = IF sender[s] = "advance" THEN Inexact ELSE round
    /\ UNCHANGED <<alert, rem, esc, rule, writer, editor>>

\* Mutant of Counted: the new count is not among the fields that are saved.
Counted_NotSaved == [rem EXCEPT !.due = FALSE]

\* The reminder after one more was sent: it ends when that was the last one.
Counted ==
    LET max == _get_effective_max_reminders
        count == IF rem.count < CountCap THEN rem.count + 1 ELSE rem.count
        last == max > 0 /\ count >= max
    IN [rem EXCEPT !.count = count, !.active = ~last, !.due = @ /\ last]

\* The second transaction looks at everything again.
_advance_reminder_after_enqueue(s) ==
    /\ sender[s] = "advance"
    /\ ~RuleLocked
    /\ Idle(s)
    /\ rem' = IF ~rem.exists \/ ~rem.active THEN rem
              ELSE IF alert.status # "pending" \/ Exhausted THEN Stopped(rem)
              ELSE Counted
    /\ UNCHANGED <<alert, esc, rule, writer, editor, round>>

-----------------------------------------------------------------------------
(* check_and_send_escalations                                               *)

\* Mutant of _advance_layer: the people of the new layer do not become
\* operators.
_advance_layer_NoUnion ==
    LET k == esc.layer + 1
    IN /\ esc' = AtLayer(k)
       /\ UNCHANGED alert
       /\ IF rem.exists
          THEN /\ rem' = [rem EXCEPT !.count = 0, !.active = TRUE, !.due = FALSE]
               /\ NewRound
          ELSE UNCHANGED <<rem, round>>

\* The next layer joins the operators and the reminders start over; the
\* notification itself changes nothing here.
_advance_layer ==
    LET k == esc.layer + 1
    IN /\ esc' = AtLayer(k)
       /\ alert' = [alert EXCEPT !.operator = @ \cup Chain[k]]
       /\ IF rem.exists
          THEN /\ rem' = [rem EXCEPT !.count = 0, !.active = TRUE, !.due = FALSE]
               /\ NewRound
          ELSE UNCHANGED <<rem, round>>

\* Mutant of check_and_process_escalations: an alert nobody waits for keeps
\* its task.
check_and_process_escalations_KeepsTask ==
    /\ esc.active
    /\ ~RuleLocked
    /\ \/ /\ alert.status = "pending" /\ esc.due /\ esc.layer = LastLayer
          /\ esc' = Stopped(esc)
          /\ UNCHANGED <<alert, rem, round>>
       \/ /\ alert.status = "pending" /\ esc.due /\ esc.layer < LastLayer
          /\ _advance_layer
    /\ UNCHANGED <<rule, sender, writer, editor>>

\* Mutant of check_and_process_escalations: the chain ends one layer early.
check_and_process_escalations_OffByOne ==
    /\ esc.active
    /\ ~RuleLocked
    /\ \/ /\ \/ alert.status # "pending"
             \/ esc.due /\ esc.layer >= LastLayer - 1
          /\ esc' = Stopped(esc)
          /\ UNCHANGED <<alert, rem, round>>
       \/ /\ alert.status = "pending"
          /\ esc.due
          /\ esc.layer < LastLayer - 1
          /\ _advance_layer
    /\ UNCHANGED <<rule, sender, writer, editor>>

check_and_process_escalations ==
    /\ esc.active
    /\ ~RuleLocked
    /\ \/ /\ \/ alert.status # "pending"
             \/ esc.due /\ esc.layer >= LastLayer
          /\ esc' = Stopped(esc)
          /\ UNCHANGED <<alert, rem, round>>
       \/ /\ alert.status = "pending"
          /\ esc.due
          /\ esc.layer < LastLayer
          /\ _advance_layer
    /\ UNCHANGED <<rule, sender, writer, editor>>

\* Expired tasks are deleted; only inactive ones expire.
cleanup_reminder_tasks ==
    /\ \/ /\ rem.exists /\ ~rem.active
          /\ rem' = NoReminder
          /\ UNCHANGED esc
       \/ /\ esc.exists /\ ~esc.active
          /\ esc' = NoEscalation
          /\ UNCHANGED rem
    /\ UNCHANGED <<alert, rule, sender, writer, editor, round>>

\* next_reminder_time is reached.
ReminderComesDue ==
    /\ rem.active
    /\ ~rem.due
    /\ rem' = [rem EXCEPT !.due = TRUE]
    /\ UNCHANGED <<alert, esc, rule, sender, writer, editor, round>>

\* The layer has waited wait_minutes since layer_started_at.
LayerComesDue ==
    /\ esc.active
    /\ ~esc.due
    /\ esc' = [esc EXCEPT !.due = TRUE]
    /\ UNCHANGED <<alert, rem, rule, sender, writer, editor, round>>

-----------------------------------------------------------------------------
(* The assignment rule is edited                                            *)

\* perform_update: unless the notification frequency changed and an active
\* reminder depends on it, the rule is all that is written.  The frequency of a
\* level is its interval and its budget; an interval, or another level's
\* frequency, may change alone.
EditRule ==
    \E new \in Rule, frequency \in BOOLEAN :
        /\ editor.pc = "idle"
        /\ editor.left > 0
        /\ new.budget # rule.budget => frequency
        /\ IF frequency /\ rem.active
           THEN /\ editor' = [pc |-> "save", rule |-> new, rem |-> rem, left |-> editor.left - 1]
                /\ UNCHANGED rule
           ELSE /\ editor' = [editor EXCEPT !.rule = new, !.left = @ - 1]
                /\ rule' = new
        /\ round' = IF new.budget = rule.budget THEN round ELSE Inexact
        /\ UNCHANGED <<alert, rem, esc, sender, writer>>

\* _update_related_reminders stops the reminder, or saves all the columns of
\* the copy read before with the new budget; then the transaction commits.
EditSaves ==
    /\ editor.pc = "save"
    /\ rule' = editor.rule
    /\ rem' = IF editor.rule.budget = NoReminders THEN Stopped(rem)
              ELSE [editor.rem EXCEPT !.max = editor.rule.budget]
    /\ editor' = [editor EXCEPT !.pc = "idle", !.rem = NoReminder]
    /\ round' = Inexact
    /\ UNCHANGED <<alert, esc, sender, writer>>

-----------------------------------------------------------------------------
People == Assign \/ _acknowledge_alert \/ _reassign_alert \/ _close_alert \/ _resolve_alert

SenderStep(s) ==
    check_and_process_reminders(s) \/ Enqueue(s) \/ EnqueueFails(s) \/ _advance_reminder_after_enqueue(s)

WriterStep == RecoveryWrites \/ RecoveryStops \/ DeletionWrites

Next ==
    \/ People
    \/ AutoAssign
    \/ auto_close_alert
    \/ \E kind \in {"recovery", "deletion"} : WriterReads(kind)
    \/ WriterStep
    \/ _confirm_session_alert
    \/ \E s \in Scanner : SenderStep(s) \/ WorkerDies(s)
    \/ check_and_process_escalations
    \/ cleanup_reminder_tasks
    \/ ReminderComesDue
    \/ LayerComesDue
    \/ EditRule
    \/ EditSaves

Spec == Init /\ [][Next]_vars

\* Celery beat starts both scans every minute and time passes, so what stays
\* enabled is eventually done; a request or a recovery that has begun goes on
\* to its end.  Nobody has to claim, confirm, close or edit anything.
Fairness ==
    /\ \A s \in Scanner : WF_vars(SenderStep(s))
    /\ WF_vars(check_and_process_escalations)
    /\ WF_vars(ReminderComesDue)
    /\ WF_vars(LayerComesDue)
    /\ WF_vars(WriterStep)
    /\ WF_vars(EditSaves)

FairSpec == Spec /\ Fairness

-----------------------------------------------------------------------------
(* Properties                                                               *)

Quiet == ~rem.active /\ ~esc.active

\* While an alert waits for an answer and its chain runs, everybody the chain
\* has reached is allowed to claim it, whoever it was assigned or reassigned to
\* (_union_into_operator in create_escalation_task and _advance_layer, against
\* _assign_alert and _reassign_alert that overwrite the operators).
ReachedMayClaim ==
    alert.status = "pending" /\ esc.active => UpTo(esc.layer) \subseteq alert.operator

\* A claimed or resolved alert is not escalated: no interleaving of the claim
\* with a scan, a reassignment or an edit of the rule leaves its chain running.
ClaimStopsEscalation == alert.status \in {"processing", "resolved"} => ~esc.active

\* The reminders one roster receives are bounded: scans that overlap may each
\* send one more than the budget before _advance_reminder_after_enqueue counts
\* them, and no more than that.  A round in which the rule's frequency was
\* edited, or a worker died or failed after queueing a reminder, is not held to it.
RoundIsBounded ==
    round.exact /\ rem.exists /\ _get_effective_max_reminders > 0
        => round.sent + 1 <= _get_effective_max_reminders + Cardinality(Scanner)

\* An alert that came to an end, by people, auto-close or recovery, never
\* waits for an answer again, though recovery and the deletion of a strategy
\* write the status without looking at the row.
FinishedStaysFinished ==
    [][alert.status \in Finished => alert'.status \in Finished]_vars

\* An alert nobody claims does not stay with a layer that has a successor: the
\* chain moves on, or the alert no longer waits for an answer.  A chain whose
\* rule was disabled meanwhile is not held to it: the requirement 20260531 stops
\* it there, and the scan, which does not look at assignment.is_active, goes on.
UnclaimedEscalates ==
    \A k \in Layer \ {LastLayer} :
        alert.status = "pending" /\ esc.active /\ esc.layer = k
            ~> alert.status # "pending" \/ esc.layer > k \/ ~rule.on

\* After its end, everybody is eventually left alone for good, although
\* _close_alert, auto-close, recovery and the deletion of a strategy leave the
\* escalation task active, and an edit of the rule that has read the reminder
\* before it was stopped saves it as active again.
FinishedFallsQuiet == alert.status \in Finished ~> []Quiet

\* What the requirement 20260531 (告警升级) says in section 3.2: the people of
\* the last layer go on being reminded once the chain has reached it.
LastLayerIsReminded ==
    [][\A s \in Scanner :
        /\ sender[s] = "idle"
        /\ sender'[s] = "enqueue"
        /\ esc.exists
        /\ esc.layer = LastLayer
        => Chain[LastLayer] \subseteq active_roster_for_reminder]_vars
=============================================================================
