------------------------ MODULE AlertResponseProofs ------------------------
(***************************************************************************)
(* Proofs about AlertResponse, for any people, chain, budgets, number of   *)
(* overlapping scans, edits and faults.                                    *)
(***************************************************************************)
EXTENDS AlertResponse, FiniteSetTheorems, TLAPS

-----------------------------------------------------------------------------
(* Lemmas on the escalation chain and on the tasks                         *)

\* build_effective_chain gives a list of sets of people.
LEMMA ChainTyped ==
    /\ LastLayer \in Nat
    /\ Layer = 1..LastLayer
    /\ \A k \in Layer : Chain[k] \in SUBSET User
    /\ Chain # <<>> => 1 \in Layer
<1>1. Chain \in Seq(SUBSET User)
  <2>1. <<Personnel>> \in Seq(SUBSET User) /\ UILayers \in Seq(SUBSET User)
    BY ConstantsAssumption
  <2>2. <<Personnel>> \o UILayers \in Seq(SUBSET User)
    BY <2>1
  <2> QED
    BY <2>1, <2>2 DEF Chain, build_effective_chain
<1> QED
  BY <1>1 DEF LastLayer, Layer

\* The people reached by the chain grow by the next layer, as _advance_layer
\* adds them.
LEMMA UpToGrows ==
    /\ UpTo(1) = Chain[1]
    /\ \A k \in Nat : UpTo(k + 1) = UpTo(k) \cup Chain[k + 1]
<1>1. UpTo(1) = Chain[1]
  <2>1. 1..1 = {1}
    OBVIOUS
  <2> QED
    BY <2>1 DEF UpTo
<1>2. ASSUME NEW k \in Nat
      PROVE  UpTo(k + 1) = UpTo(k) \cup Chain[k + 1]
  <2>1. 1..(k + 1) = (1..k) \cup {k + 1}
    OBVIOUS
  <2> QED
    BY <2>1 DEF UpTo
<1> QED
  BY <1>1, <1>2

\* Stopping a task, and starting a chain at a layer of it, give tasks.
LEMMA TasksTyped ==
    /\ NoReminder \in Reminder
    /\ NoEscalation \in Escalation
    /\ \A r \in Reminder : Stopped(r) \in Reminder
    /\ \A t \in Escalation : Stopped(t) \in Escalation
    /\ \A k \in Layer : AtLayer(k) \in Escalation
<1>1. 0 \in 0..CountCap
  BY ConstantsAssumption
<1> QED
  BY <1>1 DEF NoReminder, NoEscalation, Reminder, Escalation, Stopped, AtLayer

\* create_escalation_task and reset_escalation_task give a task and operators.
LEMMA ChainStartTyped ==
    ASSUME TypeOK, NEW a \in SUBSET User, NEW b \in BOOLEAN
    PROVE  /\ create_escalation_task(a).esc \in Escalation
           /\ create_escalation_task(a).operator \in SUBSET User
           /\ reset_escalation_task(b, a).esc \in Escalation
           /\ reset_escalation_task(b, a).operator \in SUBSET User
<1>1. /\ create_escalation_task(a).esc \in Escalation
      /\ create_escalation_task(a).operator \in SUBSET User
  <2>1. CASE Chain = <<>>
    BY <2>1 DEF create_escalation_task, TypeOK
  <2>2. CASE Chain # <<>>
    BY <2>2, ChainTyped, TasksTyped DEF create_escalation_task
  <2> QED
    BY <2>1, <2>2
<1> QED
  BY <1>1 DEF reset_escalation_task, TypeOK

\* The number of reminders the observer counts to is a number.
LEMMA SentCapTyped == Cardinality(Scanner) \in Nat /\ SentCap \in Nat
BY ConstantsAssumption, FS_CardinalityType DEF SentCap

\* Starting or keeping the reminder task keeps its type (create_reminder_task).
LEMMA CreateReminderTyped ==
    ASSUME TypeOK, create_reminder_task \/ UNCHANGED <<rem, round>>
    PROVE  rem' \in Reminder /\ round' \in [sent : 0..SentCap, exact : BOOLEAN]
<1>1. CASE UNCHANGED <<rem, round>>
  BY <1>1 DEF TypeOK
<1>2. ASSUME create_reminder_task, ~(rule.budget = NoReminders \/ rem.active)
      PROVE  rem' \in Reminder /\ round' \in [sent : 0..SentCap, exact : BOOLEAN]
  <2>1. rule.budget \in Budgets
    BY <1>2 DEF TypeOK, Rule, Budget
  <2>2. 0 \in 0..CountCap /\ 0 \in 0..SentCap
    BY ConstantsAssumption, SentCapTyped
  <2>3. /\ rem' = [exists |-> TRUE, active |-> TRUE, count |-> 0, max |-> rule.budget, due |-> FALSE]
        /\ round' = [sent |-> 0, exact |-> TRUE]
    BY <1>2 DEF create_reminder_task, NewRound
  <2> QED
    BY <2>1, <2>2, <2>3 DEF Reminder
<1>3. create_reminder_task /\ (rule.budget = NoReminders \/ rem.active) => UNCHANGED <<rem, round>>
  BY DEF create_reminder_task
<1> QED
  BY <1>1, <1>2, <1>3

-----------------------------------------------------------------------------
(* Type correctness                                                        *)

LEMMA InitTyped == Init => TypeOK
<1> SUFFICES ASSUME Init PROVE TypeOK
  OBVIOUS
<1>1. /\ rem \in Reminder /\ esc \in Escalation
  BY TasksTyped DEF Init
<1>2. rule \in Rule
  BY DEF Init, Rule, Budget
<1>3. editor \in [pc : {"idle", "save"}, rule : Rule, rem : Reminder, left : 0..MaxEdits]
  BY <1>2, TasksTyped, ConstantsAssumption DEF Init
<1>4. round \in [sent : 0..SentCap, exact : BOOLEAN]
  BY SentCapTyped DEF Init
<1>5. alert \in [status : Status, operator : SUBSET User, session : SessionStatus]
  BY DEF Init, Status, ACTIVATE_STATUS, SessionStatus
<1>6. writer \in [pc : {"idle", "write", "stop"}, kind : {"recovery", "deletion"}, session : SessionStatus]
  BY DEF Init, SessionStatus
<1> QED
  BY <1>1, <1>2, <1>3, <1>4, <1>5, <1>6 DEF Init, TypeOK

\* Every step of a person keeps the types (AlertOperator).
LEMMA PeopleTyped ==
    ASSUME TypeOK, People \/ AutoAssign
    PROVE  TypeOK'
<1>1. ASSUME NEW a \in SUBSET User, NEW b \in BOOLEAN, _assign_alert(a, b)
      PROVE  TypeOK'
  <2> DEFINE chain == IF b /\ rule.on THEN create_escalation_task(a)
                      ELSE [esc |-> esc, operator |-> a]
  <2>1. chain.esc \in Escalation /\ chain.operator \in SUBSET User
    <3>1. CASE b /\ rule.on
      BY <3>1, ChainStartTyped
    <3>2. CASE ~(b /\ rule.on)
      BY <3>2 DEF TypeOK
    <3> QED
      BY <3>1, <3>2
  <2>2. /\ alert' = [alert EXCEPT !.status = "pending", !.operator = chain.operator]
        /\ esc' = chain.esc
        /\ create_reminder_task \/ UNCHANGED <<rem, round>>
        /\ UNCHANGED <<rule, sender, writer, editor>>
    BY <1>1 DEF _assign_alert
  <2> HIDE DEF chain
  <2>3. rem' \in Reminder /\ round' \in [sent : 0..SentCap, exact : BOOLEAN]
    BY <2>2, CreateReminderTyped
  <2>4. alert' \in [status : Status, operator : SUBSET User, session : SessionStatus]
    BY <2>1, <2>2 DEF TypeOK, Status, ACTIVATE_STATUS
  <2> QED
    BY <2>1, <2>2, <2>3, <2>4 DEF TypeOK
<1>2. CASE Assign
  BY <1>1, <1>2, ConstantsAssumption DEF Assign
<1>3. CASE AutoAssign
  BY <1>1, <1>3, ConstantsAssumption DEF AutoAssign
<1>4. CASE _acknowledge_alert
  BY <1>4, TasksTyped DEF _acknowledge_alert, TypeOK, Status, ACTIVATE_STATUS
<1>5. CASE _reassign_alert
  <2>1. PICK a \in Assignee, b \in BOOLEAN :
          /\ alert' = [alert EXCEPT !.status = "pending", !.operator = reset_escalation_task(b, a).operator]
          /\ esc' = reset_escalation_task(b, a).esc
          /\ ensure_reminder_task(b)
          /\ UNCHANGED <<rule, sender, writer, editor>>
    BY <1>5 DEF _reassign_alert
  <2>2. a \in SUBSET User
    BY ConstantsAssumption
  <2>3. /\ reset_escalation_task(b, a).esc \in Escalation
        /\ reset_escalation_task(b, a).operator \in SUBSET User
    BY <2>2, ChainStartTyped
  <2>4. create_reminder_task \/ UNCHANGED <<rem, round>>
    BY <2>1 DEF ensure_reminder_task
  <2>5. rem' \in Reminder /\ round' \in [sent : 0..SentCap, exact : BOOLEAN]
    BY <2>4, CreateReminderTyped
  <2>6. alert' \in [status : Status, operator : SUBSET User, session : SessionStatus]
    BY <2>1, <2>3 DEF TypeOK, Status, ACTIVATE_STATUS
  <2> QED
    BY <2>1, <2>3, <2>5, <2>6 DEF TypeOK
<1>6. CASE _close_alert \/ _resolve_alert
  BY <1>6 DEF _close_alert, _resolve_alert, Finish, TypeOK, Status, Finished
<1> QED
  BY <1>2, <1>3, <1>4, <1>5, <1>6 DEF People

\* The reminder after one more was sent is a reminder.
LEMMA CountedTyped == TypeOK => Counted \in Reminder
<1> SUFFICES ASSUME TypeOK PROVE Counted \in Reminder
  OBVIOUS
<1> DEFINE count == IF rem.count < CountCap THEN rem.count + 1 ELSE rem.count
           last == _get_effective_max_reminders > 0 /\ count >= _get_effective_max_reminders
<1>1. rem \in Reminder /\ CountCap \in Nat
  BY ConstantsAssumption DEF TypeOK
<1>2. count \in 0..CountCap
  BY <1>1 DEF Reminder
<1>3. last \in BOOLEAN
  OBVIOUS
<1>4. Counted = [rem EXCEPT !.count = count, !.active = ~last, !.due = @ /\ last]
  BY DEF Counted
<1> HIDE DEF count, last
<1> QED
  BY <1>1, <1>2, <1>3, <1>4 DEF Reminder

\* Every step of a reminder scan keeps the types (check_and_send_reminders).
LEMMA SenderTyped ==
    ASSUME TypeOK, NEW s \in Scanner, SenderStep(s) \/ WorkerDies(s)
    PROVE  TypeOK'
<1>1. CASE check_and_process_reminders(s)
  BY <1>1, TasksTyped DEF check_and_process_reminders, TypeOK
<1>2. CASE Enqueue(s)
  <2>1. round' \in [sent : 0..SentCap, exact : BOOLEAN]
    BY <1>2, SentCapTyped DEF Enqueue, TypeOK
  <2> QED
    BY <1>2, <2>1 DEF Enqueue, TypeOK
<1>3. CASE EnqueueFails(s)
  BY <1>3 DEF EnqueueFails, Idle, TypeOK
<1>4. CASE WorkerDies(s)
  <2>1. round' \in [sent : 0..SentCap, exact : BOOLEAN]
    BY <1>4, SentCapTyped DEF WorkerDies, Inexact, TypeOK
  <2> QED
    BY <1>4, <2>1 DEF WorkerDies, Idle, TypeOK
<1>5. CASE _advance_reminder_after_enqueue(s)
  BY <1>5, TasksTyped, CountedTyped DEF _advance_reminder_after_enqueue, Idle, TypeOK
<1> QED
  BY <1>1, <1>2, <1>3, <1>4, <1>5 DEF SenderStep

\* Every step keeps the types.
LEMMA NextTyped == TypeOK /\ [Next]_vars => TypeOK'
<1> SUFFICES ASSUME TypeOK, [Next]_vars PROVE TypeOK'
  OBVIOUS
<1>1. CASE People \/ AutoAssign
  BY <1>1, PeopleTyped
<1>2. CASE auto_close_alert
  BY <1>2, TasksTyped DEF auto_close_alert, TypeOK, Status, Finished
<1>3. ASSUME NEW kind \in {"recovery", "deletion"}, WriterReads(kind)
      PROVE  TypeOK'
  BY <1>3 DEF WriterReads, TypeOK
<1>4. CASE WriterStep
  <2>1. CASE RecoveryWrites
    BY <1>4, <2>1 DEF RecoveryWrites, TypeOK, Status, Finished, SessionStatus
  <2>2. CASE RecoveryStops
    BY <2>2, TasksTyped DEF RecoveryStops, TypeOK
  <2>3. CASE DeletionWrites
    BY <2>3 DEF DeletionWrites, TypeOK, Status, Finished, SessionStatus
  <2> QED
    BY <1>4, <2>1, <2>2, <2>3 DEF WriterStep
<1>5. CASE _confirm_session_alert
  BY <1>5 DEF _confirm_session_alert, TypeOK, SessionStatus
<1>6. ASSUME NEW s \in Scanner, SenderStep(s) \/ WorkerDies(s)
      PROVE  TypeOK'
  BY <1>6, SenderTyped
<1>7. CASE check_and_process_escalations
  <2>1. CASE esc' = Stopped(esc) /\ UNCHANGED <<alert, rem, round>>
    BY <1>7, <2>1, TasksTyped DEF check_and_process_escalations, TypeOK
  <2>2. CASE esc.layer < LastLayer /\ _advance_layer
    <3>1. esc.layer + 1 \in Layer
      BY <2>2, ChainTyped DEF TypeOK, Escalation
    <3>2. esc' \in Escalation /\ Chain[esc.layer + 1] \in SUBSET User
      BY <2>2, <3>1, TasksTyped, ChainTyped DEF _advance_layer
    <3>3. alert' \in [status : Status, operator : SUBSET User, session : SessionStatus]
      BY <2>2, <3>2 DEF _advance_layer, TypeOK
    <3>4. \/ /\ rem' = [rem EXCEPT !.count = 0, !.active = TRUE, !.due = FALSE]
             /\ round' = [sent |-> 0, exact |-> TRUE]
          \/ UNCHANGED <<rem, round>>
      BY <2>2 DEF _advance_layer, NewRound
    <3>5. 0 \in 0..CountCap /\ 0 \in 0..SentCap
      BY ConstantsAssumption, SentCapTyped
    <3>6. rem' \in Reminder
      BY <3>4, <3>5 DEF TypeOK, Reminder
    <3>7. round' \in [sent : 0..SentCap, exact : BOOLEAN]
      <4>1. round \in [sent : 0..SentCap, exact : BOOLEAN]
        BY DEF TypeOK
      <4>2. [sent |-> 0, exact |-> TRUE] \in [sent : 0..SentCap, exact : BOOLEAN]
        BY <3>5
      <4> QED
        BY <3>4, <4>1, <4>2
    <3> QED
      BY <1>7, <3>2, <3>3, <3>6, <3>7 DEF check_and_process_escalations, TypeOK
  <2> QED
    BY <1>7, <2>1, <2>2 DEF check_and_process_escalations
<1>8. CASE cleanup_reminder_tasks
  BY <1>8, TasksTyped DEF cleanup_reminder_tasks, TypeOK
<1>9. CASE ReminderComesDue
  BY <1>9 DEF ReminderComesDue, TypeOK, Reminder
<1>10. CASE LayerComesDue
  BY <1>10 DEF LayerComesDue, TypeOK, Escalation
<1>11. CASE EditRule
  <2>1. PICK new \in Rule :
          /\ editor.left > 0
          /\ \/ /\ editor' = [pc |-> "save", rule |-> new, rem |-> rem, left |-> editor.left - 1]
                /\ UNCHANGED rule
             \/ /\ editor' = [editor EXCEPT !.rule = new, !.left = @ - 1]
                /\ rule' = new
          /\ round' = round \/ round' = Inexact
          /\ UNCHANGED <<alert, rem, esc, sender, writer>>
    BY <1>11 DEF EditRule
  <2>2. editor.left - 1 \in 0..MaxEdits
    BY <2>1, ConstantsAssumption DEF TypeOK
  <2>3. editor' \in [pc : {"idle", "save"}, rule : Rule, rem : Reminder, left : 0..MaxEdits]
    <3>1. /\ rem \in Reminder
          /\ editor \in [pc : {"idle", "save"}, rule : Rule, rem : Reminder, left : 0..MaxEdits]
      BY DEF TypeOK
    <3>2. CASE editor' = [pc |-> "save", rule |-> new, rem |-> rem, left |-> editor.left - 1]
      BY <2>2, <3>1, <3>2
    <3>3. CASE editor' = [editor EXCEPT !.rule = new, !.left = @ - 1]
      BY <2>2, <3>1, <3>3
    <3> QED
      BY <2>1, <3>2, <3>3
  <2>4. round' \in [sent : 0..SentCap, exact : BOOLEAN]
    <3>1. 0 \in 0..SentCap /\ round \in [sent : 0..SentCap, exact : BOOLEAN]
      BY SentCapTyped DEF TypeOK
    <3>2. Inexact \in [sent : 0..SentCap, exact : BOOLEAN]
      BY <3>1 DEF Inexact
    <3> QED
      BY <2>1, <3>1, <3>2
  <2>5. rule' \in Rule
    BY <2>1 DEF TypeOK
  <2> QED
    BY <2>1, <2>3, <2>4, <2>5 DEF TypeOK
<1>12. CASE EditSaves
  <2>1. rem' \in Reminder
    <3>1. CASE editor.rule.budget = NoReminders
      BY <1>12, <3>1, TasksTyped DEF EditSaves, TypeOK
    <3>2. CASE editor.rule.budget # NoReminders
      <4>1. editor.rule.budget \in Budgets /\ editor.rem \in Reminder
        BY <3>2 DEF TypeOK, Rule, Budget
      <4> QED
        BY <1>12, <3>2, <4>1 DEF EditSaves, Reminder
    <3> QED
      BY <3>1, <3>2
  <2>2. round' \in [sent : 0..SentCap, exact : BOOLEAN]
    BY <1>12, SentCapTyped DEF EditSaves, Inexact
  <2>3. editor' \in [pc : {"idle", "save"}, rule : Rule, rem : Reminder, left : 0..MaxEdits]
    BY <1>12, TasksTyped DEF EditSaves, TypeOK
  <2> QED
    BY <1>12, <2>1, <2>2, <2>3 DEF EditSaves, TypeOK
<1>13. CASE UNCHANGED vars
  BY <1>13 DEF vars, TypeOK
<1> QED
  BY <1>1, <1>2, <1>3, <1>4, <1>5, <1>6, <1>7, <1>8, <1>9, <1>10, <1>11, <1>12, <1>13 DEF Next

\* The rows, the scans and the editor always hold values of their types,
\* whatever the chain, the budgets and the number of scans.
THEOREM TypeCorrect == Spec => []TypeOK
BY InitTyped, NextTyped, PTL DEF Spec

-----------------------------------------------------------------------------
(* The chain and the operators.  ReachedMayClaim and ClaimStopsEscalation  *)
(* are inductive only together, with the fact that an alert nobody was     *)
(* assigned to has no chain: _assign_alert and _reassign_alert may leave   *)
(* the task as it is while they overwrite the operators.                   *)

ChainRests == alert.status \in {"unassigned", "processing", "resolved"} => ~esc.active

ChainInv == TypeOK /\ ChainRests /\ ReachedMayClaim

\* What create_escalation_task leaves, if no chain ran before: those the chain
\* has reached are among the operators.
LEMMA ChainStartReaches ==
    ASSUME ~esc.active, NEW a \in SUBSET User, NEW b \in BOOLEAN
    PROVE  /\ create_escalation_task(a).esc.active =>
                 UpTo(create_escalation_task(a).esc.layer) \subseteq create_escalation_task(a).operator
           /\ reset_escalation_task(b, a).esc.active =>
                 UpTo(reset_escalation_task(b, a).esc.layer) \subseteq reset_escalation_task(b, a).operator
<1>1. create_escalation_task(a).esc.active =>
        UpTo(create_escalation_task(a).esc.layer) \subseteq create_escalation_task(a).operator
  <2>1. CASE Chain = <<>>
    BY <2>1 DEF create_escalation_task
  <2>2. CASE Chain # <<>>
    <3>1. /\ create_escalation_task(a).esc.layer = 1
          /\ create_escalation_task(a).operator = a \cup Chain[1]
      BY <2>2 DEF create_escalation_task, AtLayer
    <3> QED
      BY <3>1, UpToGrows
  <2> QED
    BY <2>1, <2>2
<1> QED
  BY <1>1 DEF reset_escalation_task

LEMMA InitChain == Init => ChainInv
<1> SUFFICES ASSUME Init PROVE ChainInv
  OBVIOUS
<1>1. ~esc.active
  BY DEF Init, NoEscalation
<1> QED
  BY <1>1, InitTyped DEF ChainInv, ChainRests, ReachedMayClaim

\* A step that leaves the alert's status and operators alone, and the chain at
\* its layer or stopped, disturbs nothing.
LEMMA ChainKept ==
    ASSUME ChainInv,
           alert'.status = alert.status \/ alert'.status \notin {"unassigned", "pending", "processing", "resolved"},
           alert'.operator = alert.operator,
           esc'.layer = esc.layer \/ ~esc'.active,
           esc'.active => esc.active
    PROVE  ChainRests' /\ ReachedMayClaim'
<1>1. ChainRests'
  BY DEF ChainInv, ChainRests
<1>2. ReachedMayClaim'
  <2> SUFFICES ASSUME alert'.status = "pending", esc'.active
               PROVE  UpTo(esc'.layer) \subseteq alert'.operator
    BY DEF ReachedMayClaim, UpTo, Chain, build_effective_chain
  <2>1. alert.status = "pending" /\ esc.active /\ esc'.layer = esc.layer
    OBVIOUS
  <2> QED
    BY <2>1 DEF ChainInv, ReachedMayClaim
<1> QED
  BY <1>1, <1>2

LEMMA NextChain == ChainInv /\ [Next]_vars => ChainInv'
<1> SUFFICES ASSUME ChainInv, [Next]_vars PROVE ChainRests' /\ ReachedMayClaim'
  BY NextTyped DEF ChainInv
<1>0. /\ TypeOK
      /\ alert \in [status : Status, operator : SUBSET User, session : SessionStatus]
      /\ esc \in Escalation
  BY DEF ChainInv, TypeOK
<1>1. ASSUME NEW a \in SUBSET User, NEW b \in BOOLEAN, _assign_alert(a, b)
      PROVE  ChainRests' /\ ReachedMayClaim'
  <2>1. ~esc.active
    BY <1>1 DEF _assign_alert, ChainInv, ChainRests
  <2>2. alert'.status = "pending"
    BY <1>0, <1>1 DEF _assign_alert
  <2>3. esc'.active => UpTo(esc'.layer) \subseteq alert'.operator
    <3>1. CASE b /\ rule.on
      BY <1>0, <1>1, <2>1, <3>1, ChainStartReaches DEF _assign_alert
    <3>2. CASE ~(b /\ rule.on)
      BY <1>1, <2>1, <3>2 DEF _assign_alert
    <3> QED
      BY <3>1, <3>2
  <2> QED
    BY <2>2, <2>3 DEF ChainRests, ReachedMayClaim
<1>2. CASE Assign
  BY <1>1, <1>2, ConstantsAssumption DEF Assign
<1>3. CASE AutoAssign
  BY <1>1, <1>3, ConstantsAssumption DEF AutoAssign
<1>4. CASE _acknowledge_alert
  BY <1>0, <1>4 DEF _acknowledge_alert, Stopped, Escalation, ChainRests, ReachedMayClaim
<1>5. CASE _reassign_alert
  <2>1. PICK a \in Assignee, b \in BOOLEAN :
          /\ alert.status = "processing"
          /\ alert' = [alert EXCEPT !.status = "pending", !.operator = reset_escalation_task(b, a).operator]
          /\ esc' = reset_escalation_task(b, a).esc
    BY <1>5 DEF _reassign_alert
  <2>2. ~esc.active /\ a \in SUBSET User
    BY <2>1, ConstantsAssumption DEF ChainInv, ChainRests
  <2>3. esc'.active => UpTo(esc'.layer) \subseteq alert'.operator
    BY <1>0, <2>1, <2>2, ChainStartReaches
  <2> QED
    BY <1>0, <2>1, <2>3 DEF ChainRests, ReachedMayClaim
<1>6. CASE _close_alert \/ _resolve_alert
  <2>1. ~esc'.active /\ alert'.status # "pending"
    BY <1>0, <1>6 DEF _close_alert, _resolve_alert, Finish, ChainInv, ChainRests
  <2> QED
    BY <2>1 DEF ChainRests, ReachedMayClaim
<1>7. CASE auto_close_alert \/ RecoveryWrites \/ DeletionWrites
  <2>1. alert'.status \in {"auto_close", "auto_recovery", "closed"}
    BY <1>0, <1>7 DEF auto_close_alert, RecoveryWrites, DeletionWrites
  <2> QED
    BY <2>1 DEF ChainRests, ReachedMayClaim
<1>8. CASE _confirm_session_alert
  BY <1>0, <1>8, ChainKept DEF _confirm_session_alert
<1>9. CASE check_and_process_escalations
  <2>1. CASE esc' = Stopped(esc) /\ UNCHANGED <<alert, rem, round>>
    BY <1>0, <2>1, ChainKept DEF Stopped, Escalation
  <2>2. CASE alert.status = "pending" /\ esc.active /\ esc.layer < LastLayer /\ _advance_layer
    <3>1. esc.layer \in Nat
      BY <1>0, ChainTyped DEF Escalation
    <3>2. /\ esc'.layer = esc.layer + 1
          /\ alert'.operator = alert.operator \cup Chain[esc.layer + 1]
          /\ alert'.status = "pending"
      BY <1>0, <2>2 DEF _advance_layer, AtLayer
    <3>3. UpTo(esc.layer) \subseteq alert.operator
      BY <2>2 DEF ChainInv, ReachedMayClaim
    <3>4. UpTo(esc'.layer) \subseteq alert'.operator
      BY <3>1, <3>2, <3>3, UpToGrows
    <3> QED
      BY <3>2, <3>4 DEF ChainRests, ReachedMayClaim
  <2> QED
    BY <1>9, <2>1, <2>2 DEF check_and_process_escalations
<1>10. CASE cleanup_reminder_tasks
  BY <1>10, ChainKept DEF cleanup_reminder_tasks, NoEscalation
<1>11. CASE LayerComesDue
  BY <1>0, <1>11, ChainKept DEF LayerComesDue, Escalation
<1>12. CASE UNCHANGED <<alert, esc>>
  BY <1>12, ChainKept
<1>13. \/ \E kind \in {"recovery", "deletion"} : WriterReads(kind)
       \/ RecoveryStops
       \/ \E s \in Scanner : SenderStep(s) \/ WorkerDies(s)
       \/ ReminderComesDue
       \/ EditRule
       \/ EditSaves
       \/ UNCHANGED vars
       => UNCHANGED <<alert, esc>>
  BY DEF WriterReads, RecoveryStops, SenderStep, WorkerDies, check_and_process_reminders, Enqueue,
         EnqueueFails, _advance_reminder_after_enqueue, ReminderComesDue, EditRule, EditSaves, vars
<1> QED
  BY <1>2, <1>3, <1>4, <1>5, <1>6, <1>7, <1>8, <1>9, <1>10, <1>11, <1>12, <1>13 DEF Next, People, WriterStep

\* Everybody the running chain has reached may claim the alert, in every
\* interleaving, for every chain in both modes.
THEOREM ReachedMayAlwaysClaim == Spec => []ReachedMayClaim
<1>1. ChainInv => ReachedMayClaim
  BY DEF ChainInv
<1> QED
  BY <1>1, InitChain, NextChain, PTL DEF Spec

\* A claimed or resolved alert is never escalated.
THEOREM ClaimAlwaysStopsEscalation == Spec => []ClaimStopsEscalation
<1>1. ChainInv => ClaimStopsEscalation
  BY DEF ChainInv, ChainRests, ClaimStopsEscalation
<1> QED
  BY <1>1, InitChain, NextChain, PTL DEF Spec

-----------------------------------------------------------------------------
(* The end of an alert is final                                            *)

LEMMA FinishedStep ==
    TypeOK /\ [Next]_vars => (alert.status \in Finished => alert'.status \in Finished)
<1> SUFFICES ASSUME TypeOK, [Next]_vars, alert.status \in Finished
             PROVE  alert'.status \in Finished
  OBVIOUS
<1>0. /\ alert \in [status : Status, operator : SUBSET User, session : SessionStatus]
      /\ alert.status \notin {"unassigned", "pending", "processing"}
  BY DEF TypeOK, Finished
<1>1. ~People /\ ~AutoAssign
  BY <1>0 DEF People, Assign, AutoAssign, _assign_alert, _acknowledge_alert, _reassign_alert,
              _close_alert, _resolve_alert, Finish
<1>2. CASE auto_close_alert \/ RecoveryWrites \/ DeletionWrites
  BY <1>0, <1>2 DEF auto_close_alert, RecoveryWrites, DeletionWrites, Finished
<1>3. CASE _confirm_session_alert
  BY <1>0, <1>3 DEF _confirm_session_alert, ACTIVATE_STATUS
<1>4. CASE check_and_process_escalations
  BY <1>0, <1>4 DEF check_and_process_escalations
<1>5. CASE cleanup_reminder_tasks \/ LayerComesDue
  BY <1>5 DEF cleanup_reminder_tasks, LayerComesDue
<1>6. \/ \E kind \in {"recovery", "deletion"} : WriterReads(kind)
      \/ RecoveryStops
      \/ \E s \in Scanner : SenderStep(s) \/ WorkerDies(s)
      \/ ReminderComesDue
      \/ EditRule
      \/ EditSaves
      \/ UNCHANGED vars
      => UNCHANGED alert
  BY DEF WriterReads, RecoveryStops, SenderStep, WorkerDies, check_and_process_reminders, Enqueue,
         EnqueueFails, _advance_reminder_after_enqueue, ReminderComesDue, EditRule, EditSaves, vars
<1> QED
  BY <1>1, <1>2, <1>3, <1>4, <1>5, <1>6 DEF Next, WriterStep

\* No step, the writes of recovery and deletion that look at nothing among
\* them, takes an alert that has come to an end back to waiting.
THEOREM FinishedIsFinal == Spec => FinishedStaysFinished
<1>1. TypeOK /\ [Next]_vars => [alert.status \in Finished => alert'.status \in Finished]_vars
  BY FinishedStep
<1> QED
  BY <1>1, TypeCorrect, PTL DEF Spec, FinishedStaysFinished

-----------------------------------------------------------------------------
(* The reminders of one round.  A scan between its decision and its        *)
(* bookkeeping carries a reminder that is not counted yet: the bound is    *)
(* inductive only with the number of scans in each of these two states.    *)

Deciding == {s \in Scanner : sender[s] = "enqueue"}
Advancing == {s \in Scanner : sender[s] = "advance"}

\* A round that is held to its budget.
Bound == round.exact /\ rem.exists /\ _get_effective_max_reminders > 0

\* While the task is active every reminder sent is counted or about to be.
SentIsCounted == Bound /\ rem.active => round.sent <= rem.count + Cardinality(Advancing)

\* The reminders sent and decided on exceed the budget by less than the number
\* of scans.
SentIsBounded ==
    Bound => round.sent + Cardinality(Deciding) + 1 <= _get_effective_max_reminders + Cardinality(Scanner)

RoundInv == TypeOK /\ SentIsCounted /\ SentIsBounded

\* The count and the budget of a reminder are numbers below CountCap.
LEMMA ReminderNumbers ==
    ASSUME NEW r \in Reminder
    PROVE  r.count \in Nat /\ r.max \in Nat /\ (r.max > 0 => r.max < CountCap)
<1>1. r.count \in 0..CountCap /\ r.max \in Budgets \cup {0}
  BY DEF Reminder
<1>2. r.count \in Nat
  BY <1>1, ConstantsAssumption
<1>3. CASE r.max \in Budgets
  <2>1. r.max \in Nat /\ r.max < CountCap
    BY <1>3, ConstantsAssumption
  <2> QED
    BY <1>2, <2>1
<1>4. CASE r.max = 0
  BY <1>2, <1>4
<1> QED
  BY <1>1, <1>3, <1>4

\* Scans in the one state and in the other are different scans.
LEMMA ScansCounted ==
    ASSUME NEW D \in SUBSET Scanner, NEW A \in SUBSET Scanner, D \cap A = {}
    PROVE  /\ IsFiniteSet(D) /\ IsFiniteSet(A)
           /\ Cardinality(D) \in Nat /\ Cardinality(A) \in Nat /\ Cardinality(Scanner) \in Nat
           /\ Cardinality(D) + Cardinality(A) <= Cardinality(Scanner)
<1>1. IsFiniteSet(Scanner)
  BY ConstantsAssumption
<1>2. IsFiniteSet(D) /\ IsFiniteSet(A) /\ IsFiniteSet(D \cup A)
  BY <1>1, FS_Subset
<1>3. /\ Cardinality(D) \in Nat /\ Cardinality(A) \in Nat /\ Cardinality(Scanner) \in Nat
      /\ Cardinality(D \cup A) \in Nat
  BY <1>1, <1>2, FS_CardinalityType
<1>4. Cardinality(D \cup A) = Cardinality(D) + Cardinality(A) - Cardinality(D \cap A)
  BY <1>2, FS_Union
<1>5. Cardinality(D \cap A) = 0
  BY FS_EmptySet
<1>6. Cardinality(D \cup A) <= Cardinality(Scanner)
  BY <1>1, FS_Subset
<1> QED
  BY <1>2, <1>3, <1>4, <1>5, <1>6

\* One scan more or less.
LEMMA OneScan ==
    ASSUME NEW S \in SUBSET Scanner, NEW s \in Scanner
    PROVE  /\ s \notin S => Cardinality(S \cup {s}) = Cardinality(S) + 1
           /\ s \in S => Cardinality(S \ {s}) = Cardinality(S) - 1
           /\ Cardinality(S) \in Nat
<1>1. IsFiniteSet(S)
  BY ConstantsAssumption, FS_Subset
<1> QED
  BY <1>1, FS_AddElement, FS_RemoveElement, FS_CardinalityType

LEMMA InitRound == Init => RoundInv
<1> SUFFICES ASSUME Init PROVE RoundInv
  OBVIOUS
<1>1. ~rem.exists
  BY DEF Init, NoReminder
<1> QED
  BY <1>1, InitTyped DEF RoundInv, SentIsCounted, SentIsBounded, Bound

\* A round that starts, with the reminders of the task counted from nothing.
LEMMA FreshRound ==
    ASSUME TypeOK, round' = [sent |-> 0, exact |-> TRUE], rem'.count \in Nat, sender' = sender,
           rem'.max \in Nat, rule' \in Rule
    PROVE  SentIsCounted' /\ SentIsBounded'
<1>1. /\ Cardinality(Deciding) \in Nat /\ Cardinality(Advancing) \in Nat
      /\ Cardinality(Scanner) \in Nat
      /\ Cardinality(Deciding) + Cardinality(Advancing) <= Cardinality(Scanner)
  <2>1. Deciding \in SUBSET Scanner /\ Advancing \in SUBSET Scanner /\ Deciding \cap Advancing = {}
    BY DEF Deciding, Advancing
  <2> QED
    BY <2>1, ScansCounted
<1>2. Deciding' = Deciding /\ Advancing' = Advancing
  BY DEF Deciding, Advancing
<1>3. _get_effective_max_reminders' \in Nat
  BY DEF _get_effective_max_reminders
<1> QED
  BY <1>1, <1>2, <1>3 DEF SentIsCounted, SentIsBounded, Bound

\* A step that keeps the round, the rule's budget and what the reminder counts,
\* and does not revive the reminder.
LEMMA RoundKept ==
    ASSUME RoundInv,
           round' = round, sender' = sender, rule'.budget = rule.budget,
           rem'.exists => rem.exists, rem'.active => rem.active,
           rem'.exists => rem'.count = rem.count /\ rem'.max = rem.max
    PROVE  SentIsCounted' /\ SentIsBounded'
<1>1. Deciding' = Deciding /\ Advancing' = Advancing
  BY DEF Deciding, Advancing
<1>2. Bound' => Bound /\ _get_effective_max_reminders' = _get_effective_max_reminders
  BY DEF Bound, _get_effective_max_reminders
<1> QED
  BY <1>1, <1>2 DEF RoundInv, SentIsCounted, SentIsBounded, Bound

\* The steps of a scan: the reminder it decides on is bounded by the others,
\* the one it sends is counted later, unless the round is given up.
LEMMA SenderRound ==
    ASSUME RoundInv, NEW s \in Scanner, SenderStep(s) \/ WorkerDies(s)
    PROVE  SentIsCounted' /\ SentIsBounded'
<1> DEFINE max == _get_effective_max_reminders
           D == Cardinality(Deciding)
           A == Cardinality(Advancing)
           N == Cardinality(Scanner)
<1>1. D \in Nat /\ A \in Nat /\ N \in Nat /\ D + A <= N
  <2>1. Deciding \in SUBSET Scanner /\ Advancing \in SUBSET Scanner /\ Deciding \cap Advancing = {}
    BY DEF Deciding, Advancing
  <2> QED
    BY <2>1, ScansCounted
<1>2. /\ rem \in Reminder /\ rem.count \in Nat /\ rem.max \in Nat /\ rule.budget \in Budget
      /\ CountCap \in Nat
      /\ round \in [sent : 0..SentCap, exact : BOOLEAN] /\ round.sent \in Nat
      /\ sender \in [Scanner -> {"idle", "enqueue", "advance"}]
  <2>1. /\ rem \in Reminder /\ rule \in Rule
        /\ round \in [sent : 0..SentCap, exact : BOOLEAN]
        /\ sender \in [Scanner -> {"idle", "enqueue", "advance"}]
    BY DEF RoundInv, TypeOK
  <2>2. CountCap \in Nat /\ Budgets \in SUBSET Nat /\ SentCap \in Nat
    BY ConstantsAssumption, SentCapTyped
  <2>3. rem.count \in 0..CountCap /\ rem.max \in Budgets \cup {0} /\ rule.budget \in Budget
    BY <2>1 DEF Reminder, Rule
  <2>4. round.sent \in 0..SentCap
    BY <2>1
  <2>5. rem.count \in Nat /\ rem.max \in Nat
    BY <2>1, ReminderNumbers
  <2>6. round.sent \in Nat
    BY <2>2, <2>4
  <2> QED
    BY <2>1, <2>2, <2>3, <2>5, <2>6
<1>3. max \in Nat /\ (max > 0 => max < CountCap)
  <2>1. rem.max \in Budgets \cup {0}
    BY <1>2 DEF Reminder
  <2>2. max \in {0, rem.max}
    BY DEF _get_effective_max_reminders
  <2> QED
    BY <1>2, <2>1, <2>2, ConstantsAssumption
<1>4. CASE check_and_process_reminders(s)
  <2>1. CASE rem' = Stopped(rem) /\ UNCHANGED sender
    BY <1>2, <1>4, <2>1, RoundKept DEF check_and_process_reminders, Stopped, Reminder
  <2>2. CASE ~Exhausted /\ sender' = [sender EXCEPT ![s] = "enqueue"] /\ UNCHANGED rem
    <3>1. s \notin Deciding /\ Deciding' = Deciding \cup {s} /\ Advancing' = Advancing
      BY <1>2, <1>4, <2>2 DEF check_and_process_reminders, Deciding, Advancing
    <3>2. Cardinality(Deciding') = D + 1 /\ Cardinality(Advancing') = A
      BY <3>1, OneScan DEF Deciding
    <3>3. Cardinality(Deciding') + Cardinality(Advancing') <= N
      <4>1. /\ Deciding' \in SUBSET Scanner /\ Advancing' \in SUBSET Scanner
            /\ Deciding' \cap Advancing' = {}
        BY DEF Deciding, Advancing
      <4> QED
        BY <4>1, ScansCounted
    <3>4. Bound' <=> Bound
      BY <1>4, <2>2 DEF check_and_process_reminders, Bound, _get_effective_max_reminders
    <3>5. max' = max /\ round' = round /\ rem.active
      BY <1>4, <2>2 DEF check_and_process_reminders, _get_effective_max_reminders
    <3>6. Bound => rem.count + 1 <= max
      BY <1>2, <1>3, <2>2 DEF Exhausted, Bound
    <3>7. Bound => round.sent <= rem.count + A
      BY <3>5 DEF RoundInv, SentIsCounted
    <3> HIDE DEF max, D, A, N
    <3>8. SentIsBounded'
      BY <1>1, <1>2, <1>3, <3>2, <3>3, <3>4, <3>5, <3>6, <3>7 DEF SentIsBounded, max, N
    <3>9. SentIsCounted'
      BY <2>2, <3>2, <3>4, <3>5, <3>7 DEF SentIsCounted
    <3> QED
      BY <3>8, <3>9
  <2> QED
    BY <1>4, <2>1, <2>2 DEF check_and_process_reminders
<1>5. CASE Enqueue(s)
  <2>1. /\ s \in Deciding /\ s \notin Advancing
        /\ Deciding' = Deciding \ {s} /\ Advancing' = Advancing \cup {s}
    BY <1>2, <1>5 DEF Enqueue, Deciding, Advancing
  <2>2. Cardinality(Deciding') = D - 1 /\ Cardinality(Advancing') = A + 1
    BY <2>1, OneScan DEF Deciding, Advancing
  <2>3. /\ round'.sent <= round.sent + 1 /\ round'.sent \in Nat
        /\ round'.exact = round.exact
    BY <1>2, <1>5, SentCapTyped DEF Enqueue
  <2>4. max' = max /\ rem' = rem /\ (Bound' <=> Bound)
    BY <1>5, <2>3 DEF Enqueue, Bound, _get_effective_max_reminders
  <2>5. SentIsCounted /\ SentIsBounded
    BY DEF RoundInv
  <2> QED
    BY <1>1, <1>2, <1>3, <2>2, <2>3, <2>4, <2>5 DEF SentIsCounted, SentIsBounded
<1>6. CASE (EnqueueFails(s) \/ WorkerDies(s)) /\ sender[s] = "enqueue"
  <2>1. s \in Deciding /\ Deciding' = Deciding \ {s} /\ Advancing' = Advancing
    BY <1>2, <1>6 DEF EnqueueFails, WorkerDies, Idle, Deciding, Advancing
  <2>2. Cardinality(Deciding') = D - 1 /\ Cardinality(Advancing') = A
    BY <2>1, OneScan DEF Deciding
  <2>3. round' = round /\ max' = max /\ rem' = rem /\ (Bound' <=> Bound)
    BY <1>6 DEF EnqueueFails, WorkerDies, Bound, _get_effective_max_reminders
  <2>4. SentIsCounted /\ SentIsBounded
    BY DEF RoundInv
  <2> QED
    BY <1>1, <1>2, <1>3, <2>2, <2>3, <2>4 DEF SentIsCounted, SentIsBounded
<1>7. CASE WorkerDies(s) /\ sender[s] = "advance"
  <2>1. ~round'.exact
    BY <1>7 DEF WorkerDies, Inexact
  <2> QED
    BY <2>1 DEF SentIsCounted, SentIsBounded, Bound
<1>8. CASE _advance_reminder_after_enqueue(s)
  <2>1. s \in Advancing /\ Advancing' = Advancing \ {s} /\ Deciding' = Deciding
    BY <1>2, <1>8 DEF _advance_reminder_after_enqueue, Idle, Deciding, Advancing
  <2>2. Cardinality(Deciding') = D /\ Cardinality(Advancing') = A - 1
    BY <2>1, OneScan DEF Advancing
  <2>3. /\ rem'.exists = rem.exists /\ rem'.max = rem.max
        /\ rem'.active /\ rem.exists =>
                          /\ rem.active
                          /\ rem'.count = IF rem.count < CountCap THEN rem.count + 1 ELSE rem.count
                          /\ ~Exhausted
    <3>1. CASE rem' = rem /\ (~rem.exists \/ ~rem.active)
      BY <3>1
    <3>2. CASE rem' = Stopped(rem)
      BY <1>2, <3>2 DEF Stopped, Reminder
    <3>3. CASE rem' = Counted /\ rem.active /\ ~Exhausted
      BY <1>2, <3>3 DEF Counted, Reminder
    <3> QED
      BY <1>8, <3>1, <3>2, <3>3 DEF _advance_reminder_after_enqueue
  <2>4. round' = round /\ max' = max /\ (Bound' <=> Bound)
    BY <1>8, <2>3 DEF _advance_reminder_after_enqueue, Bound, _get_effective_max_reminders
  <2>5. SentIsBounded'
    BY <2>2, <2>4 DEF RoundInv, SentIsBounded
  <2>6. SentIsCounted'
    <3> SUFFICES ASSUME Bound, rem'.active
                 PROVE  round.sent <= rem'.count + (A - 1)
      BY <2>2, <2>4 DEF SentIsCounted
    <3>1. rem.count < max /\ max < CountCap
      BY <1>2, <1>3, <2>3 DEF Exhausted, Bound
    <3>2. round.sent <= rem.count + A
      BY <2>3 DEF RoundInv, SentIsCounted, Bound
    <3>3. rem'.count = rem.count + 1
      BY <1>2, <1>3, <2>3, <3>1 DEF Bound
    <3> QED
      BY <1>1, <1>2, <3>2, <3>3
  <2> QED
    BY <2>5, <2>6
<1>9. sender[s] \in {"idle", "enqueue", "advance"}
  BY <1>2
<1> QED
  BY <1>4, <1>5, <1>6, <1>7, <1>8, <1>9 DEF SenderStep, EnqueueFails, WorkerDies

\* Starting the reminders, or leaving them alone, keeps the bound.
LEMMA CreateReminderRound ==
    ASSUME RoundInv, create_reminder_task \/ UNCHANGED <<rem, round>>, UNCHANGED <<rule, sender>>
    PROVE  SentIsCounted' /\ SentIsBounded'
<1>1. CASE UNCHANGED <<rem, round>>
  BY <1>1, RoundKept
<1>2. ASSUME create_reminder_task, ~(rule.budget = NoReminders \/ rem.active)
      PROVE  SentIsCounted' /\ SentIsBounded'
  <2>1. /\ rem' = [exists |-> TRUE, active |-> TRUE, count |-> 0, max |-> rule.budget, due |-> FALSE]
        /\ round' = [sent |-> 0, exact |-> TRUE]
    BY <1>2 DEF create_reminder_task, NewRound
  <2>2. TypeOK /\ rule' \in Rule /\ rule.budget \in Nat
    BY <1>2, ConstantsAssumption DEF RoundInv, TypeOK, Rule, Budget
  <2>3. rem'.count \in Nat /\ rem'.max \in Nat
    BY <2>1, <2>2
  <2> QED
    BY <2>1, <2>2, <2>3, FreshRound
<1>3. create_reminder_task /\ (rule.budget = NoReminders \/ rem.active) => UNCHANGED <<rem, round>>
  BY DEF create_reminder_task
<1> QED
  BY <1>1, <1>2, <1>3

LEMMA NextRound == RoundInv /\ [Next]_vars => RoundInv'
<1> SUFFICES ASSUME RoundInv, [Next]_vars PROVE SentIsCounted' /\ SentIsBounded'
  BY NextTyped DEF RoundInv
<1>0. TypeOK /\ rem \in Reminder /\ rule \in Rule
  BY DEF RoundInv, TypeOK
<1>1. ~round'.exact => SentIsCounted' /\ SentIsBounded'
  BY DEF SentIsCounted, SentIsBounded, Bound
<1>2. CASE Assign \/ AutoAssign
  BY <1>2, CreateReminderRound DEF Assign, AutoAssign, _assign_alert
<1>3. CASE _reassign_alert
  BY <1>3, CreateReminderRound DEF _reassign_alert, ensure_reminder_task
<1>4. CASE _acknowledge_alert \/ auto_close_alert \/ RecoveryStops
  BY <1>0, <1>4, RoundKept DEF _acknowledge_alert, auto_close_alert, RecoveryStops, Stopped, Reminder
<1>5. CASE UNCHANGED <<rem, rule, sender, round>>
  BY <1>5, RoundKept
<1>6. \/ _close_alert \/ _resolve_alert
      \/ \E kind \in {"recovery", "deletion"} : WriterReads(kind)
      \/ RecoveryWrites \/ DeletionWrites
      \/ _confirm_session_alert
      \/ LayerComesDue
      \/ UNCHANGED vars
      => UNCHANGED <<rem, rule, sender, round>>
  BY DEF _close_alert, _resolve_alert, Finish, WriterReads, RecoveryWrites, DeletionWrites,
         _confirm_session_alert, LayerComesDue, vars
<1>7. ASSUME NEW s \in Scanner, SenderStep(s) \/ WorkerDies(s)
      PROVE  SentIsCounted' /\ SentIsBounded'
  BY <1>7, SenderRound
<1>8. CASE check_and_process_escalations
  <2>1. CASE UNCHANGED <<rem, round>>
    BY <1>8, <2>1, RoundKept DEF check_and_process_escalations
  <2>2. CASE /\ rem' = [rem EXCEPT !.count = 0, !.active = TRUE, !.due = FALSE]
             /\ round' = [sent |-> 0, exact |-> TRUE]
    <3>1. rem'.count \in Nat /\ rem'.max \in Nat
      <4>1. rem'.count = 0 /\ rem'.max = rem.max
        BY <1>0, <2>2 DEF Reminder
      <4>2. rem.max \in Nat
        BY <1>0, ReminderNumbers
      <4> QED
        BY <4>1, <4>2
    <3>2. rule' \in Rule /\ sender' = sender
      BY <1>0, <1>8 DEF check_and_process_escalations
    <3> QED
      BY <1>0, <2>2, <3>1, <3>2, FreshRound
  <2> QED
    BY <1>8, <2>1, <2>2 DEF check_and_process_escalations, _advance_layer, NewRound
<1>9. CASE cleanup_reminder_tasks
  BY <1>9, RoundKept DEF cleanup_reminder_tasks, NoReminder
<1>10. CASE ReminderComesDue
  BY <1>0, <1>10, RoundKept DEF ReminderComesDue, Reminder
<1>11. CASE EditRule
  <2>1. PICK new \in Rule :
          /\ rule' = rule \/ rule' = new
          /\ round' = IF new.budget = rule.budget THEN round ELSE Inexact
          /\ UNCHANGED <<rem, sender>>
    BY <1>11 DEF EditRule
  <2>2. CASE new.budget = rule.budget
    BY <2>1, <2>2, RoundKept
  <2>3. CASE new.budget # rule.budget
    BY <1>1, <2>1, <2>3 DEF Inexact
  <2> QED
    BY <2>2, <2>3
<1>12. CASE EditSaves
  BY <1>1, <1>12 DEF EditSaves, Inexact
<1> QED
  BY <1>2, <1>3, <1>4, <1>5, <1>6, <1>7, <1>8, <1>9, <1>10, <1>11, <1>12 DEF Next, People, WriterStep

\* Overlapping scans send at most one reminder each over the budget of a round,
\* for any number of scans and any budget.
THEOREM RoundIsAlwaysBounded == Spec => []RoundIsBounded
<1>1. RoundInv => RoundIsBounded
  <2> SUFFICES ASSUME RoundInv, Bound
               PROVE  round.sent + 1 <= _get_effective_max_reminders + Cardinality(Scanner)
    BY DEF RoundIsBounded, Bound
  <2>1. Cardinality(Deciding) \in Nat /\ Cardinality(Scanner) \in Nat
    BY SentCapTyped, ConstantsAssumption, FS_Subset, FS_CardinalityType DEF Deciding
  <2>2. round.sent \in Nat /\ _get_effective_max_reminders \in Nat
    <3>1. round \in [sent : 0..SentCap, exact : BOOLEAN] /\ rem \in Reminder
      BY DEF RoundInv, TypeOK
    <3>2. round.sent \in Nat
      BY <3>1, SentCapTyped
    <3> QED
      BY <3>1, <3>2, ReminderNumbers DEF _get_effective_max_reminders
  <2>3. round.sent + Cardinality(Deciding) + 1 <= _get_effective_max_reminders + Cardinality(Scanner)
    BY DEF RoundInv, SentIsBounded
  <2> QED
    BY <2>1, <2>2, <2>3
<1> QED
  BY <1>1, InitRound, NextRound, PTL DEF Spec
=============================================================================
