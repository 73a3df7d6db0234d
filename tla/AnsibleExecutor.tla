--------------------------- MODULE AnsibleExecutor ---------------------------
(***************************************************************************)
(* The Ansible executor agent (agents/ansible-executor/service/            *)
(* nats_service.py): the enqueue handler, the worker loops with their ack  *)
(* keepalive, the callback and its retry loop, over the durable task table *)
(* (TaskStore) and two JetStream work queues (JetStreamQueue).             *)
(*                                                                         *)
(* The process is one asyncio event loop: a step of the model is what one  *)
(* coroutine does between two awaits.  A process crash loses every         *)
(* coroutine and keeps the table and the streams; the supervisor starts    *)
(* the process again, and start-up re-creates both consumers.              *)
(***************************************************************************)
EXTENDS TaskStore, JetStreamQueue

CONSTANTS
    Task,           \* task ids
    CallbackTask,   \* the tasks submitted with a callback
    Unaddressed,    \* those of them whose callback names no receiver: it is not
                    \* a dict, or has neither subject nor namespace and method
    Worker,         \* the _worker_loop coroutines
    NoTask,         \* "no task", not a member of Task
    MaxDeliver,     \* js_max_deliver
    MaxCrash,       \* bound: how many times the process crashes
    Faults          \* the failures of the environment that may happen

\* "publish": a JetStream publish raises.  "ack": an ack or nak is lost.
\* "delivery": a delivered message never reaches the fetching coroutine.
\* "keepalive": in_progress raises.  "stall": the event loop is blocked for
\* longer than a deadline.  "callback": a callback request fails, after or
\* before its receiver handled it.  "loop": an exception leaves a loop, which
\* nothing restarts.
FaultKind ==
    {"publish", "ack", "delivery", "keepalive", "stall", "callback", "loop"}

ASSUME ConstantsAssumption ==
    /\ CallbackTask \subseteq Task
    /\ Unaddressed \subseteq CallbackTask
    /\ NoTask \notin Task
    /\ MaxDeliver \in Nat \ {0}
    /\ MaxCrash \in Nat
    /\ Faults \subseteq FaultKind

VARIABLES
    row,        \* the table task_state
    queue,      \* the task stream: at most one message per task
    retryQueue, \* the callback-retry stream: at most one message per task
    enqueuing,  \* _enqueue_task handlers between the insert and the publish
    worker,     \* the worker coroutines
    retrier,    \* the _callback_retry_loop coroutine
    dlq,        \* what was published on dlq_subject
    accepted,   \* observer: tasks whose submitter was answered "accepted"
    stored,     \* observer: tasks whose message the task stream ever stored
    received,   \* observer: the verdicts the callback receiver was given
    crashes     \* bound on Crash

vars == <<row, queue, retryQueue, enqueuing, worker, retrier, dlq, accepted,
          stored, received, crashes>>

-----------------------------------------------------------------------------
\* Where a worker coroutine waits.  "run": ansible is running; "callback": the
\* request is not yet handled by its receiver; "answer": it is, the reply is
\* not back; "requeue": publishing to the retry stream; "return": _run_task
\* returned; "drop": about to ack; "raise": in the except handler; "dead": the
\* coroutine ended with an exception.
WorkerPc == {"fetch", "claim", "run", "callback", "answer", "requeue",
             "return", "drop", "raise", "dead"}

\* The pcs inside _run_task_with_ack_progress.
InTask == {"run", "callback", "answer", "requeue", "return"}

WorkerState ==
    [pc            : WorkerPc,
     task          : Task \cup {NoTask},
     owner         : Nat,
     num_delivered : Nat,
     keepalive     : {"off", "on", "stopped", "broken"},
     verdict       : {"none"} \cup Verdict]

Idle == [pc |-> "fetch", task |-> NoTask, owner |-> NoOwner,
         num_delivered |-> 0, keepalive |-> "off", verdict |-> "none"]

RetrierState ==
    [pc            : {"fetch", "callback", "answer", "drop", "raise", "dead"},
     task          : Task \cup {NoTask},
     num_delivered : Nat,
     body          : {"none"} \cup Verdict]

RetrierIdle == [pc |-> "fetch", task |-> NoTask, num_delivered |-> 0, body |-> "none"]

DeadLetter == [type : {"task_execution", "callback_retry"}, task : Task]

TypeOK ==
    /\ row \in [Task -> TaskRow]
    /\ queue \in [Task -> Message]
    /\ retryQueue \in [Task -> Message]
    /\ enqueuing \in SUBSET Task
    /\ worker \in [Worker -> WorkerState]
    /\ retrier \in RetrierState
    /\ dlq \in SUBSET DeadLetter
    /\ accepted \in SUBSET Task
    /\ stored \in SUBSET Task
    /\ received \in [Task -> SUBSET Verdict]
    /\ crashes \in Nat

Init ==
    /\ row = [t \in Task |-> NoRow]
    /\ queue = [t \in Task |-> NoMessage]
    /\ retryQueue = [t \in Task |-> NoMessage]
    /\ enqueuing = {}
    /\ worker = [w \in Worker |-> Idle]
    /\ retrier = RetrierIdle
    /\ dlq = {}
    /\ accepted = {}
    /\ stored = {}
    /\ received = [t \in Task |-> {}]
    /\ crashes = 0

-----------------------------------------------------------------------------
(* _enqueue_task, called by _handle_adhoc and _handle_playbook.            *)

\* create_if_absent inserts the row; the handler then awaits js.publish.
EnqueueInsert(t) ==
    /\ ~Exists(row[t])
    /\ row' = [row EXCEPT ![t] = create_if_absent(t \in CallbackTask)]
    /\ enqueuing' = enqueuing \cup {t}
    /\ UNCHANGED <<queue, retryQueue, worker, retrier, dlq, accepted, stored, received, crashes>>

\* A resubmission of a known task_id is answered accepted, duplicate = True.
EnqueueDuplicate(t) ==
    /\ Exists(row[t])
    /\ accepted' = accepted \cup {t}
    /\ UNCHANGED <<row, queue, retryQueue, enqueuing, worker, retrier, dlq, stored, received, crashes>>

EnqueuePublish(t) ==
    /\ t \in enqueuing
    /\ queue' = [queue EXCEPT ![t] = publish("none")]
    /\ stored' = stored \cup {t}
    /\ enqueuing' = enqueuing \ {t}
    /\ accepted' = accepted \cup {t}
    /\ UNCHANGED <<row, retryQueue, worker, retrier, dlq, received, crashes>>

\* The publish raises, with or without the stream having stored the message:
\* the submitter is answered with an error and the row stays.
EnqueuePublishFails(t) ==
    /\ "publish" \in Faults
    /\ t \in enqueuing
    /\ \/ UNCHANGED <<queue, stored>>
       \/ /\ queue' = [queue EXCEPT ![t] = publish("none")]
          /\ stored' = stored \cup {t}
    /\ enqueuing' = enqueuing \ {t}
    /\ UNCHANGED <<row, retryQueue, worker, retrier, dlq, accepted, received, crashes>>

-----------------------------------------------------------------------------
(* _worker_loop                                                            *)

Deliver(w, t) ==
    /\ worker[w].pc = "fetch"
    /\ CanDeliver(queue[t], MaxDeliver)
    /\ queue' = [queue EXCEPT ![t] = deliver(@)]
    /\ worker' = [worker EXCEPT ![w] =
                    [Idle EXCEPT !.pc = "claim", !.task = t,
                                 !.num_delivered = queue[t].delivered + 1]]
    /\ UNCHANGED <<row, retryQueue, enqueuing, retrier, dlq, accepted, stored, received, crashes>>

\* The broker delivers into a pull request the coroutine has given up.
DeliveryLost(t) ==
    /\ "delivery" \in Faults
    /\ CanDeliver(queue[t], MaxDeliver)
    /\ queue' = [queue EXCEPT ![t] = deliver(@)]
    /\ UNCHANGED <<row, retryQueue, enqueuing, worker, retrier, dlq, accepted, stored, received, crashes>>

\* Mutant of Claim: a redelivery of a leased task is acked away.
Claim_AcksLeased(w) ==
    LET t == worker[w].task
        reason == claim_reason(row[t])
    IN  /\ worker[w].pc = "claim"
        /\ row' = IF reason = "claimed"
                  THEN [row EXCEPT ![t] = claim_task(@)] ELSE row
        /\ queue' = IF reason = "missing"
                    THEN [queue EXCEPT ![t] = nak(@)] ELSE queue
        /\ worker' = [worker EXCEPT ![w] =
                        CASE reason = "claimed" ->
                               [@ EXCEPT !.pc = "run", !.owner = FreshOwner(row[t]),
                                         !.keepalive = "on"]
                          [] reason \in {"terminal", "leased"} -> [@ EXCEPT !.pc = "drop"]
                          [] OTHER -> Idle]
        /\ UNCHANGED <<retryQueue, enqueuing, retrier, dlq, accepted, stored, received, crashes>>

\* get_status and claim_task, without an await between them.  A leased task is
\* skipped with in_progress, which only restarts the ack deadline; a missing
\* row is answered with nak.
Claim(w) ==
    LET t == worker[w].task
        reason == claim_reason(row[t])
    IN  /\ worker[w].pc = "claim"
        /\ row' = IF reason = "claimed"
                  THEN [row EXCEPT ![t] = claim_task(@)] ELSE row
        /\ queue' = IF reason = "missing"
                    THEN [queue EXCEPT ![t] = nak(@)] ELSE queue
        /\ worker' = [worker EXCEPT ![w] =
                        CASE reason = "claimed" ->
                               [@ EXCEPT !.pc = "run", !.owner = FreshOwner(row[t]),
                                         !.keepalive = "on"]
                          [] reason = "terminal" -> [@ EXCEPT !.pc = "drop"]
                          [] OTHER -> Idle]
        /\ UNCHANGED <<retryQueue, enqueuing, retrier, dlq, accepted, stored, received, crashes>>

\* in_progress raises on the leased task: the except handler takes over.
LeasedSkipRaises(w) ==
    /\ "keepalive" \in Faults
    /\ worker[w].pc = "claim"
    /\ claim_reason(row[worker[w].task]) = "leased"
    /\ worker' = [worker EXCEPT ![w].pc = "raise"]
    /\ UNCHANGED <<row, queue, retryQueue, enqueuing, retrier, dlq, accepted, stored, received, crashes>>

\* One round of _keep_message_in_progress: the lease is renewed and the ack
\* deadline restarted, or the keepalive stops.
KeepAlive(w) ==
    LET t == worker[w].task IN
    /\ worker[w].pc \in InTask
    /\ worker[w].keepalive = "on"
    /\ IF HoldsLease(row[t], worker[w].owner)
       THEN row' = [row EXCEPT ![t] = renew_lease(@)] /\ UNCHANGED worker
       ELSE worker' = [worker EXCEPT ![w].keepalive = "stopped"] /\ UNCHANGED row
    /\ UNCHANGED <<queue, retryQueue, enqueuing, retrier, dlq, accepted, stored, received, crashes>>

\* The lease is renewed, then in_progress raises and ends the keepalive task.
KeepAliveBreaks(w) ==
    LET t == worker[w].task IN
    /\ "keepalive" \in Faults
    /\ worker[w].pc \in InTask
    /\ worker[w].keepalive = "on"
    /\ HoldsLease(row[t], worker[w].owner)
    /\ row' = [row EXCEPT ![t] = renew_lease(@)]
    /\ worker' = [worker EXCEPT ![w].keepalive = "broken"]
    /\ UNCHANGED <<queue, retryQueue, enqueuing, retrier, dlq, accepted, stored, received, crashes>>

\* Mutant of Execute: the answer of update_execution_result is not looked at.
Execute_CallsBackAnyway(w, verdict) ==
    LET t == worker[w].task IN
    /\ worker[w].pc = "run"
    /\ row' = IF OwnsResult(row[t], worker[w].owner)
              THEN [row EXCEPT ![t] = update_execution_result(@, verdict)] ELSE row
    /\ worker' = [worker EXCEPT ![w].pc = "callback", ![w].verdict = verdict]
    /\ UNCHANGED <<queue, retryQueue, enqueuing, retrier, dlq, accepted, stored, received, crashes>>

\* Ansible ends with a verdict (any exception of the run is the verdict
\* "failed"); the result is persisted if the claim still owns the row, and
\* without a callback the callback status "none" is written at once.
Execute(w, verdict) ==
    LET t == worker[w].task
        persisted == update_execution_result(row[t], verdict)
    IN  /\ worker[w].pc = "run"
        /\ \/ /\ OwnsResult(row[t], worker[w].owner)
              /\ row' = [row EXCEPT ![t] =
                            IF t \in CallbackTask THEN persisted
                            ELSE update_callback_status(persisted, "none", verdict)]
              /\ worker' = [worker EXCEPT
                              ![w].pc = IF t \in CallbackTask THEN "callback" ELSE "return",
                              ![w].verdict = verdict]
           \/ /\ ~OwnsResult(row[t], worker[w].owner)
              /\ worker' = [worker EXCEPT ![w].pc = "raise", ![w].verdict = verdict]
              /\ UNCHANGED row
        /\ UNCHANGED <<queue, retryQueue, enqueuing, retrier, dlq, accepted, stored, received, crashes>>

\* Mutant of CallbackSkipped: any incomplete callback is skipped, also one that
\* a subject, or a namespace and a method, address.
CallbackSkipped_Incomplete(w) ==
    LET t == worker[w].task IN
    /\ worker[w].pc = "callback"
    /\ row' = [row EXCEPT ![t] = update_callback_status(@, "sent", worker[w].verdict)]
    /\ worker' = [worker EXCEPT ![w].pc = "return"]
    /\ UNCHANGED <<queue, retryQueue, enqueuing, retrier, dlq, accepted, stored, received, crashes>>

\* _invoke_callback returns at once from a callback that names no receiver, and
\* _run_task records it as sent.  Nothing before that return can raise, so such
\* a task never gets a retry message.
CallbackSkipped(w) ==
    LET t == worker[w].task IN
    /\ worker[w].pc = "callback"
    /\ t \in Unaddressed
    /\ row' = [row EXCEPT ![t] = update_callback_status(@, "sent", worker[w].verdict)]
    /\ worker' = [worker EXCEPT ![w].pc = "return"]
    /\ UNCHANGED <<queue, retryQueue, enqueuing, retrier, dlq, accepted, stored, received, crashes>>

\* _invoke_callback: the receiver handles the request ...
CallbackArrives(w) ==
    /\ worker[w].pc = "callback"
    /\ worker[w].task \notin Unaddressed
    /\ received' = [received EXCEPT ![worker[w].task] = @ \cup {worker[w].verdict}]
    /\ worker' = [worker EXCEPT ![w].pc = "answer"]
    /\ UNCHANGED <<row, queue, retryQueue, enqueuing, retrier, dlq, accepted, stored, crashes>>

\* ... and its positive reply is back.
CallbackAnswered(w) ==
    LET t == worker[w].task IN
    /\ worker[w].pc = "answer"
    /\ row' = [row EXCEPT ![t] = update_callback_status(@, "sent", worker[w].verdict)]
    /\ worker' = [worker EXCEPT ![w].pc = "return"]
    /\ UNCHANGED <<queue, retryQueue, enqueuing, retrier, dlq, accepted, stored, received, crashes>>

\* Mutant of CallbackFails: the error path records the callback as sent.
CallbackFails_MarksSent(w) ==
    LET t == worker[w].task IN
    /\ "callback" \in Faults
    /\ worker[w].pc \in {"callback", "answer"}
    /\ t \notin Unaddressed
    /\ row' = [row EXCEPT ![t] = update_callback_status(@, "sent", worker[w].verdict)]
    /\ worker' = [worker EXCEPT ![w].pc = "requeue"]
    /\ UNCHANGED <<queue, retryQueue, enqueuing, retrier, dlq, accepted, stored, received, crashes>>

\* A timeout, no responder, or a reply that says failure.
CallbackFails(w) ==
    LET t == worker[w].task IN
    /\ "callback" \in Faults
    /\ worker[w].pc \in {"callback", "answer"}
    /\ t \notin Unaddressed
    /\ row' = [row EXCEPT ![t] = update_callback_status(@, "failed", worker[w].verdict)]
    /\ worker' = [worker EXCEPT ![w].pc = "requeue"]
    /\ UNCHANGED <<queue, retryQueue, enqueuing, retrier, dlq, accepted, stored, received, crashes>>

EnqueueRetry(w) ==
    LET t == worker[w].task IN
    /\ worker[w].pc = "requeue"
    /\ retryQueue' = [retryQueue EXCEPT ![t] = publish(worker[w].verdict)]
    /\ worker' = [worker EXCEPT ![w].pc = "return"]
    /\ UNCHANGED <<row, queue, enqueuing, retrier, dlq, accepted, stored, received, crashes>>

EnqueueRetryFails(w) ==
    LET t == worker[w].task IN
    /\ "publish" \in Faults
    /\ worker[w].pc = "requeue"
    /\ retryQueue' \in {retryQueue, [retryQueue EXCEPT ![t] = publish(worker[w].verdict)]}
    /\ worker' = [worker EXCEPT ![w].pc = "raise"]
    /\ UNCHANGED <<row, queue, enqueuing, retrier, dlq, accepted, stored, received, crashes>>

\* The finally block of _run_task_with_ack_progress cancels the keepalive and
\* re-raises what had ended it.
Return(w) ==
    /\ worker[w].pc = "return"
    /\ worker' = [worker EXCEPT
                    ![w].pc = IF worker[w].keepalive = "broken" THEN "raise" ELSE "drop"]
    /\ UNCHANGED <<row, queue, retryQueue, enqueuing, retrier, dlq, accepted, stored, received, crashes>>

\* msg.ack(): fire and forget.
Ack(w) ==
    LET t == worker[w].task IN
    /\ worker[w].pc = "drop"
    /\ \/ queue' = [queue EXCEPT ![t] = ack(@)]
       \/ "ack" \in Faults /\ UNCHANGED queue
    /\ worker' = [worker EXCEPT ![w] = Idle]
    /\ UNCHANGED <<row, retryQueue, enqueuing, retrier, dlq, accepted, stored, received, crashes>>

\* The except handler of the last allowed delivery: dead letter, then ack.
RaiseDeadLetter(w) ==
    LET t == worker[w].task IN
    /\ worker[w].pc = "raise"
    /\ worker[w].num_delivered >= MaxDeliver
    /\ dlq' = dlq \cup {[type |-> "task_execution", task |-> t]}
    /\ worker' = [worker EXCEPT ![w].pc = "drop"]
    /\ UNCHANGED <<row, queue, retryQueue, enqueuing, retrier, accepted, stored, received, crashes>>

RaiseNak(w) ==
    LET t == worker[w].task IN
    /\ worker[w].pc = "raise"
    /\ worker[w].num_delivered < MaxDeliver
    /\ \/ queue' = [queue EXCEPT ![t] = nak(@)]
       \/ "ack" \in Faults /\ UNCHANGED queue
    /\ worker' = [worker EXCEPT ![w] = Idle]
    /\ UNCHANGED <<row, retryQueue, enqueuing, retrier, dlq, accepted, stored, received, crashes>>

\* The connection is closed: a fetch raises something else than its timeout, or
\* an ack raises and the except handler raises in turn.  The coroutine ends and
\* run() never looks at it again.
WorkerDies(w) ==
    /\ "loop" \in Faults
    /\ worker[w].pc \in {"fetch", "drop", "raise"}
    /\ worker' = [worker EXCEPT ![w] = [Idle EXCEPT !.pc = "dead"]]
    /\ UNCHANGED <<row, queue, retryQueue, enqueuing, retrier, dlq, accepted, stored, received, crashes>>

-----------------------------------------------------------------------------
(* _callback_retry_loop                                                    *)

RetryDeliver(t) ==
    /\ retrier.pc = "fetch"
    /\ CanDeliver(retryQueue[t], MaxDeliver)
    /\ retryQueue' = [retryQueue EXCEPT ![t] = deliver(@)]
    /\ retrier' = [pc |-> "callback", task |-> t, body |-> retryQueue[t].body,
                   num_delivered |-> retryQueue[t].delivered + 1]
    /\ UNCHANGED <<row, queue, enqueuing, worker, dlq, accepted, stored, received, crashes>>

RetryCallbackArrives ==
    /\ retrier.pc = "callback"
    /\ received' = [received EXCEPT ![retrier.task] = @ \cup {retrier.body}]
    /\ retrier' = [retrier EXCEPT !.pc = "answer"]
    /\ UNCHANGED <<row, queue, retryQueue, enqueuing, worker, dlq, accepted, stored, crashes>>

RetryCallbackAnswered ==
    /\ retrier.pc = "answer"
    /\ row' = [row EXCEPT ![retrier.task] = update_callback_status(@, "sent", retrier.body)]
    /\ retrier' = [retrier EXCEPT !.pc = "drop"]
    /\ UNCHANGED <<queue, retryQueue, enqueuing, worker, dlq, accepted, stored, received, crashes>>

\* Mutant of RetryCallbackFails: a failed retry is recorded, also after an
\* earlier retry of the same message succeeded.
RetryCallbackFails_Records ==
    /\ "callback" \in Faults
    /\ retrier.pc \in {"callback", "answer"}
    /\ row' = [row EXCEPT ![retrier.task] = update_callback_status(@, "failed", retrier.body)]
    /\ retrier' = [retrier EXCEPT !.pc = "raise"]
    /\ UNCHANGED <<queue, retryQueue, enqueuing, worker, dlq, accepted, stored, received, crashes>>

RetryCallbackFails ==
    /\ "callback" \in Faults
    /\ retrier.pc \in {"callback", "answer"}
    /\ retrier' = [retrier EXCEPT !.pc = "raise"]
    /\ UNCHANGED <<row, queue, retryQueue, enqueuing, worker, dlq, accepted, stored, received, crashes>>

RetryAck ==
    /\ retrier.pc = "drop"
    /\ \/ retryQueue' = [retryQueue EXCEPT ![retrier.task] = ack(@)]
       \/ "ack" \in Faults /\ UNCHANGED retryQueue
    /\ retrier' = RetrierIdle
    /\ UNCHANGED <<row, queue, enqueuing, worker, dlq, accepted, stored, received, crashes>>

\* Mutant of RetryRaiseDeadLetter: the last failed retry is acked only.
RetryRaiseDeadLetter_AcksOnly ==
    /\ retrier.pc = "raise"
    /\ retrier.num_delivered >= MaxDeliver
    /\ retrier' = [retrier EXCEPT !.pc = "drop"]
    /\ UNCHANGED <<row, queue, retryQueue, enqueuing, worker, dlq, accepted, stored, received, crashes>>

RetryRaiseDeadLetter ==
    /\ retrier.pc = "raise"
    /\ retrier.num_delivered >= MaxDeliver
    /\ dlq' = dlq \cup {[type |-> "callback_retry", task |-> retrier.task]}
    /\ retrier' = [retrier EXCEPT !.pc = "drop"]
    /\ UNCHANGED <<row, queue, retryQueue, enqueuing, worker, accepted, stored, received, crashes>>

\* Mutant of RetryRaiseNak: a failed retry is acked instead of nakked.
RetryRaiseNak_Acks ==
    /\ retrier.pc = "raise"
    /\ retrier.num_delivered < MaxDeliver
    /\ retrier' = [retrier EXCEPT !.pc = "drop"]
    /\ UNCHANGED <<row, queue, retryQueue, enqueuing, worker, dlq, accepted, stored, received, crashes>>

RetryRaiseNak ==
    /\ retrier.pc = "raise"
    /\ retrier.num_delivered < MaxDeliver
    /\ \/ retryQueue' = [retryQueue EXCEPT ![retrier.task] = nak(@)]
       \/ "ack" \in Faults /\ UNCHANGED retryQueue
    /\ retrier' = RetrierIdle
    /\ UNCHANGED <<row, queue, enqueuing, worker, dlq, accepted, stored, received, crashes>>

RetrierDies ==
    /\ "loop" \in Faults
    /\ retrier.pc \in {"fetch", "drop", "raise"}
    /\ retrier' = [RetrierIdle EXCEPT !.pc = "dead"]
    /\ UNCHANGED <<row, queue, retryQueue, enqueuing, worker, dlq, accepted, stored, received, crashes>>

-----------------------------------------------------------------------------
(* Deadlines.  The heartbeat is 0.4 and the lease 1.5 times the ack        *)
(* deadline backoff[0], so a deadline that a live keepalive renews passes   *)
(* only when the event loop stalls.  The second backoff (15 s) is longer    *)
(* than a lease (7.5 s): without a stall only the wait after the first      *)
(* delivery can end while an abandoned lease is still live.                 *)

\* A coroutine is attending to the message of t (its short synchronous
\* sections included).
Attended(t) ==
    \E w \in Worker : /\ worker[w].task = t
                      /\ worker[w].keepalive \in {"off", "on"}

LeaseRenewed(t) ==
    \E w \in Worker : /\ worker[w].task = t
                      /\ worker[w].owner = row[t].lease_owner
                      /\ worker[w].keepalive = "on"

AckWaitExpires(t) ==
    /\ queue[t].state = "pending"
    /\ \/ "stall" \in Faults
       \/ /\ ~Attended(t)
          /\ queue[t].delivered = 1 \/ ~row[t].lease_live \/ LeaseRenewed(t)
    /\ queue' = [queue EXCEPT ![t] = ack_wait_expired(@)]
    /\ UNCHANGED <<row, retryQueue, enqueuing, worker, retrier, dlq, accepted, stored, received, crashes>>

LeaseExpires(t) ==
    /\ row[t].lease_live
    /\ "stall" \in Faults \/ ~LeaseRenewed(t)
    /\ row' = [row EXCEPT ![t].lease_live = FALSE]
    /\ UNCHANGED <<queue, retryQueue, enqueuing, worker, retrier, dlq, accepted, stored, received, crashes>>

\* The retry loop has no keepalive: a callback timeout exceeds its deadline.
RetryAckWaitExpires(t) ==
    /\ retryQueue[t].state = "pending"
    /\ retryQueue' = [retryQueue EXCEPT ![t] = ack_wait_expired(@)]
    /\ UNCHANGED <<row, queue, enqueuing, worker, retrier, dlq, accepted, stored, received, crashes>>

\* The process dies and run() starts again: _ensure_stream_and_consumer
\* re-creates both consumers and fresh coroutines are spawned.
Crash ==
    /\ crashes < MaxCrash
    /\ crashes' = crashes + 1
    /\ enqueuing' = {}
    /\ worker' = [w \in Worker |-> Idle]
    /\ retrier' = RetrierIdle
    /\ queue' = [t \in Task |-> recreate_consumer(queue[t])]
    /\ retryQueue' = [t \in Task |-> recreate_consumer(retryQueue[t])]
    /\ UNCHANGED <<row, dlq, accepted, stored, received>>

-----------------------------------------------------------------------------
WorkerStep(w) ==
    \/ \E t \in Task : Deliver(w, t)
    \/ Claim(w)
    \/ \E v \in Verdict : Execute(w, v)
    \/ CallbackSkipped(w)
    \/ CallbackArrives(w)
    \/ CallbackAnswered(w)
    \/ EnqueueRetry(w)
    \/ Return(w)
    \/ Ack(w)
    \/ RaiseDeadLetter(w)
    \/ RaiseNak(w)

RetrierStep ==
    \/ \E t \in Task : RetryDeliver(t)
    \/ RetryCallbackArrives
    \/ RetryCallbackAnswered
    \/ RetryAck
    \/ RetryRaiseDeadLetter
    \/ RetryRaiseNak

Fault ==
    \/ Crash
    \/ RetryCallbackFails
    \/ RetrierDies
    \/ \E w \in Worker : \/ LeasedSkipRaises(w)
                         \/ KeepAliveBreaks(w)
                         \/ CallbackFails(w)
                         \/ EnqueueRetryFails(w)
                         \/ WorkerDies(w)
    \/ \E t \in Task : EnqueuePublishFails(t) \/ DeliveryLost(t)

Next ==
    \/ \E t \in Task : EnqueueInsert(t) \/ EnqueueDuplicate(t) \/ EnqueuePublish(t)
    \/ \E w \in Worker : WorkerStep(w) \/ KeepAlive(w)
    \/ RetrierStep
    \/ \E t \in Task : AckWaitExpires(t) \/ LeaseExpires(t) \/ RetryAckWaitExpires(t)
    \/ Fault

Spec == Init /\ [][Next]_vars

\* The event loop schedules every ready coroutine, ansible runs end by their
\* execute_timeout and callback requests by their timeout, and clocks advance.
\* Nothing is assumed of submitters and of faults.
Fairness ==
    /\ \A t \in Task : /\ WF_vars(EnqueuePublish(t))
                       /\ WF_vars(AckWaitExpires(t))
                       /\ WF_vars(LeaseExpires(t))
                       /\ WF_vars(RetryAckWaitExpires(t))
    /\ \A w \in Worker : WF_vars(WorkerStep(w)) /\ WF_vars(KeepAlive(w))
    /\ WF_vars(RetrierStep)

FairSpec == Spec /\ Fairness

-----------------------------------------------------------------------------
(* Properties                                                              *)

DeadLettered(t) == [type |-> "task_execution", task |-> t] \in dlq
CallbackDeadLettered(t) == [type |-> "callback_retry", task |-> t] \in dlq

\* The CAS of update_execution_result and the terminal check of claim_task:
\* once a verdict is recorded no redelivery, takeover, restart, stale worker or
\* callback outcome changes it, and no later claim happens.
ResultIsFinal ==
    [][\A t \in Task : row[t].execution_status \in Verdict =>
          /\ row'[t].execution_status = row[t].execution_status
          /\ row'[t].execution_attempt = row[t].execution_attempt]_vars

\* README of the executor: while an old worker's lease is valid a redelivered
\* message is not executed by a new worker.  The owner of a live lease loses it
\* only by recording its own result.
LiveLeaseNotStolen ==
    [][\A t \in Task : row[t].lease_live /\ row'[t].lease_owner # row[t].lease_owner =>
          /\ row'[t].execution_status \in Verdict
          /\ \E w \in Worker : /\ worker[w].task = t
                               /\ worker[w].owner = row[t].lease_owner
                               /\ worker[w].pc = "run"]_vars

\* However many workers run one task after takeovers, only the latest claim can
\* record a result: a worker that was superseded never owns the row again.
OnlyLatestClaimOwns ==
    \A w \in Worker : worker[w].pc = "run" =>
        LET t == worker[w].task IN
        /\ OwnsResult(row[t], worker[w].owner) <=>
              worker[w].owner = row[t].execution_attempt /\ row[t].execution_status = "running"
        /\ \A v \in Worker : v # w /\ worker[v].pc = "run" /\ worker[v].task = t =>
              worker[v].owner # worker[w].owner

\* The receiver is only ever told the verdict that is recorded: a worker that
\* lost its lease calls nobody back, and retries carry the recorded verdict.
ReceivedIsRecorded ==
    \A t \in Task : received[t] \subseteq {row[t].execution_status}

\* callback_status "sent" is written only after the receiver handled the result,
\* except for a callback that names no receiver: it is recorded as sent although
\* nobody was told.
SentWasReceived ==
    \A t \in Task : row[t].callback_status = "sent" => received[t] # {} \/ t \in Unaddressed

\* README: callback state is separate from execution state.  status says
\* callback_failed exactly for a successful run whose callback is failed, and
\* result_json keeps the recorded verdict.
StatusCoherent ==
    \A t \in Task : row[t].execution_status \in Verdict =>
        /\ row[t].result = row[t].execution_status
        /\ row[t].status =
             IF row[t].execution_status = "success" /\ row[t].callback_status = "failed"
             THEN "callback_failed" ELSE row[t].execution_status

\* At-least-once: a message the stream stored is removed only after its task has
\* a recorded result or a dead letter was published for it.
RemovedOnlyWhenSettled ==
    \A t \in stored : InStream(queue[t]) \/ IsTerminal(row[t]) \/ DeadLettered(t)

\* A failed callback is not forgotten: while the process does not crash and
\* publishes succeed, its retry message is in the stream or dead-lettered.
FailedCallbackHasRetry ==
    \A t \in Task : row[t].callback_status = "failed" =>
        \/ InStream(retryQueue[t])
        \/ CallbackDeadLettered(t)
        \/ \E w \in Worker : worker[w].task = t /\ worker[w].pc = "requeue"

\* Every message the stream stored ends with a recorded result.
StoredTaskSettles == \A t \in Task : t \in stored ~> IsTerminal(row[t])

\* Every failed callback is eventually delivered or dead-lettered.
FailedCallbackSettles ==
    \A t \in Task : row[t].callback_status = "failed" ~>
        row[t].callback_status = "sent" \/ CallbackDeadLettered(t)

\* Design of the host-remote callback: the executor calls back with the final
\* payload of every task it executed.
FinishedTaskCallsBack ==
    \A t \in CallbackTask \ Unaddressed : row[t].execution_status \in Verdict ~> received[t] # {}

\* The view a client has of the executor: the rows it can query and the
\* callbacks it receives.
Ledger == INSTANCE TaskLedger WITH
    Silent <- Unaddressed,
    phase <- [t \in Task |-> row[t].execution_status],
    told  <- received,
    note  <- [t \in Task |-> row[t].callback_status]

\* The executor with its workers, leases, streams and restarts implements the
\* task ledger: one verdict for good, told as recorded, and a callback that is
\* called sent only after it was told (or when it names nobody to tell, and then
\* nobody is told) and is never taken back.
ImplementsLedger == Ledger!Spec
=============================================================================
