------------------------ MODULE AnsibleExecutorProofs ------------------------
(***************************************************************************)
(* Proofs about AnsibleExecutor, for any tasks, workers and bounds.        *)
(***************************************************************************)
EXTENDS AnsibleExecutor, TLAPS

-----------------------------------------------------------------------------
(* Lemmas on the operators of TaskStore and JetStreamQueue                 *)

\* Every method of TaskStore maps a row to a row (task_store.py).
LEMMA RowOperatorsTyped ==
    ASSUME NEW r \in TaskRow, NEW v \in Verdict, NEW b \in BOOLEAN,
           NEW c \in {"none", "pending", "sent", "failed"}
    PROVE  /\ NoRow \in TaskRow
           /\ create_if_absent(b) \in TaskRow
           /\ claim_task(r) \in TaskRow
           /\ renew_lease(r) \in TaskRow
           /\ update_execution_result(r, v) \in TaskRow
           /\ update_callback_status(r, c, v) \in TaskRow
           /\ [r EXCEPT !.lease_live = FALSE] \in TaskRow
<1> USE DEF TaskRow, Verdict, TERMINAL_TASK_STATUSES, NoOwner
<1>1. NoRow \in TaskRow
  BY DEF NoRow
<1>2. create_if_absent(b) \in TaskRow
  <2>1. CASE b
    BY <1>1, <2>1 DEF create_if_absent
  <2>2. CASE ~b
    BY <1>1, <2>2 DEF create_if_absent
  <2> QED
    BY <2>1, <2>2
<1>3. claim_task(r) \in TaskRow
  <2>1. r.execution_attempt \in Nat /\ r.execution_attempt + 1 \in Nat
    OBVIOUS
  <2> QED
    BY <2>1 DEF claim_task, FreshOwner
<1>4. renew_lease(r) \in TaskRow /\ [r EXCEPT !.lease_live = FALSE] \in TaskRow
  BY DEF renew_lease
<1>5. update_execution_result(r, v) \in TaskRow
  BY DEF update_execution_result
<1>6. update_callback_status(r, c, v) \in TaskRow
  <2>1. next_status(r, c, v) \in {"absent", "queued", "running"} \cup TERMINAL_TASK_STATUSES
    BY DEF next_status
  <2> QED
    BY <2>1 DEF update_callback_status
<1> QED
  BY <1>1, <1>2, <1>3, <1>4, <1>5, <1>6

\* Every operation of the queue maps a message to a message.
LEMMA MessageOperatorsTyped ==
    ASSUME NEW m \in Message, NEW v \in {"none"} \cup Verdict
    PROVE  /\ NoMessage \in Message
           /\ publish(v) \in Message
           /\ deliver(m) \in Message
           /\ ack(m) \in Message
           /\ nak(m) \in Message
           /\ ack_wait_expired(m) \in Message
           /\ recreate_consumer(m) \in Message
<1> USE DEF Message, Verdict
<1>1. NoMessage \in Message /\ ack(m) \in Message
  BY DEF NoMessage, ack
<1>2. publish(v) \in Message
  BY DEF publish
<1>3. deliver(m) \in Message
  <2>1. m.delivered \in Nat /\ m.delivered + 1 \in Nat
    OBVIOUS
  <2> QED
    BY <2>1 DEF deliver
<1>4. nak(m) \in Message /\ ack_wait_expired(m) \in Message
  BY DEF nak, ack_wait_expired
<1>5. recreate_consumer(m) \in Message
  BY DEF recreate_consumer
<1> QED
  BY <1>1, <1>2, <1>3, <1>4, <1>5

-----------------------------------------------------------------------------
(* The inductive invariant.  The properties alone are not inductive: a     *)
(* worker's result, a retry message and the retry loop carry copies of     *)
(* what the row said earlier, so the invariant ties each copy to the row.  *)

Calling == {"callback", "answer", "requeue"}

\* The columns of one row agree with each other and with what its receiver got.
RowOK(t) ==
    /\ row[t].execution_status \notin Verdict => row[t].status = row[t].execution_status
    /\ row[t].execution_status \in Verdict =>
          /\ row[t].result = row[t].execution_status
          /\ row[t].status =
               IF row[t].execution_status = "success" /\ row[t].callback_status = "failed"
               THEN "callback_failed" ELSE row[t].execution_status
    /\ row[t].execution_status = "absent" => row[t].execution_attempt = 0
    /\ row[t].execution_status = "running" <=> row[t].lease_owner # NoOwner
    /\ row[t].lease_owner \in {NoOwner, row[t].execution_attempt}
    /\ row[t].lease_live => row[t].lease_owner # NoOwner
    /\ t \notin CallbackTask \/ row[t].execution_status = "absent" =>
          row[t].callback_status = "none"
    /\ t \in CallbackTask /\ row[t].execution_status \in {"queued", "running"} =>
          row[t].callback_status = "pending"
    /\ t \in CallbackTask /\ row[t].execution_status # "absent" =>
          row[t].callback_status # "none"
    /\ received[t] \subseteq {row[t].execution_status}
    /\ row[t].callback_status = "sent" => received[t] # {} \/ t \in Unaddressed

\* A retry message carries the recorded verdict of a task whose first callback
\* was given up.
RetryOK(t) ==
    InStream(retryQueue[t]) =>
        /\ t \in CallbackTask \ Unaddressed
        /\ retryQueue[t].body \in Verdict
        /\ retryQueue[t].body = row[t].execution_status
        /\ row[t].callback_status \in {"failed", "sent"}

\* A running worker has one of the claims made; one that calls back holds the
\* recorded verdict, and the callback is pending until it is told the outcome.
WorkerOK(w) ==
    LET t == worker[w].task IN
    /\ worker[w].pc \notin {"fetch", "dead"} => t \in Task
    /\ worker[w].pc = "run" =>
          worker[w].owner # NoOwner /\ worker[w].owner <= row[t].execution_attempt
    /\ worker[w].pc \in Calling =>
          /\ t \in CallbackTask
          /\ worker[w].verdict \in Verdict
          /\ worker[w].verdict = row[t].execution_status
    /\ worker[w].pc \in {"callback", "answer"} => row[t].callback_status = "pending"
    /\ worker[w].pc = "requeue" => row[t].callback_status \in {"failed", "sent"}
    /\ worker[w].pc = "answer" => received[t] # {}
    /\ worker[w].pc \in {"answer", "requeue"} => t \notin Unaddressed

\* Two workers on one task have different claims, and only one calls back.
PairOK(v, w) ==
    v # w /\ worker[v].task = worker[w].task =>
        /\ worker[v].pc = "run" /\ worker[w].pc = "run" => worker[v].owner # worker[w].owner
        /\ ~(worker[v].pc \in Calling /\ worker[w].pc \in Calling)

RetrierOK ==
    /\ retrier.pc \notin {"fetch", "dead"} => retrier.task \in Task
    /\ retrier.pc \in {"callback", "answer"} =>
          /\ retrier.task \in CallbackTask \ Unaddressed
          /\ retrier.body \in Verdict
          /\ retrier.body = row[retrier.task].execution_status
          /\ row[retrier.task].callback_status \in {"failed", "sent"}
    /\ retrier.pc = "answer" => received[retrier.task] # {}

Coherent ==
    /\ \A t \in Task : RowOK(t)
    /\ \A t \in Task : RetryOK(t)
    /\ \A w \in Worker : WorkerOK(w)
    /\ \A v, w \in Worker : PairOK(v, w)
    /\ RetrierOK

IInv == TypeOK /\ Coherent

-----------------------------------------------------------------------------
(* Steps preserve the types                                                *)

\* An idle coroutine, a fresh delivery and a move of the pc are well typed.
LEMMA IdleTyped ==
    /\ Idle \in WorkerState
    /\ [Idle EXCEPT !.pc = "dead"] \in WorkerState
    /\ RetrierIdle \in RetrierState
    /\ [RetrierIdle EXCEPT !.pc = "dead"] \in RetrierState
BY DEF Idle, WorkerState, WorkerPc, RetrierIdle, RetrierState, NoOwner

\* The steps of the enqueue handlers keep the types.
LEMMA EnqueueTyped ==
    ASSUME IInv, NEW t \in Task,
           EnqueueInsert(t) \/ EnqueueDuplicate(t) \/ EnqueuePublish(t) \/ EnqueuePublishFails(t)
    PROVE  TypeOK'
<1> USE DEF IInv, TypeOK, Coherent
<1>1. publish("none") \in Message
  BY DEF publish, Message
<1>2. create_if_absent(t \in CallbackTask) \in TaskRow
  <2>1. CASE t \in CallbackTask
    BY <2>1 DEF create_if_absent, NoRow, TaskRow, TERMINAL_TASK_STATUSES, NoOwner
  <2>2. CASE t \notin CallbackTask
    BY <2>2 DEF create_if_absent, NoRow, TaskRow, TERMINAL_TASK_STATUSES, NoOwner
  <2> QED
    BY <2>1, <2>2
<1>3. CASE EnqueueInsert(t)
  BY <1>2, <1>3 DEF EnqueueInsert
<1>4. CASE EnqueueDuplicate(t)
  BY <1>4 DEF EnqueueDuplicate
<1>5. CASE EnqueuePublish(t)
  BY <1>1, <1>5 DEF EnqueuePublish
<1>6. CASE EnqueuePublishFails(t)
  BY <1>1, <1>6 DEF EnqueuePublishFails
<1> QED
  BY <1>3, <1>4, <1>5, <1>6

\* Deliveries, claims and the keepalive keep the types.
LEMMA ClaimTyped ==
    ASSUME IInv, NEW w \in Worker,
           \/ (\E t \in Task : Deliver(w, t)) \/ Claim(w) \/ LeasedSkipRaises(w)
           \/ KeepAlive(w) \/ KeepAliveBreaks(w)
    PROVE  TypeOK'
<1> USE DEF IInv, TypeOK, Coherent
<1>1. ASSUME NEW t \in Task, Deliver(w, t) PROVE TypeOK'
  <2>1. deliver(queue[t]) \in Message
    BY MessageOperatorsTyped
  <2>2. queue[t].delivered + 1 \in Nat
    BY DEF Message
  <2>3. [Idle EXCEPT !.pc = "claim", !.task = t,
                     !.num_delivered = queue[t].delivered + 1] \in WorkerState
    BY <2>2 DEF Idle, WorkerState, WorkerPc, NoOwner
  <2> QED
    BY <1>1, <2>1, <2>3 DEF Deliver
<1>2. CASE Claim(w)
  <2> DEFINE t == worker[w].task
  <2>1. t \in Task /\ row[t] \in TaskRow /\ queue[t] \in Message /\ worker[w] \in WorkerState
    BY <1>2 DEF Claim, WorkerOK
  <2>2. claim_task(row[t]) \in TaskRow /\ nak(queue[t]) \in Message
    BY <2>1, RowOperatorsTyped, MessageOperatorsTyped DEF Verdict
  <2>3. FreshOwner(row[t]) \in Nat
    BY <2>1 DEF TaskRow, FreshOwner
  <2>4. /\ [worker[w] EXCEPT !.pc = "run", !.owner = FreshOwner(row[t]),
                             !.keepalive = "on"] \in WorkerState
        /\ [worker[w] EXCEPT !.pc = "drop"] \in WorkerState
    BY <2>1, <2>3 DEF WorkerState, WorkerPc
  <2>5. row' \in [Task -> TaskRow] /\ queue' \in [Task -> Message]
    BY <1>2, <2>1, <2>2 DEF Claim
  <2>6. worker' \in [Worker -> WorkerState]
    BY <1>2, <2>1, <2>4, IdleTyped DEF Claim
  <2> QED
    BY <1>2, <2>5, <2>6 DEF Claim
<1>3. CASE KeepAlive(w) \/ KeepAliveBreaks(w)
  <2> DEFINE t == worker[w].task
  <2>1. t \in Task /\ row[t] \in TaskRow /\ worker[w] \in WorkerState
    BY <1>3 DEF KeepAlive, KeepAliveBreaks, WorkerOK, InTask
  <2>2. renew_lease(row[t]) \in TaskRow
    BY <2>1, RowOperatorsTyped DEF Verdict
  <2>3. \A k \in {"stopped", "broken"} : [worker[w] EXCEPT !.keepalive = k] \in WorkerState
    BY <2>1 DEF WorkerState
  <2> QED
    BY <1>3, <2>1, <2>2, <2>3 DEF KeepAlive, KeepAliveBreaks
<1>4. CASE LeasedSkipRaises(w)
  <2>1. [worker[w] EXCEPT !.pc = "raise"] \in WorkerState
    BY DEF WorkerState, WorkerPc
  <2> QED
    BY <1>4, <2>1 DEF LeasedSkipRaises
<1> QED
  BY <1>1, <1>2, <1>3, <1>4

\* The steps of a worker after its claim keep the types.
LEMMA WorkerTyped ==
    ASSUME IInv, NEW w \in Worker,
           \/ \E v \in Verdict : Execute(w, v)
           \/ CallbackSkipped(w) \/ CallbackArrives(w) \/ CallbackAnswered(w) \/ CallbackFails(w)
           \/ EnqueueRetry(w) \/ EnqueueRetryFails(w) \/ Return(w) \/ Ack(w)
           \/ RaiseDeadLetter(w) \/ RaiseNak(w) \/ WorkerDies(w)
    PROVE  TypeOK'
<1> USE DEF IInv, TypeOK, Coherent
<1> DEFINE t == worker[w].task
<1>1. worker[w].pc \notin {"fetch", "dead"} =>
         t \in Task /\ row[t] \in TaskRow /\ queue[t] \in Message
  BY DEF WorkerOK
<1>2. worker[w] \in WorkerState
  OBVIOUS
<1>3. \A pc \in WorkerPc : [worker[w] EXCEPT !.pc = pc] \in WorkerState
  BY <1>2 DEF WorkerState
<1>4. ASSUME NEW v \in Verdict, Execute(w, v) PROVE TypeOK'
  <2>1. row[t] \in TaskRow
    BY <1>1, <1>4 DEF Execute
  <2>2. update_execution_result(row[t], v) \in TaskRow
    BY <2>1, RowOperatorsTyped
  <2>3. update_callback_status(update_execution_result(row[t], v), "none", v) \in TaskRow
    BY <2>2, RowOperatorsTyped
  <2>4. \A pc \in WorkerPc : [worker[w] EXCEPT !.pc = pc, !.verdict = v] \in WorkerState
    BY <1>2 DEF WorkerState
  <2>5. row' \in [Task -> TaskRow]
    BY <1>4, <2>2, <2>3 DEF Execute
  <2>6. worker' \in [Worker -> WorkerState]
    <3>1. CASE OwnsResult(row[t], worker[w].owner) /\ t \in CallbackTask
      BY <1>4, <2>4, <3>1 DEF Execute, WorkerPc
    <3>2. CASE OwnsResult(row[t], worker[w].owner) /\ t \notin CallbackTask
      BY <1>4, <2>4, <3>2 DEF Execute, WorkerPc
    <3>3. CASE ~OwnsResult(row[t], worker[w].owner)
      BY <1>4, <2>4, <3>3 DEF Execute, WorkerPc
    <3> QED
      BY <3>1, <3>2, <3>3
  <2> QED
    BY <1>4, <2>5, <2>6 DEF Execute
<1>5. CASE CallbackArrives(w)
  <2>1. t \in Task /\ worker[w].verdict \in Verdict
    BY <1>1, <1>5 DEF CallbackArrives, WorkerOK, Calling
  <2> QED
    BY <1>3, <1>5, <2>1 DEF CallbackArrives, WorkerPc
<1>6. CASE CallbackSkipped(w) \/ CallbackAnswered(w) \/ CallbackFails(w)
  <2>1. t \in Task /\ row[t] \in TaskRow /\ worker[w].verdict \in Verdict
    BY <1>1, <1>6 DEF CallbackSkipped, CallbackAnswered, CallbackFails, WorkerOK, Calling
  <2>2. /\ update_callback_status(row[t], "sent", worker[w].verdict) \in TaskRow
        /\ update_callback_status(row[t], "failed", worker[w].verdict) \in TaskRow
    BY <2>1, RowOperatorsTyped
  <2>3. row' \in [Task -> TaskRow]
    BY <1>6, <2>1, <2>2 DEF CallbackSkipped, CallbackAnswered, CallbackFails
  <2>4. worker' \in [Worker -> WorkerState]
    BY <1>3, <1>6 DEF CallbackSkipped, CallbackAnswered, CallbackFails, WorkerPc
  <2> QED
    BY <1>6, <2>3, <2>4 DEF CallbackSkipped, CallbackAnswered, CallbackFails
<1>7. CASE EnqueueRetry(w) \/ EnqueueRetryFails(w)
  <2>1. worker[w].verdict \in Verdict
    BY <1>7 DEF EnqueueRetry, EnqueueRetryFails, WorkerOK, Calling
  <2>2. publish(worker[w].verdict) \in Message
    BY <2>1 DEF publish, Message, Verdict
  <2> QED
    BY <1>3, <1>7, <2>2 DEF EnqueueRetry, EnqueueRetryFails, WorkerPc
<1>8. CASE Return(w)
  BY <1>3, <1>8 DEF Return, WorkerPc
<1>9. CASE Ack(w) \/ RaiseNak(w) \/ WorkerDies(w)
  <2>1. worker' \in [Worker -> WorkerState]
    BY <1>9, IdleTyped DEF Ack, RaiseNak, WorkerDies
  <2>2. queue' \in [Task -> Message]
    <3>1. \A u \in Task : ack(queue[u]) \in Message /\ nak(queue[u]) \in Message
      BY MessageOperatorsTyped DEF Verdict
    <3> QED
      BY <1>9, <3>1 DEF Ack, RaiseNak, WorkerDies
  <2> QED
    BY <1>9, <2>1, <2>2 DEF Ack, RaiseNak, WorkerDies
<1>10. CASE RaiseDeadLetter(w)
  <2>1. [type |-> "task_execution", task |-> t] \in DeadLetter
    BY <1>1, <1>10 DEF RaiseDeadLetter, DeadLetter
  <2> QED
    BY <1>3, <1>10, <2>1 DEF RaiseDeadLetter, WorkerPc
<1> QED
  BY <1>4, <1>5, <1>6, <1>7, <1>8, <1>9, <1>10

\* The steps of the retry loop keep the types.
LEMMA RetrierTyped ==
    ASSUME IInv, RetrierStep \/ RetryCallbackFails \/ RetrierDies
    PROVE  TypeOK'
<1> USE DEF IInv, TypeOK, Coherent
<1> DEFINE t == retrier.task
<1>1. retrier.pc \notin {"fetch", "dead"} => t \in Task /\ row[t] \in TaskRow
  BY DEF RetrierOK
<1>2. \A pc \in {"answer", "drop", "raise"} : [retrier EXCEPT !.pc = pc] \in RetrierState
  BY DEF RetrierState
<1>3. ASSUME NEW u \in Task, RetryDeliver(u) PROVE TypeOK'
  <2>1. deliver(retryQueue[u]) \in Message
    BY MessageOperatorsTyped DEF Verdict
  <2>2. retryQueue[u].delivered + 1 \in Nat /\ retryQueue[u].body \in {"none"} \cup Verdict
    BY DEF Message, Verdict
  <2>3. retrier' \in RetrierState
    BY <1>3, <2>2 DEF RetryDeliver, RetrierState
  <2> QED
    BY <1>3, <2>1, <2>3 DEF RetryDeliver
<1>4. CASE RetryCallbackArrives
  <2>1. t \in Task /\ retrier.body \in Verdict
    BY <1>4 DEF RetryCallbackArrives, RetrierOK
  <2> QED
    BY <1>2, <1>4, <2>1 DEF RetryCallbackArrives
<1>5. CASE RetryCallbackAnswered
  <2>1. t \in Task /\ row[t] \in TaskRow /\ retrier.body \in Verdict
    BY <1>5 DEF RetryCallbackAnswered, RetrierOK
  <2>2. update_callback_status(row[t], "sent", retrier.body) \in TaskRow
    BY <2>1, RowOperatorsTyped
  <2> QED
    BY <1>2, <1>5, <2>1, <2>2 DEF RetryCallbackAnswered
<1>6. CASE RetryCallbackFails
  BY <1>2, <1>6 DEF RetryCallbackFails
<1>7. CASE RetryAck \/ RetryRaiseNak \/ RetrierDies
  <2>1. \A u \in Task : ack(retryQueue[u]) \in Message /\ nak(retryQueue[u]) \in Message
    BY MessageOperatorsTyped DEF Verdict
  <2> QED
    BY <1>7, <2>1, IdleTyped DEF RetryAck, RetryRaiseNak, RetrierDies
<1>8. CASE RetryRaiseDeadLetter
  <2>1. [type |-> "callback_retry", task |-> t] \in DeadLetter
    BY <1>1, <1>8 DEF RetryRaiseDeadLetter, DeadLetter
  <2> QED
    BY <1>2, <1>8, <2>1 DEF RetryRaiseDeadLetter
<1> QED
  BY <1>3, <1>4, <1>5, <1>6, <1>7, <1>8 DEF RetrierStep

\* Deadlines, lost deliveries and a crash keep the types.
LEMMA EnvironmentTyped ==
    ASSUME IInv,
           \/ Crash
           \/ \E t \in Task : \/ DeliveryLost(t) \/ AckWaitExpires(t)
                              \/ LeaseExpires(t) \/ RetryAckWaitExpires(t)
    PROVE  TypeOK'
<1> USE DEF IInv, TypeOK, Coherent
<1>1. ASSUME NEW t \in Task, DeliveryLost(t) \/ AckWaitExpires(t) \/ RetryAckWaitExpires(t)
      PROVE  TypeOK'
  <2>1. /\ deliver(queue[t]) \in Message
        /\ ack_wait_expired(queue[t]) \in Message
        /\ ack_wait_expired(retryQueue[t]) \in Message
    BY MessageOperatorsTyped DEF Verdict
  <2> QED
    BY <1>1, <2>1 DEF DeliveryLost, AckWaitExpires, RetryAckWaitExpires
<1>2. ASSUME NEW t \in Task, LeaseExpires(t) PROVE TypeOK'
  <2>1. [row[t] EXCEPT !.lease_live = FALSE] \in TaskRow
    BY RowOperatorsTyped DEF Verdict
  <2> QED
    BY <1>2, <2>1 DEF LeaseExpires
<1>3. CASE Crash
  <2>1. \A t \in Task : /\ recreate_consumer(queue[t]) \in Message
                        /\ recreate_consumer(retryQueue[t]) \in Message
    BY MessageOperatorsTyped DEF Verdict
  <2> QED
    BY <1>3, <2>1, IdleTyped DEF Crash
<1> QED
  BY <1>1, <1>2, <1>3

-----------------------------------------------------------------------------
(* Steps preserve the coherence of the copies                              *)

\* Steps that touch neither the rows nor a copy of them.
LEMMA FrameCoherent ==
    ASSUME IInv, UNCHANGED <<row, retryQueue, worker, retrier, received>>
    PROVE  Coherent'
BY DEF IInv, Coherent, RowOK, RetryOK, WorkerOK, PairOK, RetrierOK

\* Steps that only move one worker out of its task, or to a new delivery.
LEMMA MoveCoherent ==
    ASSUME IInv, UNCHANGED <<row, retryQueue, retrier, received>>,
           NEW w \in Worker, NEW s \in WorkerState,
           worker' = [worker EXCEPT ![w] = s],
           s.pc \notin {"run"} \cup Calling,
           s.pc \in {"fetch", "dead"} \/ s.task \in Task
    PROVE  Coherent'
<1> USE DEF IInv, TypeOK, Coherent
<1>1. \A t \in Task : RowOK(t)' /\ RetryOK(t)'
  BY DEF RowOK, RetryOK
<1>2. \A v \in Worker : WorkerOK(v)'
  BY DEF WorkerOK, Calling
<1>3. \A u, v \in Worker : PairOK(u, v)'
  BY DEF PairOK, Calling
<1>4. RetrierOK'
  BY DEF RetrierOK
<1> QED
  BY <1>1, <1>2, <1>3, <1>4

\* Steps that only renew or end a lease, or stop a keepalive.
LEMMA LeaseCoherent ==
    ASSUME IInv, UNCHANGED <<retryQueue, retrier, received>>,
           NEW t \in Task, NEW b \in BOOLEAN,
           row' \in {row, [row EXCEPT ![t].lease_live = b]},
           b => row[t].lease_owner # NoOwner,
           \/ UNCHANGED worker
           \/ \E w \in Worker, k \in {"stopped", "broken"} :
                 worker' = [worker EXCEPT ![w].keepalive = k]
    PROVE  Coherent'
<1> USE DEF IInv, TypeOK, Coherent
<1>1. \A u \in Task : /\ row'[u].status = row[u].status
                      /\ row'[u].execution_status = row[u].execution_status
                      /\ row'[u].callback_status = row[u].callback_status
                      /\ row'[u].result = row[u].result
                      /\ row'[u].lease_owner = row[u].lease_owner
                      /\ row'[u].execution_attempt = row[u].execution_attempt
                      /\ row'[u].lease_live => row[u].lease_owner # NoOwner
  BY DEF TaskRow, RowOK
<1>2. \A v \in Worker : /\ worker'[v].pc = worker[v].pc
                        /\ worker'[v].task = worker[v].task
                        /\ worker'[v].owner = worker[v].owner
                        /\ worker'[v].verdict = worker[v].verdict
  BY DEF WorkerState
<1>3. \A u \in Task : RowOK(u)' /\ RetryOK(u)'
  BY <1>1 DEF RowOK, RetryOK
<1>4. \A v \in Worker : WorkerOK(v)'
  <2> SUFFICES ASSUME NEW v \in Worker PROVE WorkerOK(v)'
    OBVIOUS
  <2>1. CASE worker[v].task \in Task
    BY <1>1, <1>2, <2>1 DEF WorkerOK
  <2>2. CASE worker[v].task \notin Task
    BY <1>2, <2>2 DEF WorkerOK, Calling
  <2> QED
    BY <2>1, <2>2
<1>5. \A u, v \in Worker : PairOK(u, v)'
  BY <1>2 DEF PairOK
<1>6. RetrierOK'
  BY <1>1 DEF RetrierOK
<1> QED
  BY <1>3, <1>4, <1>5, <1>6

\* create_if_absent: nothing refers to a task without a row.
LEMMA InsertCoherent ==
    ASSUME IInv, NEW t \in Task, EnqueueInsert(t)
    PROVE  Coherent'
<1> USE DEF IInv, TypeOK, Coherent
<1> DEFINE new == create_if_absent(t \in CallbackTask)
<1>1. row[t].status = "absent" /\ row[t].execution_status = "absent" /\ received[t] = {}
  BY DEF EnqueueInsert, Exists, RowOK, Verdict
<1>2. /\ new.status = "queued" /\ new.execution_status = "queued"
      /\ new.lease_owner = NoOwner /\ new.lease_live = FALSE
      /\ new.callback_status = IF t \in CallbackTask THEN "pending" ELSE "none"
  BY DEF create_if_absent, NoRow
<1>3. row' = [row EXCEPT ![t] = new] /\ UNCHANGED <<retryQueue, worker, retrier, received>>
  BY DEF EnqueueInsert
<1>4. \A u \in Task : RowOK(u)'
  BY <1>1, <1>2, <1>3 DEF RowOK, Verdict, NoOwner
<1>5. \A u \in Task : RetryOK(u)'
  BY <1>1, <1>3 DEF RetryOK, Verdict
<1>6. \A w \in Worker : WorkerOK(w)'
  <2> SUFFICES ASSUME NEW w \in Worker PROVE WorkerOK(w)'
    OBVIOUS
  <2>1. CASE worker[w].task = t
    <3>1. worker[w].pc \notin Calling
      BY <1>1, <2>1 DEF WorkerOK, Verdict
    <3>2. worker[w].pc # "run"
      BY <1>1, <2>1 DEF WorkerOK, RowOK, NoOwner, WorkerState
    <3> QED
      BY <1>3, <2>1, <3>1, <3>2 DEF WorkerOK, Calling
  <2>2. CASE worker[w].task # t
    BY <1>3, <2>2 DEF WorkerOK
  <2> QED
    BY <2>1, <2>2
<1>7. \A v, w \in Worker : PairOK(v, w)'
  BY <1>3 DEF PairOK
<1>8. RetrierOK'
  BY <1>1, <1>3 DEF RetrierOK, Verdict
<1> QED
  BY <1>4, <1>5, <1>6, <1>7, <1>8

\* claim_task: a claim that succeeds is newer than every other claim of the
\* task, and no copy of a result of the task exists yet.
LEMMA ClaimCoherent ==
    ASSUME IInv, TypeOK', NEW w \in Worker, Claim(w)
    PROVE  Coherent'
<1> USE DEF IInv, TypeOK, Coherent
<1> DEFINE t == worker[w].task
<1>1. t \in Task /\ worker[w] \in WorkerState /\ row[t] \in TaskRow
  BY DEF Claim, WorkerOK
<1>2. CASE claim_reason(row[t]) # "claimed"
  <2>1. UNCHANGED <<row, retryQueue, retrier, received>>
    BY <1>2 DEF Claim
  <2>2. CASE claim_reason(row[t]) = "terminal"
    <3>1. worker' = [worker EXCEPT ![w] = [worker[w] EXCEPT !.pc = "drop"]]
      BY <1>2, <2>2 DEF Claim
    <3>2. [worker[w] EXCEPT !.pc = "drop"] \in WorkerState
      BY <1>1 DEF WorkerState, WorkerPc
    <3> QED
      BY <1>1, <2>1, <3>1, <3>2, MoveCoherent DEF Calling, WorkerState
  <2>3. CASE claim_reason(row[t]) # "terminal"
    <3>1. worker' = [worker EXCEPT ![w] = Idle]
      BY <1>2, <2>3 DEF Claim
    <3> QED
      BY <2>1, <3>1, IdleTyped, MoveCoherent DEF Calling, Idle
  <2> QED
    BY <2>2, <2>3
<1>3. CASE claim_reason(row[t]) = "claimed"
  <2> DEFINE new == claim_task(row[t])
             n == row[t].execution_attempt + 1
  <2>1. row[t].execution_status \in {"queued", "running"}
    BY <1>1, <1>3 DEF claim_reason, Exists, IsTerminal, RowOK, TaskRow, Verdict,
                      TERMINAL_TASK_STATUSES
  <2>2. n \in Nat /\ n # NoOwner /\ n > row[t].execution_attempt
    BY <1>1 DEF TaskRow, NoOwner
  <2>3. /\ new.status = "running" /\ new.execution_status = "running"
        /\ new.lease_owner = n /\ new.execution_attempt = n
        /\ new.callback_status = row[t].callback_status
    BY <1>1 DEF claim_task, FreshOwner, TaskRow
  <2>4. row' = [row EXCEPT ![t] = new] /\ UNCHANGED <<retryQueue, retrier, received>>
    BY <1>3 DEF Claim
  <2>5. /\ worker'[w].pc = "run" /\ worker'[w].task = t /\ worker'[w].owner = n
        /\ \A v \in Worker \ {w} : worker'[v] = worker[v]
    BY <1>1, <1>3 DEF Claim, FreshOwner, WorkerState
  <2>6. received[t] = {}
    BY <1>1, <2>1 DEF RowOK, Verdict
  <2>7. \A u \in Task : RowOK(u)'
    BY <1>1, <2>1, <2>2, <2>3, <2>4, <2>6 DEF RowOK, Verdict
  <2>8. \A u \in Task : RetryOK(u)'
    BY <2>1, <2>4 DEF RetryOK, Verdict
  <2>9. \A v \in Worker : WorkerOK(v)'
    <3> SUFFICES ASSUME NEW v \in Worker PROVE WorkerOK(v)'
      OBVIOUS
    <3>1. CASE v = w
      BY <1>1, <2>2, <2>3, <2>4, <2>5, <3>1 DEF WorkerOK, Calling
    <3>2. CASE v # w /\ worker[v].task = t
      <4>1. worker[v].pc \notin Calling
        BY <2>1, <3>2 DEF WorkerOK, Verdict
      <4>2. worker[v].owner \in Nat /\ row[t].execution_attempt \in Nat
        BY <1>1 DEF WorkerState, TaskRow
      <4> QED
        BY <1>1, <2>2, <2>3, <2>4, <2>5, <3>2, <4>1, <4>2 DEF WorkerOK, Calling
    <3>3. CASE v # w /\ worker[v].task # t
      BY <2>4, <2>5, <3>3 DEF WorkerOK
    <3> QED
      BY <3>1, <3>2, <3>3
  <2>10. \A u, v \in Worker : PairOK(u, v)'
    <3>1. \A v \in Worker \ {w} : worker[v].task = t /\ worker[v].pc = "run" => worker[v].owner # n
      BY <1>1, <2>2 DEF WorkerOK, WorkerState, TaskRow
    <3> QED
      BY <2>5, <3>1 DEF PairOK, Calling
  <2>11. RetrierOK'
    BY <2>1, <2>4 DEF RetrierOK, Verdict
  <2> QED
    BY <2>7, <2>8, <2>9, <2>10, <2>11
<1> QED
  BY <1>2, <1>3

\* update_execution_result: the claim that owns the row records its verdict;
\* until then nobody was told anything.
LEMMA ExecuteCoherent ==
    ASSUME IInv, NEW w \in Worker, NEW verdict \in Verdict, Execute(w, verdict)
    PROVE  Coherent'
<1> USE DEF IInv, TypeOK, Coherent
<1> DEFINE t == worker[w].task
<1>1. t \in Task /\ worker[w] \in WorkerState /\ row[t] \in TaskRow /\ worker[w].pc = "run"
  BY DEF Execute, WorkerOK
<1>2. CASE ~OwnsResult(row[t], worker[w].owner)
  <2>1. worker' = [worker EXCEPT ![w] = [worker[w] EXCEPT !.pc = "raise", !.verdict = verdict]]
    BY <1>2 DEF Execute
  <2>2. [worker[w] EXCEPT !.pc = "raise", !.verdict = verdict] \in WorkerState
    BY <1>1 DEF WorkerState, WorkerPc
  <2>3. UNCHANGED <<row, retryQueue, retrier, received>>
    BY <1>2 DEF Execute
  <2> QED
    BY <1>1, <2>1, <2>2, <2>3, MoveCoherent DEF Calling, WorkerState
<1>3. CASE OwnsResult(row[t], worker[w].owner)
  <2> DEFINE new == row'[t]
  <2>1. row[t].execution_status = "running" /\ received[t] = {}
    BY <1>1, <1>3 DEF OwnsResult, WorkerOK, RowOK, Verdict
  <2>2. row[t].callback_status = IF t \in CallbackTask THEN "pending" ELSE "none"
    BY <1>1, <2>1 DEF RowOK
  <2>3. /\ new.status = verdict /\ new.execution_status = verdict /\ new.result = verdict
        /\ new.lease_owner = NoOwner /\ new.lease_live = FALSE
        /\ new.execution_attempt = row[t].execution_attempt
        /\ new.callback_status = row[t].callback_status
    <3>1. CASE t \in CallbackTask
      <4>1. new = update_execution_result(row[t], verdict)
        BY <1>1, <1>3, <3>1 DEF Execute
      <4> QED
        BY <1>1, <4>1 DEF update_execution_result, TaskRow
    <3>2. CASE t \notin CallbackTask
      <4>1. new = update_callback_status(update_execution_result(row[t], verdict), "none", verdict)
        BY <1>1, <1>3, <3>2 DEF Execute
      <4>2. next_status(update_execution_result(row[t], verdict), "none", verdict) = verdict
        BY DEF next_status
      <4> DEFINE p == update_execution_result(row[t], verdict)
      <4>3. /\ p \in TaskRow /\ p.execution_status = verdict
            /\ p.lease_owner = NoOwner /\ p.lease_live = FALSE
            /\ p.execution_attempt = row[t].execution_attempt
        BY <1>1, RowOperatorsTyped DEF update_execution_result, TaskRow
      <4> HIDE DEF p
      <4>4. new = [p EXCEPT !.status = verdict, !.callback_status = "none", !.result = verdict]
        BY <4>1, <4>2 DEF update_callback_status, p
      <4> QED
        BY <2>2, <3>2, <4>3, <4>4 DEF TaskRow
    <3> QED
      BY <3>1, <3>2
  <2>4. \A u \in Task \ {t} : row'[u] = row[u]
    BY <1>3 DEF Execute
  <2>5. UNCHANGED <<retryQueue, retrier, received>>
    BY DEF Execute
  <2>6. /\ worker'[w].pc = (IF t \in CallbackTask THEN "callback" ELSE "return")
        /\ worker'[w].task = t /\ worker'[w].verdict = verdict
        /\ \A v \in Worker \ {w} : worker'[v] = worker[v]
    BY <1>1, <1>3 DEF Execute, WorkerState
  <2>7. \A u \in Task : RowOK(u)'
    BY <1>1, <2>1, <2>2, <2>3, <2>4, <2>5 DEF RowOK, Verdict, NoOwner
  <2>8. \A u \in Task : RetryOK(u)'
    BY <2>1, <2>4, <2>5 DEF RetryOK, Verdict
  <2>9. \A v \in Worker \ {w} : worker[v].task = t => worker[v].pc \notin Calling
    BY <2>1 DEF WorkerOK, Verdict
  <2>10. \A v \in Worker : WorkerOK(v)'
    <3> SUFFICES ASSUME NEW v \in Worker PROVE WorkerOK(v)'
      OBVIOUS
    <3>1. CASE v = w
      BY <1>1, <2>2, <2>3, <2>6, <3>1 DEF WorkerOK, Calling
    <3>2. CASE v # w /\ worker[v].task = t
      BY <1>1, <2>3, <2>6, <2>9, <3>2 DEF WorkerOK, Calling
    <3>3. CASE v # w /\ worker[v].task # t
      <4>1. CASE worker[v].task \in Task
        BY <2>4, <2>5, <2>6, <3>3, <4>1 DEF WorkerOK
      <4>2. CASE worker[v].task \notin Task
        BY <2>6, <3>3, <4>2 DEF WorkerOK, Calling
      <4> QED
        BY <4>1, <4>2
    <3> QED
      BY <3>1, <3>2, <3>3
  <2>11. \A u, v \in Worker : PairOK(u, v)'
    BY <2>6, <2>9 DEF PairOK, Calling
  <2>12. RetrierOK'
    BY <2>1, <2>4, <2>5 DEF RetrierOK, Verdict
  <2> QED
    BY <2>7, <2>8, <2>10, <2>11, <2>12
<1> QED
  BY <1>2, <1>3

\* The receiver is told the recorded verdict: a set of told verdicts that was
\* coherent stays so, and only grows.
LEMMA ToldCoherent ==
    ASSUME IInv, NEW t \in Task, row[t].execution_status \in Verdict,
           received' = [received EXCEPT ![t] = @ \cup {row[t].execution_status}],
           UNCHANGED <<row, retryQueue>>
    PROVE  /\ \A u \in Task : RowOK(u)' /\ RetryOK(u)'
           /\ received'[t] # {}
           /\ \A u \in Task : received[u] # {} => received'[u] # {}
<1> USE DEF IInv, TypeOK, Coherent
<1>1. \A u \in Task : /\ received'[u] \subseteq {row[u].execution_status}
                      /\ received[u] # {} => received'[u] # {}
  BY DEF RowOK
<1>2. received'[t] # {}
  OBVIOUS
<1>3. \A u \in Task : RowOK(u)' /\ RetryOK(u)'
  BY <1>1 DEF RowOK, RetryOK
<1> QED
  BY <1>1, <1>2, <1>3

\* _invoke_callback, when the receiver has handled the request.
LEMMA ArrivesCoherent ==
    ASSUME IInv, NEW w \in Worker, CallbackArrives(w)
    PROVE  Coherent'
<1> USE DEF IInv, TypeOK, Coherent
<1> DEFINE t == worker[w].task
<1>1. /\ t \in Task /\ t \in CallbackTask /\ worker[w] \in WorkerState
      /\ worker[w].verdict = row[t].execution_status /\ row[t].execution_status \in Verdict
      /\ row[t].callback_status = "pending" /\ t \notin Unaddressed
  BY DEF CallbackArrives, WorkerOK, Calling
<1>2. /\ received' = [received EXCEPT ![t] = @ \cup {row[t].execution_status}]
      /\ UNCHANGED <<row, retryQueue, retrier>>
  BY <1>1 DEF CallbackArrives
<1>3. /\ worker'[w].pc = "answer" /\ worker'[w].task = t /\ worker'[w].verdict = worker[w].verdict
      /\ worker[w].pc = "callback"
      /\ \A v \in Worker \ {w} : worker'[v] = worker[v]
  BY <1>1 DEF CallbackArrives, WorkerState
<1>4. /\ \A u \in Task : RowOK(u)' /\ RetryOK(u)'
      /\ received'[t] # {}
      /\ \A u \in Task : received[u] # {} => received'[u] # {}
  BY <1>1, <1>2, ToldCoherent
<1>5. \A v \in Worker : WorkerOK(v)'
  <2> SUFFICES ASSUME NEW v \in Worker PROVE WorkerOK(v)'
    OBVIOUS
  <2>1. CASE v = w
    BY <1>1, <1>2, <1>3, <1>4, <2>1 DEF WorkerOK, Calling
  <2>2. CASE v # w
    BY <1>2, <1>3, <1>4, <2>2 DEF WorkerOK
  <2> QED
    BY <2>1, <2>2
<1>6. \A u, v \in Worker : PairOK(u, v)'
  BY <1>3 DEF PairOK, Calling
<1>7. RetrierOK'
  BY <1>2, <1>4 DEF RetrierOK
<1> QED
  BY <1>4, <1>5, <1>6, <1>7

\* update_callback_status on the row of a finished task, told the recorded
\* verdict: only the callback's state moves, and status follows it.
LEMMA CallbackStatusRow ==
    ASSUME IInv, NEW t \in Task, NEW c \in {"sent", "failed"},
           row[t].execution_status \in Verdict, t \in CallbackTask,
           c = "failed" => row[t].callback_status = "pending",
           c = "sent" => received[t] # {} \/ t \in Unaddressed,
           row' = [row EXCEPT ![t] = update_callback_status(@, c, row[t].execution_status)],
           UNCHANGED received
    PROVE  /\ \A u \in Task : RowOK(u)'
           /\ \A u \in Task \ {t} : row'[u] = row[u]
           /\ row'[t].execution_status = row[t].execution_status
           /\ row'[t].execution_attempt = row[t].execution_attempt
           /\ row'[t].lease_owner = row[t].lease_owner
           /\ row'[t].callback_status = c
<1> USE DEF IInv, TypeOK, Coherent
<1> DEFINE v == row[t].execution_status
<1>1. row[t] \in TaskRow /\ RowOK(t)
  OBVIOUS
<1>2. next_status(row[t], c, v) =
        IF v = "success" /\ c = "failed" THEN "callback_failed" ELSE v
  BY <1>1 DEF next_status, RowOK, Verdict
<1>3. row'[t] = [row[t] EXCEPT !.status = next_status(row[t], c, v),
                               !.callback_status = c, !.result = v]
  BY DEF update_callback_status
<1>4. /\ row'[t].execution_status = v /\ row'[t].callback_status = c
      /\ row'[t].result = v
      /\ row'[t].status = IF v = "success" /\ c = "failed" THEN "callback_failed" ELSE v
      /\ row'[t].lease_owner = row[t].lease_owner
      /\ row'[t].lease_live = row[t].lease_live
      /\ row'[t].execution_attempt = row[t].execution_attempt
  BY <1>1, <1>2, <1>3 DEF TaskRow
<1>5. \A u \in Task \ {t} : row'[u] = row[u]
  OBVIOUS
<1>6. RowOK(t)'
  BY <1>1, <1>4 DEF RowOK, Verdict
<1>7. \A u \in Task \ {t} : RowOK(u)'
  BY <1>5 DEF RowOK
<1> QED
  BY <1>4, <1>5, <1>6, <1>7

\* The outcome of a worker's callback is recorded.
LEMMA OutcomeCoherent ==
    ASSUME IInv, NEW w \in Worker, CallbackSkipped(w) \/ CallbackAnswered(w) \/ CallbackFails(w)
    PROVE  Coherent'
<1> USE DEF IInv, TypeOK, Coherent
<1> DEFINE t == worker[w].task
<1>1. /\ t \in Task /\ t \in CallbackTask /\ worker[w] \in WorkerState
      /\ worker[w].pc \in {"callback", "answer"}
      /\ worker[w].verdict = row[t].execution_status /\ row[t].execution_status \in Verdict
      /\ row[t].callback_status = "pending"
      /\ CallbackAnswered(w) => received[t] # {}
      /\ CallbackSkipped(w) => t \in Unaddressed
      /\ CallbackFails(w) => t \notin Unaddressed
  BY DEF CallbackSkipped, CallbackAnswered, CallbackFails, WorkerOK, Calling
<1>2. PICK c \in {"sent", "failed"} :
        /\ row' = [row EXCEPT ![t] = update_callback_status(@, c, row[t].execution_status)]
        /\ c = "sent" => received[t] # {} \/ t \in Unaddressed
  BY <1>1 DEF CallbackSkipped, CallbackAnswered, CallbackFails
<1>3. /\ UNCHANGED <<retryQueue, retrier, received>>
      /\ worker'[w].pc \in {"requeue", "return"} /\ worker'[w].task = t
      /\ worker'[w].verdict = worker[w].verdict
      /\ worker'[w].pc = "requeue" => t \notin Unaddressed
      /\ \A v \in Worker \ {w} : worker'[v] = worker[v]
  <2>1. PICK pc \in {"requeue", "return"} :
          worker' = [worker EXCEPT ![w].pc = pc] /\ (pc = "requeue" => t \notin Unaddressed)
    BY <1>1 DEF CallbackSkipped, CallbackAnswered, CallbackFails
  <2>2. UNCHANGED <<retryQueue, retrier, received>>
    BY DEF CallbackSkipped, CallbackAnswered, CallbackFails
  <2> QED
    BY <1>1, <2>1, <2>2 DEF WorkerState
<1>4. /\ \A u \in Task : RowOK(u)'
      /\ \A u \in Task \ {t} : row'[u] = row[u]
      /\ row'[t].execution_status = row[t].execution_status
      /\ row'[t].execution_attempt = row[t].execution_attempt
      /\ row'[t].callback_status = c
  BY <1>1, <1>2, <1>3, CallbackStatusRow
<1>5. \A u \in Task : RetryOK(u)'
  BY <1>3, <1>4 DEF RetryOK
<1>6. \A v \in Worker \ {w} : worker[v].task = t => worker[v].pc \notin Calling
  BY <1>1 DEF PairOK, Calling
<1>7. \A v \in Worker : WorkerOK(v)'
  <2> SUFFICES ASSUME NEW v \in Worker PROVE WorkerOK(v)'
    OBVIOUS
  <2>1. CASE v = w
    BY <1>1, <1>3, <1>4, <2>1 DEF WorkerOK, Calling
  <2>2. CASE v # w /\ worker[v].task = t
    BY <1>1, <1>3, <1>4, <1>6, <2>2 DEF WorkerOK, Calling
  <2>3. CASE v # w /\ worker[v].task # t
    <3>1. CASE worker[v].task \in Task
      BY <1>3, <1>4, <2>3, <3>1 DEF WorkerOK
    <3>2. CASE worker[v].task \notin Task
      BY <1>3, <2>3, <3>2 DEF WorkerOK, Calling
    <3> QED
      BY <3>1, <3>2
  <2> QED
    BY <2>1, <2>2, <2>3
<1>8. \A u, v \in Worker : PairOK(u, v)'
  BY <1>1, <1>3, <1>6 DEF PairOK, Calling
<1>9. RetrierOK'
  BY <1>1, <1>3, <1>4 DEF RetrierOK
<1> QED
  BY <1>4, <1>5, <1>7, <1>8, <1>9

\* _enqueue_callback_retry: the message carries the recorded verdict.
LEMMA RequeueCoherent ==
    ASSUME IInv, NEW w \in Worker, EnqueueRetry(w) \/ EnqueueRetryFails(w)
    PROVE  Coherent'
<1> USE DEF IInv, TypeOK, Coherent
<1> DEFINE t == worker[w].task
<1>1. /\ t \in Task /\ t \in CallbackTask /\ worker[w] \in WorkerState
      /\ worker[w].verdict = row[t].execution_status /\ worker[w].verdict \in Verdict
      /\ row[t].callback_status \in {"failed", "sent"} /\ t \notin Unaddressed
  BY DEF EnqueueRetry, EnqueueRetryFails, WorkerOK, Calling
<1>2. /\ UNCHANGED <<row, retrier, received>>
      /\ retryQueue' \in {retryQueue, [retryQueue EXCEPT ![t] = publish(worker[w].verdict)]}
  BY DEF EnqueueRetry, EnqueueRetryFails
<1>3. /\ worker'[w].pc \in {"return", "raise"} /\ worker'[w].task = t
      /\ \A v \in Worker \ {w} : worker'[v] = worker[v]
  BY <1>1 DEF EnqueueRetry, EnqueueRetryFails, WorkerState
<1>4. \A u \in Task : RowOK(u)'
  BY <1>2 DEF RowOK
<1>5. \A u \in Task : RetryOK(u)'
  BY <1>1, <1>2 DEF RetryOK, publish
<1>6. \A v \in Worker : WorkerOK(v)'
  BY <1>1, <1>2, <1>3 DEF WorkerOK, Calling
<1>7. \A u, v \in Worker : PairOK(u, v)'
  BY <1>3 DEF PairOK, Calling
<1>8. RetrierOK'
  BY <1>2 DEF RetrierOK
<1> QED
  BY <1>4, <1>5, <1>6, <1>7, <1>8

\* Steps that leave rows, workers and receivers alone, and in which the retry
\* stream only loses messages or changes their delivery state.
LEMMA RetryFrameCoherent ==
    ASSUME IInv, UNCHANGED <<row, worker, received>>,
           \A t \in Task : InStream(retryQueue'[t]) =>
              InStream(retryQueue[t]) /\ retryQueue'[t].body = retryQueue[t].body,
           RetrierOK'
    PROVE  Coherent'
<1> USE DEF IInv, TypeOK, Coherent
<1>1. \A t \in Task : RowOK(t)' /\ RetryOK(t)'
  BY DEF RowOK, RetryOK
<1>2. \A w \in Worker : WorkerOK(w)'
  BY DEF WorkerOK
<1>3. \A v, w \in Worker : PairOK(v, w)'
  BY DEF PairOK
<1> QED
  BY <1>1, <1>2, <1>3

\* The steps of _callback_retry_loop.
LEMMA RetrierCoherent ==
    ASSUME IInv, RetrierStep \/ RetryCallbackFails \/ RetrierDies
    PROVE  Coherent'
<1> USE DEF IInv, TypeOK, Coherent
<1> DEFINE t == retrier.task
<1>1. ASSUME NEW u \in Task, RetryDeliver(u) PROVE Coherent'
  <2>1. InStream(retryQueue[u]) /\ retryQueue[u] \in Message
    BY <1>1 DEF RetryDeliver, CanDeliver, InStream
  <2>2. \A s \in Task : InStream(retryQueue'[s]) =>
            InStream(retryQueue[s]) /\ retryQueue'[s].body = retryQueue[s].body
    BY <1>1, <2>1 DEF RetryDeliver, deliver, Message
  <2>3. RetrierOK'
    BY <1>1, <2>1 DEF RetryDeliver, RetrierOK, RetryOK
  <2> QED
    BY <1>1, <2>2, <2>3, RetryFrameCoherent DEF RetryDeliver
<1>2. CASE RetryCallbackArrives
  <2>1. /\ t \in Task /\ t \in CallbackTask /\ t \notin Unaddressed /\ retrier.body = row[t].execution_status
        /\ row[t].execution_status \in Verdict
    BY <1>2 DEF RetryCallbackArrives, RetrierOK
  <2>2. /\ received' = [received EXCEPT ![t] = @ \cup {row[t].execution_status}]
        /\ UNCHANGED <<row, retryQueue, worker>>
        /\ retrier' = [retrier EXCEPT !.pc = "answer"]
    BY <1>2, <2>1 DEF RetryCallbackArrives
  <2>3. /\ \A u \in Task : RowOK(u)' /\ RetryOK(u)'
        /\ received'[t] # {}
        /\ \A u \in Task : received[u] # {} => received'[u] # {}
    BY <2>1, <2>2, ToldCoherent
  <2>4. \A w \in Worker : WorkerOK(w)'
    BY <2>2, <2>3 DEF WorkerOK
  <2>5. \A v, w \in Worker : PairOK(v, w)'
    BY <2>2 DEF PairOK
  <2>6. RetrierOK'
    BY <1>2, <2>1, <2>2, <2>3 DEF RetryCallbackArrives, RetrierOK, RetrierState
  <2> QED
    BY <2>3, <2>4, <2>5, <2>6
<1>3. CASE RetryCallbackAnswered
  <2>1. /\ t \in Task /\ t \in CallbackTask /\ t \notin Unaddressed /\ retrier.body = row[t].execution_status
        /\ row[t].execution_status \in Verdict /\ received[t] # {}
        /\ row[t].callback_status \in {"failed", "sent"}
    BY <1>3 DEF RetryCallbackAnswered, RetrierOK
  <2>2. /\ row' = [row EXCEPT ![t] = update_callback_status(@, "sent", row[t].execution_status)]
        /\ UNCHANGED <<retryQueue, worker, received>>
        /\ retrier' = [retrier EXCEPT !.pc = "drop"]
    BY <1>3, <2>1 DEF RetryCallbackAnswered
  <2>3. /\ \A u \in Task : RowOK(u)'
        /\ \A u \in Task \ {t} : row'[u] = row[u]
        /\ row'[t].execution_status = row[t].execution_status
        /\ row'[t].execution_attempt = row[t].execution_attempt
        /\ row'[t].callback_status = "sent"
    BY <2>1, <2>2, CallbackStatusRow
  <2>4. \A u \in Task : RetryOK(u)'
    BY <2>2, <2>3 DEF RetryOK
  <2>5. \A w \in Worker : WorkerOK(w)'
    <3> SUFFICES ASSUME NEW w \in Worker PROVE WorkerOK(w)'
      OBVIOUS
    <3>1. CASE worker[w].task = t
      BY <2>1, <2>2, <2>3, <3>1 DEF WorkerOK
    <3>2. CASE worker[w].task # t /\ worker[w].task \in Task
      BY <2>2, <2>3, <3>2 DEF WorkerOK
    <3>3. CASE worker[w].task \notin Task
      BY <2>2, <3>3 DEF WorkerOK, Calling
    <3> QED
      BY <3>1, <3>2, <3>3
  <2>6. \A v, w \in Worker : PairOK(v, w)'
    BY <2>2 DEF PairOK
  <2>7. RetrierOK'
    BY <2>1, <2>2 DEF RetrierOK, RetrierState
  <2> QED
    BY <2>3, <2>4, <2>5, <2>6, <2>7
<1>4. CASE RetryCallbackFails \/ RetryRaiseDeadLetter
  <2>1. UNCHANGED <<row, retryQueue, worker, received>>
    BY <1>4 DEF RetryCallbackFails, RetryRaiseDeadLetter
  <2>2. RetrierOK'
    BY <1>4, <2>1 DEF RetryCallbackFails, RetryRaiseDeadLetter, RetrierOK, RetrierState
  <2> QED
    BY <2>1, <2>2, RetryFrameCoherent
<1>5. CASE RetryAck \/ RetryRaiseNak \/ RetrierDies
  <2>1. UNCHANGED <<row, worker, received>>
    BY <1>5 DEF RetryAck, RetryRaiseNak, RetrierDies
  <2>2. RetrierOK'
    BY <1>5 DEF RetryAck, RetryRaiseNak, RetrierDies, RetrierOK, RetrierIdle
  <2>3. \A s \in Task : /\ ~InStream(ack(retryQueue[s]))
                        /\ nak(retryQueue[s]).body = retryQueue[s].body
                        /\ InStream(nak(retryQueue[s])) => InStream(retryQueue[s])
    BY DEF ack, nak, NoMessage, InStream, Message
  <2>4. retryQueue' \in {retryQueue, [retryQueue EXCEPT ![t] = ack(@)],
                         [retryQueue EXCEPT ![t] = nak(@)]}
    BY <1>5 DEF RetryAck, RetryRaiseNak, RetrierDies
  <2> QED
    BY <2>1, <2>2, <2>3, <2>4, RetryFrameCoherent
<1> QED
  BY <1>1, <1>2, <1>3, <1>4, <1>5 DEF RetrierStep

\* The ack deadline of a retry message, and the restart of the process: every
\* copy in memory is gone, the messages keep their bodies.
LEMMA RestartCoherent ==
    ASSUME IInv, Crash \/ \E t \in Task : RetryAckWaitExpires(t)
    PROVE  Coherent'
<1> USE DEF IInv, TypeOK, Coherent
<1>1. ASSUME NEW t \in Task, RetryAckWaitExpires(t) PROVE Coherent'
  <2>1. \A s \in Task : InStream(retryQueue'[s]) =>
            InStream(retryQueue[s]) /\ retryQueue'[s].body = retryQueue[s].body
    BY <1>1 DEF RetryAckWaitExpires, ack_wait_expired, InStream, Message
  <2>2. RetrierOK'
    BY <1>1 DEF RetryAckWaitExpires, RetrierOK
  <2> QED
    BY <1>1, <2>1, <2>2, RetryFrameCoherent DEF RetryAckWaitExpires
<1>2. CASE Crash
  <2>1. \A t \in Task : InStream(retryQueue'[t]) =>
            InStream(retryQueue[t]) /\ retryQueue'[t].body = retryQueue[t].body
    BY <1>2 DEF Crash, recreate_consumer, Message
  <2>2. UNCHANGED <<row, received>> /\ retrier' = RetrierIdle /\ worker' = [w \in Worker |-> Idle]
    BY <1>2 DEF Crash
  <2>3. \A t \in Task : RowOK(t)' /\ RetryOK(t)'
    BY <2>1, <2>2 DEF RowOK, RetryOK
  <2>4. \A w \in Worker : WorkerOK(w)'
    BY <2>2 DEF WorkerOK, Idle, Calling
  <2>5. \A v, w \in Worker : PairOK(v, w)'
    BY <2>2 DEF PairOK, Idle, Calling
  <2>6. RetrierOK'
    BY <2>2 DEF RetrierOK, RetrierIdle
  <2> QED
    BY <2>3, <2>4, <2>5, <2>6
<1> QED
  BY <1>1, <1>2

-----------------------------------------------------------------------------
(* The invariant holds always                                              *)

\* The empty table, empty streams and idle coroutines satisfy the invariant.
LEMMA InitIInv ==
    ASSUME Init
    PROVE  IInv
<1> USE DEF Init
<1>1. NoRow \in TaskRow /\ NoMessage \in Message
  BY RowOperatorsTyped, MessageOperatorsTyped
     DEF NoRow, TaskRow, NoMessage, Message, TERMINAL_TASK_STATUSES, Verdict, NoOwner
<1>2. TypeOK
  BY <1>1, IdleTyped DEF TypeOK
<1>3. \A t \in Task : RowOK(t) /\ RetryOK(t)
  BY DEF RowOK, RetryOK, NoRow, NoMessage, InStream, Verdict, NoOwner
<1>4. \A w \in Worker : WorkerOK(w)
  BY DEF WorkerOK, Idle, Calling
<1>5. \A v, w \in Worker : PairOK(v, w)
  BY DEF PairOK, Idle, Calling
<1>6. RetrierOK
  BY DEF RetrierOK, RetrierIdle
<1> QED
  BY <1>2, <1>3, <1>4, <1>5, <1>6 DEF IInv, Coherent

\* The steps that move a worker without touching what it copied from the row.
LEMMA WorkerMoveCoherent ==
    ASSUME IInv, NEW w \in Worker,
           \/ \E t \in Task : Deliver(w, t)
           \/ LeasedSkipRaises(w) \/ Return(w) \/ Ack(w) \/ RaiseDeadLetter(w) \/ RaiseNak(w)
           \/ WorkerDies(w)
    PROVE  Coherent'
<1> USE DEF IInv, TypeOK, Coherent
<1>1. worker[w] \in WorkerState
  OBVIOUS
<1>2. ASSUME NEW t \in Task, Deliver(w, t) PROVE Coherent'
  <2> DEFINE s == [Idle EXCEPT !.pc = "claim", !.task = t,
                               !.num_delivered = queue[t].delivered + 1]
  <2>1. queue[t].delivered + 1 \in Nat
    BY DEF Message
  <2>2. s \in WorkerState /\ s.pc = "claim" /\ s.task = t
    BY <2>1 DEF Idle, WorkerState, WorkerPc, NoOwner
  <2>3. worker' = [worker EXCEPT ![w] = s] /\ UNCHANGED <<row, retryQueue, retrier, received>>
    BY <1>2 DEF Deliver
  <2> QED
    BY <2>2, <2>3, MoveCoherent DEF Calling
<1>3. CASE LeasedSkipRaises(w) \/ Return(w) \/ RaiseDeadLetter(w)
  <2>1. PICK pc \in {"drop", "raise"} :
           worker' = [worker EXCEPT ![w] = [worker[w] EXCEPT !.pc = pc]]
    BY <1>3 DEF LeasedSkipRaises, Return, RaiseDeadLetter
  <2> DEFINE s == [worker[w] EXCEPT !.pc = pc]
  <2>2. s \in WorkerState /\ s.pc = pc /\ s.task = worker[w].task
    BY <1>1 DEF WorkerState, WorkerPc
  <2>3. worker[w].task \in Task
    BY <1>3 DEF LeasedSkipRaises, Return, RaiseDeadLetter, WorkerOK
  <2>4. UNCHANGED <<row, retryQueue, retrier, received>>
    BY <1>3 DEF LeasedSkipRaises, Return, RaiseDeadLetter
  <2> QED
    BY <2>1, <2>2, <2>3, <2>4, MoveCoherent DEF Calling
<1>4. CASE Ack(w) \/ RaiseNak(w) \/ WorkerDies(w)
  <2>1. PICK s \in {Idle, [Idle EXCEPT !.pc = "dead"]} : worker' = [worker EXCEPT ![w] = s]
    BY <1>4 DEF Ack, RaiseNak, WorkerDies
  <2>2. s \in WorkerState /\ s.pc \in {"fetch", "dead"}
    BY <2>1, IdleTyped DEF Idle
  <2>3. UNCHANGED <<row, retryQueue, retrier, received>>
    BY <1>4 DEF Ack, RaiseNak, WorkerDies
  <2> QED
    BY <2>1, <2>2, <2>3, MoveCoherent DEF Calling
<1> QED
  BY <1>2, <1>3, <1>4

\* The keepalive renews a lease it holds or stops; a lease expires.
LEMMA KeepAliveCoherent ==
    ASSUME IInv,
           \/ \E w \in Worker : KeepAlive(w) \/ KeepAliveBreaks(w)
           \/ \E t \in Task : LeaseExpires(t)
    PROVE  Coherent'
<1> USE DEF IInv, TypeOK, Coherent
<1>1. ASSUME NEW t \in Task, LeaseExpires(t) PROVE Coherent'
  BY <1>1, LeaseCoherent DEF LeaseExpires
<1>2. ASSUME NEW w \in Worker, KeepAlive(w) \/ KeepAliveBreaks(w) PROVE Coherent'
  <2> DEFINE t == worker[w].task
  <2>1. t \in Task
    BY <1>2 DEF KeepAlive, KeepAliveBreaks, WorkerOK, InTask
  <2>2. UNCHANGED <<retryQueue, retrier, received>>
    BY <1>2 DEF KeepAlive, KeepAliveBreaks
  <2>3. CASE HoldsLease(row[t], worker[w].owner)
    <3>1. row[t].lease_owner # NoOwner
      BY <2>1, <2>3 DEF HoldsLease, RowOK
    <3>2. row' = [row EXCEPT ![t].lease_live = TRUE]
      BY <1>2, <2>3 DEF KeepAlive, KeepAliveBreaks, renew_lease
    <3>3. \/ UNCHANGED worker
          \/ worker' = [worker EXCEPT ![w].keepalive = "broken"]
      BY <1>2, <2>3 DEF KeepAlive, KeepAliveBreaks
    <3> QED
      BY <2>1, <2>2, <3>1, <3>2, <3>3, LeaseCoherent
  <2>4. CASE ~HoldsLease(row[t], worker[w].owner)
    <3>1. row' = row /\ worker' = [worker EXCEPT ![w].keepalive = "stopped"]
      BY <1>2, <2>4 DEF KeepAlive, KeepAliveBreaks
    <3> QED
      BY <2>1, <2>2, <3>1, LeaseCoherent
  <2> QED
    BY <2>3, <2>4
<1> QED
  BY <1>1, <1>2

\* Every step of the executor preserves the invariant.
LEMMA NextIInv ==
    ASSUME IInv, [Next]_vars
    PROVE  IInv'
<1>1. CASE UNCHANGED vars
  <2>1. TypeOK'
    BY <1>1 DEF IInv, TypeOK, vars
  <2>2. Coherent'
    BY <1>1, FrameCoherent DEF vars
  <2> QED
    BY <2>1, <2>2 DEF IInv
<1>2. ASSUME NEW t \in Task, EnqueueInsert(t) PROVE IInv'
  BY <1>2, EnqueueTyped, InsertCoherent DEF IInv
<1>3. ASSUME NEW t \in Task,
             EnqueueDuplicate(t) \/ EnqueuePublish(t) \/ EnqueuePublishFails(t)
      PROVE  IInv'
  <2>1. TypeOK'
    BY <1>3, EnqueueTyped
  <2>2. UNCHANGED <<row, retryQueue, worker, retrier, received>>
    BY <1>3 DEF EnqueueDuplicate, EnqueuePublish, EnqueuePublishFails
  <2> QED
    BY <2>1, <2>2, FrameCoherent DEF IInv
<1>4. ASSUME NEW w \in Worker, Claim(w) PROVE IInv'
  <2>1. TypeOK'
    BY <1>4, ClaimTyped
  <2> QED
    BY <1>4, <2>1, ClaimCoherent DEF IInv
<1>5. ASSUME NEW w \in Worker, KeepAlive(w) \/ KeepAliveBreaks(w) PROVE IInv'
  BY <1>5, ClaimTyped, KeepAliveCoherent DEF IInv
<1>6. ASSUME NEW w \in Worker, LeasedSkipRaises(w) \/ \E t \in Task : Deliver(w, t) PROVE IInv'
  BY <1>6, ClaimTyped, WorkerMoveCoherent DEF IInv
<1>7. ASSUME NEW w \in Worker,
             Return(w) \/ Ack(w) \/ RaiseDeadLetter(w) \/ RaiseNak(w) \/ WorkerDies(w)
      PROVE  IInv'
  BY <1>7, WorkerTyped, WorkerMoveCoherent DEF IInv
<1>8. ASSUME NEW w \in Worker, NEW v \in Verdict, Execute(w, v) PROVE IInv'
  BY <1>8, WorkerTyped, ExecuteCoherent DEF IInv
<1>9. ASSUME NEW w \in Worker,
             \/ CallbackSkipped(w) \/ CallbackArrives(w) \/ CallbackAnswered(w) \/ CallbackFails(w)
             \/ EnqueueRetry(w) \/ EnqueueRetryFails(w)
      PROVE  IInv'
  <2>1. TypeOK'
    BY <1>9, WorkerTyped
  <2>2. Coherent'
    BY <1>9, ArrivesCoherent, OutcomeCoherent, RequeueCoherent
  <2> QED
    BY <2>1, <2>2 DEF IInv
<1>10. CASE RetrierStep \/ RetryCallbackFails \/ RetrierDies
  BY <1>10, RetrierTyped, RetrierCoherent DEF IInv
<1>11. ASSUME NEW t \in Task, DeliveryLost(t) \/ AckWaitExpires(t) PROVE IInv'
  <2>1. TypeOK'
    BY <1>11, EnvironmentTyped
  <2>2. UNCHANGED <<row, retryQueue, worker, retrier, received>>
    BY <1>11 DEF DeliveryLost, AckWaitExpires
  <2> QED
    BY <2>1, <2>2, FrameCoherent DEF IInv
<1>12. ASSUME NEW t \in Task, LeaseExpires(t) PROVE IInv'
  BY <1>12, EnvironmentTyped, KeepAliveCoherent DEF IInv
<1>13. ASSUME Crash \/ \E t \in Task : RetryAckWaitExpires(t) PROVE IInv'
  BY <1>13, EnvironmentTyped, RestartCoherent DEF IInv
<1> QED
  BY <1>1, <1>2, <1>3, <1>4, <1>5, <1>6, <1>7, <1>8, <1>9, <1>10, <1>11, <1>12, <1>13
     DEF Next, WorkerStep, Fault

-----------------------------------------------------------------------------
(* What a step does to one task, as the rows and the receiver show it      *)

Same(t) ==
    /\ row'[t].execution_status = row[t].execution_status
    /\ row'[t].execution_attempt = row[t].execution_attempt
    /\ row'[t].lease_owner = row[t].lease_owner
    /\ row'[t].callback_status = row[t].callback_status
    /\ received'[t] = received[t]

Inserted(t) ==
    /\ row[t].execution_status = "absent"
    /\ row[t].lease_owner = NoOwner
    /\ row'[t].execution_status = "queued"
    /\ row'[t].lease_owner = NoOwner
    /\ row'[t].callback_status = IF t \in CallbackTask THEN "pending" ELSE "none"
    /\ received'[t] = received[t]

Claimed(t) ==
    /\ row[t].execution_status \in {"queued", "running"}
    /\ ~row[t].lease_live
    /\ row'[t].execution_status = "running"
    /\ row'[t].callback_status = row[t].callback_status
    /\ received'[t] = received[t]

Recorded(t) ==
    /\ row[t].execution_status = "running"
    /\ row'[t].execution_status \in Verdict
    /\ row'[t].callback_status = row[t].callback_status
    /\ received'[t] = received[t]
    /\ \E w \in Worker : /\ worker[w].task = t
                         /\ worker[w].owner = row[t].lease_owner
                         /\ worker[w].pc = "run"

Told(t) ==
    /\ row'[t] = row[t]
    /\ row[t].execution_status \in Verdict
    /\ t \in CallbackTask \ Unaddressed
    /\ received'[t] = {row[t].execution_status}

Noted(t) ==
    /\ row'[t].execution_status = row[t].execution_status
    /\ row'[t].execution_attempt = row[t].execution_attempt
    /\ row'[t].lease_owner = row[t].lease_owner
    /\ row[t].execution_status \in Verdict
    /\ t \in CallbackTask
    /\ received'[t] = received[t]
    /\ \/ row'[t].callback_status = "sent" /\ (received[t] # {} \/ t \in Unaddressed)
       \/ row[t].callback_status = "pending" /\ row'[t].callback_status = "failed"

\* A step changes one task at most, in one of these ways.
Effect ==
    \/ \A t \in Task : Same(t)
    \/ \E t \in Task :
         /\ \A u \in Task \ {t} : Same(u)
         /\ Inserted(t) \/ Claimed(t) \/ Recorded(t) \/ Told(t) \/ Noted(t)

\* The insert of a new task_id and the claim of a delivered one.
LEMMA ClaimEffect ==
    ASSUME IInv, (\E t \in Task : EnqueueInsert(t)) \/ (\E w \in Worker : Claim(w))
    PROVE  Effect
<1> USE DEF IInv, TypeOK, Coherent
<1>1. ASSUME NEW t \in Task, EnqueueInsert(t) PROVE Effect
  <2>1. row[t].execution_status = "absent" /\ row[t].lease_owner = NoOwner
    BY <1>1 DEF EnqueueInsert, Exists, RowOK, Verdict
  <2>2. row' = [row EXCEPT ![t] = create_if_absent(t \in CallbackTask)] /\ received' = received
    BY <1>1 DEF EnqueueInsert
  <2>3. /\ create_if_absent(t \in CallbackTask).execution_status = "queued"
        /\ create_if_absent(t \in CallbackTask).lease_owner = NoOwner
        /\ create_if_absent(t \in CallbackTask).callback_status =
              IF t \in CallbackTask THEN "pending" ELSE "none"
    BY DEF create_if_absent, NoRow
  <2>4. Inserted(t)
    BY <2>1, <2>2, <2>3 DEF Inserted
  <2>5. \A u \in Task \ {t} : Same(u)
    BY <2>2 DEF Same
  <2> QED
    BY <2>4, <2>5 DEF Effect
<1>2. ASSUME NEW w \in Worker, Claim(w) PROVE Effect
  <2> DEFINE t == worker[w].task
  <2>1. t \in Task /\ row[t] \in TaskRow /\ received' = received
    BY <1>2 DEF Claim, WorkerOK
  <2>2. CASE claim_reason(row[t]) # "claimed"
    <3>1. row' = row
      BY <1>2, <2>2 DEF Claim
    <3> QED
      BY <2>1, <3>1 DEF Effect, Same
  <2>3. CASE claim_reason(row[t]) = "claimed"
    <3>1. row' = [row EXCEPT ![t] = claim_task(@)]
      BY <1>2, <2>3 DEF Claim
    <3>2. Exists(row[t]) /\ ~IsTerminal(row[t])
          /\ ~(row[t].execution_status = "running" /\ row[t].lease_owner # NoOwner
               /\ row[t].lease_live)
      BY <2>3 DEF claim_reason
    <3>3. row[t].execution_status \in {"queued", "running"} /\ ~row[t].lease_live
      BY <2>1, <3>2 DEF Exists, IsTerminal, RowOK, TaskRow, TERMINAL_TASK_STATUSES, Verdict
    <3>4. /\ row'[t].execution_status = "running"
          /\ row'[t].callback_status = row[t].callback_status
      BY <2>1, <3>1 DEF claim_task, TaskRow
    <3>5. Claimed(t)
      BY <2>1, <3>3, <3>4 DEF Claimed
    <3>6. \A u \in Task \ {t} : Same(u)
      BY <2>1, <3>1 DEF Same
    <3> QED
      BY <2>1, <3>5, <3>6 DEF Effect
  <2> QED
    BY <2>2, <2>3
<1> QED
  BY <1>1, <1>2

\* A run that ends: the verdict is recorded by the owner of the lease only.
LEMMA ExecuteEffect ==
    ASSUME IInv, NEW w \in Worker, NEW v \in Verdict, Execute(w, v)
    PROVE  Effect
<1> USE DEF IInv, TypeOK, Coherent
<1> DEFINE t == worker[w].task
<1>1. t \in Task /\ row[t] \in TaskRow /\ received' = received /\ worker[w].pc = "run"
  BY DEF Execute, WorkerOK
<1>2. CASE ~OwnsResult(row[t], worker[w].owner)
  BY <1>1, <1>2 DEF Execute, Effect, Same
<1>3. CASE OwnsResult(row[t], worker[w].owner)
  <2>1. row[t].execution_status = "running" /\ worker[w].owner = row[t].lease_owner
    BY <1>1, <1>3 DEF OwnsResult, WorkerOK, RowOK
  <2>2. t \notin CallbackTask => row[t].callback_status = "none"
    BY <1>1 DEF RowOK
  <2> DEFINE new == IF t \in CallbackTask THEN update_execution_result(row[t], v)
                    ELSE update_callback_status(update_execution_result(row[t], v), "none", v)
  <2>3. new.execution_status = v /\ new.callback_status = row[t].callback_status
    BY <1>1, <2>2 DEF update_execution_result, update_callback_status, TaskRow
  <2>4. row' = [row EXCEPT ![t] = new]
    BY <1>3 DEF Execute
  <2>5. Recorded(t)
    <3> HIDE DEF new
    <3> QED
      BY <1>1, <2>1, <2>3, <2>4 DEF Recorded
  <2>6. \A u \in Task \ {t} : Same(u)
    BY <1>1, <2>4 DEF Same
  <2> QED
    BY <1>1, <2>5, <2>6 DEF Effect
<1> QED
  BY <1>2, <1>3

\* A callback of a worker or of the retry loop reaches the receiver, or its
\* outcome is noted in the row.
LEMMA CallbackEffect ==
    ASSUME IInv,
           \/ RetryCallbackArrives \/ RetryCallbackAnswered
           \/ \E w \in Worker : CallbackArrives(w) \/ CallbackSkipped(w) \/ CallbackAnswered(w) \/ CallbackFails(w)
    PROVE  Effect
<1> USE DEF IInv, TypeOK, Coherent
<1>1. ASSUME NEW t \in CallbackTask \ Unaddressed, row[t].execution_status \in Verdict, t \in Task,
             received' = [received EXCEPT ![t] = @ \cup {row[t].execution_status}], row' = row
      PROVE  Effect
  <2>1. received[t] \subseteq {row[t].execution_status}
    BY <1>1 DEF RowOK
  <2>2. received'[t] = {row[t].execution_status}
    BY <1>1, <2>1
  <2>3. \A u \in Task \ {t} : Same(u)
    BY <1>1 DEF Same
  <2> QED
    BY <1>1, <2>2, <2>3 DEF Effect, Told
<1>2. ASSUME NEW t \in CallbackTask, row[t].execution_status \in Verdict, t \in Task,
             NEW c \in {"sent", "failed"},
             c = "failed" => row[t].callback_status = "pending",
             c = "sent" => received[t] # {} \/ t \in Unaddressed,
             row' = [row EXCEPT ![t] = update_callback_status(@, c, row[t].execution_status)],
             received' = received
      PROVE  Effect
  <2>1. /\ \A u \in Task \ {t} : row'[u] = row[u]
        /\ row'[t].execution_status = row[t].execution_status
        /\ row'[t].execution_attempt = row[t].execution_attempt
        /\ row'[t].lease_owner = row[t].lease_owner
        /\ row'[t].callback_status = c
    BY <1>2, CallbackStatusRow
  <2>2. Noted(t)
    BY <1>2, <2>1 DEF Noted
  <2>3. \A u \in Task \ {t} : Same(u)
    BY <1>2, <2>1 DEF Same
  <2> QED
    BY <1>2, <2>2, <2>3 DEF Effect
<1>3. ASSUME NEW w \in Worker, CallbackArrives(w) PROVE Effect
  <2> DEFINE t == worker[w].task
  <2>1. /\ t \in Task /\ t \in CallbackTask /\ worker[w].verdict = row[t].execution_status
        /\ row[t].execution_status \in Verdict /\ t \notin Unaddressed
    BY <1>3 DEF CallbackArrives, WorkerOK, Calling
  <2>2. /\ received' = [received EXCEPT ![t] = @ \cup {row[t].execution_status}]
        /\ row' = row
    BY <1>3, <2>1 DEF CallbackArrives
  <2> QED
    BY <1>1, <2>1, <2>2
<1>4. ASSUME NEW w \in Worker, CallbackSkipped(w) \/ CallbackAnswered(w) \/ CallbackFails(w) PROVE Effect
  <2> DEFINE t == worker[w].task
  <2>1. /\ t \in Task /\ t \in CallbackTask /\ worker[w].verdict = row[t].execution_status
        /\ row[t].execution_status \in Verdict /\ row[t].callback_status = "pending"
        /\ CallbackAnswered(w) => received[t] # {}
        /\ CallbackSkipped(w) => t \in Unaddressed
    BY <1>4 DEF CallbackSkipped, CallbackAnswered, CallbackFails, WorkerOK, Calling
  <2>2. CASE CallbackSkipped(w) \/ CallbackAnswered(w)
    <3>1. /\ row' = [row EXCEPT ![t] = update_callback_status(@, "sent", row[t].execution_status)]
          /\ received' = received
      BY <2>1, <2>2 DEF CallbackSkipped, CallbackAnswered
    <3> QED
      BY <1>2, <2>1, <2>2, <3>1
  <2>3. CASE CallbackFails(w)
    <3>1. /\ row' = [row EXCEPT ![t] = update_callback_status(@, "failed", row[t].execution_status)]
          /\ received' = received
      BY <2>1, <2>3 DEF CallbackFails
    <3> QED
      BY <1>2, <2>1, <3>1
  <2> QED
    BY <1>4, <2>2, <2>3
<1>5. CASE RetryCallbackArrives \/ RetryCallbackAnswered
  <2> DEFINE t == retrier.task
  <2>1. /\ t \in Task /\ t \in CallbackTask /\ t \notin Unaddressed /\ retrier.body = row[t].execution_status
        /\ row[t].execution_status \in Verdict
        /\ RetryCallbackAnswered => received[t] # {}
    BY <1>5 DEF RetryCallbackArrives, RetryCallbackAnswered, RetrierOK
  <2>2. CASE RetryCallbackArrives
    <3>1. /\ received' = [received EXCEPT ![t] = @ \cup {row[t].execution_status}]
          /\ row' = row
      BY <2>1, <2>2 DEF RetryCallbackArrives
    <3> QED
      BY <1>1, <2>1, <3>1
  <2>3. CASE RetryCallbackAnswered
    <3>1. /\ row' = [row EXCEPT ![t] = update_callback_status(@, "sent", row[t].execution_status)]
          /\ received' = received
      BY <2>1, <2>3 DEF RetryCallbackAnswered
    <3> QED
      BY <1>2, <2>1, <2>3, <3>1
  <2> QED
    BY <1>5, <2>2, <2>3
<1> QED
  BY <1>3, <1>4, <1>5

\* Every step of the executor has one of the effects on at most one task.
LEMMA NextEffect ==
    ASSUME IInv, [Next]_vars
    PROVE  Effect
<1> USE DEF IInv, TypeOK, Coherent
<1>1. ASSUME UNCHANGED <<row, received>> PROVE Effect
  BY <1>1 DEF Effect, Same
<1>2. ASSUME NEW t \in Task, LeaseExpires(t) PROVE Effect
  BY <1>2 DEF LeaseExpires, Effect, Same, TaskRow
<1>3. ASSUME NEW w \in Worker, KeepAlive(w) \/ KeepAliveBreaks(w) PROVE Effect
  <2>1. PICK t \in Task : row' = row \/ row' = [row EXCEPT ![t] = renew_lease(@)]
    BY <1>3 DEF KeepAlive, KeepAliveBreaks, WorkerOK, InTask
  <2>2. received' = received
    BY <1>3 DEF KeepAlive, KeepAliveBreaks
  <2> QED
    BY <2>1, <2>2 DEF Effect, Same, TaskRow, renew_lease
<1>4. ASSUME NEW t \in Task,
             \/ EnqueueDuplicate(t) \/ EnqueuePublish(t) \/ EnqueuePublishFails(t)
             \/ DeliveryLost(t) \/ AckWaitExpires(t) \/ RetryAckWaitExpires(t) \/ RetryDeliver(t)
      PROVE  Effect
  BY <1>1, <1>4 DEF EnqueueDuplicate, EnqueuePublish, EnqueuePublishFails, DeliveryLost,
                    AckWaitExpires, RetryAckWaitExpires, RetryDeliver
<1>5. ASSUME NEW w \in Worker,
             \/ \E t \in Task : Deliver(w, t)
             \/ LeasedSkipRaises(w) \/ EnqueueRetry(w) \/ EnqueueRetryFails(w) \/ Return(w) \/ Ack(w)
             \/ RaiseDeadLetter(w) \/ RaiseNak(w) \/ WorkerDies(w)
      PROVE  Effect
  BY <1>1, <1>5 DEF Deliver, LeasedSkipRaises, EnqueueRetry, EnqueueRetryFails, Return, Ack, RaiseDeadLetter,
                    RaiseNak, WorkerDies
<1>6. CASE RetryCallbackFails \/ RetryAck \/ RetryRaiseDeadLetter \/ RetryRaiseNak
           \/ RetrierDies \/ Crash \/ UNCHANGED vars
  BY <1>1, <1>6 DEF RetryCallbackFails, RetryAck, RetryRaiseDeadLetter, RetryRaiseNak,
                    RetrierDies, Crash, vars
<1> HIDE DEF IInv, TypeOK, Coherent
<1>7. ASSUME NEW w \in Worker, NEW v \in Verdict, Execute(w, v) PROVE Effect
  BY <1>7, ExecuteEffect
<1> QED
  BY <1>2, <1>3, <1>4, <1>5, <1>6, <1>7, ClaimEffect, CallbackEffect
     DEF Next, WorkerStep, RetrierStep, Fault

-----------------------------------------------------------------------------
(* The theorems                                                            *)

\* The inductive invariant holds in every reachable state of the executor.
THEOREM Invariance == Spec => []IInv
<1>1. Init => IInv
  BY InitIInv
<1>2. IInv /\ [Next]_vars => IInv'
  BY NextIInv
<1> QED
  BY <1>1, <1>2, PTL DEF Spec

\* Every variable of the executor keeps its type: the rows task_store.py writes
\* are rows, the messages stay messages.
THEOREM TypeCorrect == Spec => []TypeOK
<1>1. IInv => TypeOK
  BY DEF IInv
<1> QED
  BY <1>1, Invariance, PTL

\* The receiver of callbacks is only ever told the recorded verdict.
THEOREM ReceiverToldRecorded == Spec => []ReceivedIsRecorded
<1>1. IInv => ReceivedIsRecorded
  BY DEF IInv, Coherent, RowOK, ReceivedIsRecorded
<1> QED
  BY <1>1, Invariance, PTL

\* callback_status "sent" means that the receiver was told, or that the callback
\* names no receiver.
THEOREM SentMeansReceived == Spec => []SentWasReceived
<1>1. IInv => SentWasReceived
  BY DEF IInv, Coherent, RowOK, SentWasReceived
<1> QED
  BY <1>1, Invariance, PTL

\* status and result_json of a finished task agree with its verdict and its
\* callback status.
THEOREM StatusIsCoherent == Spec => []StatusCoherent
<1>1. IInv => StatusCoherent
  BY DEF IInv, Coherent, RowOK, StatusCoherent
<1> QED
  BY <1>1, Invariance, PTL

\* Of all workers running one task, at most the latest claim can record.
THEOREM LatestClaimOwns == Spec => []OnlyLatestClaimOwns
<1>1. ASSUME IInv, NEW w \in Worker, worker[w].pc = "run"
      PROVE  LET t == worker[w].task IN
             OwnsResult(row[t], worker[w].owner) <=>
                worker[w].owner = row[t].execution_attempt /\ row[t].execution_status = "running"
  <2> DEFINE t == worker[w].task
  <2>1. t \in Task /\ worker[w].owner # NoOwner /\ RowOK(t)
    BY <1>1 DEF IInv, Coherent, WorkerOK
  <2> QED
    BY <2>1 DEF OwnsResult, RowOK
<1>2. IInv => OnlyLatestClaimOwns
  BY <1>1 DEF IInv, Coherent, PairOK, OnlyLatestClaimOwns
<1> QED
  BY <1>2, Invariance, PTL

\* A recorded verdict is final, and nothing claims the task afterwards.
THEOREM ResultFinal == Spec => ResultIsFinal
<1> DEFINE A == \A t \in Task : row[t].execution_status \in Verdict =>
                   /\ row'[t].execution_status = row[t].execution_status
                   /\ row'[t].execution_attempt = row[t].execution_attempt
<1>1. ASSUME IInv, [Next]_vars PROVE A
  <2>1. Effect
    BY <1>1, NextEffect
  <2> QED
    BY <2>1 DEF Effect, Same, Inserted, Claimed, Recorded, Told, Noted, Verdict
<1>2. IInv /\ [Next]_vars => [A]_vars
  BY <1>1
<1> QED
  BY <1>2, Invariance, PTL DEF Spec, ResultIsFinal

\* A live lease ends only when its owner records its result: no redelivery and
\* no other worker takes the task from it.
THEOREM LiveLeaseKept == Spec => LiveLeaseNotStolen
<1> DEFINE A == \A t \in Task : row[t].lease_live /\ row'[t].lease_owner # row[t].lease_owner =>
                   /\ row'[t].execution_status \in Verdict
                   /\ \E w \in Worker : /\ worker[w].task = t
                                        /\ worker[w].owner = row[t].lease_owner
                                        /\ worker[w].pc = "run"
<1>1. ASSUME IInv, [Next]_vars PROVE A
  <2>1. Effect
    BY <1>1, NextEffect
  <2> QED
    BY <2>1 DEF Effect, Same, Inserted, Claimed, Recorded, Told, Noted
<1>2. IInv /\ [Next]_vars => [A]_vars
  BY <1>1
<1> QED
  BY <1>2, Invariance, PTL DEF Spec, LiveLeaseNotStolen

\* The executor implements the task ledger: what a client sees of a task in the
\* rows and through callbacks is a behaviour of TaskLedger.
THEOREM Refinement == Spec => ImplementsLedger
<1> DEFINE phase == [t \in Task |-> row[t].execution_status]
           note  == [t \in Task |-> row[t].callback_status]
<1>1. Init => Ledger!Init
  BY DEF Init, Ledger!Init, NoRow
<1>2. ASSUME IInv, [Next]_vars PROVE [Ledger!Next]_(Ledger!vars)
  <2>1. /\ received \in [Task -> SUBSET Verdict]
        /\ received' \in [Task -> SUBSET Verdict]
        /\ \A t \in Task : RowOK(t)
    <3>1. IInv'
      BY <1>2, NextIInv
    <3> QED
      BY <1>2, <3>1 DEF IInv, TypeOK, Coherent
  <2>2. CASE \A t \in Task : Same(t)
    <3>1. phase' = phase /\ note' = note
      BY <2>2 DEF Same
    <3>2. received' = received
      BY <2>1, <2>2 DEF Same
    <3> QED
      BY <3>1, <3>2 DEF Ledger!vars
  <2>3. ASSUME NEW t \in Task, \A u \in Task \ {t} : Same(u),
               Inserted(t) \/ Claimed(t) \/ Recorded(t) \/ Told(t) \/ Noted(t)
        PROVE  [Ledger!Next]_(Ledger!vars)
    <3>1. /\ phase' = [phase EXCEPT ![t] = row'[t].execution_status]
          /\ note' = [note EXCEPT ![t] = row'[t].callback_status]
          /\ phase[t] = row[t].execution_status /\ note[t] = row[t].callback_status
      BY <2>3 DEF Same
    <3>2. received' = [received EXCEPT ![t] = received'[t]]
      BY <2>1, <2>3 DEF Same
    <3> HIDE DEF phase, note
    <3>3. CASE Inserted(t)
      <4>1. received' = received
        BY <2>1, <3>2, <3>3 DEF Inserted
      <4> QED
        BY <3>1, <3>3, <4>1 DEF Inserted, Ledger!Next, Ledger!Submit, phase, note
    <3>4. CASE Claimed(t)
      <4>1. received' = received /\ note' = note
        BY <2>1, <3>1, <3>2, <3>4 DEF Claimed, note
      <4>2. CASE phase[t] = "queued"
        BY <3>1, <3>4, <4>1, <4>2 DEF Claimed, Ledger!Next, Ledger!Start, phase, note
      <4>3. CASE phase[t] = "running"
        <5>1. phase' = phase
          BY <3>1, <3>4, <4>3 DEF Claimed, phase
        <5> QED
          BY <4>1, <5>1 DEF Ledger!vars, phase, note
      <4> QED
        BY <3>1, <3>4, <4>2, <4>3 DEF Claimed
    <3>5. CASE Recorded(t)
      <4>1. /\ row'[t].callback_status = row[t].callback_status
            /\ received'[t] = received[t]
        BY <3>5 DEF Recorded
      <4>2. received' = received /\ note' = note
        BY <2>1, <3>1, <3>2, <4>1 DEF note
      <4> QED
        BY <3>1, <3>5, <4>2 DEF Recorded, Verdict, Ledger!Next, Ledger!Finish, phase, note
    <3>6. CASE Told(t)
      <4>1. phase' = phase /\ note' = note
        BY <3>1, <3>6 DEF Told, phase, note
      <4> QED
        BY <3>1, <3>2, <3>6, <4>1
           DEF Told, Verdict, Ledger!Next, Ledger!Tell, Ledger!Settled, phase, note
    <3>7. CASE Noted(t)
      <4>1. received' = received /\ phase' = phase
        BY <2>1, <3>1, <3>2, <3>7 DEF Noted, phase
      <4>2. note[t] \in {"pending", "failed", "sent"}
        BY <1>2, <3>1, <3>7 DEF Noted, IInv, TypeOK, Coherent, RowOK, TaskRow, Verdict
      <4>3. CASE row'[t].callback_status = note[t]
        <5>1. note' = note
          BY <3>1, <4>3 DEF note
        <5> QED
          BY <4>1, <5>1 DEF Ledger!vars, phase, note
      <4>4. CASE row'[t].callback_status = "sent" /\ (received[t] # {} \/ t \in Unaddressed) /\ note[t] # "sent"
        BY <3>1, <3>7, <4>1, <4>2, <4>4
           DEF Noted, Verdict, Ledger!Next, Ledger!Confirm, Ledger!Settled, phase, note
      <4>5. CASE row[t].callback_status = "pending" /\ row'[t].callback_status = "failed"
        BY <3>1, <3>7, <4>1, <4>5
           DEF Noted, Verdict, Ledger!Next, Ledger!GiveUp, Ledger!Settled, phase, note
      <4> QED
        BY <3>1, <3>7, <4>3, <4>4, <4>5 DEF Noted
    <3> QED
      BY <2>3, <3>3, <3>4, <3>5, <3>6, <3>7
  <2> QED
    BY <1>2, <2>2, <2>3, NextEffect DEF Effect
<1> QED
  BY <1>1, <1>2, Invariance, PTL DEF Spec, ImplementsLedger, Ledger!Spec

-----------------------------------------------------------------------------
(* Removal from the stream.  RemovedOnlyWhenSettled is not inductive: the   *)
(* worker about to ack must be known to have a settled task in hand.        *)

SettledTask(t) == row[t].execution_status \in Verdict \/ DeadLettered(t)

Removing ==
    /\ \A t \in stored : InStream(queue[t]) \/ SettledTask(t)
    /\ \A w \in Worker : worker[w].pc \in {"return", "drop"} => SettledTask(worker[w].task)

\* Nothing removes a dead letter.
LEMMA DeadLettersStay ==
    ASSUME [Next]_vars
    PROVE  dlq \subseteq dlq'
<1>1. ASSUME NEW u \in Task,
             \/ EnqueueInsert(u) \/ EnqueueDuplicate(u) \/ EnqueuePublish(u)
             \/ EnqueuePublishFails(u) \/ DeliveryLost(u) \/ AckWaitExpires(u)
             \/ LeaseExpires(u) \/ RetryAckWaitExpires(u)
      PROVE  dlq' = dlq
  <2>1. CASE EnqueueInsert(u) \/ EnqueueDuplicate(u) \/ EnqueuePublish(u)
    BY <2>1 DEF EnqueueInsert, EnqueueDuplicate, EnqueuePublish
  <2>2. CASE EnqueuePublishFails(u) \/ DeliveryLost(u)
    BY <2>2 DEF EnqueuePublishFails, DeliveryLost
  <2>3. CASE AckWaitExpires(u) \/ LeaseExpires(u) \/ RetryAckWaitExpires(u)
    BY <2>3 DEF AckWaitExpires, LeaseExpires, RetryAckWaitExpires
  <2> QED
    BY <1>1, <2>1, <2>2, <2>3
<1>2. ASSUME NEW w \in Worker,
             \/ \E u \in Task : Deliver(w, u)
             \/ Claim(w) \/ LeasedSkipRaises(w) \/ KeepAlive(w) \/ KeepAliveBreaks(w)
             \/ \E v \in Verdict : Execute(w, v)
      PROVE  dlq' = dlq
  BY <1>2 DEF Deliver, Claim, LeasedSkipRaises, KeepAlive, KeepAliveBreaks, Execute
<1>3. ASSUME NEW w \in Worker,
             \/ CallbackSkipped(w) \/ CallbackArrives(w) \/ CallbackAnswered(w) \/ CallbackFails(w)
             \/ EnqueueRetry(w) \/ EnqueueRetryFails(w) \/ Return(w) \/ Ack(w)
             \/ RaiseNak(w) \/ WorkerDies(w)
      PROVE  dlq' = dlq
  BY <1>3 DEF CallbackSkipped, CallbackArrives, CallbackAnswered, CallbackFails, EnqueueRetry,
              EnqueueRetryFails, Return, Ack, RaiseNak, WorkerDies
<1>4. ASSUME NEW w \in Worker, RaiseDeadLetter(w) PROVE dlq \subseteq dlq'
  BY <1>4 DEF RaiseDeadLetter
<1>5. CASE RetrierStep \/ RetryCallbackFails \/ RetrierDies
  BY <1>5 DEF RetrierStep, RetryDeliver, RetryCallbackArrives, RetryCallbackAnswered,
              RetryCallbackFails, RetryAck, RetryRaiseDeadLetter, RetryRaiseNak, RetrierDies
<1>6. CASE Crash \/ UNCHANGED vars
  BY <1>6 DEF Crash, vars
<1> QED
  BY <1>1, <1>2, <1>3, <1>4, <1>5, <1>6 DEF Next, WorkerStep, Fault

\* A settled task stays settled: the verdict is final and dead letters stay.
LEMMA SettledStays ==
    ASSUME IInv, [Next]_vars, NEW t \in Task, SettledTask(t)
    PROVE  SettledTask(t)'
<1>1. dlq \subseteq dlq'
  BY DeadLettersStay
<1>2. Effect
  BY NextEffect
<1>3. row[t].execution_status \in Verdict => row'[t].execution_status \in Verdict
  <2>1. CASE Same(t)
    BY <2>1 DEF Same
  <2>2. CASE Inserted(t) \/ Claimed(t)
    BY <2>2 DEF Inserted, Claimed, Verdict
  <2>3. CASE Recorded(t) \/ Told(t) \/ Noted(t)
    BY <2>3 DEF Recorded, Told, Noted
  <2> QED
    BY <1>2, <2>1, <2>2, <2>3 DEF Effect
<1> QED
  BY <1>1, <1>3 DEF SettledTask, DeadLettered

\* Steps that neither remove a task message nor bring a worker to its ack.
LEMMA RemovingFrame ==
    ASSUME IInv, Removing, [Next]_vars, stored \subseteq Task,
           \A t \in stored' : (t \in stored /\ InStream(queue[t])) \/ t \notin stored =>
                                 InStream(queue'[t]) \/ SettledTask(t)',
           \A w \in Worker : worker'[w].pc \in {"return", "drop"} =>
              \/ worker[w].pc \in {"return", "drop"} /\ worker'[w].task = worker[w].task
              \/ SettledTask(worker[w].task)'
    PROVE  Removing'
<1>1. \A w \in Worker : worker[w].pc \in {"return", "drop"} => worker[w].task \in Task
  BY DEF IInv, Coherent, WorkerOK
<1>2. \A t \in stored' : InStream(queue'[t]) \/ SettledTask(t)'
  BY SettledStays DEF Removing
<1>3. ASSUME NEW w \in Worker, worker'[w].pc \in {"return", "drop"}
      PROVE  SettledTask(worker[w].task)'
  <2>1. CASE worker[w].pc \in {"return", "drop"} /\ worker'[w].task = worker[w].task
    <3>1. worker[w].task \in Task /\ SettledTask(worker[w].task)
      BY <1>1, <2>1 DEF Removing
    <3>2. \A t \in Task : SettledTask(t) => SettledTask(t)'
      BY SettledStays
    <3> QED
      BY <2>1, <3>1, <3>2 DEF SettledTask, DeadLettered
  <2> QED
    BY <1>3, <2>1
<1> QED
  BY <1>2, <1>3 DEF Removing, SettledTask, DeadLettered

\* Every step keeps a stored message in the stream until its task is settled.
LEMMA NextRemoving ==
    ASSUME IInv, Removing, [Next]_vars, stored \subseteq Task
    PROVE  Removing'
<1> USE DEF IInv, TypeOK, Coherent
<1>1. ASSUME stored' = stored,
             \A t \in Task : InStream(queue[t]) => InStream(queue'[t]),
             \A w \in Worker : worker'[w].pc \in {"return", "drop"} =>
                worker[w].pc \in {"return", "drop"} /\ worker'[w].task = worker[w].task
      PROVE  Removing'
  BY <1>1, RemovingFrame
<1>2. ASSUME NEW t \in Task, EnqueuePublish(t) \/ EnqueuePublishFails(t) PROVE Removing'
  <2>1. \A u \in stored' : (u \in stored /\ InStream(queue[u])) \/ u \notin stored =>
                               InStream(queue'[u])
    BY <1>2 DEF EnqueuePublish, EnqueuePublishFails, publish, InStream
  <2>2. worker' = worker
    BY <1>2 DEF EnqueuePublish, EnqueuePublishFails
  <2> QED
    BY <2>1, <2>2, RemovingFrame
<1>3. ASSUME NEW t \in Task, DeliveryLost(t) \/ AckWaitExpires(t) PROVE Removing'
  <2>1. \A u \in Task : InStream(queue[u]) => InStream(queue'[u])
    BY <1>3 DEF DeliveryLost, AckWaitExpires, deliver, ack_wait_expired, InStream, Message
  <2>2. worker' = worker /\ stored' = stored
    BY <1>3 DEF DeliveryLost, AckWaitExpires
  <2> QED
    BY <1>1, <2>1, <2>2
<1>4. ASSUME NEW t \in Task, NEW w \in Worker, Deliver(w, t) PROVE Removing'
  <2>1. \A u \in Task : InStream(queue[u]) => InStream(queue'[u])
    BY <1>4 DEF Deliver, deliver, InStream, Message
  <2>2. \A v \in Worker : worker'[v].pc \in {"return", "drop"} => worker'[v] = worker[v]
    BY <1>4 DEF Deliver, Idle
  <2> QED
    BY <1>1, <1>4, <2>1, <2>2 DEF Deliver
<1>5. CASE Crash
  <2>1. \A u \in Task : InStream(queue[u]) => InStream(queue'[u])
    <3>1. ASSUME NEW u \in Task, InStream(queue[u]) PROVE InStream(queue'[u])
      <4>1. queue'[u] = [queue[u] EXCEPT !.state = "ready", !.delivered = 0]
        BY <1>5, <3>1 DEF Crash, recreate_consumer
      <4>2. queue[u] \in Message
        OBVIOUS
      <4>3. queue'[u].state = "ready"
        BY <4>1, <4>2 DEF Message
      <4> QED
        BY <4>3 DEF InStream
    <3> QED
      BY <3>1
  <2>2. \A v \in Worker : worker'[v].pc = "fetch"
    BY <1>5 DEF Crash, Idle
  <2> QED
    BY <1>1, <1>5, <2>1, <2>2 DEF Crash
<1>6. ASSUME UNCHANGED <<queue, worker, stored>> PROVE Removing'
  BY <1>1, <1>6
<1>7. ASSUME NEW w \in Worker, stored' = stored, NEW s,
             \A u \in Task : InStream(queue[u]) => InStream(queue'[u]),
             worker' = [worker EXCEPT ![w] = s],
             \/ s.pc \notin {"return", "drop"}
             \/ s.task = worker[w].task /\ worker[w].pc \in {"return", "drop"}
             \/ SettledTask(worker[w].task)'
      PROVE  Removing'
  <2>1. worker'[w] = s /\ \A v \in Worker \ {w} : worker'[v] = worker[v]
    BY <1>7
  <2> QED
    BY <1>7, <2>1, RemovingFrame
<1>8. CASE UNCHANGED vars \/ RetrierStep \/ RetryCallbackFails \/ RetrierDies
           \/ \E t \in Task : \/ EnqueueInsert(t) \/ EnqueueDuplicate(t)
                              \/ LeaseExpires(t) \/ RetryAckWaitExpires(t)
  BY <1>6, <1>8 DEF vars, RetrierStep, RetryDeliver, RetryCallbackArrives,
        RetryCallbackAnswered, RetryCallbackFails, RetryAck, RetryRaiseDeadLetter,
        RetryRaiseNak, RetrierDies, EnqueueInsert, EnqueueDuplicate, LeaseExpires,
        RetryAckWaitExpires
<1>9. ASSUME NEW w \in Worker, KeepAlive(w) \/ KeepAliveBreaks(w) PROVE Removing'
  <2>1. /\ queue' = queue /\ stored' = stored
        /\ \/ worker' = worker
           \/ \E k \in {"stopped", "broken"} : worker' = [worker EXCEPT ![w].keepalive = k]
    BY <1>9 DEF KeepAlive, KeepAliveBreaks
  <2>2. \A v \in Worker : worker'[v].pc = worker[v].pc /\ worker'[v].task = worker[v].task
    BY <2>1 DEF WorkerState
  <2> QED
    BY <1>1, <2>1, <2>2
<1>10. ASSUME NEW w \in Worker, Claim(w) PROVE Removing'
  <2> DEFINE t == worker[w].task
  <2>1. t \in Task /\ row[t] \in TaskRow /\ stored' = stored /\ worker[w] \in WorkerState
    BY <1>10 DEF Claim, WorkerOK
  <2>2. \A u \in Task : InStream(queue[u]) => InStream(queue'[u])
    BY <1>10 DEF Claim, nak, InStream, Message
  <2>3. CASE claim_reason(row[t]) = "terminal"
    <3>1. worker' = [worker EXCEPT ![w] = [worker[w] EXCEPT !.pc = "drop"]]
      BY <1>10, <2>3 DEF Claim
    <3>2. row' = row /\ IsTerminal(row[t])
      BY <1>10, <2>3 DEF Claim, claim_reason
    <3>3. row[t].execution_status \in Verdict
      BY <2>1, <3>2 DEF IsTerminal, RowOK, TaskRow, TERMINAL_TASK_STATUSES, Verdict
    <3>4. worker'[w].task = t
      BY <2>1, <3>1 DEF WorkerState
    <3>5. SettledTask(worker[w].task)'
      BY <3>2, <3>3, <3>4 DEF SettledTask
    <3> QED
      BY <1>7, <2>1, <2>2, <3>1, <3>5
  <2>4. CASE claim_reason(row[t]) # "terminal"
    <3>1. PICK s \in {Idle, [worker[w] EXCEPT !.pc = "run", !.owner = FreshOwner(row[t]),
                                              !.keepalive = "on"]} :
             worker' = [worker EXCEPT ![w] = s]
      BY <1>10, <2>4 DEF Claim
    <3>2. s.pc \in {"fetch", "run"}
      <4>1. Idle.pc = "fetch"
        BY DEF Idle
      <4>2. [worker[w] EXCEPT !.pc = "run", !.owner = FreshOwner(row[t]),
                              !.keepalive = "on"].pc = "run"
        BY <2>1 DEF WorkerState
      <4> QED
        BY <3>1, <4>1, <4>2
    <3> QED
      BY <1>7, <2>1, <2>2, <3>1, <3>2
  <2> QED
    BY <2>3, <2>4
<1>11. ASSUME NEW w \in Worker, NEW v \in Verdict, Execute(w, v) PROVE Removing'
  <2> DEFINE t == worker[w].task
  <2>1. /\ t \in Task /\ row[t] \in TaskRow /\ worker[w] \in WorkerState
        /\ stored' = stored /\ queue' = queue
    BY <1>11 DEF Execute, WorkerOK
  <2>2. PICK pc \in {"callback", "return", "raise"} :
           worker' = [worker EXCEPT ![w] = [worker[w] EXCEPT !.pc = pc, !.verdict = v]]
    BY <1>11 DEF Execute
  <2> DEFINE s == [worker[w] EXCEPT !.pc = pc, !.verdict = v]
  <2>3. s.pc = pc /\ s.task = t
    BY <2>1 DEF WorkerState
  <2>4. CASE pc = "return"
    <3>1. OwnsResult(row[t], worker[w].owner)
      <4>1. worker'[w].pc = "return"
        BY <2>1, <2>2, <2>4 DEF WorkerState
      <4>2. ~OwnsResult(row[t], worker[w].owner) => worker'[w].pc = "raise"
        BY <1>11, <2>1 DEF Execute, WorkerState
      <4> QED
        BY <4>1, <4>2
    <3> DEFINE new == IF t \in CallbackTask THEN update_execution_result(row[t], v)
                      ELSE update_callback_status(update_execution_result(row[t], v), "none", v)
    <3>2. row'[t].execution_status = v
      <4>1. row'[t] = new
        BY <1>11, <2>1, <3>1 DEF Execute
      <4>2. new.execution_status = v
        BY <2>1 DEF update_execution_result, update_callback_status, TaskRow
      <4> QED
        BY <4>1, <4>2
    <3>3. SettledTask(worker[w].task)'
      BY <2>1, <2>2, <2>3, <3>2 DEF SettledTask
    <3> QED
      BY <1>7, <2>1, <2>2, <3>3
  <2>5. CASE pc # "return"
    BY <1>7, <2>1, <2>2, <2>3, <2>5
  <2> QED
    BY <2>4, <2>5
<1>12. ASSUME NEW w \in Worker,
              \/ CallbackSkipped(w) \/ CallbackArrives(w) \/ CallbackAnswered(w) \/ CallbackFails(w)
              \/ EnqueueRetry(w) \/ EnqueueRetryFails(w)
       PROVE  Removing'
  <2> DEFINE t == worker[w].task
  <2>1. /\ t \in Task /\ row[t].execution_status \in Verdict /\ worker[w] \in WorkerState
        /\ stored' = stored /\ queue' = queue
    BY <1>12 DEF CallbackSkipped, CallbackArrives, CallbackAnswered, CallbackFails, EnqueueRetry,
                 EnqueueRetryFails, WorkerOK, Calling
  <2>2. PICK pc \in {"answer", "return", "requeue", "raise"} :
           worker' = [worker EXCEPT ![w] = [worker[w] EXCEPT !.pc = pc]]
    BY <1>12 DEF CallbackSkipped, CallbackArrives, CallbackAnswered, CallbackFails, EnqueueRetry,
                 EnqueueRetryFails
  <2>3. worker'[w].task = t
    BY <2>1, <2>2 DEF WorkerState
  <2>4. SettledTask(t)
    BY <2>1 DEF SettledTask
  <2>5. SettledTask(worker[w].task)'
    <3>1. \A u \in Task : SettledTask(u) => SettledTask(u)'
      BY SettledStays
    <3> QED
      BY <2>1, <2>3, <2>4, <3>1 DEF SettledTask, DeadLettered
  <2> QED
    BY <1>7, <2>1, <2>2, <2>5
<1>13. ASSUME NEW w \in Worker, LeasedSkipRaises(w) \/ Return(w) \/ RaiseDeadLetter(w) PROVE Removing'
  <2> DEFINE t == worker[w].task
  <2>1. /\ t \in Task /\ worker[w] \in WorkerState /\ stored' = stored /\ queue' = queue
    BY <1>13 DEF LeasedSkipRaises, Return, RaiseDeadLetter, WorkerOK
  <2>2. PICK pc \in {"drop", "raise"} :
           worker' = [worker EXCEPT ![w] = [worker[w] EXCEPT !.pc = pc]]
    BY <1>13 DEF LeasedSkipRaises, Return, RaiseDeadLetter
  <2>3. worker'[w].task = t /\ [worker[w] EXCEPT !.pc = pc].task = t
    BY <2>1, <2>2 DEF WorkerState
  <2>4. CASE Return(w)
    BY <1>7, <2>1, <2>2, <2>3, <2>4 DEF Return
  <2>5. CASE RaiseDeadLetter(w)
    <3>1. SettledTask(worker[w].task)'
      BY <2>3, <2>5 DEF RaiseDeadLetter, SettledTask, DeadLettered
    <3> QED
      BY <1>7, <2>1, <2>2, <3>1
  <2>6. CASE LeasedSkipRaises(w)
    <3>1. worker' = [worker EXCEPT ![w] = [worker[w] EXCEPT !.pc = "raise"]]
      BY <2>6 DEF LeasedSkipRaises
    <3>2. [worker[w] EXCEPT !.pc = "raise"].pc = "raise"
      BY <2>1 DEF WorkerState
    <3> QED
      BY <1>7, <2>1, <3>1, <3>2
  <2> QED
    BY <1>13, <2>4, <2>5, <2>6
<1>14. ASSUME NEW w \in Worker, Ack(w) PROVE Removing'
  <2> DEFINE t == worker[w].task
  <2>1. t \in Task /\ SettledTask(t) /\ stored' = stored
    BY <1>14 DEF Ack, WorkerOK, Removing
  <2>2. \A u \in Task \ {t} : queue'[u] = queue[u]
    BY <1>14, <2>1 DEF Ack
  <2>3. \A v \in Worker : worker'[v].pc \in {"return", "drop"} => worker'[v] = worker[v]
    BY <1>14 DEF Ack, Idle
  <2>4. UNCHANGED <<row, dlq>>
    BY <1>14 DEF Ack
  <2>5. \A u \in stored' : InStream(queue'[u]) \/ SettledTask(u)'
    BY <2>1, <2>2, <2>4 DEF Removing, SettledTask, DeadLettered
  <2> QED
    BY <2>1, <2>3, <2>5, RemovingFrame
<1>15. ASSUME NEW w \in Worker, RaiseNak(w) \/ WorkerDies(w) PROVE Removing'
  <2>1. PICK s \in {Idle, [Idle EXCEPT !.pc = "dead"]} : worker' = [worker EXCEPT ![w] = s]
    BY <1>15 DEF RaiseNak, WorkerDies
  <2>2. s.pc \in {"fetch", "dead"}
    BY <2>1 DEF Idle
  <2>3. \A u \in Task : InStream(queue[u]) => InStream(queue'[u])
    BY <1>15 DEF RaiseNak, WorkerDies, nak, InStream, Message
  <2>4. stored' = stored
    BY <1>15 DEF RaiseNak, WorkerDies
  <2> QED
    BY <1>7, <2>1, <2>2, <2>3, <2>4
<1> HIDE DEF IInv, TypeOK, Coherent
<1> QED
  BY <1>2, <1>3, <1>4, <1>5, <1>8, <1>9, <1>10, <1>11, <1>12, <1>13, <1>14, <1>15
     DEF Next, WorkerStep, Fault

\* At-least-once: the task stream loses a stored message only after its task has
\* a recorded result or a dead letter.
THEOREM RemovedWhenSettled == Spec => []RemovedOnlyWhenSettled
<1>1. Init => Removing
  BY DEF Init, Removing, Idle
<1>2. IInv /\ Removing /\ [Next]_vars => Removing'
  BY NextRemoving DEF IInv, TypeOK
<1>3. IInv /\ Removing => RemovedOnlyWhenSettled
  BY DEF IInv, TypeOK, Coherent, RowOK, Removing, SettledTask, RemovedOnlyWhenSettled,
         IsTerminal, Verdict, TERMINAL_TASK_STATUSES
<1> QED
  BY <1>1, <1>2, <1>3, Invariance, PTL DEF Spec

-----------------------------------------------------------------------------
(* Retries of a failed callback.  FailedCallbackHasRetry is not inductive:   *)
(* the retry loop about to ack must be known to have been answered or to     *)
(* have dead-lettered the retry.                                            *)

\* The callback of t was answered, or its retries were given up for good.
CallbackSettled(t) == row[t].callback_status = "sent" \/ CallbackDeadLettered(t)

RetryKept ==
    /\ FailedCallbackHasRetry
    /\ retrier.pc = "drop" => CallbackSettled(retrier.task)

\* The crash counter only grows.
LEMMA CrashesCount ==
    ASSUME [Next]_vars
    PROVE  Crash \/ crashes' = crashes
<1>1. ASSUME NEW t \in Task,
             \/ EnqueueInsert(t) \/ EnqueueDuplicate(t) \/ EnqueuePublish(t) \/ EnqueuePublishFails(t)
             \/ DeliveryLost(t) \/ AckWaitExpires(t) \/ LeaseExpires(t) \/ RetryAckWaitExpires(t)
      PROVE  crashes' = crashes
  BY <1>1 DEF EnqueueInsert, EnqueueDuplicate, EnqueuePublish, EnqueuePublishFails, DeliveryLost,
              AckWaitExpires, LeaseExpires, RetryAckWaitExpires
<1>2. ASSUME NEW w \in Worker,
             \/ \E t \in Task : Deliver(w, t)
             \/ Claim(w) \/ LeasedSkipRaises(w) \/ KeepAlive(w) \/ KeepAliveBreaks(w)
             \/ \E v \in Verdict : Execute(w, v)
      PROVE  crashes' = crashes
  BY <1>2 DEF Deliver, Claim, LeasedSkipRaises, KeepAlive, KeepAliveBreaks, Execute
<1>3. ASSUME NEW w \in Worker,
             \/ CallbackSkipped(w) \/ CallbackArrives(w) \/ CallbackAnswered(w) \/ CallbackFails(w)
             \/ EnqueueRetry(w) \/ EnqueueRetryFails(w) \/ Return(w) \/ Ack(w)
             \/ RaiseDeadLetter(w) \/ RaiseNak(w) \/ WorkerDies(w)
      PROVE  crashes' = crashes
  BY <1>3 DEF CallbackSkipped, CallbackArrives, CallbackAnswered, CallbackFails, EnqueueRetry, EnqueueRetryFails, Return, Ack,
              RaiseDeadLetter, RaiseNak, WorkerDies
<1>4. CASE RetrierStep \/ RetryCallbackFails \/ RetrierDies
  BY <1>4 DEF RetrierStep, RetryDeliver, RetryCallbackArrives, RetryCallbackAnswered, RetryCallbackFails,
              RetryAck, RetryRaiseDeadLetter, RetryRaiseNak, RetrierDies
<1>5. CASE UNCHANGED vars
  BY <1>5 DEF vars
<1> QED
  BY <1>1, <1>2, <1>3, <1>4, <1>5 DEF Next, WorkerStep, Fault

\* An answered callback stays answered and a dead letter stays.
LEMMA CallbackSettledStays ==
    ASSUME IInv, [Next]_vars, NEW t \in Task, CallbackSettled(t)
    PROVE  CallbackSettled(t)'
<1>1. dlq \subseteq dlq'
  BY DeadLettersStay
<1>2. Effect
  BY NextEffect
<1>3. row[t].callback_status = "sent" => row'[t].callback_status = "sent"
  <2>1. CASE Same(t) \/ Told(t) \/ Claimed(t) \/ Recorded(t) \/ Noted(t)
    BY <2>1 DEF Same, Told, Claimed, Recorded, Noted
  <2>2. CASE Inserted(t)
    <3>1. RowOK(t) /\ row[t].execution_status = "absent"
      BY <2>2 DEF Inserted, IInv, Coherent
    <3> QED
      BY <3>1 DEF RowOK
  <2> QED
    BY <1>2, <2>1, <2>2 DEF Effect
<1> QED
  BY <1>1, <1>3 DEF CallbackSettled, CallbackDeadLettered

\* A step that removes no retry message, moves no worker out of "requeue" and
\* fails no callback.
LEMMA RetryFrame ==
    ASSUME IInv, RetryKept, [Next]_vars,
           \A t \in Task : InStream(retryQueue[t]) => InStream(retryQueue'[t]),
           \A w \in Worker : worker[w].pc = "requeue" =>
              worker'[w].pc = "requeue" /\ worker'[w].task = worker[w].task,
           retrier'.pc = "drop" => retrier' = retrier,
           \A t \in Task : row'[t].callback_status = "failed" => row[t].callback_status = "failed"
    PROVE  RetryKept'
<1>1. dlq \subseteq dlq'
  BY DeadLettersStay
<1>2. FailedCallbackHasRetry'
  <2> SUFFICES ASSUME NEW t \in Task, row'[t].callback_status = "failed"
               PROVE  \/ InStream(retryQueue'[t])
                      \/ CallbackDeadLettered(t)'
                      \/ \E w \in Worker : worker'[w].task = t /\ worker'[w].pc = "requeue"
    BY DEF FailedCallbackHasRetry
  <2>1. \/ InStream(retryQueue[t]) \/ CallbackDeadLettered(t)
        \/ \E w \in Worker : worker[w].task = t /\ worker[w].pc = "requeue"
    BY DEF RetryKept, FailedCallbackHasRetry
  <2>2. CallbackDeadLettered(t) => CallbackDeadLettered(t)'
    BY <1>1 DEF CallbackDeadLettered
  <2> QED
    BY <2>1, <2>2
<1>3. ASSUME retrier'.pc = "drop" PROVE CallbackSettled(retrier.task)'
  <2>1. retrier' = retrier /\ retrier.task \in Task /\ CallbackSettled(retrier.task)
    BY <1>3 DEF RetryKept, IInv, Coherent, RetrierOK
  <2>2. \A t \in Task : CallbackSettled(t) => CallbackSettled(t)'
    BY CallbackSettledStays
  <2> QED
    BY <2>1, <2>2 DEF CallbackSettled, CallbackDeadLettered
<1> QED
  BY <1>2, <1>3 DEF RetryKept

\* Without a lost publish and without a crash, every step keeps the retry of a
\* failed callback.
LEMMA NextRetryKept ==
    ASSUME IInv, RetryKept, [Next]_vars, "publish" \notin Faults, ~Crash
    PROVE  RetryKept'
<1>0. TypeOK /\ Coherent /\ worker \in [Worker -> WorkerState] /\ retryQueue \in [Task -> Message]
      /\ row \in [Task -> TaskRow]
  BY DEF IInv, TypeOK
<1>1. ASSUME UNCHANGED <<retryQueue, retrier>>,
             \A w \in Worker : worker[w].pc = "requeue" =>
                worker'[w].pc = "requeue" /\ worker'[w].task = worker[w].task,
             \A t \in Task : row'[t].callback_status = "failed" => row[t].callback_status = "failed"
      PROVE  RetryKept'
  BY <1>1, RetryFrame
<1>2. ASSUME NEW t \in Task, \/ EnqueueDuplicate(t) \/ EnqueuePublish(t) \/ DeliveryLost(t) \/ AckWaitExpires(t)
      PROVE  RetryKept'
  BY <1>1, <1>2 DEF EnqueueDuplicate, EnqueuePublish, DeliveryLost, AckWaitExpires
<1>3. ASSUME NEW t \in Task, EnqueueInsert(t) \/ LeaseExpires(t) PROVE RetryKept'
  <2>1. /\ \A u \in Task \ {t} : row'[u] = row[u]
        /\ row'[t].callback_status # "failed" \/ row'[t].callback_status = row[t].callback_status
    <3>1. CASE EnqueueInsert(t)
      <4>1. row' = [row EXCEPT ![t] = create_if_absent(t \in CallbackTask)]
        BY <3>1 DEF EnqueueInsert
      <4>2. create_if_absent(t \in CallbackTask).callback_status # "failed"
        BY DEF create_if_absent, NoRow
      <4> QED
        BY <1>0, <4>1, <4>2
    <3>2. CASE LeaseExpires(t)
      BY <1>0, <3>2 DEF LeaseExpires, TaskRow
    <3> QED
      BY <1>3, <3>1, <3>2
  <2> QED
    BY <1>1, <1>3, <2>1 DEF EnqueueInsert, LeaseExpires
<1>4. ASSUME NEW w \in Worker, KeepAlive(w) \/ KeepAliveBreaks(w) PROVE RetryKept'
  <2>1. \A u \in Task : row'[u].callback_status = row[u].callback_status
    BY <1>0, <1>4 DEF KeepAlive, KeepAliveBreaks, renew_lease, TaskRow
  <2>2. \A v \in Worker : worker'[v].pc = worker[v].pc /\ worker'[v].task = worker[v].task
    BY <1>0, <1>4 DEF KeepAlive, KeepAliveBreaks, WorkerState
  <2> QED
    BY <1>1, <1>4, <2>1, <2>2 DEF KeepAlive, KeepAliveBreaks
<1>5. ASSUME NEW w \in Worker,
             \/ \E t \in Task : Deliver(w, t)
             \/ LeasedSkipRaises(w) \/ Return(w) \/ Ack(w) \/ RaiseDeadLetter(w) \/ RaiseNak(w) \/ WorkerDies(w)
      PROVE  RetryKept'
  <2>1. worker[w].pc # "requeue" /\ \A v \in Worker \ {w} : worker'[v] = worker[v]
    BY <1>0, <1>5 DEF Deliver, LeasedSkipRaises, Return, Ack, RaiseDeadLetter, RaiseNak, WorkerDies
  <2>2. UNCHANGED <<row, retryQueue, retrier>>
    BY <1>5 DEF Deliver, LeasedSkipRaises, Return, Ack, RaiseDeadLetter, RaiseNak, WorkerDies
  <2> QED
    BY <1>1, <2>1, <2>2
<1>6. ASSUME NEW w \in Worker, Claim(w) PROVE RetryKept'
  <2>1. worker[w].pc # "requeue" /\ \A v \in Worker \ {w} : worker'[v] = worker[v]
    BY <1>0, <1>6 DEF Claim
  <2>2. \A u \in Task : row'[u].callback_status = row[u].callback_status
    BY <1>0, <1>6 DEF Claim, claim_task, TaskRow
  <2> QED
    BY <1>1, <1>6, <2>1, <2>2 DEF Claim
<1>7. ASSUME NEW w \in Worker, NEW v \in Verdict, Execute(w, v) PROVE RetryKept'
  <2>1. worker[w].pc # "requeue" /\ \A u \in Worker \ {w} : worker'[u] = worker[u]
    BY <1>0, <1>7 DEF Execute
  <2> DEFINE t == worker[w].task
             persisted == update_execution_result(row[t], v)
             noted == update_callback_status(persisted, "none", v)
  <2>3. t \in Task
    BY <1>0, <1>7 DEF Execute, Coherent, WorkerOK
  <2>4. persisted.callback_status = row[t].callback_status /\ noted.callback_status = "none"
    BY <1>0, <2>3 DEF update_execution_result, update_callback_status, TaskRow
  <2>5. row' = row \/ row' = [row EXCEPT ![t] = persisted] \/ row' = [row EXCEPT ![t] = noted]
    BY <1>7 DEF Execute
  <2> HIDE DEF persisted, noted
  <2>2. \A u \in Task : row'[u].callback_status = "failed" => row[u].callback_status = "failed"
    BY <1>0, <2>3, <2>4, <2>5
  <2> QED
    BY <1>1, <1>7, <2>1, <2>2 DEF Execute
<1>8. ASSUME NEW w \in Worker, CallbackSkipped(w) \/ CallbackArrives(w) \/ CallbackAnswered(w) PROVE RetryKept'
  <2>1. worker[w].pc # "requeue" /\ \A u \in Worker \ {w} : worker'[u] = worker[u]
    BY <1>0, <1>8 DEF CallbackSkipped, CallbackArrives, CallbackAnswered
  <2> DEFINE t == worker[w].task
             noted == update_callback_status(row[t], "sent", worker[w].verdict)
  <2>3. t \in Task
    BY <1>0, <1>8 DEF CallbackSkipped, CallbackArrives, CallbackAnswered, Coherent, WorkerOK
  <2>4. noted.callback_status = "sent"
    BY <1>0, <2>3 DEF update_callback_status, TaskRow
  <2>5. row' = row \/ row' = [row EXCEPT ![t] = noted]
    BY <1>8 DEF CallbackSkipped, CallbackArrives, CallbackAnswered
  <2> HIDE DEF noted
  <2>2. \A u \in Task : row'[u].callback_status = "failed" => row[u].callback_status = "failed"
    BY <1>0, <2>3, <2>4, <2>5
  <2> QED
    BY <1>1, <1>8, <2>1, <2>2 DEF CallbackSkipped, CallbackArrives, CallbackAnswered
<1>9. ASSUME NEW w \in Worker, CallbackFails(w) PROVE RetryKept'
  <2> DEFINE t == worker[w].task
  <2>1. worker[w].pc # "requeue" /\ \A u \in Worker \ {w} : worker'[u] = worker[u]
    BY <1>0, <1>9 DEF CallbackFails
  <2>2. worker'[w].pc = "requeue" /\ worker'[w].task = t
    BY <1>0, <1>9 DEF CallbackFails, WorkerState
  <2>3. \A u \in Task \ {t} : row'[u] = row[u]
    BY <1>0, <1>9 DEF CallbackFails
  <2>4. UNCHANGED <<retryQueue, retrier, dlq>>
    BY <1>9 DEF CallbackFails
  <2>5. FailedCallbackHasRetry'
    BY <2>1, <2>2, <2>3, <2>4 DEF RetryKept, FailedCallbackHasRetry, CallbackDeadLettered
  <2>6. ASSUME retrier'.pc = "drop" PROVE CallbackSettled(retrier.task)'
    <3>1. retrier.task \in Task /\ CallbackSettled(retrier.task)
      BY <1>0, <2>4, <2>6 DEF RetryKept, Coherent, RetrierOK
    <3>2. \A u \in Task : CallbackSettled(u) => CallbackSettled(u)'
      BY CallbackSettledStays
    <3> QED
      BY <2>4, <3>1, <3>2 DEF CallbackSettled, CallbackDeadLettered
  <2> QED
    BY <2>5, <2>6 DEF RetryKept
<1>10. ASSUME NEW w \in Worker, EnqueueRetry(w) PROVE RetryKept'
  <2> DEFINE t == worker[w].task
  <2>1. \A u \in Worker \ {w} : worker'[u] = worker[u]
    BY <1>0, <1>10 DEF EnqueueRetry
  <2>2. t \in Task
    BY <1>0, <1>10 DEF EnqueueRetry, Coherent, WorkerOK
  <2>3. InStream(retryQueue'[t]) /\ \A u \in Task \ {t} : retryQueue'[u] = retryQueue[u]
    BY <1>0, <1>10, <2>2 DEF EnqueueRetry, publish, InStream
  <2>4. UNCHANGED <<row, retrier, dlq>>
    BY <1>10 DEF EnqueueRetry
  <2>5. FailedCallbackHasRetry'
    BY <2>1, <2>2, <2>3, <2>4 DEF RetryKept, FailedCallbackHasRetry, CallbackDeadLettered
  <2> QED
    BY <2>4, <2>5 DEF RetryKept, CallbackSettled, CallbackDeadLettered
<1>11. CASE (\E t \in Task : RetryDeliver(t)) \/ RetryCallbackArrives \/ RetryCallbackFails \/ RetryRaiseNak
            \/ RetrierDies \/ \E t \in Task : RetryAckWaitExpires(t)
  <2>1. \A u \in Task : InStream(retryQueue[u]) => InStream(retryQueue'[u])
    <3>1. \A m \in Message : InStream(m) => InStream(deliver(m)) /\ InStream(nak(m)) /\ InStream(ack_wait_expired(m))
      BY DEF deliver, nak, ack_wait_expired, InStream, Message
    <3>2. CASE retryQueue' = retryQueue
      BY <3>2
    <3>3. CASE \E t \in Task : RetryDeliver(t) \/ RetryAckWaitExpires(t)
      BY <1>0, <3>1, <3>3 DEF RetryDeliver, RetryAckWaitExpires
    <3>4. CASE RetryRaiseNak
      BY <1>0, <3>1, <3>4 DEF RetryRaiseNak
    <3> QED
      BY <1>11, <3>2, <3>3, <3>4 DEF RetryCallbackArrives, RetryCallbackFails, RetrierDies
  <2>2. retrier \in RetrierState
    BY DEF IInv, TypeOK
  <2>3. retrier'.pc = "drop" => retrier' = retrier
    BY <1>11, <2>2 DEF RetryDeliver, RetryCallbackArrives, RetryCallbackFails, RetryRaiseNak, RetrierDies,
         RetryAckWaitExpires, RetrierIdle, RetrierState
  <2>4. UNCHANGED <<row, worker>>
    BY <1>11 DEF RetryDeliver, RetryCallbackArrives, RetryCallbackFails, RetryRaiseNak, RetrierDies, RetryAckWaitExpires
  <2> QED
    BY <2>1, <2>3, <2>4, RetryFrame
<1>12. CASE RetryCallbackAnswered
  <2> DEFINE t == retrier.task
  <2>1. /\ t \in Task /\ UNCHANGED <<retryQueue, worker, dlq>>
        /\ \A u \in Task \ {t} : row'[u] = row[u]
    BY <1>0, <1>12 DEF RetryCallbackAnswered, Coherent, RetrierOK
  <2>2. row'[t].callback_status = "sent"
    BY <1>0, <1>12, <2>1 DEF RetryCallbackAnswered, update_callback_status, TaskRow
  <2>3. retrier'.task = t
    BY <1>12 DEF RetryCallbackAnswered, IInv, TypeOK, RetrierState
  <2>4. FailedCallbackHasRetry'
    BY <2>1, <2>2 DEF RetryKept, FailedCallbackHasRetry, CallbackDeadLettered
  <2> QED
    BY <2>2, <2>3, <2>4 DEF RetryKept, CallbackSettled
<1>13. CASE RetryRaiseDeadLetter
  <2>1. UNCHANGED <<row, retryQueue, worker>>
    BY <1>13 DEF RetryRaiseDeadLetter
  <2>2. dlq \subseteq dlq'
    BY <1>13 DEF RetryRaiseDeadLetter
  <2>3. retrier'.task = retrier.task /\ CallbackDeadLettered(retrier.task)'
    BY <1>13 DEF RetryRaiseDeadLetter, CallbackDeadLettered, IInv, TypeOK, RetrierState
  <2>4. FailedCallbackHasRetry'
    BY <2>1, <2>2 DEF RetryKept, FailedCallbackHasRetry, CallbackDeadLettered
  <2> QED
    BY <2>3, <2>4 DEF RetryKept, CallbackSettled, CallbackDeadLettered
<1>14. CASE RetryAck
  <2> DEFINE t == retrier.task
  <2>1. /\ t \in Task /\ CallbackSettled(t) /\ UNCHANGED <<row, worker, dlq>>
        /\ \A u \in Task \ {t} : retryQueue'[u] = retryQueue[u]
    BY <1>0, <1>14 DEF RetryAck, RetryKept, Coherent, RetrierOK
  <2>2. FailedCallbackHasRetry'
    BY <2>1 DEF RetryKept, FailedCallbackHasRetry, CallbackSettled, CallbackDeadLettered
  <2>3. retrier'.pc = "fetch"
    BY <1>14 DEF RetryAck, RetrierIdle
  <2> QED
    BY <2>2, <2>3 DEF RetryKept
<1>15. CASE UNCHANGED vars
  BY <1>1, <1>15 DEF vars
<1>16. /\ \A t \in Task : ~EnqueuePublishFails(t)
       /\ \A w \in Worker : ~EnqueueRetryFails(w)
  BY DEF EnqueuePublishFails, EnqueueRetryFails
<1> QED
  BY <1>2, <1>3, <1>4, <1>5, <1>6, <1>7, <1>8, <1>9, <1>10, <1>11, <1>12, <1>13, <1>14, <1>15, <1>16
     DEF Next, WorkerStep, RetrierStep, Fault

\* As long as the process has not crashed, and if publishes succeed, a callback
\* that failed has its retry in the stream, in the hands of the worker that is
\* about to publish it, or dead-lettered, whatever acks and deliveries are lost
\* and whichever loops end.
THEOREM FailedCallbackKeepsRetry ==
    "publish" \notin Faults => (Spec => [](crashes = 0 => FailedCallbackHasRetry))
<1> SUFFICES ASSUME "publish" \notin Faults
             PROVE  Spec => [](crashes = 0 => FailedCallbackHasRetry)
  OBVIOUS
<1> DEFINE KInv == crashes = 0 => RetryKept
<1>1. Init => KInv
  BY DEF Init, RetryKept, FailedCallbackHasRetry, NoRow, RetrierIdle
<1>2. IInv /\ KInv /\ [Next]_vars => KInv'
  <2> SUFFICES ASSUME IInv, KInv, [Next]_vars, crashes' = 0 PROVE RetryKept'
    OBVIOUS
  <2>1. crashes = 0 /\ ~Crash
    BY CrashesCount DEF IInv, TypeOK, Crash
  <2> QED
    BY <2>1, NextRetryKept
<1>3. KInv => (crashes = 0 => FailedCallbackHasRetry)
  BY DEF RetryKept
<1> HIDE DEF KInv
<1> QED
  BY <1>1, <1>2, <1>3, Invariance, PTL DEF Spec
=============================================================================
