------------------------------ MODULE TaskStore ------------------------------
(***************************************************************************)
(* The durable task table of the Ansible executor                          *)
(* (agents/ansible-executor/service/task_store.py).  A row is a record;    *)
(* each method of the class TaskStore is an operator on rows.  Every       *)
(* method opens one SQLite transaction and the service calls it from one   *)
(* event loop without an await inside, so a method is one atomic step.     *)
(*                                                                         *)
(* Clock values are abstracted: lease_live says whether lease_expires_at   *)
(* is still later than now.  Owner ids are fresh per claim in the code (a  *)
(* uuid); here the owner of a claim is the attempt number it creates.      *)
(***************************************************************************)
EXTENDS Naturals

TERMINAL_TASK_STATUSES == {"success", "failed", "callback_failed"}

\* What a run of ansible ends with; the verdict field of result_json.
Verdict == {"success", "failed"}

NoOwner == 0

\* status "absent" stands for "no row with this task_id".
TaskRow ==
    [status            : {"absent", "queued", "running"} \cup TERMINAL_TASK_STATUSES,
     execution_status  : {"absent", "queued", "running"} \cup Verdict,
     callback_status   : {"none", "pending", "sent", "failed"},
     result            : {"none"} \cup Verdict,
     lease_owner       : Nat,
     lease_live        : BOOLEAN,
     execution_attempt : Nat]

NoRow ==
    [status |-> "absent", execution_status |-> "absent",
     callback_status |-> "none", result |-> "none",
     lease_owner |-> NoOwner, lease_live |-> FALSE, execution_attempt |-> 0]

Exists(r) == r.status # "absent"

IsTerminal(r) ==
    \/ r.status \in TERMINAL_TASK_STATUSES
    \/ r.execution_status \in TERMINAL_TASK_STATUSES

\* The row create_if_absent inserts; it returns False when the row exists.
create_if_absent(hasCallback) ==
    [NoRow EXCEPT !.status = "queued",
                  !.execution_status = "queued",
                  !.callback_status = IF hasCallback THEN "pending" ELSE "none"]

\* Mutant of claim_reason: the lease of the stored owner is not looked at.
claim_reason_IgnoresLease(r) ==
    CASE ~Exists(r) -> "missing"
      [] Exists(r) /\ IsTerminal(r) -> "terminal"
      [] OTHER -> "claimed"

\* Mutant of claim_reason: a lease is respected after it expired.
claim_reason_IgnoresExpiry(r) ==
    CASE ~Exists(r) -> "missing"
      [] Exists(r) /\ IsTerminal(r) -> "terminal"
      [] Exists(r) /\ ~IsTerminal(r) /\ r.execution_status = "running"
           /\ r.lease_owner # NoOwner -> "leased"
      [] OTHER -> "claimed"

\* The "reason" of claim_task, "claimed" when it succeeds.  The caller's owner
\* id is fresh, so it never equals the stored lease_owner.
claim_reason(r) ==
    CASE ~Exists(r) -> "missing"
      [] Exists(r) /\ IsTerminal(r) -> "terminal"
      [] Exists(r) /\ ~IsTerminal(r) /\ r.execution_status = "running"
           /\ r.lease_owner # NoOwner /\ r.lease_live -> "leased"
      [] OTHER -> "claimed"

\* Mutant of FreshOwner: the owner id has no unique part.
FreshOwner_Fixed(r) == 1

\* The owner id a claim uses.
FreshOwner(r) == r.execution_attempt + 1

claim_task(r) ==
    [r EXCEPT !.status = "running",
              !.execution_status = "running",
              !.lease_owner = FreshOwner(r),
              !.lease_live = TRUE,
              !.execution_attempt = @ + 1]

\* The WHERE clause of renew_lease; it does not look at the old expiry.
HoldsLease(r, owner) == r.lease_owner = owner /\ r.execution_status = "running"

renew_lease(r) == [r EXCEPT !.lease_live = TRUE]

\* Mutant of OwnsResult: the WHERE clause does not name the owner.
OwnsResult_Anyone(r, owner) == TRUE

\* Mutant of OwnsResult: the result is refused once the lease expired.
OwnsResult_LiveLease(r, owner) == r.lease_owner = owner /\ r.lease_live

\* The WHERE clause of update_execution_result called with an owner.
OwnsResult(r, owner) == r.lease_owner = owner

update_execution_result(r, verdict) ==
    [r EXCEPT !.status = verdict,
              !.execution_status = verdict,
              !.result = verdict,
              !.lease_owner = NoOwner,
              !.lease_live = FALSE]

\* Mutant of next_status: a failed callback leaves status as it is.
next_status_Preserves(r, callback_status, preserve) ==
    IF callback_status = "sent" /\ r.status = "callback_failed"
    THEN r.execution_status ELSE preserve

\* Mutant of next_status: the callback's state is written as the status.
next_status_Callback(r, callback_status, preserve) == callback_status

\* The status column update_callback_status writes.  preserve is the verdict
\* every caller passes as preserve_status.
next_status(r, callback_status, preserve) ==
    CASE callback_status = "failed" /\ r.status = "success" -> "callback_failed"
      [] callback_status = "sent" /\ r.status = "callback_failed" -> r.execution_status
      [] OTHER -> preserve

update_callback_status(r, callback_status, verdict) ==
    [r EXCEPT !.status = next_status(r, callback_status, verdict),
              !.callback_status = callback_status,
              !.result = verdict]
=============================================================================
