----------------------------- MODULE TaskLedger -----------------------------
(***************************************************************************)
(* What the Ansible executor promises its clients about a task, whatever   *)
(* workers, redeliveries, leases and restarts do underneath: it runs, ends *)
(* with one verdict for good, tells the callback receiver that verdict and *)
(* nothing else, and calls the callback sent only once it was told.  A     *)
(* silent task has a callback that names nobody: it is called sent without *)
(* anybody being told.                                                     *)
(***************************************************************************)
CONSTANTS Task, CallbackTask, Silent

VARIABLES
    phase,  \* absent, queued, running, or the verdict
    told,   \* the verdicts the callback receiver was given
    note    \* the state of the callback: none, pending, sent, failed

vars == <<phase, told, note>>

Settled(t) == phase[t] \in {"success", "failed"}

Init ==
    /\ phase = [t \in Task |-> "absent"]
    /\ told = [t \in Task |-> {}]
    /\ note = [t \in Task |-> "none"]

Submit(t) ==
    /\ phase[t] = "absent"
    /\ phase' = [phase EXCEPT ![t] = "queued"]
    /\ note' = [note EXCEPT ![t] = IF t \in CallbackTask THEN "pending" ELSE "none"]
    /\ UNCHANGED told

Start(t) ==
    /\ phase[t] = "queued"
    /\ phase' = [phase EXCEPT ![t] = "running"]
    /\ UNCHANGED <<told, note>>

Finish(t) ==
    /\ phase[t] = "running"
    /\ \E verdict \in {"success", "failed"} : phase' = [phase EXCEPT ![t] = verdict]
    /\ UNCHANGED <<told, note>>

Tell(t) ==
    /\ Settled(t)
    /\ t \in CallbackTask \ Silent
    /\ told' = [told EXCEPT ![t] = {phase[t]}]
    /\ UNCHANGED <<phase, note>>

Confirm(t) ==
    /\ Settled(t)
    /\ told[t] # {} \/ t \in Silent
    /\ note[t] \in {"pending", "failed"}
    /\ note' = [note EXCEPT ![t] = "sent"]
    /\ UNCHANGED <<phase, told>>

GiveUp(t) ==
    /\ Settled(t)
    /\ note[t] = "pending"
    /\ note' = [note EXCEPT ![t] = "failed"]
    /\ UNCHANGED <<phase, told>>

Next ==
    \E t \in Task :
        Submit(t) \/ Start(t) \/ Finish(t) \/ Tell(t) \/ Confirm(t) \/ GiveUp(t)

Spec == Init /\ [][Next]_vars
=============================================================================
