-------------------------- MODULE MCAnsibleExecutor --------------------------
(* Small instances of AnsibleExecutor for TLC.                              *)
EXTENDS AnsibleExecutor, TLC

Workers == Permutations(Worker)
=============================================================================
