--------------------------- MODULE MCJobExecution ---------------------------
(* Small instances of JobExecution for TLC.                                 *)
EXTENDS JobExecution, TLC

Handlers == Permutations(Handler)
=============================================================================
