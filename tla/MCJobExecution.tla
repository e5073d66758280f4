--------------------------- MODULE MCJobExecution ----------------------------
(* Small instances of JobExecution for TLC. *)
EXTENDS JobExecution
CONSTANT j1
=============================================================================
