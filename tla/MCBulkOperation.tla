-------------------------- MODULE MCBulkOperation ---------------------------
(* Small instances of BulkOperation for TLC. *)
EXTENDS BulkOperation, TLC
=============================================================================
