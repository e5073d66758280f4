------------------------ MODULE MCConcurrentScanner -------------------------
(* Small instances of ConcurrentScanner for TLC. *)
EXTENDS ConcurrentScanner
CONSTANTS r1, r2
=============================================================================
