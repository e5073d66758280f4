------------------------ MODULE MCScannerScheduling -------------------------
(* Small instances of ScannerScheduling for TLC. *)
EXTENDS ScannerScheduling
CONSTANTS s1, t1, m1, m2, p1
=============================================================================
