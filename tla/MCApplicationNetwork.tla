------------------------ MODULE MCApplicationNetwork ------------------------
(* Small instances of ApplicationNetwork for TLC. *)
EXTENDS ApplicationNetwork, TLC
CONSTANTS d1, d2, st1, st2, de1, ki1, re1, us1
=============================================================================
