----------------------- MODULE MCApplicationDescriptor ----------------------
(* Small instances of ApplicationDescriptor and StateCounters for TLC. *)
EXTENDS StateCounters, TLC

CONSTANTS w1, w2, auth, deployed, running

MCStates == {auth, deployed, running}

\* One call waits for a single state, the other for either of two.
MCTargets == [w \in Waiters |-> IF w = w1 THEN {running} ELSE {deployed, running}]
=============================================================================
