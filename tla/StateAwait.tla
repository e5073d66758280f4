----------------------------- MODULE StateAwait -----------------------------
(***************************************************************************)
(* What ApplicationDescriptor.awaitAnyOfStates promises its callers, with  *)
(* no monitor, listener or latch: the cached application state is a        *)
(* register anybody may write, and a call returns once the register has    *)
(* held one of the awaited states since the call was made (or earlier, if  *)
(* the caller is interrupted).                                             *)
(*                                                                         *)
(* The promise excludes calls that overlap an unsynchronized update of the *)
(* register: those may return too early, or never.                         *)
(***************************************************************************)
CONSTANTS Waiters,          \* one element per call of awaitAnyOfStates
          States,           \* the values of ApplicationState
          Targets           \* [Waiters -> SUBSET States]: the awaited states

VARIABLES state,            \* the cached application state
          phase,            \* [Waiters -> {"idle", "called", "returned", "interrupted"}]
          reached,          \* waiters whose awaited state was held since their call
          disturbed         \* waiters whose call overlapped an unsynchronized update

avars == <<state, phase, reached, disturbed>>

AInit == /\ state \in States
         /\ phase = [w \in Waiters |-> "idle"]
         /\ reached = {} /\ disturbed = {}

Called == {w \in Waiters : phase[w] = "called"}

\* An update may be under way when the call is made.
Call(w) == /\ phase[w] = "idle"
           /\ phase' = [phase EXCEPT ![w] = "called"]
           /\ reached' = IF state \in Targets[w] THEN reached \cup {w} ELSE reached
           /\ disturbed' \in {disturbed, disturbed \cup {w}}
           /\ UNCHANGED state

Assigned(n) == /\ state' = n
               /\ reached' = reached \cup {w \in Called : n \in Targets[w]}
               /\ UNCHANGED phase

Write(n) == Assigned(n) /\ UNCHANGED disturbed

Update(n) == Assigned(n) /\ disturbed' = disturbed \cup Called

Return(w) == /\ phase[w] = "called"
             /\ w \in reached \cup disturbed
             /\ phase' = [phase EXCEPT ![w] = "returned"]
             /\ UNCHANGED <<state, reached, disturbed>>

\* awaitAnyOfStates also ends, with an InterruptedException, when its thread is interrupted.
Interrupted(w) == /\ phase[w] = "called"
                  /\ phase' = [phase EXCEPT ![w] = "interrupted"]
                  /\ UNCHANGED <<state, reached, disturbed>>

ANext == \/ \E w \in Waiters : Call(w) \/ Return(w) \/ Interrupted(w)
         \/ \E n \in States : Write(n) \/ Update(n)

\* A call that is owed its return is not left waiting for ever.
Owed(w) == w \notin disturbed /\ Return(w)

ASpec == AInit /\ [][ANext]_avars /\ \A w \in Waiters : WF_avars(Owed(w))
=============================================================================
