------------------------------ MODULE TimedCall ------------------------------
(***************************************************************************)
(* What TimeoutExecutorService promises the caller of awaitCompletion or   *)
(* retry, with no pool, future or interrupt: one outcome; a value is that  *)
(* of an attempt that succeeded, and at most one ever does; a failure is   *)
(* final.  A timeout is not: the task may yet succeed, unseen.             *)
(* TimedRetry is shown to implement it.                                    *)
(***************************************************************************)
CONSTANT Calls

VARIABLES outcome,     \* [Calls -> {"none", "value", "failure", "null", "timeout", "interrupted"}]
          succeeded    \* the calls an attempt of which has succeeded

tvars == <<outcome, succeeded>>

TInit == outcome = [c \in Calls |-> "none"] /\ succeeded = {}

\* An attempt succeeds: once, at any time, but never after a failure was reported.
Succeed(c) == /\ c \notin succeeded /\ outcome[c] \notin {"failure", "null"}
              /\ succeeded' = succeeded \cup {c}
              /\ UNCHANGED outcome

Report(c, o) == /\ outcome[c] = "none"
                /\ outcome' = [outcome EXCEPT ![c] = o]
                /\ UNCHANGED succeeded

ReportValue(c) == c \in succeeded /\ Report(c, "value")

ReportFailure(c) == c \notin succeeded /\ \E o \in {"failure", "null"} : Report(c, o)

GiveUp(c) == \E o \in {"timeout", "interrupted"} : Report(c, o)

TNext == \E c \in Calls : Succeed(c) \/ ReportValue(c) \/ ReportFailure(c) \/ GiveUp(c)

TSpec == TInit /\ [][TNext]_tvars
=============================================================================
