----------------------------- MODULE JobPromise ------------------------------
(***************************************************************************)
(* What Worker.submit promises its caller, with no messages, worker or     *)
(* callback server: a job is executed at most once, its Future is settled  *)
(* at most once, and a Future that carries a result carries the one the    *)
(* job returned.  JobExecution is shown to implement it.                   *)
(***************************************************************************)
CONSTANT Jobs

VARIABLES outcome,   \* [Jobs -> {"none", "result", "error"}]: how the job's execution ended
          future     \* [Jobs -> {"none", "pending", "completed", "failed", "cancelled"}]

jvars == <<outcome, future>>

JInit == /\ outcome = [j \in Jobs |-> "none"]
         /\ future = [j \in Jobs |-> "none"]

Submit(j) == /\ future[j] = "none"
             /\ future' = [future EXCEPT ![j] = "pending"]
             /\ UNCHANGED outcome

\* Only a job that was submitted is executed, and it ends once.
Execute(j, o) == /\ future[j] # "none"
                 /\ outcome[j] = "none"
                 /\ outcome' = [outcome EXCEPT ![j] = o]
                 /\ UNCHANGED future

Settle(j, f) == /\ future[j] = "pending"
                /\ future' = [future EXCEPT ![j] = f]
                /\ UNCHANGED outcome

Complete(j) == outcome[j] = "result" /\ Settle(j, "completed")

\* The job, a remote call or shutdown failed, or the caller cancelled: at any time.
Fail(j)   == Settle(j, "failed")
Cancel(j) == Settle(j, "cancelled")

\* Shutdown settles any number of futures together.
Release == /\ future' = [j \in Jobs |-> IF future[j] = "pending" THEN "failed" ELSE future[j]]
           /\ UNCHANGED outcome

JNext == \/ Release
         \/ \E j \in Jobs : \/ Submit(j) \/ Complete(j) \/ Fail(j) \/ Cancel(j)
                            \/ \E o \in {"result", "error"} : Execute(j, o)

JSpec == JInit /\ [][JNext]_jvars
=============================================================================
