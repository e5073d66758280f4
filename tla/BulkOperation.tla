---------------------------- MODULE BulkOperation ----------------------------
(***************************************************************************)
(* One call of deployAll, killAll, killAllOnHost or awaitAnyOfStates on an *)
(* ApplicationNetwork: a task per descriptor on network_executor_service,  *)
(* and a caller that waits for all of them and cancels what it leaves.     *)
(*                                                                         *)
(* Cancelling a CompletableFuture settles it and nothing else: a task that *)
(* has not started will not, one that runs goes on.  The pool has a thread *)
(* for every task, so that shutting it down rejects later tasks and drops  *)
(* none.                                                                   *)
(***************************************************************************)
EXTENDS Naturals, FiniteSets

CONSTANT Descriptors   \* numbered in the order of their ids, from 1

ASSUME BulkAssumption == Descriptors \subseteq Nat \ {0} /\ IsFiniteSet(Descriptors)

End == 0               \* the iterator has no next element

VARIABLES
  members,      \* application_descriptors
  caller,       \* "idle", "submit", "wait", "cancel", "over": its place in the call
  outcome,      \* of the call: "none", "returned", "failed", "interrupted", "rejected"
  interrupted,  \* the caller has a pending interrupt
  cursor,       \* the next descriptor of the iterator, or End
  future,       \* [Descriptors -> {"none", "pending", "normal", "exceptional", "cancelled"}]
  cancelling,   \* futures the caller has still to cancel
  task,         \* [Descriptors -> {"none", "submitted", "running", "succeeded", "failed", "over", "skipped"}]
  pool_down,    \* network_executor_service was shut down
  succeeded,    \* history: descriptors whose operation succeeded
  throughout    \* history: descriptors that have been members since the call began

vars == <<members, caller, outcome, interrupted, cursor, future, cancelling, task, pool_down,
          succeeded, throughout>>
calling == <<caller, outcome, cursor, cancelling>>
working == <<task, succeeded>>
around == <<members, interrupted, pool_down, throughout>>

Init ==
  /\ members \in SUBSET Descriptors
  /\ caller = "idle" /\ outcome = "none" /\ interrupted = FALSE
  /\ cursor = End /\ cancelling = {}
  /\ future = [d \in Descriptors |-> "none"]
  /\ task = [d \in Descriptors |-> "none"]
  /\ pool_down = FALSE
  /\ succeeded = {} /\ throughout = {}

First(S) == IF S = {} THEN End ELSE CHOOSE d \in S : \A e \in S : d <= e
Submitted == {d \in Descriptors : future[d] # "none"}
Settle(d, f) == future' = [future EXCEPT ![d] = IF @ = "pending" THEN f ELSE @]

-----------------------------------------------------------------------------
(* The caller *)

Begin ==
  /\ caller = "idle" /\ caller' = "submit"
  /\ cursor' = First(members)
  /\ throughout' = members
  /\ UNCHANGED <<members, outcome, interrupted, future, cancelling, working, pool_down>>

SubmitNext ==                                   \* mutant: numbers that may not be there
  /\ caller = "submit" /\ cursor # End /\ ~pool_down
  /\ future' = [future EXCEPT ![cursor] = "pending"]
  /\ task' = [task EXCEPT ![cursor] = "submitted"]
  /\ cursor' = cursor + 1
  /\ UNCHANGED <<caller, outcome, cancelling, succeeded, around>>

\* CompletableFuture.runAsync(..., network_executor_service)
SubmitTask ==
  /\ caller = "submit" /\ cursor # End /\ ~pool_down
  /\ future' = [future EXCEPT ![cursor] = "pending"]
  /\ task' = [task EXCEPT ![cursor] = "submitted"]
  /\ cursor' = First({d \in members : d > cursor})
  /\ UNCHANGED <<caller, outcome, cancelling, succeeded, around>>

\* RejectedExecutionException: the tasks submitted so far are neither awaited nor cancelled.
SubmitRejected ==
  /\ caller = "submit" /\ cursor # End /\ pool_down
  /\ caller' = "over" /\ outcome' = "rejected"
  /\ UNCHANGED <<cursor, future, cancelling, working, around>>

EndSubmission ==
  /\ caller = "submit" /\ cursor = End
  /\ caller' = "wait"
  /\ UNCHANGED <<outcome, cursor, future, cancelling, working, around>>

AwaitAny ==                                     \* mutant: anyOf
  /\ caller = "wait"
  /\ Submitted = {} \/ \E d \in Submitted : future[d] # "pending"
  /\ caller' = "cancel" /\ cancelling' = Submitted
  /\ outcome' = IF \E d \in Submitted : future[d] = "exceptional" THEN "failed" ELSE "returned"
  /\ UNCHANGED <<cursor, future, working, around>>

\* allOf(...).get() returns, or throws the failure of one of them once all have ended.
AwaitAll ==
  /\ caller = "wait"
  /\ \A d \in Submitted : future[d] # "pending"
  /\ caller' = "cancel" /\ cancelling' = Submitted
  /\ outcome' = IF \E d \in Submitted : future[d] = "exceptional" THEN "failed" ELSE "returned"
  /\ UNCHANGED <<cursor, future, working, around>>

JoinUninterruptibly ==                          \* mutant: join instead of get
  /\ caller = "wait" /\ interrupted
  /\ \A d \in Submitted : future[d] # "pending"
  /\ caller' = "cancel" /\ cancelling' = Submitted
  /\ outcome' = "interrupted"
  /\ UNCHANGED <<cursor, future, working, around>>

\* get throws an InterruptedException.
AwaitInterrupted ==
  /\ caller = "wait" /\ interrupted
  /\ \E d \in Submitted : future[d] = "pending"
  /\ caller' = "cancel" /\ cancelling' = Submitted
  /\ outcome' = "interrupted"
  /\ UNCHANGED <<cursor, future, working, around>>

\* finally: future.cancel(true), one after the other.
CancelFuture ==
  /\ caller = "cancel" /\ cancelling # {}
  /\ Settle(First(cancelling), "cancelled")
  /\ cancelling' = cancelling \ {First(cancelling)}
  /\ UNCHANGED <<caller, outcome, cursor, working, around>>

Return ==
  /\ caller = "cancel" /\ cancelling = {}
  /\ caller' = "over"
  /\ UNCHANGED <<outcome, cursor, future, cancelling, working, around>>

-----------------------------------------------------------------------------
(* The tasks *)

StartAnyway(d) ==                               \* mutant: a cancelled task starts
  /\ task[d] = "submitted"
  /\ task' = [task EXCEPT ![d] = "running"]
  /\ UNCHANGED <<calling, future, succeeded, around>>

\* A thread takes the task, which runs unless its future was cancelled.
StartTask(d) ==
  /\ task[d] = "submitted"
  /\ task' = [task EXCEPT ![d] = IF future[d] = "pending" THEN "running" ELSE "skipped"]
  /\ UNCHANGED <<calling, future, succeeded, around>>

\* deploy, kill or awaitAnyOfStates of the descriptor returns ...
Succeed(d) ==
  /\ task[d] = "running"
  /\ task' = [task EXCEPT ![d] = "succeeded"]
  /\ succeeded' = succeeded \cup {d}
  /\ UNCHANGED <<calling, future, around>>

FailSilently(d) ==                              \* mutant: catch (Exception e) { log }
  /\ task[d] = "running"
  /\ task' = [task EXCEPT ![d] = "succeeded"]
  /\ UNCHANGED <<calling, future, succeeded, around>>

\* ... or throws: throw new RuntimeException(e)
Fail(d) ==
  /\ task[d] = "running"
  /\ task' = [task EXCEPT ![d] = "failed"]
  /\ UNCHANGED <<calling, future, succeeded, around>>

\* completeNull or completeThrowable
Complete(d) ==
  /\ task[d] \in {"succeeded", "failed"}
  /\ task' = [task EXCEPT ![d] = "over"]
  /\ Settle(d, IF task[d] = "succeeded" THEN "normal" ELSE "exceptional")
  /\ UNCHANGED <<calling, succeeded, around>>

-----------------------------------------------------------------------------
(* The rest of the network *)

\* add and remove, also by AutoRemoveScanner.
ChangeMembers(d) ==
  /\ members' = IF d \in members THEN members \ {d} ELSE members \cup {d}
  /\ throughout' = throughout \ {d}
  /\ UNCHANGED <<interrupted, pool_down, calling, future, working>>

Interrupt ==
  /\ caller \in {"submit", "wait"} /\ ~interrupted
  /\ interrupted' = TRUE
  /\ UNCHANGED <<members, pool_down, throughout, calling, future, working>>

\* shutdown: network_executor_service.shutdownNow()
ShutdownPool ==
  /\ ~pool_down
  /\ pool_down' = TRUE
  /\ UNCHANGED <<members, interrupted, throughout, calling, future, working>>

-----------------------------------------------------------------------------
CallerStep ==
  \/ SubmitTask \/ SubmitRejected \/ EndSubmission
  \/ AwaitAll \/ AwaitInterrupted \/ CancelFuture \/ Return

TaskStep(d) == StartTask(d) \/ Succeed(d) \/ Fail(d) \/ Complete(d)

Next ==
  \/ Begin \/ CallerStep \/ Interrupt \/ ShutdownPool
  \/ \E d \in Descriptors : TaskStep(d) \/ ChangeMembers(d)

\* The caller's thread runs.  Nothing makes a manager answer: an operation may hang.
SafeSpec == Init /\ [][Next]_vars
Spec == SafeSpec /\ WF_vars(CallerStep)

-----------------------------------------------------------------------------
TypeOK ==
  /\ members \subseteq Descriptors /\ throughout \subseteq Descriptors
  /\ caller \in {"idle", "submit", "wait", "cancel", "over"}
  /\ outcome \in {"none", "returned", "failed", "interrupted", "rejected"}
  /\ interrupted \in BOOLEAN /\ pool_down \in BOOLEAN
  /\ cursor \in Descriptors \cup {End}
  /\ future \in [Descriptors -> {"none", "pending", "normal", "exceptional", "cancelled"}]
  /\ cancelling \subseteq Descriptors /\ succeeded \subseteq Descriptors
  /\ task \in [Descriptors -> {"none", "submitted", "running", "succeeded", "failed", "over", "skipped"}]

\* A call that returns has done its work: every descriptor that was a member all the while was
\* deployed, or killed (ApplicationNetwork.java:145 and 182), whatever else was added and removed.
ReturnedMeansAllSucceeded ==
  outcome = "returned" => throughout \subseteq succeeded

\* A call that returns or reports a failure leaves no task behind that would still act on a
\* descriptor (awaitCompletion, ApplicationNetwork.java:478).
NoTaskOutlivesTheCall ==
  outcome \in {"returned", "failed"} => \A d \in Descriptors : task[d] \in {"none", "over"}

\* A call that was interrupted starts nothing any more (ApplicationNetwork.java:481), though what it
\* had started goes on.
NothingStartsAfterInterrupt ==
  [][outcome = "interrupted" /\ caller = "over" =>
       \A d \in Descriptors : task'[d] = "running" => task[d] = "running"]_vars

\* An interrupt frees the caller, also from operations that hang (ApplicationNetwork.java:475).
InterruptFreesTheCaller == interrupted ~> caller = "over"
=============================================================================
