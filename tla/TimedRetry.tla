----------------------------- MODULE TimedRetry ------------------------------
(***************************************************************************)
(* TimeoutExecutorService: awaitCompletion and retry.                      *)
(*                                                                         *)
(* A call submits a task to an unbounded pool, waits for its future until  *)
(* the timeout, and cancels it on the way out, which interrupts the thread *)
(* that runs it, once.  For retry the task is a TaskRetryWrapper that      *)
(* attempts the caller's task until it succeeds, the thread is found       *)
(* interrupted, or enough attempts have failed.                            *)
(*                                                                         *)
(* FutureTask and the pool are java.util.concurrent's: the state of a      *)
(* future is settled once; a task whose future was cancelled before it     *)
(* began does not begin; the flag of a pool thread is cleared between      *)
(* tasks.                                                                  *)
(***************************************************************************)
EXTENDS Naturals

CONSTANTS
  Calls,        \* calls of awaitCompletion and retry, each by a thread of its own
  Retried,      \* those of retry
  Limit,        \* [Calls -> Nat \cup {Unlimited}]: max_retry_count
  Unlimited,    \* UNLIMITED_RETRY_COUNT, 2^31 - 1: no run of the code gets there
  Delayed       \* calls whose retry interval is at least a millisecond

ASSUME TimedRetryAssumption ==
  /\ Retried \subseteq Calls /\ Delayed \subseteq Retried
  /\ Limit \in [Calls -> Nat \cup {Unlimited}] /\ Unlimited \notin Nat

VARIABLES
  caller,       \* [Calls -> {"idle", "waiting", "leaving", "cancelling", "returned"}]
  outcome,      \* [Calls -> ...]: what the caller gets
  future,       \* [Calls -> {"none", "new", "value", "failure", "null", "cancelled"}]
  runner,       \* [Calls -> ...]: where the thread of the pool is
  interrupted,  \* the calls whose thread of the pool has its interrupt flag set
  failed,       \* the calls whose `error` is not null: an attempt has failed
  retries,      \* [Calls -> Nat]: retry_count, of a call with a limit
  succeeded,    \* history: the calls an attempt of which has succeeded
  swallowed,    \* history: the calls an attempt of which cleared the flag
  late          \* history: [Calls -> 0..2]: attempts begun after the caller gave up, 2 for any more

calling == <<caller, outcome>>
history == <<succeeded, swallowed, late>>
running == <<interrupted, failed, retries>>
timed == <<calling, future, runner, running, history>>

Init ==
  /\ caller = [c \in Calls |-> "idle"]
  /\ outcome = [c \in Calls |-> "none"]
  /\ future = [c \in Calls |-> "none"]
  /\ runner = [c \in Calls |-> "none"]
  /\ interrupted = {} /\ failed = {} /\ succeeded = {} /\ swallowed = {}
  /\ retries = [c \in Calls |-> 0]
  /\ late = [c \in Calls |-> 0]

-----------------------------------------------------------------------------
(* awaitCompletion and retry, at their caller *)

CallerMoves(c, from, to) == caller[c] = from /\ caller' = [caller EXCEPT ![c] = to]

\* TIMEOUT_EXECUTOR_SERVICE_INSTANCE.submit(...)
Submit(c) ==
  /\ CallerMoves(c, "idle", "waiting")
  /\ future' = [future EXCEPT ![c] = "new"]
  /\ runner' = [runner EXCEPT ![c] = "queued"]
  /\ UNCHANGED <<outcome, running, history>>

Leave(c, o) ==
  /\ CallerMoves(c, "waiting", "leaving")
  /\ outcome' = [outcome EXCEPT ![c] = o]
  /\ UNCHANGED <<future, runner, running, history>>

\* future_result.get(time, unit): the result, a TimeoutException, or an InterruptedException.
GetResult(c)      == future[c] \notin {"none", "new"} /\ Leave(c, future[c])
GetTimesOut(c)    == future[c] = "new" /\ Leave(c, "timeout")
GetInterrupted(c) == Leave(c, "interrupted")

\* future_result.cancel(true): the state of the future first ...
Cancel(c) ==
  /\ CallerMoves(c, "leaving", IF future[c] = "new" THEN "cancelling" ELSE "returned")
  /\ future' = [future EXCEPT ![c] = IF @ = "new" THEN "cancelled" ELSE @]
  /\ UNCHANGED <<outcome, runner, running, history>>

ReturnWithoutInterrupt(c) ==                    \* mutant: cancel(false)
  /\ CallerMoves(c, "cancelling", "returned")
  /\ UNCHANGED <<outcome, future, runner, running, history>>

\* ... then the thread that runs it, if one does.
Interrupt(c) ==
  /\ CallerMoves(c, "cancelling", "returned")
  /\ interrupted' = IF runner[c] \in {"queued", "over"} THEN interrupted ELSE interrupted \cup {c}
  /\ UNCHANGED <<outcome, future, runner, failed, retries, history>>

-----------------------------------------------------------------------------
(* TaskRetryWrapper.call, on a thread of the pool; awaitCompletion runs the task itself *)

RunnerMoves(c, from, to) == runner[c] = from /\ runner' = [runner EXCEPT ![c] = to]

\* The task returned or threw: its future is settled, unless it was before.
Finish(c, from, o) ==
  /\ RunnerMoves(c, from, "over")
  /\ future' = [future EXCEPT ![c] = IF @ = "new" THEN o ELSE @]

BeginTask(c) ==
  /\ RunnerMoves(c, "queued", IF future[c] # "new" THEN "over"
                             ELSE IF c \in Retried THEN "check" ELSE "proceed")
  /\ UNCHANGED <<calling, future, running, history>>

NeverGivesUp(c) == Limit[c] # Unlimited /\ retries[c] > Limit[c]        \* mutant: one attempt more

HasReachedMaxRetryCount(c) == Limit[c] # Unlimited /\ retries[c] >= Limit[c]

CheckCountOnly(c) ==                            \* mutant: while (!hasReachedMaxRetryCount())
  /\ ~HasReachedMaxRetryCount(c)
  /\ RunnerMoves(c, "check", "proceed")
  /\ UNCHANGED <<calling, future, running, history>>

\* while (!Thread.currentThread().isInterrupted() && !hasReachedMaxRetryCount())
CheckProceeds(c) ==
  /\ c \notin interrupted /\ ~HasReachedMaxRetryCount(c)
  /\ RunnerMoves(c, "check", "proceed")
  /\ UNCHANGED <<calling, future, running, history>>

\* throw error, which is null when no attempt has failed: a NullPointerException.
CheckThrows(c) ==
  /\ c \in interrupted \/ HasReachedMaxRetryCount(c)
  /\ Finish(c, "check", IF c \in failed THEN "failure" ELSE "null")
  /\ UNCHANGED <<calling, running, history>>

\* task.call()
StartAttempt(c) ==
  /\ RunnerMoves(c, "proceed", "attempt")
  /\ late' = [late EXCEPT ![c] = IF caller[c] = "returned" /\ @ < 2 THEN @ + 1 ELSE @]
  /\ UNCHANGED <<calling, future, running, succeeded, swallowed>>

AttemptSucceedsAgain(c) ==                      \* mutant: the loop is not left
  /\ RunnerMoves(c, "attempt", IF c \in Retried THEN "check" ELSE "over")
  /\ future' = [future EXCEPT ![c] = IF @ = "new" THEN "value" ELSE @]
  /\ succeeded' = IF c \in succeeded THEN {} ELSE succeeded \cup {c}
  /\ UNCHANGED <<calling, running, swallowed, late>>

\* return task.call()
AttemptSucceeds(c) ==
  /\ Finish(c, "attempt", "value")
  /\ succeeded' = succeeded \cup {c}
  /\ UNCHANGED <<calling, running, swallowed, late>>

\* The task of awaitCompletion throws anything, or that of retry an Error, which is not caught.
AttemptThrows(c) ==
  /\ Finish(c, "attempt", "failure")
  /\ UNCHANGED <<calling, running, history>>

AttemptFailsUnseen(c) ==                        \* mutant: `error` is not assigned
  /\ c \in Retried
  /\ RunnerMoves(c, "attempt", IF c \in Delayed THEN "sleeping" ELSE "check")
  /\ retries' = [retries EXCEPT ![c] = IF Limit[c] = Unlimited THEN @ ELSE @ + 1]
  /\ UNCHANGED <<calling, future, interrupted, failed, history>>

\* The task of retry throws an Exception, of which an InterruptedException, with the flag
\* cleared, is one: caught, counted, and followed by the delay.
AttemptFails(c) ==
  /\ c \in Retried
  /\ RunnerMoves(c, "attempt", IF c \in Delayed THEN "sleeping" ELSE "check")
  /\ failed' = failed \cup {c}
  /\ retries' = [retries EXCEPT ![c] = IF Limit[c] = Unlimited THEN @ ELSE @ + 1]
  /\ \/ UNCHANGED <<interrupted, swallowed>>
     \/ c \in interrupted /\ interrupted' = interrupted \ {c} /\ swallowed' = swallowed \cup {c}
  /\ UNCHANGED <<calling, future, succeeded, late>>

\* Thread.sleep(interval_millis)
SleepEnds(c) ==
  /\ c \notin interrupted
  /\ RunnerMoves(c, "sleeping", "check")
  /\ UNCHANGED <<calling, future, running, history>>

\* ... throws out of the loop: nobody catches it there.
SleepInterrupted(c) ==
  /\ c \in interrupted /\ interrupted' = interrupted \ {c}
  /\ Finish(c, "sleeping", "failure")
  /\ UNCHANGED <<calling, failed, retries, history>>

-----------------------------------------------------------------------------
CallerStep(c) == \/ GetResult(c) \/ GetTimesOut(c) \/ GetInterrupted(c)
                 \/ Cancel(c) \/ Interrupt(c)

\* The steps of the pool's thread that are the library's own, not the task's.
WrapperStep(c) == \/ BeginTask(c) \/ CheckProceeds(c) \/ CheckThrows(c)
                  \/ SleepEnds(c) \/ SleepInterrupted(c)

Next == \E c \in Calls :
  \/ Submit(c) \/ CallerStep(c)
  \/ WrapperStep(c)
  \/ StartAttempt(c) \/ AttemptSucceeds(c) \/ AttemptThrows(c) \/ AttemptFails(c)

Spec == Init /\ [][Next]_timed

-----------------------------------------------------------------------------
Outcomes == {"none", "value", "failure", "null", "timeout", "interrupted"}

\* Types, and retry_count stays within max_retry_count (hasReachedMaxRetryCount).
TypeOK ==
  /\ caller \in [Calls -> {"idle", "waiting", "leaving", "cancelling", "returned"}]
  /\ outcome \in [Calls -> Outcomes]
  /\ future \in [Calls -> {"none", "new", "value", "failure", "null", "cancelled"}]
  /\ runner \in [Calls -> {"none", "queued", "check", "proceed", "attempt", "sleeping", "over"}]
  /\ interrupted \subseteq Calls /\ failed \subseteq Calls
  /\ succeeded \subseteq Calls /\ swallowed \subseteq Calls
  /\ retries \in [Calls -> Nat]
  /\ \A c \in Calls : Limit[c] # Unlimited => retries[c] <= Limit[c]
  /\ late \in [Calls -> 0..2]

\* What retry throws is an attempt's exception: the null of `throw error` reaches a caller only
\* if it allowed no attempt.  (An interrupt before the first attempt also makes it null, but then
\* the future has been cancelled, and the caller has its own exception.)
NullErrorOnlyForZero == \A c \in Calls : outcome[c] = "null" => Limit[c] = 0

\* Once awaitCompletion or retry has returned, at most one more attempt begins, of a wrapper that
\* was past its check, unless an attempt ended by clearing the flag that cancel(true) had set.
AtMostOneLateAttempt == \A c \in Calls : late[c] <= 1 \/ c \in swallowed

Promise == INSTANCE TimedCall

\* The code implements what its callers are promised (TimedCall): a value comes from the one
\* attempt that succeeded, and after a reported failure none succeeds.
ImplementsTimedCall == Promise!TSpec

\* TimeoutExecutorService.java:31 terminates its idle threads: a caller that has returned leaves
\* none busy unknowingly.  Its thread is done, or will not begin, or has its flag set still, for
\* the task or the wrapper to find; or else the task swallowed the one interrupt there is.
LeftThreadIsTold == \A c \in Calls :
  caller[c] = "returned" => \/ runner[c] = "over"
                            \/ runner[c] = "queued" /\ future[c] # "new"
                            \/ c \in interrupted \cup swallowed
=============================================================================
