---------------------------- MODULE JobExecution -----------------------------
(***************************************************************************)
(* Jobs submitted to one Worker: the futures and the callback server of    *)
(* the WorkerNetwork, the DefaultWorkerRemote in its own process, and the  *)
(* remote calls between them.                                              *)
(*                                                                         *)
(* A remote call is a request and a reply in flight; if the connection     *)
(* breaks, or nobody listens any more, the call ends in an exception at    *)
(* its caller.  Notifications of a job's end are remote calls too, the     *)
(* other way round, and nobody repeats one that failed.                    *)
(***************************************************************************)
CONSTANT Jobs

VARIABLES
  future,      \* [Jobs -> {"none", "pending", "completed", "failed", "cancelled"}]: FutureRemote
  known,       \* the keys of id_future_map
  caller,      \* [Jobs -> {"idle", "registered", "sent"}]: the thread in Worker.submit
  canceller,   \* [Jobs -> {"idle", "waiting", "returned"}]: the thread in FutureRemote.cancel
  launcher,    \* of WorkerNetwork.shutdown: "open", "unexposed", "closed"
  wire,        \* the requests and replies in flight
  worker,      \* "up", "stopped" (executor shut down), "unexposed", "dead"
  submitted,   \* the keys of submitted_jobs
  promise,     \* [Jobs -> {"none", "pending", "done", "cancelled"}]: the worker's future_result
  task,        \* [Jobs -> ...]: where the executor is with the job
  cancelling,  \* jobs whose cancellation has passed containsKey
  outcome,     \* history: [Jobs -> {"none", "result", "error"}], how job.call() ended
  spared,      \* history: jobs that were cancelled successfully before they started
  lost         \* history: jobs whose notification broke

launching == <<future, known, caller, launcher>>
working == <<worker, submitted, promise, task, cancelling, outcome, spared>>
vars == <<launching, canceller, wire, working, lost>>

Kinds == {"submit", "accepted", "refused", "cancel", "answer", "result", "error"}
Messages == Kinds \X Jobs

Init ==
  /\ future = [j \in Jobs |-> "none"]
  /\ known = {}
  /\ caller = [j \in Jobs |-> "idle"]
  /\ canceller = [j \in Jobs |-> "idle"]
  /\ launcher = "open"
  /\ wire = {}
  /\ worker = "up"
  /\ submitted = {} /\ cancelling = {}
  /\ promise = [j \in Jobs |-> "none"]
  /\ task = [j \in Jobs |-> "none"]
  /\ outcome = [j \in Jobs |-> "none"]
  /\ spared = {} /\ lost = {}

SettleAgain(j, f) == future' = [future EXCEPT ![j] = f]   \* mutant: obtrudeValue

\* CompletableFuture.complete, completeExceptionally and cancel: only the first has an effect.
Settle(j, f) == future' = [future EXCEPT ![j] = IF @ = "pending" THEN f ELSE @]

Send(kind, j) == wire' = wire \cup {<<kind, j>>}
Receive(kind, j) == <<kind, j>> \in wire /\ wire' = wire \ {<<kind, j>>}
Reply(kind, j, with) == <<kind, j>> \in wire /\ wire' = (wire \ {<<kind, j>>}) \cup {<<with, j>>}

-----------------------------------------------------------------------------
(* Worker.submit, at the launcher *)

\* network.notifyJobSubmission(future_remote)
Register(j) ==
  /\ caller[j] = "idle"
  /\ caller' = [caller EXCEPT ![j] = "registered"]
  /\ future' = [future EXCEPT ![j] = "pending"]
  /\ known' = known \cup {j}
  /\ UNCHANGED <<launcher, canceller, wire, working, lost>>

\* proxy.submit(job_id, job)
SendSubmit(j) ==
  /\ caller[j] = "registered"
  /\ caller' = [caller EXCEPT ![j] = "sent"]
  /\ Send("submit", j)
  /\ UNCHANGED <<future, known, launcher, canceller, working, lost>>

\* job_submission.whenComplete: a failed submission fails the future, an accepted one does nothing.
SubmitAccepted(j) ==
  /\ Receive("accepted", j)
  /\ UNCHANGED <<launching, canceller, working, lost>>

SubmitRefused(j) ==
  /\ Receive("refused", j)
  /\ Settle(j, "failed")
  /\ UNCHANGED <<known, caller, launcher, canceller, working, lost>>

-----------------------------------------------------------------------------
(* FutureRemote.cancel, at the launcher *)

\* super.cancel(may_interrupt) && cancelOnRemote(may_interrupt), which waits without a timeout.
Cancel(j) ==
  /\ future[j] = "pending" /\ canceller[j] = "idle"
  /\ Settle(j, "cancelled")
  /\ canceller' = [canceller EXCEPT ![j] = "waiting"]
  /\ Send("cancel", j)
  /\ UNCHANGED <<known, caller, launcher, working, lost>>

CancelAnswered(j) ==
  /\ Receive("answer", j)
  /\ canceller' = [canceller EXCEPT ![j] = "returned"]
  /\ UNCHANGED <<launching, working, lost>>

-----------------------------------------------------------------------------
(* WorkerNetwork: the callbacks and shutdown *)

\* notifyCompletion and notifyException of a known job.
NotifyCompletion(j) ==
  /\ launcher = "open" /\ Receive("result", j)
  /\ IF j \in known THEN Settle(j, "completed") ELSE UNCHANGED future
  /\ UNCHANGED <<known, caller, launcher, canceller, working, lost>>

NotifyException(j) ==
  /\ launcher = "open" /\ Receive("error", j)
  /\ IF j \in known THEN Settle(j, "failed") ELSE UNCHANGED future
  /\ UNCHANGED <<known, caller, launcher, canceller, working, lost>>

\* super.shutdown() has killed the workers it could reach; callback_server.unexpose()
Unexpose ==
  /\ launcher = "open"
  /\ launcher' = "unexposed"
  /\ UNCHANGED <<future, known, caller, canceller, wire, working, lost>>

ReleaseAccepted ==                              \* mutant: forgets jobs still being submitted
  /\ launcher = "unexposed"
  /\ launcher' = "closed"
  /\ future' = [j \in Jobs |-> IF caller[j] = "sent" /\ future[j] = "pending" THEN "failed" ELSE future[j]]
  /\ UNCHANGED <<known, caller, canceller, wire, working, lost>>

\* releaseAllPendingFutures
Release ==
  /\ launcher = "unexposed"
  /\ launcher' = "closed"
  /\ future' = [j \in Jobs |-> IF j \in known /\ future[j] = "pending" THEN "failed" ELSE future[j]]
  /\ UNCHANGED <<known, caller, canceller, wire, working, lost>>

-----------------------------------------------------------------------------
(* DefaultWorkerRemote.submit, at the worker *)

Exposed == worker \in {"up", "stopped"}

RunFirst(j) ==                                  \* mutant: put only after the job ended
  /\ worker = "up"
  /\ Reply("submit", j, "accepted")
  /\ promise' = [promise EXCEPT ![j] = "pending"]
  /\ task' = [task EXCEPT ![j] = "queued"]
  /\ UNCHANGED <<launching, canceller, worker, submitted, cancelling, outcome, spared, lost>>

\* submitted_jobs.put, and runAsync on the executor.
ReceiveSubmit(j) ==
  /\ worker = "up"
  /\ Reply("submit", j, "accepted")
  /\ submitted' = submitted \cup {j}
  /\ promise' = [promise EXCEPT ![j] = "pending"]
  /\ task' = [task EXCEPT ![j] = "queued"]
  /\ UNCHANGED <<launching, canceller, worker, cancelling, outcome, spared, lost>>

\* runAsync throws a RejectedExecutionException, after submitted_jobs.put.
RejectSubmit(j) ==
  /\ worker = "stopped"
  /\ Reply("submit", j, "refused")
  /\ submitted' = submitted \cup {j}
  /\ promise' = [promise EXCEPT ![j] = "pending"]
  /\ UNCHANGED <<launching, canceller, worker, task, cancelling, outcome, spared, lost>>

Proceed(j, from, to) ==
  /\ worker # "dead"
  /\ task[j] = from
  /\ task' = [task EXCEPT ![j] = to]

\* job.call()
StartJob(j) ==
  /\ Proceed(j, "queued", "running")
  /\ UNCHANGED <<launching, canceller, wire, worker, submitted, promise, cancelling, outcome, spared, lost>>

EndWithOutcome(j, o) ==                         \* mutant: a cancelled future takes the outcome
  /\ Proceed(j, "running", o)
  /\ outcome' = [outcome EXCEPT ![j] = o]
  /\ promise' = [promise EXCEPT ![j] = o]
  /\ UNCHANGED <<launching, canceller, wire, worker, submitted, cancelling, spared, lost>>

\* future_result.complete(result) or completeExceptionally(error)
EndJob(j, o) ==
  /\ Proceed(j, "running", o)
  /\ outcome' = [outcome EXCEPT ![j] = o]
  /\ promise' = [promise EXCEPT ![j] = IF @ = "pending" THEN "done" ELSE @]
  /\ UNCHANGED <<launching, canceller, wire, worker, submitted, cancelling, spared, lost>>

NotifyResultsOnly(j, o) ==                      \* mutant: a failed job is not notified
  /\ Proceed(j, o, "notified")
  /\ IF o = "result" THEN Send(o, j) ELSE UNCHANGED wire
  /\ UNCHANGED <<launching, canceller, worker, submitted, promise, cancelling, outcome, spared, lost>>

\* callback.notifyCompletion(job_id, result) or callback.notifyException(job_id, error)
Notify(j, o) ==
  /\ Proceed(j, o, "notified")
  /\ Send(o, j)
  /\ UNCHANGED <<launching, canceller, worker, submitted, promise, cancelling, outcome, spared, lost>>

\* finally { submitted_jobs.remove(job_id) }
Forget(j) ==
  /\ Proceed(j, "notified", "over")
  /\ submitted' = submitted \ {j}
  /\ UNCHANGED <<launching, canceller, wire, worker, promise, cancelling, outcome, spared, lost>>

-----------------------------------------------------------------------------
(* DefaultWorkerRemote.cancel, at the worker *)

\* submitted_jobs.containsKey(id); an unknown job is answered with an exception.
FindJob(j) ==
  /\ Exposed
  /\ IF j \in submitted
       THEN Receive("cancel", j) /\ cancelling' = cancelling \cup {j}
       ELSE Reply("cancel", j, "answer") /\ UNCHANGED cancelling
  /\ UNCHANGED <<launching, canceller, worker, submitted, promise, task, outcome, spared, lost>>

\* submitted_jobs.get(id).cancel(may_interrupt), which interrupts nobody, and remove if it succeeds.
CancelJob(j) ==
  /\ worker # "dead" /\ j \in cancelling /\ j \in submitted
  /\ cancelling' = cancelling \ {j}
  /\ IF promise[j] = "pending"
       THEN /\ promise' = [promise EXCEPT ![j] = "cancelled"]
            /\ submitted' = submitted \ {j}
            /\ spared' = IF task[j] = "queued" THEN spared \cup {j} ELSE spared
       ELSE UNCHANGED <<promise, submitted, spared>>
  /\ Send("answer", j)
  /\ UNCHANGED <<launching, canceller, worker, task, outcome, lost>>

\* get returns null, the job was forgotten meanwhile: the exception ends the task, unseen.
CancelForgotten(j) ==
  /\ worker # "dead" /\ j \in cancelling /\ j \notin submitted
  /\ cancelling' = cancelling \ {j}
  /\ UNCHANGED <<launching, canceller, wire, worker, submitted, promise, task, outcome, spared, lost>>

-----------------------------------------------------------------------------
(* The end of the worker, and of connections *)

\* DefaultWorkerRemote.shutdown: executor.shutdownNow(), then server.unexpose().
StopWorker ==
  /\ \/ worker = "up" /\ worker' = "stopped"
     \/ worker = "stopped" /\ worker' = "unexposed"
  /\ UNCHANGED <<launching, canceller, wire, submitted, promise, task, cancelling, outcome, spared, lost>>

\* worker_process.destroy(), or a crash.
WorkerDies ==
  /\ worker # "dead"
  /\ worker' = "dead"
  /\ submitted' = {} /\ cancelling' = {}
  /\ UNCHANGED <<launching, canceller, wire, promise, task, outcome, spared, lost>>

\* What becomes of a call whose connection breaks: its caller sees an exception.
Broken(m) ==
  CASE m[1] \in {"submit", "accepted"} -> {<<"refused", m[2]>>}
    [] m[1] = "cancel" -> {<<"answer", m[2]>>}
    [] OTHER -> {}

\* A cancellation the worker took on but did not answer before it died.
Unanswered(j) == canceller[j] = "waiting" /\ ~Exposed /\ <<"answer", j>> \notin wire

Break(m) ==
  /\ m \in wire /\ m[1] \notin {"refused", "answer"}
  /\ wire' = (wire \ {m}) \cup Broken(m)
  /\ lost' = IF m[1] \in {"result", "error"} THEN lost \cup {m[2]} ELSE lost
  /\ UNCHANGED <<launching, canceller, working>>

CancelBroken(j) ==
  /\ Unanswered(j) /\ <<"cancel", j>> \notin wire
  /\ Send("answer", j)
  /\ UNCHANGED <<launching, canceller, working, lost>>

-----------------------------------------------------------------------------
CallStep(j) ==
  \/ SendSubmit(j) \/ SubmitAccepted(j) \/ SubmitRefused(j) \/ CancelAnswered(j)
  \/ NotifyCompletion(j) \/ NotifyException(j)
  \/ ReceiveSubmit(j) \/ RejectSubmit(j) \/ FindJob(j) \/ CancelBroken(j)
  \/ \E kind \in Kinds : Break(<<kind, j>>)

TaskStep(j) ==
  \/ StartJob(j) \/ Forget(j) \/ \E o \in {"result", "error"} : EndJob(j, o) \/ Notify(j, o)

CancelStep(j) == CancelJob(j) \/ CancelForgotten(j)

Next ==
  \/ \E j \in Jobs : Register(j) \/ Cancel(j) \/ CallStep(j) \/ TaskStep(j) \/ CancelStep(j)
  \/ Unexpose \/ Release \/ StopWorker \/ WorkerDies

\* Calls arrive or break, and the threads of a live worker run: a job that is executed ends.
Fairness ==
  /\ WF_vars(Release)
  /\ \A j \in Jobs : WF_vars(CallStep(j)) /\ WF_vars(TaskStep(j)) /\ WF_vars(CancelStep(j))

SafeSpec == Init /\ [][Next]_vars
Spec == SafeSpec /\ Fairness

-----------------------------------------------------------------------------
TypeOK ==
  /\ future \in [Jobs -> {"none", "pending", "completed", "failed", "cancelled"}]
  /\ known \subseteq Jobs
  /\ caller \in [Jobs -> {"idle", "registered", "sent"}]
  /\ canceller \in [Jobs -> {"idle", "waiting", "returned"}]
  /\ launcher \in {"open", "unexposed", "closed"}
  /\ wire \subseteq Messages
  /\ worker \in {"up", "stopped", "unexposed", "dead"}
  /\ submitted \subseteq Jobs /\ cancelling \subseteq Jobs /\ spared \subseteq Jobs /\ lost \subseteq Jobs
  /\ promise \in [Jobs -> {"none", "pending", "done", "cancelled"}]
  /\ task \in [Jobs -> {"none", "queued", "running", "result", "error", "notified", "over"}]
  /\ outcome \in [Jobs -> {"none", "result", "error"}]

\* The abstract specification: what a caller of Worker.submit relies on, whatever is lost, cancelled,
\* killed or shut down meanwhile.
Promise == INSTANCE JobPromise
ImplementsJobPromise == Promise!JSpec

\* A job that its worker is to execute, or executes, can be found by its id to cancel it, unless it was
\* cancelled already (DefaultWorkerRemote.java:71, before the job is handed to the executor).
LiveJobsCanBeCancelled ==
  \A j \in Jobs :
    worker # "dead" /\ task[j] \in {"queued", "running"} => j \in submitted \/ promise[j] = "cancelled"

\* releaseAllPendingFutures (WorkerNetwork.java:200): it leaves no future pending, also of jobs that no
\* worker will ever answer for.
ReleasedAreSettled ==
  [][Release => \A j \in Jobs : future'[j] # "pending"]_vars

\* The Future of a job comes to an end, unless the worker or the network is shut down, the worker dies,
\* or the notification of its end is lost (DefaultWorkerRemote.java:81 and 88; nobody repeats it).
FuturesEnd ==
  \A j \in Jobs :
    future[j] = "pending" ~> future[j] # "pending" \/ worker # "up" \/ launcher # "open" \/ j \in lost

\* WorkerRemote.java:48: "If successful, and this task has not started when cancel is called, this task
\* will never run."
CancelledNeverRuns == \A j \in spared : task[j] = "queued"
=============================================================================
