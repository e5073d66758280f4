------------------------- MODULE JobExecution_proofs -------------------------
(***************************************************************************)
(* Proofs about submitted jobs: the types, and that JobExecution           *)
(* implements JobPromise for any number of jobs, over any connections.     *)
(***************************************************************************)
EXTENDS JobExecution, TLAPS

\* A job is registered before it is sent, and sent before it is executed; it is sent once, so it is
\* executed once; and a notification in flight tells how it ended.
JobInv(j) ==
  /\ caller[j] = "idle" <=> future[j] = "none"
  /\ future[j] # "none" => j \in known
  /\ caller[j] # "sent" => task[j] = "none" /\ <<"submit", j>> \notin wire
  /\ <<"submit", j>> \in wire => task[j] = "none"
  /\ task[j] \in {"none", "queued", "running"} => outcome[j] = "none"
  /\ task[j] = "result" => outcome[j] = "result"
  /\ <<"result", j>> \in wire => outcome[j] = "result"

Inv == TypeOK /\ \A j \in Jobs : JobInv(j)

\* What sending, receiving and answering do to the messages in flight.
LEMMA WireUpdates ==
  ASSUME wire \subseteq Messages, NEW j \in Jobs
  PROVE  /\ \A kind \in Kinds : Send(kind, j) =>
              /\ wire' \subseteq Messages
              /\ \A m : m \in wire' => m \in wire \/ m = <<kind, j>>
         /\ \A kind \in Kinds : Receive(kind, j) =>
              <<kind, j>> \in wire /\ <<kind, j>> \notin wire' /\ wire' \subseteq wire
         /\ \A kind \in Kinds, with \in Kinds : Reply(kind, j, with) =>
              /\ wire' \subseteq Messages
              /\ \A m : m \in wire' => m \in wire \/ m = <<with, j>>
              /\ <<kind, j>> \in wire
              /\ with # kind => <<kind, j>> \notin wire'
  BY DEF Send, Receive, Reply, Messages

\* Every step keeps the types.
LEMMA TypesInductive == TypeOK /\ [Next]_vars => TypeOK'
  <1> SUFFICES ASSUME TypeOK, [Next]_vars PROVE TypeOK'
      OBVIOUS
  <1> USE DEF TypeOK, launching, working
  <1>1. ASSUME NEW j \in Jobs, Register(j) PROVE TypeOK'
        BY <1>1 DEF Register
  <1>2. ASSUME NEW j \in Jobs, SendSubmit(j) PROVE TypeOK'
    <2>1. wire' \subseteq Messages
          BY <1>2, WireUpdates DEF SendSubmit, Kinds
    <2> QED  BY <1>2, <2>1 DEF SendSubmit
  <1>3. ASSUME NEW j \in Jobs, SubmitAccepted(j) PROVE TypeOK'
    <2>1. wire' \subseteq Messages
          BY <1>3, WireUpdates DEF SubmitAccepted, Kinds
    <2> QED  BY <1>3, <2>1 DEF SubmitAccepted
  <1>4. ASSUME NEW j \in Jobs, SubmitRefused(j) PROVE TypeOK'
    <2>1. wire' \subseteq Messages
          BY <1>4, WireUpdates DEF SubmitRefused, Kinds
    <2> QED  BY <1>4, <2>1 DEF SubmitRefused, Settle
  <1>5. ASSUME NEW j \in Jobs, Cancel(j) PROVE TypeOK'
    <2>1. wire' \subseteq Messages
          BY <1>5, WireUpdates DEF Cancel, Kinds
    <2> QED  BY <1>5, <2>1 DEF Cancel, Settle
  <1>6. ASSUME NEW j \in Jobs, CancelAnswered(j) PROVE TypeOK'
    <2>1. wire' \subseteq Messages
          BY <1>6, WireUpdates DEF CancelAnswered, Kinds
    <2> QED  BY <1>6, <2>1 DEF CancelAnswered
  <1>7. ASSUME NEW j \in Jobs, NotifyCompletion(j) PROVE TypeOK'
    <2>1. wire' \subseteq Messages
          BY <1>7, WireUpdates DEF NotifyCompletion, Kinds
    <2> QED  BY <1>7, <2>1 DEF NotifyCompletion, Settle
  <1>8. ASSUME NEW j \in Jobs, NotifyException(j) PROVE TypeOK'
    <2>1. wire' \subseteq Messages
          BY <1>8, WireUpdates DEF NotifyException, Kinds
    <2> QED  BY <1>8, <2>1 DEF NotifyException, Settle
  <1>9. ASSUME NEW j \in Jobs, ReceiveSubmit(j) PROVE TypeOK'
    <2>1. wire' \subseteq Messages
          BY <1>9, WireUpdates DEF ReceiveSubmit, Kinds
    <2> QED  BY <1>9, <2>1 DEF ReceiveSubmit
  <1>10. ASSUME NEW j \in Jobs, RejectSubmit(j) PROVE TypeOK'
    <2>1. wire' \subseteq Messages
          BY <1>10, WireUpdates DEF RejectSubmit, Kinds
    <2> QED  BY <1>10, <2>1 DEF RejectSubmit
  <1>11. ASSUME NEW j \in Jobs, FindJob(j) PROVE TypeOK'
    <2>1. wire' \subseteq Messages
          BY <1>11, WireUpdates DEF FindJob, Kinds
    <2> QED  BY <1>11, <2>1 DEF FindJob
  <1>12. ASSUME NEW j \in Jobs, CancelBroken(j) PROVE TypeOK'
    <2>1. wire' \subseteq Messages
          BY <1>12, WireUpdates DEF CancelBroken, Kinds
    <2> QED  BY <1>12, <2>1 DEF CancelBroken
  <1>13. ASSUME NEW j \in Jobs, StartJob(j) PROVE TypeOK'
        BY <1>13 DEF StartJob, Proceed
  <1>14. ASSUME NEW j \in Jobs, Forget(j) PROVE TypeOK'
        BY <1>14 DEF Forget, Proceed
  <1>15. ASSUME NEW j \in Jobs, CancelJob(j) PROVE TypeOK'
    <2>1. wire' \subseteq Messages
          BY <1>15, WireUpdates DEF CancelJob, Kinds
    <2> QED  BY <1>15, <2>1 DEF CancelJob
  <1>16. ASSUME NEW j \in Jobs, CancelForgotten(j) PROVE TypeOK'
        BY <1>16 DEF CancelForgotten
  <1>17. ASSUME NEW j \in Jobs, NEW o \in {"result", "error"}, EndJob(j, o) PROVE TypeOK'
        BY <1>17 DEF EndJob, Proceed
  <1>18. ASSUME NEW j \in Jobs, NEW o \in {"result", "error"}, Notify(j, o) PROVE TypeOK'
    <2>1. wire' \subseteq Messages
          BY <1>18, WireUpdates DEF Notify, Kinds
    <2> QED  BY <1>18, <2>1 DEF Notify, Proceed
  <1>19. ASSUME NEW j \in Jobs, NEW kind \in Kinds, Break(<<kind, j>>) PROVE TypeOK'
    <2>1. wire' \subseteq Messages
          BY <1>19 DEF Break, Broken, Messages, Kinds
    <2> QED  BY <1>19, <2>1 DEF Break
  <1>20. CASE Unexpose \/ Release \/ StopWorker \/ WorkerDies
        BY <1>20 DEF Unexpose, Release, StopWorker, WorkerDies
  <1>21. CASE UNCHANGED vars
        BY <1>21 DEF vars
  <1> HIDE DEF TypeOK, launching, working
  <1> QED
      BY <1>1, <1>2, <1>3, <1>4, <1>5, <1>6, <1>7, <1>8, <1>9, <1>10, <1>11, <1>12, <1>13, <1>14, <1>15, <1>16, <1>17, <1>18, <1>19, <1>20, <1>21
      DEF Next, CallStep, TaskStep, CancelStep

\* JobInv is kept: what a step does to its own job, it does in the order of registering, sending,
\* executing and notifying, and it leaves the other jobs alone.
LEMMA JobsInductive ==
  ASSUME Inv, [Next]_vars, NEW k \in Jobs
  PROVE  JobInv(k)'
  <1>0. TypeOK /\ JobInv(k) /\ \A j \in Jobs : JobInv(j)
        BY DEF Inv
  <1>w. wire \subseteq Messages
        BY <1>0 DEF TypeOK
  <1> USE <1>0, <1>w DEF launching, working, JobInv, TypeOK
  <1>1. ASSUME NEW j \in Jobs, Register(j) PROVE JobInv(k)'
        BY <1>1 DEF Register
  <1>2. ASSUME NEW j \in Jobs, SendSubmit(j) PROVE JobInv(k)'
    <2>1. \A m : m \in wire' => m \in wire \/ m = <<"submit", j>>
          BY <1>2, WireUpdates DEF SendSubmit, Kinds
    <2> QED  BY <1>2, <2>1 DEF SendSubmit
  <1>3. ASSUME NEW j \in Jobs, SubmitAccepted(j) PROVE JobInv(k)'
    <2>1. \A m : m \in wire' => m \in wire
          BY <1>3, WireUpdates DEF SubmitAccepted, Kinds
    <2> QED  BY <1>3, <2>1 DEF SubmitAccepted
  <1>4. ASSUME NEW j \in Jobs, SubmitRefused(j) PROVE JobInv(k)'
    <2>1. \A m : m \in wire' => m \in wire
          BY <1>4, WireUpdates DEF SubmitRefused, Kinds
    <2> QED  BY <1>4, <2>1 DEF SubmitRefused, Settle
  <1>5. ASSUME NEW j \in Jobs, Cancel(j) PROVE JobInv(k)'
    <2>1. \A m : m \in wire' => m \in wire \/ m = <<"cancel", j>>
          BY <1>5, WireUpdates DEF Cancel, Kinds
    <2> QED  BY <1>5, <2>1 DEF Cancel, Settle
  <1>6. ASSUME NEW j \in Jobs, CancelAnswered(j) PROVE JobInv(k)'
    <2>1. \A m : m \in wire' => m \in wire
          BY <1>6, WireUpdates DEF CancelAnswered, Kinds
    <2> QED  BY <1>6, <2>1 DEF CancelAnswered
  <1>7. ASSUME NEW j \in Jobs, NotifyCompletion(j) PROVE JobInv(k)'
    <2>1. (\A m : m \in wire' => m \in wire) /\ <<"result", j>> \in wire
          BY <1>7, WireUpdates DEF NotifyCompletion, Kinds
    <2> QED  BY <1>7, <2>1 DEF NotifyCompletion, Settle
  <1>8. ASSUME NEW j \in Jobs, NotifyException(j) PROVE JobInv(k)'
    <2>1. \A m : m \in wire' => m \in wire
          BY <1>8, WireUpdates DEF NotifyException, Kinds
    <2> QED  BY <1>8, <2>1 DEF NotifyException, Settle
  <1>9. ASSUME NEW j \in Jobs, ReceiveSubmit(j) PROVE JobInv(k)'
    <2>1. (\A m : m \in wire' => m \in wire \/ m = <<"accepted", j>>) /\ <<"submit", j>> \in wire /\ <<"submit", j>> \notin wire'
          BY <1>9, WireUpdates DEF ReceiveSubmit, Kinds
    <2> QED  BY <1>9, <2>1 DEF ReceiveSubmit
  <1>10. ASSUME NEW j \in Jobs, RejectSubmit(j) PROVE JobInv(k)'
    <2>1. (\A m : m \in wire' => m \in wire \/ m = <<"refused", j>>) /\ <<"submit", j>> \in wire /\ <<"submit", j>> \notin wire'
          BY <1>10, WireUpdates DEF RejectSubmit, Kinds
    <2> QED  BY <1>10, <2>1 DEF RejectSubmit
  <1>11. ASSUME NEW j \in Jobs, FindJob(j) PROVE JobInv(k)'
    <2>1. \A m : m \in wire' => m \in wire \/ m = <<"answer", j>>
          BY <1>11, WireUpdates DEF FindJob, Kinds
    <2> QED  BY <1>11, <2>1 DEF FindJob
  <1>12. ASSUME NEW j \in Jobs, CancelBroken(j) PROVE JobInv(k)'
    <2>1. \A m : m \in wire' => m \in wire \/ m = <<"answer", j>>
          BY <1>12, WireUpdates DEF CancelBroken, Kinds
    <2> QED  BY <1>12, <2>1 DEF CancelBroken
  <1>13. ASSUME NEW j \in Jobs, StartJob(j) PROVE JobInv(k)'
        BY <1>13 DEF StartJob, Proceed
  <1>14. ASSUME NEW j \in Jobs, Forget(j) PROVE JobInv(k)'
        BY <1>14 DEF Forget, Proceed
  <1>15. ASSUME NEW j \in Jobs, CancelJob(j) PROVE JobInv(k)'
    <2>1. \A m : m \in wire' => m \in wire \/ m = <<"answer", j>>
          BY <1>15, WireUpdates DEF CancelJob, Kinds
    <2> QED  BY <1>15, <2>1 DEF CancelJob
  <1>16. ASSUME NEW j \in Jobs, CancelForgotten(j) PROVE JobInv(k)'
        BY <1>16 DEF CancelForgotten
  <1>17. ASSUME NEW j \in Jobs, NEW o \in {"result", "error"}, EndJob(j, o) PROVE JobInv(k)'
        BY <1>17 DEF EndJob, Proceed
  <1>18. ASSUME NEW j \in Jobs, NEW o \in {"result", "error"}, Notify(j, o) PROVE JobInv(k)'
    <2>1. \A m : m \in wire' => m \in wire \/ m = <<o, j>>
          BY <1>18 DEF Notify, Send
    <2> QED  BY <1>18, <2>1 DEF Notify, Proceed
  <1>19. ASSUME NEW j \in Jobs, NEW kind \in Kinds, Break(<<kind, j>>) PROVE JobInv(k)'
    <2>1. \A m : m \in wire' => m \in wire \/ m[1] \in {"refused", "answer"}
          BY <1>19 DEF Break, Broken
    <2> QED  BY <1>19, <2>1 DEF Break
  <1>20. CASE Unexpose \/ Release \/ StopWorker \/ WorkerDies
        BY <1>20 DEF Unexpose, Release, StopWorker, WorkerDies
  <1>21. CASE UNCHANGED vars
        BY <1>21 DEF vars
  <1> HIDE <1>0, <1>w DEF launching, working, JobInv, TypeOK
  <1> QED
      BY <1>1, <1>2, <1>3, <1>4, <1>5, <1>6, <1>7, <1>8, <1>9, <1>10, <1>11, <1>12, <1>13, <1>14, <1>15, <1>16, <1>17, <1>18, <1>19, <1>20, <1>21
      DEF Next, CallStep, TaskStep, CancelStep

LEMMA InitHolds == Init => Inv
  <1> SUFFICES ASSUME Init PROVE Inv
      OBVIOUS
  <1>1. TypeOK
        BY DEF Init, TypeOK
  <1>2. \A j \in Jobs : JobInv(j)
        BY DEF Init, JobInv
  <1> QED  BY <1>1, <1>2 DEF Inv

\* Neither side, nor a broken connection, breaks the invariant.
LEMMA InvInductive == Inv /\ [Next]_vars => Inv'
  <1> SUFFICES ASSUME Inv, [Next]_vars PROVE Inv'
      OBVIOUS
  <1>1. TypeOK'
        BY TypesInductive DEF Inv
  <1>2. ASSUME NEW j \in Jobs PROVE JobInv(j)'
        BY JobsInductive
  <1> QED  BY <1>1, <1>2 DEF Inv

\* Every reachable state is of the types declared, for any set of jobs and with or without failures.
THEOREM JobTypeCorrect == SafeSpec => []TypeOK
  <1>1. Inv => TypeOK
        BY DEF Inv
  <1> QED  BY <1>1, InitHolds, InvInductive, PTL DEF SafeSpec

\* Settling a future, in the code and in the promise: the first one wins, later ones change nothing.
LEMMA SettleImplements ==
  ASSUME TypeOK, NEW j \in Jobs, NEW f, Settle(j, f), UNCHANGED outcome
  PROVE  Promise!Settle(j, f) \/ UNCHANGED <<outcome, future>>
  <1>1. CASE future[j] = "pending"
        BY <1>1 DEF Settle, Promise!Settle
  <1>2. CASE future[j] # "pending"
    <2>1. future' = future
          BY <1>2 DEF Settle, TypeOK
    <2> QED  BY <2>1
  <1> QED  BY <1>1, <1>2

\* Every step is a step of the promise, or leaves the futures and the outcomes alone.
LEMMA StepImplements == Inv /\ [Next]_vars => [Promise!JNext]_(Promise!jvars)
  <1> SUFFICES ASSUME Inv, [Next]_vars PROVE Promise!JNext \/ UNCHANGED <<outcome, future>>
      BY DEF Promise!jvars
  <1>0. TypeOK /\ \A j \in Jobs : JobInv(j)
        BY DEF Inv
  <1>1. ASSUME NEW j \in Jobs, Register(j) PROVE Promise!JNext
    <2>1. Promise!Submit(j)
          BY <1>0, <1>1 DEF Register, Promise!Submit, JobInv, working
    <2> QED  BY <2>1 DEF Promise!JNext
  <1>2. ASSUME NEW j \in Jobs, SubmitRefused(j) PROVE Promise!JNext \/ UNCHANGED <<outcome, future>>
    <2>1. Settle(j, "failed") /\ UNCHANGED outcome
          BY <1>2 DEF SubmitRefused, working
    <2>2. Promise!Settle(j, "failed") \/ UNCHANGED <<outcome, future>>
          BY <1>0, <2>1, SettleImplements
    <2> QED  BY <2>2 DEF Promise!JNext, Promise!Fail
  <1>3. ASSUME NEW j \in Jobs, Cancel(j) PROVE Promise!JNext \/ UNCHANGED <<outcome, future>>
    <2>1. Settle(j, "cancelled") /\ UNCHANGED outcome
          BY <1>3 DEF Cancel, working
    <2>2. Promise!Settle(j, "cancelled") \/ UNCHANGED <<outcome, future>>
          BY <1>0, <2>1, SettleImplements
    <2> QED  BY <2>2 DEF Promise!JNext, Promise!Cancel
  <1>4. ASSUME NEW j \in Jobs, NotifyException(j) PROVE Promise!JNext \/ UNCHANGED <<outcome, future>>
    <2>1. UNCHANGED outcome
          BY <1>4 DEF NotifyException, working
    <2>2. CASE j \notin known
          BY <1>4, <2>1, <2>2 DEF NotifyException
    <2>3. CASE j \in known
      <3>1. Settle(j, "failed")
            BY <1>4, <2>3 DEF NotifyException
      <3>2. Promise!Settle(j, "failed") \/ UNCHANGED <<outcome, future>>
            BY <1>0, <2>1, <3>1, SettleImplements
      <3> QED  BY <3>2 DEF Promise!JNext, Promise!Fail
    <2> QED  BY <2>2, <2>3
  <1>5. ASSUME NEW j \in Jobs, NotifyCompletion(j) PROVE Promise!JNext \/ UNCHANGED <<outcome, future>>
    <2>1. UNCHANGED outcome
          BY <1>5 DEF NotifyCompletion, working
    <2>2. outcome[j] = "result"
          BY <1>0, <1>5 DEF NotifyCompletion, Receive, JobInv
    <2>3. CASE j \notin known
          BY <1>5, <2>1, <2>3 DEF NotifyCompletion
    <2>4. CASE j \in known
      <3>1. Settle(j, "completed")
            BY <1>5, <2>4 DEF NotifyCompletion
      <3>2. Promise!Settle(j, "completed") \/ UNCHANGED <<outcome, future>>
            BY <1>0, <2>1, <3>1, SettleImplements
      <3> QED  BY <2>2, <3>2 DEF Promise!JNext, Promise!Complete
    <2> QED  BY <2>3, <2>4
  <1>6. ASSUME NEW j \in Jobs, NEW o \in {"result", "error"}, EndJob(j, o) PROVE Promise!JNext
    <2>1. task[j] = "running" /\ outcome' = [outcome EXCEPT ![j] = o] /\ UNCHANGED future
          BY <1>6 DEF EndJob, Proceed, launching
    <2>2. outcome[j] = "none" /\ future[j] # "none"
          BY <1>0, <2>1 DEF JobInv
    <2> QED  BY <2>1, <2>2 DEF Promise!JNext, Promise!Execute
  <1>7. CASE Release
    <2>1. \A j \in Jobs : future[j] = "pending" => j \in known
          BY <1>0 DEF JobInv
    <2>2. Promise!Release
          BY <1>7, <2>1 DEF Release, Promise!Release, working
    <2> QED  BY <2>2 DEF Promise!JNext
  <1>8. ASSUME NEW j \in Jobs,
                SendSubmit(j) \/ SubmitAccepted(j) \/ CancelAnswered(j) \/ ReceiveSubmit(j) \/ RejectSubmit(j)
         PROVE  UNCHANGED <<outcome, future>>
        BY <1>8 DEF SendSubmit, SubmitAccepted, CancelAnswered, ReceiveSubmit, RejectSubmit, launching, working
  <1>9. ASSUME NEW j \in Jobs,
                FindJob(j) \/ CancelJob(j) \/ CancelForgotten(j) \/ CancelBroken(j) \/ StartJob(j) \/ Forget(j)
         PROVE  UNCHANGED <<outcome, future>>
        BY <1>9 DEF FindJob, CancelJob, CancelForgotten, CancelBroken, StartJob, Forget, launching, working
  <1>10. ASSUME NEW j \in Jobs, NEW o \in {"result", "error"}, Notify(j, o)
         PROVE  UNCHANGED <<outcome, future>>
        BY <1>10 DEF Notify, launching
  <1>11. ASSUME NEW m, Break(m) PROVE UNCHANGED <<outcome, future>>
        BY <1>11 DEF Break, launching, working
  <1>12. CASE Unexpose \/ StopWorker \/ WorkerDies \/ UNCHANGED vars
        BY <1>12 DEF Unexpose, StopWorker, WorkerDies, vars, launching, working
  <1> QED
      BY <1>1, <1>2, <1>3, <1>4, <1>5, <1>6, <1>7, <1>8, <1>9, <1>10, <1>11, <1>12
      DEF Next, CallStep, TaskStep, CancelStep

\* A job is executed at most once, only after it was submitted; its Future is settled at most once, and a
\* Future that completes carries the result the job returned: whatever is lost, cancelled, killed or
\* shut down (DefaultWorkerRemote.submit, FutureRemote.cancel, WorkerNetwork.shutdown).
THEOREM ImplementsJobPromiseSafely == SafeSpec => ImplementsJobPromise
  <1>1. Init => Promise!JInit
        BY DEF Init, Promise!JInit
  <1> QED
      BY <1>1, InitHolds, InvInductive, StepImplements, PTL DEF SafeSpec, ImplementsJobPromise, Promise!JSpec

\* A job that is to run, or runs, can be found to be cancelled: submitted_jobs is written before the
\* executor has the job, and given up only with a cancellation or after the job has ended.
THEOREM RunningJobsCanBeCancelled == SafeSpec => []LiveJobsCanBeCancelled
  <1>1. Init => LiveJobsCanBeCancelled
        BY DEF Init, LiveJobsCanBeCancelled
  <1>2. TypeOK /\ LiveJobsCanBeCancelled /\ [Next]_vars => LiveJobsCanBeCancelled'
    <2> SUFFICES ASSUME TypeOK, LiveJobsCanBeCancelled, [Next]_vars PROVE LiveJobsCanBeCancelled'
        OBVIOUS
    <2> USE DEF TypeOK, LiveJobsCanBeCancelled
    <2>1. CASE UNCHANGED <<worker, submitted, promise, task>>
          BY <2>1
    <2>2. ASSUME NEW j \in Jobs, ReceiveSubmit(j) \/ RejectSubmit(j) PROVE LiveJobsCanBeCancelled'
          BY <2>2 DEF ReceiveSubmit, RejectSubmit
    <2>3. ASSUME NEW j \in Jobs, NEW o \in {"result", "error"},
                 StartJob(j) \/ EndJob(j, o) \/ Notify(j, o) \/ Forget(j)
          PROVE  LiveJobsCanBeCancelled'
          BY <2>3 DEF StartJob, EndJob, Notify, Forget, Proceed
    <2>4. ASSUME NEW j \in Jobs, CancelJob(j) PROVE LiveJobsCanBeCancelled'
          BY <2>4 DEF CancelJob
    <2>5. CASE StopWorker \/ WorkerDies
          BY <2>5 DEF StopWorker, WorkerDies
    <2>6. ASSUME NEW j \in Jobs,
                 \/ Register(j) \/ SendSubmit(j) \/ SubmitAccepted(j) \/ SubmitRefused(j) \/ Cancel(j)
                 \/ CancelAnswered(j) \/ NotifyCompletion(j) \/ NotifyException(j)
          PROVE  UNCHANGED <<worker, submitted, promise, task>>
          BY <2>6 DEF Register, SendSubmit, SubmitAccepted, SubmitRefused, Cancel, CancelAnswered,
                      NotifyCompletion, NotifyException, working
    <2>7. ASSUME NEW j \in Jobs, FindJob(j) \/ CancelForgotten(j) \/ CancelBroken(j) \/ \E m : Break(m)
          PROVE  UNCHANGED <<worker, submitted, promise, task>>
          BY <2>7 DEF FindJob, CancelForgotten, CancelBroken, Break, working
    <2>8. CASE Unexpose \/ Release \/ UNCHANGED vars
          BY <2>8, <2>1 DEF Unexpose, Release, vars, working
    <2> HIDE DEF TypeOK, LiveJobsCanBeCancelled
    <2> QED
        BY <2>1, <2>2, <2>3, <2>4, <2>5, <2>6, <2>7, <2>8 DEF Next, CallStep, TaskStep, CancelStep
  <1> QED  BY <1>1, <1>2, JobTypeCorrect, PTL DEF SafeSpec

\* releaseAllPendingFutures leaves no future pending: each was registered before it was sent, and
\* nobody unregisters one.
THEOREM ReleaseSettlesAll == SafeSpec => ReleasedAreSettled
  <1>1. Inv /\ [Next]_vars => [Release => \A j \in Jobs : future'[j] # "pending"]_vars
    <2> SUFFICES ASSUME Inv, Release, NEW j \in Jobs PROVE future'[j] # "pending"
        OBVIOUS
    <2>1. future[j] = "pending" => j \in known
          BY DEF Inv, JobInv
    <2> QED  BY <2>1 DEF Release
  <1> QED  BY <1>1, InitHolds, InvInductive, PTL DEF SafeSpec, ReleasedAreSettled

-----------------------------------------------------------------------------
(* The safety part of FuturesEnd *)

\* The job is still to be sent, or is on its way to or at the worker, or what settles its future is
\* on its way back.
InHands(j) ==
  \/ caller[j] = "registered"
  \/ \E kind \in {"submit", "refused", "result", "error"} : <<kind, j>> \in wire
  \/ task[j] \in {"queued", "running", "result", "error"}

\* A pending future has somebody who is to settle it, as long as neither side shuts down, the worker
\* lives and no notification was lost.
SomebodySettles ==
  \A j \in Jobs :
    future[j] = "pending" /\ worker = "up" /\ launcher = "open" /\ j \notin lost => InHands(j)

\* A message that a step does not take stays on the wire.
LEMMA WireKeeps ==
  ASSUME NEW j, NEW m, m \in wire
  PROVE  /\ \A kind : Send(kind, j) => m \in wire'
         /\ \A kind : Receive(kind, j) /\ m # <<kind, j>> => m \in wire'
         /\ \A kind, with : Reply(kind, j, with) /\ m # <<kind, j>> => m \in wire'
         /\ \A n : Break(n) /\ m # n => m \in wire'
  BY DEF Send, Receive, Reply, Break

\* Whatever takes a job out of one pair of hands puts it into the next, or settles its future.
THEOREM NobodyIsForgotten == SafeSpec => []SomebodySettles
  <1>1. Init => SomebodySettles
        BY DEF Init, SomebodySettles
  <1>2. Inv /\ SomebodySettles /\ [Next]_vars => SomebodySettles'
    <2> SUFFICES ASSUME Inv, SomebodySettles, [Next]_vars, NEW k \in Jobs,
                        (future[k] = "pending" /\ worker = "up" /\ launcher = "open" /\ k \notin lost)'
                 PROVE  InHands(k)'
        BY DEF SomebodySettles
    <2>0. TypeOK /\ (future[k] = "pending" => k \in known)
        BY DEF Inv, JobInv
    <2> USE <2>0 DEF TypeOK, launching, working
    <2>1. ASSUME UNCHANGED <<future, worker, launcher, lost>>, caller'[k] = caller[k],
                 task'[k] = task[k], \A kind : <<kind, k>> \in wire => <<kind, k>> \in wire'
          PROVE  InHands(k)'
          BY <2>1 DEF SomebodySettles, InHands
    <2>2. ASSUME NEW j \in Jobs, Register(j) PROVE InHands(k)'
      <3>1. CASE j = k
            BY <2>2, <3>1 DEF Register, InHands
      <3>2. CASE j # k
            BY <2>2, <3>2 DEF Register, InHands, SomebodySettles
      <3>3. QED BY <3>1, <3>2
    <2>3. ASSUME NEW j \in Jobs, SendSubmit(j) PROVE InHands(k)'
      <3>1. CASE j = k
            BY <2>3, <3>1 DEF SendSubmit, InHands, Send
      <3>2. CASE j # k
            BY <2>3, <3>2, <2>1, WireKeeps DEF SendSubmit
      <3>3. QED BY <3>1, <3>2
    <2>4. ASSUME NEW j \in Jobs, SubmitAccepted(j) \/ CancelAnswered(j) PROVE InHands(k)'
      <3>1. InHands(k)
            BY <2>4 DEF SubmitAccepted, CancelAnswered, SomebodySettles
      <3>2. QED BY <2>4, <3>1 DEF SubmitAccepted, CancelAnswered, Receive, InHands
    <2>5. ASSUME NEW j \in Jobs,
                 SubmitRefused(j) \/ NotifyCompletion(j) \/ NotifyException(j)
          PROVE  InHands(k)'
      <3>1. j # k /\ future'[k] = future[k]
            BY <2>5 DEF SubmitRefused, NotifyCompletion, NotifyException, Settle
      <3>2. InHands(k)
            BY <2>5, <3>1 DEF SubmitRefused, NotifyCompletion, NotifyException, SomebodySettles
      <3>3. \A kind : <<kind, k>> \in wire => <<kind, k>> \in wire'
            BY <2>5, <3>1 DEF SubmitRefused, NotifyCompletion, NotifyException, Receive
      <3>4. QED
            BY <2>5, <3>2, <3>3 DEF SubmitRefused, NotifyCompletion, NotifyException, InHands
    <2>6. ASSUME NEW j \in Jobs, Cancel(j) PROVE InHands(k)'
      <3>1. j # k /\ future'[k] = future[k]
            BY <2>6 DEF Cancel, Settle
      <3>2. QED BY <2>6, <3>1 DEF Cancel, Send, InHands, SomebodySettles
    <2>7. ASSUME NEW j \in Jobs, ReceiveSubmit(j) PROVE InHands(k)'
      <3>1. CASE j = k
            BY <2>7, <3>1 DEF ReceiveSubmit, InHands
      <3>2. CASE j # k
        <4>1. \A kind : <<kind, k>> \in wire => <<kind, k>> \in wire'
              BY <2>7, <3>2 DEF ReceiveSubmit, Reply
        <4>2. QED BY <2>7, <3>2, <4>1, <2>1 DEF ReceiveSubmit
      <3>3. QED BY <3>1, <3>2
    <2>8. ASSUME NEW j \in Jobs, RejectSubmit(j) \/ CancelBroken(j) PROVE InHands(k)'
          BY <2>8 DEF RejectSubmit, CancelBroken, Unanswered, Exposed
    <2>9. ASSUME NEW j \in Jobs, StartJob(j) \/ (\E o \in {"result", "error"} : EndJob(j, o))
          PROVE  InHands(k)'
      <3>1. InHands(k) /\ wire' = wire /\ caller' = caller
            BY <2>9 DEF StartJob, EndJob, SomebodySettles
      <3>2. task'[k] = task[k] \/ task'[k] \in {"running", "result", "error"}
            BY <2>9 DEF StartJob, EndJob, Proceed
      <3>3. QED BY <3>1, <3>2 DEF InHands
    <2>10. ASSUME NEW j \in Jobs, NEW o \in {"result", "error"}, Notify(j, o) PROVE InHands(k)'
      <3>1. CASE j = k
            BY <2>10, <3>1 DEF Notify, Send, InHands
      <3>2. CASE j # k
            BY <2>10, <3>2, <2>1 DEF Notify, Proceed, Send
      <3>3. QED BY <3>1, <3>2
    <2>11. ASSUME NEW j \in Jobs, Forget(j) PROVE InHands(k)'
      <3>1. InHands(k) /\ wire' = wire /\ caller' = caller
            BY <2>11 DEF Forget, SomebodySettles
      <3>2. task[k] \in {"queued", "running", "result", "error"} => task'[k] = task[k]
            BY <2>11 DEF Forget, Proceed
      <3>3. QED BY <3>1, <3>2 DEF InHands
    <2>12. ASSUME NEW j \in Jobs, FindJob(j) \/ CancelJob(j) \/ CancelForgotten(j) PROVE InHands(k)'
      <3>1. InHands(k) /\ task' = task /\ caller' = caller
            BY <2>12 DEF FindJob, CancelJob, CancelForgotten, SomebodySettles
      <3>2. \A kind \in {"submit", "refused", "result", "error"} :
              <<kind, k>> \in wire => <<kind, k>> \in wire'
            BY <2>12 DEF FindJob, CancelJob, CancelForgotten, Receive, Reply, Send
      <3>3. QED BY <3>1, <3>2 DEF InHands
    <2>13. ASSUME NEW j \in Jobs, NEW kind \in Kinds, Break(<<kind, j>>) PROVE InHands(k)'
      <3>1. /\ InHands(k) /\ task' = task /\ caller' = caller
            /\ wire' = (wire \ {<<kind, j>>}) \cup Broken(<<kind, j>>)
            /\ kind \in {"result", "error"} => j # k
            BY <2>13 DEF Break, SomebodySettles
      <3>2. kind = "submit" => <<"refused", j>> \in wire'
            BY <3>1 DEF Broken
      <3>3. \A m \in wire : m # <<kind, j>> => m \in wire'
            BY <3>1
      <3>4. kind # "refused"
            BY <2>13 DEF Break
      <3>5. QED BY <3>1, <3>2, <3>3, <3>4 DEF InHands
    <2>14. CASE Unexpose \/ Release \/ StopWorker \/ WorkerDies
          BY <2>14 DEF Unexpose, Release, StopWorker, WorkerDies
    <2>15. CASE UNCHANGED vars
          BY <2>15, <2>1 DEF vars
    <2> HIDE DEF TypeOK, launching, working
    <2> QED
        BY <2>2, <2>3, <2>4, <2>5, <2>6, <2>7, <2>8, <2>9, <2>10, <2>11, <2>12, <2>13, <2>14, <2>15
        DEF Next, CallStep, TaskStep, CancelStep
  <1> QED  BY <1>1, <1>2, InitHolds, InvInductive, PTL DEF SafeSpec
=============================================================================
