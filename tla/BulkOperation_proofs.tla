------------------------- MODULE BulkOperation_proofs ------------------------
(***************************************************************************)
(* Proofs about bulk operations: what a call that returns has done, for    *)
(* any set of descriptors, whatever is added and removed meanwhile.        *)
(***************************************************************************)
EXTENDS BulkOperation, WellFoundedInduction, TLAPS

\* The iterator's next element is the least of those that are left.
LEMMA LeastExists ==
  ASSUME NEW S \in SUBSET Nat, S # {}
  PROVE  \E d \in S : \A e \in S : d <= e
  <1> DEFINE R == {p \in Nat \X Nat : p[1] < p[2]}
  <1>1. IsWellFoundedOn(R, Nat)
        BY NatLessThanWellFounded, Zenon DEF OpToRel
  <1> HIDE DEF R
  <1>2. PICK d \in S : \A e \in S : ~ (<<e, d>> \in R)
        BY <1>1, WFMin
  <1>3. ASSUME NEW e \in S PROVE d <= e
    <2>1. d \in Nat /\ e \in Nat /\ <<e, d>> \notin R
          BY <1>2
    <2>2. ~ (e < d)
          BY <2>1 DEF R
    <2> QED  BY <2>1, <2>2
  <1> QED  BY <1>3

LEMMA FirstIsLeast ==
  ASSUME NEW S \in SUBSET Descriptors
  PROVE  /\ S = {} => First(S) = End
         /\ S # {} => First(S) \in S /\ First(S) # End /\ \A e \in S : First(S) <= e
  <1>1. S \in SUBSET Nat /\ 0 \notin S
        BY BulkAssumption
  <1>2. CASE S # {}
    <2>1. \E d \in S : \A e \in S : d <= e
          BY <1>1, <1>2, LeastExists
    <2>2. First(S) = CHOOSE d \in S : \A e \in S : d <= e
          BY <1>2 DEF First
    <2>3. First(S) \in S /\ \A e \in S : First(S) <= e
          BY <2>1, <2>2
    <2> QED  BY <1>1, <1>2, <2>3 DEF End
  <1> QED  BY <1>2 DEF First

-----------------------------------------------------------------------------
\* A future is settled normally or exceptionally only when its task is over, as the task ended.
TaskInv(d) ==
  /\ future[d] = "none" <=> task[d] = "none"
  /\ future[d] \in {"normal", "exceptional"} => task[d] = "over"
  /\ task[d] = "succeeded" \/ future[d] = "normal" => d \in succeeded

\* The call has an outcome once it stopped waiting: all futures settled by their tasks, or an interrupt
\* and futures that are, or are about to be, cancelled.
CallInv ==
  /\ caller \in {"idle", "submit", "wait"} => outcome = "none"
  /\ caller = "cancel" => outcome \in {"returned", "failed", "interrupted"}
  /\ caller # "cancel" => cancelling = {}
  /\ outcome # "interrupted" => \A d \in Descriptors : future[d] # "cancelled"
  /\ outcome \in {"returned", "failed"} =>
       \A d \in Descriptors : future[d] \in {"none", "normal", "exceptional"}
  /\ outcome = "interrupted" => \A d \in Descriptors : future[d] = "pending" => d \in cancelling

\* The iterator passes no descriptor that stays a member.
ScopeInv ==
  /\ throughout \subseteq members
  /\ caller = "submit" =>
       \A d \in throughout : future[d] # "none" \/ (cursor # End /\ cursor <= d)
  /\ caller = "wait" => \A d \in throughout : future[d] # "none"
  /\ ReturnedMeansAllSucceeded

Inv == TypeOK /\ (\A d \in Descriptors : TaskInv(d)) /\ CallInv /\ ScopeInv

LEMMA InitHolds == Init => Inv
  BY DEF Init, Inv, TypeOK, TaskInv, CallInv, ScopeInv, ReturnedMeansAllSucceeded, End

\* Neither the caller nor a task breaks the invariant, nor does whoever adds and removes descriptors.
LEMMA InvInductive == Inv /\ [Next]_vars => Inv'
  <1> SUFFICES ASSUME Inv, [Next]_vars PROVE Inv'
      OBVIOUS
  <1>0. TypeOK /\ CallInv /\ ScopeInv /\ \A d \in Descriptors : TaskInv(d)
        BY DEF Inv
  <1> USE DEF calling, working, around
  <1>1. ASSUME Begin PROVE Inv'
    <2>0. /\ members = {} => First(members) = End
          /\ members # {} => First(members) \in members /\ First(members) # End /\ \A e \in members : First(members) <= e
          BY <1>0, FirstIsLeast DEF TypeOK
    <2>1. TypeOK'
          BY <1>0, <1>1, <2>0 DEF Begin, TypeOK
    <2>2. ASSUME NEW e \in Descriptors PROVE TaskInv(e)'
          BY <1>0, <1>1, <2>0 DEF Begin, TypeOK, TaskInv
    <2>3. CallInv'
          BY <1>0, <1>1, <2>0 DEF Begin, TypeOK, TaskInv, CallInv
    <2>4. ScopeInv'
          BY <1>0, <1>1, <2>0 DEF Begin, TypeOK, TaskInv, CallInv, ScopeInv, ReturnedMeansAllSucceeded
    <2> QED  BY <2>1, <2>2, <2>3, <2>4 DEF Inv
  <1>2. ASSUME SubmitTask PROVE Inv'
    <2> DEFINE Later == {d \in members : d > cursor}
    <2>a. Later \in SUBSET Descriptors /\ members \subseteq Descriptors /\ cursor \in Descriptors
          BY <1>0, <1>2 DEF SubmitTask, TypeOK
    <2>0. /\ Later = {} => First(Later) = End
          /\ Later # {} => First(Later) \in Later /\ First(Later) # End /\ \A e \in Later : First(Later) <= e
          BY <2>a, FirstIsLeast
    <2>1. TypeOK'
          BY <1>0, <1>2, <2>0, <2>a, BulkAssumption DEF SubmitTask, TypeOK
    <2>2. ASSUME NEW e \in Descriptors PROVE TaskInv(e)'
          BY <1>0, <1>2, <2>0, <2>a, BulkAssumption DEF SubmitTask, TypeOK, TaskInv
    <2>3. CallInv'
          BY <1>0, <1>2, <2>0, <2>a, BulkAssumption DEF SubmitTask, TypeOK, TaskInv, CallInv
    <2>4. ScopeInv'
          BY <1>0, <1>2, <2>0, <2>a, BulkAssumption DEF SubmitTask, TypeOK, TaskInv, CallInv, ScopeInv, ReturnedMeansAllSucceeded
    <2> QED  BY <2>1, <2>2, <2>3, <2>4 DEF Inv
  <1>3. ASSUME SubmitRejected PROVE Inv'
    <2>1. TypeOK'
          BY <1>0, <1>3 DEF SubmitRejected, TypeOK
    <2>2. ASSUME NEW e \in Descriptors PROVE TaskInv(e)'
          BY <1>0, <1>3 DEF SubmitRejected, TypeOK, TaskInv
    <2>3. CallInv'
          BY <1>0, <1>3 DEF SubmitRejected, TypeOK, TaskInv, CallInv
    <2>4. ScopeInv'
          BY <1>0, <1>3 DEF SubmitRejected, TypeOK, TaskInv, CallInv, ScopeInv, ReturnedMeansAllSucceeded
    <2> QED  BY <2>1, <2>2, <2>3, <2>4 DEF Inv
  <1>4. ASSUME EndSubmission PROVE Inv'
    <2>1. TypeOK'
          BY <1>0, <1>4 DEF EndSubmission, TypeOK
    <2>2. ASSUME NEW e \in Descriptors PROVE TaskInv(e)'
          BY <1>0, <1>4 DEF EndSubmission, TypeOK, TaskInv
    <2>3. CallInv'
          BY <1>0, <1>4 DEF EndSubmission, TypeOK, TaskInv, CallInv
    <2>4. ScopeInv'
          BY <1>0, <1>4 DEF EndSubmission, TypeOK, TaskInv, CallInv, ScopeInv, ReturnedMeansAllSucceeded
    <2> QED  BY <2>1, <2>2, <2>3, <2>4 DEF Inv
  <1>5. ASSUME AwaitAll PROVE Inv'
    <2>1. TypeOK'
          BY <1>0, <1>5 DEF AwaitAll, Submitted, TypeOK
    <2>2. ASSUME NEW e \in Descriptors PROVE TaskInv(e)'
          BY <1>0, <1>5 DEF AwaitAll, Submitted, TypeOK, TaskInv
    <2>3. CallInv'
          BY <1>0, <1>5 DEF AwaitAll, Submitted, TypeOK, TaskInv, CallInv
    <2>4. ScopeInv'
          BY <1>0, <1>5 DEF AwaitAll, Submitted, TypeOK, TaskInv, CallInv, ScopeInv, ReturnedMeansAllSucceeded
    <2> QED  BY <2>1, <2>2, <2>3, <2>4 DEF Inv
  <1>6. ASSUME AwaitInterrupted PROVE Inv'
    <2>1. TypeOK'
          BY <1>0, <1>6 DEF AwaitInterrupted, Submitted, TypeOK
    <2>2. ASSUME NEW e \in Descriptors PROVE TaskInv(e)'
          BY <1>0, <1>6 DEF AwaitInterrupted, Submitted, TypeOK, TaskInv
    <2>3. CallInv'
          BY <1>0, <1>6 DEF AwaitInterrupted, Submitted, TypeOK, TaskInv, CallInv
    <2>4. ScopeInv'
          BY <1>0, <1>6 DEF AwaitInterrupted, Submitted, TypeOK, TaskInv, CallInv, ScopeInv, ReturnedMeansAllSucceeded
    <2> QED  BY <2>1, <2>2, <2>3, <2>4 DEF Inv
  <1>7. ASSUME CancelFuture PROVE Inv'
    <2>0. First(cancelling) \in cancelling
          BY <1>0, <1>7, FirstIsLeast DEF CancelFuture, TypeOK
    <2>1. TypeOK'
          BY <1>0, <1>7, <2>0 DEF CancelFuture, Settle, TypeOK
    <2>2. ASSUME NEW e \in Descriptors PROVE TaskInv(e)'
          BY <1>0, <1>7, <2>0 DEF CancelFuture, Settle, TypeOK, TaskInv
    <2>3. CallInv'
          BY <1>0, <1>7, <2>0 DEF CancelFuture, Settle, TypeOK, TaskInv, CallInv
    <2>4. ScopeInv'
          BY <1>0, <1>7, <2>0 DEF CancelFuture, Settle, TypeOK, TaskInv, CallInv, ScopeInv, ReturnedMeansAllSucceeded
    <2> QED  BY <2>1, <2>2, <2>3, <2>4 DEF Inv
  <1>8. ASSUME Return PROVE Inv'
    <2>1. TypeOK'
          BY <1>0, <1>8 DEF Return, TypeOK
    <2>2. ASSUME NEW e \in Descriptors PROVE TaskInv(e)'
          BY <1>0, <1>8 DEF Return, TypeOK, TaskInv
    <2>3. CallInv'
          BY <1>0, <1>8 DEF Return, TypeOK, TaskInv, CallInv
    <2>4. ScopeInv'
          BY <1>0, <1>8 DEF Return, TypeOK, TaskInv, CallInv, ScopeInv, ReturnedMeansAllSucceeded
    <2> QED  BY <2>1, <2>2, <2>3, <2>4 DEF Inv
  <1>9. ASSUME Interrupt PROVE Inv'
    <2>1. TypeOK'
          BY <1>0, <1>9 DEF Interrupt, TypeOK
    <2>2. ASSUME NEW e \in Descriptors PROVE TaskInv(e)'
          BY <1>0, <1>9 DEF Interrupt, TypeOK, TaskInv
    <2>3. CallInv'
          BY <1>0, <1>9 DEF Interrupt, TypeOK, TaskInv, CallInv
    <2>4. ScopeInv'
          BY <1>0, <1>9 DEF Interrupt, TypeOK, TaskInv, CallInv, ScopeInv, ReturnedMeansAllSucceeded
    <2> QED  BY <2>1, <2>2, <2>3, <2>4 DEF Inv
  <1>10. ASSUME ShutdownPool PROVE Inv'
    <2>1. TypeOK'
          BY <1>0, <1>10 DEF ShutdownPool, TypeOK
    <2>2. ASSUME NEW e \in Descriptors PROVE TaskInv(e)'
          BY <1>0, <1>10 DEF ShutdownPool, TypeOK, TaskInv
    <2>3. CallInv'
          BY <1>0, <1>10 DEF ShutdownPool, TypeOK, TaskInv, CallInv
    <2>4. ScopeInv'
          BY <1>0, <1>10 DEF ShutdownPool, TypeOK, TaskInv, CallInv, ScopeInv, ReturnedMeansAllSucceeded
    <2> QED  BY <2>1, <2>2, <2>3, <2>4 DEF Inv
  <1>11. ASSUME NEW d \in Descriptors, StartTask(d) PROVE Inv'
    <2>1. TypeOK'
          BY <1>0, <1>11 DEF StartTask, TypeOK
    <2>2. ASSUME NEW e \in Descriptors PROVE TaskInv(e)'
          BY <1>0, <1>11 DEF StartTask, TypeOK, TaskInv
    <2>3. CallInv'
          BY <1>0, <1>11 DEF StartTask, TypeOK, TaskInv, CallInv
    <2>4. ScopeInv'
          BY <1>0, <1>11 DEF StartTask, TypeOK, TaskInv, CallInv, ScopeInv, ReturnedMeansAllSucceeded
    <2> QED  BY <2>1, <2>2, <2>3, <2>4 DEF Inv
  <1>12. ASSUME NEW d \in Descriptors, Succeed(d) PROVE Inv'
    <2>1. TypeOK'
          BY <1>0, <1>12 DEF Succeed, TypeOK
    <2>2. ASSUME NEW e \in Descriptors PROVE TaskInv(e)'
          BY <1>0, <1>12 DEF Succeed, TypeOK, TaskInv
    <2>3. CallInv'
          BY <1>0, <1>12 DEF Succeed, TypeOK, TaskInv, CallInv
    <2>4. ScopeInv'
          BY <1>0, <1>12 DEF Succeed, TypeOK, TaskInv, CallInv, ScopeInv, ReturnedMeansAllSucceeded
    <2> QED  BY <2>1, <2>2, <2>3, <2>4 DEF Inv
  <1>13. ASSUME NEW d \in Descriptors, Fail(d) PROVE Inv'
    <2>1. TypeOK'
          BY <1>0, <1>13 DEF Fail, TypeOK
    <2>2. ASSUME NEW e \in Descriptors PROVE TaskInv(e)'
          BY <1>0, <1>13 DEF Fail, TypeOK, TaskInv
    <2>3. CallInv'
          BY <1>0, <1>13 DEF Fail, TypeOK, TaskInv, CallInv
    <2>4. ScopeInv'
          BY <1>0, <1>13 DEF Fail, TypeOK, TaskInv, CallInv, ScopeInv, ReturnedMeansAllSucceeded
    <2> QED  BY <2>1, <2>2, <2>3, <2>4 DEF Inv
  <1>14. ASSUME NEW d \in Descriptors, Complete(d) PROVE Inv'
    <2>1. TypeOK'
          BY <1>0, <1>14 DEF Complete, Settle, TypeOK
    <2>2. ASSUME NEW e \in Descriptors PROVE TaskInv(e)'
          BY <1>0, <1>14 DEF Complete, Settle, TypeOK, TaskInv
    <2>3. CallInv'
          BY <1>0, <1>14 DEF Complete, Settle, TypeOK, TaskInv, CallInv
    <2>4. ScopeInv'
          BY <1>0, <1>14 DEF Complete, Settle, TypeOK, TaskInv, CallInv, ScopeInv, ReturnedMeansAllSucceeded
    <2> QED  BY <2>1, <2>2, <2>3, <2>4 DEF Inv
  <1>15. ASSUME NEW d \in Descriptors, ChangeMembers(d) PROVE Inv'
    <2>1. TypeOK'
          BY <1>0, <1>15 DEF ChangeMembers, TypeOK
    <2>2. ASSUME NEW e \in Descriptors PROVE TaskInv(e)'
          BY <1>0, <1>15 DEF ChangeMembers, TypeOK, TaskInv
    <2>3. CallInv'
          BY <1>0, <1>15 DEF ChangeMembers, TypeOK, TaskInv, CallInv
    <2>4. ScopeInv'
          BY <1>0, <1>15 DEF ChangeMembers, TypeOK, TaskInv, CallInv, ScopeInv, ReturnedMeansAllSucceeded
    <2> QED  BY <2>1, <2>2, <2>3, <2>4 DEF Inv
  <1>16. CASE UNCHANGED vars
        BY <1>0, <1>16 DEF vars, Inv, TypeOK, TaskInv, CallInv, ScopeInv, ReturnedMeansAllSucceeded
  <1> QED
      BY <1>1, <1>2, <1>3, <1>4, <1>5, <1>6, <1>7, <1>8, <1>9, <1>10, <1>11, <1>12, <1>13, <1>14, <1>15, <1>16 DEF Next, CallerStep, TaskStep

\* Every reachable state is of the types declared, for any number of descriptors.
THEOREM BulkTypeCorrect == SafeSpec => []TypeOK
  <1>1. Inv => TypeOK
        BY DEF Inv
  <1> QED  BY <1>1, InitHolds, InvInductive, PTL DEF SafeSpec

\* A deployAll or killAll that returns has deployed, or killed, every descriptor that was a member all
\* the while, whatever was added to and removed from the set it iterated over.
THEOREM ReturnedCallsSucceeded == SafeSpec => []ReturnedMeansAllSucceeded
  <1>1. Inv => ReturnedMeansAllSucceeded
        BY DEF Inv, ScopeInv
  <1> QED  BY <1>1, InitHolds, InvInductive, PTL DEF SafeSpec

\* A call that returns, or reports the failure of a task, leaves no task behind.
THEOREM CallsOutliveTheirTasks == SafeSpec => []NoTaskOutlivesTheCall
  <1>1. Inv => NoTaskOutlivesTheCall
        BY DEF Inv, TypeOK, TaskInv, CallInv, NoTaskOutlivesTheCall
  <1> QED  BY <1>1, InitHolds, InvInductive, PTL DEF SafeSpec

\* What an interrupted call had not started when it returned is never started.
THEOREM InterruptedCallsStartNothing == SafeSpec => NothingStartsAfterInterrupt
  <1>1. ASSUME Inv, [Next]_vars, outcome = "interrupted", caller = "over",
               NEW d \in Descriptors, task'[d] = "running", task[d] # "running"
        PROVE  FALSE
    <2>1. TypeOK /\ CallInv /\ \A e \in Descriptors : TaskInv(e)
          BY <1>1 DEF Inv
    <2>2. future[d] # "pending"
          BY <1>1, <2>1 DEF CallInv
    <2>3. CASE \E e \in Descriptors : TaskStep(e)
          BY <1>1, <2>1, <2>2, <2>3 DEF TypeOK, TaskStep, StartTask, Succeed, Fail, Complete
    <2>4. CASE task' = task
          BY <1>1, <2>4
    <2>5. ~ SubmitTask
          BY <1>1 DEF SubmitTask
    <2>6. CASE \/ Begin \/ SubmitRejected \/ EndSubmission \/ AwaitAll \/ AwaitInterrupted \/ CancelFuture
               \/ Return \/ Interrupt \/ ShutdownPool \/ UNCHANGED vars
               \/ \E e \in Descriptors : ChangeMembers(e)
          BY <2>4, <2>6 DEF Begin, SubmitRejected, EndSubmission, AwaitAll, AwaitInterrupted, CancelFuture,
                            Return, Interrupt, ShutdownPool, ChangeMembers, vars, working
    <2> QED  BY <1>1, <2>3, <2>5, <2>6 DEF Next, CallerStep
  <1>2. Inv /\ [Next]_vars =>
          [outcome = "interrupted" /\ caller = "over" =>
             \A d \in Descriptors : task'[d] = "running" => task[d] = "running"]_vars
        BY <1>1
  <1> QED  BY <1>2, InitHolds, InvInductive, PTL DEF SafeSpec, NothingStartsAfterInterrupt
=============================================================================
