---------------------- MODULE ConcurrentScanner_proofs ----------------------
(***************************************************************************)
(* Whatever a scan cycle leaves behind has been told to stop, and of two   *)
(* scans of one descriptor at least one, for any number of runs,           *)
(* descriptors and threads in the pool.                                    *)
(***************************************************************************)
EXTENDS ConcurrentScanner, WellFoundedInduction, TLAPS

\* The iterator of the network has a next element unless it is at its end.
LEMMA FirstIsMember ==
  ASSUME NEW S \in SUBSET Descriptors
  PROVE  First(S) \in S \cup {End}
<1> DEFINE R == {p \in Nat \X Nat : p[1] < p[2]}
<1>1. S \in SUBSET Nat
  BY ScannerAssumption
<1>2. IsWellFoundedOn(R, Nat)
  BY NatLessThanWellFounded, Zenon DEF OpToRel
<1>3. CASE S # {}
  <2> HIDE DEF R
  <2>1. PICK d \in S : \A e \in S : ~ (<<e, d>> \in R)
    BY <1>1, <1>2, <1>3, WFMin
  <2>2. ASSUME NEW e \in S PROVE d <= e
    <3>1. d \in Nat /\ e \in Nat /\ <<e, d>> \notin R
      BY <1>1, <2>1
    <3>2. ~ (e < d)
      BY <3>1 DEF R
    <3> QED BY <3>1, <3>2
  <2>3. First(S) = CHOOSE m \in S : \A e \in S : m <= e
    BY <1>3 DEF First
  <2> QED BY <2>2, <2>3
<1> QED BY <1>3 DEF First

-----------------------------------------------------------------------------
\* Every step of a run, of the pool and of its owner keeps the types.
LEMMA TypesInductive == TypeOK /\ [Next]_vars => TypeOK'
<1> SUFFICES ASSUME TypeOK, [Next]_vars PROVE TypeOK'
  OBVIOUS
<1> USE DEF TypeOK, runner, scheduling
<1>1. ASSUME NEW d \in Descriptors, ChangeMembers(d) PROVE TypeOK'
  BY <1>1 DEF ChangeMembers
<1>2. CASE SwapEnabled \/ ScheduleRejected \/ Clock
  BY <1>2 DEF SwapEnabled, ScheduleRejected, Clock
<1>3. CASE ShutdownNow
  BY <1>3 DEF ShutdownNow
<1>4. ASSUME NEW r \in Runs, ScheduleRun(r) \/ CancelRun(r) \/ BeginScan(r) PROVE TypeOK'
  BY <1>4 DEF ScheduleRun, CancelRun, BeginScan
<1>5. ASSUME NEW r \in Runs, Prepare(r) PROVE TypeOK'
  <2>1. cursor' \in Descriptors \cup {End}
    BY <1>5, FirstIsMember DEF Prepare
  <2> QED BY <1>5, <2>1 DEF Prepare
<1>6. ASSUME NEW r \in Runs, Release(r)
      PROVE  /\ scan_lock' = NoRun /\ cursor' = End /\ awaiting' = {}
             /\ run' \in [Runs -> {"none", "scheduled", "lock", "submit", "await", "cancel"}]
             /\ cancelled' \subseteq Runs /\ interrupted' \subseteq Runs
  BY <1>6 DEF Release
<1>7. ASSUME NEW r \in Runs, SubmitRejected(r) PROVE TypeOK'
  BY <1>6, <1>7 DEF SubmitRejected
<1>8. ASSUME NEW r \in Runs, EndSubmission(r) \/ EndAwait(r) PROVE TypeOK'
  BY <1>8 DEF EndSubmission, EndAwait
<1>9. ASSUME NEW r \in Runs, CancelLingering(r) PROVE TypeOK'
  <2>1. scan' \in [Scans -> {"free", "queued", "running", "dropped", "done"}]
        /\ stopped' \subseteq Scans
    BY <1>9 DEF CancelLingering
  <2> QED BY <1>6, <1>9, <2>1 DEF CancelLingering
<1>10. ASSUME NEW r \in Runs, NEW s \in Scans, Submit(r, s) PROVE TypeOK'
  <2>1. cursor' \in Descriptors \cup {End}
    BY <1>10, FirstIsMember DEF Submit
  <2> QED BY <1>10, <2>1 DEF Submit
<1>11. ASSUME NEW r \in Runs, NEW s \in Scans, AwaitDone(r, s) \/ AwaitBroken(r, s) PROVE TypeOK'
  BY <1>11 DEF AwaitDone, AwaitBroken
<1>12. ASSUME NEW s \in Scans, StartScan(s) \/ SkipScan(s) \/ EndScan(s) PROVE TypeOK'
  BY <1>12 DEF StartScan, SkipScan, EndScan
<1>13. CASE UNCHANGED vars
  BY <1>13 DEF vars
<1>14. QED
  BY <1>1, <1>2, <1>3, <1>4, <1>5, <1>7, <1>8, <1>9, <1>10, <1>11, <1>12, <1>13 DEF Next, RunStep

\* Every variable of a scanner keeps its type, whatever its cycles and its scans do.
THEOREM ScannerTypeCorrect == SafeSpec => []TypeOK
<1>1. Init => TypeOK
  BY DEF Init, TypeOK
<1>2. QED BY <1>1, TypesInductive, PTL DEF SafeSpec

-----------------------------------------------------------------------------
\* The scan lock is held by the run in a cycle, and only during a cycle are scans queued; a pool that
\* is shut down has told all that it runs to stop, for a cycle it rejects a scan of cancels nothing.
LockInv ==
  /\ \A r \in Runs : InCycle(r) <=> scan_lock = r
  /\ pool_down => \A s \in Scans : scan[s] # "queued" /\ (scan[s] = "running" => s \in stopped)
  /\ \A s \in Scans :
       /\ scan[s] = "queued" => s \in cycle /\ scan_lock # NoRun
       /\ scan[s] = "running" /\ (s \notin cycle \/ scan_lock = NoRun) => s \in stopped

\* A cycle submits a descriptor once: the iterator has passed those that are submitted.
OncePerCycle ==
  /\ cursor # End => \A s \in cycle : s[1] < cursor
  /\ \A s, o \in cycle : s[1] = o[1] => s = o

\* The inductive invariant.
CycleInv == LockInv /\ OncePerCycle

\* The scan lock is taken where a cycle begins and released where it ends.
LEMMA LockInductive == TypeOK /\ LockInv /\ [Next]_vars => LockInv'
<1> SUFFICES ASSUME TypeOK, LockInv, [Next]_vars PROVE LockInv'
  OBVIOUS
<1> USE ScannerAssumption DEF TypeOK, LockInv, InCycle, runner, scheduling
<1>1. ASSUME NEW d \in Descriptors, ChangeMembers(d) PROVE LockInv'
  BY <1>1 DEF ChangeMembers
<1>2. CASE SwapEnabled \/ ScheduleRejected \/ Clock
  BY <1>2 DEF SwapEnabled, ScheduleRejected, Clock
<1>3. CASE ShutdownNow
  BY <1>3 DEF ShutdownNow
<1>4. ASSUME NEW r \in Runs, ScheduleRun(r) \/ CancelRun(r) \/ BeginScan(r) PROVE LockInv'
  BY <1>4 DEF ScheduleRun, CancelRun, BeginScan
<1>5. ASSUME NEW r \in Runs, Prepare(r) PROVE LockInv'
  BY <1>5 DEF Prepare
<1>6. ASSUME NEW r \in Runs, SubmitRejected(r) PROVE LockInv'
  BY <1>6 DEF SubmitRejected, Release
<1>7. ASSUME NEW r \in Runs, EndSubmission(r) \/ EndAwait(r) PROVE LockInv'
  BY <1>7 DEF EndSubmission, EndAwait
<1>8. ASSUME NEW r \in Runs, CancelLingering(r) PROVE LockInv'
  BY <1>8 DEF CancelLingering, Release, Unfinished
<1>9. ASSUME NEW r \in Runs, NEW s \in Scans, Submit(r, s) PROVE LockInv'
  BY <1>9 DEF Submit, IsFree
<1>10. ASSUME NEW r \in Runs, NEW s \in Scans, AwaitDone(r, s) \/ AwaitBroken(r, s) PROVE LockInv'
  BY <1>10 DEF AwaitDone, AwaitBroken
<1>11. ASSUME NEW s \in Scans, StartScan(s) \/ SkipScan(s) \/ EndScan(s) PROVE LockInv'
  BY <1>11 DEF StartScan, SkipScan, EndScan
<1>12. CASE UNCHANGED vars
  BY <1>12 DEF vars
<1>13. QED
  BY <1>1, <1>2, <1>3, <1>4, <1>5, <1>6, <1>7, <1>8, <1>9, <1>10, <1>11, <1>12 DEF Next, RunStep

\* Of two steps of a run only Submit adds to the cycle, and only Prepare starts another.
LEMMA OnceInductive == TypeOK /\ OncePerCycle /\ [Next]_vars => OncePerCycle'
<1> SUFFICES ASSUME TypeOK, OncePerCycle, [Next]_vars PROVE OncePerCycle'
  OBVIOUS
<1>1. ASSUME NEW r \in Runs, Prepare(r) PROVE OncePerCycle'
  BY <1>1 DEF Prepare, OncePerCycle
<1>2. ASSUME NEW r \in Runs, NEW s \in Scans, Submit(r, s) PROVE OncePerCycle'
  <2> DEFINE rest == {d \in members : d > cursor}
  <2>1. /\ s[1] = cursor /\ s[1] \in Descriptors /\ cycle' = cycle \cup {s} /\ cursor' = First(rest)
    BY <1>2 DEF Submit, Scans
  <2>2. cursor # End /\ cursor \in Nat /\ \A o \in cycle : o[1] \in Nat
    BY <2>1, ScannerAssumption DEF End, TypeOK, Scans
  <2>3. \A o \in cycle : o[1] < cursor
    BY <2>2 DEF OncePerCycle
  <2>4. cursor' # End => cursor' \in Nat /\ cursor < cursor'
    <3>1. rest \in SUBSET Descriptors  BY DEF TypeOK
    <3>2. First(rest) \in rest \cup {End}  BY <3>1, FirstIsMember
    <3>3. QED BY <2>1, <2>2, <3>1, <3>2, ScannerAssumption
  <2>5. cursor' # End => \A o \in cycle' : o[1] < cursor'
    BY <2>1, <2>2, <2>3, <2>4
  <2>6. \A o, q \in cycle' : o[1] = q[1] => o = q
    BY <2>1, <2>2, <2>3 DEF OncePerCycle
  <2>7. QED BY <2>5, <2>6 DEF OncePerCycle
<1>3. ASSUME cycle' = cycle, cursor' \in {cursor, End} PROVE OncePerCycle'
  BY <1>3 DEF OncePerCycle
<1>4. CASE UNCHANGED vars
  BY <1>3, <1>4 DEF vars
<1>5. CASE \/ SwapEnabled \/ ScheduleRejected \/ Clock \/ ShutdownNow
           \/ \E d \in Descriptors : ChangeMembers(d)
           \/ \E r \in Runs : ScheduleRun(r) \/ CancelRun(r) \/ BeginScan(r)
           \/ \E s \in Scans : StartScan(s) \/ SkipScan(s) \/ EndScan(s)
  BY <1>3, <1>5 DEF SwapEnabled, ScheduleRejected, Clock, ShutdownNow, ChangeMembers, ScheduleRun,
     CancelRun, BeginScan, StartScan, SkipScan, EndScan, runner
<1>6. ASSUME NEW r \in Runs,
             \/ SubmitRejected(r) \/ EndSubmission(r) \/ EndAwait(r) \/ CancelLingering(r)
             \/ \E s \in Scans : AwaitDone(r, s) \/ AwaitBroken(r, s)
      PROVE  OncePerCycle'
  BY <1>3, <1>6 DEF SubmitRejected, EndSubmission, EndAwait, CancelLingering, AwaitDone, AwaitBroken,
     Release, runner
<1>7. QED
  BY <1>1, <1>2, <1>4, <1>5, <1>6 DEF Next, RunStep

\* A cycle that is over, however it ended, has left no scan that may still start, and none that runs
\* without having been interrupted; and as a cycle submits a descriptor once, of two scans of one
\* descriptor the one that is left from an earlier cycle has been.
THEOREM NothingLeftUncancelled == SafeSpec => []CyclesLeaveNothingUncancelled
<1>1. Init => CycleInv
  BY ScannerAssumption DEF Init, CycleInv, LockInv, OncePerCycle, InCycle
<1>2. TypeOK /\ CycleInv /\ [Next]_vars => CycleInv'
  BY LockInductive, OnceInductive DEF CycleInv
<1>3. CycleInv => CyclesLeaveNothingUncancelled
  <2> SUFFICES ASSUME CycleInv, NEW s \in Unfinished, NEW o \in Unfinished, s[1] = o[1], s # o
               PROVE  s \in stopped \/ o \in stopped
    BY DEF CycleInv, LockInv, CyclesLeaveNothingUncancelled
  <2>1. s \notin cycle \/ o \notin cycle
    BY DEF CycleInv, OncePerCycle
  <2>2. QED BY <2>1 DEF CycleInv, LockInv, Unfinished
<1>4. QED BY <1>1, <1>2, <1>3, ScannerTypeCorrect, PTL DEF SafeSpec

\* The scan lock excludes cycles of one another, also those of a run that was cancelled and of the
\* run that replaced it; nobody keeps it who has left its cycle.
CyclesExclude ==
  /\ \A q, r \in Runs : InCycle(q) /\ InCycle(r) => q = r
  /\ scan_lock # NoRun => InCycle(scan_lock)

\* The scan lock (ConcurrentScanner.java) keeps the cycles of one scanner apart, and is not left held
\* by a run that is out of its cycle.
THEOREM OneCycleAtATime == SafeSpec => []CyclesExclude
<1>1. Init => TypeOK /\ LockInv
  BY ScannerAssumption DEF Init, TypeOK, LockInv, InCycle
<1>2. TypeOK /\ LockInv => CyclesExclude
  BY DEF LockInv, CyclesExclude, TypeOK
<1>3. QED BY <1>1, <1>2, LockInductive, ScannerTypeCorrect, PTL DEF SafeSpec
=============================================================================
