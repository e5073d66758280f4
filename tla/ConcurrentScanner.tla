------------------------- MODULE ConcurrentScanner --------------------------
(***************************************************************************)
(* The scan cycles of one ConcurrentScanner.  A periodic task (a run) takes *)
(* the scan lock, submits one scan per descriptor to the network's pool,   *)
(* waits for them in turn until the cycle times out, is interrupted or the *)
(* scanner is disabled, cancels what is left, and releases the lock.       *)
(* Cancelling interrupts a scan; it does not wait for it, so a scan that   *)
(* does not react lingers into the following cycles.                       *)
(*                                                                         *)
(* Disabling the scanner cancels its run; enabling it schedules a new one  *)
(* (ScannerScheduling has the details).                                    *)
(***************************************************************************)
EXTENDS Naturals, FiniteSets

CONSTANTS
  Descriptors,   \* numbered in the order of their ids, from 1
  Slots,         \* bound, numbers: scans of one descriptor that may be unfinished at a time
  Runs,          \* identities of periodic tasks, reused once finished
  PoolSize,      \* threads of concurrent_scanner_executor
  NoRun          \* nobody holds the scan lock; nothing is scheduled

ASSUME ScannerAssumption ==
  /\ Descriptors \subseteq Nat \ {0} /\ IsFiniteSet(Descriptors) /\ Slots \subseteq Nat
  /\ PoolSize \in Nat /\ NoRun \notin Runs

\* The scans of a descriptor are told apart by a slot, reused once the scan is over.
Scans == Descriptors \X Slots

End == 0         \* the iterator has no next element

VARIABLES
  members,       \* the descriptors in the network
  enabled,       \* Scanner.enabled
  toggling,      \* a setEnabled call swapped the flag and has not told the network yet
  current,       \* the run in the network's map, or NoRun
  run,           \* [Runs -> ...]: "none", "scheduled", or the place in ConcurrentScanner.scan
  cancelled,     \* runs that were cancelled
  interrupted,   \* runs whose thread has a pending interrupt
  scan_lock,     \* the run that holds it
  cursor,        \* the next descriptor of the network's iterator, or End
  cycle,         \* scheduled_scans: the scans submitted in this cycle
  awaiting,      \* the part of the cycle not yet waited for
  expired,       \* the scan timeout has elapsed since cycle_start_time
  scan,          \* [Scans -> {"free", "queued", "running", "dropped", "done"}]
  stopped,       \* executing scans that were interrupted
  pool_down      \* concurrent_scanner_executor was shut down

vars == <<members, enabled, toggling, current, run, cancelled, interrupted, scan_lock,
          cursor, cycle, awaiting, expired, scan, stopped, pool_down>>
runner == <<scan_lock, cursor, cycle, awaiting>>
scheduling == <<enabled, toggling, current, cancelled>>

Init ==
  /\ members \in SUBSET Descriptors
  /\ enabled = FALSE /\ toggling = FALSE
  /\ current = NoRun
  /\ run = [r \in Runs |-> "none"]
  /\ cancelled = {} /\ interrupted = {}
  /\ scan_lock = NoRun
  /\ cursor = End /\ cycle = {} /\ awaiting = {}
  /\ expired = FALSE
  /\ scan = [s \in Scans |-> "free"]
  /\ stopped = {}
  /\ pool_down = FALSE

First(S) == IF S = {} THEN End ELSE CHOOSE d \in S : \A e \in S : d <= e
Unfinished == {s \in Scans : scan[s] \in {"queued", "running"}}
InCycle(r) == run[r] \in {"submit", "await", "cancel"}

-----------------------------------------------------------------------------
(* The network around the scanner *)

\* add and remove work on the concurrent set while a cycle iterates over it.
ChangeMembers(d) ==
  /\ members' = IF d \in members THEN members \ {d} ELSE members \cup {d}
  /\ UNCHANGED <<enabled, toggling, current, run, cancelled, interrupted, scan_lock,
                 cursor, cycle, awaiting, expired, scan, stopped, pool_down>>

\* setEnabled, first half.
SwapEnabled ==
  /\ ~toggling
  /\ enabled' = ~enabled
  /\ toggling' = TRUE
  /\ UNCHANGED <<members, current, run, cancelled, interrupted, scan_lock,
                 cursor, cycle, awaiting, expired, scan, stopped, pool_down>>

\* setEnabled(true), second half: the network schedules a new run.
ScheduleRun(r) ==
  /\ toggling /\ enabled /\ ~pool_down
  /\ run[r] = "none"
  /\ run' = [run EXCEPT ![r] = "scheduled"]
  /\ current' = r
  /\ toggling' = FALSE
  /\ UNCHANGED <<members, enabled, cancelled, interrupted, scan_lock,
                 cursor, cycle, awaiting, expired, scan, stopped, pool_down>>

\* The scheduler was shut down: the RejectedExecutionException ends setEnabled(true), and the next
\* setEnabled(false) finds no run to cancel.
ScheduleRejected ==
  /\ toggling
  /\ \/ enabled /\ pool_down
     \/ ~enabled /\ current = NoRun
  /\ toggling' = FALSE
  /\ UNCHANGED <<members, enabled, current, run, cancelled, interrupted, scan_lock,
                 cursor, cycle, awaiting, expired, scan, stopped, pool_down>>

\* setEnabled(false), second half: future.cancel(true), which interrupts the run if it executes.
CancelRun(r) ==
  /\ toggling /\ ~enabled
  /\ toggling' = FALSE
  /\ current = r /\ current' = NoRun
  /\ IF run[r] \in {"none", "scheduled"}
       THEN /\ run' = [run EXCEPT ![r] = "none"]
            /\ UNCHANGED <<cancelled, interrupted>>
       ELSE /\ cancelled' = cancelled \cup {r}
            /\ interrupted' = interrupted \cup {r}
            /\ UNCHANGED run
  /\ UNCHANGED <<members, enabled, scan_lock, cursor, cycle, awaiting, expired,
                 scan, stopped, pool_down>>

\* shutdown stops the scheduler and this pool, whoever has enabled the scanner again since its sweep:
\* executing threads are interrupted, queued scans dropped (their futures never complete), the runs
\* are not repeated.
ShutdownNow ==
  /\ ~pool_down
  /\ pool_down' = TRUE
  /\ scan' = [s \in Scans |-> IF scan[s] = "queued" THEN "dropped" ELSE scan[s]]
  /\ stopped' = stopped \cup {s \in Scans : scan[s] = "running"}
  /\ interrupted' = {r \in Runs : run[r] \notin {"none", "scheduled"}}
  /\ UNCHANGED <<members, enabled, toggling, current, run, cancelled, scan_lock,
                 cursor, cycle, awaiting, expired>>

-----------------------------------------------------------------------------
(* ConcurrentScanner.scan(network) *)

\* The delay has passed: the run calls scan, which waits for the lock uninterruptibly.
BeginScan(r) ==
  /\ run[r] = "scheduled" /\ ~pool_down
  /\ run' = [run EXCEPT ![r] = "lock"]
  /\ UNCHANGED <<members, scheduling, interrupted, runner, expired, scan, stopped, pool_down>>

\* scan_lock.lock(), beforeScan, prepareForScan, and the iterator of the network.
Prepare(r) ==
  /\ run[r] = "lock" /\ scan_lock = NoRun
  /\ scan_lock' = r
  /\ run' = [run EXCEPT ![r] = "submit"]
  /\ cycle' = {} /\ awaiting' = {}
  /\ expired' = FALSE
  /\ cursor' = First(members)
  /\ scan' = [s \in Scans |-> IF scan[s] \in {"done", "dropped"} THEN "free" ELSE scan[s]]
  /\ UNCHANGED <<members, scheduling, interrupted, stopped, pool_down>>

\* The lowest slot that is free.
IsFree(s) == scan[s] = "free" /\ \A o \in Scans : o[1] = s[1] /\ scan[o] = "free" => s[2] <= o[2]

SubmitPastTheEnd(r, s) ==                       \* mutant: the cursor counts on
  /\ run[r] = "submit" /\ ~pool_down
  /\ s[1] = cursor /\ IsFree(s)
  /\ scan' = [scan EXCEPT ![s] = "queued"]
  /\ cycle' = cycle \cup {s}
  /\ cursor' = cursor + 1
  /\ UNCHANGED <<members, scheduling, run, interrupted, scan_lock, awaiting, expired, stopped,
                 pool_down>>

\* scheduleScan(network, descriptor); the weakly consistent iterator has its next element in hand.
Submit(r, s) ==
  /\ run[r] = "submit" /\ ~pool_down
  /\ s[1] = cursor /\ IsFree(s)
  /\ scan' = [scan EXCEPT ![s] = "queued"]
  /\ cycle' = cycle \cup {s}
  /\ cursor' = First({d \in members : d > cursor})
  /\ UNCHANGED <<members, scheduling, run, interrupted, scan_lock, awaiting, expired, stopped,
                 pool_down>>

ReleaseUnlessCancelled(r) ==                    \* mutant: a cancelled run keeps the scan lock
  /\ scan_lock' = IF r \in cancelled THEN r ELSE NoRun
  /\ cursor' = End /\ awaiting' = {}
  /\ run' = [run EXCEPT ![r] = IF r \in cancelled \/ pool_down THEN "none" ELSE "scheduled"]
  /\ cancelled' = cancelled \ {r}
  /\ interrupted' = interrupted \ {r}

\* The finally block: the run is repeated after its delay unless it was cancelled.
Release(r) ==
  /\ scan_lock' = NoRun
  /\ cursor' = End /\ awaiting' = {}
  /\ run' = [run EXCEPT ![r] = IF r \in cancelled \/ pool_down THEN "none" ELSE "scheduled"]
  /\ cancelled' = cancelled \ {r}
  /\ interrupted' = interrupted \ {r}

\* RejectedExecutionException: the catch block logs it, nothing is awaited or cancelled.
SubmitRejected(r) ==
  /\ run[r] = "submit" /\ cursor # End /\ pool_down
  /\ Release(r)
  /\ UNCHANGED <<members, enabled, toggling, current, cycle, expired, scan, stopped, pool_down>>

EndSubmission(r) ==
  /\ run[r] = "submit" /\ cursor = End
  /\ run' = [run EXCEPT ![r] = "await"]
  /\ awaiting' = cycle
  /\ UNCHANGED <<members, scheduling, interrupted, scan_lock, cursor, cycle, expired,
                 scan, stopped, pool_down>>

\* awaitScanCompletionUntilTimeoutIsElapsed looks at the scans in the order of submission.
IsNext(s) == s \in awaiting /\ \A o \in awaiting : s[1] <= o[1]

AwaitDone(r, s) ==
  /\ run[r] = "await" /\ IsNext(s)
  /\ scan[s] = "done"
  /\ awaiting' = awaiting \ {s}
  /\ UNCHANGED <<members, scheduling, run, interrupted, scan_lock, cursor, cycle, expired,
                 scan, stopped, pool_down>>

AwaitUntimed(r, s) ==                           \* mutant: get without a timeout
  /\ run[r] = "await" /\ IsNext(s)
  /\ scan[s] # "done"
  /\ r \in interrupted
  /\ awaiting' = {}
  /\ interrupted' = interrupted \ {r}
  /\ UNCHANGED <<members, scheduling, run, scan_lock, cursor, cycle, expired,
                 scan, stopped, pool_down>>

\* get throws an InterruptedException or, with no time remaining (none if disabled), a
\* TimeoutException; either ends the wait.
AwaitBroken(r, s) ==
  /\ run[r] = "await" /\ IsNext(s)
  /\ scan[s] # "done"
  /\ r \in interrupted \/ expired \/ ~enabled
  /\ awaiting' = {}
  /\ interrupted' = interrupted \ {r}
  /\ UNCHANGED <<members, scheduling, run, scan_lock, cursor, cycle, expired,
                 scan, stopped, pool_down>>

EndAwait(r) ==
  /\ run[r] = "await" /\ awaiting = {}
  /\ run' = [run EXCEPT ![r] = "cancel"]
  /\ UNCHANGED <<members, scheduling, interrupted, runner, expired, scan, stopped, pool_down>>

CancelNothing(r) ==                             \* mutant: lingering scans are left alone
  /\ run[r] = "cancel"
  /\ Release(r)
  /\ UNCHANGED <<members, enabled, toggling, current, cycle, expired, scan, stopped, pool_down>>

\* cancelLingeringScans, afterScan, and the unlock: a queued scan never starts, a running one is
\* interrupted and goes on as it likes.
CancelLingering(r) ==
  /\ run[r] = "cancel"
  /\ LET lingering == cycle \cap Unfinished
     IN  /\ scan' = [s \in Scans |->
                       IF s \in lingering /\ scan[s] = "queued" THEN "done" ELSE scan[s]]
         /\ stopped' = stopped \cup {s \in lingering : scan[s] = "running"}
  /\ Release(r)
  /\ UNCHANGED <<members, enabled, toggling, current, cycle, expired, pool_down>>

Clock ==
  /\ scan_lock # NoRun /\ ~expired
  /\ expired' = TRUE
  /\ UNCHANGED <<members, scheduling, run, interrupted, runner, scan, stopped, pool_down>>

-----------------------------------------------------------------------------
(* The pool and the Runnable of scheduleScan *)

HasThread == Cardinality({s \in Scans : scan[s] = "running"}) < PoolSize

\* if (isEnabled()) { scan(network, descriptor)
StartScan(s) ==
  /\ scan[s] = "queued" /\ HasThread /\ ~pool_down
  /\ enabled
  /\ scan' = [scan EXCEPT ![s] = "running"]
  /\ UNCHANGED <<members, scheduling, run, interrupted, runner, expired, stopped, pool_down>>

SkipScan(s) ==
  /\ scan[s] = "queued" /\ HasThread /\ ~pool_down
  /\ ~enabled
  /\ scan' = [scan EXCEPT ![s] = "done"]
  /\ UNCHANGED <<members, scheduling, run, interrupted, runner, expired, stopped, pool_down>>

\* The scan returns or throws; the Runnable swallows any Throwable.
EndScan(s) ==
  /\ scan[s] = "running"
  /\ scan' = [scan EXCEPT ![s] = IF s \in cycle THEN "done" ELSE "free"]
  /\ stopped' = stopped \ {s}
  /\ UNCHANGED <<members, scheduling, run, interrupted, runner, expired, pool_down>>

-----------------------------------------------------------------------------
RunStep(r) ==
  \/ Prepare(r) \/ SubmitRejected(r) \/ EndSubmission(r) \/ EndAwait(r) \/ CancelLingering(r)
  \/ \E s \in Scans : Submit(r, s) \/ AwaitDone(r, s) \/ AwaitBroken(r, s)

Next ==
  \/ \E d \in Descriptors : ChangeMembers(d)
  \/ SwapEnabled \/ ScheduleRejected \/ ShutdownNow \/ Clock
  \/ \E r \in Runs : ScheduleRun(r) \/ CancelRun(r) \/ BeginScan(r) \/ RunStep(r)
  \/ \E s \in Scans : StartScan(s) \/ SkipScan(s) \/ EndScan(s)

\* The thread of a run keeps running and time passes.  Nothing makes a scan end: it may hang.
Fairness == WF_vars(Clock) /\ \A r \in Runs : WF_vars(RunStep(r))

SafeSpec == Init /\ [][Next]_vars
Spec == SafeSpec /\ Fairness

-----------------------------------------------------------------------------
TypeOK ==
  /\ members \subseteq Descriptors
  /\ enabled \in BOOLEAN /\ toggling \in BOOLEAN
  /\ current \in Runs \cup {NoRun} /\ scan_lock \in Runs \cup {NoRun}
  /\ run \in [Runs -> {"none", "scheduled", "lock", "submit", "await", "cancel"}]
  /\ cancelled \subseteq Runs /\ interrupted \subseteq Runs
  /\ cursor \in Descriptors \cup {End}
  /\ cycle \subseteq Scans /\ awaiting \subseteq Scans
  /\ expired \in BOOLEAN /\ pool_down \in BOOLEAN
  /\ scan \in [Scans -> {"free", "queued", "running", "dropped", "done"}]
  /\ stopped \subseteq Scans

\* cancelLingeringScans (ConcurrentScanner.java:160): once a cycle is over, whatever it left behind
\* has been told to stop and nothing of it is still to start; two scans of one descriptor overlap
\* only if one of them ignores its interrupt.
CyclesLeaveNothingUncancelled ==
  /\ \A s \in Scans :
       /\ scan[s] = "queued" => s \in cycle /\ scan_lock # NoRun
       /\ scan[s] = "running" /\ (s \notin cycle \/ scan_lock = NoRun) => s \in stopped
  /\ \A s, o \in Unfinished : s[1] = o[1] /\ s # o => s \in stopped \/ o \in stopped

\* awaitScanCompletionUntilTimeoutIsElapsed (ConcurrentScanner.java:132): a cycle ends even if its
\* scans hang.
CyclesEnd == \A r \in Runs : InCycle(r) ~> run[r] \in {"none", "scheduled"}

\* A run of a scanner that is disabled for good comes to an end, also one waiting for the scan
\* lock, so that the scheduler gets its thread back (ApplicationNetwork.java:607).
DisabledRunsEnd ==
  \A r \in Runs : []<>(enabled \/ toggling \/ run[r] \in {"none", "scheduled"})
=============================================================================
