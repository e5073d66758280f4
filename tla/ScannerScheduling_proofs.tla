---------------------- MODULE ScannerScheduling_proofs ----------------------
(***************************************************************************)
(* No periodic task of a scanner escapes the map of scheduled scanners,    *)
(* for any number of threads, scanners and tasks.                          *)
(***************************************************************************)
EXTENDS ScannerScheduling, FiniteSetTheorems, TLAPS

\* The locals of a call stay records of the type whatever one of them is set to.
LEMMA CallUpdates ==
  /\ NoCall \in Calls
  /\ \A b \in BOOLEAN : [NoCall EXCEPT !.value = b] \in Calls
  /\ \A s \in Scanners : [NoCall EXCEPT !.scanner = s] \in Calls
  /\ \A s \in Scanners, b \in BOOLEAN : [NoCall EXCEPT !.scanner = s, !.value = b] \in Calls
  /\ \A s \in Scanners, x \in Tasks \cup {Null} :
       [NoCall EXCEPT !.scanner = s, !.task = x] \in Calls
  /\ \A c \in Calls, n \in Nat : [c EXCEPT !.pending = n] \in Calls
  /\ \A c \in Calls : [c EXCEPT !.task = Null] \in Calls
  /\ \A c \in Calls : c.value \in BOOLEAN /\ c.scanner \in Scanners \cup {Null} /\ c.pending \in Nat
BY DEF Calls, NoCall

Places == {"idle", "announce", "notify", "add", "cancel", "unregister",
           "sweep", "cancelAll", "terminate", "closed"}

\* A step of a thread keeps the types of its place and its locals.
LEMMA StepTypes ==
  ASSUME TypeOK, NEW t \in Threads, NEW from, NEW to \in Places, NEW c \in Calls, Step(t, from, to, c)
  PROVE  pc' \in [Threads -> Places] /\ call' \in [Threads -> Calls]
BY DEF TypeOK, Step, Places

\* So does returning from setEnabled and from one call of the listener.
LEMMA ReturnTypes ==
  ASSUME TypeOK, NEW t \in Threads,
         SetEnabledReturns(t, "announce") \/ SetEnabledReturns(t, "notify") \/ NotifyReturns(t)
  PROVE  pc' \in [Threads -> Places] /\ call' \in [Threads -> Calls]
<1> DEFINE c0 == [NoCall EXCEPT !.value = call[t].value]
           c1 == [call[t] EXCEPT !.pending = @ - 1]
<1>1. call[t] \in Calls
  BY DEF TypeOK
<1>2. c0 \in Calls /\ NoCall \in Calls
  BY <1>1, CallUpdates
<1>3. ASSUME NEW from, SetEnabledReturns(t, from)
      PROVE  pc' \in [Threads -> Places] /\ call' \in [Threads -> Calls]
  BY <1>2, <1>3, StepTypes DEF SetEnabledReturns, Places
<1>4. ASSUME NotifyReturns(t), call[t].pending # 1
      PROVE  pc' \in [Threads -> Places] /\ call' \in [Threads -> Calls]
  <2>1. call[t].pending - 1 \in Nat
    <3>1. call[t].pending \in Nat
      BY <1>1, CallUpdates
    <3>2. call[t].pending > 0 /\ call[t].pending # 1
      BY <1>4 DEF NotifyReturns
    <3> QED BY <3>1, <3>2
  <2>2. c1 \in Calls
    BY <2>1, <1>1, CallUpdates
  <2>3. Step(t, "notify", "notify", c1)
    BY <1>4 DEF NotifyReturns
  <2> QED BY <2>2, <2>3, StepTypes DEF Places
<1>5. QED
  BY <1>3, <1>4 DEF NotifyReturns

\* Every variable of the schedule keeps its type, whoever calls what.
THEOREM SchedulingTypeCorrect == SafeSpec => []TypeOK
<1>1. Init => TypeOK
  <2> SUFFICES ASSUME Init PROVE TypeOK
    OBVIOUS
  <2>1. call \in [Threads -> Calls]
    BY CallUpdates DEF Init
  <2>2. enabled \in [Scanners -> BOOLEAN] /\ down \in BOOLEAN
    BY DEF Init
  <2>3. QED
    BY <2>1, <2>2 DEF Init, TypeOK
<1>2. TypeOK /\ [Next]_vars => TypeOK'
  <2> SUFFICES ASSUME TypeOK, [Next]_vars PROVE TypeOK'
    OBVIOUS
  <2> DEFINE Frame == pc' \in [Threads -> Places] /\ call' \in [Threads -> Calls]
  <2> USE DEF TypeOK, Places
  <2>1. ASSUME NEW t \in Threads, Announce(t) PROVE TypeOK'
    <3>1. Frame
      <4>1. CASE registered[call[t].scanner] = 0
        BY <2>1, <4>1, ReturnTypes DEF Announce
      <4>2. CASE registered[call[t].scanner] # 0
        <5> DEFINE c == [call[t] EXCEPT !.pending = registered[call[t].scanner]]
        <5>1. call[t] \in Calls /\ registered[call[t].scanner] \in Nat
          BY <2>1, CallUpdates DEF Announce
        <5>2. c \in Calls
          BY <5>1, CallUpdates
        <5>3. Step(t, "announce", "notify", c)
          BY <2>1, <4>2 DEF Announce
        <5> QED BY <5>2, <5>3, StepTypes
      <4> QED BY <4>1, <4>2
    <3> QED BY <2>1, <3>1 DEF Announce
  <2>2. ASSUME NEW t \in Threads, NotifyEnabled(t) PROVE TypeOK'
    <3>1. PICK task \in Tasks :
             /\ Schedule(call[t].scanner, task)
             /\ live' = (live \ {scheduled[call[t].scanner]}) \cup {task}
      BY <2>2 DEF NotifyEnabled
    <3>2. scheduled' \in [Scanners -> Tasks \cup {Null, Absent}] /\ live' \subseteq Tasks
      BY <3>1 DEF Schedule
    <3>3. Frame
      BY <2>2, ReturnTypes DEF NotifyEnabled
    <3> QED BY <2>2, <3>2, <3>3 DEF NotifyEnabled
  <2>3. ASSUME NEW t \in Threads, NotifyRejected(t) PROVE TypeOK'
    <3>1. Frame
      BY <2>3, StepTypes, CallUpdates DEF NotifyRejected
    <3> QED BY <2>3, <3>1 DEF NotifyRejected
  <2>4. ASSUME NEW t \in Threads, NotifyDisabled(t) PROVE TypeOK'
    <3>1. Frame
      BY <2>4, ReturnTypes DEF NotifyDisabled
    <3> QED BY <2>4, <3>1 DEF NotifyDisabled
  <2>5. ASSUME NEW t \in Threads, AddSchedule(t) PROVE TypeOK'
    <3>1. Frame
      BY <2>5, StepTypes, CallUpdates DEF AddSchedule
    <3>2. scheduled' \in [Scanners -> Tasks \cup {Null, Absent}] /\ live' \subseteq Tasks
      BY <2>5 DEF AddSchedule, Schedule
    <3> QED BY <2>5, <3>1, <3>2 DEF AddSchedule
  <2>6. ASSUME NEW t \in Threads, RemoveCancel(t) PROVE TypeOK'
    <3>1. Frame
      BY <2>6, StepTypes, CallUpdates DEF RemoveCancel
    <3> QED BY <2>6, <3>1 DEF RemoveCancel
  <2>7. ASSUME NEW t \in Threads, RemoveUnregister(t) PROVE TypeOK'
    <3>1. Frame
      BY <2>7, StepTypes, CallUpdates DEF RemoveUnregister
    <3>2. registered' \in [Scanners -> Nat]
      <4> DEFINE r(x) == IF registered[x] = 0 THEN 0 ELSE registered[x] - 1
                 s0 == call[t].scanner
      <4>1. registered' = [registered EXCEPT ![s0] = r(s0)]
        BY <2>7 DEF RemoveUnregister
      <4>2. ASSUME NEW x \in Scanners PROVE r(x) \in Nat
        OBVIOUS
      <4>3. ASSUME NEW x \in Scanners PROVE registered'[x] \in Nat
        BY <4>1, <4>2
      <4> QED BY <4>1, <4>3
    <3> QED BY <2>7, <3>1, <3>2 DEF RemoveUnregister
  <2>8. ASSUME NEW t \in Threads, EndSweep(t) PROVE TypeOK'
    <3>1. Frame
      BY <2>8, StepTypes, CallUpdates DEF EndSweep
    <3> QED BY <2>8, <3>1 DEF EndSweep
  <2>9. ASSUME NEW t \in Threads, CancelAll(t) PROVE TypeOK'
    <3>1. Frame
      BY <2>9, StepTypes, CallUpdates DEF CancelAll
    <3> QED BY <2>9, <3>1 DEF CancelAll
  <2>10. ASSUME NEW t \in Threads, Terminate(t) PROVE TypeOK'
    <3>1. Frame
      BY <2>10, StepTypes, CallUpdates DEF Terminate
    <3> QED BY <2>10, <3>1 DEF Terminate
  <2>11. ASSUME NEW t \in Threads, NEW s \in Scanners, NEW b \in BOOLEAN, NEW from, Swap(t, s, b, from)
         PROVE  Frame /\ enabled' \in [Scanners -> BOOLEAN] /\ overlaps' \subseteq Overlaps
    <3>1. Frame
      BY <2>11, StepTypes, CallUpdates DEF Swap
    <3>2. enabled' \in [Scanners -> BOOLEAN]
      BY <2>11 DEF Swap
    <3>3. overlaps' \subseteq Overlaps
      BY <2>11 DEF Swap
    <3> QED BY <3>1, <3>2, <3>3
  <2>12. ASSUME NEW t \in Threads, NEW s \in Scanners, SweepScanner(t, s) PROVE TypeOK'
    <3>1. call[t].value \in BOOLEAN
      BY CallUpdates
    <3>2. Frame /\ enabled' \in [Scanners -> BOOLEAN] /\ overlaps' \subseteq Overlaps
      BY <2>11, <2>12, <3>1 DEF SweepScanner
    <3> QED BY <2>12, <3>2 DEF SweepScanner
  <2>13. ASSUME NEW t \in Togglers, NEW s \in Scanners, NEW b \in BOOLEAN, SetEnabled(t, s, b)
         PROVE  TypeOK'
    <3>1. Frame /\ enabled' \in [Scanners -> BOOLEAN] /\ overlaps' \subseteq Overlaps
      BY <2>11, <2>13 DEF SetEnabled, Threads
    <3> QED BY <2>13, <3>1 DEF SetEnabled
  <2>14. ASSUME NEW t \in Managers, NEW s \in Scanners, AddScanner(t, s) PROVE TypeOK'
    <3>1. Frame
      BY <2>14, StepTypes, CallUpdates DEF AddScanner, Threads
    <3>2. registered' \in [Scanners -> Nat]
      BY <2>14 DEF AddScanner
    <3> QED BY <2>14, <3>1, <3>2 DEF AddScanner, Threads
  <2>15. ASSUME NEW t \in Managers, NEW s \in Scanners, RemoveScanner(t, s) PROVE TypeOK'
    <3>1. scheduled[s] \in Tasks \cup {Null}
      BY <2>15 DEF RemoveScanner
    <3>2. Frame
      BY <2>15, <3>1, StepTypes, CallUpdates DEF RemoveScanner, Threads
    <3>3. overlaps' \subseteq Overlaps
      BY <2>15 DEF RemoveScanner, Overlaps
    <3> QED BY <2>15, <3>2, <3>3 DEF RemoveScanner
  <2>16. ASSUME NEW t \in Sweepers, NEW b \in BOOLEAN, BeginSweep(t, b), closing' \in {closing, t}
         PROVE  TypeOK'
    <3>1. Frame
      BY <2>16, StepTypes, CallUpdates DEF BeginSweep, Threads
    <3> QED BY <2>16, <3>1 DEF BeginSweep, Threads
  <2>17. CASE UNCHANGED vars
    BY <2>17 DEF vars
  <2>18. QED
    BY <2>1, <2>2, <2>3, <2>4, <2>5, <2>6, <2>7, <2>8, <2>9, <2>10, <2>12, <2>13, <2>14,
       <2>15, <2>16, <2>17 DEF Next, Continue, Shutdown, SetScanEnabled
<1>3. QED
  BY <1>1, <1>2, PTL DEF SafeSpec

-----------------------------------------------------------------------------
\* The strengthening: threads in a sweep or between the two steps of addScanner hold the monitor,
\* and the scanner being added stays out of the map until its task is put.
SchedulingInv ==
  /\ \A t \in Threads : pc[t] \in {"add", "sweep"} => lock = t
  /\ \A t \in Threads :
       pc[t] = "add" => call[t].scanner \in Scanners /\ scheduled[call[t].scanner] = Absent
  /\ NoOrphanSchedule

\* Whatever is called concurrently, the monitor is held where it is taken to be.
LEMMA SchedulingInvHolds == SafeSpec => []SchedulingInv
<1> USE SchedulingAssumption DEF Threads
<1>1. Init => SchedulingInv
  BY DEF Init, SchedulingInv, NoOrphanSchedule
<1>2. TypeOK /\ SchedulingInv /\ [Next]_vars => SchedulingInv'
  <2> SUFFICES ASSUME TypeOK, SchedulingInv, [Next]_vars PROVE SchedulingInv'
    OBVIOUS
  <2> USE DEF TypeOK, SchedulingInv, NoOrphanSchedule, Step, NoCall, Tasks, MayLock
  <2>1. ASSUME NEW t \in Threads, Announce(t) PROVE SchedulingInv'
    BY <2>1 DEF Announce, SetEnabledReturns
  <2>2. ASSUME NEW t \in Threads, NotifyEnabled(t) PROVE SchedulingInv'
    BY <2>2 DEF NotifyEnabled, Schedule, NotifyReturns, SetEnabledReturns
  <2>3. ASSUME NEW t \in Threads, NotifyRejected(t) PROVE SchedulingInv'
    BY <2>3 DEF NotifyRejected
  <2>4. ASSUME NEW t \in Threads, NotifyDisabled(t) PROVE SchedulingInv'
    BY <2>4 DEF NotifyDisabled, NotifyReturns, SetEnabledReturns
  <2>5. ASSUME NEW t \in Threads, AddSchedule(t) PROVE SchedulingInv'
    BY <2>5 DEF AddSchedule, Schedule
  <2>6. ASSUME NEW t \in Threads, RemoveCancel(t) PROVE SchedulingInv'
    BY <2>6 DEF RemoveCancel
  <2>7. ASSUME NEW t \in Threads, RemoveUnregister(t) PROVE SchedulingInv'
    BY <2>7 DEF RemoveUnregister
  <2>8. ASSUME NEW t \in Threads, EndSweep(t) PROVE SchedulingInv'
    BY <2>8 DEF EndSweep
  <2>9. ASSUME NEW t \in Threads, CancelAll(t) PROVE SchedulingInv'
    BY <2>9 DEF CancelAll
  <2>10. ASSUME NEW t \in Threads, Terminate(t) PROVE SchedulingInv'
    BY <2>10 DEF Terminate
  <2>11. ASSUME NEW t \in Threads, NEW s \in Scanners, SweepScanner(t, s) PROVE SchedulingInv'
    BY <2>11 DEF SweepScanner, Swap
  <2>12. ASSUME NEW t \in Togglers, NEW s \in Scanners, NEW b \in BOOLEAN, SetEnabled(t, s, b)
         PROVE  SchedulingInv'
    BY <2>12 DEF SetEnabled, Swap
  <2>13. ASSUME NEW t \in Managers, NEW s \in Scanners, AddScanner(t, s) PROVE SchedulingInv'
    BY <2>13 DEF AddScanner
  <2>14. ASSUME NEW t \in Managers, NEW s \in Scanners, RemoveScanner(t, s) PROVE SchedulingInv'
    BY <2>14 DEF RemoveScanner
  <2>15. ASSUME NEW t \in Sweepers, Shutdown(t) PROVE SchedulingInv'
    BY <2>15 DEF Shutdown, BeginSweep
  <2>16. ASSUME NEW t \in Sweepers, NEW b \in BOOLEAN, SetScanEnabled(t, b) PROVE SchedulingInv'
    BY <2>16 DEF SetScanEnabled, BeginSweep
  <2>17. CASE UNCHANGED vars
    BY <2>17 DEF vars
  <2>18. QED
    BY <2>1, <2>2, <2>3, <2>4, <2>5, <2>6, <2>7, <2>8, <2>9, <2>10, <2>11, <2>12, <2>13, <2>14,
       <2>15, <2>16, <2>17 DEF Next, Continue
<1>3. QED
  BY <1>1, <1>2, SchedulingTypeCorrect, PTL DEF SafeSpec

\* Every task that still runs can be found by disabling, removing or shutting down, whatever the
\* callers of setEnabled, addScanner, removeScanner, setScanEnabled and shutdown interleave.
THEOREM NoTaskEscapes == SafeSpec => []NoOrphanSchedule
BY SchedulingInvHolds, PTL DEF SchedulingInv

-----------------------------------------------------------------------------
\* Where a thread works on a scanner.
Working == {"announce", "notify", "add", "cancel", "unregister"}

\* Tasks that are referenced in two places are told apart: a scanner's entry in the map is a task of
\* its own, and what a remover holds is in nobody's entry.  A thread has the scanner it works on.
TasksApart ==
  /\ \A s \in Scanners : scheduled[s] \in {Null, Absent} \/ scheduled[s][1] = s
  /\ \A t \in Threads, s \in Scanners : call[t].task # Null => call[t].task # scheduled[s]
  /\ \A t \in Threads : pc[t] \in Working => call[t].scanner \in Scanners

\* As long as no two setEnabled calls on a scanner overlapped, the one under way sets the flag there is.
OneSetter(s) ==
  \A t \in Threads :
    call[t].scanner = s /\ pc[t] \in {"announce", "notify"}
      => /\ call[t].value = enabled[s]
         /\ Setting(t, s) = {}

\* Nobody is between the swap of the flag of s and its last announcement.
NobodySets(s) == \A t \in Threads : ~(call[t].scanner = s /\ pc[t] \in {"announce", "notify"})

\* The schedule of s follows its flag, unless it is being set or the scheduler being stopped.
FlagInv(s) ==
  <<"setEnabled", s>> \notin overlaps =>
    /\ OneSetter(s)
    /\ /\ ~down /\ \A t \in Threads : pc[t] # "terminate"
       /\ scheduled[s] # Absent /\ registered[s] > 0 /\ NobodySets(s)
       => (enabled[s] <=> scheduled[s] \in live)

\* Scheduling, cancelling and removing mix up no tasks of different scanners.
LEMMA TasksStayApart == TypeOK /\ TasksApart /\ [Next]_vars => TasksApart'
<1> SUFFICES ASSUME TypeOK, TasksApart, [Next]_vars PROVE TasksApart'
  OBVIOUS
<1> USE SchedulingAssumption DEF TypeOK, TasksApart, Threads, Step, NoCall, Calls, Tasks, Working
<1>1. ASSUME NEW t \in Threads,
             \/ Announce(t) \/ NotifyDisabled(t) \/ NotifyRejected(t) \/ RemoveCancel(t) \/ RemoveUnregister(t)
             \/ EndSweep(t) \/ CancelAll(t) \/ Terminate(t) \/ \E s \in Scanners : SweepScanner(t, s)
      PROVE  TasksApart'
  <2>0. ASSUME NEW s \in Scanners, SweepScanner(t, s)
        PROVE  \A u \in Threads : /\ call'[u].task \in {call[u].task, Null}
                                  /\ pc'[u] \in Working => call'[u].scanner \in Scanners
    <3>1. CASE UNCHANGED <<pc, call>>
      BY <3>1
    <3>2. CASE Swap(t, s, call[t].value, "sweep")
      BY <3>2 DEF Swap
    <3> QED BY <2>0, <3>1, <3>2 DEF SweepScanner
  <2>1. scheduled' = scheduled
    BY <1>1 DEF Announce, NotifyDisabled, NotifyRejected, RemoveCancel, RemoveUnregister, EndSweep,
       CancelAll, Terminate, SweepScanner
  <2>2. \A u \in Threads : call'[u].task \in {call[u].task, Null}
    <3>1. CASE Announce(t)
      BY <3>1 DEF Announce, SetEnabledReturns
    <3>2. CASE NotifyDisabled(t)
      BY <3>2 DEF NotifyDisabled, NotifyReturns, SetEnabledReturns
    <3>3. CASE NotifyRejected(t) \/ RemoveCancel(t) \/ RemoveUnregister(t)
      BY <3>3 DEF NotifyRejected, RemoveCancel, RemoveUnregister
    <3>4. CASE EndSweep(t) \/ CancelAll(t) \/ Terminate(t)
      BY <3>4 DEF EndSweep, CancelAll, Terminate
    <3>5. CASE \E s \in Scanners : SweepScanner(t, s)
      BY <2>0, <3>5
    <3> QED BY <1>1, <3>1, <3>2, <3>3, <3>4, <3>5
  <2>3. \A u \in Threads : pc'[u] \in Working => call'[u].scanner \in Scanners
    <3>1. CASE Announce(t)
      BY <3>1 DEF Announce, SetEnabledReturns
    <3>2. CASE NotifyDisabled(t)
      BY <3>2 DEF NotifyDisabled, NotifyReturns, SetEnabledReturns
    <3>3. CASE NotifyRejected(t) \/ RemoveCancel(t) \/ RemoveUnregister(t)
      BY <3>3 DEF NotifyRejected, RemoveCancel, RemoveUnregister
    <3>4. CASE EndSweep(t) \/ CancelAll(t) \/ Terminate(t)
      BY <3>4 DEF EndSweep, CancelAll, Terminate
    <3>5. CASE \E s \in Scanners : SweepScanner(t, s)
      BY <2>0, <3>5
    <3> QED BY <1>1, <3>1, <3>2, <3>3, <3>4, <3>5
  <2> QED BY <2>1, <2>2, <2>3
<1>2. ASSUME NEW t \in Threads, NotifyEnabled(t) PROVE TasksApart'
  <2>1. \A u \in Threads : /\ call'[u].task = call[u].task \/ call'[u].task = Null
                           /\ pc'[u] \in Working => call'[u].scanner \in Scanners
    BY <1>2 DEF NotifyEnabled, NotifyReturns, SetEnabledReturns
  <2>2. PICK task \in Tasks : Schedule(call[t].scanner, task)
    BY <1>2 DEF NotifyEnabled
  <2> QED BY <2>1, <2>2 DEF Schedule, Referenced
<1>3. ASSUME NEW t \in Threads, AddSchedule(t) PROVE TasksApart'
  <2>1. \A u \in Threads : /\ call'[u].task = call[u].task \/ call'[u].task = Null
                           /\ pc'[u] \in Working => call'[u].scanner \in Scanners
    BY <1>3 DEF AddSchedule
  <2> QED BY <1>3, <2>1 DEF AddSchedule, Schedule, Referenced
<1>4. ASSUME NEW t \in Threads, NEW s \in Scanners,
             AddScanner(t, s) \/ RemoveScanner(t, s) \/ \E b \in BOOLEAN : SetEnabled(t, s, b)
      PROVE  TasksApart'
  <2>1. CASE AddScanner(t, s)
    BY <2>1 DEF AddScanner
  <2>2. CASE RemoveScanner(t, s)
    BY <2>2 DEF RemoveScanner
  <2>3. CASE \E b \in BOOLEAN : SetEnabled(t, s, b)
    BY <2>3 DEF SetEnabled, Swap
  <2> QED BY <1>4, <2>1, <2>2, <2>3
<1>5. ASSUME NEW t \in Threads, Shutdown(t) \/ \E b \in BOOLEAN : SetScanEnabled(t, b)
      PROVE  TasksApart'
  <2>1. PICK b \in BOOLEAN : BeginSweep(t, b)
    BY <1>5 DEF Shutdown, SetScanEnabled
  <2> QED BY <2>1 DEF BeginSweep
<1>6. CASE UNCHANGED vars
  BY <1>6 DEF vars
<1>7. QED
  BY <1>1, <1>2, <1>3, <1>4, <1>5, <1>6 DEF Next, Continue

\* One step, one scanner: what is set and scheduled goes together.
LEMMA FlagInductive ==
  ASSUME TypeOK, SchedulingInv, TasksApart, NEW s \in Scanners, FlagInv(s), [Next]_vars
  PROVE  FlagInv(s)'
<1> USE SchedulingAssumption
    DEF TypeOK, SchedulingInv, FlagInv, OneSetter, NobodySets, Setting, Threads, Step, NoCall, Calls, Tasks
<1>1. ASSUME NEW t \in Threads, Announce(t) PROVE FlagInv(s)'
  BY <1>1 DEF Announce, SetEnabledReturns
<1>2. ASSUME NEW t \in Threads, NotifyEnabled(t) PROVE FlagInv(s)'
  <2>1. PICK task \in Tasks :
           /\ Schedule(call[t].scanner, task)
           /\ live' = (live \ {scheduled[call[t].scanner]}) \cup {task}
    BY <1>2 DEF NotifyEnabled
  <2>2. UNCHANGED <<enabled, registered, overlaps, down>> /\ call[t].value /\ pc[t] = "notify"
    BY <1>2 DEF NotifyEnabled, NotifyReturns, SetEnabledReturns
  <2>3. \A u \in Threads : call'[u].scanner \in Scanners /\ pc'[u] \in {"announce", "notify"}
          => call'[u].scanner = call[u].scanner /\ call'[u].value = call[u].value /\ pc'[u] = pc[u]
    BY <1>2 DEF NotifyEnabled, NotifyReturns, SetEnabledReturns
  <2>4. \A u \in Threads : u # t => call'[u] = call[u] /\ pc'[u] = pc[u]
    BY <1>2 DEF NotifyEnabled, NotifyReturns, SetEnabledReturns
  <2>5. OneSetter(s)' \/ <<"setEnabled", s>> \in overlaps'
    BY <2>2, <2>3
  <2>6. CASE call[t].scanner = s
    BY <2>1, <2>2, <2>5, <2>6 DEF Schedule
  <2>7. CASE call[t].scanner # s
    <3>1. scheduled'[s] = scheduled[s] /\ (scheduled[s] \in live' <=> scheduled[s] \in live)
      BY <2>1, <2>7 DEF Schedule, TasksApart
    <3>2. NobodySets(s)' => NobodySets(s)
      BY <2>4, <2>7
    <3>3. (\A u \in Threads : pc'[u] # "terminate") => \A u \in Threads : pc[u] # "terminate"
      BY <2>2, <2>4
    <3> QED BY <2>2, <2>5, <3>1, <3>2, <3>3
  <2> QED BY <2>6, <2>7
<1>3. ASSUME NEW t \in Threads, NotifyRejected(t) PROVE FlagInv(s)'
  <2>1. down' /\ UNCHANGED <<enabled, overlaps>>
    BY <1>3 DEF NotifyRejected
  <2>2. /\ call'[t].scanner \notin Scanners
        /\ \A u \in Threads : u # t => call'[u] = call[u] /\ pc'[u] = pc[u]
    BY <1>3 DEF NotifyRejected
  <2> QED BY <2>1, <2>2
<1>4. ASSUME NEW t \in Threads, NotifyDisabled(t) PROVE FlagInv(s)'
  <2>1. /\ UNCHANGED <<enabled, registered, scheduled, overlaps, down>>
        /\ live' = live \ {scheduled[call[t].scanner]}
        /\ ~call[t].value /\ pc[t] = "notify"
    BY <1>4 DEF NotifyDisabled, NotifyReturns, SetEnabledReturns
  <2>2. \A u \in Threads : call'[u].scanner \in Scanners /\ pc'[u] \in {"announce", "notify"}
          => call'[u].scanner = call[u].scanner /\ call'[u].value = call[u].value /\ pc'[u] = pc[u]
    BY <1>4 DEF NotifyDisabled, NotifyReturns, SetEnabledReturns
  <2>3. \A u \in Threads : u # t => call'[u] = call[u] /\ pc'[u] = pc[u]
    BY <1>4 DEF NotifyDisabled, NotifyReturns, SetEnabledReturns
  <2>4. OneSetter(s)' \/ <<"setEnabled", s>> \in overlaps'
    BY <2>1, <2>2
  <2>5. CASE call[t].scanner = s
    BY <2>1, <2>4, <2>5
  <2>6. CASE call[t].scanner # s
    <3>1. scheduled[s] \in live' <=> scheduled[s] \in live
      BY <2>1, <2>6 DEF TasksApart, Working
    <3>2. NobodySets(s)' => NobodySets(s)
      BY <2>3, <2>6
    <3>3. (\A u \in Threads : pc'[u] # "terminate") => \A u \in Threads : pc[u] # "terminate"
      BY <2>1, <2>3
    <3> QED BY <2>1, <2>4, <3>1, <3>2, <3>3
  <2> QED BY <2>5, <2>6
<1>5. ASSUME NEW t \in Threads, AddSchedule(t) PROVE FlagInv(s)'
  <2>1. /\ UNCHANGED <<enabled, registered, overlaps, down>> /\ pc[t] = "add" /\ pc'[t] = "idle"
        /\ \A u \in Threads : u # t => call'[u] = call[u] /\ pc'[u] = pc[u]
    BY <1>5 DEF AddSchedule
  <2>2. OneSetter(s)' \/ <<"setEnabled", s>> \in overlaps'
    BY <2>1
  <2>3. CASE call[t].scanner = s
    <3>1. down \/ (enabled[s] <=> scheduled'[s] \in live')
      BY <1>5, <2>3 DEF AddSchedule, Schedule
    <3> QED BY <2>1, <2>2, <3>1
  <2>4. CASE call[t].scanner # s
    <3>1. scheduled'[s] = scheduled[s] /\ (scheduled[s] \in live' <=> scheduled[s] \in live)
      BY <1>5, <2>4 DEF AddSchedule, Schedule, TasksApart
    <3>2. NobodySets(s)' => NobodySets(s)
      BY <2>1
    <3>3. (\A u \in Threads : pc'[u] # "terminate") => \A u \in Threads : pc[u] # "terminate"
      BY <2>1
    <3> QED BY <2>1, <2>2, <3>1, <3>2, <3>3
  <2> QED BY <2>3, <2>4
<1>6. ASSUME NEW t \in Threads, RemoveCancel(t) PROVE FlagInv(s)'
  BY <1>6 DEF RemoveCancel, TasksApart
<1>7. ASSUME NEW t \in Threads, RemoveUnregister(t) PROVE FlagInv(s)'
  <2>1. /\ UNCHANGED <<enabled, scheduled, live, overlaps, down>>
        /\ registered[s] \in Nat /\ (registered'[s] > 0 => registered[s] > 0)
    BY <1>7 DEF RemoveUnregister
  <2>2. /\ pc[t] = "unregister" /\ pc'[t] = "idle"
        /\ \A u \in Threads : u # t => call'[u] = call[u] /\ pc'[u] = pc[u]
    BY <1>7 DEF RemoveUnregister
  <2> QED BY <2>1, <2>2
<1>8. ASSUME NEW t \in Threads, EndSweep(t) \/ CancelAll(t) \/ Terminate(t) PROVE FlagInv(s)'
  BY <1>8 DEF EndSweep, CancelAll, Terminate
<1>9. ASSUME NEW t \in Threads, NEW x \in Scanners, NEW b \in BOOLEAN, NEW from \in {"idle", "sweep"},
             Swap(t, x, b, from), UNCHANGED <<registered, scheduled, live, down>>
      PROVE  FlagInv(s)'
  BY <1>9 DEF Swap, Overlaps
<1>10. ASSUME NEW t \in Threads, NEW x \in Scanners, SweepScanner(t, x) PROVE FlagInv(s)'
  <2>1. call[t].value \in BOOLEAN /\ UNCHANGED <<registered, scheduled, live, down>>
    BY <1>10 DEF SweepScanner
  <2>2. CASE UNCHANGED <<pc, call, enabled, overlaps>>
    BY <2>1, <2>2
  <2>3. CASE Swap(t, x, call[t].value, "sweep")
    BY <1>9, <2>1, <2>3
  <2> QED BY <1>10, <2>2, <2>3 DEF SweepScanner
<1>11. ASSUME NEW t \in Threads, NEW x \in Scanners, AddScanner(t, x) \/ RemoveScanner(t, x)
       PROVE  FlagInv(s)'
  BY <1>11 DEF AddScanner, RemoveScanner
<1>12. ASSUME NEW t \in Threads, Shutdown(t) \/ \E b \in BOOLEAN : SetScanEnabled(t, b)
       PROVE  FlagInv(s)'
  BY <1>12 DEF Shutdown, SetScanEnabled, BeginSweep
<1>13. ASSUME NEW t \in Threads, NEW x \in Scanners, NEW b \in BOOLEAN, SetEnabled(t, x, b)
       PROVE  FlagInv(s)'
  <2> HIDE DEF TypeOK, SchedulingInv, FlagInv, Step
  <2> QED BY <1>9, <1>13 DEF SetEnabled
<1>14. CASE UNCHANGED vars
  BY <1>14 DEF vars
<1> HIDE DEF TypeOK, SchedulingInv, FlagInv
<1>15. QED
  BY <1>1, <1>2, <1>3, <1>4, <1>5, <1>6, <1>7, <1>8, <1>10, <1>11, <1>12, <1>13, <1>14
     DEF Next, Continue

\* Between calls a scanner the network listens to is scheduled exactly if it is enabled, unless two
\* setEnabled calls on it overlapped.
THEOREM ScheduleFollowsFlag == SafeSpec => []ScheduleMatchesFlag
<1> DEFINE AllFlags == \A s \in Scanners : FlagInv(s)
<1>1. Init => TasksApart /\ AllFlags
  BY SchedulingAssumption
     DEF Init, TasksApart, Working, FlagInv, OneSetter, NobodySets, Setting, NoCall
<1>2. TypeOK /\ SchedulingInv /\ TasksApart /\ AllFlags /\ [Next]_vars => TasksApart' /\ AllFlags'
  BY TasksStayApart, FlagInductive
<1>3. TypeOK /\ AllFlags => ScheduleMatchesFlag
  BY DEF TypeOK, ScheduleMatchesFlag, FlagInv, NobodySets, Quiescent
<1>4. QED
  BY <1>1, <1>2, <1>3, SchedulingTypeCorrect, SchedulingInvHolds, PTL DEF SafeSpec

-----------------------------------------------------------------------------
\* The threads that have taken s out of the map and not unregistered the listener yet.
Removers(s) == {t \in Threads : call[t].scanner = s /\ pc[t] \in {"cancel", "unregister"}}

\* The scanner is in the map, or about to be put there.
Added(s) == scheduled[s] # Absent \/ \E t \in Threads : call[t].scanner = s /\ pc[t] = "add"

Hooks(s) == Cardinality(Removers(s)) + (IF Added(s) THEN 1 ELSE 0)

\* The listener is registered once for a scanner that is added, and once for each removal under way;
\* as long as no removal overlapped a setEnabled, the listener runs only while it is added.
HookInv(s) ==
  ~down /\ <<"removeScanner", s>> \notin overlaps =>
    /\ registered[s] = Hooks(s)
    /\ \A t \in Threads :
         call[t].scanner = s /\ pc[t] \in {"announce", "notify"}
           => Removers(s) = {} /\ (pc[t] = "notify" => Added(s))

\* Removers can be counted.
LEMMA HooksCount ==
  ASSUME NEW s
  PROVE  /\ IsFiniteSet(Removers(s)) /\ Cardinality(Removers(s)) \in Nat
         /\ Hooks(s) \in Nat
         /\ Removers(s) = {} => Hooks(s) = IF Added(s) THEN 1 ELSE 0
<1>1. IsFiniteSet(Removers(s))
  BY SchedulingAssumption, FS_Subset DEF Removers
<1>2. Cardinality(Removers(s)) \in Nat
  BY <1>1, FS_CardinalityType
<1> QED BY <1>1, <1>2, FS_EmptySet DEF Hooks

\* A step that does not begin or end an addition or a removal of s leaves its count alone.
LEMMA SameHooks ==
  ASSUME NEW s, Removers(s)' = Removers(s), Added(s)' <=> Added(s)
  PROVE  Hooks(s)' = Hooks(s)
BY DEF Hooks

\* Registrations of the listener keep in step with the map.
LEMMA HookInductive ==
  ASSUME TypeOK, SchedulingInv, TasksApart, NEW s \in Scanners, HookInv(s), [Next]_vars
  PROVE  HookInv(s)'
<1> DEFINE Frame(t) == \A u \in Threads : u # t => call'[u] = call[u] /\ pc'[u] = pc[u]
<1> USE SchedulingAssumption
    DEF TypeOK, SchedulingInv, HookInv, Removers, Added, Threads, Step, NoCall, Calls
\* Steps of a call that neither begins nor ends an addition or a removal.
<1>1. ASSUME NEW t \in Threads, Frame(t), UNCHANGED <<registered, overlaps, down>>,
             scheduled'[s] = Absent <=> scheduled[s] = Absent,
             pc[t] \notin {"add", "cancel", "unregister"}, pc'[t] \notin {"add", "cancel", "unregister"},
             call'[t].scanner = s /\ pc'[t] \in {"announce", "notify"}
               => /\ call[t].scanner = s /\ pc[t] \in {"announce", "notify"}
                  /\ pc'[t] = "notify" /\ pc[t] = "announce" => registered[s] > 0
      PROVE  HookInv(s)'
  <2>1. Removers(s)' = Removers(s) /\ (Added(s)' <=> Added(s))
    BY <1>1
  <2>2. Hooks(s)' = Hooks(s)
    BY <2>1, SameHooks
  <2>3. Removers(s) = {} => Hooks(s) = IF Added(s) THEN 1 ELSE 0
    BY HooksCount
  <2> QED BY <1>1, <2>1, <2>2, <2>3
<1>2. ASSUME NEW t \in Threads, Announce(t) PROVE HookInv(s)'
  BY <1>1, <1>2 DEF Announce, SetEnabledReturns
<1>3. ASSUME NEW t \in Threads, NotifyEnabled(t) PROVE HookInv(s)'
  <2>1. /\ Frame(t) /\ UNCHANGED <<registered, overlaps, down>> /\ pc[t] = "notify"
        /\ pc'[t] \in {"notify", "idle", "sweep"}
        /\ pc'[t] = "notify" => call'[t].scanner = call[t].scanner
    BY <1>3 DEF NotifyEnabled, NotifyReturns, SetEnabledReturns
  <2>2. \A u \in Threads : pc[u] # "add"
    BY <1>3, <2>1 DEF NotifyEnabled, MayLock
  <2>3. CASE call[t].scanner = s
    <3>1. scheduled'[s] # Absent
      BY <1>3, <2>3 DEF NotifyEnabled, Schedule
    <3>2. CASE scheduled[s] # Absent
      BY <1>1, <2>1, <3>1, <3>2
    <3>3. CASE scheduled[s] = Absent
      BY <2>1, <2>2, <2>3, <3>3
    <3> QED BY <3>2, <3>3
  <2>4. CASE call[t].scanner # s
    <3>1. scheduled'[s] = scheduled[s]
      BY <1>3, <2>4 DEF NotifyEnabled, Schedule
    <3> QED BY <1>1, <2>1, <2>4, <3>1
  <2> QED BY <2>3, <2>4
<1>4. ASSUME NEW t \in Threads, NotifyRejected(t) PROVE HookInv(s)'
  BY <1>4 DEF NotifyRejected
<1>5. ASSUME NEW t \in Threads, NotifyDisabled(t) PROVE HookInv(s)'
  BY <1>1, <1>5 DEF NotifyDisabled, NotifyReturns, SetEnabledReturns
<1>6. ASSUME NEW t \in Threads, AddSchedule(t) PROVE HookInv(s)'
  <2>1. /\ Frame(t) /\ UNCHANGED <<registered, overlaps, down>> /\ pc[t] = "add" /\ pc'[t] = "idle"
        /\ \A x \in Scanners : x # call[t].scanner => scheduled'[x] = scheduled[x]
    BY <1>6 DEF AddSchedule, Schedule
  <2>2. down \/ scheduled'[call[t].scanner] # Absent
    BY <1>6 DEF AddSchedule, Schedule
  <2>3. Removers(s)' = Removers(s)
    BY <2>1
  <2>4. down \/ (Added(s)' <=> Added(s))
    BY <2>1, <2>2
  <2> QED BY <2>1, <2>3, <2>4, SameHooks
<1>7. ASSUME NEW t \in Threads, RemoveCancel(t) PROVE HookInv(s)'
  <2>1. /\ Frame(t) /\ UNCHANGED <<registered, overlaps, down, scheduled>>
        /\ pc[t] = "cancel" /\ pc'[t] = "unregister" /\ call'[t].scanner = call[t].scanner
    BY <1>7 DEF RemoveCancel
  <2>2. Removers(s)' = Removers(s) /\ (Added(s)' <=> Added(s))
    BY <2>1
  <2> QED BY <2>1, <2>2, SameHooks
<1>8. ASSUME NEW t \in Threads, RemoveUnregister(t) PROVE HookInv(s)'
  <2>1. /\ Frame(t) /\ UNCHANGED <<overlaps, down, scheduled>>
        /\ pc[t] = "unregister" /\ pc'[t] = "idle"
        /\ registered' = [registered EXCEPT ![call[t].scanner] = IF @ = 0 THEN 0 ELSE @ - 1]
    BY <1>8 DEF RemoveUnregister
  <2>2. Added(s)' <=> Added(s)
    BY <2>1
  <2>3. CASE call[t].scanner = s
    <3>1. t \in Removers(s) /\ Removers(s)' = Removers(s) \ {t}
      BY <2>1, <2>3
    <3>2. Cardinality(Removers(s)') = Cardinality(Removers(s)) - 1
      <4> HIDE DEF Removers, Added
      <4>1. IsFiniteSet(Removers(s))
        BY HooksCount
      <4>2. Cardinality(Removers(s) \ {t}) = Cardinality(Removers(s)) - 1
        BY <3>1, <4>1, FS_RemoveElement, Zenon
      <4> QED BY <3>1, <4>2
    <3>3. Hooks(s)' = Hooks(s) - 1 /\ Hooks(s) \in Nat /\ Hooks(s)' \in Nat
      <4> HIDE DEF Removers, Added
      <4>1. Cardinality(Removers(s)) \in Nat /\ Hooks(s) \in Nat
        BY HooksCount
      <4>2. Cardinality(Removers(s)) # 0
        BY <3>1, HooksCount, FS_EmptySet
      <4> QED BY <2>2, <3>2, <4>1, <4>2 DEF Hooks
    <3>4. registered'[s] = IF registered[s] = 0 THEN 0 ELSE registered[s] - 1
      BY <2>1, <2>3
    <3> QED BY <2>1, <2>2, <3>1, <3>3, <3>4
  <2>4. CASE call[t].scanner # s
    <3>1. Removers(s)' = Removers(s) /\ registered'[s] = registered[s]
      BY <2>1, <2>4
    <3> QED BY <2>1, <2>2, <3>1, SameHooks
  <2> QED BY <2>3, <2>4
<1>9. ASSUME NEW t \in Threads, EndSweep(t) \/ CancelAll(t) \/ Terminate(t) PROVE HookInv(s)'
  BY <1>1, <1>9 DEF EndSweep, CancelAll, Terminate
<1>10. ASSUME NEW t \in Threads, NEW x \in Scanners, NEW b \in BOOLEAN, NEW from \in {"idle", "sweep"},
              Swap(t, x, b, from), UNCHANGED <<registered, scheduled, down>>
       PROVE  HookInv(s)'
  <2>1. /\ Frame(t) /\ pc[t] \in {"idle", "sweep"} /\ pc'[t] = "announce" /\ call'[t].scanner = x
        /\ overlaps \subseteq overlaps'
    BY <1>10 DEF Swap
  <2>2. Removers(s)' = Removers(s) /\ (Added(s)' <=> Added(s))
    BY <1>10, <2>1
  <2>3. x = s /\ <<"removeScanner", s>> \notin overlaps' => Removers(s) = {}
    <3>1. Removing(t, s) = Removers(s)
      BY <2>1 DEF Removing
    <3> QED BY <1>10, <3>1 DEF Swap, Overlaps
  <2> QED BY <1>10, <2>1, <2>2, <2>3, SameHooks
<1>11. ASSUME NEW t \in Threads, NEW x \in Scanners, AddScanner(t, x) PROVE HookInv(s)'
  <2>1. /\ Frame(t) /\ pc[t] = "idle" /\ pc'[t] = "add" /\ call'[t].scanner = x
        /\ UNCHANGED <<overlaps, scheduled, down>> /\ scheduled[x] = Absent
        /\ registered' = [registered EXCEPT ![x] = @ + 1]
    BY <1>11 DEF AddScanner
  <2>2. \A u \in Threads : pc[u] # "add"
    BY <1>11 DEF AddScanner
  <2>3. Removers(s)' = Removers(s)
    BY <2>1
  <2>4. CASE x = s
    <3>1. ~Added(s) /\ Added(s)'
      BY <2>1, <2>2, <2>4
    <3>2. Hooks(s)' = Hooks(s) + 1
      <4> HIDE DEF Removers, Added
      <4> QED BY <2>3, <3>1, HooksCount DEF Hooks
    <3> QED BY <2>1, <2>3, <2>4, <3>1, <3>2
  <2>5. CASE x # s
    <3>1. (Added(s)' <=> Added(s)) /\ registered'[s] = registered[s]
      BY <2>1, <2>5
    <3> QED BY <2>1, <2>3, <2>5, <3>1, SameHooks
  <2> QED BY <2>4, <2>5
<1>12. ASSUME NEW t \in Threads, NEW x \in Scanners, RemoveScanner(t, x) PROVE HookInv(s)'
  <2>1. /\ Frame(t) /\ pc[t] = "idle" /\ pc'[t] = "cancel" /\ call'[t].scanner = x
        /\ UNCHANGED <<registered, down>> /\ scheduled[x] # Absent /\ scheduled'[x] = Absent
        /\ \A y \in Scanners : y # x => scheduled'[y] = scheduled[y]
        /\ overlaps \subseteq overlaps'
    BY <1>12 DEF RemoveScanner
  <2>2. \A u \in Threads : pc[u] # "add"
    BY <1>12 DEF RemoveScanner
  <2>3. CASE x = s
    <3>1. t \notin Removers(s) /\ Removers(s)' = Removers(s) \cup {t}
      BY <2>1, <2>3
    <3>2. Cardinality(Removers(s)') = Cardinality(Removers(s)) + 1
      <4> HIDE DEF Removers, Added
      <4>1. IsFiniteSet(Removers(s))
        BY HooksCount
      <4> QED BY <3>1, <4>1, FS_AddElement
    <3>3. Added(s) /\ ~Added(s)'
      BY <2>1, <2>2, <2>3
    <3>4. Hooks(s)' = Hooks(s)
      <4> HIDE DEF Removers, Added
      <4> QED BY <3>2, <3>3, HooksCount DEF Hooks
    <3>5. <<"removeScanner", s>> \notin overlaps' =>
            \A u \in Threads : ~(call'[u].scanner = s /\ pc'[u] \in {"announce", "notify"})
      BY <1>12, <2>1, <2>3 DEF RemoveScanner, Setting
    <3> QED BY <2>1, <3>4, <3>5
  <2>4. CASE x # s
    <3>1. Removers(s)' = Removers(s) /\ (Added(s)' <=> Added(s))
      BY <2>1, <2>4
    <3> QED BY <2>1, <2>4, <3>1, SameHooks
  <2> QED BY <2>3, <2>4
<1>13. ASSUME NEW t \in Threads, NEW x \in Scanners, SweepScanner(t, x) PROVE HookInv(s)'
  <2>1. call[t].value \in BOOLEAN /\ UNCHANGED <<registered, scheduled, down>> /\ pc[t] = "sweep"
    BY <1>13 DEF SweepScanner
  <2>2. CASE UNCHANGED <<pc, call, enabled, overlaps>>
    BY <1>1, <2>1, <2>2
  <2>3. CASE Swap(t, x, call[t].value, "sweep")
    BY <1>10, <2>1, <2>3
  <2> QED BY <1>13, <2>2, <2>3 DEF SweepScanner
<1>14. ASSUME NEW t \in Threads, Shutdown(t) \/ \E b \in BOOLEAN : SetScanEnabled(t, b)
       PROVE  HookInv(s)'
  <2>1. PICK b \in BOOLEAN : BeginSweep(t, b)
    BY <1>14 DEF Shutdown, SetScanEnabled
  <2> QED BY <1>1, <2>1 DEF BeginSweep
<1>15. ASSUME NEW t \in Threads, NEW x \in Scanners, NEW b \in BOOLEAN, SetEnabled(t, x, b)
       PROVE  HookInv(s)'
  <2> HIDE DEF TypeOK, SchedulingInv, HookInv, Step
  <2> QED BY <1>10, <1>15 DEF SetEnabled
<1>16. CASE UNCHANGED vars
  <2>1. Removers(s)' = Removers(s) /\ (Added(s)' <=> Added(s))
    BY <1>16 DEF vars
  <2> QED BY <1>16, <2>1, SameHooks DEF vars
<1> HIDE DEF TypeOK, SchedulingInv, HookInv
<1>17. QED
  BY <1>2, <1>3, <1>4, <1>5, <1>6, <1>7, <1>8, <1>9, <1>11, <1>12, <1>13, <1>14, <1>15, <1>16
     DEF Next, Continue

\* Between calls the network listens once to each scanner in its map and to no other, unless a
\* removal overlapped a setEnabled.
THEOREM HooksFollowMap == SafeSpec => []HooksMatchMap
<1> DEFINE AllHooks == \A s \in Scanners : HookInv(s)
<1>1. Init => TasksApart /\ AllHooks
  <2> SUFFICES ASSUME Init, NEW s \in Scanners PROVE TasksApart /\ HookInv(s)
    BY SchedulingAssumption DEF Init, TasksApart, Working, NoCall
  <2>1. Removers(s) = {} /\ Added(s) /\ registered[s] = 1
    BY SchedulingAssumption DEF Init, Removers, Added
  <2>2. TasksApart /\ Hooks(s) = 1
    BY <2>1, SchedulingAssumption, HooksCount DEF Init, TasksApart, Working, NoCall
  <2> QED BY <2>1, <2>2 DEF Init, HookInv
<1>2. TypeOK /\ SchedulingInv /\ TasksApart /\ AllHooks /\ [Next]_vars => TasksApart' /\ AllHooks'
  BY TasksStayApart, HookInductive
<1>3. TypeOK /\ AllHooks => HooksMatchMap
  <2> SUFFICES ASSUME AllHooks, Quiescent, ~down, NEW s \in Scanners, <<"removeScanner", s>> \notin overlaps
               PROVE  registered[s] = IF scheduled[s] = Absent THEN 0 ELSE 1
    BY DEF HooksMatchMap
  <2>1. Removers(s) = {} /\ (Added(s) <=> scheduled[s] # Absent)
    BY DEF Quiescent, Removers, Added
  <2> QED BY <2>1, HooksCount DEF HookInv
<1>4. QED
  BY <1>1, <1>2, <1>3, SchedulingTypeCorrect, SchedulingInvHolds, PTL DEF SafeSpec

-----------------------------------------------------------------------------
\* The safety of ShutdownEndsScans.  Nobody else comes to where shutdown cancels and terminates, and
\* once called it is on its way there: sweeping under the monitor, which a listener it calls does not
\* release, or past that.  When the scheduler is down no task is alive.
ShutdownGoesOn ==
  /\ \A t \in Threads : pc[t] \in {"cancelAll", "terminate", "closed"} => t = closing
  /\ closing # Null /\ ~down =>
       /\ pc[closing] \in {"sweep", "announce", "notify", "cancelAll", "terminate"}
       /\ pc[closing] \in {"announce", "notify"} => lock = closing
  /\ down => live = {} /\ closing # Null /\ pc[closing] = "closed"

\* Whoever toggles, adds, removes and sweeps meanwhile, a shutdown is not turned away from its end.
LEMMA ShutdownInductive ==
  TypeOK /\ SchedulingInv /\ ShutdownGoesOn /\ [Next]_vars => ShutdownGoesOn'
<1> SUFFICES ASSUME TypeOK, SchedulingInv, ShutdownGoesOn, [Next]_vars PROVE ShutdownGoesOn'
  OBVIOUS
<1> USE SchedulingAssumption DEF TypeOK, SchedulingInv, ShutdownGoesOn, Step, MayLock, Threads
<1>1. ASSUME NEW t \in Threads, Announce(t) PROVE ShutdownGoesOn'
  BY <1>1 DEF Announce, SetEnabledReturns
<1>2. ASSUME NEW t \in Threads, NotifyEnabled(t) PROVE ShutdownGoesOn'
  BY <1>2 DEF NotifyEnabled, Schedule, NotifyReturns, SetEnabledReturns
<1>3. ASSUME NEW t \in Threads, NotifyRejected(t) PROVE ShutdownGoesOn'
  BY <1>3 DEF NotifyRejected
<1>4. ASSUME NEW t \in Threads, NotifyDisabled(t) PROVE ShutdownGoesOn'
  BY <1>4 DEF NotifyDisabled, NotifyReturns, SetEnabledReturns
<1>5. ASSUME NEW t \in Threads, AddSchedule(t) PROVE ShutdownGoesOn'
  BY <1>5 DEF AddSchedule, Schedule
<1>6. ASSUME NEW t \in Threads, RemoveCancel(t) PROVE ShutdownGoesOn'
  BY <1>6 DEF RemoveCancel
<1>7. ASSUME NEW t \in Threads, RemoveUnregister(t) PROVE ShutdownGoesOn'
  BY <1>7 DEF RemoveUnregister
<1>8. ASSUME NEW t \in Threads, EndSweep(t) PROVE ShutdownGoesOn'
  BY <1>8 DEF EndSweep
<1>9. ASSUME NEW t \in Threads, CancelAll(t) PROVE ShutdownGoesOn'
  BY <1>9 DEF CancelAll
<1>10. ASSUME NEW t \in Threads, Terminate(t) PROVE ShutdownGoesOn'
  BY <1>10 DEF Terminate
<1>11. ASSUME NEW t \in Threads, NEW s \in Scanners, SweepScanner(t, s) PROVE ShutdownGoesOn'
  BY <1>11 DEF SweepScanner, Swap
<1>12. ASSUME NEW t \in Togglers, NEW s \in Scanners, NEW b \in BOOLEAN, SetEnabled(t, s, b)
       PROVE  ShutdownGoesOn'
  BY <1>12 DEF SetEnabled, Swap
<1>13. ASSUME NEW t \in Managers, NEW s \in Scanners, AddScanner(t, s) PROVE ShutdownGoesOn'
  BY <1>13 DEF AddScanner
<1>14. ASSUME NEW t \in Managers, NEW s \in Scanners, RemoveScanner(t, s) PROVE ShutdownGoesOn'
  BY <1>14 DEF RemoveScanner
<1>15. ASSUME NEW t \in Sweepers, Shutdown(t) PROVE ShutdownGoesOn'
  BY <1>15 DEF Shutdown, BeginSweep
<1>16. ASSUME NEW t \in Sweepers, NEW b \in BOOLEAN, SetScanEnabled(t, b) PROVE ShutdownGoesOn'
  BY <1>16 DEF SetScanEnabled, BeginSweep
<1>17. CASE UNCHANGED vars
  BY <1>17 DEF vars
<1>18. QED
  BY <1>1, <1>2, <1>3, <1>4, <1>5, <1>6, <1>7, <1>8, <1>9, <1>10, <1>11, <1>12, <1>13, <1>14,
     <1>15, <1>16, <1>17 DEF Next, Continue

\* shutdown, once called, is on its way until the scheduler is down (ApplicationNetwork.java:368),
\* whatever the scanners' listener throws and whoever else takes the monitor.
THEOREM ShutdownIsNotDiverted == SafeSpec => []ShutdownGoesOn
<1>1. Init => ShutdownGoesOn
  BY DEF Init, ShutdownGoesOn
<1>2. QED
  BY <1>1, ShutdownInductive, SchedulingTypeCorrect, SchedulingInvHolds, PTL DEF SafeSpec

\* Once the scheduler is down no scanner is scheduled, ever again: neither by a listener that is late,
\* nor by addScanner (RejectedExecutionException).
THEOREM ShutdownIsForGood == SafeSpec => [](down => [](down /\ live = {}))
<1>1. [Next]_vars /\ down => down'
  BY DEF Next, Continue, vars, Announce, NotifyEnabled, NotifyRejected, NotifyDisabled, AddSchedule,
     RemoveCancel, RemoveUnregister, EndSweep, CancelAll, Terminate, SweepScanner, SetEnabled,
     AddScanner, RemoveScanner, Shutdown, SetScanEnabled, BeginSweep
<1>2. ShutdownGoesOn => (down => live = {})
  BY DEF ShutdownGoesOn
<1>3. QED
  BY <1>1, <1>2, ShutdownIsNotDiverted, PTL DEF SafeSpec
=============================================================================
