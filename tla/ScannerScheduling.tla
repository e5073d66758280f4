------------------------- MODULE ScannerScheduling --------------------------
(***************************************************************************)
(* How ApplicationNetwork keeps the periodic schedule of its scanners in   *)
(* step with their enabled flags.                                          *)
(*                                                                         *)
(* A Scanner's flag is swapped without a lock and announced in a second    *)
(* step; the network's listener then takes the monitor of                  *)
(* scheduled_scanners and schedules or cancels the periodic task.  Adding  *)
(* takes the same monitor, removing releases it before it cancels the task *)
(* and unregisters the listener, setScanEnabled holds it over the whole    *)
(* sweep.  Shutdown sweeps, cancels what is in the map, and much later     *)
(* stops the scheduler.                                                    *)
(***************************************************************************)
EXTENDS Naturals, FiniteSets

CONSTANTS
  Scanners,
  Togglers,          \* threads that call Scanner.setEnabled (setAutoDeployEnabled, ...)
  Managers,          \* threads that call addScanner and removeScanner
  Sweepers,          \* threads that call setScanEnabled, and one of them shutdown
  Ids,               \* numbers that tell the periodic tasks of a scanner apart
  MaxRegistrations,  \* bound: registrations of the listener with one scanner
  Null,              \* a null task, scanner or thread
  Absent             \* the scanner is not a key of scheduled_scanners

Threads == Togglers \cup Managers \cup Sweepers

\* A periodic task runs one scanner; its number is reused once nothing refers to it.
Tasks == Scanners \X Ids

ASSUME SchedulingAssumption ==
  /\ Ids \subseteq Nat /\ MaxRegistrations \in Nat /\ IsFiniteSet(Threads)
  /\ Null \notin Tasks \cup Threads \cup Scanners /\ Absent \notin Tasks \cup {Null}
  /\ Togglers \cap Managers = {} /\ Togglers \cap Sweepers = {} /\ Managers \cap Sweepers = {}

VARIABLES
  enabled,     \* [Scanners -> BOOLEAN]
  registered,  \* [Scanners -> Nat]: how often the network's listener is registered
  scheduled,   \* [Scanners -> Tasks \cup {Null, Absent}]: scheduled_scanners
  live,        \* the periodic tasks that are not cancelled
  lock,        \* the thread in synchronized (scheduled_scanners), or Null
  down,        \* scanner_scheduler was shut down
  closing,     \* the thread that is, or was, in shutdown, or Null
  pc,          \* [Threads -> ...]: where each thread is
  call,        \* [Threads -> Calls]: the arguments and locals of its call
  todo,        \* [Threads -> SUBSET Scanners]: what is left of its sweep
  overlaps     \* history: which calls overlapped a setEnabled of which scanner

vars == <<enabled, registered, scheduled, live, lock, down, closing, pc, call, todo, overlaps>>

\* The scanner worked on, the flag to set, the listener calls still to make, the task to cancel.
Calls == [scanner : Scanners \cup {Null}, value : BOOLEAN, pending : Nat, task : Tasks \cup {Null}]
NoCall == [scanner |-> Null, value |-> FALSE, pending |-> 0, task |-> Null]

\* The constructor adds its scanners; the three automatic ones are disabled.
Init ==
  /\ enabled = [s \in Scanners |-> FALSE]
  /\ registered = [s \in Scanners |-> 1]
  /\ scheduled = [s \in Scanners |-> Null]
  /\ live = {} /\ lock = Null /\ down = FALSE /\ closing = Null
  /\ pc = [t \in Threads |-> "idle"]
  /\ call = [t \in Threads |-> NoCall]
  /\ todo = [t \in Threads |-> {}]
  /\ overlaps = {}

\* Thread t goes on from one place to another with locals c.
Step(t, from, to, c) ==
  /\ pc[t] = from
  /\ pc' = [pc EXCEPT ![t] = to]
  /\ call' = [call EXCEPT ![t] = c]

\* The monitor is reentrant.
MayLock(t) == lock \in {Null, t}

\* scheduleWithFixedDelay returns a new task; RejectedExecutionException after shutdownNow.
Referenced == live \cup {scheduled[s] : s \in Scanners} \cup {call[t].task : t \in Threads}
Schedule(s, task) ==
  /\ ~down
  /\ task \in ({s} \X Ids) \ Referenced
  /\ \A i \in Ids : <<s, i>> \notin Referenced => task[2] <= i
  /\ scheduled' = [scheduled EXCEPT ![s] = task]

\* The other threads in setEnabled, and in removeScanner, on the scanner.
Setting(t, s) == {u \in Threads \ {t} : call[u].scanner = s /\ pc[u] \in {"announce", "notify"}}
Removing(t, s) == {u \in Threads \ {t} : call[u].scanner = s /\ pc[u] \in {"cancel", "unregister"}}
Overlaps == {"setEnabled", "removeScanner"} \X Scanners

-----------------------------------------------------------------------------
(* Scanner.setEnabled and the network's listener *)

\* enabled.getAndSet: nobody is told when the value was the same.
Swap(t, s, b, from) ==
  /\ enabled[s] # b
  /\ enabled' = [enabled EXCEPT ![s] = b]
  /\ Step(t, from, "announce", [NoCall EXCEPT !.scanner = s, !.value = b])
  /\ overlaps' = overlaps \cup {o \in Overlaps : o[2] = s /\
                                   IF o[1] = "setEnabled" THEN Setting(t, s) # {} ELSE Removing(t, s) # {}}

SetEnabled(t, s, b) ==
  /\ Swap(t, s, b, "idle")
  /\ UNCHANGED <<registered, scheduled, live, lock, down, closing, todo>>

\* setEnabled returns to the sweep it is part of, or to its caller.
SetEnabledReturns(t, from) ==
  IF lock = t THEN Step(t, from, "sweep", [NoCall EXCEPT !.value = call[t].value])
              ELSE Step(t, from, "idle", NoCall)

\* firePropertyChange takes its snapshot: the listener is called as often as it is registered.
Announce(t) ==
  /\ LET n == registered[call[t].scanner]
     IN  /\ call[t].scanner # Null
         /\ IF n = 0 THEN SetEnabledReturns(t, "announce")
                     ELSE Step(t, "announce", "notify", [call[t] EXCEPT !.pending = n])
  /\ UNCHANGED <<enabled, registered, scheduled, live, lock, down, closing, todo, overlaps>>

NotifyReturns(t) ==
  /\ call[t].pending > 0
  /\ IF call[t].pending = 1 THEN SetEnabledReturns(t, "notify")
                            ELSE Step(t, "notify", "notify", [call[t] EXCEPT !.pending = @ - 1])

NotifyEnabledKeepsOld(t) ==                     \* mutant: the replaced task is not cancelled
  /\ MayLock(t) /\ call[t].value
  /\ \E task \in Tasks : Schedule(call[t].scanner, task) /\ live' = live \cup {task}
  /\ NotifyReturns(t)
  /\ UNCHANGED <<enabled, registered, lock, down, closing, todo, overlaps>>

\* ScannerEnabledPropertyChangeListener, new value true: put a new task, cancel the one replaced.
NotifyEnabled(t) ==
  /\ MayLock(t) /\ call[t].value
  /\ \E task \in Tasks :
       /\ Schedule(call[t].scanner, task)
       /\ live' = (live \ {scheduled[call[t].scanner]}) \cup {task}
  /\ NotifyReturns(t)
  /\ UNCHANGED <<enabled, registered, lock, down, closing, todo, overlaps>>

\* New value true after shutdownNow: the RejectedExecutionException ends the whole call.
NotifyRejected(t) ==
  /\ MayLock(t) /\ call[t].value /\ down
  /\ Step(t, "notify", "idle", NoCall)
  /\ todo' = [todo EXCEPT ![t] = {}]
  /\ lock' = Null
  /\ UNCHANGED <<enabled, registered, scheduled, live, down, closing, overlaps>>

NotifyDisabledKeeps(t) ==                       \* mutant: the task is not cancelled
  /\ MayLock(t) /\ ~call[t].value
  /\ pc[t] = "notify"
  /\ NotifyReturns(t)
  /\ UNCHANGED <<enabled, registered, scheduled, live, lock, down, closing, todo, overlaps>>

\* New value false: cancel the task in the map and leave it there.
NotifyDisabled(t) ==
  /\ MayLock(t) /\ ~call[t].value
  /\ pc[t] = "notify"
  /\ live' = live \ {scheduled[call[t].scanner]}
  /\ NotifyReturns(t)
  /\ UNCHANGED <<enabled, registered, scheduled, lock, down, closing, todo, overlaps>>

-----------------------------------------------------------------------------
(* addScanner and removeScanner *)

\* if (!isAdded(scanner)) { scanner.addEnabledPropertyChangeListener(...)
AddScanner(t, s) ==
  /\ lock = Null /\ lock' = t
  /\ scheduled[s] = Absent
  /\ registered[s] < MaxRegistrations
  /\ registered' = [registered EXCEPT ![s] = @ + 1]
  /\ Step(t, "idle", "add", [NoCall EXCEPT !.scanner = s])
  /\ UNCHANGED <<enabled, scheduled, live, down, closing, todo, overlaps>>

\* ... scheduled_scanners.put(scanner, scanner.isEnabled() ? scheduleScanner(scanner) : null) }
AddSchedule(t) ==
  /\ Step(t, "add", "idle", NoCall)
  /\ lock' = Null
  /\ LET s == call[t].scanner
     IN  \/ /\ enabled[s]
            /\ \E task \in Tasks : Schedule(s, task) /\ live' = live \cup {task}
         \/ /\ ~enabled[s]
            /\ scheduled' = [scheduled EXCEPT ![s] = Null]
            /\ UNCHANGED live
         \/ /\ enabled[s] /\ down      \* rejected: the listener stays registered
            /\ UNCHANGED <<scheduled, live>>
  /\ UNCHANGED <<enabled, registered, down, closing, todo, overlaps>>

RemoveThenRead(t, s) ==                         \* mutant: the task is read after the removal
  /\ lock = Null
  /\ scheduled[s] # Absent
  /\ scheduled' = [scheduled EXCEPT ![s] = Absent]
  /\ Step(t, "idle", "cancel", [NoCall EXCEPT !.scanner = s, !.task = Absent])
  /\ UNCHANGED <<enabled, registered, live, lock, down, closing, todo, overlaps>>

\* synchronized (scheduled_scanners) { scheduled_scanners.remove(scanner) }
RemoveScanner(t, s) ==
  /\ lock = Null
  /\ scheduled[s] # Absent
  /\ scheduled' = [scheduled EXCEPT ![s] = Absent]
  /\ Step(t, "idle", "cancel", [NoCall EXCEPT !.scanner = s, !.task = scheduled[s]])
  /\ overlaps' = IF Setting(t, s) = {} THEN overlaps ELSE overlaps \cup {<<"removeScanner", s>>}
  /\ UNCHANGED <<enabled, registered, live, lock, down, closing, todo>>

RemoveCancel(t) ==
  /\ Step(t, "cancel", "unregister", [call[t] EXCEPT !.task = Null])
  /\ live' = live \ {call[t].task}
  /\ UNCHANGED <<enabled, registered, scheduled, lock, down, closing, todo, overlaps>>

RemoveKeepsListener(t) ==                       \* mutant: the listener is not unregistered
  /\ Step(t, "unregister", "idle", NoCall)
  /\ UNCHANGED <<enabled, registered, scheduled, live, lock, down, closing, todo, overlaps>>

RemoveUnregister(t) ==
  /\ Step(t, "unregister", "idle", NoCall)
  /\ registered' = [registered EXCEPT ![call[t].scanner] = IF @ = 0 THEN 0 ELSE @ - 1]
  /\ UNCHANGED <<enabled, scheduled, live, lock, down, closing, todo, overlaps>>

-----------------------------------------------------------------------------
(* setScanEnabled and shutdown *)

BeginSweep(t, b) ==
  /\ lock = Null /\ lock' = t
  /\ Step(t, "idle", "sweep", [NoCall EXCEPT !.value = b])
  /\ todo' = [todo EXCEPT ![t] = {s \in Scanners : scheduled[s] # Absent}]
  /\ UNCHANGED <<enabled, registered, scheduled, live, down, overlaps>>

SetScanEnabled(t, b) == BeginSweep(t, b) /\ UNCHANGED closing

\* shutdown begins with setScanEnabled(false); it is called once.
Shutdown(t) == closing = Null /\ BeginSweep(t, FALSE) /\ closing' = t

\* The sweep's next scanner, in no particular order: scanner.setEnabled(enabled).
SweepScanner(t, s) ==
  /\ pc[t] = "sweep"
  /\ s \in todo[t]
  /\ todo' = [todo EXCEPT ![t] = @ \ {s}]
  /\ \/ enabled[s] = call[t].value /\ UNCHANGED <<pc, call, enabled, overlaps>>
     \/ Swap(t, s, call[t].value, "sweep")
  /\ UNCHANGED <<registered, scheduled, live, lock, down, closing>>

EndSweep(t) ==
  /\ todo[t] = {}
  /\ Step(t, "sweep", IF closing = t THEN "cancelAll" ELSE "idle", NoCall)
  /\ lock' = Null
  /\ UNCHANGED <<enabled, registered, scheduled, live, down, closing, todo, overlaps>>

\* cancelScheduledScanners
CancelAll(t) ==
  /\ lock = Null
  /\ Step(t, "cancelAll", "terminate", NoCall)
  /\ live' = live \ {scheduled[s] : s \in Scanners}
  /\ UNCHANGED <<enabled, registered, scheduled, lock, down, closing, todo, overlaps>>

TerminateGently(t) ==                           \* mutant: shutdown() instead of shutdownNow()
  /\ Step(t, "terminate", "closed", NoCall)
  /\ down' = TRUE
  /\ UNCHANGED <<enabled, registered, scheduled, live, lock, closing, todo, overlaps>>

\* After the instances are killed and the hosts closed: scanner_scheduler.shutdownNow()
Terminate(t) ==
  /\ Step(t, "terminate", "closed", NoCall)
  /\ down' = TRUE
  /\ live' = {}
  /\ UNCHANGED <<enabled, registered, scheduled, lock, closing, todo, overlaps>>

-----------------------------------------------------------------------------
Continue(t) ==
  \/ Announce(t) \/ NotifyEnabled(t) \/ NotifyRejected(t) \/ NotifyDisabled(t)
  \/ AddSchedule(t) \/ RemoveCancel(t) \/ RemoveUnregister(t)
  \/ EndSweep(t) \/ CancelAll(t) \/ Terminate(t)
  \/ \E s \in Scanners : SweepScanner(t, s)

Next ==
  \/ \E t \in Threads : Continue(t)
  \/ \E t \in Togglers, s \in Scanners, b \in BOOLEAN : SetEnabled(t, s, b)
  \/ \E t \in Managers, s \in Scanners : AddScanner(t, s) \/ RemoveScanner(t, s)
  \/ \E t \in Sweepers : Shutdown(t) \/ \E b \in BOOLEAN : SetScanEnabled(t, b)

\* A call that has begun goes on, and a thread waiting for the monitor gets it some time.
Fairness == \A t \in Threads : SF_vars(Continue(t))

SafeSpec == Init /\ [][Next]_vars
Spec == SafeSpec /\ Fairness

-----------------------------------------------------------------------------
TypeOK ==
  /\ enabled \in [Scanners -> BOOLEAN]
  /\ registered \in [Scanners -> Nat]
  /\ scheduled \in [Scanners -> Tasks \cup {Null, Absent}]
  /\ live \subseteq Tasks
  /\ lock \in Threads \cup {Null}
  /\ down \in BOOLEAN
  /\ closing \in Sweepers \cup {Null}
  /\ pc \in [Threads -> {"idle", "announce", "notify", "add", "cancel", "unregister",
                         "sweep", "cancelAll", "terminate", "closed"}]
  /\ call \in [Threads -> Calls]
  /\ todo \in [Threads -> SUBSET Scanners]
  /\ overlaps \subseteq Overlaps

\* Nobody is in the middle of a call.
Quiescent == \A t \in Threads : pc[t] \in {"idle", "closed"}

\* No periodic task escapes (ApplicationNetwork.java:600, 607): a task that still runs is in the map,
\* under its own scanner, where disabling, removing and shutting down find it -- or a remover has
\* taken it out to cancel it.
NoOrphanSchedule ==
  \A task \in live : \/ scheduled[task[1]] = task
                     \/ \E t \in Threads : pc[t] = "cancel" /\ call[t].task = task

\* Scanner.setEnabled (Scanner.java:97): between calls, a scanner the network listens to is
\* scheduled exactly if it is enabled, whatever was added, removed and swept meanwhile, as long as no
\* two setEnabled calls on it overlapped.
ScheduleMatchesFlag ==
  Quiescent /\ ~down =>
    \A s \in Scanners :
      scheduled[s] # Absent /\ registered[s] > 0 /\ <<"setEnabled", s>> \notin overlaps
        => (enabled[s] <=> scheduled[s] \in live)

\* Between calls the network listens to the scanners in its map, once each (addScanner and
\* removeScanner, ApplicationNetwork.java:263 and 291), unless a removal overlapped a setEnabled.
HooksMatchMap ==
  Quiescent /\ ~down =>
    \A s \in Scanners :
      <<"removeScanner", s>> \notin overlaps => registered[s] = IF scheduled[s] = Absent THEN 0 ELSE 1

\* shutdown (ApplicationNetwork.java:368) ends with no scanner scheduled and none ever again,
\* whoever enables scanners meanwhile.
ShutdownEndsScans == (closing # Null) ~> [](down /\ live = {})
=============================================================================
