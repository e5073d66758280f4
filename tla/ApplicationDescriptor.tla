----------------------- MODULE ApplicationDescriptor ------------------------
(***************************************************************************)
(* The cached state of one ApplicationDescriptor and the threads that wait *)
(* for it, write it, or compare-and-set it.                                *)
(*                                                                         *)
(*   Waiters   calls of awaitAnyOfStates (each thread calls once)          *)
(*   Setters   threads in setApplicationState: deploy and kill             *)
(*   Casers    threads in compareAndSetApplicationState: the StatusScanner *)
(*                                                                         *)
(* awaitAnyOfStates and setApplicationState synchronise on the descriptor; *)
(* compareAndSetApplicationState does not.  PropertyChangeSupport fires    *)
(* only when the value changes, to a snapshot of the listeners, one after  *)
(* the other.                                                              *)
(***************************************************************************)
EXTENDS Naturals, FiniteSets

CONSTANTS Waiters, Setters, Casers,
          States,           \* the values of ApplicationState
          Targets,          \* [Waiters -> SUBSET States]: the awaited states
          NoThread          \* the descriptor's monitor is free

Writers == Setters \cup Casers

ASSUME ThreadsAssumption ==
  /\ Waiters \cap Writers = {} /\ Setters \cap Casers = {}
  /\ NoThread \notin Waiters \cup Writers
  /\ Targets \in [Waiters -> SUBSET States]

VARIABLES
  state,        \* AtomicReference<ApplicationState>
  monitor,      \* the thread in a synchronized block of the descriptor
  listeners,    \* the waiters whose LatchedStateChangeListener is registered
  latched,      \* the waiters whose CountDownLatch is still at 1
  pc,           \* where each thread is
  event,        \* [Writers -> States]: the new value a writer announces
  audience,     \* [Writers -> SUBSET Waiters]: listeners of the snapshot still to be called
  reached,      \* history: waiters whose awaited state was held since their call
  due,          \* history: waiters whose awaited state was entered while they were registered
  disturbed     \* history: waiters whose call overlapped a compareAndSetApplicationState

history == <<reached, due, disturbed>>
vars == <<state, monitor, listeners, latched, pc, event, audience, history>>

InitialStateNull == state = NoThread            \* mutant: the reference is left null
InitialState == state \in States

Init ==
  /\ InitialState
  /\ monitor = NoThread
  /\ listeners = {}
  /\ latched = {}
  /\ pc = [t \in Waiters \cup Writers |-> "idle"]
  /\ event = [t \in Writers |-> state]
  /\ audience = [t \in Writers |-> {}]
  /\ reached = {}
  /\ due = {}
  /\ disturbed = {}

Goto(t, from, to) == pc[t] = from /\ pc' = [pc EXCEPT ![t] = to]

Lock(t)   == monitor = NoThread /\ monitor' = t
Unlock(t) == monitor = t /\ monitor' = NoThread

\* The calls of awaitAnyOfStates that have begun and not ended.
Calling == {w \in Waiters : pc[w] \in {"check", "register", "await"}}

\* A writer has changed the state and is still telling the listeners.
Firing(t) == pc[t] \in {"fire", "deliver"}

\* The register takes value n; every call in progress that awaits n has now seen it.
Assign(n) ==
  /\ state' = n
  /\ reached' = reached \cup {w \in Calling : n \in Targets[w]}
  /\ due' = IF n = state THEN due ELSE due \cup {w \in listeners : n \in Targets[w]}

-----------------------------------------------------------------------------
(* awaitAnyOfStates *)

\* synchronized (this) {
AwaitEnter(w) ==
  /\ Goto(w, "idle", "check")
  /\ Lock(w)
  /\ reached' = IF state \in Targets[w] THEN reached \cup {w} ELSE reached
  /\ disturbed' = IF \E t \in Casers : Firing(t) THEN disturbed \cup {w} ELSE disturbed
  /\ UNCHANGED <<state, listeners, latched, event, audience, due>>

\* if (!isInAnyOfStates(states)) ...  (the state is in one of them: return at once)
AwaitCheck(w) ==
  /\ monitor = w
  /\ \/ /\ state \in Targets[w]
        /\ Goto(w, "check", "returned")
        /\ Unlock(w)
     \/ /\ state \notin Targets[w]
        /\ Goto(w, "check", "register")
        /\ UNCHANGED monitor
  /\ UNCHANGED <<state, listeners, latched, event, audience, history>>

\* ... { latched_listener = new LatchedStateChangeListener(states); addStateChangeListener(...) } }
AwaitRegister(w) ==
  /\ Goto(w, "register", "await")
  /\ Unlock(w)
  /\ listeners' = listeners \cup {w}
  /\ latched' = latched \cup {w}
  /\ UNCHANGED <<state, event, audience, history>>

AwaitReturnSpurious(w) ==                       \* mutant: a spurious wake-up ends the wait
  /\ Goto(w, "await", "returned")
  /\ listeners' = listeners \ {w}
  /\ UNCHANGED <<state, monitor, latched, event, audience, history>>

\* latched_listener.await() returns and the finally block removes the listener.
AwaitReturn(w) ==
  /\ w \notin latched
  /\ Goto(w, "await", "returned")
  /\ listeners' = listeners \ {w}
  /\ UNCHANGED <<state, monitor, latched, event, audience, history>>

\* latched_listener.await() throws InterruptedException; the finally block still runs.
AwaitInterrupt(w) ==
  /\ Goto(w, "await", "interrupted")
  /\ listeners' = listeners \ {w}
  /\ UNCHANGED <<state, monitor, latched, event, audience, history>>

-----------------------------------------------------------------------------
(* setApplicationState: synchronized, so the event is delivered under the monitor *)

SetStateUnsynchronized(t, n) ==                 \* mutant: without the monitor
  /\ Goto(t, "idle", IF n = state THEN "release" ELSE "fire")
  /\ Assign(n)
  /\ event' = [event EXCEPT ![t] = n]
  /\ UNCHANGED <<monitor, listeners, latched, audience, disturbed>>

\* state.getAndSet(new_state): firePropertyChange follows, but tells nobody if nothing changed.
SetState(t, n) ==
  /\ Lock(t)
  /\ Goto(t, "idle", IF n = state THEN "release" ELSE "fire")
  /\ Assign(n)
  /\ event' = [event EXCEPT ![t] = n]
  /\ UNCHANGED <<listeners, latched, audience, disturbed>>

SetRelease(t) ==
  /\ Unlock(t)
  /\ Goto(t, "release", "idle")
  /\ UNCHANGED <<state, listeners, latched, event, audience, history>>

(* compareAndSetApplicationState: no monitor, and the event is a step of its own *)

\* expect was read earlier, so it is any state; a failed compareAndSet changes nothing.
CompareAndSet(t, n) ==
  /\ Goto(t, "idle", IF n = state THEN "idle" ELSE "fire")
  /\ Assign(n)
  /\ event' = [event EXCEPT ![t] = n]
  /\ disturbed' = IF n = state THEN disturbed ELSE disturbed \cup Calling
  /\ UNCHANGED <<monitor, listeners, latched, audience>>

-----------------------------------------------------------------------------
(* PropertyChangeSupport.firePropertyChange, by setters and casers alike *)

Snapshot(t) ==
  /\ Goto(t, "fire", "deliver")
  /\ audience' = [audience EXCEPT ![t] = listeners]
  /\ UNCHANGED <<state, monitor, listeners, latched, event, history>>

DeliverAny(t, w) ==                             \* mutant: any change of state counts down
  /\ pc[t] = "deliver" /\ w \in audience[t]
  /\ audience' = [audience EXCEPT ![t] = @ \ {w}]
  /\ latched' = latched \ {w}
  /\ UNCHANGED <<state, monitor, listeners, pc, event, history>>

DeliverFirst(t, w) ==                           \* mutant: the first listener ends the delivery
  /\ pc[t] = "deliver" /\ w \in audience[t]
  /\ audience' = [audience EXCEPT ![t] = {}]
  /\ latched' = IF event[t] \in Targets[w] THEN latched \ {w} ELSE latched
  /\ UNCHANGED <<state, monitor, listeners, pc, event, history>>

\* LatchedStateChangeListener.propertyChange counts the latch down on a matching state.
Deliver(t, w) ==
  /\ pc[t] = "deliver"
  /\ w \in audience[t]
  /\ audience' = [audience EXCEPT ![t] = @ \ {w}]
  /\ latched' = IF event[t] \in Targets[w] THEN latched \ {w} ELSE latched
  /\ UNCHANGED <<state, monitor, listeners, pc, event, history>>

FireEnd(t) ==
  /\ audience[t] = {}
  /\ Goto(t, "deliver", IF t \in Setters THEN "release" ELSE "idle")
  /\ UNCHANGED <<state, monitor, listeners, latched, event, audience, history>>

-----------------------------------------------------------------------------
Fire(t) == Snapshot(t) \/ FireEnd(t) \/ \E w \in Waiters : Deliver(t, w)

AwaitStep(w) == AwaitCheck(w) \/ AwaitRegister(w) \/ AwaitReturn(w)

Next ==
  \/ \E w \in Waiters : AwaitEnter(w) \/ AwaitStep(w) \/ AwaitInterrupt(w)
  \/ \E t \in Setters : SetRelease(t) \/ \E n \in States : SetState(t, n)
  \/ \E t \in Casers : \E n \in States : CompareAndSet(t, n)
  \/ \E t \in Writers : Fire(t)

\* A thread that is inside a call keeps running; nobody has to start a call.
Fairness ==
  /\ \A w \in Waiters : WF_vars(AwaitStep(w))
  /\ \A t \in Writers : WF_vars(Fire(t))
  /\ \A t \in Setters : WF_vars(SetRelease(t))

SafeSpec == Init /\ [][Next]_vars
Spec == SafeSpec /\ Fairness

-----------------------------------------------------------------------------
TypeOK ==
  /\ state \in States
  /\ monitor \in Waiters \cup Setters \cup {NoThread}
  /\ listeners \subseteq Waiters /\ latched \subseteq Waiters
  /\ reached \subseteq Waiters /\ due \subseteq Waiters /\ disturbed \subseteq Waiters
  /\ pc \in [Waiters \cup Writers ->
               {"idle", "check", "register", "await", "returned", "interrupted",
                "fire", "deliver", "release"}]
  /\ event \in [Writers -> States]
  /\ audience \in [Writers -> SUBSET Waiters]

\* Writer t will still count down the latch of w.
WillRelease(t, w) ==
  /\ event[t] \in Targets[w]
  /\ pc[t] = "fire" \/ (pc[t] = "deliver" /\ w \in audience[t])

\* A registered listener is never skipped (LatchedStateChangeListener.java:52): a call whose state was
\* entered while its listener was registered is about to be released, whoever wrote the state.
RegisteredIsReleased ==
  \A w \in Waiters :
    pc[w] = "await" /\ w \in due /\ w \in latched => \E t \in Writers : WillRelease(t, w)

\* A call that sits on its latch although its state was reached since it was made is about to be
\* released by a writer that is still firing.
Awoken(w) ==
  pc[w] = "await" /\ w \in reached /\ w \in latched => \E t \in Writers : WillRelease(t, w)

\* The monitor loses no wake-up (awaitAnyOfStates, ApplicationDescriptor.java:154): a call that no
\* compareAndSetApplicationState overlapped is released once its state was reached.
UndisturbedAreAwoken == \A w \in Waiters \ disturbed : Awoken(w)

\* The comment of ApplicationDescriptor.java:157, "to prevent the state from changing between
\* checking the current state and adding the listener", for every call.
NoLostWakeup == \A w \in Waiters : Awoken(w)

\* No false return: a call that no compareAndSetApplicationState overlapped returns only if the
\* descriptor was in one of the awaited states at some point of the call (ApplicationDescriptor.java:149).
ReturnsOnlyIfReached ==
  \A w \in Waiters \ disturbed : pc[w] = "returned" => w \in reached

\* The abstract specification: the refinement hides the monitor and the listeners.
Abstract == INSTANCE StateAwait WITH
  phase <- [w \in Waiters |-> IF w \in Calling THEN "called" ELSE pc[w]]

ImplementsStateAwait == Abstract!ASpec
=============================================================================
