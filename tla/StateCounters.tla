--------------------------- MODULE StateCounters ----------------------------
(***************************************************************************)
(* ApplicationStateCounters of the evaluation: how many descriptors are in *)
(* each state, counted by the changes they announce.  A counter is the sum *)
(* of what the descriptors contribute to it, one by one: this is the       *)
(* contribution of the descriptor of ApplicationDescriptor.                *)
(*                                                                         *)
(* Listeners of a descriptor do not see each other: there are either       *)
(* counters or waiters.                                                    *)
(***************************************************************************)
EXTENDS ApplicationDescriptor, Integers

VARIABLES
  counting,     \* "absent", "none" (not constructed yet), "listening" or "counted"
  counters,     \* [States -> Int]
  old,          \* [Writers -> States]: the old value a writer announces to counters
  telling,      \* the writers whose snapshot holds the counters, still to be called
  mixed         \* history: a change was announced while listenForStateChange was under way

counted == <<counting, counters, old, telling, mixed>>
all == <<vars, counted>>

CountingInit ==
  /\ Init
  /\ counting \in {"absent", "none"}
  /\ counters = [s \in States |-> 0]
  /\ old = [t \in Writers |-> state]
  /\ telling = {} /\ mixed = FALSE

\* descriptor.addStateChangeListener(this)
Listen ==
  /\ counting = "none" /\ counting' = "listening"
  /\ mixed' = \E t \in Writers : pc[t] = "fire"
  /\ UNCHANGED <<vars, counters, old, telling>>

\* counters.get(descriptor.getApplicationState()).increment(): the getter is synchronized.
CountCurrent ==
  /\ counting = "listening" /\ counting' = "counted"
  /\ monitor = NoThread
  /\ counters' = [counters EXCEPT ![state] = @ + 1]
  /\ UNCHANGED <<vars, old, telling, mixed>>

\* The event of a write holds the value it replaced.
Write(t, n) ==
  /\ \/ t \in Setters /\ SetState(t, n)
     \/ t \in Casers /\ CompareAndSet(t, n)
  /\ old' = IF counting = "absent" THEN old ELSE [old EXCEPT ![t] = state]
  /\ mixed' = (mixed \/ (counting = "listening" /\ n # state))
  /\ UNCHANGED <<counting, counters, telling>>

\* The snapshot of the listeners holds the counters from Listen on.
Tell(t) ==
  /\ Snapshot(t)
  /\ telling' = IF counting \in {"listening", "counted"} THEN telling \cup {t} ELSE telling
  /\ UNCHANGED <<counting, counters, old, mixed>>

CountTheStateNow(t) ==                          \* mutant: not the new value, but the state as it is
  /\ t \in telling /\ telling' = telling \ {t}
  /\ counters' = [s \in States |-> counters[s] - (IF s = old[t] THEN 1 ELSE 0)
                                               + (IF s = state THEN 1 ELSE 0)]
  /\ UNCHANGED <<vars, counting, old, mixed>>

\* propertyChange
propertyChange(t) ==
  /\ t \in telling /\ telling' = telling \ {t}
  /\ counters' = [s \in States |-> counters[s] - (IF s = old[t] THEN 1 ELSE 0)
                                               + (IF s = event[t] THEN 1 ELSE 0)]
  /\ UNCHANGED <<vars, counting, old, mixed>>

FireAll(t) ==
  \/ Tell(t)
  \/ propertyChange(t)
  \/ /\ (t \notin telling /\ FireEnd(t)) \/ \E w \in Waiters : Deliver(t, w)
     /\ UNCHANGED counted

CountingNext ==
  \/ Listen \/ CountCurrent
  \/ \E t \in Writers : FireAll(t) \/ \E n \in States : Write(t, n)
  \/ /\ \/ \E w \in Waiters : \/ counting = "absent" /\ AwaitEnter(w)
                              \/ AwaitStep(w) \/ AwaitInterrupt(w)
        \/ \E t \in Setters : SetRelease(t)
     /\ UNCHANGED counted

CountingFairness ==
  /\ \A w \in Waiters : WF_all(AwaitStep(w) /\ UNCHANGED counted)
  /\ \A t \in Writers : WF_all(FireAll(t))
  /\ \A t \in Setters : WF_all(SetRelease(t) /\ UNCHANGED counted)

CountingSpec == CountingInit /\ [][CountingNext]_all /\ CountingFairness

-----------------------------------------------------------------------------
\* The events of compareAndSetApplicationState come in any order, and those of writes that follow
\* each other overlap: once nobody is announcing any more, the descriptor is counted once, under
\* its state, unless it changed state while it was being registered (listenForStateChange).
CountersSettle ==
  /\ counting = "counted" /\ ~mixed
  /\ \A t \in Writers : pc[t] # "fire" /\ t \notin telling
  => counters = [s \in States |-> IF s = state THEN 1 ELSE 0]
=============================================================================
