-------------------- MODULE ApplicationDescriptor_proofs --------------------
(***************************************************************************)
(* Proofs about the cached state of a descriptor, for any number of        *)
(* threads and any awaited states.                                         *)
(***************************************************************************)
EXTENDS StateCounters, FiniteSetTheorems, TLAPS

\* Every variable of the descriptor keeps its type, with or without compare-and-set writers.
THEOREM TypeCorrect == SafeSpec => []TypeOK
<1> USE ThreadsAssumption DEF TypeOK, Writers
<1>1. Init => TypeOK
  BY DEF Init, InitialState
<1>2. TypeOK /\ [Next]_vars => TypeOK'
  <2> SUFFICES ASSUME TypeOK, [Next]_vars PROVE TypeOK'
    OBVIOUS
  <2> USE DEF Goto, Lock, Unlock, Assign, history
  <2>1. ASSUME NEW w \in Waiters, AwaitEnter(w) PROVE TypeOK'
    BY <2>1 DEF AwaitEnter
  <2>2. ASSUME NEW w \in Waiters, AwaitCheck(w) PROVE TypeOK'
    BY <2>2 DEF AwaitCheck
  <2>3. ASSUME NEW w \in Waiters, AwaitRegister(w) PROVE TypeOK'
    BY <2>3 DEF AwaitRegister
  <2>4. ASSUME NEW w \in Waiters, AwaitReturn(w) PROVE TypeOK'
    BY <2>4 DEF AwaitReturn
  <2>5. ASSUME NEW w \in Waiters, AwaitInterrupt(w) PROVE TypeOK'
    BY <2>5 DEF AwaitInterrupt
  <2>6. ASSUME NEW t \in Setters, NEW n \in States, SetState(t, n) PROVE TypeOK'
    BY <2>6 DEF SetState, Calling
  <2>7. ASSUME NEW t \in Setters, SetRelease(t) PROVE TypeOK'
    BY <2>7 DEF SetRelease
  <2>8. ASSUME NEW t \in Casers, NEW n \in States, CompareAndSet(t, n) PROVE TypeOK'
    BY <2>8 DEF CompareAndSet, Calling
  <2>9. ASSUME NEW t \in Writers, Fire(t) PROVE TypeOK'
    BY <2>9 DEF Fire, Snapshot, Deliver, FireEnd
  <2>10. CASE UNCHANGED vars
    BY <2>10 DEF vars
  <2>11. QED
    BY <2>1, <2>2, <2>3, <2>4, <2>5, <2>6, <2>7, <2>8, <2>9, <2>10 DEF Next, AwaitStep
<1>3. QED
  BY <1>1, <1>2, PTL DEF SafeSpec

-----------------------------------------------------------------------------
\* The strengthening of RegisteredIsReleased: a waiter's listener is registered exactly while it is
\* on its latch, and a state entered for its benefit was entered after its registration.
RegisteredInv ==
  /\ \A w \in Waiters : w \in listeners <=> pc[w] = "await"
  /\ \A w \in due : pc[w] \in {"await", "returned", "interrupted"}
  /\ RegisteredIsReleased

\* No listener that is registered when the state changes to one it matches is forgotten, even if
\* compareAndSetApplicationState changed it.
THEOREM NoListenerForgotten == SafeSpec => []RegisteredIsReleased
<1> USE ThreadsAssumption DEF Writers
<1>1. Init => RegisteredInv
  BY DEF Init, InitialState, RegisteredInv, RegisteredIsReleased
<1>2. TypeOK /\ RegisteredInv /\ [Next]_vars => RegisteredInv'
  <2> SUFFICES ASSUME TypeOK, RegisteredInv, [Next]_vars PROVE RegisteredInv'
    OBVIOUS
  <2> USE DEF TypeOK, RegisteredInv, RegisteredIsReleased, WillRelease, Goto, Lock, Unlock, Assign, history
  <2>1. ASSUME NEW w \in Waiters, AwaitEnter(w) PROVE RegisteredInv'
    BY <2>1 DEF AwaitEnter
  <2>2. ASSUME NEW w \in Waiters, AwaitCheck(w) PROVE RegisteredInv'
    BY <2>2 DEF AwaitCheck
  <2>3. ASSUME NEW w \in Waiters, AwaitRegister(w) PROVE RegisteredInv'
    BY <2>3 DEF AwaitRegister
  <2>4. ASSUME NEW w \in Waiters, AwaitReturn(w) PROVE RegisteredInv'
    BY <2>4 DEF AwaitReturn
  <2>5. ASSUME NEW w \in Waiters, AwaitInterrupt(w) PROVE RegisteredInv'
    BY <2>5 DEF AwaitInterrupt
  <2>6. ASSUME NEW t \in Setters, NEW n \in States, SetState(t, n) PROVE RegisteredInv'
    BY <2>6 DEF SetState
  <2>7. ASSUME NEW t \in Setters, SetRelease(t) PROVE RegisteredInv'
    BY <2>7 DEF SetRelease
  <2>8. ASSUME NEW t \in Casers, NEW n \in States, CompareAndSet(t, n) PROVE RegisteredInv'
    BY <2>8 DEF CompareAndSet
  <2>9. ASSUME NEW t \in Writers, Snapshot(t) PROVE RegisteredInv'
    BY <2>9 DEF Snapshot
  <2>10. ASSUME NEW t \in Writers, NEW w \in Waiters, Deliver(t, w) PROVE RegisteredInv'
    BY <2>10 DEF Deliver
  <2>11. ASSUME NEW t \in Writers, FireEnd(t) PROVE RegisteredInv'
    BY <2>11 DEF FireEnd
  <2>12. CASE UNCHANGED vars
    BY <2>12 DEF vars
  <2>13. QED
    BY <2>1, <2>2, <2>3, <2>4, <2>5, <2>6, <2>7, <2>8, <2>9, <2>10, <2>11, <2>12
       DEF Next, AwaitStep, Fire
<1>3. QED
  BY <1>1, <1>2, TypeCorrect, PTL DEF SafeSpec, RegisteredInv

-----------------------------------------------------------------------------
\* What the monitor guarantees: the threads that hold it, and that nothing but its own change is told
\* to a call that no compareAndSet disturbed.
MonitorInv ==
  /\ \A w \in Waiters : pc[w] \in {"check", "register"} => monitor = w
  /\ \A t \in Setters : pc[t] \in {"fire", "deliver", "release"} => monitor = t
  /\ \A w \in Calling \ disturbed :
       /\ \A t \in Casers : ~Firing(t)
       /\ \A t \in Setters : Firing(t) => event[t] = state

\* What an undisturbed call knows: it registers only while its state is not held, and once on its
\* latch it has seen the state it waits for if that is the state held now, or if the latch is open.
Knows(w) ==
  /\ pc[w] = "register" => w \notin reached /\ state \notin Targets[w]
  /\ pc[w] \in {"check", "await"} /\ state \in Targets[w] => w \in reached
  /\ pc[w] = "check" /\ w \in reached => state \in Targets[w]
  /\ pc[w] = "await" /\ w \notin latched => w \in reached

WaiterInv ==
  /\ \A w \in Waiters : pc[w] = "idle" => w \notin reached
  /\ \A w \in Waiters : w \in listeners <=> pc[w] = "await"
  /\ \A w \in Waiters \ disturbed : Knows(w)

AwaitInv == MonitorInv /\ WaiterInv /\ UndisturbedAreAwoken /\ ReturnsOnlyIfReached

\* AwaitInv is inductive.
LEMMA AwaitInvariant == SafeSpec => []AwaitInv
<1> USE ThreadsAssumption DEF Writers
<1> USE DEF AwaitInv, MonitorInv, WaiterInv, Knows, UndisturbedAreAwoken, Awoken, ReturnsOnlyIfReached
<1>1. Init => AwaitInv
  BY DEF Init, InitialState, Calling, Firing
<1>2. TypeOK /\ AwaitInv /\ [Next]_vars => AwaitInv'
  <2> SUFFICES ASSUME TypeOK, AwaitInv, [Next]_vars PROVE AwaitInv'
    OBVIOUS
  <2> USE DEF TypeOK, WillRelease, Goto, Lock, Unlock, Assign, Calling, Firing, history
  <2>1. ASSUME NEW w \in Waiters, AwaitEnter(w) PROVE AwaitInv'
    BY <2>1 DEF AwaitEnter
  <2>2. ASSUME NEW w \in Waiters, AwaitCheck(w) PROVE AwaitInv'
    BY <2>2 DEF AwaitCheck
  <2>3. ASSUME NEW w \in Waiters, AwaitRegister(w) PROVE AwaitInv'
    BY <2>3 DEF AwaitRegister
  <2>4. ASSUME NEW w \in Waiters, AwaitReturn(w) PROVE AwaitInv'
    BY <2>4 DEF AwaitReturn
  <2>5. ASSUME NEW w \in Waiters, AwaitInterrupt(w) PROVE AwaitInv'
    BY <2>5 DEF AwaitInterrupt
  <2>6. ASSUME NEW t \in Setters, NEW n \in States, SetState(t, n) PROVE AwaitInv'
    BY <2>6 DEF SetState
  <2>7. ASSUME NEW t \in Setters, SetRelease(t) PROVE AwaitInv'
    BY <2>7 DEF SetRelease
  <2>8. ASSUME NEW t \in Casers, NEW n \in States, CompareAndSet(t, n) PROVE AwaitInv'
    BY <2>8 DEF CompareAndSet
  <2>9. ASSUME NEW t \in Writers, Snapshot(t) PROVE AwaitInv'
    BY <2>9 DEF Snapshot
  <2>10. ASSUME NEW t \in Writers, NEW w \in Waiters, Deliver(t, w) PROVE AwaitInv'
    BY <2>10 DEF Deliver
  <2>11. ASSUME NEW t \in Writers, FireEnd(t) PROVE AwaitInv'
    BY <2>11 DEF FireEnd
  <2>12. CASE UNCHANGED vars
    BY <2>12 DEF vars
  <2>13. QED
    BY <2>1, <2>2, <2>3, <2>4, <2>5, <2>6, <2>7, <2>8, <2>9, <2>10, <2>11, <2>12
       DEF Next, AwaitStep, Fire
<1>3. QED
  BY <1>1, <1>2, TypeCorrect, PTL DEF SafeSpec

\* awaitAnyOfStates loses no wake-up of a call that no compareAndSetApplicationState overlaps.
THEOREM MonitorPreventsLostWakeup == SafeSpec => []UndisturbedAreAwoken
<1>1. AwaitInv => UndisturbedAreAwoken
  BY DEF AwaitInv
<1>2. QED
  BY <1>1, AwaitInvariant, PTL

\* awaitAnyOfStates returns only after an awaited state, unless a compareAndSetApplicationState
\* overlapped the call.
THEOREM MonitorPreventsFalseReturn == SafeSpec => []ReturnsOnlyIfReached
<1>1. AwaitInv => ReturnsOnlyIfReached
  BY DEF AwaitInv
<1>2. QED
  BY <1>1, AwaitInvariant, PTL

-----------------------------------------------------------------------------
\* The safety part of the abstract specification, with the refinement's substitution.
AbstractSafeSpec == Abstract!AInit /\ [][Abstract!ANext]_(Abstract!avars)

\* The monitor, the listeners and the latches implement StateAwait: every step of the descriptor is
\* a step of the register and its calls, or hidden.
THEOREM ImplementsStateAwaitSafely == SafeSpec => AbstractSafeSpec
<1> USE ThreadsAssumption DEF Writers
<1>1. Init => Abstract!AInit
  BY DEF Init, InitialState, Abstract!AInit, Calling
<1>2. TypeOK /\ TypeOK' /\ AwaitInv /\ AwaitInv' /\ [Next]_vars => [Abstract!ANext]_(Abstract!avars)
  <2> SUFFICES ASSUME TypeOK, TypeOK', AwaitInv, AwaitInv', [Next]_vars
               PROVE  [Abstract!ANext]_(Abstract!avars)
    OBVIOUS
  <2> DEFINE phase == [w \in Waiters |-> IF w \in Calling THEN "called" ELSE pc[w]]
  <2> USE DEF TypeOK, Goto, Lock, Unlock, Calling, history
  <2>1. ASSUME NEW w \in Waiters, AwaitEnter(w) PROVE Abstract!Call(w)
    BY <2>1 DEF AwaitEnter, Abstract!Call
  <2>2. ASSUME NEW w \in Waiters, AwaitCheck(w)
        PROVE  Abstract!Return(w) \/ UNCHANGED Abstract!avars
    <3>1. CASE state \in Targets[w]
      <4>1. w \in reached \cup disturbed
        BY <2>2, <3>1 DEF AwaitCheck, AwaitInv, WaiterInv, Knows
      <4>2. Abstract!Return(w)
        BY <2>2, <3>1, <4>1 DEF AwaitCheck, Abstract!Return
      <4> QED BY <4>2
    <3>2. CASE state \notin Targets[w]
      BY <2>2, <3>2 DEF AwaitCheck, Abstract!avars
    <3>3. QED BY <3>1, <3>2
  <2>3. ASSUME NEW w \in Waiters, AwaitRegister(w) PROVE UNCHANGED Abstract!avars
    BY <2>3 DEF AwaitRegister, Abstract!avars
  <2>4. ASSUME NEW w \in Waiters, AwaitReturn(w) PROVE Abstract!Return(w)
    <3>1. w \in reached \cup disturbed
      BY <2>4 DEF AwaitReturn, AwaitInv, WaiterInv, Knows
    <3>2. QED
      BY <2>4, <3>1 DEF AwaitReturn, Abstract!Return
  <2>5. ASSUME NEW w \in Waiters, AwaitInterrupt(w) PROVE Abstract!Interrupted(w)
    BY <2>5 DEF AwaitInterrupt, Abstract!Interrupted
  <2>6. ASSUME NEW t \in Setters, NEW n \in States, SetState(t, n) PROVE Abstract!Write(n)
    <3>1. phase' = phase
      BY <2>6 DEF SetState
    <3>2. Abstract!Called = Calling
      BY DEF Abstract!Called
    <3>3. QED
      BY <2>6, <3>1, <3>2 DEF SetState, Assign, Abstract!Write, Abstract!Assigned
  <2>7. ASSUME NEW t \in Setters, SetRelease(t) PROVE UNCHANGED Abstract!avars
    BY <2>7 DEF SetRelease, Abstract!avars
  <2>8. ASSUME NEW t \in Casers, NEW n \in States, CompareAndSet(t, n)
        PROVE  Abstract!Update(n) \/ Abstract!Write(n)
    <3>1. phase' = phase
      BY <2>8 DEF CompareAndSet
    <3>2. Abstract!Called = Calling
      BY DEF Abstract!Called
    <3>3. QED
      BY <2>8, <3>1, <3>2 DEF CompareAndSet, Assign, Abstract!Update, Abstract!Write, Abstract!Assigned
  <2>9. ASSUME NEW t \in Writers, Fire(t) PROVE UNCHANGED Abstract!avars
    BY <2>9 DEF Fire, Snapshot, Deliver, FireEnd, Abstract!avars
  <2>10. CASE UNCHANGED vars
    BY <2>10 DEF vars, Abstract!avars
  <2>11. QED
    BY <2>1, <2>2, <2>3, <2>4, <2>5, <2>6, <2>7, <2>8, <2>9, <2>10
       DEF Next, AwaitStep, Abstract!ANext
<1>3. QED
  BY <1>1, <1>2, TypeCorrect, AwaitInvariant, PTL DEF SafeSpec, AbstractSafeSpec

-----------------------------------------------------------------------------
(* ApplicationStateCounters *)

\* Counting is something the descriptor does not notice: with counters among its listeners it behaves
\* as without, so that what is proved of it holds there as well.
THEOREM CountingKeepsDescriptor == CountingSpec => SafeSpec
<1>1. CountingInit => Init
  BY DEF CountingInit
<1>2. [CountingNext]_all => [Next]_vars
  BY DEF CountingNext, Listen, CountCurrent, Write, FireAll, Tell, propertyChange, Next, Fire, all, Writers
<1> QED BY <1>1, <1>2, PTL DEF CountingSpec, SafeSpec

\* The writers whose change the counters have not been told of yet.
Pending == {t \in Writers : pc[t] = "fire"} \cup telling

Leaving(s)  == {t \in Pending : old[t] = s}
Entering(s) == {t \in Pending : event[t] = s}

\* What a counter of state s lacks is what the pending changes will bring.
Balanced(s) ==
  counters[s] = (IF s = state THEN 1 ELSE 0) + Cardinality(Leaving(s)) - Cardinality(Entering(s))

CountInv ==
  /\ counters \in [States -> Int] /\ old \in [Writers -> States]
  /\ telling \subseteq {t \in Writers : pc[t] = "deliver"}
  /\ IsFiniteSet(Pending)
  /\ counting \in {"absent", "none"} => counters = [s \in States |-> 0] /\ telling = {}
  /\ counting = "listening" /\ ~mixed => counters = [s \in States |-> 0] /\ Pending = {}
  /\ counting = "counted" /\ ~mixed => \A s \in States : Balanced(s)

\* The pending changes that leave, or enter, a state are finitely many.
LEMMA CountsAreNumbers ==
  ASSUME CountInv, NEW s
  PROVE  /\ IsFiniteSet(Leaving(s)) /\ IsFiniteSet(Entering(s))
         /\ Cardinality(Leaving(s)) \in Nat /\ Cardinality(Entering(s)) \in Nat
<1>1. Leaving(s) \subseteq Pending /\ Entering(s) \subseteq Pending
  BY DEF Leaving, Entering
<1>2. IsFiniteSet(Leaving(s)) /\ IsFiniteSet(Entering(s))
  BY <1>1, FS_Subset DEF CountInv
<1> QED BY <1>2, FS_CardinalityType

\* Counting one more, or one less.
LEMMA OneMore ==
  ASSUME NEW S, NEW T, NEW x, IsFiniteSet(S), x \notin S, NEW p \in BOOLEAN,
         T = IF p THEN S \cup {x} ELSE S
  PROVE  Cardinality(T) = Cardinality(S) + (IF p THEN 1 ELSE 0)
<1>1. Cardinality(S) \in Nat
  BY FS_CardinalityType
<1>2. Cardinality(S \cup {x}) = Cardinality(S) + 1
  BY FS_AddElement
<1> QED BY <1>1, <1>2

LEMMA OneLess ==
  ASSUME NEW S, NEW T, NEW x, IsFiniteSet(S), NEW p \in BOOLEAN, x \in S <=> p, T = S \ {x}
  PROVE  Cardinality(T) = Cardinality(S) - (IF p THEN 1 ELSE 0)
<1>1. Cardinality(S) \in Nat
  BY FS_CardinalityType
<1>2. Cardinality(S \ {x}) = IF x \in S THEN Cardinality(S) - 1 ELSE Cardinality(S)
  BY FS_RemoveElement
<1> QED BY <1>1, <1>2

\* What no counter depends on.
LEMMA UntoldKeepsCounts ==
  ASSUME CountInv, UNCHANGED <<counted, state>>, Pending' = Pending,
         \A t \in Pending : event'[t] = event[t],
         telling \subseteq {t \in Writers : pc'[t] = "deliver"}
  PROVE  CountInv'
<1>1. \A s : Leaving(s)' = Leaving(s) /\ Entering(s)' = Entering(s)
  BY DEF Leaving, Entering, counted
<1> QED BY <1>1 DEF CountInv, Balanced, counted

\* A change: the writer is pending from now on.
LEMMA WriteKeepsCounts ==
  ASSUME TypeOK, CountInv, NEW t \in Writers, NEW n \in States, Write(t, n), n # state
  PROVE  CountInv'
<1>1. /\ pc[t] = "idle" /\ pc' = [pc EXCEPT ![t] = "fire"] /\ event' = [event EXCEPT ![t] = n]
      /\ state' = n /\ UNCHANGED <<counting, counters, telling>>
      /\ old' = IF counting = "absent" THEN old ELSE [old EXCEPT ![t] = state]
      /\ mixed' = (mixed \/ counting = "listening")
  BY DEF Write, SetState, CompareAndSet, Goto, Assign
<1>2. t \notin Pending /\ Pending' = Pending \cup {t}
  BY <1>1 DEF Pending, CountInv, TypeOK, Writers
<1>3. IsFiniteSet(Pending')
  BY <1>2, FS_AddElement DEF CountInv
<1>4. /\ counters' \in [States -> Int] /\ old' \in [Writers -> States]
      /\ telling' \subseteq {u \in Writers : pc'[u] = "deliver"}
  BY <1>1 DEF CountInv, TypeOK, Writers
<1>5. ASSUME counting = "counted", ~mixed', NEW s \in States PROVE Balanced(s)'
  <2>1. \A u \in Pending : old'[u] = old[u] /\ event'[u] = event[u]
    BY <1>1, <1>2 DEF CountInv, TypeOK, Pending
  <2>2. old'[t] = state /\ event'[t] = n
    BY <1>1, <1>5 DEF CountInv, TypeOK
  <2>3. /\ Leaving(s)' = IF s = state THEN Leaving(s) \cup {t} ELSE Leaving(s)
        /\ Entering(s)' = IF s = n THEN Entering(s) \cup {t} ELSE Entering(s)
        /\ t \notin Leaving(s) /\ t \notin Entering(s)
    BY <1>2, <2>1, <2>2 DEF Leaving, Entering
  <2>4. /\ Cardinality(Leaving(s)') = Cardinality(Leaving(s)) + (IF s = state THEN 1 ELSE 0)
        /\ Cardinality(Entering(s)') = Cardinality(Entering(s)) + (IF s = n THEN 1 ELSE 0)
    BY <2>3, CountsAreNumbers, OneMore
  <2>5. Balanced(s) /\ counters[s] \in Int
    BY <1>1, <1>5 DEF CountInv
  <2> QED BY <1>1, <2>4, <2>5, CountsAreNumbers DEF Balanced
<1> QED BY <1>1, <1>3, <1>4, <1>5 DEF CountInv

\* A listener that is told: what was pending is counted.
LEMMA TellingKeepsCounts ==
  ASSUME TypeOK, CountInv, NEW t \in Writers, propertyChange(t)
  PROVE  CountInv'
<1>1. /\ t \in telling /\ telling' = telling \ {t} /\ UNCHANGED <<vars, counting, old, mixed>>
      /\ counters' = [s \in States |-> counters[s] - (IF s = old[t] THEN 1 ELSE 0)
                                                   + (IF s = event[t] THEN 1 ELSE 0)]
  BY DEF propertyChange
<1>2. t \in Pending /\ Pending' = Pending \ {t}
  BY <1>1 DEF Pending, CountInv, vars
<1>3. IsFiniteSet(Pending')
  BY <1>2, FS_RemoveElement DEF CountInv
<1>4. counters' \in [States -> Int] /\ telling' \subseteq {u \in Writers : pc'[u] = "deliver"}
  BY <1>1 DEF CountInv, vars
<1>5. ASSUME counting = "counted", ~mixed, NEW s \in States PROVE Balanced(s)'
  <2>1. /\ Leaving(s)' = Leaving(s) \ {t} /\ (t \in Leaving(s) <=> s = old[t])
        /\ Entering(s)' = Entering(s) \ {t} /\ (t \in Entering(s) <=> s = event[t])
    BY <1>1, <1>2 DEF Leaving, Entering, vars
  <2>2. /\ Cardinality(Leaving(s)') = Cardinality(Leaving(s)) - (IF s = old[t] THEN 1 ELSE 0)
        /\ Cardinality(Entering(s)') = Cardinality(Entering(s)) - (IF s = event[t] THEN 1 ELSE 0)
    BY <2>1, CountsAreNumbers, OneLess
  <2>3. Balanced(s) /\ counters[s] \in Int
    BY <1>5 DEF CountInv
  <2>4. counters'[s] = counters[s] - (IF s = old[t] THEN 1 ELSE 0) + (IF s = event[t] THEN 1 ELSE 0)
        /\ state' = state
    BY <1>1 DEF vars
  <2> QED BY <2>2, <2>3, <2>4, CountsAreNumbers DEF Balanced
<1> QED BY <1>1, <1>2, <1>3, <1>4, <1>5 DEF CountInv

\* Whatever the writers do and in whichever order their events arrive, the counters stay balanced.
LEMMA CountInductive == TypeOK /\ CountInv /\ [CountingNext]_all => CountInv'
<1> SUFFICES ASSUME TypeOK, CountInv, [CountingNext]_all PROVE CountInv'
  OBVIOUS
<1>1. CASE Listen
  BY <1>1 DEF Listen, CountInv, Pending, Leaving, Entering, Balanced, vars
<1>2. CASE CountCurrent
  <2>1. /\ counting = "listening" /\ counting' = "counted" /\ UNCHANGED <<vars, old, telling, mixed>>
        /\ counters' = [counters EXCEPT ![state] = @ + 1]
    BY <1>2 DEF CountCurrent
  <2>2. Pending' = Pending
    BY <2>1 DEF Pending, vars
  <2>3. ASSUME ~mixed, NEW s \in States PROVE Balanced(s)'
    <3>1. Leaving(s)' = {} /\ Entering(s)' = {}
      BY <2>1, <2>2, <2>3 DEF CountInv, Leaving, Entering
    <3>2. counters'[s] = (IF s = state THEN 1 ELSE 0) /\ state' = state
      BY <2>1, <2>3 DEF CountInv, TypeOK, vars
    <3> QED BY <3>1, <3>2, FS_EmptySet DEF Balanced
  <2> QED BY <2>1, <2>2, <2>3 DEF CountInv, TypeOK, vars
<1>3. ASSUME NEW t \in Writers, NEW n \in States, Write(t, n) PROVE CountInv'
  <2>1. CASE n # state
    BY <1>3, <2>1, WriteKeepsCounts
  <2>2. CASE n = state
    <3>1. /\ pc[t] = "idle" /\ (\A u \in Writers \ {t} : pc'[u] = pc[u])
          /\ pc'[t] \in {"idle", "release"}
      BY <1>3, <2>2 DEF Write, SetState, CompareAndSet, Goto, TypeOK, Writers
    <3>2. /\ event' = [event EXCEPT ![t] = n] /\ state' = state
          /\ old' = IF counting = "absent" THEN old ELSE [old EXCEPT ![t] = state]
          /\ UNCHANGED <<counting, counters, telling>> /\ (mixed => mixed')
      BY <1>3, <2>2 DEF Write, SetState, CompareAndSet, Assign, CountInv
    <3>3. old' \in [Writers -> States] /\ \A u \in Writers \ {t} : old'[u] = old[u]
      BY <3>2 DEF TypeOK, CountInv
    <3>4. t \notin Pending /\ Pending' = Pending
      BY <3>1, <3>2 DEF Pending, CountInv
    <3>5. \A s : Leaving(s)' = Leaving(s) /\ Entering(s)' = Entering(s)
      BY <3>2, <3>3, <3>4 DEF Leaving, Entering, TypeOK, Pending, CountInv
    <3>6. telling' \subseteq {u \in Writers : pc'[u] = "deliver"}
      BY <3>1, <3>2 DEF CountInv
    <3> QED BY <3>2, <3>3, <3>4, <3>5, <3>6 DEF CountInv, Balanced
  <2> QED BY <2>1, <2>2
<1>4. ASSUME NEW t \in Writers, Tell(t) PROVE CountInv'
  <2>1. /\ pc[t] = "fire" /\ pc' = [pc EXCEPT ![t] = "deliver"]
        /\ UNCHANGED <<state, event, counting, counters, old, mixed>>
        /\ telling' = IF counting \in {"listening", "counted"} THEN telling \cup {t} ELSE telling
    BY <1>4 DEF Tell, Snapshot, Goto
  <2>2. telling' \subseteq {u \in Writers : pc'[u] = "deliver"}
    BY <2>1 DEF CountInv, TypeOK, Writers
  <2>3. CASE counting \in {"listening", "counted"}
    <3>1. Pending' = Pending
      BY <2>1, <2>2, <2>3 DEF Pending, CountInv, TypeOK, Writers
    <3>2. \A s : Leaving(s)' = Leaving(s) /\ Entering(s)' = Entering(s)
      BY <2>1, <3>1 DEF Leaving, Entering
    <3> QED BY <2>1, <2>2, <2>3, <3>1, <3>2 DEF CountInv, Balanced
  <2>4. CASE counting \notin {"listening", "counted"}
    <3>1. Pending' \subseteq Pending
      BY <2>1, <2>4 DEF Pending, CountInv, TypeOK, Writers
    <3>2. IsFiniteSet(Pending')
      BY <3>1, FS_Subset DEF CountInv
    <3> QED BY <2>1, <2>2, <2>4, <3>2 DEF CountInv
  <2> QED BY <2>3, <2>4
<1>5. ASSUME NEW t \in Writers, propertyChange(t) PROVE CountInv'
  BY <1>5, TellingKeepsCounts
<1>6. ASSUME NEW t \in Writers, t \notin telling /\ FireEnd(t), UNCHANGED counted PROVE CountInv'
  <2>1. /\ pc[t] = "deliver" /\ pc' = [pc EXCEPT ![t] = IF t \in Setters THEN "release" ELSE "idle"]
        /\ UNCHANGED <<state, event>>
    BY <1>6 DEF FireEnd, Goto
  <2>2. Pending' = Pending /\ telling \subseteq {u \in Writers : pc'[u] = "deliver"}
    BY <1>6, <2>1 DEF Pending, CountInv, TypeOK, Writers, counted
  <2> QED BY <1>6, <2>1, <2>2, UntoldKeepsCounts
<1>7. ASSUME NEW t \in Writers, NEW w \in Waiters, Deliver(t, w), UNCHANGED counted PROVE CountInv'
  BY <1>7, UntoldKeepsCounts DEF Deliver, Pending, CountInv, counted
<1>8. ASSUME NEW w \in Waiters, AwaitEnter(w) \/ AwaitStep(w) \/ AwaitInterrupt(w), UNCHANGED counted
      PROVE  CountInv'
  <2>1. w \notin Writers /\ UNCHANGED <<state, event>>
    BY <1>8, ThreadsAssumption DEF AwaitEnter, AwaitStep, AwaitCheck, AwaitRegister, AwaitReturn, AwaitInterrupt
  <2>2. \A u \in Writers : pc'[u] = pc[u]
    BY <1>8, <2>1 DEF AwaitEnter, AwaitStep, AwaitCheck, AwaitRegister, AwaitReturn, AwaitInterrupt, Goto, TypeOK
  <2>3. Pending' = Pending /\ telling \subseteq {u \in Writers : pc'[u] = "deliver"}
    BY <1>8, <2>2 DEF Pending, CountInv, counted
  <2> QED BY <1>8, <2>1, <2>3, UntoldKeepsCounts
<1>9. ASSUME NEW t \in Setters, SetRelease(t), UNCHANGED counted PROVE CountInv'
  <2>1. /\ pc[t] = "release" /\ pc' = [pc EXCEPT ![t] = "idle"] /\ UNCHANGED <<state, event>>
    BY <1>9 DEF SetRelease, Goto
  <2>2. Pending' = Pending /\ telling \subseteq {u \in Writers : pc'[u] = "deliver"}
    BY <1>9, <2>1 DEF Pending, CountInv, TypeOK, Writers, counted
  <2> QED BY <1>9, <2>1, <2>2, UntoldKeepsCounts
<1>10. CASE UNCHANGED all
  BY <1>10, UntoldKeepsCounts DEF all, vars, Pending, CountInv, counted
<1> QED
  BY <1>1, <1>2, <1>3, <1>4, <1>5, <1>6, <1>7, <1>8, <1>9, <1>10 DEF CountingNext, FireAll

\* Events that overlap, overtake each other or come late do not upset the counters, for any number of
\* writers and states: once all have arrived, the descriptor is counted once, under its state.
THEOREM CountersAgree == CountingSpec => []CountersSettle
<1>1. CountingInit => CountInv
  BY FS_EmptySet DEF CountingInit, Init, InitialState, CountInv, Pending, Writers
<1>2. CountInv => CountersSettle
  <2> SUFFICES ASSUME CountInv, counting = "counted", ~mixed, \A t \in Writers : pc[t] # "fire" /\ t \notin telling
               PROVE  counters = [s \in States |-> IF s = state THEN 1 ELSE 0]
    BY DEF CountersSettle
  <2>1. Pending = {}
    BY DEF Pending, CountInv
  <2>2. \A s : Leaving(s) = {} /\ Entering(s) = {}
    BY <2>1 DEF Leaving, Entering
  <2>3. ASSUME NEW s \in States PROVE counters[s] = IF s = state THEN 1 ELSE 0
    <3>1. Balanced(s)
      BY DEF CountInv
    <3>2. Cardinality(Leaving(s)) = 0 /\ Cardinality(Entering(s)) = 0
      BY <2>2, FS_EmptySet
    <3> QED BY <3>1, <3>2 DEF Balanced
  <2> QED BY <2>3 DEF CountInv
<1> QED
  BY <1>1, <1>2, CountInductive, CountingKeepsDescriptor, TypeCorrect, PTL DEF CountingSpec
=============================================================================
