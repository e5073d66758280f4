------------------------ MODULE RingExperiment_proofs ------------------------
(***************************************************************************)
(* What TimedRetry promises, for every set of calls and every limit; and   *)
(* that an assembly whose joins, calls of it, have all returned makes one  *)
(* ring, for every set of nodes and every portion that is killed.          *)
(***************************************************************************)
EXTENDS RingExperiment, TLAPS

-----------------------------------------------------------------------------
(* TimedRetry *)

\* Where the caller of a call is says what its future and its thread can be.
CallerInv(c) ==
  /\ caller[c] = "idle" <=> future[c] = "none"
  /\ caller[c] = "idle" <=> runner[c] = "none"
  /\ caller[c] \in {"idle", "waiting"} => outcome[c] = "none" /\ future[c] # "cancelled"
  /\ caller[c] = "leaving" => future[c] # "cancelled"
  /\ caller[c] = "cancelling" => future[c] = "cancelled"
  /\ caller[c] = "returned" => future[c] # "new"
  /\ caller[c] # "returned" => c \notin interrupted /\ late[c] = 0
  /\ c \in interrupted => future[c] = "cancelled"

\* A future settled by the thread is the result of the thread, which is done.
FutureInv(c) ==
  /\ runner[c] = "over" => future[c] # "new"
  /\ c \in succeeded => runner[c] = "over"
  /\ future[c] \in {"value", "failure", "null"} => runner[c] = "over"
  /\ future[c] = "value" => c \in succeeded
  /\ future[c] \in {"failure", "null"} => c \notin succeeded
  /\ outcome[c] \in {"value", "failure", "null"} => future[c] = outcome[c]
  /\ future[c] = "null" => Limit[c] = 0

\* An attempt is begun only while another may fail, and by a thread that was not told to stop.
AttemptInv(c) ==
  /\ c \notin failed => retries[c] = 0
  /\ c \in Retried /\ Limit[c] # Unlimited /\ runner[c] \in {"proceed", "attempt"}
       => retries[c] < Limit[c]
  /\ late[c] # 0 /\ c \notin swallowed => runner[c] \notin {"queued", "proceed"}

\* At most one attempt is late, and a thread that is left knows of it, or an attempt has swallowed
\* the interrupt.
LeftInv(c) ==
  /\ late[c] <= 1 \/ c \in swallowed
  /\ caller[c] = "returned" => \/ runner[c] = "over"
                               \/ runner[c] = "queued" /\ future[c] # "new"
                               \/ c \in interrupted \cup swallowed

\* The inductive invariant, of those calls whose every step is modelled: all of them here, and all
\* but the joins in RingExperiment.
IInv(S) == TypeOK /\ \A c \in S : CallerInv(c) /\ FutureInv(c) /\ AttemptInv(c) /\ LeftInv(c)

-----------------------------------------------------------------------------
LEMMA InitIInv == Init => IInv(Calls)
  BY TimedRetryAssumption
     DEF Init, IInv, TypeOK, Outcomes, CallerInv, FutureInv, AttemptInv, LeftInv

\* A step of the caller keeps the invariant.
LEMMA CallerKeepsIInv ==
  ASSUME NEW S \in SUBSET Calls, IInv(S), NEW c \in S, Submit(c) \/ CallerStep(c)
  PROVE  IInv(S)'
<1> USE TimedRetryAssumption
    DEF TypeOK, Outcomes, CallerInv, FutureInv, AttemptInv, LeftInv, IInv, CallerMoves, Leave, running, history, calling
<1>1. CASE Submit(c)          BY <1>1 DEF Submit
<1>2. CASE GetResult(c)       BY <1>2 DEF GetResult
<1>3. CASE GetTimesOut(c)     BY <1>3 DEF GetTimesOut
<1>4. CASE GetInterrupted(c)  BY <1>4 DEF GetInterrupted
<1>5. CASE Cancel(c)          BY <1>5 DEF Cancel
<1>6. CASE Interrupt(c)       BY <1>6 DEF Interrupt
<1>7. QED BY <1>1, <1>2, <1>3, <1>4, <1>5, <1>6 DEF CallerStep

\* So does a step of the thread in the wrapper.
LEMMA WrapperKeepsIInv ==
  ASSUME NEW S \in SUBSET Calls, IInv(S), NEW c \in S, WrapperStep(c)
  PROVE  IInv(S)'
<1> USE TimedRetryAssumption
    DEF TypeOK, Outcomes, CallerInv, FutureInv, AttemptInv, LeftInv, IInv, RunnerMoves, Finish, running, history, calling, HasReachedMaxRetryCount
<1>1. CASE BeginTask(c)
  <2>1. /\ runner[c] = "queued"
        /\ UNCHANGED <<calling, future, running, history>>
    BY <1>1 DEF BeginTask
  <2>2. CASE future[c] # "new"
    <3>1. runner' = [runner EXCEPT ![c] = "over"]     BY <1>1, <2>2 DEF BeginTask
    <3>2. QED BY <2>1, <2>2, <3>1
  <2>3. CASE future[c] = "new" /\ c \in Retried
    <3>1. runner' = [runner EXCEPT ![c] = "check"]    BY <1>1, <2>3 DEF BeginTask
    <3>2. QED BY <2>1, <2>3, <3>1
  <2>4. CASE future[c] = "new" /\ c \notin Retried
    <3>1. runner' = [runner EXCEPT ![c] = "proceed"]  BY <1>1, <2>4 DEF BeginTask
    <3>2. QED BY <2>1, <2>4, <3>1
  <2>5. QED BY <2>2, <2>3, <2>4
<1>2. CASE CheckProceeds(c)     BY <1>2 DEF CheckProceeds
<1>3. CASE CheckThrows(c)       BY <1>3 DEF CheckThrows
<1>4. CASE SleepEnds(c)         BY <1>4 DEF SleepEnds
<1>5. CASE SleepInterrupted(c)  BY <1>5 DEF SleepInterrupted
<1>6. QED BY <1>1, <1>2, <1>3, <1>4, <1>5 DEF WrapperStep

\* And a step of the caller's task.
LEMMA AttemptKeepsIInv ==
  ASSUME NEW S \in SUBSET Calls, IInv(S), NEW c \in S,
         StartAttempt(c) \/ AttemptSucceeds(c) \/ AttemptThrows(c) \/ AttemptFails(c)
  PROVE  IInv(S)'
<1> USE TimedRetryAssumption
    DEF TypeOK, Outcomes, CallerInv, FutureInv, AttemptInv, LeftInv, IInv, RunnerMoves, Finish, running, history, calling
<1>1. CASE StartAttempt(c)     BY <1>1 DEF StartAttempt
<1>2. CASE AttemptSucceeds(c)  BY <1>2 DEF AttemptSucceeds
<1>3. CASE AttemptThrows(c)    BY <1>3 DEF AttemptThrows
<1>4. CASE AttemptFails(c)     BY <1>4 DEF AttemptFails
<1>5. QED BY <1>1, <1>2, <1>3, <1>4

\* A call keeps its invariant whichever of its two threads moves.
LEMMA NextIInv == IInv(Calls) /\ [Next]_timed => IInv(Calls)'
<1>1. ASSUME IInv(Calls), Next PROVE IInv(Calls)'
  BY <1>1, CallerKeepsIInv, WrapperKeepsIInv, AttemptKeepsIInv DEF Next
<1>2. ASSUME IInv(Calls), UNCHANGED timed PROVE IInv(Calls)'
  BY <1>2 DEF IInv, TypeOK, CallerInv, FutureInv, AttemptInv, LeftInv, timed, running, history, calling
<1>3. QED BY <1>1, <1>2
-----------------------------------------------------------------------------
\* Caller, future and thread of a call stay in step, whoever gives up, throws or is interrupted.
THEOREM IInvHolds == Spec => []IInv(Calls)
BY InitIInv, NextIInv, PTL DEF Spec

\* Types, and retry_count stays within max_retry_count.
THEOREM TypeCorrect == Spec => []TypeOK
BY IInvHolds, PTL DEF IInv

\* The null of `throw error` reaches a caller only if its maximum of attempts was zero.
THEOREM NoNullError == Spec => []NullErrorOnlyForZero
<1>1. IInv(Calls) => NullErrorOnlyForZero
  BY DEF IInv, NullErrorOnlyForZero, FutureInv
<1>2. QED BY <1>1, IInvHolds, PTL

\* cancel(true) is followed by at most one more attempt, unless an attempt swallowed the interrupt.
THEOREM FewLateAttempts == Spec => []AtMostOneLateAttempt
<1>1. IInv(Calls) => AtMostOneLateAttempt
  BY DEF IInv, AtMostOneLateAttempt, LeftInv
<1>2. QED BY <1>1, IInvHolds, PTL

\* A caller that returned leaves no thread that does not know, with the same exception.
THEOREM ThreadsAreTold == Spec => []LeftThreadIsTold
<1>1. IInv(Calls) => LeftThreadIsTold
  BY DEF IInv, LeftThreadIsTold, LeftInv
<1>2. QED BY <1>1, IInvHolds, PTL

-----------------------------------------------------------------------------
(* The code implements TimedCall *)

LEMMA InitPromise == Init => Promise!TInit
BY DEF Init, Promise!TInit

\* A step of the caller's is one of Report's, or changes nothing a caller sees.
LEMMA CallerImplements ==
  ASSUME NEW S \in SUBSET Calls, IInv(S), NEW c \in S, Submit(c) \/ CallerStep(c)
  PROVE  Promise!TNext \/ UNCHANGED Promise!tvars
<1> USE DEF IInv, TypeOK, Outcomes, CallerInv, FutureInv, Promise!tvars, history
<1>1. CASE GetResult(c)
  <2>1. /\ outcome[c] = "none"
        /\ future[c] \in {"value", "failure", "null"}
        /\ outcome' = [outcome EXCEPT ![c] = future[c]] /\ succeeded' = succeeded
    BY <1>1 DEF GetResult, Leave, CallerMoves
  <2>2. CASE future[c] = "value"
    <3>1. Promise!ReportValue(c)
      BY <2>1, <2>2 DEF Promise!ReportValue, Promise!Report
    <3>2. QED BY <3>1 DEF Promise!TNext
  <2>3. CASE future[c] \in {"failure", "null"}
    <3>1. Promise!ReportFailure(c)
      BY <2>1, <2>3 DEF Promise!ReportFailure, Promise!Report
    <3>2. QED BY <3>1 DEF Promise!TNext
  <2>4. QED BY <2>1, <2>2, <2>3
<1>2. CASE GetTimesOut(c) \/ GetInterrupted(c)
  <2>1. Promise!GiveUp(c)
    BY <1>2 DEF GetTimesOut, GetInterrupted, Leave, CallerMoves, Promise!GiveUp, Promise!Report
  <2>2. QED BY <2>1 DEF Promise!TNext
<1>3. CASE Submit(c) \/ Cancel(c) \/ Interrupt(c)
  BY <1>3 DEF Submit, Cancel, Interrupt
<1>4. QED BY <1>1, <1>2, <1>3 DEF CallerStep

\* The success of an attempt is Succeed, and all else is hidden.
LEMMA ThreadImplements ==
  ASSUME NEW S \in SUBSET Calls, IInv(S), NEW c \in S,
         WrapperStep(c) \/ StartAttempt(c) \/ AttemptSucceeds(c) \/ AttemptThrows(c) \/ AttemptFails(c)
  PROVE  Promise!TNext \/ UNCHANGED Promise!tvars
<1> USE DEF Promise!tvars, history, calling
<1>1. CASE AttemptSucceeds(c)
  <2>1. Promise!Succeed(c)
    BY <1>1 DEF AttemptSucceeds, Finish, RunnerMoves, IInv, FutureInv, Promise!Succeed
  <2>2. QED BY <2>1 DEF Promise!TNext
<1>2. CASE WrapperStep(c)
  BY <1>2 DEF WrapperStep, BeginTask, CheckProceeds, CheckThrows, SleepEnds, SleepInterrupted
<1>3. CASE StartAttempt(c) \/ AttemptThrows(c) \/ AttemptFails(c)
  BY <1>3 DEF StartAttempt, AttemptThrows, AttemptFails
<1>4. QED BY <1>1, <1>2, <1>3

\* Every behaviour of the code is one TimedCall allows.
THEOREM Implements == Spec => ImplementsTimedCall
<1>1. IInv(Calls) /\ [Next]_timed => [Promise!TNext]_(Promise!tvars)
  <2> SUFFICES ASSUME IInv(Calls), [Next]_timed PROVE Promise!TNext \/ UNCHANGED Promise!tvars
    OBVIOUS
  <2>1. CASE Next
    BY <2>1, CallerImplements, ThreadImplements DEF Next
  <2>2. CASE UNCHANGED timed
    BY <2>2 DEF timed, history, calling, Promise!tvars
  <2>3. QED BY <2>1, <2>2
<1>2. QED
  BY <1>1, InitPromise, IInvHolds, PTL DEF Spec, ImplementsTimedCall, Promise!TSpec

-----------------------------------------------------------------------------
(* RingExperiment *)

\* What the proof needs to know of types.
Types ==
  /\ round \in Rounds /\ ring \in [Nodes -> Nodes \X Rounds]
  /\ joined \subseteq Nodes /\ known \in [Joins -> Nodes \cup {NoNode}]
  /\ outcome = [c \in Calls |-> outcome[c]]

\* The nodes of joined_nodes are in one ring, and so are those that have joined in this round, be
\* they in the set yet, lost from it, or about to be added.
Together ==
  /\ \A m, n \in joined : ring[m] = ring[n]
  /\ \A n \in Nodes : <<n, round>> \in succeeded \cup adding
                        => joined # {} /\ \A k \in joined : ring[n] = ring[k]

\* An attempt under way knows a node of joined_nodes.
KnowsJoined == \A n \in Nodes :
  known[<<n, round>>] # NoNode => known[<<n, round>>] \in joined

\* The second round has not begun before it begins.
SecondRound ==
  /\ stage \in {"killing", "resurrecting"} => round = 1
  /\ round = 1 => \A n \in Nodes : /\ known[<<n, 2>>] = NoNode
                                   /\ <<n, 2>> \notin succeeded \cup adding

\* The inductive invariant: between two assemblies nodes are killed, and nothing need be together.
RInv ==
  /\ Types /\ SecondRound
  /\ \A c \in Joins : outcome[c] = "value" => c \in succeeded
  /\ stage \in {"none", "assembling", "awaiting"} => Together /\ KnowsJoined
  /\ stage = "awaiting" => \A n \in Nodes : outcome[<<n, round>>] = "value"

-----------------------------------------------------------------------------
\* A join is of a node in a round.
LEMMA JoinPair == \A c \in Joins : c = <<c[1], c[2]>> /\ c[1] \in Nodes /\ c[2] \in Rounds
BY DEF Joins

LEMMA InitRInv == RingInit => RInv
<1> SUFFICES ASSUME RingInit PROVE RInv
  OBVIOUS
<1> USE DEF RingInit, Init
<1>1. Types
  BY RingAssumption DEF Types, Rounds
<1>2. \A n \in Nodes : <<n, 1>> \in Joins /\ <<n, 2>> \in Joins
  BY DEF Joins, Rounds
<1>3. SecondRound /\ Together /\ KnowsJoined
  BY <1>2 DEF SecondRound, Together, KnowsJoined
<1>4. \A c \in Joins : outcome[c] = "none"
  BY RingAssumption, TimedRetryAssumption
<1>5. QED BY <1>1, <1>3, <1>4 DEF RInv

\* The steps of a join.
LEMMA JoinKeepsRInv ==
  ASSUME RInv, NEW c \in Joins, JoinStep(c)
  PROVE  RInv'
<1>1. /\ c \in Calls /\ stage = "assembling" /\ Types /\ SecondRound /\ Together /\ KnowsJoined
      /\ \A d \in Joins : outcome[d] = "value" => d \in succeeded
  BY RingAssumption, TimedRetryAssumption
     DEF RInv, JoinStep, Attempt, Join, JoinSucceeds, JoinFails, JoinReturns, UnderWay
<1>2. PICK j \in Nodes : c = <<j, round>> /\ c[1] = j
  BY JoinPair DEF JoinStep, Attempt, Join, JoinSucceeds, JoinFails, JoinReturns, UnderWay
<1>3. UNCHANGED <<stage, round>>
  BY DEF JoinStep, Attempt, Join, JoinSucceeds, JoinFails, JoinReturns, elsewhere, experiment
<1>4. /\ \A n \in Nodes : <<n, round>> \in Joins /\ <<n, 2>> \in Joins
      /\ \A n \in Nodes : n # j => <<n, round>> # c
      /\ round = 1 => \A n \in Nodes : <<n, 2>> # c
  <2>1. \A n \in Nodes : <<n, round>> \in Joins /\ <<n, 2>> \in Joins
    BY <1>1 DEF Joins, Rounds, Types
  <2>2. \A n \in Nodes : n # j => <<n, round>> # <<j, round>>
    OBVIOUS
  <2>3. round = 1 => \A n \in Nodes : <<n, 2>> # <<j, round>>
    OBVIOUS
  <2>4. QED BY <1>2, <2>1, <2>2, <2>3
<1>5. CASE Attempt(c)
  <2>1. /\ UNCHANGED <<ring, succeeded, adding, outcome>>
        /\ \E k \in Nodes : known' = [known EXCEPT ![c] = k] /\ k \in joined'
        /\ joined' = joined \/ (joined = {} /\ joined' = {j})
    BY <1>1, <1>2, <1>5 DEF Attempt, getRandomJoinedNode, Pick, Types
  <2>2. Types'        BY <1>1, <1>3, <2>1 DEF Types
  <2>3. SecondRound'  BY <1>1, <1>3, <1>4, <2>1 DEF SecondRound, Types
  <2>4. Together'     BY <1>1, <1>3, <2>1 DEF Together
  <2>5. KnowsJoined'  BY <1>1, <1>2, <1>3, <1>4, <2>1 DEF KnowsJoined, Types
  <2>6. QED BY <1>1, <1>3, <2>1, <2>2, <2>3, <2>4, <2>5 DEF RInv
<1>6. CASE Join(c) \/ JoinFails(c)
  <2>1. /\ UNCHANGED <<succeeded, outcome, joined>>
        /\ known[c] \in joined /\ joined \subseteq Nodes
        /\ ring' = ring \/ ring' = [ring EXCEPT ![j] = ring[known[c]]]
        /\ adding' = adding \/ (adding' = adding \cup {c} /\ ring' = [ring EXCEPT ![j] = ring[known[c]]])
        /\ known' = known \/ known' = [known EXCEPT ![c] = NoNode]
    BY <1>1, <1>2, <1>6 DEF Join, JoinFails, UnderWay, Enters, Pick, Types, KnowsJoined
  <2>2. Types'        BY <1>1, <1>3, <2>1 DEF Types
  <2>3. SecondRound'  BY <1>1, <1>3, <1>4, <2>1 DEF SecondRound, Types
  <2>4. Together'     BY <1>1, <1>2, <1>3, <1>4, <2>1 DEF Together, Types
  <2>5. KnowsJoined'  BY <1>1, <1>3, <1>4, <2>1 DEF KnowsJoined, Types
  <2>6. QED BY <1>1, <1>3, <2>1, <2>2, <2>3, <2>4, <2>5 DEF RInv
<1>7. CASE JoinSucceeds(c)
  <2>1. /\ UNCHANGED <<outcome, ring>> /\ c \in adding
        /\ succeeded' = succeeded \cup {c} /\ adding' = adding \ {c}
        /\ known' = [known EXCEPT ![c] = NoNode]
        /\ joined' = joined \cup {j} \/ joined' = joined
    BY <1>2, <1>7 DEF JoinSucceeds, Promise!Succeed, Pick
  <2>2. Types'        BY <1>1, <1>3, <2>1 DEF Types
  <2>3. SecondRound'  BY <1>1, <1>3, <1>4, <2>1 DEF SecondRound, Types
  <2>4. Together'     BY <1>1, <1>2, <1>3, <1>4, <2>1 DEF Together, Types
  <2>5. KnowsJoined'  BY <1>1, <1>3, <1>4, <2>1 DEF KnowsJoined, Types
  <2>6. QED BY <1>1, <1>3, <2>1, <2>2, <2>3, <2>4, <2>5 DEF RInv
<1>8. CASE JoinReturns(c)
  <2>1. /\ UNCHANGED <<succeeded, ring, joined, known, adding>>
        /\ outcome' = [outcome EXCEPT ![c] = "timeout"]
           \/ (c \in succeeded /\ outcome' = [outcome EXCEPT ![c] = "value"])
    BY <1>8 DEF JoinReturns, Promise!ReportValue, Promise!Report, assembly
  <2>2. /\ outcome' = [d \in Calls |-> outcome'[d]]
        /\ \A d \in Joins : outcome'[d] = "value" => outcome[d] = "value" \/ d \in succeeded
    BY <1>1, <2>1, RingAssumption, TimedRetryAssumption DEF Types
  <2>3. Types' /\ SecondRound' /\ Together' /\ KnowsJoined'
    BY <1>1, <1>3, <2>1, <2>2 DEF Types, SecondRound, Together, KnowsJoined
  <2>4. QED BY <1>1, <1>3, <2>1, <2>2, <2>3 DEF RInv
<1>9. QED BY <1>5, <1>6, <1>7, <1>8 DEF JoinStep

\* A call that is not of a join changes nothing of one.
LEMMA OtherKeepsRInv ==
  ASSUME RInv, NEW c \in Calls \ Joins, OtherCall(c)
  PROVE  RInv'
<1>1. /\ outcome' = [d \in Calls |-> outcome'[d]]
      /\ \A d \in Joins : outcome'[d] = outcome[d] /\ (d \in succeeded' <=> d \in succeeded)
  <2> USE RingAssumption, TimedRetryAssumption DEF RInv, Types, OtherCall, running, history, calling
  <2>1. CASE Submit(c) \/ CallerStep(c)
    BY <2>1 DEF Submit, CallerStep, GetResult, GetTimesOut, GetInterrupted, Leave, Cancel, Interrupt
  <2>2. CASE WrapperStep(c)
    BY <2>2 DEF WrapperStep, BeginTask, CheckProceeds, CheckThrows, SleepEnds, SleepInterrupted
  <2>3. CASE StartAttempt(c) \/ AttemptSucceeds(c) \/ AttemptThrows(c) \/ AttemptFails(c)
    BY <2>3 DEF StartAttempt, AttemptSucceeds, AttemptThrows, AttemptFails
  <2>4. QED BY <2>1, <2>2, <2>3 DEF OtherCall
<1>2. UNCHANGED <<stage, round, ring, joined, known, adding>>
  BY DEF OtherCall, experiment, assembly
<1>3. QED
  BY <1>1, <1>2 DEF RInv, Types, SecondRound, Together, KnowsJoined, Joins, Rounds

\* The experiment's own thread, and the nodes it kills.
LEMMA ExperimentKeepsRInv ==
  ASSUME RInv, Experiment
  PROVE  RInv'
<1> USE DEF RInv, Types, SecondRound, Together, KnowsJoined, Rounds, timed, history, calling,
        assembly, experiment, Joins
<1>1. CASE AssemblyEnds      BY <1>1 DEF AssemblyEnds, JoinsOfRound
<1>2. CASE AssemblyFails     BY <1>2 DEF AssemblyFails
<1>3. CASE AwaitReturns      BY <1>3 DEF AwaitReturns
<1>4. CASE EnableAutoDeploy  BY <1>4 DEF EnableAutoDeploy
<1>5. CASE Reassemble        BY <1>5 DEF Reassemble
<1>6. ASSUME NEW n \in Nodes, Kill(n) PROVE RInv'
  BY <1>6 DEF Kill
<1>7. ASSUME NEW n \in Nodes, Resurrect(n) PROVE RInv'
  BY <1>7 DEF Resurrect
<1>8. QED BY <1>1, <1>2, <1>3, <1>4, <1>5, <1>6, <1>7 DEF Experiment

\* Neither joins, measurements nor kills divide a ring that is being assembled.
LEMMA NextRInv == RInv /\ [RingNext]_vars => RInv'
<1>1. ASSUME RInv, RingNext PROVE RInv'
  <2>1. CASE Fire \/ MeasureWhole \/ MeasureLess
    <3>1. UNCHANGED <<outcome, succeeded, experiment, ring, assembly>>
      BY <2>1 DEF Fire, MeasureWhole, MeasureLess, timed, history, calling
    <3>2. QED
      BY <1>1, <3>1 DEF RInv, Types, SecondRound, Together, KnowsJoined, experiment, assembly
  <2>2. QED
    BY <1>1, <2>1, JoinKeepsRInv, OtherKeepsRInv, ExperimentKeepsRInv DEF RingNext
<1>2. ASSUME RInv, UNCHANGED vars PROVE RInv'
  BY <1>2 DEF RInv, Types, SecondRound, Together, KnowsJoined, vars, timed, history, calling,
     experiment, assembly
<1>3. QED BY <1>1, <1>2

-----------------------------------------------------------------------------
\* When all the joins of an assembly have returned, its nodes are in one ring.
THEOREM AssemblyMakesOneRing == RingSpec => []OneRing
<1>1. RInv => OneRing
  <2> SUFFICES ASSUME RInv, stage = "awaiting", NEW m \in Nodes, NEW n \in Nodes
               PROVE ring[m] = ring[n]
    BY DEF OneRing
  <2>1. <<m, round>> \in succeeded /\ <<n, round>> \in succeeded
    BY DEF RInv, Types, Joins
  <2>2. PICK k \in joined : ring[m] = ring[k] /\ ring[n] = ring[k]
    BY <2>1 DEF RInv, Together
  <2>3. QED BY <2>2
<1>2. QED BY <1>1, InitRInv, NextRInv, PTL DEF RingSpec

-----------------------------------------------------------------------------
(* What TimedRetry promises holds where joins are made of it, too *)

\* A join is a call of which only the promise is used: it is idle, and ends with its value or its
\* timeout.
JoinAtRest(c) == caller[c] = "idle" /\ late[c] = 0 /\ outcome[c] \in {"none", "value", "timeout"}

Others == Calls \ Joins

CallsInv == IInv(Others) /\ \A c \in Joins : JoinAtRest(c)

LEMMA InitCallsInv == RingInit => CallsInv
<1>1. RingInit => IInv(Calls)
  BY InitIInv DEF RingInit
<1>2. RingInit => \A c \in Joins : JoinAtRest(c)
  BY RingAssumption, TimedRetryAssumption DEF RingInit, Init, JoinAtRest
<1>3. QED BY <1>1, <1>2 DEF CallsInv, IInv, Others

\* A step of a join touches no other call.
LEMMA JoinKeepsCallsInv ==
  ASSUME CallsInv, NEW c \in Joins, JoinStep(c)
  PROVE  CallsInv' /\ (Promise!TNext \/ UNCHANGED Promise!tvars)
<1>1. c \in Calls /\ TypeOK /\ c \notin Others
  BY RingAssumption, TimedRetryAssumption DEF CallsInv, IInv, Others
<1>2. UNCHANGED resting
  BY DEF JoinStep, Attempt, Join, JoinSucceeds, JoinFails, JoinReturns, elsewhere
<1>3. \/ UNCHANGED <<outcome, succeeded>>
      \/ Promise!Succeed(c)
      \/ Promise!ReportValue(c)
      \/ Promise!Report(c, "timeout")
  BY DEF JoinStep, Attempt, Join, JoinSucceeds, JoinFails, JoinReturns
<1>4. Promise!TNext \/ UNCHANGED Promise!tvars
  BY <1>1, <1>3 DEF Promise!TNext, Promise!GiveUp, Promise!tvars
<1>5. /\ UNCHANGED outcome \/ \E o \in {"value", "timeout"} : outcome' = [outcome EXCEPT ![c] = o]
      /\ succeeded' \in {succeeded, succeeded \cup {c}}
  BY <1>3 DEF Promise!Succeed, Promise!ReportValue, Promise!Report
<1>6. TypeOK'
  BY <1>1, <1>2, <1>5 DEF TypeOK, Outcomes, resting, running
<1>7. \A d \in Others : /\ outcome'[d] = outcome[d]
                        /\ d \in succeeded' <=> d \in succeeded
  BY <1>1, <1>5 DEF TypeOK, Others
<1>8. \A d \in Others : CallerInv(d)' /\ FutureInv(d)' /\ AttemptInv(d)' /\ LeftInv(d)'
  BY <1>2, <1>7 DEF CallsInv, IInv, CallerInv, FutureInv, AttemptInv, LeftInv, resting, running
<1>9. ASSUME NEW d \in Joins PROVE JoinAtRest(d)'
  <2>1. d \in Calls /\ JoinAtRest(d) /\ caller' = caller /\ late' = late
    BY <1>2, RingAssumption, TimedRetryAssumption DEF CallsInv, resting
  <2>2. outcome'[d] = outcome[d] \/ outcome'[d] \in {"value", "timeout"}
    BY <1>1, <1>5, <2>1 DEF TypeOK
  <2>3. QED BY <2>1, <2>2 DEF JoinAtRest
<1>10. QED BY <1>4, <1>6, <1>8, <1>9 DEF CallsInv, IInv

\* And a step of another call none of a join.
LEMMA OtherKeepsCallsInv ==
  ASSUME CallsInv, NEW c \in Others, OtherCall(c)
  PROVE  CallsInv' /\ (Promise!TNext \/ UNCHANGED Promise!tvars)
<1>1. \/ Submit(c) \/ CallerStep(c) \/ WrapperStep(c)
      \/ StartAttempt(c) \/ AttemptSucceeds(c) \/ AttemptThrows(c) \/ AttemptFails(c)
  BY DEF OtherCall
<1>2. IInv(Others)' /\ (Promise!TNext \/ UNCHANGED Promise!tvars)
  <2>1. Others \in SUBSET Calls /\ IInv(Others)
    BY DEF Others, CallsInv
  <2>2. QED
    BY <1>1, <2>1, CallerKeepsIInv, WrapperKeepsIInv, AttemptKeepsIInv, CallerImplements,
       ThreadImplements
<1>3. ASSUME NEW d \in Joins PROVE JoinAtRest(d)'
  <2>1. d # c /\ JoinAtRest(d) /\ d \in Calls /\ TypeOK
    BY RingAssumption, TimedRetryAssumption DEF Others, CallsInv, IInv
  <2>2. /\ caller' = caller \/ \E v : caller' = [caller EXCEPT ![c] = v]
        /\ outcome' = outcome \/ \E v : outcome' = [outcome EXCEPT ![c] = v]
        /\ late' = late \/ \E v : late' = [late EXCEPT ![c] = v]
    <3> USE DEF calling, history
    <3>1. CASE Submit(c) \/ CallerStep(c)
      BY <3>1 DEF Submit, CallerStep, GetResult, GetTimesOut, GetInterrupted, Leave, Cancel,
         Interrupt, CallerMoves
    <3>2. CASE WrapperStep(c)
      BY <3>2 DEF WrapperStep, BeginTask, CheckProceeds, CheckThrows, SleepEnds, SleepInterrupted
    <3>3. CASE StartAttempt(c) \/ AttemptSucceeds(c) \/ AttemptThrows(c) \/ AttemptFails(c)
      BY <3>3 DEF StartAttempt, AttemptSucceeds, AttemptThrows, AttemptFails
    <3>4. QED BY <1>1, <3>1, <3>2, <3>3
  <2>3. caller'[d] = caller[d] /\ outcome'[d] = outcome[d] /\ late'[d] = late[d]
    BY <2>1, <2>2 DEF TypeOK
  <2>4. QED BY <2>1, <2>3 DEF JoinAtRest
<1>4. QED BY <1>2, <1>3 DEF CallsInv

\* Joins of the experiment and other calls keep theirs.
LEMMA NextCallsInv ==
  CallsInv /\ [RingNext]_vars => CallsInv' /\ [Promise!TNext]_(Promise!tvars)
<1> SUFFICES ASSUME CallsInv, [RingNext]_vars
             PROVE  CallsInv' /\ (Promise!TNext \/ UNCHANGED Promise!tvars)
  OBVIOUS
<1>1. ASSUME UNCHANGED timed
      PROVE  CallsInv' /\ (Promise!TNext \/ UNCHANGED Promise!tvars)
  <2>1. UNCHANGED <<caller, outcome, future, runner, interrupted, failed, retries, succeeded,
                    swallowed, late>>
    BY <1>1 DEF timed, calling, running, history
  <2>2. QED
    BY <2>1 DEF CallsInv, IInv, TypeOK, CallerInv, FutureInv, AttemptInv, LeftInv, JoinAtRest,
       Promise!tvars
<1>2. CASE Experiment \/ Fire \/ MeasureWhole \/ MeasureLess \/ UNCHANGED vars
  BY <1>1, <1>2 DEF Experiment, AssemblyEnds, AssemblyFails, AwaitReturns, EnableAutoDeploy,
     Reassemble, Kill, Resurrect, Fire, MeasureWhole, MeasureLess, vars
<1>3. QED
  BY <1>2, JoinKeepsCallsInv, OtherKeepsCallsInv DEF RingNext, Others

\* Joins or not: types, no null error, at most one late attempt, and no thread left unknowing.
THEOREM CallsStayTrue ==
  RingSpec => [](TypeOK /\ NullErrorOnlyForZero /\ AtMostOneLateAttempt /\ LeftThreadIsTold)
<1>1. CallsInv => TypeOK /\ NullErrorOnlyForZero /\ AtMostOneLateAttempt /\ LeftThreadIsTold
  <2> SUFFICES ASSUME CallsInv
               PROVE  TypeOK /\ NullErrorOnlyForZero /\ AtMostOneLateAttempt /\ LeftThreadIsTold
    OBVIOUS
  <2>1. TypeOK
    BY DEF CallsInv, IInv
  <2>2. ASSUME NEW c \in Calls
        PROVE  /\ outcome[c] = "null" => Limit[c] = 0
               /\ late[c] <= 1 \/ c \in swallowed
               /\ caller[c] = "returned" => \/ runner[c] = "over"
                                            \/ runner[c] = "queued" /\ future[c] # "new"
                                            \/ c \in interrupted \cup swallowed
    <3>1. CASE c \in Joins
      BY <3>1 DEF CallsInv, JoinAtRest
    <3>2. CASE c \in Others
      BY <3>2 DEF CallsInv, IInv, FutureInv, LeftInv
    <3>3. QED BY <3>1, <3>2 DEF Others
  <2>3. QED BY <2>1, <2>2 DEF NullErrorOnlyForZero, AtMostOneLateAttempt, LeftThreadIsTold
<1>2. QED BY <1>1, InitCallsInv, NextCallsInv, PTL DEF RingSpec

\* The joins of an assembly and every other call together do what TimedCall allows.
THEOREM RingImplements == RingSpec => ImplementsTimedCall
<1>1. RingInit => Promise!TInit
  BY InitPromise DEF RingInit
<1>2. QED
  BY <1>1, InitCallsInv, NextCallsInv, PTL DEF RingSpec, ImplementsTimedCall, Promise!TSpec

-----------------------------------------------------------------------------
(* The safety part of ExperimentEnds *)

\* Whoever waits for the ring to be whole, and found it so already, knows it as missed; otherwise
\* its being whole is still to be fired.
Heard == latch = "closed" /\ whole /\ ~announcing => missed

\* The wait of timeRingStabilization is for an event that is still to come, unless it came before
\* the listener was there: none is fired in between unheard.
THEOREM AwaitedSizeIsHeard == RingSpec => []Heard
<1>1. RingInit => Heard
  BY DEF RingInit, Heard
<1>2. Heard /\ [RingNext]_vars => Heard'
  <2> SUFFICES ASSUME Heard, [RingNext]_vars PROVE Heard'
    OBVIOUS
  <2>1. ASSUME UNCHANGED <<gauge, awaited>> PROVE Heard'
    BY <2>1 DEF Heard, gauge, awaited
  <2>2. ASSUME NEW c \in Joins, JoinStep(c) PROVE Heard'
    BY <2>1, <2>2 DEF JoinStep, Attempt, Join, JoinSucceeds, JoinFails, JoinReturns, elsewhere
  <2>3. ASSUME NEW c \in Calls \ Joins, OtherCall(c) PROVE Heard'
    BY <2>1, <2>3 DEF OtherCall
  <2>4. CASE AssemblyEnds
    BY <2>4 DEF AssemblyEnds, Heard, gauge
  <2>5. CASE AwaitReturns
    BY <2>5 DEF AwaitReturns, Heard
  <2>6. CASE \/ AssemblyFails \/ EnableAutoDeploy \/ Reassemble
             \/ \E n \in Nodes : Kill(n) \/ Resurrect(n)
    BY <2>1, <2>6 DEF AssemblyFails, EnableAutoDeploy, Reassemble, Kill, Resurrect
  <2>7. CASE Fire
    BY <2>7 DEF Fire, Heard
  <2>8. CASE MeasureWhole
    BY <2>8 DEF MeasureWhole, Heard
  <2>9. CASE MeasureLess
    BY <2>9 DEF MeasureLess, Heard
  <2>10. CASE UNCHANGED vars
    BY <2>1, <2>10 DEF vars
  <2>11. QED
    BY <2>2, <2>3, <2>4, <2>5, <2>6, <2>7, <2>8, <2>9, <2>10 DEF RingNext, Experiment
<1>3. QED BY <1>1, <1>2, PTL DEF RingSpec
=============================================================================
