--------------------------- MODULE RingExperiment ----------------------------
(***************************************************************************)
(* ChordResurrectionExperiment: once all its nodes run, they are made one  *)
(* Chord ring, which is awaited; a portion of them is killed, they are     *)
(* deployed again, all join again, and the ring is awaited again.          *)
(*                                                                         *)
(* Every node joins in a call of TimeoutExecutorService.retry of its own,  *)
(* whose attempts share joined_nodes.  Of retry only the promise is used   *)
(* (TimedCall, which TimedRetry implements): outcome and succeeded are     *)
(* TimedRetry's, its other variables rest at a join.  That the nodes are   *)
(* deployed is ApplicationNetwork's business.  Chord is a library: what    *)
(* is taken from it is that a node that joins another is in its ring from  *)
(* then on, and that the length of a cycle is at most that of the ring.    *)
(***************************************************************************)
EXTENDS TimedRetry, FiniteSets

CONSTANTS
  Nodes,        \* the descriptors of the network
  kill_portion, \* how many per cent of them are killed
  NoNode        \* null

Rounds == {1, 2}
Joins == Nodes \X Rounds      \* the call of retry in joinWithRetry, of a node in a round
network_size == Cardinality(Nodes)
getNumberOfKillCandidates == (network_size * kill_portion) \div 100

ASSUME RingAssumption ==
  /\ IsFiniteSet(Nodes) /\ NoNode \notin Nodes /\ kill_portion \in 0..100
  /\ Joins \subseteq Retried /\ \A c \in Joins : Limit[c] = Unlimited

VARIABLES
  stage,        \* "none" (no experiment here), "assembling", "awaiting", "killing",
                \* "resurrecting", "over" or "failed"
  round,        \* 1 until the killed nodes are back
  up,           \* the nodes that run
  ring,         \* [Nodes -> Nodes \X Rounds]: the ring a node is in, named after its first node
  joined,       \* joined_nodes
  known,        \* [Joins -> Nodes \cup {NoNode}]: known_node of the attempt under way
  adding,       \* the joins whose attempt has joined, and is about to add its node to joined_nodes
  whole,        \* ring_size of the ChordRingSizeScanner is network_size
  announcing,   \* the scanner is about to fire that it became so
  latch,        \* stabilization_latch: "none", "closed" or "open"; its listener is there unless "none"
  missed        \* history: the size awaited had been announced before there was a listener

experiment == <<stage, round>>
assembly == <<joined, known, adding>>
gauge == <<whole, announcing>>
awaited == <<latch, missed>>
vars == <<timed, experiment, up, ring, assembly, gauge, awaited>>

RingInit ==
  /\ Init
  /\ stage \in {"none", "assembling"} /\ round = 1
  /\ up = Nodes /\ ring = [n \in Nodes |-> <<n, 1>>]
  /\ joined = {} /\ known = [c \in Joins |-> NoNode] /\ adding = {}
  /\ whole = FALSE /\ announcing = FALSE
  /\ latch = "none" /\ missed = FALSE

-----------------------------------------------------------------------------
(* assembleRing: a task per node, that calls joinWithRetry *)

JoinsOfRound == Nodes \X {round}
resting == <<caller, future, runner, running, swallowed, late>>
elsewhere == <<resting, experiment, up, gauge, awaited>>

Pick(c, k) == known' = [known EXCEPT ![c] = k]

\* mutant: getRandomJoinedNode without its monitor: several nodes find joined_nodes empty.
PickUnsynchronized(c) ==
  \/ succeeded \cap JoinsOfRound = {} /\ Pick(c, c[1]) /\ joined' = joined \cup {c[1]}
  \/ \E k \in joined : Pick(c, k) /\ UNCHANGED joined

\* Under the monitor of the experiment: the first node is joined to itself.
getRandomJoinedNode(c) ==
  \/ joined = {} /\ Pick(c, c[1]) /\ joined' = {c[1]}
  \/ \E k \in joined : Pick(c, k) /\ UNCHANGED joined

\* An attempt begins, as long as there was no success.  A node is added under another monitor
\* than that of getRandomJoinedNode, which may find null meanwhile: an attempt that fails at
\* once, and changes nothing.  What attempts do once the experiment has failed is not used.
Attempt(c) ==
  /\ stage = "assembling" /\ c[2] = round
  /\ c \notin succeeded /\ known[c] = NoNode
  /\ getRandomJoinedNode(c)
  /\ UNCHANGED <<outcome, succeeded, ring, adding, elsewhere>>

UnderWay(c) == stage = "assembling" /\ c[2] = round /\ known[c] # NoNode /\ c \notin adding
Enters(c) == ring' = [ring EXCEPT ![c[1]] = ring[known[c]]]

\* joiner.getRemote().join(joinee)
Join(c) ==
  /\ UnderWay(c) /\ Enters(c)
  /\ adding' = adding \cup {c}
  /\ UNCHANGED <<outcome, succeeded, joined, known, elsewhere>>

\* joined_nodes.add(joiner_descriptor), of which one may be lost when two overlap: the lock is
\* that of the Callable of the call, not of the experiment.
JoinSucceeds(c) ==
  /\ stage = "assembling" /\ c[2] = round /\ c \in adding
  /\ Promise!Succeed(c)
  /\ adding' = adding \ {c} /\ Pick(c, NoNode)
  /\ \/ joined' = joined \cup {c[1]}
     \/ adding # {c} /\ UNCHANGED joined
  /\ UNCHANGED <<ring, elsewhere>>

\* No answer: the remote node may have joined all the same.
JoinFails(c) ==
  /\ UnderWay(c) /\ Pick(c, NoNode)
  /\ UNCHANGED ring \/ Enters(c)
  /\ UNCHANGED <<outcome, succeeded, joined, adding, elsewhere>>

\* What the call returns: it throws no failure, for its attempts have no limit.
JoinReturns(c) ==
  /\ stage = "assembling" /\ c[2] = round
  /\ Promise!ReportValue(c) \/ Promise!Report(c, "timeout")
  /\ UNCHANGED <<ring, assembly, elsewhere>>

\* Every future_join.get() returned; timeRingStabilization adds its listener and waits.
AssemblyEnds ==
  /\ stage = "assembling"
  /\ \A c \in JoinsOfRound : outcome[c] = "value"
  /\ stage' = "awaiting" /\ latch' = "closed"
  /\ missed' = (whole /\ ~announcing)
  /\ UNCHANGED <<timed, round, up, ring, assembly, gauge>>

\* One of them threw: so does the experiment.
AssemblyFails ==
  /\ stage = "assembling"
  /\ \E c \in JoinsOfRound : outcome[c] = "timeout"
  /\ stage' = "failed"
  /\ UNCHANGED <<timed, round, up, ring, assembly, gauge, awaited>>

-----------------------------------------------------------------------------
(* ChordRingSizeScanner.scan, which is synchronized, and the listener of timeRingStabilization *)

ScannerEnabled == stage \notin {"none", "over", "failed"}
RingIsWhole == up = Nodes /\ \A m, n \in Nodes : ring[m] = ring[n]

\* scan is synchronized: getAndSet, and then the event, if the size has changed.
MeasureWhole ==
  /\ ScannerEnabled /\ RingIsWhole /\ ~whole
  /\ whole' = TRUE /\ announcing' = TRUE
  /\ UNCHANGED <<timed, experiment, up, ring, assembly, awaited>>

\* Nodes are missing, or the ring has not stabilised and is found smaller than it is.  Changes
\* from one such size to another, and their events, make no difference to anybody.
MeasureLess ==
  /\ ScannerEnabled /\ whole /\ ~announcing
  /\ whole' = FALSE
  /\ UNCHANGED <<timed, experiment, up, ring, assembly, announcing, awaited>>

FireOldSize ==                                  \* mutant: event.getOldValue().equals(network_size)
  /\ announcing /\ announcing' = FALSE
  /\ UNCHANGED <<timed, experiment, up, ring, assembly, whole, latch, missed>>

\* fireRingSizeChange, heard by the listener of timeRingStabilization if it is there.
Fire ==
  /\ announcing /\ announcing' = FALSE
  /\ latch' = IF latch = "closed" THEN "open" ELSE latch
  /\ UNCHANGED <<timed, experiment, up, ring, assembly, whole, missed>>

\* stabilization_latch.await() returns, and the listener is removed.
AwaitReturns ==
  /\ stage = "awaiting" /\ latch = "open"
  /\ stage' = IF round = 1 /\ kill_portion > 0 THEN "killing" ELSE "over"
  /\ latch' = "none"
  /\ UNCHANGED <<timed, round, up, ring, assembly, gauge, missed>>

-----------------------------------------------------------------------------
(* ResurrectionExperiment: killPortionOfNetwork, and the wait until all run again *)

KilledEnough == Cardinality(Nodes \ up) = getNumberOfKillCandidates

\* network.kill, then the node is forgotten: one kill at a time, each is awaited.
Kill(n) ==
  /\ stage = "killing" /\ ~KilledEnough /\ n \in up
  /\ up' = up \ {n} /\ joined' = joined \ {n}
  /\ UNCHANGED <<timed, experiment, ring, known, adding, gauge, awaited>>

EnableAutoDeploy ==
  /\ stage = "killing" /\ KilledEnough
  /\ stage' = "resurrecting"
  /\ UNCHANGED <<timed, round, up, ring, assembly, gauge, awaited>>

\* The AutoDeployScanner deploys a new instance, alone in its ring.
Resurrect(n) ==
  /\ stage = "resurrecting" /\ n \in Nodes \ up
  /\ up' = up \cup {n} /\ ring' = [ring EXCEPT ![n] = <<n, 2>>]
  /\ UNCHANGED <<timed, experiment, assembly, gauge, awaited>>

\* reAssembleRing: the whole network joins again.
Reassemble ==
  /\ stage = "resurrecting" /\ up = Nodes
  /\ stage' = "assembling" /\ round' = 2 /\ joined' = {}
  /\ UNCHANGED <<timed, up, ring, known, adding, gauge, awaited>>

-----------------------------------------------------------------------------
\* Where there is no experiment, one call of the library: calls share nothing, and TimedRetry's
\* theorems are about any number of them.
OtherCall(c) ==
  /\ c \notin Joins /\ stage = "none"
  /\ \/ (\A d \in Calls \ Joins : caller[d] = "idle") /\ Submit(c)
     \/ CallerStep(c) \/ WrapperStep(c)
     \/ StartAttempt(c) \/ AttemptSucceeds(c) \/ AttemptThrows(c) \/ AttemptFails(c)
  /\ UNCHANGED <<experiment, up, ring, assembly, gauge, awaited>>

JoinStep(c) == Attempt(c) \/ Join(c) \/ JoinSucceeds(c) \/ JoinFails(c) \/ JoinReturns(c)

Experiment == \/ AssemblyEnds \/ AssemblyFails \/ AwaitReturns
              \/ EnableAutoDeploy \/ Reassemble
              \/ \E n \in Nodes : Kill(n) \/ Resurrect(n)

RingNext == \/ \E c \in Joins : JoinStep(c)
            \/ \E c \in Calls \ Joins : OtherCall(c)
            \/ Experiment
            \/ Fire
            \/ MeasureWhole \/ MeasureLess

\* The call of a join ends, with its value or at its timeout, but the attempts may hang: no
\* fairness for them.  The scanner is periodic, and a ring that is left alone settles: it is
\* measured as large as it is again and again, if other sizes are measured in between or not.
RingFairness ==
  /\ \A c \in Joins : WF_vars(JoinReturns(c))
  /\ WF_vars(Experiment) /\ WF_vars(Fire)
  /\ SF_vars(MeasureWhole)

RingSpec == RingInit /\ [][RingNext]_vars /\ RingFairness

-----------------------------------------------------------------------------
\* When every join of an assembly has returned its value, all nodes are in one ring, whatever
\* attempts failed after the remote node had joined, and whoever was added to joined_nodes when
\* (getRandomJoinedNode; the TODO at ChordResurrectionExperiment.java:166).
OneRing == stage = "awaiting" => \A m, n \in Nodes : ring[m] = ring[n]

\* The experiment ends, unless the size it awaits was announced before there was anybody to hear
\* it: then it may wait for ever (timeRingStabilization adds its listener after the assembly).
ExperimentEnds == stage # "none" ~> stage \in {"over", "failed"} \/ missed
=============================================================================
