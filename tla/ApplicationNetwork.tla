------------------------- MODULE ApplicationNetwork -------------------------
(***************************************************************************)
(* The life of the application instances of an ApplicationNetwork, between *)
(* the scans of its four scanners, the calls of its users, the hosts, and  *)
(* shutdown.                                                               *)
(*                                                                         *)
(* A thread runs one scan, or one user's call, on one descriptor at a      *)
(* time.  Every scan reads the cached state and acts on it later; only the *)
(* StatusScanner checks, by compare-and-set, that it is still what it      *)
(* read.  A scanner does not scan a descriptor twice at a time unless a    *)
(* scan lingers into the next cycle (ConcurrentScanner).                   *)
(***************************************************************************)
EXTENDS Naturals

CONSTANTS
  Descriptors,
  Ids,             \* bound: numbers that tell the instances of a descriptor apart
  StatusThreads, DeployThreads, KillThreads, RemoveThreads,   \* scans, by scanner
  UserThreads,     \* threads that call deploy, kill, add and remove
  HostStates,      \* what probing a host may find (UNKNOWN: there is none)
  CallsRemotely,   \* attemptApplicationCall of the manager calls the application; WorkerManager's does not
  Lingers,         \* a scan may outlive its cycle, and meet the next one of its descriptor
  Interrupts,      \* cycles end before their scans, which interrupts what the scans call
  HostsRest,       \* bound on the hosts: none changes during a status scan of its descriptor
  None             \* no descriptor, instance or state

\* ApplicationState; nothing in the code sets LAUNCHED.
States == {"AUTH", "UNREACHABLE", "INVALID", "NO_AUTH", "DEPLOYED", "RUNNING", "KILLED", "UNKNOWN"}
Scanning == StatusThreads \cup DeployThreads \cup KillThreads \cup RemoveThreads

\* One task of killAllSilently for each descriptor, run by network_executor_service.
Killers == {"killAllSilently"} \X Descriptors
Threads == Scanning \cup UserThreads \cup Killers

\* The instances the manager of a descriptor may start.
Instances == Descriptors \X Ids

ASSUME NetworkAssumption ==
  /\ HostStates \subseteq {"AUTH", "UNREACHABLE", "INVALID", "NO_AUTH", "UNKNOWN"} /\ "AUTH" \in HostStates
  /\ CallsRemotely \in BOOLEAN /\ Interrupts \in BOOLEAN /\ HostsRest \in BOOLEAN
  /\ Lingers \in BOOLEAN
  /\ None \notin States \cup Descriptors \cup Instances
  /\ Ids \subseteq Nat /\ (Scanning \cup UserThreads) \cap Killers = {}

VARIABLES
  members,     \* application_descriptors
  state,       \* [Descriptors -> States]: the cached states
  reference,   \* [Descriptors -> Instances \cup {None}]: the application references
  alive,       \* the instances that run
  host,        \* [Descriptors -> HostStates]: what probing the host finds
  pc,          \* [Threads -> ...]: what a thread is about to do
  job,         \* [Threads -> Jobs]: the locals of its scan or call
  phase        \* of shutdown: "open", "killing", "closed"

vars == <<members, state, reference, alive, host, pc, job, phase>>

\* The descriptor a thread works on, the state it read or probed, the instance it started.
Jobs == [on : Descriptors \cup {None}, old : States \cup {None}, found : States \cup {None},
         instance : Instances \cup {None}]
NoJob == [on |-> None, old |-> None, found |-> None, instance |-> None]

Init ==
  /\ members = Descriptors
  /\ state = [d \in Descriptors |-> "UNKNOWN"]
  /\ reference = [d \in Descriptors |-> None]
  /\ alive = {}
  /\ host \in [Descriptors -> HostStates]
  /\ pc = [t \in Threads |-> "idle"]
  /\ job = [t \in Threads |-> NoJob]
  /\ phase = "open"

Step(t, from, to, j) ==
  /\ pc[t] = from
  /\ pc' = [pc EXCEPT ![t] = to]
  /\ job' = [job EXCEPT ![t] = j]

\* The thread stops when it does not find what it looks for.
Check(t, found, to) ==
  IF found THEN Step(t, "check", to, job[t]) ELSE Step(t, "check", "idle", NoJob)

AnswersLocally(d) == reference[d] # None        \* mutant: the call does not leave the process

\* attemptApplicationCall returns: the application answered, or only its reference was looked at.
Answers(d) == IF CallsRemotely THEN host[d] = "AUTH" /\ reference[d] \in alive ELSE reference[d] # None

network == <<members, phase>>

SameScanner(t, u) ==
  \E K \in {StatusThreads, DeployThreads, KillThreads, RemoveThreads} : {t, u} \subseteq K

\* A scanner that shutdown has not disabled scans d (ConcurrentScanner.scheduleScan).  Its cycle
\* before has ended, and with it the scan of d, if that did not ignore its interrupt.
BeginScan(t, d) ==
  /\ phase = "open" /\ d \in members
  /\ Lingers \/ \A u \in Threads : SameScanner(t, u) => job[u].on # d
  /\ Step(t, "idle", "check", [NoJob EXCEPT !.on = d])
  /\ UNCHANGED <<network, state, reference, alive, host>>

-----------------------------------------------------------------------------
(* StatusScanner.scan and AbstractApplicationManager.probeState *)

ReadState(t) ==
  /\ t \in StatusThreads /\ pc[t] = "check"
  /\ Step(t, "check", "probeApplication", [job[t] EXCEPT !.old = state[job[t].on]])
  /\ UNCHANGED <<network, state, reference, alive, host>>

ProbeOnlyApplication(t) ==                      \* mutant: an exception leaves no state
  /\ pc[t] = "probeApplication"
  /\ Step(t, "probeApplication", "update",
          IF Answers(job[t].on) THEN [job[t] EXCEPT !.found = "RUNNING"] ELSE job[t])
  /\ UNCHANGED <<network, state, reference, alive, host>>

\* attemptApplicationCall: RUNNING, or an exception (no answer, an interrupt) and a look at the host.
ProbeApplication(t) ==
  /\ pc[t] = "probeApplication"
  /\ LET d == job[t].on
     IN  \/ /\ Answers(d)
            /\ Step(t, "probeApplication", "update", [job[t] EXCEPT !.found = "RUNNING"])
         \/ /\ ~Answers(d) \/ Interrupts
            /\ Step(t, "probeApplication", "probeHost", job[t])
  /\ UNCHANGED <<network, state, reference, alive, host>>

\* probeHostState: what the host is found to be; UNKNOWN if the probe is interrupted.
ProbeHost(t) ==
  /\ pc[t] = "probeHost"
  /\ \E found \in {host[job[t].on]} \cup (IF Interrupts THEN {"UNKNOWN"} ELSE {}) :
       Step(t, "probeHost", "update", [job[t] EXCEPT !.found = found])
  /\ UNCHANGED <<network, state, reference, alive, host>>

UpdateBlindly(t) ==                             \* mutant: setApplicationState(new_state)
  /\ Step(t, "update", "idle", NoJob)
  /\ state' = [state EXCEPT ![job[t].on] = job[t].found]
  /\ UNCHANGED <<network, reference, alive, host>>

\* descriptor.compareAndSetApplicationState(old_state, new_state)
UpdateState(t) ==
  /\ Step(t, "update", "idle", NoJob)
  /\ state' = [state EXCEPT ![job[t].on] = IF @ = job[t].old THEN job[t].found ELSE @]
  /\ UNCHANGED <<network, reference, alive, host>>

-----------------------------------------------------------------------------
(* AutoDeployScanner.scan, ApplicationNetwork.deploy *)

CheckFirstDeployment(t) ==                      \* mutant: deploys what was never deployed
  /\ t \in DeployThreads /\ pc[t] = "check"
  /\ Check(t, state[job[t].on] = "AUTH" /\ reference[job[t].on] = None, "start")
  /\ UNCHANGED <<network, state, reference, alive, host>>

CheckDeployable(t) ==
  /\ t \in DeployThreads /\ pc[t] = "check"
  /\ Check(t, state[job[t].on] = "AUTH", "start")
  /\ UNCHANGED <<network, state, reference, alive, host>>

UserDeploy(t, d) ==
  /\ Step(t, "idle", "start", [NoJob EXCEPT !.on = d])
  /\ UNCHANGED <<network, state, reference, alive, host>>

Referenced == alive \cup {reference[d] : d \in Descriptors} \cup {job[t].instance : t \in Threads}

\* manager.deploy(descriptor) starts a new instance ...
StartInstance(t) ==
  /\ pc[t] = "start"
  /\ host[job[t].on] = "AUTH"
  /\ \E i \in ({job[t].on} \X Ids) \ Referenced :
       /\ alive' = alive \cup {i}
       /\ Step(t, "start", "setReference", [job[t] EXCEPT !.instance = i])
  /\ UNCHANGED <<network, state, reference, host>>

\* ... or throws, and nothing else happens.
StartFails(t) ==
  /\ Step(t, "start", "idle", NoJob)
  /\ UNCHANGED <<network, state, reference, alive, host>>

ForgetReference(t) ==                           \* mutant: the result of manager.deploy is dropped
  /\ Step(t, "setReference", "setDeployed", [job[t] EXCEPT !.instance = None])
  /\ UNCHANGED <<network, state, reference, alive, host>>

SetReference(t) ==
  /\ Step(t, "setReference", "setDeployed", [job[t] EXCEPT !.instance = None])
  /\ reference' = [reference EXCEPT ![job[t].on] = job[t].instance]
  /\ UNCHANGED <<network, state, alive, host>>

SetDeployed(t) ==
  /\ Step(t, "setDeployed", "idle", NoJob)
  /\ state' = [state EXCEPT ![job[t].on] = "DEPLOYED"]
  /\ UNCHANGED <<network, reference, alive, host>>

-----------------------------------------------------------------------------
(* AutoKillScanner.scan, ApplicationNetwork.kill *)

CheckKillable(t) ==
  /\ t \in KillThreads /\ pc[t] = "check"
  /\ Check(t, state[job[t].on] \in {"RUNNING", "DEPLOYED"}, "kill")
  /\ UNCHANGED <<network, state, reference, alive, host>>

UserKill(t, d) ==
  /\ Step(t, "idle", "kill", [NoJob EXCEPT !.on = d])
  /\ UNCHANGED <<network, state, reference, alive, host>>

\* manager.kill(descriptor) ends the instance it knows of; a manager may swallow its failure.
Terminate(t) ==
  /\ pc[t] = "kill"
  /\ Step(t, "kill", "setKilled", job[t])
  /\ \/ host[job[t].on] = "AUTH" /\ alive' = alive \ {reference[job[t].on]}
     \/ host[job[t].on] # "AUTH" /\ UNCHANGED alive
  /\ UNCHANGED <<network, state, reference, host>>

TerminateFails(t) ==
  /\ pc[t] = "kill" /\ (host[job[t].on] # "AUTH" \/ Interrupts)
  /\ Step(t, "kill", "idle", NoJob)
  /\ UNCHANGED <<network, state, reference, alive, host>>

SetKilled(t) ==
  /\ Step(t, "setKilled", "idle", NoJob)
  /\ state' = [state EXCEPT ![job[t].on] = "KILLED"]
  /\ UNCHANGED <<network, reference, alive, host>>

-----------------------------------------------------------------------------
(* AutoRemoveScanner.scan, and the membership *)

Removable == {"UNREACHABLE", "INVALID"}

CheckRemovable(t) ==
  /\ t \in RemoveThreads /\ pc[t] = "check"
  /\ Check(t, state[job[t].on] \in Removable, "remove")
  /\ UNCHANGED <<network, state, reference, alive, host>>

Remove(t) ==
  /\ Step(t, "remove", "idle", NoJob)
  /\ members' = members \ {job[t].on}
  /\ UNCHANGED <<phase, state, reference, alive, host>>

\* add and remove by a user.
UserChangesMembers(t, d) ==
  /\ pc[t] = "idle"
  /\ members' = IF d \in members THEN members \ {d} ELSE members \cup {d}
  /\ UNCHANGED <<phase, state, reference, alive, host, pc, job>>

-----------------------------------------------------------------------------
(* shutdown: disable the scanners, kill every member, wait for all, forget them *)

BeginShutdown ==
  /\ phase = "open"
  /\ phase' = "killing"
  /\ pc' = [t \in Threads |-> IF t \in Killers /\ t[2] \in members THEN "kill" ELSE pc[t]]
  /\ job' = [t \in Threads |->
               IF t \in Killers /\ t[2] \in members THEN [NoJob EXCEPT !.on = t[2]] ELSE job[t]]
  /\ UNCHANGED <<members, state, reference, alive, host>>

EndShutdown ==
  /\ phase = "killing" /\ \A t \in Killers : pc[t] = "idle"
  /\ phase' = "closed"
  /\ members' = {}
  /\ UNCHANGED <<state, reference, alive, host, pc, job>>

-----------------------------------------------------------------------------
(* What the hosts do *)

InstanceEnds(i) ==
  /\ i \in alive
  /\ alive' = alive \ {i}
  /\ UNCHANGED <<network, state, reference, host, pc, job>>

HostChanges(d, h) ==
  /\ host[d] # h
  /\ HostsRest => \A t \in StatusThreads : job[t].on # d
  /\ host' = [host EXCEPT ![d] = h]
  /\ UNCHANGED <<network, state, reference, alive, pc, job>>

-----------------------------------------------------------------------------
Continue(t) ==
  \/ ReadState(t) \/ ProbeApplication(t) \/ ProbeHost(t) \/ UpdateState(t)
  \/ CheckDeployable(t) \/ StartInstance(t) \/ SetReference(t) \/ SetDeployed(t)
  \/ CheckKillable(t) \/ Terminate(t) \/ TerminateFails(t) \/ SetKilled(t)
  \/ CheckRemovable(t) \/ Remove(t)

Next ==
  \/ \E t \in Threads : Continue(t) \/ StartFails(t)
  \/ \E t \in Scanning, d \in Descriptors : BeginScan(t, d)
  \/ \E t \in UserThreads, d \in Descriptors :
       UserDeploy(t, d) \/ UserKill(t, d) \/ UserChangesMembers(t, d)
  \/ BeginShutdown \/ EndShutdown
  \/ \E i \in Instances : InstanceEnds(i)
  \/ \E d \in Descriptors, h \in HostStates : HostChanges(d, h)

\* The enabled scanners scan every descriptor again and again, a scan that has begun ends, and a
\* manager that is asked to deploy again and again, on a host it can use, does so in the end.
Fairness ==
  /\ \A t \in Threads : WF_vars(Continue(t)) /\ SF_vars(StartInstance(t))
  /\ \A t \in Scanning, d \in Descriptors : SF_vars(BeginScan(t, d))

SafeSpec == Init /\ [][Next]_vars
Spec == SafeSpec /\ Fairness

-----------------------------------------------------------------------------
TypeOK ==
  /\ members \subseteq Descriptors
  /\ state \in [Descriptors -> States]
  /\ reference \in [Descriptors -> Instances \cup {None}]
  /\ alive \subseteq Instances
  /\ host \in [Descriptors -> HostStates]
  /\ pc \in [Threads -> {"idle", "check", "probeApplication", "probeHost", "update", "start", "setReference",
                         "setDeployed", "kill", "setKilled", "remove"}]
  /\ job \in [Threads -> Jobs]
  /\ phase \in {"open", "killing", "closed"}

\* Whoever finds a descriptor deployed or running finds a reference to call it with: deploy sets the
\* reference before the state (ApplicationNetwork.java:135).
DeployedHasReference ==
  \A d \in Descriptors : state[d] \in {"DEPLOYED", "RUNNING"} => reference[d] # None

\* "Instances of this class are in one-to-one correspondence to the application instances"
\* (ApplicationDescriptor.java:35): a descriptor never has two running instances.
OneInstancePerDescriptor ==
  \A i, j \in alive : i[1] = j[1] => i = j

\* A descriptor whose application ended is not taken for running for ever (StatusScanner.java:55),
\* whatever the other scans do.
DeadIsNoticed ==
  \A d \in Descriptors :
    state[d] \in {"RUNNING", "DEPLOYED"} /\ reference[d] \notin alive
      ~> phase # "open" \/ d \notin members \/ state[d] \notin {"RUNNING", "DEPLOYED"} \/ reference[d] \in alive

\* With the status and auto-deploy scanners enabled, an application is up again and again, however
\* often it ends and whatever was cached (AutoDeployScanner.java:43).
Resurrection ==
  \A d \in Descriptors :
    []<>(phase # "open" \/ d \notin members \/ host[d] # "AUTH" \/ \E i \in alive : i[1] = d)
=============================================================================
