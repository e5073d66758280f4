---------------------- MODULE ApplicationNetwork_proofs ----------------------
(***************************************************************************)
(* Proofs about the life of application instances: the types, that a       *)
(* descriptor taken for deployed or running always has a reference, and    *)
(* that it has one instance where the scanners are left to themselves.     *)
(***************************************************************************)
EXTENDS ApplicationNetwork, TLAPS

Places == {"idle", "check", "probeApplication", "probeHost", "update", "start", "setReference",
           "setDeployed", "kill", "setKilled", "remove"}

\* A thread at p, with locals j, has a descriptor to work on; one about to set a reference has an
\* instance to set, one about to announce DEPLOYED has set it (the references are ref), one about to
\* write a state has found one, and found RUNNING only through a reference.
Sound(p, j, ref) ==
  /\ p # "idle" => j.on \in Descriptors
  /\ p = "setReference" => j.instance \in Instances
  /\ p = "setDeployed" => ref[j.on] # None
  /\ p = "update" => j.found \in States
  /\ j.found = "RUNNING" => j.on \in Descriptors /\ ref[j.on] # None
  /\ j.found # "DEPLOYED"

ThreadInv == \A t \in Threads : Sound(pc[t], job[t], reference)

Inv == TypeOK /\ ThreadInv /\ DeployedHasReference

\* What Step does to pc and job, whatever the thread goes on to.
LEMMA StepUpdates ==
  ASSUME NEW t \in Threads, NEW from, NEW to \in Places, NEW j \in Jobs, TypeOK, Step(t, from, to, j)
  PROVE  /\ pc' \in [Threads -> Places] /\ job' \in [Threads -> Jobs]
         /\ pc[t] = from /\ pc'[t] = to /\ job'[t] = j
         /\ \A u \in Threads \ {t} : pc'[u] = pc[u] /\ job'[u] = job[u]
  BY DEF Step, TypeOK, Places

\* A step of one thread keeps ThreadInv if it leaves that thread sound and clears no reference.
LEMMA StepKeepsThreads ==
  ASSUME NEW t \in Threads, NEW from, NEW to \in Places, NEW j \in Jobs, TypeOK, ThreadInv,
         Step(t, from, to, j), Sound(to, j, reference'),
         \A d \in Descriptors : reference[d] # None => reference'[d] # None
  PROVE  ThreadInv'
  <1>0. /\ pc'[t] = to /\ job'[t] = j
        /\ \A u \in Threads \ {t} : pc'[u] = pc[u] /\ job'[u] = job[u]
        BY StepUpdates
  <1> SUFFICES ASSUME NEW u \in Threads
               PROVE  Sound(pc'[u], job'[u], reference')
      BY DEF ThreadInv, Sound
  <1>1. CASE u = t
        BY <1>0, <1>1
  <1>2. CASE u # t
    <2>1. pc'[u] = pc[u] /\ job'[u] = job[u]
          BY <1>0, <1>2
    <2>2. Sound(pc[u], job[u], reference)
          BY DEF ThreadInv
    <2> QED  BY <2>1, <2>2 DEF Sound
  <1> QED  BY <1>1, <1>2

\* Inv holds initially: nothing is cached as deployed and no thread is at work.
LEMMA InitHolds == Init => Inv
  <1> SUFFICES ASSUME Init PROVE Inv
      OBVIOUS
  <1>0. NoJob \in Jobs /\ NoJob.found = None /\ None \notin States
        BY NetworkAssumption DEF NoJob, Jobs
  <1>1. TypeOK
        BY <1>0 DEF Init, TypeOK, States
  <1>2. ThreadInv
        BY <1>0 DEF Init, ThreadInv, Sound, States
  <1> QED  BY <1>1, <1>2 DEF Init, Inv, DeployedHasReference

\* A step of one thread keeps Inv if it types the state, leaves the thread sound, clears no
\* reference, and takes no descriptor without a reference for deployed or running.
LEMMA StepKeepsInv ==
  ASSUME Inv, NEW t \in Threads, NEW from, NEW to \in Places, NEW j \in Jobs,
         Step(t, from, to, j), Sound(to, j, reference'),
         members' \subseteq Descriptors, alive' \subseteq Instances,
         UNCHANGED <<host, phase>>,
         state' \in [Descriptors -> States],
         reference' \in [Descriptors -> Instances \cup {None}],
         \A d \in Descriptors : reference[d] # None => reference'[d] # None,
         \A d \in Descriptors : state'[d] \in {"DEPLOYED", "RUNNING"} =>
            state[d] \in {"DEPLOYED", "RUNNING"} \/ reference'[d] # None
  PROVE  Inv'
  <1>1. TypeOK'
        BY StepUpdates DEF Inv, TypeOK, Places
  <1>2. ThreadInv'
        BY StepKeepsThreads DEF Inv
  <1>3. DeployedHasReference'
        BY DEF Inv, DeployedHasReference
  <1> QED  BY <1>1, <1>2, <1>3 DEF Inv

\* The locals of a thread that works on a descriptor, with any one of them replaced.
LEMMA JobUpdates ==
  ASSUME TypeOK
  PROVE  /\ NoJob \in Jobs /\ \A ref : Sound("idle", NoJob, ref)
         /\ \A d \in Descriptors : [NoJob EXCEPT !.on = d] \in Jobs
         /\ \A t \in Threads : job[t] \in Jobs
         /\ \A t \in Threads, x \in States :
              /\ [job[t] EXCEPT !.old = x] \in Jobs
              /\ [job[t] EXCEPT !.found = x] \in Jobs
         /\ \A t \in Threads, i \in Instances \cup {None} : [job[t] EXCEPT !.instance = i] \in Jobs
  BY NetworkAssumption DEF NoJob, Jobs, Sound, TypeOK, States

\* The steps of a thread that change nothing but its own locals.
LEMMA QuietStep ==
  ASSUME Inv, NEW t \in Threads, NEW from, NEW to \in Places, NEW j \in Jobs,
         Step(t, from, to, j), Sound(to, j, reference),
         UNCHANGED <<network, state, reference, alive, host>>
  PROVE  Inv'
  <1>1. Sound(to, j, reference')
        BY DEF network
  <1> QED  BY <1>1, StepKeepsInv DEF Inv, TypeOK, network

\* Inv is kept by every step of a thread in the middle of a scan or call.
LEMMA ContinueKeepsInv ==
  ASSUME Inv, NEW t \in Threads, Continue(t) \/ StartFails(t)
  PROVE  Inv'
  <1> USE DEF Places
  <1>0. TypeOK /\ Sound(pc[t], job[t], reference) /\ DeployedHasReference
        BY DEF Inv, ThreadInv
  <1>1. CASE ReadState(t)
    <2>1. job[t].on \in Descriptors /\ state[job[t].on] \in States
          BY <1>0, <1>1 DEF ReadState, Sound, TypeOK
    <2>2. Sound("probeApplication", [job[t] EXCEPT !.old = state[job[t].on]], reference)
          BY <1>0, <1>1, <2>1, JobUpdates DEF ReadState, Sound, Jobs
    <2> QED  BY <1>0, <1>1, <2>1, <2>2, QuietStep, JobUpdates DEF ReadState
  <1>2. CASE ProbeApplication(t)
    <2>1. job[t].on \in Descriptors
          BY <1>0, <1>2 DEF ProbeApplication, Sound
    <2>2. CASE Answers(job[t].on) /\ Step(t, "probeApplication", "update", [job[t] EXCEPT !.found = "RUNNING"])
      <3>1. reference[job[t].on] # None
            BY <1>0, <2>1, <2>2, NetworkAssumption DEF Answers, TypeOK
      <3>2. Sound("update", [job[t] EXCEPT !.found = "RUNNING"], reference)
            BY <2>1, <3>1, <1>0, JobUpdates DEF Sound, States, Jobs
      <3> QED  BY <1>0, <1>2, <2>2, <3>2, QuietStep, JobUpdates DEF ProbeApplication, States
    <2>3. CASE Step(t, "probeApplication", "probeHost", job[t])
      <3>1. Sound("probeHost", job[t], reference)
            BY <1>0, <2>1 DEF Sound
      <3> QED  BY <1>0, <1>2, <2>3, <3>1, QuietStep, JobUpdates DEF ProbeApplication
    <2> QED  BY <1>2, <2>2, <2>3 DEF ProbeApplication
  <1>3. CASE ProbeHost(t)
    <2>1. PICK found : /\ found = host[job[t].on] \/ found = "UNKNOWN"
                       /\ Step(t, "probeHost", "update", [job[t] EXCEPT !.found = found])
          BY <1>3 DEF ProbeHost
    <2>2. job[t].on \in Descriptors /\ found \in States \ {"RUNNING", "DEPLOYED"}
          BY <1>0, <1>3, <2>1, NetworkAssumption DEF ProbeHost, Sound, TypeOK, States
    <2>3. Sound("update", [job[t] EXCEPT !.found = found], reference)
          BY <2>2, <1>0, JobUpdates DEF Sound, Jobs
    <2> QED  BY <1>0, <1>3, <2>1, <2>2, <2>3, QuietStep, JobUpdates DEF ProbeHost
  <1>4. CASE UpdateState(t)
    <2>1. pc[t] = "update" /\ Step(t, "update", "idle", NoJob) /\ UNCHANGED <<network, reference, alive, host>>
          BY <1>4 DEF UpdateState, Step
    <2>2. state' \in [Descriptors -> States]
          BY <1>0, <1>4, <2>1 DEF UpdateState, Sound, TypeOK
    <2>3. \A d \in Descriptors : state'[d] \in {"DEPLOYED", "RUNNING"} =>
             state[d] \in {"DEPLOYED", "RUNNING"} \/ reference[d] # None
          BY <1>0, <1>4, <2>1 DEF UpdateState, Sound, TypeOK
    <2> QED  BY <1>0, <2>1, <2>2, <2>3, StepKeepsInv, JobUpdates DEF network, TypeOK
  <1>5. CASE CheckDeployable(t) \/ CheckKillable(t) \/ CheckRemovable(t)
    <2>1. /\ pc[t] = "check" /\ UNCHANGED <<network, state, reference, alive, host>>
          /\ \/ Step(t, "check", "idle", NoJob)
             \/ \E to \in {"start", "kill", "remove"} : Step(t, "check", to, job[t])
          BY <1>5 DEF CheckDeployable, CheckKillable, CheckRemovable, Check
    <2>2. \A to \in {"start", "kill", "remove"} : Sound(to, job[t], reference)
          BY <1>0, <2>1 DEF Sound
    <2> QED  BY <1>0, <2>1, <2>2, QuietStep, JobUpdates
  <1>6. CASE StartInstance(t)
    <2>1. PICK i \in ({job[t].on} \X Ids) \ Referenced :
             /\ alive' = alive \cup {i}
             /\ Step(t, "start", "setReference", [job[t] EXCEPT !.instance = i])
          BY <1>6 DEF StartInstance
    <2>2. i \in Instances /\ job[t].on \in Descriptors
          BY <1>0, <1>6, <2>1 DEF StartInstance, Sound, Instances
    <2>3. Sound("setReference", [job[t] EXCEPT !.instance = i], reference')
          BY <1>0, <1>6, <2>2, JobUpdates DEF StartInstance, Sound, Jobs
    <2> QED  BY <1>0, <1>6, <2>1, <2>2, <2>3, StepKeepsInv, JobUpdates DEF StartInstance, network, TypeOK
  <1>7. CASE SetReference(t)
    <2>1. pc[t] = "setReference" /\ job[t].on \in Descriptors /\ job[t].instance \in Instances
          BY <1>0, <1>7 DEF SetReference, Step, Sound
    <2>2. /\ reference' \in [Descriptors -> Instances \cup {None}]
          /\ reference'[job[t].on] # None
          /\ \A d \in Descriptors : reference[d] # None => reference'[d] # None
          BY <1>0, <1>7, <2>1, NetworkAssumption DEF SetReference, TypeOK
    <2>3. Sound("setDeployed", [job[t] EXCEPT !.instance = None], reference')
          BY <1>0, <2>1, <2>2, JobUpdates DEF Sound, Jobs
    <2> QED  BY <1>0, <1>7, <2>2, <2>3, StepKeepsInv, JobUpdates DEF SetReference, network, TypeOK
  <1>8. CASE SetDeployed(t)
    <2>1. job[t].on \in Descriptors /\ reference[job[t].on] # None
          BY <1>0, <1>8 DEF SetDeployed, Step, Sound
    <2>2. state' \in [Descriptors -> States]
          BY <1>0, <1>8 DEF SetDeployed, TypeOK, States
    <2>3. \A d \in Descriptors : state'[d] # state[d] => reference[d] # None
          BY <1>0, <1>8, <2>1 DEF SetDeployed, TypeOK
    <2> QED  BY <1>0, <1>8, <2>2, <2>3, StepKeepsInv, JobUpdates DEF SetDeployed, network, TypeOK
  <1>9. CASE Terminate(t)
    <2>1. Step(t, "kill", "setKilled", job[t]) /\ alive' \subseteq Instances
          BY <1>0, <1>9 DEF Terminate, TypeOK
    <2>2. Sound("setKilled", job[t], reference)
          BY <1>0, <1>9 DEF Terminate, Sound
    <2> QED  BY <1>0, <1>9, <2>1, <2>2, StepKeepsInv, JobUpdates DEF Terminate, network, TypeOK
  <1>10. CASE TerminateFails(t) \/ StartFails(t)
         BY <1>10, QuietStep, JobUpdates, <1>0 DEF TerminateFails, StartFails
  <1>11. CASE SetKilled(t)
    <2>1. state' \in [Descriptors -> States]
          BY <1>0, <1>11 DEF SetKilled, TypeOK, States
    <2>2. \A d \in Descriptors : state'[d] # state[d] => state'[d] = "KILLED"
          BY <1>0, <1>11 DEF SetKilled, TypeOK
    <2> QED  BY <1>0, <1>11, <2>1, <2>2, StepKeepsInv, JobUpdates DEF SetKilled, network, TypeOK
  <1>12. CASE Remove(t)
         BY <1>0, <1>12, StepKeepsInv, JobUpdates DEF Remove, TypeOK
  <1> QED  BY <1>1, <1>2, <1>3, <1>4, <1>5, <1>6, <1>7, <1>8, <1>9, <1>10, <1>11, <1>12 DEF Continue

\* Inv is inductive: no step of a scanner, a user, shutdown or a host breaks it.
LEMMA InvInductive == Inv /\ [Next]_vars => Inv'
  <1> SUFFICES ASSUME Inv, [Next]_vars PROVE Inv'
      OBVIOUS
  <1>0. TypeOK /\ ThreadInv /\ DeployedHasReference
        BY DEF Inv
  <1> DEFINE SameThreads == UNCHANGED <<pc, job, state, reference>>
  <1>1. ASSUME SameThreads, members' \subseteq Descriptors, alive' \subseteq Instances,
               host' \in [Descriptors -> HostStates], phase' \in {"open", "killing", "closed"}
        PROVE  Inv'
        BY <1>0, <1>1 DEF Inv, TypeOK, ThreadInv, Sound, DeployedHasReference
  <1>2. ASSUME NEW t \in Threads, Continue(t) \/ StartFails(t) PROVE Inv'
        BY <1>2, ContinueKeepsInv
  <1>3. ASSUME NEW t \in Threads, NEW d \in Descriptors,
               BeginScan(t, d) \/ UserDeploy(t, d) \/ UserKill(t, d)
        PROVE  Inv'
    <2> DEFINE j == [NoJob EXCEPT !.on = d]
    <2>1. \E to \in {"check", "start", "kill"} : Step(t, "idle", to, j)
          BY <1>3 DEF BeginScan, UserDeploy, UserKill
    <2>2. \A to \in {"check", "start", "kill"} : Sound(to, j, reference)
          BY NetworkAssumption DEF Sound, NoJob, States
    <2>3. UNCHANGED <<network, state, reference, alive, host>>
          BY <1>3 DEF BeginScan, UserDeploy, UserKill
    <2>4. j \in Jobs
          BY <1>0, JobUpdates
    <2> HIDE DEF j
    <2> QED  BY <2>1, <2>2, <2>3, <2>4, QuietStep DEF Places
  <1>4. ASSUME NEW t \in UserThreads, NEW d \in Descriptors, UserChangesMembers(t, d) PROVE Inv'
        BY <1>0, <1>1, <1>4 DEF UserChangesMembers, TypeOK
  <1>5. CASE BeginShutdown
    <2> DEFINE Killed(t) == t \in Killers /\ t[2] \in members
    <2>1. /\ pc' = [t \in Threads |-> IF Killed(t) THEN "kill" ELSE pc[t]]
          /\ job' = [t \in Threads |-> IF Killed(t) THEN [NoJob EXCEPT !.on = t[2]] ELSE job[t]]
          /\ phase' = "killing" /\ UNCHANGED <<members, state, reference, alive, host>>
          BY <1>5 DEF BeginShutdown
    <2>2. \A t \in Threads : Killed(t) => t[2] \in Descriptors
          BY <1>0 DEF TypeOK
    <2> HIDE DEF Killed
    <2>3. pc' \in [Threads -> Places] /\ job' \in [Threads -> Jobs]
          BY <1>0, <2>1, <2>2, JobUpdates DEF Places, TypeOK
    <2>4. TypeOK'
          BY <1>0, <2>1, <2>3 DEF TypeOK, Places
    <2>5. \A d \in Descriptors : Sound("kill", [NoJob EXCEPT !.on = d], reference)
          BY NetworkAssumption DEF Sound, NoJob, States
    <2>6. ASSUME NEW t \in Threads PROVE Sound(pc'[t], job'[t], reference')
      <3>1. CASE Killed(t)
        <4>1. pc'[t] = "kill" /\ job'[t] = [NoJob EXCEPT !.on = t[2]] /\ reference' = reference
              BY <2>1, <3>1
        <4> QED  BY <2>2, <2>5, <3>1, <4>1
      <3>2. CASE ~Killed(t)
        <4>1. pc'[t] = pc[t] /\ job'[t] = job[t] /\ reference' = reference
              BY <2>1, <3>2
        <4> QED  BY <1>0, <4>1 DEF ThreadInv
      <3> QED  BY <3>1, <3>2
    <2>7. ThreadInv'
          BY <2>6 DEF ThreadInv, Sound
    <2> QED  BY <1>0, <2>1, <2>4, <2>7 DEF Inv, DeployedHasReference
  <1>6. CASE EndShutdown
        BY <1>0, <1>1, <1>6 DEF EndShutdown, TypeOK
  <1>7. ASSUME NEW i \in Instances, InstanceEnds(i) PROVE Inv'
        BY <1>0, <1>1, <1>7 DEF InstanceEnds, network, TypeOK
  <1>8. ASSUME NEW d \in Descriptors, NEW h \in HostStates, HostChanges(d, h) PROVE Inv'
        BY <1>0, <1>1, <1>8 DEF HostChanges, network, TypeOK
  <1>9. CASE UNCHANGED vars
        BY <1>0, <1>1, <1>9 DEF vars, TypeOK
  <1> QED
      BY <1>2, <1>3, <1>4, <1>5, <1>6, <1>7, <1>8, <1>9 DEF Next, Threads

\* The states of the network are well typed: no probe leaves a null state behind
\* (AbstractApplicationManager.probeHostState, "assert state != null").
THEOREM NetworkTypeCorrect == SafeSpec => []TypeOK
  <1>1. Inv => TypeOK
        BY DEF Inv
  <1> QED  BY <1>1, InitHolds, InvInductive, PTL DEF SafeSpec

\* Whoever finds a descriptor deployed or running finds a reference to call the instance with
\* (ApplicationNetwork.deploy), whichever scans, calls, failures and shutdown interleave.
THEOREM NoStateWithoutReference == SafeSpec => []DeployedHasReference
  <1>1. Inv => DeployedHasReference
        BY DEF Inv
  <1> QED  BY <1>1, InitHolds, InvInductive, PTL DEF SafeSpec

-----------------------------------------------------------------------------
(* One instance per descriptor *)

\* The scanners are left to themselves: no user, no scan interrupted or lingering, a manager that
\* calls its application, and hosts that do not change in the middle of a probe.
Stable == CallsRemotely /\ ~Interrupts /\ ~Lingers /\ HostsRest /\ UserThreads = {}

\* What a thread is at, between its check, or its reading of the state, and its last write.
Probing(t, d)   == pc[t] \in {"probeApplication", "probeHost", "update"} /\ job[t].on = d
Deploying(t, d) == pc[t] \in {"start", "setReference", "setDeployed"} /\ job[t].on = d
Killing(t, d)   == pc[t] \in {"kill", "setKilled"} /\ job[t].on = d

Running(d) == {i \in alive : i[1] = d}

\* A new instance runs, and is not announced yet.
Started(d) == \E t \in Threads : Deploying(t, d) /\ pc[t] # "start"

\* A deployment of d may still be decided upon.
Deployable(d) == phase = "open" \/ \E t \in DeployThreads : pc[t] = "check" /\ job[t].on = d

\* The application did not answer, but its host is there: the scan is about to find AUTH.
Doubting(t, d) ==
  Probing(t, d) /\ host[d] = "AUTH" /\ (pc[t] = "probeHost" \/ (pc[t] = "update" /\ job[t].found = "AUTH"))

\* Who does what; a state found is that of a host, or RUNNING; a scanner scans a descriptor once at
\* a time.
Roles ==
  /\ \A t \in Threads :
       /\ pc[t] \in {"probeApplication", "probeHost", "update"} => t \in StatusThreads
       /\ pc[t] \in {"start", "setReference", "setDeployed"} => t \in DeployThreads
       /\ pc[t] \in {"kill", "setKilled"} => t \in KillThreads \/ (t \in Killers /\ phase # "open")
       /\ pc[t] = "update" => job[t].found \in HostStates \cup {"RUNNING"}
  /\ \A t, u \in Threads :
       t # u /\ SameScanner(t, u) /\ job[t].on \in Descriptors => job[u].on # job[t].on

\* What runs is what the reference names, or is about to.
OnlyReferenced(d) ==
  /\ \A t \in Threads : pc[t] = "setReference" /\ job[t].on = d => Running(d) \subseteq {job[t].instance}
  /\ (\A t \in Threads : ~(pc[t] = "setReference" /\ job[t].on = d)) => Running(d) \subseteq {reference[d]}

\* Nothing runs where a deployment begins, or may be decided upon.
NothingRuns(d) ==
  /\ \A t \in Threads : Deploying(t, d) /\ pc[t] = "start" => Running(d) = {}
  /\ Deployable(d) /\ state[d] = "AUTH" => Running(d) = {} \/ Started(d)

\* Only the status scan itself makes the state AUTH or RUNNING, and only a deployment DEPLOYED: none
\* of them is in the register by the hand of somebody else when the scan compares.
OnlyWriter(d) ==
  /\ \A t \in Threads : Probing(t, d) /\ state[d] \in {"AUTH", "RUNNING"} => job[t].old = state[d]
  /\ \A t \in Threads : Deploying(t, d) =>
       state[d] # "DEPLOYED" /\ \A u \in Threads : Probing(u, d) => job[u].old # "DEPLOYED"

\* While the network is open a kill in progress has not seen KILLED written, and a scan that read
\* KILLED does not meet a kill and a deployment both: whoever kills now saw what was deployed after.
OnlyKill(d) ==
  phase = "open" =>
    /\ \A u \in Threads : Killing(u, d) => state[d] # "KILLED"
    /\ \A t, u, v \in Threads :
         ~(Probing(t, d) /\ job[t].old = "KILLED" /\ Killing(u, d) /\ Deploying(v, d))

\* A scan that is about to find AUTH will not write it if an instance was deployed meanwhile.
JustDoubts(d) == \A t \in Threads :
  /\ pc[t] = "update" /\ job[t].on = d /\ job[t].found = "AUTH" => host[d] = "AUTH"
  /\ Deployable(d) /\ Doubting(t, d) =>
       \/ Running(d) = {} \/ Started(d)
       \/ /\ state[d] # job[t].old
          /\ (\E u \in Threads : pc[u] = "setKilled" /\ job[u].on = d) => job[t].old # "KILLED"

OneInv(d) == OnlyReferenced(d) /\ NothingRuns(d) /\ OnlyWriter(d) /\ OnlyKill(d) /\ JustDoubts(d)

StableInv == Stable /\ Inv /\ Roles /\ \A d \in Descriptors : OneInv(d)

\* Two threads in the middle of scans of one kind, of one descriptor, are one.
LEMMA OneOfAKind ==
  ASSUME StableInv, NEW t \in Threads, NEW u \in Threads, NEW d \in Descriptors
  PROVE  /\ t \in StatusThreads /\ job[t].on = d /\ Probing(u, d) => t = u
         /\ Probing(t, d) => t \in StatusThreads
         /\ t \in DeployThreads /\ job[t].on = d /\ Deploying(u, d) => t = u
         /\ Deploying(t, d) => t \in DeployThreads
         /\ phase = "open" /\ Killing(t, d) /\ Killing(u, d) => t = u
<1>1. \A K \in {StatusThreads, DeployThreads, KillThreads} :
        t \in K /\ u \in K /\ job[t].on = d /\ job[u].on = d => t = u
  BY DEF StableInv, Roles, SameScanner
<1> QED BY <1>1 DEF StableInv, Roles, Probing, Deploying, Killing

\* A step of thread t, of which only what it is at and has read matters.
Moves(t, from, to, j) ==
  /\ pc[t] = from /\ pc'[t] = to /\ job'[t] = j
  /\ \A u \in Threads \ {t} : pc'[u] = pc[u] /\ job'[u] = job[u]

LEMMA StepMoves ==
  ASSUME StableInv, NEW t \in Threads, NEW from, NEW to \in Places, NEW j \in Jobs, Step(t, from, to, j)
  PROVE  Moves(t, from, to, j)
BY StepUpdates DEF StableInv, Inv, Moves

\* Nothing changes for a descriptor a step has nothing to do with, though instances of it may end.
LEMMA ElsewhereKeepsOne ==
  ASSUME StableInv, NEW t \in Threads, NEW d \in Descriptors,
         NEW from, NEW to, NEW j, Moves(t, from, to, j), job[t].on # d, j.on # d,
         Running(d)' \subseteq Running(d), state'[d] = state[d], reference'[d] = reference[d],
         host'[d] = host[d], UNCHANGED phase
  PROVE  OneInv(d)'
<1>1. /\ \A u \in Threads : Probing(u, d)' <=> Probing(u, d)
      /\ \A u \in Threads : Deploying(u, d)' <=> Deploying(u, d)
      /\ \A u \in Threads : Killing(u, d)' <=> Killing(u, d)
      /\ \A u \in Threads : job'[u].on = d <=> job[u].on = d
      /\ \A u \in Threads : job[u].on = d => pc'[u] = pc[u] /\ job'[u] = job[u]
  BY DEF Moves, Probing, Deploying, Killing
<1>2. \A u \in Threads : Probing(u, d) \/ Deploying(u, d) \/ Killing(u, d) => job[u].on = d
  BY DEF Probing, Deploying, Killing
<1>3. Started(d)' <=> Started(d)
  BY <1>1, <1>2 DEF Started
<1>4. Deployable(d)' <=> Deployable(d)
  BY <1>1 DEF Deployable, Threads, Scanning
<1>5. \A u \in Threads : Doubting(u, d)' <=> Doubting(u, d)
  BY <1>1, <1>2 DEF Doubting
<1>6. OneInv(d)
  BY DEF StableInv
<1> HIDE DEF Running, Started, Deployable, Doubting, Probing, Deploying, Killing
<1>7. OnlyReferenced(d)'
  BY <1>1, <1>6 DEF OneInv, OnlyReferenced
<1>8. NothingRuns(d)'
  BY <1>1, <1>2, <1>3, <1>4, <1>6 DEF OneInv, NothingRuns
<1>9. OnlyWriter(d)'
  BY <1>1, <1>2, <1>6 DEF OneInv, OnlyWriter
<1>10. OnlyKill(d)'
  BY <1>1, <1>2, <1>6 DEF OneInv, OnlyKill
<1>11. JustDoubts(d)'
  <2>1. \A u \in Threads : pc'[u] = "update" /\ job'[u].on = d /\ job'[u].found = "AUTH" => host'[d] = "AUTH"
    BY <1>1, <1>6 DEF OneInv, JustDoubts
  <2>2. (\E u \in Threads : pc'[u] = "setKilled" /\ job'[u].on = d)
          <=> \E u \in Threads : pc[u] = "setKilled" /\ job[u].on = d
    BY <1>1
  <2>3. ASSUME NEW u \in Threads, Deployable(d)', Doubting(u, d)', ~(Running(d)' = {}), ~Started(d)'
        PROVE  /\ state'[d] # job'[u].old
               /\ (\E v \in Threads : pc'[v] = "setKilled" /\ job'[v].on = d) => job'[u].old # "KILLED"
    <3>1. Deployable(d) /\ Doubting(u, d) /\ Running(d) # {} /\ ~Started(d)
      BY <1>3, <1>4, <1>5, <2>3
    <3>2. job[u].on = d
      BY <3>1, <1>2 DEF Doubting
    <3> QED BY <3>1, <3>2, <1>1, <1>6, <2>2 DEF OneInv, JustDoubts
  <2> QED BY <2>1, <2>3 DEF JustDoubts
<1> QED BY <1>7, <1>8, <1>9, <1>10, <1>11 DEF OneInv

\* A thread that stops, or goes to look at a state or to remove, leaves everything as it is.
LEMMA LeavingKeepsOne ==
  ASSUME StableInv, NEW t \in Threads, NEW d \in Descriptors,
         NEW from \in Places \ {"setReference", "setDeployed"}, NEW to \in {"idle", "check", "remove"}, NEW j,
         Moves(t, from, to, j), to = "check" => phase = "open",
         UNCHANGED <<phase, state, reference, alive, host>>
  PROVE  OneInv(d)'
<1>1. \A u \in Threads : pc'[u] \notin {"idle", "check", "remove"} => u # t /\ pc'[u] = pc[u] /\ job'[u] = job[u]
  BY DEF Moves
<1>2. /\ \A u \in Threads : Probing(u, d)' => Probing(u, d) /\ job'[u] = job[u] /\ pc'[u] = pc[u]
      /\ \A u \in Threads : Deploying(u, d)' => Deploying(u, d) /\ job'[u] = job[u] /\ pc'[u] = pc[u]
      /\ \A u \in Threads : Killing(u, d)' => Killing(u, d) /\ job'[u] = job[u] /\ pc'[u] = pc[u]
  BY <1>1 DEF Probing, Deploying, Killing
<1>3. Started(d) => Started(d)'
  BY DEF Started, Deploying, Moves
<1>4. Deployable(d)' => Deployable(d)
  BY DEF Deployable, Moves, Threads, Scanning
<1>5. Running(d)' = Running(d)
  BY DEF Running
<1>6. OneInv(d)
  BY DEF StableInv
<1> HIDE DEF Running, Started, Deployable, Probing, Deploying, Killing
<1>7. OnlyReferenced(d)'
  BY <1>1, <1>5, <1>6 DEF OneInv, OnlyReferenced, Moves
<1>8. NothingRuns(d)'
  BY <1>2, <1>3, <1>4, <1>5, <1>6 DEF OneInv, NothingRuns
<1>9. OnlyWriter(d)'
  BY <1>2, <1>6 DEF OneInv, OnlyWriter
<1>10. OnlyKill(d)'
  BY <1>2, <1>6 DEF OneInv, OnlyKill
<1>11. JustDoubts(d)'
  <2>1. \A u \in Threads : Doubting(u, d)' => Doubting(u, d) /\ job'[u] = job[u]
    BY <1>2 DEF Doubting
  <2>2. (\E u \in Threads : pc'[u] = "setKilled" /\ job'[u].on = d)
          => \E u \in Threads : pc[u] = "setKilled" /\ job[u].on = d
    BY <1>1
  <2> HIDE DEF Doubting
  <2> QED BY <1>1, <1>3, <1>4, <1>5, <1>6, <2>1, <2>2 DEF OneInv, JustDoubts
<1> QED BY <1>7, <1>8, <1>9, <1>10, <1>11 DEF OneInv

\* What a step leaves of the deployments under way and of those to be decided upon.
LEMMA DeploymentsKept ==
  ASSUME StableInv, NEW t \in Threads, NEW d, NEW from, NEW to, NEW j, Moves(t, from, to, j)
  PROVE  /\ from \notin {"setReference", "setDeployed"} => (Started(d) => Started(d)')
         /\ to \in {"setReference", "setDeployed"} /\ j.on = d => Started(d)'
         /\ to # "check" /\ UNCHANGED phase => (Deployable(d)' => Deployable(d))
<1>1. from \notin {"setReference", "setDeployed"} => (Started(d) => Started(d)')
  BY DEF Started, Deploying, Moves
<1>2. to \in {"setReference", "setDeployed"} /\ j.on = d => Started(d)'
  BY DEF Started, Deploying, Moves
<1>3. to # "check" /\ UNCHANGED phase => (Deployable(d)' => Deployable(d))
  BY DEF Deployable, Moves, Threads, Scanning
<1> QED BY <1>1, <1>2, <1>3

\* StatusScanner.scan up to its compare-and-set: what it finds, or reads, is what there is.
LEMMA ProbingKeepsOne ==
  ASSUME StableInv, NEW t \in Threads, t \in StatusThreads, NEW d \in Descriptors, job[t].on = d,
         NEW from \in {"check", "probeApplication", "probeHost"},
         NEW to \in {"probeApplication", "probeHost", "update"}, NEW j, Moves(t, from, to, j),
         j.on = d,
         from = "check" => to = "probeApplication" /\ j.old = state[d],
         from # "check" => j.old = job[t].old /\ to # "probeApplication",
         from # "check" /\ to = "probeHost" => host[d] # "AUTH" \/ reference[d] \notin alive,
         to = "update" /\ j.found = "AUTH" => from = "probeHost" /\ host[d] = "AUTH",
         UNCHANGED <<phase, state, reference, alive, host>>
  PROVE  OneInv(d)'
<1>1. /\ \A u \in Threads : Probing(u, d)' => u = t
      /\ \A u \in Threads : Deploying(u, d)' => Deploying(u, d) /\ u # t /\ job'[u] = job[u] /\ pc'[u] = pc[u]
      /\ \A u \in Threads : Killing(u, d)' => Killing(u, d) /\ u # t /\ job'[u] = job[u] /\ pc'[u] = pc[u]
      /\ \A u \in Threads : pc'[u] \in {"setKilled", "setReference"} => u # t /\ job'[u] = job[u] /\ pc'[u] = pc[u]
  <2>1. \A u \in Threads : Probing(u, d)' => u = t
    BY OneOfAKind DEF Moves, Probing
  <2> QED BY <2>1 DEF Moves, Deploying, Killing
<1>2. pc[t] = from /\ pc'[t] = to /\ job'[t] = j /\ (from # "check" => Probing(t, d))
  BY DEF Moves, Probing
<1>3. (Started(d) => Started(d)') /\ (Deployable(d)' => Deployable(d))
  BY DeploymentsKept
<1>4. Running(d)' = Running(d)
  BY DEF Running
<1>5. OneInv(d)
  BY DEF StableInv
<1>6. OnlyReferenced(d)'
  <2> HIDE DEF Running
  <2> QED BY <1>1, <1>2, <1>4, <1>5 DEF OneInv, OnlyReferenced, Moves
<1>7. NothingRuns(d)'
  <2> HIDE DEF Running, Started, Deployable, Deploying
  <2> QED BY <1>1, <1>3, <1>4, <1>5 DEF OneInv, NothingRuns
<1>8. OnlyWriter(d)'
  <2> HIDE DEF Probing, Deploying
  <2> QED BY <1>1, <1>2, <1>5 DEF OneInv, OnlyWriter
<1>9. OnlyKill(d)'
  <2> HIDE DEF Probing, Deploying, Killing
  <2> QED BY <1>1, <1>2, <1>5 DEF OneInv, OnlyKill
<1>10. JustDoubts(d)'
  <2>1. ASSUME NEW u \in Threads, pc'[u] = "update", job'[u].on = d, job'[u].found = "AUTH" PROVE host'[d] = "AUTH"
    <3>1. u = t
      BY <1>1, <2>1 DEF Probing
    <3> QED BY <1>2, <2>1, <3>1
  <2>2. ASSUME NEW u \in Threads, Deployable(d)', Doubting(u, d)', Running(d)' # {}, ~Started(d)'
        PROVE  /\ state'[d] # job'[u].old
               /\ (\E v \in Threads : pc'[v] = "setKilled" /\ job'[v].on = d) => job'[u].old # "KILLED"
    <3>1. u = t /\ Deployable(d) /\ Running(d) # {} /\ ~Started(d) /\ host[d] = "AUTH" /\ from # "check"
      BY <1>1, <1>2, <1>3, <1>4, <2>2 DEF Doubting
    <3>2. ~(\E v \in Threads : pc[v] = "setReference" /\ job[v].on = d)
      BY <3>1 DEF Started, Deploying
    <3>3. reference[d] \in alive
      BY <3>1, <3>2, <1>5 DEF OneInv, OnlyReferenced, Running
    <3>4. to = "update" /\ from = "probeHost" /\ Doubting(t, d)
      BY <1>2, <2>2, <3>1, <3>3 DEF Doubting
    <3>5. /\ state[d] # job[t].old
          /\ (\E v \in Threads : pc[v] = "setKilled" /\ job[v].on = d) => job[t].old # "KILLED"
      BY <3>1, <3>4, <1>5 DEF OneInv, JustDoubts
    <3> QED BY <1>1, <1>2, <3>1, <3>5
  <2> QED BY <2>1, <2>2 DEF JustDoubts
<1> QED BY <1>6, <1>7, <1>8, <1>9, <1>10 DEF OneInv

\* StatusScanner's compare-and-set.
LEMMA UpdateKeepsOne ==
  ASSUME StableInv, NEW t \in Threads, NEW d \in Descriptors, job[t].on = d,
         NEW j, Moves(t, "update", "idle", j),
         state'[d] = IF state[d] = job[t].old THEN job[t].found ELSE state[d],
         UNCHANGED <<phase, reference, alive, host>>
  PROVE  OneInv(d)'
<1>1. /\ \A u \in Threads : ~Probing(u, d)'
      /\ \A u \in Threads : Deploying(u, d)' => Deploying(u, d) /\ job'[u] = job[u] /\ pc'[u] = pc[u]
      /\ \A u \in Threads : Killing(u, d)' => Killing(u, d) /\ job'[u] = job[u] /\ pc'[u] = pc[u]
      /\ Probing(t, d)
  <2>1. \A u \in Threads : Probing(u, d) => u = t
    BY OneOfAKind DEF Moves, Probing
  <2> QED BY <2>1 DEF Moves, Deploying, Killing, Probing
<1>2. (Started(d) => Started(d)') /\ (Deployable(d)' => Deployable(d))
  BY DeploymentsKept
<1>3. Running(d)' = Running(d)
  BY DEF Running
<1>4. OneInv(d)
  BY DEF StableInv
<1>5. job[t].found \notin {"DEPLOYED", "KILLED"}
  BY NetworkAssumption DEF StableInv, Roles, Inv, ThreadInv, Sound, Moves, States
<1>6. OnlyReferenced(d)'
  <2> HIDE DEF Running
  <2> QED BY <1>3, <1>4 DEF OneInv, OnlyReferenced, Moves
<1>7. NothingRuns(d)'
  <2>1. Deployable(d)' /\ state'[d] = "AUTH" => Running(d)' = {} \/ Started(d)'
    <3>1. CASE state[d] = job[t].old /\ job[t].found = "AUTH"
      <4>1. Doubting(t, d)
        BY <1>1, <1>4, <3>1 DEF OneInv, JustDoubts, Doubting, Moves
      <4> QED BY <1>2, <1>3, <1>4, <3>1, <4>1 DEF OneInv, JustDoubts
    <3>2. CASE ~(state[d] = job[t].old /\ job[t].found = "AUTH")
      <4> HIDE DEF Running, Started, Deployable
      <4> QED BY <1>2, <1>3, <1>4, <3>2 DEF OneInv, NothingRuns
    <3> QED BY <3>1, <3>2
  <2> HIDE DEF Running, Started, Deployable, Deploying
  <2> QED BY <1>1, <1>3, <1>4, <2>1 DEF OneInv, NothingRuns
<1>8. OnlyWriter(d)'
  <2> HIDE DEF Probing, Deploying
  <2> QED BY <1>1, <1>4, <1>5 DEF OneInv, OnlyWriter
<1>9. OnlyKill(d)'
  <2> HIDE DEF Probing, Deploying, Killing
  <2> QED BY <1>1, <1>4, <1>5 DEF OneInv, OnlyKill
<1>10. JustDoubts(d)'
  BY <1>1 DEF JustDoubts, Doubting, Probing
<1> QED BY <1>6, <1>7, <1>8, <1>9, <1>10 DEF OneInv

\* A deployment that is decided upon finds AUTH, and nothing running.
LEMMA DecisionKeepsOne ==
  ASSUME StableInv, NEW t \in Threads, t \in DeployThreads, NEW d \in Descriptors, job[t].on = d,
         Moves(t, "check", "start", job[t]), state[d] = "AUTH",
         UNCHANGED <<phase, state, reference, alive, host>>
  PROVE  OneInv(d)'
<1>1. \A u \in Threads : job'[u] = job[u] /\ (u # t => pc'[u] = pc[u])
  BY DEF Moves
<1>2. /\ \A u \in Threads : Probing(u, d)' <=> Probing(u, d)
      /\ \A u \in Threads : Killing(u, d)' <=> Killing(u, d)
      /\ \A u \in Threads : Deploying(u, d)' => u = t
      /\ \A u \in Threads : pc'[u] \in {"setKilled", "setReference", "update"} <=> pc[u] \in {"setKilled", "setReference", "update"}
      /\ pc'[t] = "start"
  <2>1. \A u \in Threads : Deploying(u, d) => u = t
    BY OneOfAKind
  <2> QED BY <1>1, <2>1 DEF Moves, Deploying, Killing, Probing
<1>3. (Started(d) => Started(d)') /\ (Deployable(d)' => Deployable(d))
  BY DeploymentsKept
<1>4. Running(d)' = Running(d)
  BY DEF Running
<1>5. OneInv(d)
  BY DEF StableInv
<1>6. Running(d) = {}
  <2>1. Deployable(d) /\ ~Started(d)
    BY OneOfAKind DEF Deployable, Started, Moves, Deploying
  <2> QED BY <1>5, <2>1 DEF OneInv, NothingRuns
<1>7. OnlyReferenced(d)'
  BY <1>4, <1>6 DEF OnlyReferenced
<1>8. NothingRuns(d)'
  BY <1>4, <1>6 DEF NothingRuns
<1>9. OnlyWriter(d)'
  <2> HIDE DEF Probing, Deploying
  <2> QED BY <1>1, <1>2, <1>5 DEF OneInv, OnlyWriter
<1>10. OnlyKill(d)'
  <2> HIDE DEF Probing, Deploying, Killing
  <2> QED BY <1>1, <1>2, <1>5 DEF OneInv, OnlyKill, OnlyWriter
<1>11. JustDoubts(d)'
  <2>1. \A u \in Threads : pc'[u] = "update" => pc[u] = "update"
    BY <1>1, <1>2
  <2> HIDE DEF Running
  <2> QED BY <1>1, <1>4, <1>5, <1>6, <2>1 DEF OneInv, JustDoubts
<1> QED BY <1>7, <1>8, <1>9, <1>10, <1>11 DEF OneInv

\* A kill that is decided upon by the scanner finds what a deployment or a probe announced.
LEMMA KillDecisionKeepsOne ==
  ASSUME StableInv, NEW t \in Threads, t \in KillThreads, NEW d \in Descriptors, job[t].on = d,
         Moves(t, "check", "kill", job[t]), state[d] \in {"RUNNING", "DEPLOYED"},
         UNCHANGED <<phase, state, reference, alive, host>>
  PROVE  OneInv(d)'
<1>1. /\ \A u \in Threads : job'[u] = job[u] /\ (u # t => pc'[u] = pc[u])
      /\ pc[t] = "check" /\ pc'[t] = "kill"
  BY DEF Moves
<1>2. /\ \A u \in Threads : Probing(u, d)' <=> Probing(u, d)
      /\ \A u \in Threads : Deploying(u, d)' <=> Deploying(u, d)
      /\ \A u \in Threads, p \in {"setKilled", "setReference", "update", "start"} : pc'[u] = p <=> pc[u] = p
  BY <1>1 DEF Deploying, Probing
<1>3. (Started(d) => Started(d)') /\ (Deployable(d)' => Deployable(d))
  BY DeploymentsKept
<1>4. Running(d)' = Running(d)
  BY DEF Running
<1>5. OneInv(d)
  BY DEF StableInv
<1>6. \A u \in Threads : Doubting(u, d)' <=> Doubting(u, d)
  BY <1>1 DEF Doubting, Probing
<1> HIDE DEF Running, Started, Deployable, Probing, Deploying, Doubting
<1>7. OnlyReferenced(d)'
  BY <1>1, <1>2, <1>4, <1>5 DEF OneInv, OnlyReferenced
<1>8. NothingRuns(d)'
  BY <1>1, <1>2, <1>3, <1>4, <1>5 DEF OneInv, NothingRuns
<1>9. OnlyWriter(d)'
  BY <1>1, <1>2, <1>5 DEF OneInv, OnlyWriter
<1>10. OnlyKill(d)'
  BY <1>1, <1>2, <1>5 DEF OneInv, OnlyKill, OnlyWriter
<1>11. JustDoubts(d)'
  BY <1>1, <1>2, <1>3, <1>4, <1>5, <1>6 DEF OneInv, JustDoubts
<1> QED BY <1>7, <1>8, <1>9, <1>10, <1>11 DEF OneInv

\* The steps of a deployment up to its announcement: an instance is started where nothing runs, and
\* then referenced.
LEMMA DeployingKeepsOne ==
  ASSUME StableInv, NEW t \in Threads, NEW d \in Descriptors, job[t].on = d,
         NEW from, NEW to, NEW j, Moves(t, from, to, j), j.on = d, j.found = job[t].found,
         \/ /\ from = "start" /\ to = "setReference"
            /\ Running(d)' \subseteq Running(d) \cup {j.instance} /\ UNCHANGED reference
         \/ /\ from = "setReference" /\ to = "setDeployed"
            /\ Running(d)' = Running(d) /\ reference'[d] = job[t].instance,
         UNCHANGED <<phase, state, host>>
  PROVE  OneInv(d)'
<1>1. /\ \A u \in Threads : u # t => job'[u] = job[u] /\ pc'[u] = pc[u]
      /\ pc[t] = from /\ pc'[t] = to /\ job'[t] = j
  BY DEF Moves
<1>2. /\ \A u \in Threads : Probing(u, d)' <=> Probing(u, d)
      /\ \A u \in Threads : Killing(u, d)' <=> Killing(u, d)
      /\ \A u \in Threads : Probing(u, d) => u # t
      /\ \A u \in Threads : Deploying(u, d) <=> u = t
      /\ \A u \in Threads : Deploying(u, d)' <=> u = t
  <2>1. Deploying(t, d)
    BY <1>1 DEF Deploying
  <2>2. \A u \in Threads : Deploying(u, d) <=> u = t
    BY <2>1, OneOfAKind
  <2> QED BY <1>1, <2>2 DEF Deploying, Killing, Probing
<1>3. Started(d)'
  BY DeploymentsKept
<1>4. OneInv(d)
  BY DEF StableInv
<1>5. OnlyReferenced(d)'
  <2>1. \A u \in Threads : pc[u] \in {"start", "setReference"} /\ job[u].on = d => u = t
    BY <1>2 DEF Deploying
  <2>2. \A u \in Threads : pc'[u] = "setReference" /\ job'[u].on = d => u = t
    BY <1>1, <2>1
  <2> HIDE DEF Running
  <2>3. CASE from = "start"
    <3>1. Running(d)' \subseteq {j.instance}
      BY <1>1, <1>2, <1>4, <2>3 DEF OneInv, NothingRuns
    <3> QED BY <1>1, <2>2, <2>3, <3>1 DEF OnlyReferenced
  <2>4. CASE from = "setReference"
    <3>1. Running(d)' \subseteq {reference'[d]}
      BY <1>1, <1>4, <2>4 DEF OneInv, OnlyReferenced
    <3> QED BY <1>1, <2>2, <2>4, <3>1 DEF OnlyReferenced
  <2> QED BY <2>3, <2>4
<1>6. NothingRuns(d)'
  <2> HIDE DEF Running, Started, Deployable, Deploying
  <2> QED BY <1>1, <1>2, <1>3 DEF NothingRuns
<1>7. OnlyWriter(d)'
  <2> HIDE DEF Probing, Deploying
  <2> QED BY <1>1, <1>2, <1>4 DEF OneInv, OnlyWriter
<1>8. OnlyKill(d)'
  <2> HIDE DEF Probing, Deploying, Killing
  <2> QED BY <1>1, <1>2, <1>4 DEF OneInv, OnlyKill
<1>9. JustDoubts(d)'
  <2> HIDE DEF Running, Started, Deployable, Doubting
  <2> QED BY <1>1, <1>3, <1>4 DEF OneInv, JustDoubts
<1> QED BY <1>5, <1>6, <1>7, <1>8, <1>9 DEF OneInv

\* A deployment is announced: whoever doubts has read another state.
LEMMA AnnouncingKeepsOne ==
  ASSUME StableInv, NEW t \in Threads, NEW d \in Descriptors, job[t].on = d,
         NEW j, Moves(t, "setDeployed", "idle", j), state'[d] = "DEPLOYED",
         UNCHANGED <<phase, reference, alive, host>>
  PROVE  OneInv(d)'
<1>1. /\ \A u \in Threads : u # t => job'[u] = job[u] /\ pc'[u] = pc[u]
      /\ pc[t] = "setDeployed" /\ pc'[t] = "idle" /\ job'[t] = j
  BY DEF Moves
<1>2. /\ \A u \in Threads : Probing(u, d)' <=> Probing(u, d)
      /\ \A u \in Threads : Killing(u, d)' <=> Killing(u, d)
      /\ \A u \in Threads : Probing(u, d) \/ Killing(u, d) => u # t
      /\ \A u \in Threads : ~Deploying(u, d)'
      /\ Deploying(t, d)
  <2>1. Deploying(t, d)
    BY <1>1 DEF Deploying
  <2>2. \A u \in Threads : Deploying(u, d) => u = t
    BY <2>1, OneOfAKind
  <2> QED BY <1>1, <2>1, <2>2 DEF Deploying, Killing, Probing
<1>3. Running(d)' = Running(d)
  BY DEF Running
<1>4. OneInv(d)
  BY DEF StableInv
<1>5. Deployable(d)' => phase = "open"
  BY <1>1, <1>2, OneOfAKind DEF Deployable, Threads, Scanning
<1>6. OnlyReferenced(d)'
  <2> HIDE DEF Running
  <2> QED BY <1>1, <1>3, <1>4 DEF OneInv, OnlyReferenced
<1>7. NothingRuns(d)'
  <2> HIDE DEF Running, Started, Deployable, Deploying
  <2> QED BY <1>2 DEF NothingRuns
<1>8. OnlyWriter(d)'
  <2> HIDE DEF Probing, Deploying
  <2> QED BY <1>2 DEF OnlyWriter
<1>9. OnlyKill(d)'
  <2> HIDE DEF Probing, Deploying, Killing
  <2> QED BY <1>2 DEF OnlyKill
<1>10. JustDoubts(d)'
  <2>1. ASSUME NEW u \in Threads, pc'[u] = "update", job'[u].on = d, job'[u].found = "AUTH" PROVE host'[d] = "AUTH"
    BY <1>1, <1>4, <2>1 DEF OneInv, JustDoubts
  <2>2. ASSUME NEW u \in Threads, Deployable(d)', Doubting(u, d)'
        PROVE  /\ state'[d] # job'[u].old
               /\ (\E v \in Threads : pc'[v] = "setKilled" /\ job'[v].on = d) => job'[u].old # "KILLED"
    <3>1. Probing(u, d) /\ job'[u] = job[u] /\ phase = "open"
      BY <1>1, <1>2, <1>5, <2>2 DEF Doubting
    <3>2. job[u].old # "DEPLOYED"
      BY <1>2, <1>4, <3>1 DEF OneInv, OnlyWriter
    <3>3. ASSUME NEW v \in Threads, pc'[v] = "setKilled", job'[v].on = d PROVE job[u].old # "KILLED"
      <4>1. Killing(v, d)
        BY <1>1, <3>3 DEF Killing
      <4> QED BY <1>2, <1>4, <3>1, <4>1 DEF OneInv, OnlyKill
    <3> QED BY <3>1, <3>2, <3>3
  <2> QED BY <2>1, <2>2 DEF JustDoubts
<1> QED BY <1>6, <1>7, <1>8, <1>9, <1>10 DEF OneInv

\* A kill ends what the reference names, which is all that runs unless it is about to be replaced.
LEMMA TerminatingKeepsOne ==
  ASSUME StableInv, NEW t \in Threads, NEW d \in Descriptors, job[t].on = d,
         Moves(t, "kill", "setKilled", job[t]),
         \/ host[d] = "AUTH" /\ alive' = alive \ {reference[d]}
         \/ host[d] # "AUTH" /\ UNCHANGED alive,
         UNCHANGED <<phase, state, reference, host>>
  PROVE  OneInv(d)'
<1>1. /\ \A u \in Threads : job'[u] = job[u] /\ (u # t => pc'[u] = pc[u])
      /\ pc[t] = "kill" /\ pc'[t] = "setKilled"
  BY DEF Moves
<1>2. /\ \A u \in Threads : Probing(u, d)' <=> Probing(u, d)
      /\ \A u \in Threads : Deploying(u, d)' <=> Deploying(u, d)
      /\ \A u \in Threads : Killing(u, d)' <=> Killing(u, d)
      /\ \A u \in Threads : Doubting(u, d)' <=> Doubting(u, d)
      /\ \A u \in Threads, p \in {"setReference", "update", "start"} : pc'[u] = p <=> pc[u] = p
  BY <1>1 DEF Deploying, Probing, Killing, Doubting
<1>3. (Started(d) => Started(d)') /\ (Deployable(d)' => Deployable(d))
  BY DeploymentsKept
<1>4. Running(d)' \subseteq Running(d) /\ (host[d] = "AUTH" => reference[d] \notin Running(d)')
  BY DEF Running
<1>5. OneInv(d)
  BY DEF StableInv
<1>6. OnlyReferenced(d)'
  <2> HIDE DEF Running
  <2> QED BY <1>1, <1>2, <1>4, <1>5 DEF OneInv, OnlyReferenced
<1>7. NothingRuns(d)'
  <2> HIDE DEF Running, Started, Deployable, Deploying
  <2> QED BY <1>1, <1>2, <1>3, <1>4, <1>5 DEF OneInv, NothingRuns
<1>8. OnlyWriter(d)'
  <2> HIDE DEF Probing, Deploying
  <2> QED BY <1>1, <1>2, <1>5 DEF OneInv, OnlyWriter
<1>9. OnlyKill(d)'
  <2> HIDE DEF Probing, Deploying, Killing
  <2> QED BY <1>1, <1>2, <1>5 DEF OneInv, OnlyKill
<1>10. JustDoubts(d)'
  <2>1. ASSUME NEW u \in Threads, Doubting(u, d)' PROVE Running(d)' = {} \/ Started(d)'
    <3>1. host[d] = "AUTH"
      BY <2>1 DEF Doubting
    <3>2. CASE \E v \in Threads : pc[v] = "setReference" /\ job[v].on = d
      BY <1>3, <3>2 DEF Started, Deploying
    <3>3. CASE ~\E v \in Threads : pc[v] = "setReference" /\ job[v].on = d
      <4> HIDE DEF Running
      <4> QED BY <1>4, <1>5, <3>1, <3>3 DEF OneInv, OnlyReferenced
    <3> QED BY <3>2, <3>3
  <2> HIDE DEF Running, Started, Deployable, Doubting
  <2> QED BY <1>1, <1>2, <1>5, <2>1 DEF OneInv, JustDoubts
<1> QED BY <1>6, <1>7, <1>8, <1>9, <1>10 DEF OneInv

\* A kill is announced: whoever doubts has read another state, or will not compare in time.
LEMMA KilledKeepsOne ==
  ASSUME StableInv, NEW t \in Threads, NEW d \in Descriptors, job[t].on = d,
         NEW j, Moves(t, "setKilled", "idle", j), state'[d] = "KILLED",
         UNCHANGED <<phase, reference, alive, host>>
  PROVE  OneInv(d)'
<1>1. /\ \A u \in Threads : u # t => job'[u] = job[u] /\ pc'[u] = pc[u]
      /\ pc[t] = "setKilled" /\ pc'[t] = "idle" /\ job'[t] = j
  BY DEF Moves
<1>2. /\ \A u \in Threads : Probing(u, d)' => Probing(u, d) /\ u # t
      /\ \A u \in Threads : Deploying(u, d)' => Deploying(u, d) /\ u # t
      /\ \A u \in Threads : Killing(u, d)' => Killing(u, d) /\ u # t
      /\ Killing(t, d)
  BY <1>1 DEF Deploying, Killing, Probing
<1>3. (Started(d) => Started(d)') /\ (Deployable(d)' => Deployable(d))
  BY DeploymentsKept
<1>4. Running(d)' = Running(d)
  BY DEF Running
<1>5. OneInv(d)
  BY DEF StableInv
<1>6. phase = "open" => \A u \in Threads : ~Killing(u, d)'
  BY <1>2, OneOfAKind
<1>7. OnlyReferenced(d)'
  <2> HIDE DEF Running
  <2> QED BY <1>1, <1>4, <1>5 DEF OneInv, OnlyReferenced
<1>8. NothingRuns(d)'
  <2> HIDE DEF Running, Started, Deployable, Deploying
  <2> QED BY <1>1, <1>2, <1>4, <1>5 DEF OneInv, NothingRuns
<1>9. OnlyWriter(d)'
  <2> HIDE DEF Probing, Deploying
  <2> QED BY <1>1, <1>2, <1>5 DEF OneInv, OnlyWriter
<1>10. OnlyKill(d)'
  <2> HIDE DEF Probing, Deploying, Killing
  <2> QED BY <1>6 DEF OnlyKill
<1>11. JustDoubts(d)'
  <2>1. ASSUME NEW u \in Threads, pc'[u] = "update", job'[u].on = d, job'[u].found = "AUTH" PROVE host'[d] = "AUTH"
    BY <1>1, <1>5, <2>1 DEF OneInv, JustDoubts
  <2>2. ASSUME NEW u \in Threads, Deployable(d)', Doubting(u, d)', Running(d)' # {}, ~Started(d)'
        PROVE  state'[d] # job'[u].old /\ job'[u].old # "KILLED"
    <3>1. Doubting(u, d) /\ job'[u] = job[u] /\ Deployable(d) /\ Running(d) # {} /\ ~Started(d)
      BY <1>1, <1>2, <1>3, <1>4, <2>2 DEF Doubting
    <3>2. job[u].old # "KILLED"
      BY <1>1, <1>5, <3>1 DEF OneInv, JustDoubts
    <3> QED BY <3>1, <3>2
  <2> QED BY <2>1, <2>2 DEF JustDoubts
<1> QED BY <1>7, <1>8, <1>9, <1>10, <1>11 DEF OneInv

\* What hosts and shutdown do: instances end, a host changes while nobody probes it, killers start.
LEMMA OthersKeepOne ==
  ASSUME StableInv, NEW d \in Descriptors, alive' \subseteq alive, UNCHANGED <<state, reference>>,
         phase' = phase \/ phase' # "open",
         Deployable(d)' => Deployable(d),
         host'[d] = host[d] \/ \A t \in StatusThreads : job[t].on # d,
         \A t \in Threads : \/ pc'[t] = pc[t] /\ job'[t] = job[t]
                            \/ /\ pc[t] \in {"idle", "check", "remove"} /\ pc'[t] = "kill"
                               /\ phase' # "open"
  PROVE  OneInv(d)'
<1>1. /\ \A t \in Threads : Probing(t, d)' <=> Probing(t, d)
      /\ \A t \in Threads : Deploying(t, d)' <=> Deploying(t, d)
      /\ \A t \in Threads : phase' = "open" /\ Killing(t, d)' => Killing(t, d)
      /\ \A t \in Threads, p \in {"setReference", "update", "start", "setKilled"} :
           /\ pc'[t] = p <=> pc[t] = p
           /\ pc'[t] = p => job'[t] = job[t]
      /\ \A t \in Threads : Probing(t, d) \/ Deploying(t, d) => job'[t] = job[t]
  BY DEF Deploying, Probing, Killing
<1>2. /\ \A t \in Threads : Doubting(t, d)' => Doubting(t, d)
      /\ \A t \in Threads : pc[t] = "update" /\ job[t].on = d => host'[d] = host[d]
  BY <1>1 DEF Doubting, Probing, StableInv, Roles
<1>3. (Started(d) => Started(d)') /\ Running(d)' \subseteq Running(d)
  BY <1>1 DEF Started, Deploying, Running
<1>4. OneInv(d)
  BY DEF StableInv
<1>5. \A t \in Threads : Doubting(t, d) => Probing(t, d)
  BY DEF Doubting
<1> HIDE DEF Running, Started, Deployable, Probing, Deploying, Killing, Doubting
<1>6. OnlyReferenced(d)'
  BY <1>1, <1>3, <1>4 DEF OneInv, OnlyReferenced
<1>7. NothingRuns(d)'
  BY <1>1, <1>3, <1>4 DEF OneInv, NothingRuns
<1>8. OnlyWriter(d)'
  BY <1>1, <1>4 DEF OneInv, OnlyWriter
<1>9. OnlyKill(d)'
  BY <1>1, <1>4 DEF OneInv, OnlyKill
<1>10. JustDoubts(d)'
  <2>1. ASSUME NEW t \in Threads, pc'[t] = "update", job'[t].on = d, job'[t].found = "AUTH" PROVE host'[d] = "AUTH"
    BY <1>1, <1>2, <1>4, <2>1 DEF OneInv, JustDoubts
  <2>2. (\E t \in Threads : pc'[t] = "setKilled" /\ job'[t].on = d)
          => \E t \in Threads : pc[t] = "setKilled" /\ job[t].on = d
    BY <1>1
  <2> QED BY <1>1, <1>2, <1>3, <1>4, <1>5, <2>1, <2>2 DEF OneInv, JustDoubts
<1> QED BY <1>6, <1>7, <1>8, <1>9, <1>10 DEF OneInv

\* A thread keeps to what it is for.
LEMMA RolesKept ==
  ASSUME StableInv, NEW t \in Threads, NEW from, NEW to, NEW j, Moves(t, from, to, j), UNCHANGED phase,
         to \in {"probeApplication", "probeHost", "update"} => t \in StatusThreads,
         to \in {"start", "setReference", "setDeployed"} => t \in DeployThreads,
         to \in {"kill", "setKilled"} => t \in KillThreads \/ from \in {"kill", "setKilled"},
         to = "update" => j.found \in HostStates \cup {"RUNNING"},
         j.on \in {job[t].on, None} \/ \A u \in Threads : SameScanner(t, u) => job[u].on # j.on
  PROVE  Roles'
<1>1. None \notin Descriptors
  BY NetworkAssumption
<1>2. ASSUME NEW u \in Threads, NEW v \in Threads, u # v, SameScanner(u, v), job'[u].on \in Descriptors
      PROVE  job'[v].on # job'[u].on
  <2>1. SameScanner(v, u)
    BY <1>2 DEF SameScanner
  <2> QED BY <1>1, <1>2, <2>1 DEF StableInv, Roles, Moves
<1> QED BY <1>2 DEF StableInv, Roles, Moves

\* What the locals of a thread become, field by field.
LEMMA Fields ==
  ASSUME StableInv, NEW t \in Threads
  PROVE  /\ NoJob \in Jobs /\ NoJob.on = None
         /\ job[t] \in Jobs
         /\ \A x \in States : LET j == [job[t] EXCEPT !.old = x]
                              IN j \in Jobs /\ j.on = job[t].on /\ j.old = x /\ j.found = job[t].found
         /\ \A x \in States : LET j == [job[t] EXCEPT !.found = x]
                              IN j \in Jobs /\ j.on = job[t].on /\ j.old = job[t].old /\ j.found = x
         /\ \A i \in Instances \cup {None} :
              LET j == [job[t] EXCEPT !.instance = i]
              IN j \in Jobs /\ j.on = job[t].on /\ j.old = job[t].old /\ j.found = job[t].found /\ j.instance = i
         /\ pc[t] # "idle" => job[t].on \in Descriptors
<1>1. TypeOK /\ ThreadInv
  BY DEF StableInv, Inv
<1>2. job[t] \in Jobs
  BY <1>1 DEF TypeOK
<1>3. NoJob \in Jobs /\ NoJob.on = None
  BY DEF NoJob, Jobs
<1>4. pc[t] # "idle" => job[t].on \in Descriptors
  BY <1>1 DEF ThreadInv, Sound
<1>5. \A x \in States : LET j == [job[t] EXCEPT !.old = x]
                        IN j \in Jobs /\ j.on = job[t].on /\ j.old = x /\ j.found = job[t].found
  BY <1>2 DEF Jobs
<1>6. \A x \in States : LET j == [job[t] EXCEPT !.found = x]
                        IN j \in Jobs /\ j.on = job[t].on /\ j.old = job[t].old /\ j.found = x
  BY <1>2 DEF Jobs
<1>7. \A i \in Instances \cup {None} :
        LET j == [job[t] EXCEPT !.instance = i]
        IN j \in Jobs /\ j.on = job[t].on /\ j.old = job[t].old /\ j.found = job[t].found /\ j.instance = i
  BY <1>2 DEF Jobs
<1> QED BY <1>2, <1>3, <1>4, <1>5, <1>6, <1>7

\* The status scan of a thread.
LEMMA StatusScanKeepsOne ==
  ASSUME StableInv, NEW t \in Threads, NEW d \in Descriptors,
         ReadState(t) \/ ProbeApplication(t) \/ ProbeHost(t) \/ UpdateState(t)
  PROVE  Roles' /\ OneInv(d)'
<1>1. TypeOK /\ CallsRemotely /\ Interrupts = FALSE /\ d \in DOMAIN state /\ state \in [Descriptors -> States]
  BY NetworkAssumption DEF StableInv, Inv, Stable, TypeOK
<1>2. /\ UNCHANGED <<phase, reference, alive, host>>
      /\ Running(d)' = Running(d)
  BY DEF ReadState, ProbeApplication, ProbeHost, UpdateState, network, Running
<1>3. t \in StatusThreads
  BY DEF ReadState, ProbeApplication, ProbeHost, UpdateState, Step, StableInv, Roles
<1>4. job[t].on \in Descriptors
  BY Fields DEF ReadState, ProbeApplication, ProbeHost, UpdateState, Step
<1>5. CASE ReadState(t)
  <2> DEFINE j == [job[t] EXCEPT !.old = state[job[t].on]]
  <2>1. state[job[t].on] \in States
    BY <1>1, <1>4
  <2>2. j \in Jobs /\ j.on = job[t].on /\ j.old = state[job[t].on] /\ j.found = job[t].found
    BY <2>1, Fields
  <2>3. Step(t, "check", "probeApplication", j) /\ UNCHANGED state
    BY <1>5 DEF ReadState
  <2> HIDE DEF j
  <2>4. Moves(t, "check", "probeApplication", j)
    BY <2>2, <2>3, StepMoves DEF Places
  <2>5. Roles'
    BY <1>2, <1>3, <2>2, <2>4, RolesKept, Fields
  <2>6. CASE job[t].on = d
    BY <1>2, <1>3, <2>2, <2>3, <2>4, <2>5, <2>6, ProbingKeepsOne
  <2>7. CASE job[t].on # d
    BY <1>2, <2>2, <2>3, <2>4, <2>5, <2>7, ElsewhereKeepsOne
  <2> QED BY <2>6, <2>7
<1>6. CASE ProbeApplication(t)
  <2>1. UNCHANGED state /\ pc[t] = "probeApplication"
    BY <1>6 DEF ProbeApplication
  <2>2. CASE Answers(job[t].on) /\ Step(t, "probeApplication", "update", [job[t] EXCEPT !.found = "RUNNING"])
    <3> DEFINE j == [job[t] EXCEPT !.found = "RUNNING"]
    <3>1. j \in Jobs /\ j.on = job[t].on /\ j.old = job[t].old /\ j.found = "RUNNING"
      BY Fields DEF States
    <3>2. Step(t, "probeApplication", "update", j)
      BY <2>2
    <3> HIDE DEF j
    <3>3. Moves(t, "probeApplication", "update", j)
      BY <3>1, <3>2, StepMoves DEF Places
    <3>4. Roles'
      BY <1>2, <1>3, <3>1, <3>3, RolesKept
    <3>5. CASE job[t].on = d
      BY <1>2, <1>3, <2>1, <3>1, <3>3, <3>4, <3>5, ProbingKeepsOne
    <3>6. CASE job[t].on # d
      BY <1>2, <2>1, <3>1, <3>3, <3>4, <3>6, ElsewhereKeepsOne
    <3> QED BY <3>5, <3>6
  <2>3. CASE ~Answers(job[t].on) /\ Step(t, "probeApplication", "probeHost", job[t])
    <3>1. Moves(t, "probeApplication", "probeHost", job[t])
      BY <2>3, StepMoves, Fields DEF Places
    <3>2. Roles'
      BY <1>2, <1>3, <3>1, RolesKept, Fields
    <3>3. host[job[t].on] # "AUTH" \/ reference[job[t].on] \notin alive
      BY <1>1, <2>3 DEF Answers
    <3>4. CASE job[t].on = d
      BY <1>2, <1>3, <2>1, <3>1, <3>2, <3>3, <3>4, ProbingKeepsOne
    <3>5. CASE job[t].on # d
      BY <1>2, <2>1, <3>1, <3>2, <3>5, ElsewhereKeepsOne
    <3> QED BY <3>4, <3>5
  <2> QED BY <1>1, <1>6, <2>2, <2>3 DEF ProbeApplication
<1>7. CASE ProbeHost(t)
  <2> DEFINE j == [job[t] EXCEPT !.found = host[job[t].on]]
  <2>1. host[job[t].on] \in HostStates /\ host[job[t].on] \in States
    BY <1>1, <1>4, NetworkAssumption DEF TypeOK, States
  <2>2. j \in Jobs /\ j.on = job[t].on /\ j.old = job[t].old /\ j.found = host[job[t].on]
    BY <2>1, Fields
  <2>3. Step(t, "probeHost", "update", j) /\ UNCHANGED state
    BY <1>1, <1>7 DEF ProbeHost
  <2> HIDE DEF j
  <2>4. Moves(t, "probeHost", "update", j)
    BY <2>2, <2>3, StepMoves DEF Places
  <2>5. Roles'
    BY <1>2, <1>3, <2>1, <2>2, <2>4, RolesKept
  <2>6. CASE job[t].on = d
    BY <1>2, <1>3, <2>2, <2>3, <2>4, <2>5, <2>6, ProbingKeepsOne
  <2>7. CASE job[t].on # d
    BY <1>2, <2>2, <2>3, <2>4, <2>5, <2>7, ElsewhereKeepsOne
  <2> QED BY <2>6, <2>7
<1>8. CASE UpdateState(t)
  <2>1. Moves(t, "update", "idle", NoJob)
    BY <1>8, StepMoves, Fields DEF UpdateState, Places
  <2>2. Roles'
    BY <1>2, <2>1, RolesKept, Fields
  <2>3. state' = [state EXCEPT ![job[t].on] = IF @ = job[t].old THEN job[t].found ELSE @]
    BY <1>8 DEF UpdateState
  <2>4. CASE job[t].on = d
    <3>1. state'[d] = IF state[d] = job[t].old THEN job[t].found ELSE state[d]
      BY <1>1, <2>3, <2>4
    <3> QED BY <1>2, <2>1, <2>2, <2>4, <3>1, UpdateKeepsOne
  <2>5. CASE job[t].on # d
    <3>1. state'[d] = state[d] /\ NoJob.on # d
      BY <1>1, <2>3, <2>5, Fields, NetworkAssumption
    <3> QED BY <1>2, <2>1, <2>2, <2>5, <3>1, ElsewhereKeepsOne
  <2> QED BY <2>4, <2>5
<1> QED BY <1>5, <1>6, <1>7, <1>8

\* A scan that stops where it looks or fails, or removes, or that begins.
LEMMA StoppingKeepsOne ==
  ASSUME StableInv, NEW t \in Threads, NEW d \in Descriptors,
         NEW from \in Places \ {"setReference", "setDeployed"}, NEW to \in {"idle", "check", "remove"},
         NEW j \in Jobs, Step(t, from, to, j),
         j.on \in {job[t].on, None} \/ \A u \in Threads : SameScanner(t, u) => job[u].on # j.on,
         to = "check" => phase = "open",
         UNCHANGED <<phase, state, reference, alive, host>>
  PROVE  Roles' /\ OneInv(d)'
<1>1. Moves(t, from, to, j)
  BY StepMoves DEF Places
<1>2. Roles'
  BY <1>1, RolesKept
<1> QED BY <1>1, <1>2, LeavingKeepsOne

\* The deploy scan of a thread.
LEMMA DeployScanKeepsOne ==
  ASSUME StableInv, NEW t \in Threads, NEW d \in Descriptors,
         CheckDeployable(t) \/ StartInstance(t) \/ StartFails(t) \/ SetReference(t) \/ SetDeployed(t)
  PROVE  Roles' /\ OneInv(d)'
<1>1. TypeOK /\ state \in [Descriptors -> States] /\ reference \in [Descriptors -> Instances \cup {None}]
  BY DEF StableInv, Inv, TypeOK
<1>2. UNCHANGED <<phase, host>>
  BY DEF CheckDeployable, StartInstance, StartFails, SetReference, SetDeployed, network
<1>3. t \in DeployThreads
  BY DEF CheckDeployable, StartInstance, StartFails, SetReference, SetDeployed, Step, StableInv, Roles
<1>4. job[t].on \in Descriptors /\ pc[t] \in Places
  BY Fields DEF CheckDeployable, StartInstance, StartFails, SetReference, SetDeployed, Step, Places
<1>5. CASE CheckDeployable(t)
  <2>1. pc[t] = "check" /\ UNCHANGED <<state, reference, alive>>
    BY <1>5 DEF CheckDeployable
  <2>2. CASE state[job[t].on] = "AUTH"
    <3>1. Moves(t, "check", "start", job[t])
      BY <1>5, <2>2, StepMoves, Fields DEF CheckDeployable, Check, Places
    <3>2. Roles'
      BY <1>2, <1>3, <3>1, RolesKept, Fields
    <3>3. CASE job[t].on = d
      BY <1>2, <1>3, <2>1, <2>2, <3>1, <3>2, <3>3, DecisionKeepsOne
    <3>4. CASE job[t].on # d
      <4>1. Running(d)' = Running(d)
        BY <2>1 DEF Running
      <4> QED BY <1>2, <2>1, <3>1, <3>2, <3>4, <4>1, ElsewhereKeepsOne
    <3> QED BY <3>3, <3>4
  <2>3. CASE state[job[t].on] # "AUTH"
    <3>1. Step(t, "check", "idle", NoJob)
      BY <1>5, <2>3 DEF CheckDeployable, Check
    <3> QED BY <1>2, <2>1, <3>1, StoppingKeepsOne, Fields DEF Places
  <2> QED BY <2>2, <2>3
<1>6. CASE StartFails(t)
  BY <1>2, <1>6, StoppingKeepsOne, Fields DEF StartFails, Places
<1>7. CASE StartInstance(t)
  <2>1. PICK i \in ({job[t].on} \X Ids) \ Referenced :
           alive' = alive \cup {i} /\ Step(t, "start", "setReference", [job[t] EXCEPT !.instance = i])
    BY <1>7 DEF StartInstance
  <2>2. i \in Instances /\ i[1] = job[t].on
    BY <1>4, <2>1 DEF Instances
  <2> DEFINE j == [job[t] EXCEPT !.instance = i]
  <2>3. j \in Jobs /\ j.on = job[t].on /\ j.found = job[t].found /\ j.instance = i
    BY <2>2, Fields
  <2>4. Step(t, "start", "setReference", j)
    BY <2>1
  <2> HIDE DEF j
  <2>5. Moves(t, "start", "setReference", j)
    BY <2>3, <2>4, StepMoves DEF Places
  <2>6. Roles'
    BY <1>2, <1>3, <2>3, <2>5, RolesKept, Fields
  <2>7. UNCHANGED <<state, reference>>
    BY <1>7 DEF StartInstance
  <2>8. CASE job[t].on = d
    <3>1. Running(d)' \subseteq Running(d) \cup {j.instance}
      BY <2>1, <2>3 DEF Running
    <3> QED BY <1>2, <2>3, <2>5, <2>6, <2>7, <2>8, <3>1, DeployingKeepsOne
  <2>9. CASE job[t].on # d
    <3>1. Running(d)' \subseteq Running(d)
      BY <2>1, <2>2, <2>9 DEF Running
    <3> QED BY <1>2, <2>3, <2>5, <2>6, <2>7, <2>9, <3>1, ElsewhereKeepsOne
  <2> QED BY <2>8, <2>9
<1>8. CASE SetReference(t)
  <2> DEFINE j == [job[t] EXCEPT !.instance = None]
  <2>1. j \in Jobs /\ j.on = job[t].on /\ j.found = job[t].found
    BY Fields
  <2>2. Step(t, "setReference", "setDeployed", j)
    BY <1>8 DEF SetReference
  <2> HIDE DEF j
  <2>3. Moves(t, "setReference", "setDeployed", j)
    BY <2>1, <2>2, StepMoves DEF Places
  <2>4. Roles'
    BY <1>2, <1>3, <2>1, <2>3, RolesKept, Fields
  <2>5. UNCHANGED <<state, alive>> /\ Running(d)' = Running(d)
    BY <1>8 DEF SetReference, Running
  <2>6. reference' = [reference EXCEPT ![job[t].on] = job[t].instance]
    BY <1>8 DEF SetReference
  <2>7. CASE job[t].on = d
    <3>1. reference'[d] = job[t].instance
      BY <1>1, <2>6, <2>7
    <3> QED BY <1>2, <2>1, <2>3, <2>4, <2>5, <2>7, <3>1, DeployingKeepsOne
  <2>8. CASE job[t].on # d
    <3>1. reference'[d] = reference[d]
      BY <1>1, <2>6, <2>8
    <3> QED BY <1>2, <2>1, <2>3, <2>4, <2>5, <2>8, <3>1, ElsewhereKeepsOne
  <2> QED BY <2>7, <2>8
<1>9. CASE SetDeployed(t)
  <2>1. Moves(t, "setDeployed", "idle", NoJob)
    BY <1>9, StepMoves, Fields DEF SetDeployed, Places
  <2>2. Roles'
    BY <1>2, <2>1, RolesKept, Fields
  <2>3. UNCHANGED <<reference, alive>> /\ Running(d)' = Running(d)
    BY <1>9 DEF SetDeployed, Running
  <2>4. state' = [state EXCEPT ![job[t].on] = "DEPLOYED"]
    BY <1>9 DEF SetDeployed
  <2>5. CASE job[t].on = d
    <3>1. state'[d] = "DEPLOYED"
      BY <1>1, <2>4, <2>5
    <3> QED BY <1>2, <2>1, <2>2, <2>3, <2>5, <3>1, AnnouncingKeepsOne
  <2>6. CASE job[t].on # d
    <3>1. state'[d] = state[d] /\ NoJob.on # d
      BY <1>1, <2>4, <2>6, Fields, NetworkAssumption
    <3> QED BY <1>2, <2>1, <2>2, <2>3, <2>6, <3>1, ElsewhereKeepsOne
  <2> QED BY <2>5, <2>6
<1> QED BY <1>5, <1>6, <1>7, <1>8, <1>9

\* The kill scan of a thread, and the kills of shutdown.
LEMMA KillScanKeepsOne ==
  ASSUME StableInv, NEW t \in Threads, NEW d \in Descriptors,
         CheckKillable(t) \/ Terminate(t) \/ TerminateFails(t) \/ SetKilled(t)
  PROVE  Roles' /\ OneInv(d)'
<1>1. TypeOK /\ state \in [Descriptors -> States]
  BY DEF StableInv, Inv, TypeOK
<1>2. UNCHANGED <<phase, host, reference>>
  BY DEF CheckKillable, Terminate, TerminateFails, SetKilled, network
<1>3. job[t].on \in Descriptors /\ pc[t] \in Places
  BY Fields DEF CheckKillable, Terminate, TerminateFails, SetKilled, Step, Places
<1>4. CASE CheckKillable(t)
  <2>1. pc[t] = "check" /\ t \in KillThreads /\ UNCHANGED <<state, alive>>
    BY <1>4 DEF CheckKillable
  <2>2. CASE state[job[t].on] \in {"RUNNING", "DEPLOYED"}
    <3>1. Moves(t, "check", "kill", job[t])
      BY <1>4, <2>2, StepMoves, Fields DEF CheckKillable, Check, Places
    <3>2. Roles'
      BY <1>2, <2>1, <3>1, RolesKept, Fields
    <3>3. CASE job[t].on = d
      BY <1>2, <2>1, <2>2, <3>1, <3>2, <3>3, KillDecisionKeepsOne
    <3>4. CASE job[t].on # d
      <4>1. Running(d)' = Running(d)
        BY <2>1 DEF Running
      <4> QED BY <1>2, <2>1, <3>1, <3>2, <3>4, <4>1, ElsewhereKeepsOne
    <3> QED BY <3>3, <3>4
  <2>3. CASE state[job[t].on] \notin {"RUNNING", "DEPLOYED"}
    <3>1. Step(t, "check", "idle", NoJob)
      BY <1>4, <2>3 DEF CheckKillable, Check
    <3> QED BY <1>2, <2>1, <3>1, StoppingKeepsOne, Fields DEF Places
  <2> QED BY <2>2, <2>3
<1>5. CASE TerminateFails(t)
  BY <1>2, <1>5, StoppingKeepsOne, Fields DEF TerminateFails, Places
<1>6. CASE Terminate(t)
  <2>1. Moves(t, "kill", "setKilled", job[t])
    BY <1>6, StepMoves, Fields DEF Terminate, Places
  <2>2. Roles'
    BY <1>2, <2>1, RolesKept, Fields
  <2>3. UNCHANGED state
    BY <1>6 DEF Terminate
  <2>4. CASE job[t].on = d
    <3>1. \/ host[d] = "AUTH" /\ alive' = alive \ {reference[d]}
          \/ host[d] # "AUTH" /\ UNCHANGED alive
      BY <1>6, <2>4 DEF Terminate
    <3> QED BY <1>2, <2>1, <2>2, <2>3, <2>4, <3>1, TerminatingKeepsOne
  <2>5. CASE job[t].on # d
    <3>1. Running(d)' \subseteq Running(d)
      BY <1>6 DEF Terminate, Running
    <3> QED BY <1>2, <2>1, <2>2, <2>3, <2>5, <3>1, ElsewhereKeepsOne
  <2> QED BY <2>4, <2>5
<1>7. CASE SetKilled(t)
  <2>1. Moves(t, "setKilled", "idle", NoJob)
    BY <1>7, StepMoves, Fields DEF SetKilled, Places
  <2>2. Roles'
    BY <1>2, <2>1, RolesKept, Fields
  <2>3. UNCHANGED alive /\ Running(d)' = Running(d)
    BY <1>7 DEF SetKilled, Running
  <2>4. state' = [state EXCEPT ![job[t].on] = "KILLED"]
    BY <1>7 DEF SetKilled
  <2>5. CASE job[t].on = d
    <3>1. state'[d] = "KILLED"
      BY <1>1, <2>4, <2>5
    <3> QED BY <1>2, <2>1, <2>2, <2>3, <2>5, <3>1, KilledKeepsOne
  <2>6. CASE job[t].on # d
    <3>1. state'[d] = state[d] /\ NoJob.on # d
      BY <1>1, <2>4, <2>6, Fields, NetworkAssumption
    <3> QED BY <1>2, <2>1, <2>2, <2>3, <2>6, <3>1, ElsewhereKeepsOne
  <2> QED BY <2>5, <2>6
<1> QED BY <1>4, <1>5, <1>6, <1>7

\* Whatever a thread does.
LEMMA ThreadKeepsOne ==
  ASSUME StableInv, NEW t \in Threads, NEW d \in Descriptors, Continue(t) \/ StartFails(t)
  PROVE  Roles' /\ OneInv(d)'
<1>1. CASE CheckRemovable(t)
  <2>1. /\ UNCHANGED <<phase, state, reference, alive, host>>
        /\ Step(t, "check", "remove", job[t]) \/ Step(t, "check", "idle", NoJob)
    BY <1>1 DEF CheckRemovable, Check, network
  <2> QED BY <2>1, StoppingKeepsOne, Fields DEF Places
<1>2. CASE Remove(t)
  BY <1>2, StoppingKeepsOne, Fields DEF Remove, Places
<1> QED
  BY <1>1, <1>2, StatusScanKeepsOne, DeployScanKeepsOne, KillScanKeepsOne DEF Continue

\* A scan begins: its thread was idle.
LEMMA BeginningKeepsOne ==
  ASSUME StableInv, NEW t \in Scanning, NEW e \in Descriptors, BeginScan(t, e), NEW d \in Descriptors
  PROVE  Roles' /\ OneInv(d)'
<1> DEFINE j == [NoJob EXCEPT !.on = e]
<1>1. j \in Jobs
  BY JobUpdates DEF StableInv, Inv
<1>2. /\ Step(t, "idle", "check", j) /\ phase = "open" /\ t \in Threads
      /\ UNCHANGED <<phase, state, reference, alive, host>>
  BY DEF BeginScan, network, Threads
<1>3. \A u \in Threads : SameScanner(t, u) => job[u].on # j.on
  BY DEF BeginScan, StableInv, Stable, NoJob
<1> HIDE DEF j
<1> QED BY <1>1, <1>2, <1>3, StoppingKeepsOne DEF Places

\* Shutdown sets its killers to work, none of which was at anything.
LEMMA ShutdownKeepsOne ==
  ASSUME StableInv, NEW d \in Descriptors, BeginShutdown \/ EndShutdown
  PROVE  Roles' /\ OneInv(d)'
<1>1. Roles /\ TypeOK
  BY DEF StableInv, Inv
<1>2. CASE BeginShutdown
  <2> DEFINE Killed(t) == t \in Killers /\ t[2] \in members
  <2>1. /\ pc' = [t \in Threads |-> IF Killed(t) THEN "kill" ELSE pc[t]]
        /\ job' = [t \in Threads |-> IF Killed(t) THEN [NoJob EXCEPT !.on = t[2]] ELSE job[t]]
        /\ phase = "open" /\ phase' = "killing" /\ UNCHANGED <<state, reference, alive, host>>
    BY <1>2 DEF BeginShutdown
  <2>2. \A t \in Threads : Killed(t) => t \in Killers
    OBVIOUS
  <2> HIDE DEF Killed
  <2>3. \A t \in Threads : \/ pc'[t] = pc[t] /\ job'[t] = job[t]
                           \/ t \in Killers /\ pc'[t] = "kill"
    BY <2>1, <2>2
  <2>4. \A t \in Killers : pc[t] \in {"idle", "check", "remove"}
    <3>1. \A t \in Killers : t \notin StatusThreads /\ t \notin DeployThreads /\ t \notin KillThreads /\ t \in Threads
      BY NetworkAssumption DEF Scanning, Threads
    <3> QED BY <1>1, <2>1, <3>1 DEF Roles, TypeOK
  <2>5. Roles'
    <3>1. \A t, u \in Threads : t \in Killers => ~SameScanner(t, u) /\ ~SameScanner(u, t)
      BY NetworkAssumption DEF SameScanner, Scanning
    <3>2. ASSUME NEW t \in Threads, NEW u \in Threads, t # u, SameScanner(t, u), job'[t].on \in Descriptors
          PROVE  job'[u].on # job'[t].on
      <4>1. job'[t] = job[t] /\ job'[u] = job[u]
        BY <2>3, <3>1, <3>2
      <4> QED BY <1>1, <3>2, <4>1 DEF Roles
    <3> HIDE DEF SameScanner
    <3>3. \A t \in Threads : \/ pc'[t] = pc[t] /\ job'[t] = job[t]
                             \/ t \in Killers /\ pc'[t] = "kill" /\ phase' # "open"
      BY <2>1, <2>3
    <3> QED BY <1>1, <2>1, <3>2, <3>3 DEF Roles
  <2>6. Deployable(d)
    BY <2>1 DEF Deployable
  <2>7. OneInv(d)'
    BY <2>1, <2>3, <2>4, <2>6, OthersKeepOne
  <2> QED BY <2>5, <2>7
<1>3. CASE EndShutdown
  <2>1. phase = "killing" /\ phase' = "closed" /\ UNCHANGED <<state, reference, alive, host, pc, job>>
    BY <1>3 DEF EndShutdown
  <2>2. Roles'
    BY <1>1, <2>1 DEF Roles
  <2>3. Deployable(d)' => Deployable(d)
    BY <2>1 DEF Deployable
  <2> QED BY <2>1, <2>2, <2>3, OthersKeepOne
<1> QED BY <1>2, <1>3

\* Instances end and hosts change by themselves.
LEMMA WorldKeepsOne ==
  ASSUME StableInv, NEW d \in Descriptors,
         \/ \E i \in Instances : InstanceEnds(i)
         \/ \E e \in Descriptors, h \in HostStates : HostChanges(e, h)
         \/ UNCHANGED vars
  PROVE  Roles' /\ OneInv(d)'
<1>1. UNCHANGED <<phase, state, reference, pc, job>> /\ alive' \subseteq alive
  BY DEF InstanceEnds, HostChanges, network, vars
<1>2. host'[d] = host[d] \/ \A t \in StatusThreads : job[t].on # d
  BY DEF InstanceEnds, HostChanges, vars, StableInv, Stable, Inv, TypeOK
<1>3. Roles'
  BY <1>1 DEF StableInv, Roles
<1>4. Deployable(d)' => Deployable(d)
  BY <1>1 DEF Deployable
<1> QED BY <1>1, <1>2, <1>3, <1>4, OthersKeepOne

\* No thread, host or instance breaks what makes one instance the most there is.
LEMMA StableInductive == StableInv /\ [Next]_vars => StableInv'
<1> SUFFICES ASSUME StableInv, [Next]_vars PROVE StableInv'
  OBVIOUS
<1>1. Stable' /\ Inv'
  BY InvInductive DEF StableInv, Stable
<1>2. ASSUME NEW d \in Descriptors PROVE Roles' /\ OneInv(d)'
  <2>1. UserThreads = {}
    BY DEF StableInv, Stable
  <2> QED
    BY <2>1, ThreadKeepsOne, BeginningKeepsOne, ShutdownKeepsOne, WorldKeepsOne DEF Next
<1>3. CASE Descriptors = {}
  <2>1. \A t \in Threads : pc'[t] = "idle"
    BY <1>1, <1>3 DEF Inv, ThreadInv, Sound, TypeOK
  <2> QED BY <1>1, <1>3, <2>1 DEF StableInv, Roles
<1> QED BY <1>1, <1>2, <1>3 DEF StableInv

\* A descriptor never has two instances, however many descriptors there are, whenever instances end,
\* hosts come and go between their probes, and the network is shut down: a deployment that is decided
\* upon finds nothing running, because the StatusScanner compares before it sets.
THEOREM OneInstanceEach == Stable /\ SafeSpec => []OneInstancePerDescriptor
<1>1. Stable /\ Init => StableInv
  <2> SUFFICES ASSUME Stable, Init PROVE Roles /\ \A d \in Descriptors : OneInv(d)
    BY InitHolds DEF StableInv
  <2>1. (\A t \in Threads : pc[t] = "idle" /\ job[t].on \notin Descriptors) /\ alive = {}
    BY NetworkAssumption DEF Init, NoJob
  <2>2. Roles
    BY <2>1 DEF Roles
  <2>3. ASSUME NEW d \in Descriptors PROVE OneInv(d)
    BY <2>1 DEF OneInv, OnlyReferenced, NothingRuns, OnlyWriter, OnlyKill, JustDoubts,
                Probing, Deploying, Killing, Doubting, Running
  <2> QED BY <2>2, <2>3
<1>2. StableInv => OneInstancePerDescriptor
  <2> SUFFICES ASSUME StableInv, NEW i \in alive, NEW j \in alive, i[1] = j[1] PROVE i = j
    BY DEF OneInstancePerDescriptor
  <2>1. i[1] \in Descriptors /\ i \in Running(i[1]) /\ j \in Running(i[1])
    BY DEF StableInv, Inv, TypeOK, Instances, Running
  <2>2. OnlyReferenced(i[1])
    BY <2>1 DEF StableInv, OneInv
  <2> HIDE DEF Running
  <2> QED BY <2>1, <2>2 DEF OnlyReferenced
<1> QED BY <1>1, <1>2, StableInductive, PTL DEF SafeSpec
=============================================================================
