\* Scanners only, no lingering scan, a host that comes and goes but not in the middle of a probe.
CONSTANTS
  d1 = d1  d2 = d2  st1 = st1  st2 = st2  de1 = de1  ki1 = ki1  re1 = re1  us1 = us1
  Descriptors = {d1}
  Ids = {1, 2}
  StatusThreads = {st1, st2}
  DeployThreads = {de1}
  KillThreads = {ki1}
  RemoveThreads = {}
  UserThreads = {}
  HostStates = {"AUTH", "UNREACHABLE"}
  CallsRemotely = TRUE
  Lingers = FALSE
  Interrupts = FALSE
  HostsRest = TRUE
  None = None
SPECIFICATION Spec
 
PROPERTIES DeadIsNoticed Resurrection
\* A network that was shut down may have nothing left to do.
CHECK_DEADLOCK FALSE
