\* Scans, a user and a host that comes and goes, on one descriptor.
CONSTANTS
  d1 = d1  d2 = d2  st1 = st1  st2 = st2  de1 = de1  ki1 = ki1  re1 = re1  us1 = us1
  Descriptors = {d1}
  Ids = {1, 2}
  StatusThreads = {st1}
  DeployThreads = {de1}
  KillThreads = {}
  RemoveThreads = {re1}
  UserThreads = {us1}
  HostStates = {"AUTH", "UNREACHABLE"}
  CallsRemotely = TRUE
  Lingers = TRUE
  Interrupts = TRUE
  HostsRest = FALSE
  None = None
SPECIFICATION SafeSpec
INVARIANTS TypeOK 
\* A network that was shut down may have nothing left to do.
CHECK_DEADLOCK FALSE
