\* The status of workers, as WorkerManager probes it.
CONSTANTS
  d1 = d1  d2 = d2  st1 = st1  st2 = st2  de1 = de1  ki1 = ki1  re1 = re1  us1 = us1
  Descriptors = {d1}
  Ids = {1, 2, 3}
  StatusThreads = {st1}
  DeployThreads = {de1}
  KillThreads = {}
  RemoveThreads = {}
  UserThreads = {}
  HostStates = {"AUTH"}
  CallsRemotely = FALSE
  Lingers = FALSE
  Interrupts = FALSE
  HostsRest = FALSE
  None = None
SPECIFICATION Spec
PROPERTY DeadIsNoticed
CHECK_DEADLOCK FALSE
