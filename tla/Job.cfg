\* One job, cancelled, notified and forgotten, while connections break, its worker dies and the network shuts down.
CONSTANTS
  j1 = j1
  Jobs = {j1}
SPECIFICATION Spec
INVARIANTS TypeOK LiveJobsCanBeCancelled
PROPERTIES ImplementsJobPromise  FuturesEnd
\* Every job is over and everything is shut down.
CHECK_DEADLOCK FALSE
