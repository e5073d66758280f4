\* A job is cancelled before it starts.
CONSTANTS
  j1 = j1
  Jobs = {j1}
SPECIFICATION SafeSpec
INVARIANT CancelledNeverRuns
\* Every job is over and everything is shut down.
CHECK_DEADLOCK FALSE
