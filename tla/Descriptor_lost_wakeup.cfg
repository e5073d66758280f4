\* The comment of awaitAnyOfStates, against compareAndSetApplicationState.
CONSTANTS
  w1 = w1  w2 = w2
  auth = auth  deployed = deployed  running = running
  Waiters = {w1}
  Setters = {s1}
  Casers = {c1}
  NoThread = NoThread
  States <- MCStates
  Targets <- MCTargets
SPECIFICATION CountingSpec
INVARIANT NoLostWakeup
