\* Two callers, a thread that deploys or kills, and a StatusScanner.
CONSTANTS
  w1 = w1  w2 = w2
  auth = auth  deployed = deployed  running = running
  Waiters = {w1, w2}
  Setters = {s1}
  Casers = {c1}
  NoThread = NoThread
  States <- MCStates
  Targets <- MCTargets
SPECIFICATION CountingSpec
INVARIANTS TypeOK CountersSettle RegisteredIsReleased UndisturbedAreAwoken ReturnsOnlyIfReached
PROPERTY ImplementsStateAwait
