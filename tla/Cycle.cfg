\* Two descriptors, one thread for the scans, scans that hang.
CONSTANTS
  r1 = r1  r2 = r2
  Descriptors = {1, 2}
  Slots = {1, 2}
  Runs = {r1, r2}
  PoolSize = 1
  NoRun = NoRun
SPECIFICATION Spec
INVARIANTS TypeOK CyclesLeaveNothingUncancelled
PROPERTIES CyclesEnd DisabledRunsEnd
