\* One thread enables and disables, two add and remove, one sweeps and shuts the network down.
CONSTANTS
  s1 = s1  t1 = t1  m1 = m1  m2 = m2  p1 = p1
  Scanners = {s1}
  Togglers = {t1}
  Managers = {m1, m2}
  Sweepers = {p1}
  Ids = {0, 1, 2, 3}
  MaxRegistrations = 3
  Null = Null
  Absent = Absent
SPECIFICATION Spec
INVARIANTS TypeOK NoOrphanSchedule ScheduleMatchesFlag HooksMatchMap
 
\* A network that was shut down may have nothing left to do.
CHECK_DEADLOCK FALSE
