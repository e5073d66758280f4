\* Small tables with and without a missing file, links typed by hand.
CONSTANTS
  Filters = {"workload"}
  Tables <- MCTables
  Metrics = {0, 1}
  Missing <- MCMissing
  Links <- MCLinks
SPECIFICATION Spec
INVARIANTS TypeOK ChartIsWhatIsTicked
 
