SPECIFICATION FairCallSpec
CONSTANTS
  Schedulers = {1}
  Tasks = {t1, t2}
  Callers = {c1}
  CallerModes = {{"Full"}, {"Manifest"}}
  Intervals = {1}
  MaxReconfigures = 0
  MaxFaults = 0
PROPERTY QueuedModeRuns
CHECK_DEADLOCK FALSE
