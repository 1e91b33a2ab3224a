SPECIFICATION Spec
CONSTANTS
  Schedulers = {1}
  Tasks = {t1}
  Callers = {}
  CallerModes = {{"Full"}, {"Manifest"}}
  Intervals = {0, 1}
  MaxReconfigures = 0
  MaxFaults = 0
INVARIANT NoPanic
CHECK_DEADLOCK FALSE
