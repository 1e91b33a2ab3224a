SPECIFICATION Spec
CONSTANTS
  Schedulers = {1}
  Tasks = {t1}
  Callers = {}
  CallerModes = {{"Full"}, {"Manifest"}}
  Intervals = {1}
  MaxReconfigures = 1
  MaxFaults = 0
INVARIANT DisabledNotServing
CHECK_DEADLOCK FALSE
