\* A Stop that overtakes an enabling Reconfigure.
SPECIFICATION FairSpec
CONSTANTS
  Schedulers = {1, 2}
  Tasks = {t1, t2}
  Callers = {}
  CallerModes = {{"Full"}}
  Intervals = {1}
  MaxReconfigures = 2
  MaxFaults = 0
PROPERTY StopIsFinal
CHECK_DEADLOCK FALSE
