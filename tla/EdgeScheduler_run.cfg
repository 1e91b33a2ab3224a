\* Two schedulers, reconfigurations and a failing sync; or one, and a caller of
\* SyncNow who calls as often as may be.
SPECIFICATION FairSpec
CONSTANTS
  Schedulers = {1, 2}
  Tasks = {t1, t2}
  Callers = {c1}
  CallerModes = {{"Full"}}
  Intervals = {0, 1}
  MaxReconfigures = 2
  MaxFaults = 1
CONSTRAINT CallsAlone
INVARIANTS FlagNotStuck OneActivity DiffDue
PROPERTIES KeepsSyncing ComesToRest
CHECK_DEADLOCK FALSE
