\* Two processes, every command.
SPECIFICATION Spec
CONSTANTS
  Procs = {1, 2}
  Names = {"config", "a", "ab"}
  Containers = {"config", "a", "ab", "mine", "other"}
  Others = {{}, {"other"}}
  Matches <- MCMatches
  Templates <- MCTemplates
  Admits <- MCAdmits
  Rows <- MCRows
  Allows <- MCAllows
  Commands <- MCCommands
  Stale <- MCStale
  NoChecks = {FALSE, TRUE}
  Together = FALSE
  MaxCommands = 2
  MaxFaults = 1
INVARIANT CertsMatch
PROPERTY InstallComplete TestsExact CommandEnds
CHECK_DEADLOCK FALSE
