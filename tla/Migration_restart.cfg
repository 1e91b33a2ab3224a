SPECIFICATION FairSpec
CONSTANTS
  Processes = {p1, p2}
  Files <- OldFiles
  MaxCrashes = 2
INVARIANT ServingIntact
PROPERTY Serves
