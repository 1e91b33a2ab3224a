SPECIFICATION Spec
CONSTANTS
  Objects = {"o1"}
  Relations = {"r1"}
  Manifests = {"m1"}
  Chunked = {}
  Admits <- SameTypes
  NoManifest = "none"
  Syncs = {s1}
  None = None
  RunModes <- DiffOnly
  ChannelSize = 1
  InitFilterSize = 1
  Rounding = 1
  FalsePositives = FALSE
  MaxVersion = 1
  MaxManifests = 0
  MaxFaults = 0
PROPERTY DeletesOnlyAbsent
CHECK_DEADLOCK FALSE
