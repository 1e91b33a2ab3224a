SPECIFICATION FairSpec
CONSTANTS
  Objects = {"o1"}
  Relations = {"r1"}
  Manifests = {"narrow", "wide"}
  Chunked = {}
  Admits <- NarrowOrWide
  NoManifest = "none"
  Syncs = {s1}
  None = None
  RunModes <- DiffOnly
  ChannelSize = 1
  InitFilterSize = 2
  Rounding = 1
  FalsePositives = FALSE
  MaxVersion = 1
  MaxManifests = 1
  MaxFaults = 0
PROPERTY AlwaysConverges
CHECK_DEADLOCK FALSE
