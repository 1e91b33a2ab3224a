SPECIFICATION FairSpec
CONSTANTS
  Objects = {"o1"}
  Relations = {"r1"}
  Manifests = {"narrow", "wide"}
  Chunked = {"wide"}
  Admits <- NarrowOrWide
  NoManifest = "none"
  Syncs = {s1}
  None = None
  RunModes <- PluginModes
  ChannelSize = 1
  InitFilterSize = 2
  Rounding = 1
  FalsePositives = FALSE
  MaxVersion = 2
  MaxManifests = 1
  MaxFaults = 1
INVARIANTS DiffExact EdgeConforms
PROPERTIES ReplicaSpec DeletesOnlyAbsent Converges
CHECK_DEADLOCK FALSE
