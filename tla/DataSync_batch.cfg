\* The function of the subscriber's Batch runs again.
SPECIFICATION SpecBatch
CONSTANTS
  Objects = {"o1"}
  Relations = {"r1"}
  Manifests = {"narrow", "wide"}
  Chunked = {"wide"}
  Admits <- NarrowOrWide
  NoManifest = "none"
  Syncs = {s1}
  None = None
  RunModes <- PluginModes
  ChannelSize = 1
  InitFilterSize = 2
  Rounding = 1
  FalsePositives = FALSE
  MaxVersion = 2
  MaxManifests = 1
  MaxFaults = 0
INVARIANT DiffExact
CHECK_DEADLOCK FALSE
