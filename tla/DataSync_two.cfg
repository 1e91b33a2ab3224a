SPECIFICATION Spec
CONSTANTS
  Objects = {"o1"}
  Relations = {"r1"}
  Manifests = {"wide"}
  Chunked = {"wide"}
  Admits <- SameTypes
  NoManifest = "none"
  Syncs = {s1, s2}
  None = None
  RunModes <- DiffOnly
  ChannelSize = 1
  InitFilterSize = 2
  Rounding = 1
  FalsePositives = TRUE
  MaxVersion = 1
  MaxManifests = 0
  MaxFaults = 0
SYMMETRY RunSymmetry
INVARIANTS TypeOK TxInv FilterInv
PROPERTIES ReplicaSpec DeletesOnlyAbsent
CHECK_DEADLOCK FALSE
