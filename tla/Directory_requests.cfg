SPECIFICATION EitherSpec
CONSTANTS
  Objects = {"a", "b"}
  Relations = {"r1"}
  ObjectOf <- Ends1
  SubjectOf <- Ends2
  Contents = {"x", "y"}
  Manifests = {"narrow", "wide"}
  Empty = "empty"
  NoManifest = "none"
  Admits <- NarrowOrWide
  Clients = {c1, c2}
  None = None
  Ops <- AllOps
  Serial = TRUE
  MaxRequests = 4
  MaxFaults = 1
SYMMETRY ClientSymmetry
INVARIANTS IndexesAgree CacheCommitted CacheFreshOneByOne StoreConformsOneByOne
PROPERTIES ConditionalWrites RelationsGone
CHECK_DEADLOCK FALSE
