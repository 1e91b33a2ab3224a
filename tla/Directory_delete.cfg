SPECIFICATION Spec
CONSTANTS
  Objects = {"a"}
  Relations = {}
  ObjectOf <- Ends1
  SubjectOf <- Ends2
  Contents = {"x"}
  Manifests = {"wide"}
  Empty = "empty"
  NoManifest = "none"
  Admits <- NarrowOrWide
  Clients = {c1}
  None = None
  Ops = {"SetObject", "SetManifest", "DeleteManifest"}
  Serial = TRUE
  MaxRequests = 3
  MaxFaults = 0
INVARIANT CacheFresh
CHECK_DEADLOCK FALSE
