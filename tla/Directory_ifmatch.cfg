SPECIFICATION Spec
CONSTANTS
  Objects = {"a"}
  Relations = {}
  ObjectOf <- Ends1
  SubjectOf <- Ends2
  Contents = {"x"}
  Manifests = {"narrow", "wide"}
  Empty = "empty"
  NoManifest = "none"
  Admits <- NarrowOrWide
  Clients = {c1, c2}
  None = None
  Ops = {"SetManifest"}
  Serial = TRUE
  MaxRequests = 3
  MaxFaults = 0
PROPERTY ConditionalManifest
CHECK_DEADLOCK FALSE
