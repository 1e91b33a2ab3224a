SPECIFICATION Spec
CONSTANTS
  Objects = {"a"}
  Relations = {}
  ObjectOf <- Ends1
  SubjectOf <- Ends2
  Contents = {"x", "y", "z"}
  Manifests = {"wide"}
  Empty = "empty"
  NoManifest = "none"
  Admits <- NarrowOrWide
  Clients = {c1, c2}
  None = None
  Ops = {"SetObject"}
  Serial = FALSE
  MaxRequests = 3
  MaxFaults = 0
PROPERTY ConditionalWrites
CHECK_DEADLOCK FALSE
