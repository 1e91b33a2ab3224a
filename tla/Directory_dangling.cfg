\* A relation is added behind the scans of DeleteObject on read-committed transactions.
SPECIFICATION Spec
CONSTANTS
  Objects = {"a", "b"}
  Relations = {"r1"}
  ObjectOf <- Ends1
  SubjectOf <- Ends2
  Contents = {"x"}
  Manifests = {"wide"}
  Empty = "empty"
  NoManifest = "none"
  Admits <- NarrowOrWide
  Clients = {c1, c2}
  None = None
  Ops = {"SetObject", "DeleteObject", "SetRelation"}
  Serial = FALSE
  MaxRequests = 3
  MaxFaults = 0
PROPERTY RelationsGone
CHECK_DEADLOCK FALSE
