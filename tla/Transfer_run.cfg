\* Every job from and to either store, with two writes to the source, a fault
\* and a further attempt.
SPECIFICATION Spec
CONSTANTS
  ObjectOrder <- MCObjectOrder
  RelationOrder <- MCRelationOrder
  EndsOf <- MCEndsOf
  Groups <- MCGroups
  Models <- MCModels
  Contents <- MCContents
  Jobs = {"backup", "data", "mixed", "crossed", "migrate", "load", "feed", "entra"}
  Stores <- MCStores
  Sources <- MCSources
  Targets <- MCTargets
  LoadFiles <- MCLoadFiles
  Feed <- MCFeed
  MaxWrites = 2
  MaxFaults = 1
  MaxTries = 1
INVARIANTS TransferFaithful ArchiveOneState AckedStored AllOrNothing
PROPERTY JobEnds
CHECK_DEADLOCK FALSE
