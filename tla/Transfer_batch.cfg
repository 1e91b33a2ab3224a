\* Known limit: a bolt batch whose other import fails is run again, and the
\* streams of its imports have been read by then.
SPECIFICATION SpecBatch
CONSTANTS
  ObjectOrder <- MCObjectOrder
  RelationOrder <- MCRelationOrder
  EndsOf <- MCEndsOf
  Groups <- MCGroups
  Models <- MCModels
  Contents <- MCContents
  Jobs = {"data", "load"}
  Stores <- MCStores
  Sources <- MCSources
  Targets <- MCTargets
  LoadFiles <- MCLoadFiles
  Feed <- MCFeed
  MaxWrites = 1
  MaxFaults = 1
  MaxTries = 1
INVARIANT AckedStored
CHECK_DEADLOCK FALSE
