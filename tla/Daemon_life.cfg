SPECIFICATION FairSpec
CONSTANTS
  Configs <- AllConfigs
  Calls = {k1, k2}
INVARIANT StoreOpenForCalls
PROPERTIES HealthKept Boots ShutsDown
CHECK_DEADLOCK FALSE
