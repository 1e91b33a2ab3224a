SPECIFICATION Spec
CONSTANTS
  Configs <- OneConfig
  Calls = {k1}
INVARIANT DecisionLogged
CHECK_DEADLOCK FALSE
