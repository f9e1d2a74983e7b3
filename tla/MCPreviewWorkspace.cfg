CONSTANTS
  MaxGen = 3
  MaxSess = 2
SPECIFICATION FairSpec
INVARIANTS OneLiveChild UsableHasChild
PROPERTIES OpenSettles RefinesContract
CHECK_DEADLOCK FALSE
