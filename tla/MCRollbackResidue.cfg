CONSTANTS
  Ids = {r1}
  Builds = {a, b}
SPECIFICATION Spec
INVARIANT RecoveryCanBind
CHECK_DEADLOCK FALSE
