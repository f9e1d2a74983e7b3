CONSTANTS
  Ids = {r1, r2}
  Builds = {a, b}
SPECIFICATION Spec
PROPERTY SingleUse
CHECK_DEADLOCK FALSE
