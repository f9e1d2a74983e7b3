CONSTANTS
  Builds = {a, b, c}
  MaxStops = 2
SPECIFICATION FairSpec
INVARIANTS AllOrNothing NothingLost InterruptedIsRecoverable
PROPERTY RecoveryFinishes
CHECK_DEADLOCK FALSE
