SPECIFICATION Spec
CONSTANTS
  Files = {"svga", "lottie"}
  Svga = {"svga"}
  Broken = {"svga"}
  MaxEvents = 2
  MaxRequests = 2
  Uses = {"dialog", "close", "gone"}
INVARIANTS RecordedWasShown IdleQueueWasTried PathsAreHeld LoadsLeaveNothing
PROPERTIES ShownInOrder
CHECK_DEADLOCK FALSE
