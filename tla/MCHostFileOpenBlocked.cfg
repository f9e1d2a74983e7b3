SPECIFICATION FairSpec
CONSTANTS
  Files = {"svga", "lottie"}
  Svga = {"svga"}
  Broken = {"svga"}
  MaxEvents = 2
  MaxRequests = 0
  Uses = {}
PROPERTIES EventsAreServed
CHECK_DEADLOCK FALSE
