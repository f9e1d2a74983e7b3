CONSTANTS
  MaxGen = 3
  MaxSess = 2
SPECIFICATION FairSpec
INVARIANTS PlaybackIsCurrent UrlsAccounted
PROPERTIES OpenSettles RefinesContract
CHECK_DEADLOCK FALSE
