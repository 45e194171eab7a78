SPECIFICATION FairSpec
CONSTANTS
  MaxSubScans = 3
  MaxScans = 2
  MaxDumps = 2
  CacheSize = 1
  MaxFailures = 1
INVARIANTS TypeOK OwnFile NothingLost StartAccepted OwnSummary
PROPERTIES HeadersStable StopAnswered
CHECK_DEADLOCK FALSE
