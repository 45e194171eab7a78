SPECIFICATION FairSpec
CONSTANTS
  Callers = {c1, c2}
  MaxFaults = 2
INVARIANTS TypeOK StatusAgrees
PROPERTIES DumpStream SendStopEnds
CHECK_DEADLOCK FALSE
