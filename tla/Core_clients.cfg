SPECIFICATION FairSpec
CONSTANTS
  Clients = {c1, c2}
  Tasks <- Mixed
  Faults <- MixedFaults
INVARIANTS TypeOK SomebodyInCharge StreamNested
PROPERTIES OneAtATime RecordingEnds
CHECK_DEADLOCK FALSE
