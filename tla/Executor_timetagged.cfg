SPECIFICATION Spec
CONSTANTS
  SubScans <- RecordThenDry
  Mode = "TIMETAGGED"
  Reps <- Endless
  InitProc = "queued"
  Times = {t1, t2}
  NoTime = NoTime
  MaxQueue = 2
  Faults <- FaultClasses
SYMMETRY TimeSymmetry
INVARIANTS NoRunawayRecording StopEventOwned StreamNested
