SPECIFICATION FairSpec
CONSTANTS
  SubScans <- Waited
  Mode = "SEQ"
  Reps <- Endless
  InitProc = "NULL"
  Times = {t1, t2}
  NoTime = NoTime
  MaxQueue = 1
  Faults <- SeqFaults
INVARIANT NoOrphanWait
PROPERTIES StopHonoured HaltHonoured ImplementsSession
