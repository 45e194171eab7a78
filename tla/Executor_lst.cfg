SPECIFICATION Spec
CONSTANTS
  SubScans <- Sidereal
  Mode = "LST"
  Reps <- Twice
  InitProc = "NULL"
  Times = {t1, t2}
  NoTime = NoTime
  MaxQueue = 2
  Faults <- SiderealFaults
SYMMETRY TimeSymmetry
INVARIANTS TypeOK TelescopeFree
