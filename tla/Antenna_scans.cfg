SPECIFICATION Spec
CONSTANTS
    MaxPoints = 2
    Targets = {t1, t2}
    UserOffsets <- MCUserOffsets
    ScanOffsets <- MCScanOffsets
    NoTarget = NoTarget
    NoOffset = NoOffset
    MaxCommands = 3
    MaxFaults = 1
    MaxSamples = 1
INVARIANTS TypeOK OffsetsAgree LastCommanded TableOfScan

CHECK_DEADLOCK FALSE
