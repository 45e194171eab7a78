SPECIFICATION FairSpec
CONSTANTS
    MaxPoints = 2
    Targets = {t1, t2}
    UserOffsets <- MCUserOffsets
    ScanOffsets <- MCScanOffsets
    NoTarget = NoTarget
    NoOffset = NoOffset
    MaxCommands = 2
    MaxFaults = 2
    MaxSamples = 0
PROPERTIES LineFree ScanFollowed
CHECK_DEADLOCK FALSE
