SPECIFICATION FairSpec
CONSTANTS
    Clients = {c1}
    Threads = {w1, w2}
    Offsets = {1}
    NoOne = NoOne
    MaxCalls = 3
PROPERTIES OffsetApplied CallsReturn
CHECK_DEADLOCK FALSE
