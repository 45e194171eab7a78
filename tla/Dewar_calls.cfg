SPECIFICATION Spec
CONSTANTS
    Clients = {c1, c2}
    Threads = {w1, w2}
    Offsets = {1}
    NoOne = NoOne
    MaxCalls = 3
SYMMETRY Symmetric
INVARIANTS TypeOK OneMover UpdatingTruth FailureJustified
CHECK_DEADLOCK FALSE
