SPECIFICATION Spec
CONSTANTS
    Clients = {c1, c2}
    Executor = executor
    Timer = timer
INVARIANT OperatorServed
CHECK_DEADLOCK FALSE
