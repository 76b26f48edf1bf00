CONSTANTS
    Requests = {r1, r2}
    Deregister = 0
    PreStop = 1
    Budget = 4
    WriteTimeout = 6
    Grace = 8
SPECIFICATION Spec
INVARIANT TracesFlushed
CHECK_DEADLOCK FALSE
