CONSTANTS
    Requests = {r1, r2, r3}
    Deregister = 0
    PreStop = 1
    Budget = 4
    WriteTimeout = 6
    Grace = 8
SPECIFICATION Spec
INVARIANTS TypeOK NoneRefused ShortOnesAnswered KilledOnlyByStragglers TracesLostOnlyToStragglers
CHECK_DEADLOCK FALSE
