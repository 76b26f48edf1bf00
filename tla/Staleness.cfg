CONSTANTS
    Readers = {r1, r2}
    TTL = 4
    MaxDelay = 2
    None = None
SPECIFICATION Spec
INVARIANTS TypeOK BoundedStaleness
CHECK_DEADLOCK TRUE
