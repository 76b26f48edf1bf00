CONSTANTS
    Accounts = {alice, bob}
    MaxActs = 3
    None = none
SYMMETRY AccountSymmetry
SPECIFICATION Spec
INVARIANTS TypeOK RightAccount NoOrphanSpinner ButtonTellsTruth
CHECK_DEADLOCK FALSE
