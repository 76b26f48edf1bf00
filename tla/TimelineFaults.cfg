CONSTANTS
    alice = alice
    bob = bob
    callA1 = callA1
    callA2 = callA2
    callB1 = callB1
    none = none
    None = none
    Users <- TwoUsers
    Clients <- OneCall
    Owner <- OwnOneCall
    Workers = {w1}
    MaxPost = 2
    Limit = 1
    ApiFaults = {alice, bob}
    RedisRestarts = FALSE
    BusFaults = TRUE
SYMMETRY UserSymmetry
SPECIFICATION Spec
INVARIANTS TypeOK ThreadsIntact OwnChangesShown FollowedPostsShown
PROPERTY OnlyAuthorDeletes
