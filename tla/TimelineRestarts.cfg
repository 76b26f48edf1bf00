CONSTANTS
    alice = alice
    bob = bob
    callA1 = callA1
    callA2 = callA2
    callB1 = callB1
    none = none
    None = none
    Users <- TwoUsers
    Clients <- OneCall
    Owner <- OwnOneCall
    Workers = {w1}
    MaxPost = 1
    Limit = 1
    ApiFaults = {alice, bob}
    RedisRestarts = TRUE
    BusFaults = TRUE
SYMMETRY UserSymmetry
SPECIFICATION Spec
INVARIANTS OwnChangesShown FollowedPostsShown
PROPERTY ImplementsFeed
