CONSTANTS
    alice = alice
    bob = bob
    callA1 = callA1
    callA2 = callA2
    callB1 = callB1
    none = none
    None = none
    Users <- TwoUsers
    Clients <- TwoCalls
    Owner <- OwnTwoCalls
    Workers = {w1}
    MaxPost = 1
    Limit = 1
    ApiFaults = {}
    RedisRestarts = FALSE
    BusFaults = FALSE
SPECIFICATION Spec
INVARIANTS AuthorSeesOwnPosts
