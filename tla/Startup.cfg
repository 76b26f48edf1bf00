CONSTANTS
    Apis = {api1, api2}
    Worker = worker
    Slots = {req1}
    MaxRequest = 2
    MaxKill = 1
    MaxOutage = 1
    None = none
SPECIFICATION FairSpec
INVARIANTS TypeOK ServingHasSchema FeedSurvivesMigration DeadlocksArePairs
PROPERTIES ImplementsMigration PodsServe RequestsEnd FanOutReturns
CHECK_DEADLOCK FALSE
