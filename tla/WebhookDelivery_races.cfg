SPECIFICATION FairSpec
CONSTANTS
    Entries = {1, 2, 3}
    MaxTries = 2
    MaxJobs = 2
    Operations = {"restart", "stop", "delete", "crash", "timeout", "redisdown"}
INVARIANTS TypeOK AttemptsWereMade SecondChance
PROPERTIES NoPostAfterDelivery ChainEnds
CHECK_DEADLOCK FALSE
