SPECIFICATION BrokerFairSpec
CONSTANTS
    hook = hook
    w1 = w1
    w2 = w2
    Nil = Nil
    Slugs = {hook}
    Workers = {w1, w2}
    QueueCapacity = 2
    MaxEvents = 3
    MaxSaves = 2
    BrokerBuffer = 1
    Depth = 1
INVARIANTS
    SinksAsSaved
    EveryEventOnce
PROPERTY NobodyIsHeldUp
CHECK_DEADLOCK FALSE
