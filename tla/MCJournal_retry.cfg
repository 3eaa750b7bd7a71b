SPECIFICATION MCJSpec
CONSTANTS
    JTask = {t}
    JNative = {t}
    JCached = {}
    MaxOutput = 3
    MaxTries = 2
    TickBudget = 2
    PageEvents = 2
    PollHalves = 3
    Watched = 1
INVARIANT NothingLost
CHECK_DEADLOCK FALSE
