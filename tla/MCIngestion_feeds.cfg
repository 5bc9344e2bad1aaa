SPECIFICATION FairSpec
CONSTANTS
    s1 = s1
    a1 = a1
    Workers = {"w1", "w2"}
    Sources = {s1}
    Kinds = {"rss", "api", "reddit"}
    Articles = {a1}
    From <- FromOne
    PollInterval = 1
    MaxBuffered = 2
    CountCap = 2
    MaxRetries = 1
    NoSource = NoSource
    FaultKinds = {"broker", "fetch", "page", "db", "crash", "admin"}
    MaxFaults = 1
INVARIANTS TypeOK ThrottledIsCrawled TakenIsKept
PROPERTY FeedReachesQueue
CHECK_DEADLOCK FALSE
