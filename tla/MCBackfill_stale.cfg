SPECIFICATION BackfillSpec
CONSTANTS
    w1 = w1
    m1 = m1
    m2 = m2
    m3 = m3
    u1 = u1
    u2 = u2
    t1 = t1
    t2 = t2
    Workers = {w1}
    Messages = {m1, m3}
    Url <- UrlOnce
    Urls = {u1, u2}
    Story <- Apart
    Topics = {t1, t2}
    Seeded = {t1}
    Hits <- NewHits
    Reddit = {}
    Malformed = {}
    NoUrl = NoUrl
    Nobody = Nobody
    MaxAttempts = 2
    PublishCap = 2
    FaultKinds = {}
    MaxFaults = 0
    MaxRetries = 1
INVARIANT MatchesFromNowOn
CHECK_DEADLOCK FALSE
