SPECIFICATION BackfillSpec
CONSTANTS
    w1 = w1
    m1 = m1
    m2 = m2
    m3 = m3
    u1 = u1
    u2 = u2
    t1 = t1
    t2 = t2
    Workers = {w1}
    Messages = {m1, m2, m3}
    Url <- UrlOf
    Urls = {u1, u2}
    Story <- Copies
    Topics = {t1, t2}
    Seeded = {t1}
    Hits <- NewHits
    Reddit = {}
    Malformed = {}
    NoUrl = NoUrl
    Nobody = Nobody
    MaxAttempts = 2
    PublishCap = 2
    FaultKinds = {"crash", "topic", "broker", "backfill", "worker", "age"}
    MaxFaults = 2
    MaxRetries = 1
INVARIANTS BackfillTypeOK OnlyStaleCachesMiss BackfillIsSilent
PROPERTY ImplementsArticles
CHECK_DEADLOCK FALSE
