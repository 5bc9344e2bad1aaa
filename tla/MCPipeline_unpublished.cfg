SPECIFICATION Spec
CONSTANTS
    w1 = w1
    w2 = w2
    m1 = m1
    m2 = m2
    m3 = m3
    u1 = u1
    u2 = u2
    t1 = t1
    t2 = t2
    Workers = {w1}
    Messages = {m1}
    Url <- JustOne
    Urls = {u1}
    Story <- Alone
    Topics = {t1, t2}
    Seeded = {t1, t2}
    Hits <- AllHits
    Reddit = {}
    Malformed = {}
    NoUrl = NoUrl
    Nobody = Nobody
    MaxAttempts = 2
    PublishCap = 2
    FaultKinds = {"crash"}
    MaxFaults = 1
INVARIANT AckedIsPublished
CHECK_DEADLOCK FALSE
