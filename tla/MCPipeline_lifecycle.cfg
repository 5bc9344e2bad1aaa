SPECIFICATION Spec
CONSTANTS
    w1 = w1
    w2 = w2
    m1 = m1
    m2 = m2
    m3 = m3
    u1 = u1
    u2 = u2
    t1 = t1
    t2 = t2
    Workers = {w1, w2}
    Messages = {m1, m2, m3}
    Url <- UrlOf
    Urls = {u1, u2}
    Story <- Copies
    Topics = {t1, t2}
    Seeded = {t1, t2}
    Hits <- AllHits
    Reddit = {u2}
    Malformed = {m2}
    NoUrl = NoUrl
    Nobody = Nobody
    MaxAttempts = 2
    PublishCap = 2
    FaultKinds = {"crash", "conn", "stage", "publish", "topic"}
    MaxFaults = 2
SYMMETRY WorkerSymmetry
INVARIANT TypeOK
PROPERTIES ImplementsArticles OnlyErrorsLose
CHECK_DEADLOCK FALSE
