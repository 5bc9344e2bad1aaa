SPECIFICATION FairSpec
CONSTANTS
    w1 = w1
    w2 = w2
    m1 = m1
    m2 = m2
    m3 = m3
    a1 = a1
    a2 = a2
    a3 = a3
    g1 = g1
    g2 = g2
    Workers = {w1}
    Messages = {m1, m2, m3}
    Match <- AndGone
    Alerts = {a1, a2, a3}
    Replicas = {g1}
    MaxSocket = 0
    Missing = {a3}
    Wanted = {"email"}
    MaxAttempts = 1
    MaxRetries = 1
    MaxChanges = 1
    FaultKinds = {"smtp", "db"}
    MaxFaults = 1
    Nobody = Nobody
    NoMatch = NoMatch
    NoSock = NoSock
    NoAlert = NoAlert
INVARIANT SentIsDelivered
PROPERTY EmailIsSent
CHECK_DEADLOCK FALSE
