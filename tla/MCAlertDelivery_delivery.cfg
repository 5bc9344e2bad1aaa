SPECIFICATION Spec
CONSTANTS
    w1 = w1
    w2 = w2
    m1 = m1
    m2 = m2
    m3 = m3
    a1 = a1
    a2 = a2
    a3 = a3
    g1 = g1
    g2 = g2
    Workers = {w1, w2}
    Messages = {m1, m2}
    Match <- SentTwice
    Alerts = {a1}
    Replicas = {g1, g2}
    MaxSocket = 2
    Missing = {}
    Wanted = {"websocket", "sms"}
    MaxAttempts = 2
    MaxRetries = 1
    MaxChanges = 0
    FaultKinds = {"redis", "db", "gateway", "broker", "phone", "twilio", "worker", "crash"}
    MaxFaults = 1
    Nobody = Nobody
    NoMatch = NoMatch
    NoSock = NoSock
    NoAlert = NoAlert
SYMMETRY Symmetry
INVARIANTS TypeOK SentIsDelivered OneText AckedIsRecorded NoStaleEntry
CHECK_DEADLOCK FALSE
