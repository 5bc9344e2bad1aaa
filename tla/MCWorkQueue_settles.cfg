SPECIFICATION FairSpec
CONSTANTS
    MaxId = 2
    Workers = {w1, w2}
    BatchSize = 2
    MaxAttempts = 2
    AttemptCap = 3
    VisibilityTimeout = 1
    Retention = 1
    MaxJob = 2
    MaxFaults = 1
    NoMsg = NoMsg
    Nobody = Nobody
INVARIANT AtLeastOnce
PROPERTY Settles
