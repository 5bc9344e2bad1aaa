SPECIFICATION Spec
CONSTANTS
    MaxId = 2
    Workers = {w1, w2, w3}
    BatchSize = 2
    MaxAttempts = 3
    AttemptCap = 4
    VisibilityTimeout = 2
    Retention = 2
    MaxJob = 1
    MaxFaults = 2
    NoMsg = NoMsg
    Nobody = Nobody
SYMMETRY WorkerSymmetry
INVARIANTS TypeOK ExclusiveClaims LeaseKept
PROPERTIES DoneIsFinal ImplementsLeases
