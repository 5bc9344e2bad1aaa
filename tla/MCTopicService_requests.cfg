SPECIFICATION Spec
CONSTANTS
    q1 = q1
    q2 = q2
    t1 = t1
    t2 = t2
    t3 = t3
    n1 = n1
    n2 = n2
    d1 = d1
    d2 = d2
    Requests = {q1, q2}
    Topics = {t1, t2, t3}
    Absent = Absent
    Deleted = Deleted
    Names = {n1, n2}
    Texts = {d1, d2}
    Patches <- SomePatches
    ChannelSets <- SomeChannels
    Discoverable = {t1}
    Limit = 1
    MaxRequests = 4
    MaxFaults = 1
SYMMETRY Symmetry
CHECK_DEADLOCK FALSE
INVARIANTS TypeOK ChecksHoldUpToRaces PutsReplaceUpToRaces OneDerivation NoBackfillOwed ClicksAreDebounced
