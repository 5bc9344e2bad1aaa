SPECIFICATION Spec
CONSTANTS
    w1 = w1
    w2 = w2
    Workers = {w1, w2}
    Nobody = Nobody
    Absent = Absent
    Idle = Idle
    SubThemes = {1, 2}
    MaxClusters = 2
    MaxSize = 1
    Evidence <- ThreeKinds
    GrowPct = 20
    DeclinePct = 20
    RelabelPct = 50
    JaccardAt = 30
    CentroidAt = 85
    DriftFloor = 60
    MaxBuffered = 2
    MaxRuns = 2
    MaxChanges = 1
    MaxFaults = 1
INVARIANTS TypeOK NoZombies AnnouncedMatches JustifiedMerges NoRefusalShown NothingForgotten
PROPERTY ImplementsLifecycle
SYMMETRY Symmetry
CHECK_DEADLOCK FALSE
