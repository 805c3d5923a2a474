SPECIFICATION Spec
CONSTANTS
    w1 = w1
    w2 = w2
    None = None
    Torn = Torn
    Down = Down
    Worker <- TwoWorkers
    MaxRuns = 3
    MaxLeft = 1
SYMMETRY WorkerSymmetry
CONSTRAINT FewTroubles
INVARIANTS
    TypeOK
    FoundReleaseKept
    FailureRestores
    SuccessMeansRunning
    SchemaNotBehind
    RunningPairsMatch
CHECK_DEADLOCK FALSE
