SPECIFICATION Spec
CONSTANTS
    w1 = w1
    w2 = w2
    None = None
    Torn = Torn
    Down = Down
    Worker <- TwoWorkers
    MaxRuns = 2
    MaxLeft = 1
SYMMETRY WorkerSymmetry
INVARIANT
    PreviousEnvRestored
CHECK_DEADLOCK FALSE
