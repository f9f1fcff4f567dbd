SPECIFICATION Spec
CONSTANTS
    NTHREADS = 3
    RATINGS_THRESH = 1
    MAX_RATN_FOR_VALGEN = 4
    MaxRuns = 1
    Loads <- MCLoads
INVARIANTS LastElementPaired
CHECK_DEADLOCK FALSE
