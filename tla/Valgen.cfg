SPECIFICATION FairSpec
CONSTANTS
    NTHREADS = 2
    RATINGS_THRESH = 1
    MAX_RATN_FOR_VALGEN = 4
    MaxRuns = 2
    Loads <- MCLoads
INVARIANTS TypeOK ExactCover CatchUpStops MergedInOrder MergedIsExact CountIsExact
PROPERTIES Finishes
CHECK_DEADLOCK FALSE
