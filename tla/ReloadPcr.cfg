\* The hum build, nothing unusual.
SPECIFICATION Spec
CONSTANTS
    Workers = {w1}
    OtherThreads = {}
    MaxGeneration = 2
    Patient = TRUE
    Quiet = TRUE
INVARIANT PcrFresh
CHECK_DEADLOCK FALSE
