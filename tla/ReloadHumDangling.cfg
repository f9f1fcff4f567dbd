\* The hum build, a signal in the middle of a request.
SPECIFICATION Spec
CONSTANTS
    Workers = {w1}
    OtherThreads = {}
    MaxGeneration = 2
    Patient = TRUE
    Quiet = FALSE
INVARIANT NoDangling
CHECK_DEADLOCK FALSE
