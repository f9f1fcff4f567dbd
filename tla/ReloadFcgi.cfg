\* The FastCGI build, no request in hand when the signal arrives, one reload at a time.
SPECIFICATION FairSpec
CONSTANTS
    Workers = {w1, w2}
    OtherThreads = {m}
    MaxGeneration = 2
    Patient = TRUE
    Quiet = TRUE
INVARIANTS NoDangling FlagCovers
PROPERTIES SignalServed WaitersAnswered
