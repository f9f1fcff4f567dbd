\* The hum build; the script may start a pass while recgen still reloads, so a
\* reload may end recgen and, after the last pass, nothing restarts it.
SPECIFICATION Spec
CONSTANTS
    Workers = {w1}
    OtherThreads = {}
    MaxGeneration = 3
    Patient = FALSE
    Quiet = FALSE
INVARIANTS TypeOK LeashedWhole SettledIsCurrent
CHECK_DEADLOCK FALSE
