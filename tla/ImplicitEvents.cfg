SPECIFICATION Spec
CONSTANTS
    Base <- MCBase
    Feed <- MCFeed
    EVENTS_TO_PERSIST_MAX = 1
    Junk = {0, 7}
    MaxPasses = 2
    MaxFaults = 1
    Barren <- MCBarren
    NoFile = NoFile
INVARIANT EventsAreRead
CHECK_DEADLOCK FALSE
