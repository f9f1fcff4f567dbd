SPECIFICATION Spec
CONSTANTS
    Base <- MCBase
    Feed <- MCFeed
    EVENTS_TO_PERSIST_MAX = 1
    Junk = {0, 7}
    MaxPasses = 2
    MaxFaults = 2
    Barren <- MCBarren
    NoFile = NoFile
INVARIANTS SavedCountOnce CountsCurrent ServesCurrent RatingsFollowCounts
PROPERTY SavedAreServed
CHECK_DEADLOCK FALSE
