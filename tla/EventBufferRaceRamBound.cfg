\* Two FastCGI workers handling events at the same time.
SPECIFICATION Spec
CONSTANTS
    Workers = {w1, w2}
    EVENTS_TO_PERSIST_MAX = 2
    MaxRequests = 4
    Overlap = TRUE
    DiskFull = FALSE
INVARIANT RamBound
