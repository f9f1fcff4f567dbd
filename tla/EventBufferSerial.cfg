\* Requests handled one at a time: the hum build (only one worker ever runs), or
\* the two threads of the FastCGI build behind a server that does not overlap them.
SPECIFICATION FairSpec
CONSTANTS
    Workers = {w1, w2}
    EVENTS_TO_PERSIST_MAX = 3
    MaxRequests = 7
    Overlap = FALSE
    DiskFull = FALSE
INVARIANTS TypeOK RamBound AckedHeld OnceInOrder
PROPERTIES ImplementsEventLog FullIsFlushed
