SPECIFICATION FairSpec

CONSTANTS
    Doc = {d1}
    Worker = {w1, w2}
    Deleter = {x1}
    None = None
    MaxRetries = 1
    MaxStorage = 2
    Raising = {"load", "send"}
    Failures = {"crash", "redeliver"}
    MaxFaults = 1

INVARIANTS
    CompletedHasChunks
PROPERTIES
    EventuallyIngested
    EventuallyCleaned

CHECK_DEADLOCK FALSE
