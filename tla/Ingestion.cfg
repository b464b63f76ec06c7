SPECIFICATION Spec

CONSTANTS
    Doc = {d1, d2}
    Worker = {w1, w2}
    Deleter = {x1, x2}
    None = None
    MaxRetries = 1
    MaxStorage = 2
    Raising = {"start", "load", "replace", "insert", "fetch", "count", "complete"}
    Failures = {"cutoff", "handler", "kill", "uncount"}
    MaxFaults = 1

SYMMETRY Symmetry

INVARIANTS
    TypeOK
    OneSetOfChunks
    FileKeptForRetry
    NeverUndercounts
PROPERTIES
    ImplementsLifecycle

CHECK_DEADLOCK FALSE
