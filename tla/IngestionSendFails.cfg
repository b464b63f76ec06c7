SPECIFICATION Spec

CONSTANTS
    Doc = {d1}
    Worker = {w1}
    Deleter = {}
    None = None
    MaxRetries = 1
    MaxStorage = 2
    Raising = {"send"}
    Failures = {}
    MaxFaults = 0

SYMMETRY Symmetry

INVARIANTS
    StorageExact

CHECK_DEADLOCK FALSE
