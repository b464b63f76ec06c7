SPECIFICATION Spec

CONSTANTS
    Request = {r1, r2, r3}
    Kinds = {"chat", "stream"}
    Limited = TRUE
    MaxQueries = 1
    Failures = {"release", "disconnect", "crash"}
    MaxMonth = 1
    MaxFaults = 1

SYMMETRY Symmetry

INVARIANTS
    CounterWithinPlan
    CounterExact
    OvershootAccounted
    EveryExitSettles

CHECK_DEADLOCK FALSE
