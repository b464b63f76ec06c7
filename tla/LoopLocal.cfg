SPECIFICATION FairSpec

CONSTANTS
    pool = pool
    client = client
    a = a
    b = b
    c = c
    Holder = {pool, client}
    Locked = {pool}
    Coroutine = {a, b, c}
    Nobody = Nobody
    MaxLoops = 2
    MaxItems = 4
    MaxFaults = 1

INVARIANTS
    OneInstancePerLoop
    UsedWhereMade
    NotClosedInUse
    NothingLeftOpen

PROPERTIES
    EventuallyServed

CHECK_DEADLOCK FALSE
