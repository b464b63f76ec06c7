SPECIFICATION Spec

CONSTANTS
    own = own
    bob = bob
    cyd = cyd
    out = out
    t1 = t1
    t2 = t2
    g1 = g1
    c1 = c1
    e1 = e1
    e2 = e2
    x1 = x1
    x2 = x2
    d1 = d1
    d2 = d2
    d3 = d3
    m1 = m1
    m2 = m2
    q1 = q1
    q2 = q2
    User = {own, bob, cyd, out}
    Team = {t1, t2}
    Outsiders = {out}
    Owners = {own}
    Admins = {own, out}
    TeamIds <- Claims
    DefaultTeam <- Defaults
    Given = {g1}
    GivenHome <- Homes
    Creation = {c1}
    Update = {e1, e2}
    TopicRemoval = {x1, x2}
    Upload = {d1, d2, d3}
    DocRemoval = {m1, m2}
    Question = {q1, q2}
    By <- Users
    TopicArg <- Topics
    TeamArg <- Teams
    DocArg <- Removed
    Sets <- Fields
    Wide = {d3}
    Size <- Sizes
    MaxStorage = 3
    None = None
    MaxRequests = 3
    MaxFaults = 1

SYMMETRY Removals

INVARIANTS
    TypeOK
    KeptApart
    ListingsLeadOn
    CrashesExplained
    EditsAreKept
    OverPlanOnlyByStaleChecks

CHECK_DEADLOCK FALSE
