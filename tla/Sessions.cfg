SPECIFICATION Spec

CONSTANTS
    ann = ann
    bob = bob
    t1 = t1
    t2 = t2
    l1 = l1
    l2 = l2
    l3 = l3
    cyd = cyd
    c1 = c1
    a1 = a1
    x1 = x1
    x2 = x2
    f1 = f1
    f2 = f2
    f3 = f3
    r1 = r1
    r2 = r2
    r3 = r3
    User = {ann, bob, cyd}
    Team = {t1, t2}
    Admins = {ann}
    Active = {ann, bob}
    Googlers = {ann}
    InitialMembers <- Members
    Login = {l1, l2, l3}
    Callback = {c1}
    Holder <- Holds
    Addition = {a1}
    Removal = {x1, x2}
    Membership <- Changes
    Link = {f1, f2, f3}
    LinkOf <- Links
    Reset = {r1, r2, r3}
    Through <- Uses
    Original = Original
    NoPassword = NoPassword
    NoReset = NoReset
    TokenLife = 1
    LinkLife = 2
    MaxTime = 3
    MaxRequests = 4
    MaxFaults = 1

SYMMETRY Symmetry

INVARIANTS
    StaleAccessEnds
    LinkSpentOnce
    OpenLinksOverlapped
    LatestResetWins

CHECK_DEADLOCK FALSE
