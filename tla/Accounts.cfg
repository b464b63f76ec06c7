SPECIFICATION Spec

CONSTANTS
    ann = ann
    bob = bob
    s1 = s1
    i1 = i1
    i2 = i2
    a1 = a1
    a2 = a2
    a3 = a3
    Email = {ann, bob}
    SignUp = {s1}
    SignUpEmail <- SignsUp
    Invite = {i1, i2}
    InviteEmail <- Invited
    Welcome = {i1}
    Accept = {a1, a2, a3}
    InviteOf <- Opens
    Managed = {ann}
    NewTeam = {n1, n2}
    Tenant = Tenant
    NoOne = NoOne
    MaxUsers = 2
    MaxTeams = 2
    Failures = {"cutoff", "topic"}
    MaxFaults = 1

SYMMETRY Symmetry

INVARIANTS
    OneAccountPerEmail
    UsersAccounted
    TeamsAccounted
    AnnouncedCompanyIsWhole
    TeamlessOnlyIfStranded

CHECK_DEADLOCK FALSE
