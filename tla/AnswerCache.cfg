SPECIFICATION Spec

CONSTANTS
    c1 = c1
    c2 = c2
    u2 = u2
    loner = loner
    stray = stray
    boss = boss
    t1 = t1
    t2 = t2
    d1 = d1
    d2 = d2
    Request = {r1, r2}
    Company = {c1, c2}
    User = {u2, loner, stray, boss}
    CompanyOf <- Employers
    Admins = {boss}
    Team = {t1, t2}
    TeamCompany <- Owners
    TeamsOf <- Memberships
    Topic = {}
    TopicTeam <- NoTopics
    Doc = {d1, d2}
    DocTeam <- Ownership
    DocTopic <- Untopical
    Asked <- ByAll
    CompanyWide = {d2}
    Unfiltered = Unfiltered
    NoCompany = NoCompany
    NoAnswer = NoAnswer
    Failures = {"redis", "evict"}
    MaxFaults = 1

SYMMETRY Symmetry

INVARIANTS
    AnsweredWithinScope
    

CHECK_DEADLOCK FALSE
