SPECIFICATION Spec

CONSTANTS
    d1 = d1
    d2 = d2
    c1 = c1
    c2 = c2
    c3 = c3
    acme = acme
    globex = globex
    acmePerson = acmePerson
    Doc = {d1, d2}
    Chunk = {c1, c2, c3}
    DocOf <- ChunkDocs
    Entity = {acme, globex, acmePerson}
    NameOf <- Names
    MentionsOf <- Mentioned
    Predicate = {"owns"}
    RelationsOf <- Related
    Build = {b1}
    MaxRetries = 0
    Failures = {}
    MaxFaults = 0

INVARIANTS
    NothingOutlivesItsDocument

CHECK_DEADLOCK FALSE
