CONSTANTS
    Client = {c1, c2}
    a1 = a1
    a2 = a2
    m1 = m1
    Artifact = {a1, a2}
    Mandate = {m1}
    MandatesIn <- MCMandatesIn
    Missing = a1
    NoFile = NoFile
    Torn = Torn
    TTL = 1
    MaxTime = 2
    MaxId = 2
SPECIFICATION Spec
SYMMETRY Clients
INVARIANTS TypeOK ValidUntilTTL MandatesUnderstood StrictMeansSigned
PROPERTY NoRevival
CHECK_DEADLOCK FALSE
