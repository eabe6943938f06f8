CONSTANTS
    Proc = {p1, p2}
    a = a
    b = b
    Pattern = {a, b}
    TTL = 1
    MaxTime = 1
    MaxRows = 2
    MaxIds = 2
SPECIFICATION Spec
SYMMETRY Symmetric
CONSTRAINT FewCandidates
INVARIANTS TypeOK HumanGate OneCandidatePerPattern ReadableAtRest
PROPERTIES RetiredStay ImplementsBook
CHECK_DEADLOCK FALSE
