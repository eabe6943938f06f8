CONSTANTS
    Writer = {w1, w2}
    MaxSize = 2
    MaxBackups = 3
    MaxRecords = 10
SYMMETRY Writers
SPECIFICATION Spec
INVARIANTS TypeOK RetentionIsSuffix BackupsInOrder FilesBounded
CHECK_DEADLOCK FALSE
