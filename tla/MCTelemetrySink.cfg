CONSTANTS
    Proc = {p1, p2}
    None = None
    Mode = "passive"
    Flock = TRUE
    Failures = TRUE
    MaxEvents = 4
SYMMETRY Symmetry
SPECIFICATION Spec
INVARIANTS TypeOK AckedOnDisk FlushCompletes
PROPERTIES WrittenOnce AlertedAfterRecorded
CHECK_DEADLOCK FALSE
