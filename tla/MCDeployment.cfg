CONSTANTS
    Pipeline = {p1}
    Deployer = {d1}
    Empty = {2}
    MaxRuns = 3
    Absent = Absent
    Torn = Torn
SPECIFICATION Spec
CONSTRAINT LastRunAlone
INVARIANTS TypeOK SuccessIsWhole RollbackPossible
CHECK_DEADLOCK FALSE
