CONSTANTS
    Pipeline = {p1}
    Deployer = {d1}
    Empty = {2}
    MaxRuns = 2
    Absent = Absent
    Torn = Torn
SPECIFICATION Spec
INVARIANT FailedDeployRollsBack
CHECK_DEADLOCK FALSE
