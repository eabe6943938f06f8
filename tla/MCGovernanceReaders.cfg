CONSTANTS
    Pipeline = {p1}
    Deployer = {d1}
    Reader = {r1}
    Empty = {}
    MaxRuns = 1
    Absent = Absent
    Torn = Torn
SPECIFICATION ReadersSpec
INVARIANT LoadedFits
CHECK_DEADLOCK FALSE
