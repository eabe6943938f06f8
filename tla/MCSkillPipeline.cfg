CONSTANTS
    p = p
    t = t
    None = None
    Pattern = {p}
    Reports <- MCReports
    Task = {t}
    Written <- MCWritten
    Vouched <- MCVouched
    Requests <- MCRequests
    Agreements <- MCAgreements
    TTL = 1
    MaxTime = 1
    MaxRuns = 2
SPECIFICATION Spec
INVARIANTS TypeOK OnlyDiagnoseRepeats
PROPERTIES CorrectionIsCovered FreezeHolds OkMeansEveryStage RunEnds
CHECK_DEADLOCK FALSE
