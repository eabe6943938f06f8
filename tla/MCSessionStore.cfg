CONSTANTS
    Proc = {p1, p2}
    Key = {k1, k2}
    Val = {v1}
    NoVal = NoVal
    Free = Free
    NoFile = NoFile
    Torn = Torn
    HasFcntl = TRUE
SPECIFICATION Spec
INVARIANTS TypeOK MutualExclusion MergeIsFresh
PROPERTIES NeverTorn ImplementsMap
