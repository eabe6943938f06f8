CONSTANTS
    Proc = {p1, p2}
    Key = {k1}
    Val = {v1}
    NoVal = NoVal
    Free = Free
    NoFile = NoFile
    Torn = Torn
    HasFcntl = TRUE
SPECIFICATION FairSpec

PROPERTY PersistEnds
