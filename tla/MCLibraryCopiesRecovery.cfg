SPECIFICATION Spec
CONSTANTS
    Candidates = {a}
    Rivals = {}
    c1 = c1
    Contents = {c1}
    Paths <- Ids
    ContentOf <- MCContentOf
    PathOf <- MCPathOf
    Threads = {t1}
    UnlinkMayFail = {}
    LookupMayFail = FALSE
    NoId = NoId
PROPERTIES
    RecoveryKeepsCopies
CHECK_DEADLOCK FALSE
