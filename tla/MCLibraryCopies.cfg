SPECIFICATION Spec
CONSTANTS
    Candidates = {a, b}
    Rivals = {x}
    c1 = c1
    Contents = {c1}
    Paths <- Ids
    ContentOf <- MCContentOf
    PathOf <- MCPathOf
    Threads = {t1, t2}
    UnlinkMayFail = {"import", "sweep", "delete"}
    LookupMayFail = TRUE
    NoId = NoId
INVARIANTS
    TypeOK
    UniqueContent
    NoOrphanAsset
    StraysAreMarked
PROPERTIES
    ImportKeepsCopies
SYMMETRY Symmetry
CHECK_DEADLOCK FALSE
