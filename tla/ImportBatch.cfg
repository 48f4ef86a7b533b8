SPECIFICATION FairSpec
CONSTANTS
    Clients = {c1, c2}
    MaxBatches = 2
    Entries = 2
CHECK_DEADLOCK FALSE
INVARIANTS
    TypeOK
    OneBatchRuns
    PauseIsShown
    SleepsForAPause
PROPERTIES
    NoWorkWhilePaused
    ShutdownEndsBatches
    ImportedIsIndexed
