SPECIFICATION FairSpec
CONSTANTS
    Processes = {sidecar}
    Assets = {still}
    Gifs = {}
    FrameCount <- MCFrameCount
    Kinds = {"thumbnail", "embed", "ocr"}
    Legacy = {}
    Versions = {v1}
    MaxJobs = 2
    Numbers = {1, 2}
    MaxGenerations = 1
    MaxClock = 1
    MaxStarts = 2
    UnlinkMayFail = TRUE
    NoVersion = NoVersion
    NoJob = NoJob
    NoTarget = NoTarget
INVARIANTS
    TypeOK
    OneRowPerFrame
    OneRunningJob
    DeletedLeavesNoRows
PROPERTIES
    DismissedNeverRuns
    EveryJobIsTried
CHECK_DEADLOCK FALSE
