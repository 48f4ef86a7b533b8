SPECIFICATION Spec
CONSTANTS
    Processes = {sidecar}
    Assets = {still}
    Gifs = {}
    FrameCount <- MCFrameCount
    Kinds = {"thumbnail"}
    Legacy = {}
    Versions = {v1}
    MaxJobs = 20
    Numbers = {1, 2}
    MaxGenerations = 1
    MaxClock = 0
    MaxStarts = 2
    UnlinkMayFail = FALSE
    NoVersion = NoVersion
    NoJob = NoJob
    NoTarget = NoTarget
INVARIANTS
    DeletedLeavesNoFile
CHECK_DEADLOCK FALSE
