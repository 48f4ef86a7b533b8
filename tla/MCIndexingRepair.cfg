SPECIFICATION Spec
CONSTANTS
    Processes = {sidecar}
    Assets = {still}
    Gifs = {}
    FrameCount <- MCFrameCount
    Kinds = {"ocr"}
    Legacy = {still}
    Versions = {v1}
    MaxJobs = 20
    Numbers = {1, 2, 3}
    MaxGenerations = 1
    MaxClock = 1
    MaxStarts = 2
    UnlinkMayFail = FALSE
    NoVersion = NoVersion
    NoJob = NoJob
    NoTarget = NoTarget
INVARIANTS
    OneTimeRepair
CHECK_DEADLOCK FALSE
