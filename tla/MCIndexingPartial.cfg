SPECIFICATION Spec
CONSTANTS
    Processes = {sidecar}
    Assets = {gif}
    Gifs = {gif}
    FrameCount <- MCFrameCount
    Kinds = {"embed"}
    Legacy = {}
    Versions = {v1}
    MaxJobs = 20
    Numbers = {1, 2}
    MaxGenerations = 1
    MaxClock = 0
    MaxStarts = 2
    UnlinkMayFail = FALSE
    NoVersion = NoVersion
    NoJob = NoJob
    NoTarget = NoTarget
INVARIANTS
    FailedIsNotSearchable
CHECK_DEADLOCK FALSE
