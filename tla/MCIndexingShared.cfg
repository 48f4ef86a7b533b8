SPECIFICATION Spec
CONSTANTS
    Processes = {sidecar, cli}
    Assets = {gif}
    Gifs = {gif}
    FrameCount <- MCFrameCount
    Kinds = {"embed"}
    Legacy = {}
    Versions = {v1, v2}
    MaxJobs = 20
    Numbers = {1, 2}
    MaxGenerations = 2
    MaxClock = 0
    MaxStarts = 2
    UnlinkMayFail = FALSE
    NoVersion = NoVersion
    NoJob = NoJob
    NoTarget = NoTarget
SYMMETRY Symmetry
INVARIANTS
    NothingForgotten
    VectorsMatchRecipe
CHECK_DEADLOCK FALSE
