SPECIFICATION FairSpec
CONSTANTS
    Threads = {t1, t2}
    Servers = {s1, s2}
    NoServer = NoServer
    MaxFired = 1
    MaxRuntimes = 2
\* In the end every runtime is closed and every thread has gone.
CHECK_DEADLOCK FALSE
INVARIANTS
    TypeOK
    EngineIsShared
    OneInference
    RequestKeepsServer
    RetryIsFresh
    IdleServerIsWatched
PROPERTIES
    IdleServerUnloads
