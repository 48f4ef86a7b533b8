SPECIFICATION FairSpec
CONSTANTS
    Searchers = {s1, s2}
    Background = {b1, b2}
    Requests = {r1, r2}
    NoRequest = NoRequest
    NoThread = NoThread
INVARIANTS
    TypeOK
    OneInference
    QueuesMatchWaiters
    NoLostWakeup
    CancelledItemsMarked
PROPERTIES
    CancelledNeverServed
    ImplementsSerialInference
    SearchesAreAnswered
    BackgroundResumes
