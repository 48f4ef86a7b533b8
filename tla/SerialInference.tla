---------------------------- MODULE SerialInference ----------------------------
(* What the inference engine promises its callers: llama.cpp work is served    *)
(* one caller at a time, and no background caller is admitted while a search   *)
(* is waiting.  Nothing is said about condition variables, queues or           *)
(* cancellation flags; InferenceScheduler is shown to implement this.          *)

CONSTANTS Searchers,     \* threads that serve Search Requests
          Background,    \* threads that submit background inference
          NoThread       \* the engine is free

VARIABLES queued,        \* callers waiting for the engine
          holder         \* the caller the engine works for, or NoThread

vars == <<queued, holder>>

Callers == Searchers \union Background

\* A waiting search bars every background caller.
MayHold(t) == t \in Background => queued \intersect Searchers = {}

Init == queued = {} /\ holder = NoThread

Ask(t) ==
    /\ t \notin queued /\ holder # t
    /\ queued' = queued \union {t}
    /\ UNCHANGED holder

\* The engine is free: a waiting caller, or one that just arrived, takes it.
Grant(t) ==
    /\ holder = NoThread
    /\ MayHold(t)
    /\ holder' = t
    /\ queued' = queued \ {t}

\* A cancelled caller leaves the queue without being served.
Withdraw(t) ==
    /\ t \in queued
    /\ queued' = queued \ {t}
    /\ UNCHANGED holder

Release(t) ==
    /\ holder = t
    /\ holder' = NoThread
    /\ UNCHANGED queued

Next == \E t \in Callers : Ask(t) \/ Grant(t) \/ Withdraw(t) \/ Release(t)

Spec == Init /\ [][Next]_vars

================================================================================
