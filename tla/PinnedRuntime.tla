----------------------------- MODULE PinnedRuntime -----------------------------
(* Runtimes that share one InferenceEngineManager (pinned_runtime.py), the      *)
(* threads that obtain the engine's embedding backend through them and make     *)
(* requests (embedding_backend.py), and the closing of runtimes while such      *)
(* threads still run: the host waits for its workers for a few seconds only     *)
(* (app_runtime.py, local_app_host.py).                                         *)
(*                                                                              *)
(* The scheduler of an engine is used as SerialInference promises it.           *)
EXTENDS LlamaServer, FiniteSets

CONSTANT MaxRuntimes  \* runtimes that the composition root creates (bound)

ASSUME RuntimeAssumption == MaxRuntimes \in Nat \ {0}

Runtimes == 1..MaxRuntimes  \* in the order of their creation
NoRuntime == 0
Engines == Runtimes  \* an engine is named after the runtime that made it

VARIABLES life,        \* what each runtime has been through, its close() in steps
          engine,      \* its engine
          current,     \* the manager's engine
          references,  \* and how many runtimes are said to use it
          backend,     \* the server behind each engine's embedding backend
          owner,       \* the engine each server was made for
          stopping,    \* the server that each close() has taken from its engine
          via          \* the engine that each thread asks for its backend

manager == <<current, references>>
runtime == <<life, engine, manager, backend, owner, stopping>>
vars == <<server, thread, runtime, via>>

TypeOK ==
    /\ ServersTyped /\ ThreadsTyped
    /\ life \in [Runtimes -> {"new", "open", "closing", "released", "stopping", "gone"}]
    /\ engine \in [Runtimes -> Engines \union {NoRuntime}]
    /\ current \in Engines \union {NoRuntime}
    /\ references \in 0..MaxRuntimes
    /\ backend \in [Engines -> Servers \union {NoServer}]
    /\ owner \in [Servers -> Engines \union {NoRuntime}]
    /\ stopping \in [Runtimes -> Servers \union {NoServer}]
    /\ via \in [Threads -> Engines \union {NoRuntime}]

Init ==
    /\ InitServers /\ InitThreads
    /\ life = [r \in Runtimes |-> "new"]
    /\ engine = [r \in Runtimes |-> NoRuntime]
    /\ current = NoRuntime /\ references = 0
    /\ backend = [e \in Engines |-> NoServer]
    /\ owner = [s \in Servers |-> NoRuntime]
    /\ stopping = [r \in Runtimes |-> NoServer]
    /\ via = [t \in Threads |-> NoRuntime]

--------------------------------------------------------------------------------
(* The life of a runtime *)

Becomes(r, stage) == life' = [life EXCEPT ![r] = stage]

IsNext(r) == life[r] = "new" /\ \A q \in Runtimes : q < r => life[q] # "new"

Acquired(r) == IF current = NoRuntime THEN r ELSE current

\* Mutant: only the runtime that makes the engine is counted.
OpenUncounted(r) ==
    /\ IsNext(r) /\ Becomes(r, "open")
    /\ engine' = [engine EXCEPT ![r] = Acquired(r)]
    /\ current' = Acquired(r)
    /\ references' = IF current = NoRuntime THEN 1 ELSE references
    /\ UNCHANGED <<backend, owner, stopping, server, thread, via>>

\* The constructor, with acquire().
Open(r) ==
    /\ IsNext(r) /\ Becomes(r, "open")
    /\ engine' = [engine EXCEPT ![r] = Acquired(r)]
    /\ current' = Acquired(r)
    /\ references' = references + 1
    /\ UNCHANGED <<backend, owner, stopping, server, thread, via>>

\* close(): from now on the runtime refuses its callers; a second call returns at once.
BeginClose(r) ==
    /\ life[r] = "open" /\ Becomes(r, "closing")
    /\ UNCHANGED <<engine, manager, backend, owner, stopping, server, thread, via>>

\* release(): the last runtime takes the engine away from the manager, one whose engine
\* is not the manager's leaves all alone.
Release(r) ==
    /\ life[r] = "closing"
    /\ IF engine[r] # current \/ references > 1
       THEN /\ references' = IF engine[r] = current THEN references - 1 ELSE references
            /\ UNCHANGED current
            /\ Becomes(r, "gone")
       ELSE /\ references' = 0 /\ current' = NoRuntime
            /\ Becomes(r, "released")
    /\ UNCHANGED <<engine, backend, owner, stopping, server, thread, via>>

\* _InferenceEngine.close() forgets its backend, and then closes it.
CloseEngine(r) ==
    /\ life[r] = "released"
    /\ backend' = [backend EXCEPT ![engine[r]] = NoServer]
    /\ stopping' = [stopping EXCEPT ![r] = backend[engine[r]]]
    /\ Becomes(r, IF backend[engine[r]] = NoServer THEN "gone" ELSE "stopping")
    /\ UNCHANGED <<engine, manager, owner, server, thread, via>>

StopServer(r) ==
    /\ life[r] = "stopping" /\ LockFree(stopping[r])
    /\ Close(stopping[r]) /\ UNCHANGED fired
    /\ stopping' = [stopping EXCEPT ![r] = NoServer]
    /\ Becomes(r, "gone")
    /\ UNCHANGED <<engine, manager, backend, owner, thread, via>>

--------------------------------------------------------------------------------
(* Threads that use a runtime *)

\* get_embedding_backend: the runtime is open,
Look(t, r) ==
    /\ pc[t] = "out" /\ life[r] = "open"
    /\ At(t, "looking") /\ via' = [via EXCEPT ![t] = engine[r]]
    /\ UNCHANGED <<server, using, attempt, runtime>>

\* Servers are made one after the other (bound: those of the set).
NewServer ==
    LET Unused == {s \in Servers : owner[s] = NoRuntime} IN
    IF Unused = {} THEN NoServer ELSE CHOOSE s \in Unused : TRUE

\* Mutant: it returns the backend that the engine has, be it none.
GetBackendIfAny(t) ==
    LET e == via[t] IN
    /\ pc[t] = "looking"
    /\ IF backend[e] # NoServer \/ life[e] # "open"
       THEN using' = [using EXCEPT ![t] = backend[e]] /\ UNCHANGED <<backend, owner>>
       ELSE /\ NewServer # NoServer
            /\ backend' = [backend EXCEPT ![e] = NewServer]
            /\ owner' = [owner EXCEPT ![NewServer] = e]
            /\ using' = [using EXCEPT ![t] = NewServer]
    /\ At(t, "holding")
    /\ via' = [via EXCEPT ![t] = NoRuntime]
    /\ UNCHANGED <<server, attempt, life, engine, manager, stopping>>

\* and its engine makes a backend if it has none, which is when it is asked for the
\* first time, and also when it has been closed in the meantime.
GetBackend(t) ==
    LET e == via[t] IN
    /\ pc[t] = "looking"
    /\ IF backend[e] # NoServer
       THEN using' = [using EXCEPT ![t] = backend[e]] /\ UNCHANGED <<backend, owner>>
       ELSE /\ NewServer # NoServer
            /\ backend' = [backend EXCEPT ![e] = NewServer]
            /\ owner' = [owner EXCEPT ![NewServer] = e]
            /\ using' = [using EXCEPT ![t] = NewServer]
    /\ At(t, "holding")
    /\ via' = [via EXCEPT ![t] = NoRuntime]
    /\ UNCHANGED <<server, attempt, life, engine, manager, stopping>>

InBackend(t) == pc[t] \in {"running", "starting", "asking", "failed"}

\* The scheduler's turn, and with it the first attempt.
Begin(t) ==
    /\ pc[t] = "holding"
    /\ \A u \in Threads : InBackend(u) => owner[using[u]] # owner[using[t]]
    /\ At(t, "running")
    /\ UNCHANGED <<server, using, attempt, runtime, via>>

Leave(t) ==
    /\ pc[t] = "holding" /\ At(t, "out")
    /\ using' = [using EXCEPT ![t] = NoServer]
    /\ UNCHANGED <<server, attempt, runtime, via>>

CallerStep(t) ==
    \/ \E r \in Runtimes : Look(t, r)
    \/ GetBackend(t) \/ Begin(t) \/ Leave(t)

--------------------------------------------------------------------------------
CloseStep(r) == Release(r) \/ CloseEngine(r) \/ StopServer(r)

Next ==
    \/ \E r \in Runtimes : Open(r) \/ BeginClose(r) \/ CloseStep(r)
    \/ \E t \in Threads : CallerStep(t) \/ (RequestStep(t) /\ UNCHANGED <<runtime, via>>)
    \/ \E s \in Servers : (Crash(s) \/ Fire(s) \/ UnloadIfIdle(s)) /\ UNCHANGED <<runtime, via>>

\* A request that was begun ends: starting and asking have time-outs.  A thread makes
\* finitely many of them (the frames of a batch of jobs, the two of a health check)
\* before it drops the backend.  Timers fire, and their callbacks go on when they get
\* the lock.
Fairness ==
    /\ \A t \in Threads : WF_vars(RequestStep(t) /\ UNCHANGED <<runtime, via>>) /\ SF_vars(Leave(t))
    /\ \A s \in Servers :
          /\ WF_vars(Fire(s) /\ UNCHANGED <<runtime, via>>)
          /\ WF_vars(UnloadIfIdle(s) /\ UNCHANGED <<runtime, via>>)

Spec == Init /\ [][Next]_vars
FairSpec == Spec /\ Fairness

--------------------------------------------------------------------------------
(* Properties *)

Users(e) == {r \in Runtimes : life[r] \in {"open", "closing"} /\ engine[r] = e}

\* The engine belongs to the runtimes that have not released it: the manager counts
\* exactly them, and an engine that is torn down has lost the last of them.
EngineIsShared ==
    /\ references = Cardinality(Users(current))
    /\ \A e \in Engines : e # current => Users(e) = {}
    /\ current = NoRuntime <=> references = 0

\* At most one inference runs in the process, however many engines there have been,
\* late requests to an engine that was torn down included.
OneInference ==
    \A t, u \in Threads : HoldsLocks(t) /\ HoldsLocks(u) => t = u

\* No server is unloaded or closed under a request, be it idle for long: only the
\* process itself may end.
RequestKeepsServer ==
    \A t \in Threads : HoldsLocks(t) => process[using[t]] # "none"

\* The second attempt goes to a process that has not failed.
RetryIsFresh ==
    \A t \in Threads : pc[t] = "asking" /\ attempt[t] = 2 => ~ tainted[using[t]]

\* A server that nobody uses is watched: a timer counts, or its callback waits.
IdleServerIsWatched ==
    \A s \in Servers : process[s] # "none" /\ LockFree(s) => armed[s] \/ fired[s] > 0

\* So it is unloaded, whatever the requests, the crashes and the late callbacks
\* before were, and also when a late request has started it after its engine was
\* torn down.
IdleServerUnloads ==
    \A s \in Servers :
        process[s] # "none" ~> process[s] = "none" \/ \E t \in Threads : InBackend(t) /\ using[t] = s

================================================================================
