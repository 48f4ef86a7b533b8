------------------------------ MODULE LlamaServer ------------------------------
(* llama-server processes and the requests to them (llama_cpp_backend.py): lazy *)
(* start, one retry on a fresh process, unloading by an idle timer, close.      *)
(*                                                                              *)
(* A request holds the process-wide _ACTIVE_SERVER_LOCK and its server's _lock  *)
(* from the start of a process to the answer; close() and the timer's callback  *)
(* hold _lock alone, and are one step each.  So both locks are known from where *)
(* the threads are.  Time is known by its effect: a timer fires, and whether    *)
(* the idle time-out has passed since the last activity.                        *)
EXTENDS Naturals

CONSTANTS Threads,   \* threads that make requests
          Servers,   \* LlamaCppServer objects, one per embedding backend
          NoServer,
          MaxFired   \* timer callbacks of a server that wait for its lock (bound)

ASSUME ServerAssumption == NoServer \notin Servers /\ MaxFired \in Nat \ {0}

VARIABLES process,   \* _process: "none", "up", or "dead" when it has exited by itself
          tainted,   \* the first attempt of the present request to it has failed (ghost)
          armed,     \* an idle timer is counting
          fired,     \* callbacks of timers that were not cancelled in time
          idle,      \* the idle time-out has passed since _last_activity
          pc,        \* where each thread is
          using,     \* the server it holds, through its embedding backend
          attempt    \* the attempt of its request

server == <<process, tainted, armed, fired, idle>>
thread == <<pc, using, attempt>>

ServersTyped ==
    /\ process \in [Servers -> {"none", "up", "dead"}]
    /\ tainted \in [Servers -> BOOLEAN]
    /\ armed \in [Servers -> BOOLEAN]
    /\ fired \in [Servers -> 0..MaxFired]
    /\ idle \in [Servers -> BOOLEAN]

ThreadsTyped ==
    /\ pc \in [Threads -> {"out", "looking", "holding", "running", "starting", "asking",
                           "failed"}]
    /\ using \in [Threads -> Servers \union {NoServer}]
    /\ \A t \in Threads : using[t] = NoServer <=> pc[t] \in {"out", "looking"}
    /\ attempt \in [Threads -> {1, 2}]

InitServers ==
    /\ process = [s \in Servers |-> "none"]
    /\ tainted = [s \in Servers |-> FALSE]
    /\ armed = [s \in Servers |-> FALSE]
    /\ fired = [s \in Servers |-> 0]
    /\ idle = [s \in Servers |-> TRUE]

InitThreads ==
    /\ pc = [t \in Threads |-> "out"]
    /\ using = [t \in Threads |-> NoServer]
    /\ attempt = [t \in Threads |-> 1]

--------------------------------------------------------------------------------
(* Locks, and what is done under them *)

HoldsLocks(t) == pc[t] \in {"starting", "asking"}
ActiveLockFree == \A t \in Threads : ~ HoldsLocks(t)
LockFree(s) == \A t \in Threads : HoldsLocks(t) => using[t] # s

At(t, place) == pc' = [pc EXCEPT ![t] = place]

\* _touch_activity: the timer that is counting is cancelled, and another one started.
Touch(s) ==
    /\ armed' = [armed EXCEPT ![s] = TRUE]
    /\ idle' = [idle EXCEPT ![s] = FALSE]

\* close(), under the lock.  The last activity is of no interest until the next one.
Close(s) ==
    /\ process' = [process EXCEPT ![s] = "none"]
    /\ armed' = [armed EXCEPT ![s] = FALSE]
    /\ tainted' = [tainted EXCEPT ![s] = FALSE]
    /\ idle' = [idle EXCEPT ![s] = TRUE]

\* The request is over.
Return(t) == At(t, "holding") /\ attempt' = [attempt EXCEPT ![t] = 1]

\* request_embedding after an error: a LlamaCppBackendError of the first attempt is
\* followed by close() and a second one, every other error is raised.
Errs(t) ==
    \/ attempt[t] = 1 /\ At(t, "failed") /\ UNCHANGED attempt
    \/ Return(t)

--------------------------------------------------------------------------------
(* A request of thread t, which the scheduler has granted *)

\* Mutant: the lock that all servers share is not taken.
EnterAlone(t) ==
    /\ pc[t] = "running" /\ LockFree(using[t])
    /\ \/ process[using[t]] = "up" /\ At(t, "asking") /\ UNCHANGED server
       \/ /\ process[using[t]] # "up" /\ At(t, "starting")
          /\ process' = [process EXCEPT ![using[t]] = "up"]
          /\ tainted' = [tainted EXCEPT ![using[t]] = FALSE]
          /\ UNCHANGED <<armed, fired, idle>>
    /\ UNCHANGED <<using, attempt>>

\* Takes the locks; _ensure_ready up to Popen.  Missing files, an activation that
\* does not match and a failing Popen are errors that leave everything as it was.
Enter(t) ==
    /\ pc[t] = "running" /\ ActiveLockFree
    /\ \/ process[using[t]] = "up" /\ At(t, "asking") /\ UNCHANGED <<server, attempt>>
       \/ /\ process[using[t]] # "up" /\ At(t, "starting")
          /\ process' = [process EXCEPT ![using[t]] = "up"]
          /\ tainted' = [tainted EXCEPT ![using[t]] = FALSE]
          /\ UNCHANGED <<armed, fired, idle, attempt>>
       \/ process[using[t]] # "up" /\ Errs(t) /\ UNCHANGED server
    /\ UNCHANGED using

\* Mutant: the first timer is left to the first answer.
BecomeHealthyUntouched(t) ==
    /\ pc[t] = "starting" /\ process[using[t]] = "up"
    /\ At(t, "asking")
    /\ UNCHANGED <<server, using, attempt>>

\* _wait_until_healthy succeeds, or fails and closes the server.
BecomeHealthy(t) ==
    /\ pc[t] = "starting" /\ process[using[t]] = "up"
    /\ Touch(using[t]) /\ At(t, "asking")
    /\ UNCHANGED <<process, tainted, fired, using, attempt>>

StayUnhealthy(t) ==
    /\ pc[t] = "starting"
    /\ Close(using[t]) /\ Errs(t)
    /\ UNCHANGED <<fired, using>>

Answer(t) ==
    /\ pc[t] = "asking" /\ process[using[t]] = "up"
    /\ Touch(using[t]) /\ Return(t)
    /\ UNCHANGED <<process, tainted, fired, using>>

\* No answer, or one that cannot be used.  The activity is not touched.
Fail(t) ==
    /\ pc[t] = "asking"
    /\ Errs(t)
    /\ tainted' = [tainted EXCEPT ![using[t]] = pc'[t] = "failed"]
    /\ UNCHANGED <<process, armed, fired, idle, using>>

\* Mutant: the second attempt goes to the process that failed the first one.
CloseForRetryNot(t) ==
    /\ pc[t] = "failed" /\ LockFree(using[t])
    /\ At(t, "running") /\ attempt' = [attempt EXCEPT ![t] = 2]
    /\ UNCHANGED <<server, using>>

\* Between the attempts the locks are free.
CloseForRetry(t) ==
    /\ pc[t] = "failed" /\ LockFree(using[t])
    /\ Close(using[t])
    /\ At(t, "running") /\ attempt' = [attempt EXCEPT ![t] = 2]
    /\ UNCHANGED <<fired, using>>

RequestStep(t) ==
    Enter(t) \/ BecomeHealthy(t) \/ StayUnhealthy(t) \/ Answer(t) \/ Fail(t) \/ CloseForRetry(t)

--------------------------------------------------------------------------------
(* What happens by itself *)

\* The process of server s ends.
Crash(s) ==
    /\ process[s] = "up"
    /\ process' = [process EXCEPT ![s] = "dead"]
    /\ UNCHANGED <<tainted, armed, fired, idle, thread>>

\* The time-out passes.  From now on it is too late to cancel the timer.
Fire(s) ==
    /\ armed[s] /\ fired[s] < MaxFired
    /\ armed' = [armed EXCEPT ![s] = FALSE]
    /\ fired' = [fired EXCEPT ![s] = @ + 1]
    /\ idle' = [idle EXCEPT ![s] = TRUE]
    /\ UNCHANGED <<process, tainted, thread>>

\* Mutant: the callback does not take the lock.
UnloadInUse(s) ==
    /\ fired[s] > 0
    /\ fired' = [fired EXCEPT ![s] = @ - 1]
    /\ Close(s) /\ UNCHANGED thread

\* _close_if_idle has the lock.  A request may have come in between: then a process
\* that is there gets a timer of its own.
UnloadIfIdle(s) ==
    /\ fired[s] > 0 /\ LockFree(s)
    /\ fired' = [fired EXCEPT ![s] = @ - 1]
    /\ \/ idle[s] /\ Close(s)
       \/ /\ ~ idle[s]
          /\ IF process[s] # "none" THEN Touch(s) ELSE UNCHANGED <<armed, idle>>
          /\ UNCHANGED <<process, tainted>>
    /\ UNCHANGED thread

================================================================================
