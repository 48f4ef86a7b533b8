-------------------------- MODULE PinnedRuntimeProofs --------------------------
(* Safety of the runtimes and their llama-servers, for any number of threads,   *)
(* servers and runtimes.                                                        *)
EXTENDS PinnedRuntime, FiniteSetTheorems, TLAPS

\* What a runtime or a thread refers to, by the stage that it is in.
Located ==
    /\ \A r \in Runtimes : /\ life[r] # "new" => engine[r] # NoRuntime
                           /\ life[r] = "stopping" => stopping[r] # NoServer
    /\ \A t \in Threads : pc[t] = "looking" => via[t] # NoRuntime

\* A server that is in use or that an engine has was made for an engine.
Owned ==
    /\ \A e \in Engines : backend[e] # NoServer => owner[backend[e]] = e
    /\ \A t \in Threads : using[t] # NoServer => owner[using[t]] # NoRuntime

\* What SerialInference promises of the scheduler of an engine.
OneAtATime ==
    \A t, u \in Threads :
        InBackend(t) /\ InBackend(u) /\ owner[using[t]] = owner[using[u]] => t = u

\* A process that has failed is in the hands of the request whose attempt it failed.
Blamed ==
    \A s \in Servers : tainted[s] => \E t \in Threads : pc[t] = "failed" /\ using[t] = s

\* A server that no timer watches is being started.
Watched ==
    \A s \in Servers :
        \/ process[s] = "none" \/ armed[s] \/ fired[s] > 0
        \/ \E t \in Threads : pc[t] = "starting" /\ using[t] = s

\* The inductive invariant.  That a second attempt finds a fresh process needs that its
\* engine has no other request (OneAtATime), and that nobody else's failure is left on
\* the server (Blamed); that a server is watched is not inductive while it starts.
IInv ==
    /\ TypeOK
    /\ Located /\ Owned
    /\ EngineIsShared
    /\ OneAtATime /\ Blamed /\ Watched
    /\ OneInference /\ RequestKeepsServer

LEMMA InitIInv == Init => IInv
<1> SUFFICES ASSUME Init PROVE IInv
  OBVIOUS
<1> USE ServerAssumption, RuntimeAssumption DEF Init
<1>1. TypeOK
  BY DEF TypeOK, ServersTyped, ThreadsTyped, InitServers, InitThreads, Engines, Runtimes
<1>2. Located /\ Owned
  BY DEF Located, Owned, InitThreads
<1>3. EngineIsShared
  <2>1. \A e : Users(e) = {}
    BY DEF Users
  <2> QED BY <2>1, FS_EmptySet DEF EngineIsShared
<1>4. OneAtATime /\ Blamed /\ Watched
  BY DEF OneAtATime, InBackend, Blamed, Watched, InitServers, InitThreads
<1>5. OneInference /\ RequestKeepsServer
  BY DEF OneInference, RequestKeepsServer, HoldsLocks, InitThreads
<1> QED BY <1>1, <1>2, <1>3, <1>4, <1>5 DEF IInv

--------------------------------------------------------------------------------
(* Opening and closing runtimes *)

\* Sets of runtimes can be counted.
LEMMA RuntimesAreFinite ==
    ASSUME NEW S \in SUBSET Runtimes
    PROVE  IsFiniteSet(S) /\ Cardinality(S) \in 0..MaxRuntimes
<1>1. IsFiniteSet(Runtimes) /\ Cardinality(Runtimes) = MaxRuntimes
  BY FS_Interval, RuntimeAssumption DEF Runtimes
<1>2. IsFiniteSet(S) /\ Cardinality(S) <= MaxRuntimes
  BY <1>1, FS_Subset
<1> QED BY <1>2, FS_CardinalityType, RuntimeAssumption

\* What leaves the threads, their servers and the backends alone.
LEMMA RequestsKept ==
    ASSUME IInv, UNCHANGED <<server, thread, backend, owner>>
    PROVE  /\ Owned' /\ OneAtATime' /\ Blamed' /\ Watched' /\ OneInference'
           /\ RequestKeepsServer' /\ ServersTyped' /\ ThreadsTyped'
<1> USE DEF IInv, server, thread
<1>1. Owned' /\ OneAtATime'
  BY DEF Owned, OneAtATime, InBackend
<1>2. Blamed' /\ Watched'
  BY DEF Blamed, Watched
<1>3. OneInference' /\ RequestKeepsServer'
  BY DEF OneInference, RequestKeepsServer, HoldsLocks
<1>4. ServersTyped' /\ ThreadsTyped'
  BY DEF TypeOK, ServersTyped, ThreadsTyped
<1> QED BY <1>1, <1>2, <1>3, <1>4

LEMMA OpenIInv ==
    ASSUME IInv, NEW r \in Runtimes, Open(r)
    PROVE  IInv'
<1> USE DEF Open, IsNext, Becomes
<1>1. r \in Engines /\ \A d \in Engines : d # NoRuntime
  BY RuntimeAssumption DEF Engines, Runtimes, NoRuntime
<1>2. PICK e \in Engines : e = Acquired(r) /\ e # NoRuntime
  BY <1>1 DEF Acquired, IInv, TypeOK
<1>3. r \notin Users(e) /\ Cardinality(Users(e)) = references
  <2>1. CASE current = NoRuntime
    <3>1. Users(e) = {}
      BY <1>2, <2>1 DEF IInv, EngineIsShared
    <3> QED BY <2>1, <3>1, FS_EmptySet DEF IInv, EngineIsShared
  <2>2. CASE current # NoRuntime
    BY <1>2, <2>2 DEF Acquired, IInv, EngineIsShared, Users
  <2> QED BY <2>1, <2>2
<1>4. Users(e)' = Users(e) \union {r}
  BY <1>2 DEF Users, IInv, TypeOK
<1>5. \A d : d # e => Users(d)' = Users(d)
  BY <1>2 DEF Users, IInv, TypeOK
<1>6. EngineIsShared'
  <2>1. Cardinality(Users(e)') = references'
    <3>1. IsFiniteSet(Users(e))
      BY RuntimesAreFinite DEF Users
    <3> QED BY <1>3, <1>4, <3>1, FS_AddElement
  <2>2. ASSUME NEW d \in Engines, d # e PROVE Users(d)' = {}
    BY <1>1, <1>2, <1>5, <2>2 DEF IInv, EngineIsShared, Acquired
  <2>3. current' = e /\ references' # 0
    BY <1>2 DEF IInv, TypeOK
  <2> QED BY <1>2, <2>1, <2>2, <2>3 DEF EngineIsShared, Users
<1>7. TypeOK'
  <2>1. references' \in 0..MaxRuntimes
    <3>1. Users(current)' \in SUBSET Runtimes
      BY DEF Users
    <3> QED BY <1>6, <3>1, RuntimesAreFinite DEF EngineIsShared
  <2>2. life' \in [Runtimes -> {"new", "open", "closing", "released", "stopping", "gone"}]
    BY DEF IInv, TypeOK
  <2>3. engine' \in [Runtimes -> Engines \union {NoRuntime}]
    BY <1>2 DEF IInv, TypeOK
  <2> QED BY <1>2, <2>1, <2>2, <2>3, RequestsKept DEF IInv, TypeOK
<1>8. Located'
  BY <1>2 DEF IInv, TypeOK, Located, thread
<1> QED BY <1>6, <1>7, <1>8, RequestsKept DEF IInv

LEMMA ReleaseIInv ==
    ASSUME IInv, NEW r \in Runtimes, Release(r)
    PROVE  IInv'
<1> USE DEF Release, Becomes
<1>1. PICK e \in Engines : e = engine[r] /\ e # NoRuntime
  BY DEF IInv, TypeOK, Located
<1>2. r \in Users(e)
  BY <1>1 DEF Users
<1>3. e = current /\ Cardinality(Users(e)) = references
  BY <1>1, <1>2 DEF IInv, EngineIsShared
<1>4. IsFiniteSet(Users(e)) /\ IsFiniteSet(Users(e) \ {r})
  BY RuntimesAreFinite, FS_RemoveElement DEF Users
<1>5. Users(e)' = Users(e) \ {r}
  BY <1>1 DEF Users, IInv, TypeOK
<1>6. \A d : d # e => Users(d)' = Users(d)
  BY <1>1 DEF Users, IInv, TypeOK
<1>7. Cardinality(Users(e)') = references - 1
  BY <1>2, <1>3, <1>4, <1>5, FS_RemoveElement
<1>8. references \in 0..MaxRuntimes /\ references # 0
  BY <1>1, <1>3 DEF IInv, TypeOK, EngineIsShared
<1>9. EngineIsShared'
  <2>1. CASE references > 1
    <3>1. current' = e /\ references' = references - 1
      BY <1>1, <1>3, <2>1
    <3>2. \A d \in Engines : d # e => Users(d)' = {}
      BY <1>3, <1>6 DEF IInv, EngineIsShared
    <3> QED BY <1>1, <1>7, <1>8, <2>1, <3>1, <3>2, RuntimeAssumption DEF EngineIsShared, Users
  <2>2. CASE ~ references > 1
    <3>1. current' = NoRuntime /\ references' = 0
      BY <1>1, <1>3, <2>2
    <3>2. Users(e)' = {}
      BY <1>4, <1>5, <1>7, <1>8, <2>2, FS_EmptySet
    <3>3. \A d \in Engines : Users(d)' = {}
      BY <1>3, <1>6, <3>2 DEF IInv, EngineIsShared
    <3>4. Users(NoRuntime)' = {}
      BY DEF Users, IInv, TypeOK, Located
    <3> QED BY <3>1, <3>3, <3>4, FS_EmptySet DEF EngineIsShared, Users
  <2> QED BY <2>1, <2>2
<1>10. TypeOK'
  <2>1. references' \in 0..MaxRuntimes
    BY <1>8, RuntimeAssumption
  <2>2. life' \in [Runtimes -> {"new", "open", "closing", "released", "stopping", "gone"}]
    BY DEF IInv, TypeOK
  <2>3. current' \in Engines \union {NoRuntime}
    BY DEF IInv, TypeOK
  <2> QED BY <2>1, <2>2, <2>3, RequestsKept DEF IInv, TypeOK
<1>11. Located'
  BY DEF IInv, TypeOK, Located, thread
<1> QED BY <1>9, <1>10, <1>11, RequestsKept DEF IInv

\* What leaves the engines' users and the manager alone.
LEMMA ManagerKept ==
    ASSUME IInv, UNCHANGED <<engine, manager>>,
           \A r \in Runtimes : life[r] \in {"open", "closing"} <=> life'[r] \in {"open", "closing"}
    PROVE  EngineIsShared'
<1>1. \A e : Users(e)' = Users(e)
  BY DEF Users
<1> QED BY <1>1 DEF IInv, EngineIsShared, manager

LEMMA BeginCloseIInv ==
    ASSUME IInv, NEW r \in Runtimes, BeginClose(r)
    PROVE  IInv'
<1> USE DEF BeginClose, Becomes
<1>1. EngineIsShared'
  BY ManagerKept DEF IInv, TypeOK
<1>2. TypeOK'
  BY DEF IInv, TypeOK, ServersTyped, ThreadsTyped, server, thread, manager
<1>3. Located'
  BY DEF IInv, TypeOK, Located, thread
<1> QED BY <1>1, <1>2, <1>3, RequestsKept DEF IInv

LEMMA CloseEngineIInv ==
    ASSUME IInv, NEW r \in Runtimes, CloseEngine(r)
    PROVE  IInv'
<1> USE DEF CloseEngine, Becomes
<1>1. engine[r] \in Engines
  BY DEF IInv, TypeOK, Located
<1>2. EngineIsShared'
  BY ManagerKept DEF IInv, TypeOK
<1>3. TypeOK'
  BY <1>1 DEF IInv, TypeOK, ServersTyped, ThreadsTyped, server, thread, manager
<1>4. Located'
  BY DEF IInv, TypeOK, Located, thread
<1>5. Owned'
  BY <1>1 DEF IInv, TypeOK, Owned, thread
<1>6. OneAtATime'
  BY DEF IInv, OneAtATime, InBackend, thread
<1>7. Blamed' /\ Watched'
  BY DEF IInv, Blamed, Watched, server, thread
<1>8. OneInference' /\ RequestKeepsServer'
  BY DEF IInv, OneInference, RequestKeepsServer, HoldsLocks, server, thread
<1> QED BY <1>2, <1>3, <1>4, <1>5, <1>6, <1>7, <1>8 DEF IInv

LEMMA StopServerIInv ==
    ASSUME IInv, NEW r \in Runtimes, StopServer(r)
    PROVE  IInv'
<1> USE DEF StopServer, Becomes, Close
<1>1. stopping[r] \in Servers
  BY DEF IInv, TypeOK, Located
<1>2. EngineIsShared'
  BY ManagerKept DEF IInv, TypeOK
<1>3. TypeOK'
  <2>1. ServersTyped' /\ ThreadsTyped'
    BY <1>1 DEF IInv, TypeOK, ServersTyped, ThreadsTyped, thread
  <2> QED BY <2>1 DEF IInv, TypeOK, manager
<1>4. Located'
  BY DEF IInv, TypeOK, Located, thread
<1>5. Owned' /\ OneAtATime'
  BY DEF IInv, Owned, OneAtATime, InBackend, thread
<1>6. Blamed' /\ Watched'
  BY DEF IInv, TypeOK, ServersTyped, Blamed, Watched, thread
<1>7. OneInference' /\ RequestKeepsServer'
  BY DEF IInv, TypeOK, ServersTyped, OneInference, RequestKeepsServer, HoldsLocks, LockFree, thread
<1> QED BY <1>2, <1>3, <1>4, <1>5, <1>6, <1>7 DEF IInv

--------------------------------------------------------------------------------
(* Threads outside of the backend *)

\* What leaves the runtimes and the manager alone.
LEMMA RuntimesKept ==
    ASSUME IInv, UNCHANGED <<life, engine, manager, stopping>>
    PROVE  /\ EngineIsShared'
           /\ \A r \in Runtimes : /\ life'[r] # "new" => engine'[r] # NoRuntime
                                  /\ life'[r] = "stopping" => stopping'[r] # NoServer
BY ManagerKept DEF IInv, Located

\* What leaves the servers alone, and starts or ends no attempt.
LEMMA AttemptsKept ==
    ASSUME IInv, UNCHANGED server, NEW t \in Threads, pc[t] \notin {"starting", "asking", "failed"},
           \A u \in Threads : u # t => pc'[u] = pc[u] /\ using'[u] = using[u],
           pc'[t] \notin {"starting", "asking"}
    PROVE  Blamed' /\ Watched' /\ OneInference' /\ RequestKeepsServer'
<1>1. Blamed'
  BY DEF IInv, Blamed, server
<1>2. Watched'
  BY DEF IInv, Watched, server
<1>3. OneInference' /\ RequestKeepsServer'
  BY DEF IInv, OneInference, RequestKeepsServer, HoldsLocks, server
<1> QED BY <1>1, <1>2, <1>3

LEMMA LookIInv ==
    ASSUME IInv, NEW t \in Threads, NEW r \in Runtimes, Look(t, r)
    PROVE  IInv'
<1> USE DEF Look, At
<1>1. EngineIsShared'
  BY RuntimesKept DEF runtime
<1>2. TypeOK'
  BY DEF IInv, TypeOK, ServersTyped, ThreadsTyped, server, runtime, manager
<1>3. Located' /\ Owned'
  BY DEF IInv, TypeOK, ThreadsTyped, Located, Owned, runtime
<1>4. OneAtATime'
  BY DEF IInv, TypeOK, ThreadsTyped, OneAtATime, InBackend, runtime
<1>5. Blamed' /\ Watched' /\ OneInference' /\ RequestKeepsServer'
  BY AttemptsKept DEF IInv, TypeOK, ThreadsTyped
<1> QED BY <1>1, <1>2, <1>3, <1>4, <1>5 DEF IInv

LEMMA GetBackendIInv ==
    ASSUME IInv, NEW t \in Threads, GetBackend(t)
    PROVE  IInv'
<1> USE DEF GetBackend, At
<1>1. EngineIsShared'
  BY RuntimesKept
<1>2. PICK e \in Engines : e = via[t] /\ e # NoRuntime
  BY DEF IInv, TypeOK, Located
<1>3. PICK s \in Servers :
        /\ s # NoServer
        /\ using' = [using EXCEPT ![t] = s]
        /\ \/ s = backend[e] /\ UNCHANGED <<backend, owner>>
           \/ /\ owner[s] = NoRuntime
              /\ backend' = [backend EXCEPT ![e] = s]
              /\ owner' = [owner EXCEPT ![s] = e]
  <2>1. CASE backend[e] # NoServer
    <3>1. backend[e] \in Servers
      BY <2>1 DEF IInv, TypeOK
    <3> QED BY <1>2, <2>1, <3>1
  <2>2. CASE backend[e] = NoServer
    <3>1. NewServer # NoServer
      BY <1>2, <2>2
    <3>2. NewServer \in Servers /\ owner[NewServer] = NoRuntime
      BY <3>1 DEF NewServer
    <3> QED BY <1>2, <2>2, <3>2, ServerAssumption
  <2> QED BY <2>1, <2>2
<1>4. TypeOK'
  <2>1. ThreadsTyped'
    BY <1>3 DEF IInv, TypeOK, ThreadsTyped
  <2>2. backend' \in [Engines -> Servers \union {NoServer}]
        /\ owner' \in [Servers -> Engines \union {NoRuntime}]
    BY <1>3 DEF IInv, TypeOK
  <2> QED BY <2>1, <2>2 DEF IInv, TypeOK, ServersTyped, server, manager
<1>5. Located'
  BY RuntimesKept DEF IInv, TypeOK, ThreadsTyped, Located
<1>6. Owned'
  <2>1. \A d \in Engines : backend'[d] # NoServer => owner'[backend'[d]] = d
    <3>1. \A d \in Engines : d # NoRuntime
      BY RuntimeAssumption DEF Engines, Runtimes, NoRuntime
    <3> QED BY <1>2, <1>3, <3>1 DEF IInv, TypeOK, Owned
  <2>2. \A u \in Threads : using'[u] # NoServer => owner'[using'[u]] # NoRuntime
    BY <1>2, <1>3 DEF IInv, TypeOK, ThreadsTyped, Owned
  <2> QED BY <2>1, <2>2 DEF Owned
<1>7. OneAtATime'
  <2>1. \A u \in Threads : InBackend(u)' =>
          InBackend(u) /\ using'[u] = using[u] /\ owner'[using[u]] = owner[using[u]]
    BY <1>3 DEF IInv, TypeOK, ThreadsTyped, Owned, InBackend
  <2> QED BY <2>1 DEF IInv, OneAtATime, InBackend
<1>8. Blamed' /\ Watched' /\ OneInference' /\ RequestKeepsServer'
  BY <1>3, AttemptsKept DEF IInv, TypeOK, ThreadsTyped
<1> QED BY <1>1, <1>4, <1>5, <1>6, <1>7, <1>8 DEF IInv

LEMMA BeginIInv ==
    ASSUME IInv, NEW t \in Threads, Begin(t)
    PROVE  IInv'
<1> USE DEF Begin, At
<1>1. EngineIsShared'
  BY RuntimesKept DEF runtime
<1>2. TypeOK'
  BY DEF IInv, TypeOK, ServersTyped, ThreadsTyped, server, runtime, manager
<1>3. Located' /\ Owned'
  BY DEF IInv, TypeOK, ThreadsTyped, Located, Owned, runtime
<1>4. OneAtATime'
  BY DEF IInv, TypeOK, ThreadsTyped, OneAtATime, InBackend, runtime
<1>5. Blamed' /\ Watched' /\ OneInference' /\ RequestKeepsServer'
  BY AttemptsKept DEF IInv, TypeOK, ThreadsTyped
<1> QED BY <1>1, <1>2, <1>3, <1>4, <1>5 DEF IInv

LEMMA LeaveIInv ==
    ASSUME IInv, NEW t \in Threads, Leave(t)
    PROVE  IInv'
<1> USE DEF Leave, At
<1>1. EngineIsShared'
  BY RuntimesKept DEF runtime
<1>2. TypeOK'
  BY DEF IInv, TypeOK, ServersTyped, ThreadsTyped, server, runtime, manager
<1>3. Located' /\ Owned'
  BY DEF IInv, TypeOK, ThreadsTyped, Located, Owned, runtime
<1>4. OneAtATime'
  BY DEF IInv, TypeOK, ThreadsTyped, OneAtATime, InBackend, runtime
<1>5. Blamed' /\ Watched' /\ OneInference' /\ RequestKeepsServer'
  BY AttemptsKept DEF IInv, TypeOK, ThreadsTyped
<1> QED BY <1>1, <1>2, <1>3, <1>4, <1>5 DEF IInv

--------------------------------------------------------------------------------
(* Requests, and what happens by itself *)

\* The part that no request and no timer touches.
LEMMA RuntimeSideKept ==
    ASSUME IInv, UNCHANGED <<runtime, via>>
    PROVE  /\ EngineIsShared'
           /\ ServersTyped' /\ ThreadsTyped' => TypeOK'
           /\ (\A t \in Threads : pc'[t] = "looking" => pc[t] = "looking") => Located'
           /\ UNCHANGED using => Owned'
           /\ (UNCHANGED using /\ \A t \in Threads : InBackend(t)' => InBackend(t)) => OneAtATime'
<1> USE DEF runtime
<1>1. EngineIsShared'
  BY RuntimesKept
<1>2. ServersTyped' /\ ThreadsTyped' => TypeOK'
  BY DEF IInv, TypeOK, manager
<1>3. (\A t \in Threads : pc'[t] = "looking" => pc[t] = "looking") => Located'
  BY DEF IInv, Located
<1>4. UNCHANGED using => Owned'
  BY DEF IInv, Owned
<1>5. (UNCHANGED using /\ \A t \in Threads : InBackend(t)' => InBackend(t)) => OneAtATime'
  BY DEF IInv, OneAtATime
<1> QED BY <1>1, <1>2, <1>3, <1>4, <1>5

\* A request keeps its server, and its thread goes from one place in the backend to
\* another one or out of it.
LEMMA RequestPlaces ==
    ASSUME IInv, NEW t \in Threads, RequestStep(t)
    PROVE  /\ using' = using /\ InBackend(t)
           /\ \E place \in {"holding", "running", "starting", "asking", "failed"} : At(t, place)
           /\ attempt' \in [Threads -> {1, 2}]
<1> USE DEF RequestStep, Enter, BecomeHealthy, StayUnhealthy, Answer, Fail, CloseForRetry, Errs,
            Return, InBackend, IInv, TypeOK, ThreadsTyped
<1>1. using' = using
  OBVIOUS
<1>2. InBackend(t)
  OBVIOUS
<1>3. \E place \in {"holding", "running", "starting", "asking", "failed"} : At(t, place)
  OBVIOUS
<1>4. attempt' \in [Threads -> {1, 2}]
  OBVIOUS
<1> QED BY <1>1, <1>2, <1>3, <1>4

\* So much of the invariant holds after every step of a request.
LEMMA RequestSideKept ==
    ASSUME IInv, NEW t \in Threads, RequestStep(t), UNCHANGED <<runtime, via>>, ServersTyped'
    PROVE  TypeOK' /\ Located' /\ Owned' /\ EngineIsShared' /\ OneAtATime'
<1>1. PICK place \in {"holding", "running", "starting", "asking", "failed"} :
        pc' = [pc EXCEPT ![t] = place]
  BY RequestPlaces DEF At
<1>2. using' = using /\ InBackend(t) /\ attempt' \in [Threads -> {1, 2}]
  BY RequestPlaces
<1>3. ThreadsTyped'
  BY <1>1, <1>2 DEF IInv, TypeOK, ThreadsTyped, InBackend
<1>4. \A u \in Threads : /\ pc'[u] = "looking" => pc[u] = "looking"
                         /\ InBackend(u)' => InBackend(u)
  BY <1>1, <1>2 DEF IInv, TypeOK, ThreadsTyped, InBackend
<1> QED BY <1>2, <1>3, <1>4, RuntimeSideKept

LEMMA EnterIInv ==
    ASSUME IInv, NEW t \in Threads, Enter(t), UNCHANGED <<runtime, via>>
    PROVE  IInv'
<1> USE DEF Enter, At, Errs, Return
<1>1. using[t] \in Servers /\ using' = using
  BY DEF IInv, TypeOK, ThreadsTyped
<1>2. ServersTyped'
  BY DEF IInv, TypeOK, ServersTyped, server
<1>3. TypeOK' /\ Located' /\ Owned' /\ EngineIsShared' /\ OneAtATime'
  BY <1>2, RequestSideKept DEF RequestStep
<1>4. Blamed'
  BY <1>1 DEF IInv, TypeOK, ServersTyped, ThreadsTyped, Blamed, server
<1>5. Watched'
  BY <1>1 DEF IInv, TypeOK, ServersTyped, ThreadsTyped, Watched, server
<1>6. OneInference'
  BY <1>1 DEF IInv, TypeOK, ThreadsTyped, OneInference, HoldsLocks, ActiveLockFree
<1>7. RequestKeepsServer'
  BY <1>1 DEF IInv, TypeOK, ServersTyped, ThreadsTyped, RequestKeepsServer, HoldsLocks, server
<1> QED BY <1>3, <1>4, <1>5, <1>6, <1>7 DEF IInv

LEMMA BecomeHealthyIInv ==
    ASSUME IInv, NEW t \in Threads, BecomeHealthy(t), UNCHANGED <<runtime, via>>
    PROVE  IInv'
<1> USE DEF BecomeHealthy, At, Touch
<1>1. using[t] \in Servers /\ using' = using
  BY DEF IInv, TypeOK, ThreadsTyped
<1>2. ServersTyped'
  BY <1>1 DEF IInv, TypeOK, ServersTyped
<1>3. TypeOK' /\ Located' /\ Owned' /\ EngineIsShared' /\ OneAtATime'
  BY <1>2, RequestSideKept DEF RequestStep
<1>4. Blamed'
  BY <1>1 DEF IInv, TypeOK, ServersTyped, ThreadsTyped, Blamed
<1>5. Watched'
  BY <1>1 DEF IInv, TypeOK, ServersTyped, ThreadsTyped, Watched
<1>6. OneInference'
  BY DEF IInv, TypeOK, ThreadsTyped, OneInference, HoldsLocks
<1>7. RequestKeepsServer'
  BY <1>1 DEF IInv, TypeOK, ServersTyped, ThreadsTyped, OneInference, RequestKeepsServer,
                HoldsLocks
<1> QED BY <1>3, <1>4, <1>5, <1>6, <1>7 DEF IInv

LEMMA StayUnhealthyIInv ==
    ASSUME IInv, NEW t \in Threads, StayUnhealthy(t), UNCHANGED <<runtime, via>>
    PROVE  IInv'
<1> USE DEF StayUnhealthy, At, Close, Errs, Return
<1>1. using[t] \in Servers /\ using' = using
  BY DEF IInv, TypeOK, ThreadsTyped
<1>2. ServersTyped'
  BY <1>1 DEF IInv, TypeOK, ServersTyped
<1>3. TypeOK' /\ Located' /\ Owned' /\ EngineIsShared' /\ OneAtATime'
  BY <1>2, RequestSideKept DEF RequestStep
<1>4. Blamed'
  BY <1>1 DEF IInv, TypeOK, ServersTyped, ThreadsTyped, Blamed
<1>5. Watched'
  BY <1>1 DEF IInv, TypeOK, ServersTyped, ThreadsTyped, Watched
<1>6. OneInference'
  BY DEF IInv, TypeOK, ThreadsTyped, OneInference, HoldsLocks
<1>7. RequestKeepsServer'
  BY <1>1 DEF IInv, TypeOK, ServersTyped, ThreadsTyped, OneInference, RequestKeepsServer,
                HoldsLocks
<1> QED BY <1>3, <1>4, <1>5, <1>6, <1>7 DEF IInv

LEMMA AnswerIInv ==
    ASSUME IInv, NEW t \in Threads, Answer(t), UNCHANGED <<runtime, via>>
    PROVE  IInv'
<1> USE DEF Answer, At, Touch, Return
<1>1. using[t] \in Servers /\ using' = using
  BY DEF IInv, TypeOK, ThreadsTyped
<1>2. ServersTyped'
  BY <1>1 DEF IInv, TypeOK, ServersTyped
<1>3. TypeOK' /\ Located' /\ Owned' /\ EngineIsShared' /\ OneAtATime'
  BY <1>2, RequestSideKept DEF RequestStep
<1>4. Blamed'
  BY <1>1 DEF IInv, TypeOK, ServersTyped, ThreadsTyped, Blamed
<1>5. Watched'
  BY <1>1 DEF IInv, TypeOK, ServersTyped, ThreadsTyped, Watched
<1>6. OneInference'
  BY DEF IInv, TypeOK, ThreadsTyped, OneInference, HoldsLocks
<1>7. RequestKeepsServer'
  BY <1>1 DEF IInv, TypeOK, ServersTyped, ThreadsTyped, OneInference, RequestKeepsServer,
                HoldsLocks
<1> QED BY <1>3, <1>4, <1>5, <1>6, <1>7 DEF IInv

LEMMA FailIInv ==
    ASSUME IInv, NEW t \in Threads, Fail(t), UNCHANGED <<runtime, via>>
    PROVE  IInv'
<1> USE DEF Fail, At, Errs, Return
<1>1. using[t] \in Servers /\ using' = using
  BY DEF IInv, TypeOK, ThreadsTyped
<1>2. ServersTyped'
  BY <1>1 DEF IInv, TypeOK, ServersTyped
<1>3. TypeOK' /\ Located' /\ Owned' /\ EngineIsShared' /\ OneAtATime'
  BY <1>2, RequestSideKept DEF RequestStep
<1>4. Blamed'
  BY <1>1 DEF IInv, TypeOK, ServersTyped, ThreadsTyped, Blamed
<1>5. Watched'
  BY <1>1 DEF IInv, TypeOK, ServersTyped, ThreadsTyped, Watched
<1>6. OneInference'
  BY DEF IInv, TypeOK, ThreadsTyped, OneInference, HoldsLocks
<1>7. RequestKeepsServer'
  BY <1>1 DEF IInv, TypeOK, ServersTyped, ThreadsTyped, OneInference, RequestKeepsServer,
                HoldsLocks
<1> QED BY <1>3, <1>4, <1>5, <1>6, <1>7 DEF IInv

LEMMA CloseForRetryIInv ==
    ASSUME IInv, NEW t \in Threads, CloseForRetry(t), UNCHANGED <<runtime, via>>
    PROVE  IInv'
<1> USE DEF CloseForRetry, At, Close
<1>1. using[t] \in Servers /\ using' = using
  BY DEF IInv, TypeOK, ThreadsTyped
<1>2. ServersTyped'
  BY <1>1 DEF IInv, TypeOK, ServersTyped
<1>3. TypeOK' /\ Located' /\ Owned' /\ EngineIsShared' /\ OneAtATime'
  BY <1>2, RequestSideKept DEF RequestStep
<1>4. Blamed'
  BY <1>1 DEF IInv, TypeOK, ServersTyped, ThreadsTyped, Blamed
<1>5. Watched'
  BY <1>1 DEF IInv, TypeOK, ServersTyped, ThreadsTyped, Watched
<1>6. OneInference'
  BY DEF IInv, TypeOK, ThreadsTyped, OneInference, HoldsLocks
<1>7. RequestKeepsServer'
  BY <1>1 DEF IInv, TypeOK, ServersTyped, ThreadsTyped, OneInference, RequestKeepsServer,
                HoldsLocks, LockFree
<1> QED BY <1>3, <1>4, <1>5, <1>6, <1>7 DEF IInv

\* So much of the invariant holds after what a server or its timer does by itself.
LEMMA ServerSideKept ==
    ASSUME IInv, UNCHANGED <<thread, runtime, via>>, ServersTyped'
    PROVE  TypeOK' /\ Located' /\ Owned' /\ EngineIsShared' /\ OneAtATime' /\ OneInference'
<1>1. ThreadsTyped'
  BY DEF IInv, TypeOK, ThreadsTyped, thread
<1>2. OneInference'
  BY DEF IInv, OneInference, HoldsLocks, thread
<1>3. \A t \in Threads : /\ pc'[t] = "looking" => pc[t] = "looking"
                         /\ InBackend(t)' => InBackend(t)
  BY DEF InBackend, thread
<1> QED BY <1>1, <1>2, <1>3, RuntimeSideKept DEF thread

LEMMA CrashIInv ==
    ASSUME IInv, NEW s \in Servers, Crash(s), UNCHANGED <<runtime, via>>
    PROVE  IInv'
<1> USE DEF Crash
<1>1. ServersTyped'
  BY DEF IInv, TypeOK, ServersTyped
<1>2. Blamed' /\ Watched'
  BY DEF IInv, TypeOK, ServersTyped, Blamed, Watched, thread
<1>3. RequestKeepsServer'
  BY DEF IInv, TypeOK, ServersTyped, RequestKeepsServer, HoldsLocks, thread
<1> QED BY <1>1, <1>2, <1>3, ServerSideKept DEF IInv

LEMMA FireIInv ==
    ASSUME IInv, NEW s \in Servers, Fire(s), UNCHANGED <<runtime, via>>
    PROVE  IInv'
<1> USE DEF Fire
<1>1. ServersTyped'
  BY ServerAssumption DEF IInv, TypeOK, ServersTyped
<1>2. Blamed' /\ Watched'
  BY ServerAssumption DEF IInv, TypeOK, ServersTyped, Blamed, Watched, thread
<1>3. RequestKeepsServer'
  BY DEF IInv, RequestKeepsServer, HoldsLocks, thread
<1> QED BY <1>1, <1>2, <1>3, ServerSideKept DEF IInv

LEMMA UnloadIfIdleIInv ==
    ASSUME IInv, NEW s \in Servers, UnloadIfIdle(s), UNCHANGED <<runtime, via>>
    PROVE  IInv'
<1>1. UNCHANGED thread /\ LockFree(s) /\ fired[s] > 0 /\ fired' = [fired EXCEPT ![s] = @ - 1]
  BY DEF UnloadIfIdle
<1>2. \/ Close(s)
      \/ Touch(s) /\ UNCHANGED <<process, tainted>>
      \/ process[s] = "none" /\ UNCHANGED <<process, tainted, armed, idle>>
  BY Zenon DEF UnloadIfIdle
<1>3. ServersTyped'
  <2>1. fired' \in [Servers -> 0..MaxFired]
    BY <1>1, ServerAssumption DEF IInv, TypeOK, ServersTyped
  <2> QED BY <1>2, <2>1 DEF IInv, TypeOK, ServersTyped, Close, Touch
<1>4. Blamed'
  BY <1>1, <1>2 DEF IInv, TypeOK, ServersTyped, Blamed, Close, Touch, thread
<1>5. Watched'
  BY <1>1, <1>2 DEF IInv, TypeOK, ServersTyped, Watched, Close, Touch, thread
<1>6. RequestKeepsServer'
  <2>1. \A x \in Servers : x # s => process'[x] = process[x]
    BY <1>2 DEF IInv, TypeOK, ServersTyped, Close
  <2>2. ASSUME NEW t \in Threads, HoldsLocks(t)' PROVE process'[using'[t]] # "none"
    <3>1. HoldsLocks(t) /\ using'[t] = using[t] /\ using[t] \in Servers
      BY <1>1, <2>2 DEF IInv, TypeOK, ThreadsTyped, HoldsLocks, thread
    <3>2. using[t] # s
      BY <1>1, <3>1 DEF LockFree
    <3> QED BY <2>1, <3>1, <3>2 DEF IInv, RequestKeepsServer
  <2> QED BY <2>2 DEF RequestKeepsServer
<1> QED BY <1>1, <1>3, <1>4, <1>5, <1>6, ServerSideKept DEF IInv

--------------------------------------------------------------------------------
LEMMA NextIInv == IInv /\ [Next]_vars => IInv'
<1> SUFFICES ASSUME IInv, [Next]_vars PROVE IInv'
  OBVIOUS
<1>1. ASSUME NEW r \in Runtimes, Open(r) \/ BeginClose(r) \/ CloseStep(r) PROVE IInv'
  BY <1>1, OpenIInv, BeginCloseIInv, ReleaseIInv, CloseEngineIInv, StopServerIInv DEF CloseStep
<1>2. ASSUME NEW t \in Threads, CallerStep(t) PROVE IInv'
  BY <1>2, LookIInv, GetBackendIInv, BeginIInv, LeaveIInv DEF CallerStep
<1>3. ASSUME NEW t \in Threads, RequestStep(t), UNCHANGED <<runtime, via>> PROVE IInv'
  BY <1>3, EnterIInv, BecomeHealthyIInv, StayUnhealthyIInv, AnswerIInv, FailIInv,
     CloseForRetryIInv DEF RequestStep
<1>4. ASSUME NEW s \in Servers, Crash(s) \/ Fire(s) \/ UnloadIfIdle(s), UNCHANGED <<runtime, via>>
      PROVE IInv'
  BY <1>4, CrashIInv, FireIInv, UnloadIfIdleIInv
<1>5. CASE UNCHANGED vars
  <2>1. ServersTyped'
    BY <1>5 DEF IInv, TypeOK, ServersTyped, vars, server
  <2>2. Blamed' /\ Watched' /\ RequestKeepsServer'
    BY <1>5, RequestsKept DEF vars, runtime
  <2> QED BY <1>5, <2>1, <2>2, ServerSideKept DEF IInv, vars
<1> QED BY <1>1, <1>2, <1>3, <1>4, <1>5 DEF Next

LEMMA Invariance == Spec => []IInv
BY InitIInv, NextIInv, PTL DEF Spec

--------------------------------------------------------------------------------
\* The fields of the runtimes, the servers and the threads keep their types.
THEOREM TypeCorrect == Spec => []TypeOK
<1>1. IInv => TypeOK
  BY DEF IInv
<1> QED BY <1>1, Invariance, PTL

\* The manager counts exactly the runtimes that are open, and they are all of one engine
\* (acquire and release).
THEOREM SharedEngine == Spec => []EngineIsShared
<1>1. IInv => EngineIsShared
  BY DEF IInv
<1> QED BY <1>1, Invariance, PTL

\* At most one inference runs, whatever engines and servers there have been
\* (_ACTIVE_SERVER_LOCK).
THEOREM SerialInferences == Spec => []OneInference
<1>1. IInv => OneInference
  BY DEF IInv
<1> QED BY <1>1, Invariance, PTL

\* Neither a timer nor a close() takes a server from the request that has it.
THEOREM ServersAreKept == Spec => []RequestKeepsServer
<1>1. IInv => RequestKeepsServer
  BY DEF IInv
<1> QED BY <1>1, Invariance, PTL

\* The second attempt of request_embedding never meets the process that failed the first
\* one, nor a process that failed another request.
THEOREM FreshRetry == Spec => []RetryIsFresh
<1>1. IInv => RetryIsFresh
  <2> SUFFICES ASSUME IInv, NEW t \in Threads, pc[t] = "asking", tainted[using[t]] PROVE FALSE
    BY DEF RetryIsFresh
  <2>1. using[t] \in Servers
    BY DEF IInv, TypeOK, ThreadsTyped
  <2>2. PICK u \in Threads : pc[u] = "failed" /\ using[u] = using[t]
    BY <2>1 DEF IInv, Blamed
  <2> QED BY <2>2 DEF IInv, OneAtATime, InBackend
<1> QED BY <1>1, Invariance, PTL

\* No llama-server is left without a timer that will unload it (_touch_activity and
\* _close_if_idle).
THEOREM NoServerLeaks == Spec => []IdleServerIsWatched
<1>1. IInv => IdleServerIsWatched
  BY DEF IInv, Watched, IdleServerIsWatched, LockFree, HoldsLocks
<1> QED BY <1>1, Invariance, PTL

================================================================================
