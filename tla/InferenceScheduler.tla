--------------------------- MODULE InferenceScheduler ---------------------------
(* memesort_worker/inference_service.py: one condition variable, a search queue  *)
(* and a background queue, and the set of cancelled request ids.  A critical     *)
(* section of the condition's lock is one action; threads interleave between     *)
(* them.  Threads in `wait()` have pc "waiting"; notify_all makes them "woken",  *)
(* and each then has to take the lock again before it looks at the queues.       *)
(*                                                                               *)
(* A thread has at most one work item, so an item is named by its thread.        *)
EXTENDS Naturals, Sequences, SequencesExt

CONSTANTS Searchers,   \* HTTP threads that serve Search Requests
          Background,  \* the worker thread and the threads that run health checks
          Requests,    \* request ids (UUIDs); a retry may use one again
          NoRequest,   \* request_id is None
          NoThread     \* _running is None

ASSUME ThreadsAssumption ==
    /\ Searchers \intersect Background = {}
    /\ NoThread \notin Searchers \union Background
    /\ NoRequest \notin Requests

Threads == Searchers \union Background

VARIABLES searchQueue,      \* _search_queue
          backgroundQueue,  \* _background_queue
          running,          \* _running
          cancelledIds,     \* _cancelled_request_ids
          cancelled,        \* _WorkItem.cancelled of each thread's item
          requestId,        \* the request id of each thread's inference context
          pc                \* where each thread is

vars == <<searchQueue, backgroundQueue, running, cancelledIds, cancelled,
          requestId, pc>>

Positions == {"out", "ready", "waiting", "woken", "operating", "returned", "leaving"}

TypeOK ==
    /\ searchQueue \in Seq(Searchers)
    /\ backgroundQueue \in Seq(Background)
    /\ running \in Threads \union {NoThread}
    /\ cancelledIds \subseteq Requests
    /\ cancelled \in [Threads -> BOOLEAN]
    /\ requestId \in [Threads -> Requests \union {NoRequest}]
    /\ pc \in [Threads -> Positions]

--------------------------------------------------------------------------------
(* Helpers *)

InQueue(t) == pc[t] \in {"waiting", "woken"}

HasItem(t) == pc[t] \in {"waiting", "woken", "operating"}

\* The item was flagged, or its request id is in the cancelled set.
Withdrawn(t) == cancelled[t] \/ requestId[t] \in cancelledIds

\* Mutant: arrival order only, the background queue is looked at first.
BackgroundFirst(sq, bq) ==
    IF bq # <<>> THEN Head(bq) ELSE IF sq # <<>> THEN Head(sq) ELSE NoThread

\* _next_item on given queues: the search queue always goes first.
NextItem(sq, bq) ==
    IF sq # <<>> THEN Head(sq) ELSE IF bq # <<>> THEN Head(bq) ELSE NoThread

\* deque.remove: the queue without t's item, unchanged when it is not there.
Without(q, t) ==
    IF t \in ToSet(q) THEN RemoveAt(q, CHOOSE i \in 1..Len(q) : q[i] = t) ELSE q

\* notify_all
AllWoken == [t \in Threads |-> IF pc[t] = "waiting" THEN "woken" ELSE pc[t]]

--------------------------------------------------------------------------------
(* The search scope: search_inference_request *)

BeginRequest(s, r) ==
    /\ pc[s] = "out"
    /\ requestId' = [requestId EXCEPT ![s] = r]
    /\ pc' = [pc EXCEPT ![s] = "ready"]
    /\ UNCHANGED <<searchQueue, backgroundQueue, running, cancelledIds, cancelled>>

\* Leaving the scope, normally or by an exception, forgets the cancellation.
EndRequest(s) ==
    /\ s \in Searchers
    /\ pc[s] \in {"ready", "leaving"}
    /\ cancelledIds' = cancelledIds \ {requestId[s]}
    /\ requestId' = [requestId EXCEPT ![s] = NoRequest]
    /\ pc' = [pc EXCEPT ![s] = "out"]
    /\ UNCHANGED <<searchQueue, backgroundQueue, running, cancelled>>

\* A background caller whose inference raised goes on with its next work.
Recover(b) ==
    /\ b \in Background
    /\ pc[b] = "leaving"
    /\ pc' = [pc EXCEPT ![b] = "ready"]
    /\ UNCHANGED <<searchQueue, backgroundQueue, running, cancelledIds, cancelled,
                   requestId>>

--------------------------------------------------------------------------------
(* submit *)

SubmitRefused(t) ==
    /\ pc[t] = "ready"
    /\ requestId[t] \in cancelledIds
    /\ pc' = [pc EXCEPT ![t] = "leaving"]
    /\ UNCHANGED <<searchQueue, backgroundQueue, running, cancelledIds, cancelled,
                   requestId>>

\* Mutant: the loop does not look whether the engine is free.
TurnWhileBusy(t, sq, bq, positions) ==
    \/ /\ NextItem(sq, bq) = t
       /\ running' = t
       /\ searchQueue' = Without(sq, t)
       /\ backgroundQueue' = Without(bq, t)
       /\ pc' = [positions EXCEPT ![t] = "operating"]
    \/ /\ NextItem(sq, bq) # t
       /\ searchQueue' = sq
       /\ backgroundQueue' = bq
       /\ pc' = [positions EXCEPT ![t] = "waiting"]
       /\ UNCHANGED running

\* One turn of submit's loop for an item that is not cancelled: it takes the
\* engine when it is free and the item is next, else it waits.
Turn(t, sq, bq, positions) ==
    \/ /\ running = NoThread
       /\ NextItem(sq, bq) = t
       /\ running' = t
       /\ searchQueue' = Without(sq, t)
       /\ backgroundQueue' = Without(bq, t)
       /\ pc' = [positions EXCEPT ![t] = "operating"]
    \/ /\ ~ (running = NoThread /\ NextItem(sq, bq) = t)
       /\ searchQueue' = sq
       /\ backgroundQueue' = bq
       /\ pc' = [positions EXCEPT ![t] = "waiting"]
       /\ UNCHANGED running

\* Mutant: one queue for every priority.
SubmitToSearchQueue(t) ==
    /\ pc[t] = "ready"
    /\ requestId[t] \notin cancelledIds
    /\ Turn(t, Append(searchQueue, t), backgroundQueue, AllWoken)
    /\ UNCHANGED <<cancelledIds, cancelled, requestId>>

\* The first critical section of submit: append, notify_all, first turn.
Submit(t) ==
    /\ pc[t] = "ready"
    /\ requestId[t] \notin cancelledIds
    /\ Turn(t,
            IF t \in Searchers THEN Append(searchQueue, t) ELSE searchQueue,
            IF t \in Background THEN Append(backgroundQueue, t) ELSE backgroundQueue,
            AllWoken)
    /\ UNCHANGED <<cancelledIds, cancelled, requestId>>

Wake(t) ==
    /\ pc[t] = "woken"
    /\ ~ cancelled[t]
    /\ Turn(t, searchQueue, backgroundQueue, pc)
    /\ UNCHANGED <<cancelledIds, cancelled, requestId>>

\* Mutant: the cancelled item leaves without the second notify_all.
WakeCancelledSilently(t) ==
    /\ pc[t] = "woken"
    /\ cancelled[t]
    /\ searchQueue' = Without(searchQueue, t)
    /\ backgroundQueue' = Without(backgroundQueue, t)
    /\ cancelled' = [cancelled EXCEPT ![t] = FALSE]
    /\ pc' = [pc EXCEPT ![t] = "leaving"]
    /\ UNCHANGED <<running, cancelledIds, requestId>>

\* Mutant: the cancelled item raises without leaving its queue.
WakeCancelledStaying(t) ==
    /\ pc[t] = "woken"
    /\ cancelled[t]
    /\ cancelled' = [cancelled EXCEPT ![t] = FALSE]
    /\ pc' = [AllWoken EXCEPT ![t] = "leaving"]
    /\ UNCHANGED <<searchQueue, backgroundQueue, running, cancelledIds, requestId>>

\* A cancelled item removes itself, and wakes whoever is behind it.
WakeCancelled(t) ==
    /\ pc[t] = "woken"
    /\ cancelled[t]
    /\ searchQueue' = Without(searchQueue, t)
    /\ backgroundQueue' = Without(backgroundQueue, t)
    /\ cancelled' = [cancelled EXCEPT ![t] = FALSE]
    /\ pc' = [AllWoken EXCEPT ![t] = "leaving"]
    /\ UNCHANGED <<running, cancelledIds, requestId>>

\* Mutant: only a normal return frees the engine (no `finally`).
FinishOperationUnsafely(t) ==
    /\ pc[t] = "operating"
    /\ \/ /\ running' = NoThread
          /\ pc' = [AllWoken EXCEPT ![t] = "returned"]
          /\ UNCHANGED cancelled
       \/ /\ pc' = [pc EXCEPT ![t] = "leaving"]
          /\ cancelled' = [cancelled EXCEPT ![t] = FALSE]
          /\ UNCHANGED running
    /\ UNCHANGED <<searchQueue, backgroundQueue, cancelledIds, requestId>>

\* Mutant: the engine is freed without a notify_all.
FinishOperationSilently(t) ==
    /\ pc[t] = "operating"
    /\ running' = NoThread
    /\ \/ pc' = [pc EXCEPT ![t] = "returned"] /\ UNCHANGED cancelled
       \/ pc' = [pc EXCEPT ![t] = "leaving"]
          /\ cancelled' = [cancelled EXCEPT ![t] = FALSE]
    /\ UNCHANGED <<searchQueue, backgroundQueue, cancelledIds, requestId>>

\* operation() came back, or raised: either way the engine is free again.
FinishOperation(t) ==
    /\ pc[t] = "operating"
    /\ running' = NoThread
    /\ \/ pc' = [AllWoken EXCEPT ![t] = "returned"] /\ UNCHANGED cancelled
       \/ pc' = [AllWoken EXCEPT ![t] = "leaving"]
          /\ cancelled' = [cancelled EXCEPT ![t] = FALSE]
    /\ UNCHANGED <<searchQueue, backgroundQueue, cancelledIds, requestId>>

\* Mutant: the result is handed over without looking at the cancellation again.
DeliverUnchecked(t) ==
    /\ pc[t] = "returned"
    /\ pc' = [pc EXCEPT ![t] = "ready"]
    /\ cancelled' = [cancelled EXCEPT ![t] = FALSE]
    /\ UNCHANGED <<searchQueue, backgroundQueue, running, cancelledIds, requestId>>

\* The last critical section of submit: a result of a cancelled request is dropped.
Deliver(t) ==
    /\ pc[t] = "returned"
    /\ pc' = [pc EXCEPT ![t] = IF Withdrawn(t) THEN "leaving" ELSE "ready"]
    /\ cancelled' = [cancelled EXCEPT ![t] = FALSE]
    /\ UNCHANGED <<searchQueue, backgroundQueue, running, cancelledIds, requestId>>

--------------------------------------------------------------------------------
(* cancel: may name any id, before, during or after its request *)

\* Mutant: the waiting items are not flagged, only the id is remembered.
CancelWithoutMarking(r) ==
    /\ cancelledIds' = cancelledIds \union {r}
    /\ pc' = AllWoken
    /\ UNCHANGED <<searchQueue, backgroundQueue, running, cancelled, requestId>>

Cancel(r) ==
    /\ cancelledIds' = cancelledIds \union {r}
    /\ cancelled' = [t \in Threads |-> cancelled[t] \/ (HasItem(t) /\ requestId[t] = r)]
    /\ pc' = AllWoken
    /\ UNCHANGED <<searchQueue, backgroundQueue, running, requestId>>

--------------------------------------------------------------------------------
Init ==
    /\ searchQueue = <<>>
    /\ backgroundQueue = <<>>
    /\ running = NoThread
    /\ cancelledIds = {}
    /\ cancelled = [t \in Threads |-> FALSE]
    /\ requestId = [t \in Threads |-> NoRequest]
    /\ pc = [t \in Threads |-> IF t \in Searchers THEN "out" ELSE "ready"]

ThreadStep(t) ==
    \/ Wake(t)
    \/ WakeCancelled(t)
    \/ FinishOperation(t)
    \/ Deliver(t)

Next ==
    \/ \E s \in Searchers, r \in Requests : BeginRequest(s, r)
    \/ \E t \in Threads : EndRequest(t) \/ Recover(t) \/ SubmitRefused(t) \/ Submit(t)
    \/ \E t \in Threads : ThreadStep(t)
    \/ \E r \in Requests : Cancel(r)

\* The scheduler of the operating system: a thread that holds or can take the
\* lock takes its step, and an operation comes back or raises (the server
\* requests have a time limit).  Nobody has to submit, to cancel or to leave.
Fairness == \A t \in Threads : WF_vars(ThreadStep(t))

Spec == Init /\ [][Next]_vars
FairSpec == Spec /\ Fairness

--------------------------------------------------------------------------------
(* Properties *)

\* The engine is serial: the thread in `operation()` is the one recorded in
\* _running, and there is no other, also after operations that raised.
OneInference ==
    \A t \in Threads : pc[t] = "operating" <=> running = t

\* The queues hold exactly the items whose submit is still in its loop, once
\* each, whatever order cancellations and turns happened in.
QueuesMatchWaiters ==
    /\ ToSet(searchQueue) = {t \in Searchers : InQueue(t)}
    /\ ToSet(backgroundQueue) = {t \in Background : InQueue(t)}
    /\ \A q \in {searchQueue, backgroundQueue} :
         \A i, j \in 1..Len(q) : q[i] = q[j] => i = j

\* No lost wake-up: when the engine is free, the thread whose turn it is never
\* sleeps in wait(), also when the item ahead of it has just been cancelled.
NoLostWakeup ==
    running = NoThread =>
        \A t \in Threads : NextItem(searchQueue, backgroundQueue) = t => pc[t] # "waiting"

\* Every item queued or running under a cancelled id carries the flag, so the
\* loop sees it; and no flag outlives its item, so it cannot hit the next one.
CancelledItemsMarked ==
    \A t \in Threads :
        /\ HasItem(t) /\ requestId[t] \in cancelledIds => cancelled[t]
        /\ cancelled[t] => HasItem(t) \/ pc[t] = "returned"

\* A request cancelled before its turn never reaches the engine, and one
\* cancelled while it runs, or just after, never gets its result.
Starts(t) == pc[t] # "operating" /\ pc'[t] = "operating"
Delivers(t) == pc[t] = "returned" /\ pc'[t] = "ready"
CancelledNeverServed ==
    [][\A t \in Threads : Withdrawn(t) => ~ Starts(t) /\ ~ Delivers(t)]_vars

\* The engine implements one-at-a-time service with priority for searches.
Served == INSTANCE SerialInference WITH
              queued <- {t \in Threads : InQueue(t)},
              holder <- running
ImplementsSerialInference == Served!Spec

\* Every search that waits for the engine gets it or is told it was cancelled.
SearchesAreAnswered ==
    \A s \in Searchers : InQueue(s) ~> ~ InQueue(s)

\* Background work may wait for as long as searches keep coming, and no longer.
BackgroundResumes ==
    \A b \in Background :
        []<>(~ InQueue(b)) \/ []<>(searchQueue # <<>> \/ running \in Searchers)

================================================================================
