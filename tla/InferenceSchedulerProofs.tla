------------------------ MODULE InferenceSchedulerProofs ------------------------
(* Safety of the scheduler for any number of threads and request ids, and that   *)
(* it implements SerialInference.                                                *)
EXTENDS InferenceScheduler, SequenceTheorems, TLAPS

\* The elements of a sequence are each at one place only.
Unrepeated(q) == \A i, j \in 1..Len(q) : q[i] = q[j] => i = j

\* Taking out position k closes the gap.
LEMMA RemoveAtProperties ==
    ASSUME NEW S, NEW q \in Seq(S), NEW k \in 1..Len(q)
    PROVE  /\ RemoveAt(q, k) \in Seq(S)
           /\ Len(RemoveAt(q, k)) = Len(q) - 1
           /\ \A i \in 1..(Len(q) - 1) :
                RemoveAt(q, k)[i] = IF i < k THEN q[i] ELSE q[i + 1]
<1> DEFINE a == SubSeq(q, 1, k - 1)
           b == SubSeq(q, k + 1, Len(q))
<1>1. /\ a \in Seq(S) /\ Len(a) = k - 1
      /\ \A i \in 1..(k - 1) : a[i] = q[i]
  BY ElementOfSeq, SubSeqProperties
<1>2. /\ b \in Seq(S) /\ Len(b) = Len(q) - k
      /\ \A i \in 1..(Len(q) - k) : b[i] = q[k + i]
  BY ElementOfSeq, SubSeqProperties
<1>3. RemoveAt(q, k) = a \o b
  BY DEF RemoveAt
<1> HIDE DEF a, b
<1>4. /\ a \o b \in Seq(S)
      /\ Len(a \o b) = Len(a) + Len(b)
      /\ \A i \in 1..(Len(a) + Len(b)) :
           (a \o b)[i] = IF i <= Len(a) THEN a[i] ELSE b[i - Len(a)]
  BY <1>1, <1>2, ConcatProperties
<1> QED BY <1>1, <1>2, <1>3, <1>4

\* deque.remove takes out the one occurrence of t and keeps the rest.
LEMMA WithoutRemoves ==
    ASSUME NEW S, NEW q \in Seq(S), NEW t, Unrepeated(q)
    PROVE  /\ Without(q, t) \in Seq(S)
           /\ ToSet(Without(q, t)) = ToSet(q) \ {t}
           /\ Unrepeated(Without(q, t))
<1>1. CASE t \notin ToSet(q)
  BY <1>1 DEF Without
<1>2. CASE t \in ToSet(q)
  <2> DEFINE k == CHOOSE i \in 1..Len(q) : q[i] = t
  <2>1. k \in 1..Len(q) /\ q[k] = t
    BY <1>2 DEF ToSet
  <2>2. Without(q, t) = RemoveAt(q, k)
    BY <1>2 DEF Without
  <2> HIDE DEF k
  <2>3. PICK r \in Seq(S) :
           /\ r = RemoveAt(q, k)
           /\ Len(r) = Len(q) - 1
           /\ \A i \in 1..(Len(q) - 1) : r[i] = IF i < k THEN q[i] ELSE q[i + 1]
    BY <2>1, RemoveAtProperties
  <2>4. ASSUME NEW i \in 1..Len(q), i # k
        PROVE  \E j \in 1..Len(r) : r[j] = q[i]
    <3>1. CASE i < k
      BY <3>1, <2>1, <2>3
    <3>2. CASE i > k
      <4>1. i - 1 \in 1..Len(r) /\ r[i - 1] = q[i]
        BY <3>2, <2>1, <2>3
      <4> QED BY <4>1
    <3> QED BY <3>1, <3>2, <2>1, <2>4
  <2>5. \A j \in 1..Len(r) : r[j] # t /\ \E i \in 1..Len(q) : r[j] = q[i]
    BY <2>1, <2>3 DEF Unrepeated
  <2>6. ToSet(r) = ToSet(q) \ {t}
    <3>1. DOMAIN r = 1..Len(r) /\ DOMAIN q = 1..Len(q)
      OBVIOUS
    <3>2. \A x \in ToSet(r) : x \in ToSet(q) \ {t}
      BY <3>1, <2>5 DEF ToSet
    <3>3. \A x \in ToSet(q) \ {t} : x \in ToSet(r)
      BY <3>1, <2>1, <2>4 DEF ToSet
    <3> QED BY <3>2, <3>3
  <2>7. Unrepeated(r)
    BY <2>1, <2>3 DEF Unrepeated
  <2> QED BY <2>2, <2>3, <2>6, <2>7
<1> QED BY <1>1, <1>2

\* deque.append adds t at the end.
LEMMA AppendAdds ==
    ASSUME NEW S, NEW q \in Seq(S), NEW t \in S, Unrepeated(q), t \notin ToSet(q)
    PROVE  /\ Append(q, t) \in Seq(S)
           /\ ToSet(Append(q, t)) = ToSet(q) \union {t}
           /\ Unrepeated(Append(q, t))
<1> DEFINE r == Append(q, t)
<1>1. /\ r \in Seq(S) /\ Len(r) = Len(q) + 1
      /\ \A i \in 1..Len(q) : r[i] = q[i]
      /\ r[Len(q) + 1] = t
  BY AppendProperties
<1>2. DOMAIN r = 1..(Len(q) + 1) /\ DOMAIN q = 1..Len(q)
  BY <1>1
<1> HIDE DEF r
<1>3. ToSet(r) = ToSet(q) \union {t}
  BY <1>1, <1>2 DEF ToSet
<1>4. Unrepeated(r)
  BY <1>1, <1>2 DEF ToSet, Unrepeated
<1> QED BY <1>1, <1>3, <1>4 DEF r

--------------------------------------------------------------------------------
\* The inductive invariant: the typing, and the four facts that need each other.
\* A turn keeps the queues in step with the program counters only if the engine's
\* holder is out of them; the wake-up promise needs to know whose turn it is.
IInv ==
    /\ TypeOK
    /\ OneInference
    /\ QueuesMatchWaiters
    /\ NoLostWakeup
    /\ CancelledItemsMarked

\* One turn of the loop, from queues that hold t and every other waiter once.
LEMMA TurnKeepsQueues ==
    ASSUME NEW t \in Threads, NEW sq \in Seq(Searchers), NEW bq \in Seq(Background),
           NEW pos \in [Threads -> Positions],
           running \in Threads \union {NoThread},
           Unrepeated(sq), Unrepeated(bq),
           pos[t] \in {"ready", "woken"},
           ToSet(sq) = {u \in Searchers : u = t \/ pos[u] \in {"waiting", "woken"}},
           ToSet(bq) = {u \in Background : u = t \/ pos[u] \in {"waiting", "woken"}},
           \A u \in Threads : pos[u] = "operating" <=> running = u,
           running = NoThread =>
               \A u \in Threads \ {t} : NextItem(sq, bq) = u => pos[u] # "waiting",
           Turn(t, sq, bq, pos)
    PROVE  /\ searchQueue' \in Seq(Searchers)
           /\ backgroundQueue' \in Seq(Background)
           /\ running' \in Threads \union {NoThread}
           /\ pc' \in [Threads -> Positions]
           /\ OneInference' /\ QueuesMatchWaiters' /\ NoLostWakeup'
<1> USE ThreadsAssumption
<1>1. CASE running = NoThread /\ NextItem(sq, bq) = t
  <2>1. /\ running' = t
        /\ searchQueue' = Without(sq, t)
        /\ backgroundQueue' = Without(bq, t)
        /\ pc' = [pos EXCEPT ![t] = "operating"]
    BY <1>1 DEF Turn
  <2>2. /\ Without(sq, t) \in Seq(Searchers)
        /\ ToSet(Without(sq, t)) = ToSet(sq) \ {t}
        /\ Unrepeated(Without(sq, t))
    BY WithoutRemoves
  <2>3. /\ Without(bq, t) \in Seq(Background)
        /\ ToSet(Without(bq, t)) = ToSet(bq) \ {t}
        /\ Unrepeated(Without(bq, t))
    BY WithoutRemoves
  <2>4. pc' \in [Threads -> Positions] /\ t # NoThread
    BY <2>1 DEF Positions, Threads
  <2>5. OneInference'
    BY <1>1, <2>1, <2>4 DEF OneInference, Threads
  <2>6. QueuesMatchWaiters'
    BY <2>1, <2>2, <2>3 DEF QueuesMatchWaiters, InQueue, Unrepeated, Threads
  <2>7. NoLostWakeup'
    BY <2>1, <2>4 DEF NoLostWakeup
  <2> QED BY <2>1, <2>2, <2>3, <2>4, <2>5, <2>6, <2>7
<1>2. CASE ~ (running = NoThread /\ NextItem(sq, bq) = t)
  <2>1. /\ running' = running
        /\ searchQueue' = sq
        /\ backgroundQueue' = bq
        /\ pc' = [pos EXCEPT ![t] = "waiting"]
    BY <1>2 DEF Turn
  <2>2. pc' \in [Threads -> Positions]
    BY <2>1 DEF Positions
  <2>3. OneInference'
    BY <2>1 DEF OneInference
  <2>4. QueuesMatchWaiters'
    BY <2>1 DEF QueuesMatchWaiters, InQueue, Unrepeated, Threads
  <2>5. NoLostWakeup'
    BY <1>2, <2>1 DEF NoLostWakeup, NextItem
  <2> QED BY <2>1, <2>2, <2>3, <2>4, <2>5
<1> QED BY <1>1, <1>2

LEMMA InitIInv == Init => IInv
<1> SUFFICES ASSUME Init PROVE IInv
  OBVIOUS
<1> USE ThreadsAssumption DEF Init
<1>1. TypeOK
  BY DEF TypeOK, Positions
<1>2. OneInference /\ CancelledItemsMarked
  BY DEF OneInference, CancelledItemsMarked, HasItem, Threads
<1>3. QueuesMatchWaiters
  BY DEF QueuesMatchWaiters, InQueue, ToSet, Threads
<1>4. NoLostWakeup
  BY DEF NoLostWakeup
<1> QED BY <1>1, <1>2, <1>3, <1>4 DEF IInv

\* submit's first section appends and wakes everybody before its first turn.
LEMMA SubmitKeepsIInv ==
    ASSUME IInv, NEW t \in Threads, Submit(t)
    PROVE  IInv'
<1> USE ThreadsAssumption
<1> DEFINE sq == IF t \in Searchers THEN Append(searchQueue, t) ELSE searchQueue
           bq == IF t \in Background THEN Append(backgroundQueue, t) ELSE backgroundQueue
<1>1. /\ TypeOK /\ OneInference /\ QueuesMatchWaiters /\ CancelledItemsMarked
      /\ pc[t] = "ready"
      /\ requestId[t] \notin cancelledIds
      /\ Turn(t, sq, bq, AllWoken)
      /\ UNCHANGED <<cancelledIds, cancelled, requestId>>
  BY DEF IInv, Submit
<1>2. /\ t \notin ToSet(searchQueue) /\ t \notin ToSet(backgroundQueue)
      /\ Unrepeated(searchQueue) /\ Unrepeated(backgroundQueue)
  BY <1>1 DEF QueuesMatchWaiters, InQueue, Unrepeated
<1>3. /\ sq \in Seq(Searchers) /\ Unrepeated(sq)
      /\ ToSet(sq) = ToSet(searchQueue) \union ({t} \intersect Searchers)
  BY <1>1, <1>2, AppendAdds DEF TypeOK
<1>4. /\ bq \in Seq(Background) /\ Unrepeated(bq)
      /\ ToSet(bq) = ToSet(backgroundQueue) \union ({t} \intersect Background)
  BY <1>1, <1>2, AppendAdds DEF TypeOK
<1>5. /\ AllWoken \in [Threads -> Positions]
      /\ AllWoken[t] = "ready"
      /\ \A u \in Threads : AllWoken[u] # "waiting"
      /\ \A u \in Threads : InQueue(u) <=> AllWoken[u] = "woken"
      /\ \A u \in Threads : pc[u] = "operating" <=> AllWoken[u] = "operating"
  BY <1>1 DEF TypeOK, AllWoken, Positions, InQueue
<1> HIDE DEF sq, bq
<1>6. /\ ToSet(sq) = {u \in Searchers : u = t \/ AllWoken[u] \in {"waiting", "woken"}}
      /\ ToSet(bq) = {u \in Background : u = t \/ AllWoken[u] \in {"waiting", "woken"}}
  BY <1>1, <1>3, <1>4, <1>5 DEF QueuesMatchWaiters, Threads
<1>7. /\ running \in Threads \union {NoThread}
      /\ \A u \in Threads : AllWoken[u] = "operating" <=> running = u
  BY <1>1, <1>5 DEF TypeOK, OneInference
<1>8. /\ searchQueue' \in Seq(Searchers)
      /\ backgroundQueue' \in Seq(Background)
      /\ running' \in Threads \union {NoThread}
      /\ pc' \in [Threads -> Positions]
      /\ OneInference' /\ QueuesMatchWaiters' /\ NoLostWakeup'
  BY <1>1, <1>3, <1>4, <1>5, <1>6, <1>7, TurnKeepsQueues
<1>9. TypeOK'
  BY <1>1, <1>8 DEF TypeOK
<1>10. CancelledItemsMarked'
  <2>1. /\ \A u \in Threads \ {t} : pc'[u] = AllWoken[u]
        /\ pc'[t] \in {"operating", "waiting"}
    BY <1>1, <1>5 DEF Turn
  <2>2. HasItem(t)'
    BY <2>1 DEF HasItem
  <2>3. cancelled' = cancelled /\ requestId' = requestId /\ cancelledIds' = cancelledIds
    BY <1>1
  <2>4. ASSUME NEW u \in Threads
        PROVE  /\ HasItem(u)' /\ requestId[u] \in cancelledIds => cancelled[u]
               /\ cancelled[u] => HasItem(u)' \/ pc'[u] = "returned"
    <3>1. CASE u = t
      BY <1>1, <2>2, <3>1
    <3>2. CASE u # t
      BY <1>1, <2>1, <3>2 DEF CancelledItemsMarked, HasItem, AllWoken
    <3> QED BY <3>1, <3>2
  <2> QED BY <2>3, <2>4 DEF CancelledItemsMarked
<1> QED BY <1>8, <1>9, <1>10 DEF IInv

LEMMA WakeKeepsIInv ==
    ASSUME IInv, NEW t \in Threads, Wake(t)
    PROVE  IInv'
<1> USE ThreadsAssumption
<1>1. /\ TypeOK /\ OneInference /\ QueuesMatchWaiters /\ NoLostWakeup
      /\ CancelledItemsMarked
      /\ pc[t] = "woken"
      /\ Turn(t, searchQueue, backgroundQueue, pc)
      /\ UNCHANGED <<cancelledIds, cancelled, requestId>>
  BY DEF IInv, Wake
<1>2. /\ Unrepeated(searchQueue) /\ Unrepeated(backgroundQueue)
      /\ ToSet(searchQueue) = {u \in Searchers : u = t \/ pc[u] \in {"waiting", "woken"}}
      /\ ToSet(backgroundQueue) =
           {u \in Background : u = t \/ pc[u] \in {"waiting", "woken"}}
  BY <1>1 DEF QueuesMatchWaiters, InQueue, Unrepeated, Threads
<1>3. /\ searchQueue' \in Seq(Searchers)
      /\ backgroundQueue' \in Seq(Background)
      /\ running' \in Threads \union {NoThread}
      /\ pc' \in [Threads -> Positions]
      /\ OneInference' /\ QueuesMatchWaiters' /\ NoLostWakeup'
  <2>1. /\ searchQueue \in Seq(Searchers) /\ backgroundQueue \in Seq(Background)
        /\ running \in Threads \union {NoThread} /\ pc \in [Threads -> Positions]
    BY <1>1 DEF TypeOK
  <2>2. \A u \in Threads : pc[u] = "operating" <=> running = u
    BY <1>1 DEF OneInference
  <2>3. running = NoThread =>
          \A u \in Threads \ {t} :
            NextItem(searchQueue, backgroundQueue) = u => pc[u] # "waiting"
    BY <1>1 DEF NoLostWakeup
  <2> QED BY <1>1, <1>2, <2>1, <2>2, <2>3, TurnKeepsQueues
<1>4. TypeOK'
  BY <1>1, <1>3 DEF TypeOK
<1>5. CancelledItemsMarked'
  BY <1>1 DEF CancelledItemsMarked, HasItem, Turn, TypeOK
<1> QED BY <1>3, <1>4, <1>5 DEF IInv

\* The cancelled item leaves; everyone it might have kept asleep is woken.
LEMMA WakeCancelledKeepsIInv ==
    ASSUME IInv, NEW t \in Threads, WakeCancelled(t)
    PROVE  IInv'
<1> USE ThreadsAssumption
<1>1. /\ TypeOK /\ OneInference /\ QueuesMatchWaiters /\ CancelledItemsMarked
      /\ pc[t] = "woken"
      /\ searchQueue' = Without(searchQueue, t)
      /\ backgroundQueue' = Without(backgroundQueue, t)
      /\ cancelled' = [cancelled EXCEPT ![t] = FALSE]
      /\ pc' = [AllWoken EXCEPT ![t] = "leaving"]
      /\ UNCHANGED <<running, cancelledIds, requestId>>
  BY DEF IInv, WakeCancelled
<1>2. /\ searchQueue' \in Seq(Searchers)
      /\ ToSet(searchQueue') = ToSet(searchQueue) \ {t}
      /\ Unrepeated(searchQueue')
  BY <1>1, WithoutRemoves DEF TypeOK, QueuesMatchWaiters, Unrepeated
<1>3. /\ backgroundQueue' \in Seq(Background)
      /\ ToSet(backgroundQueue') = ToSet(backgroundQueue) \ {t}
      /\ Unrepeated(backgroundQueue')
  BY <1>1, WithoutRemoves DEF TypeOK, QueuesMatchWaiters, Unrepeated
<1>4. /\ pc' \in [Threads -> Positions]
      /\ pc'[t] = "leaving"
      /\ \A u \in Threads \ {t} : pc'[u] = IF pc[u] = "waiting" THEN "woken" ELSE pc[u]
  BY <1>1 DEF TypeOK, AllWoken, Positions
<1>5. TypeOK'
  BY <1>1, <1>2, <1>3, <1>4 DEF TypeOK
<1>6. OneInference'
  BY <1>1, <1>4 DEF OneInference
<1>7. QueuesMatchWaiters'
  BY <1>1, <1>2, <1>3, <1>4 DEF QueuesMatchWaiters, InQueue, Unrepeated, Threads
<1>8. NoLostWakeup'
  BY <1>4 DEF NoLostWakeup
<1>9. CancelledItemsMarked'
  BY <1>1, <1>4 DEF CancelledItemsMarked, HasItem, TypeOK
<1> QED BY <1>5, <1>6, <1>7, <1>8, <1>9 DEF IInv

\* The remaining steps leave both queues alone and move no item in or out.
LEMMA OtherStepsKeepIInv ==
    ASSUME IInv, NEW t \in Threads,
           \/ t \in Searchers /\ \E r \in Requests : BeginRequest(t, r)
           \/ EndRequest(t) \/ Recover(t) \/ SubmitRefused(t)
           \/ FinishOperation(t) \/ Deliver(t)
    PROVE  IInv'
<1> USE ThreadsAssumption
<1>1. /\ TypeOK /\ OneInference /\ QueuesMatchWaiters /\ NoLostWakeup
      /\ CancelledItemsMarked
      /\ UNCHANGED <<searchQueue, backgroundQueue>>
  BY DEF IInv, BeginRequest, EndRequest, Recover, SubmitRefused, FinishOperation,
         Deliver
<1>2. AllWoken \in [Threads -> Positions]
  BY <1>1 DEF TypeOK, AllWoken, Positions
<1>3. TypeOK'
  BY <1>1, <1>2 DEF TypeOK, Positions, BeginRequest, EndRequest, Recover,
     SubmitRefused, FinishOperation, Deliver
<1>4. OneInference'
  BY <1>1 DEF TypeOK, OneInference, BeginRequest, EndRequest, Recover,
     SubmitRefused, FinishOperation, Deliver, AllWoken, Threads
<1>5. \A u \in Threads : InQueue(u)' <=> InQueue(u)
  BY <1>1 DEF TypeOK, InQueue, BeginRequest, EndRequest, Recover,
     SubmitRefused, FinishOperation, Deliver, AllWoken
<1>6. QueuesMatchWaiters'
  BY <1>1, <1>5 DEF QueuesMatchWaiters, Threads
<1>7. NoLostWakeup'
  BY <1>1 DEF TypeOK, NoLostWakeup, BeginRequest, EndRequest, Recover,
     SubmitRefused, FinishOperation, Deliver, AllWoken
<1>8. CancelledItemsMarked'
  <2>1. CASE FinishOperation(t)
    BY <1>1, <2>1 DEF TypeOK, CancelledItemsMarked, HasItem, FinishOperation, AllWoken
  <2>2. CASE ~ FinishOperation(t)
    BY <1>1, <2>2 DEF TypeOK, CancelledItemsMarked, HasItem, BeginRequest,
       EndRequest, Recover, SubmitRefused, Deliver
  <2> QED BY <2>1, <2>2
<1> QED BY <1>3, <1>4, <1>6, <1>7, <1>8 DEF IInv

\* cancel flags every item of the request and wakes everybody.
LEMMA CancelKeepsIInv ==
    ASSUME IInv, NEW r \in Requests, Cancel(r)
    PROVE  IInv'
<1>1. /\ TypeOK /\ OneInference /\ QueuesMatchWaiters /\ CancelledItemsMarked
      /\ pc' = AllWoken
      /\ cancelledIds' = cancelledIds \union {r}
      /\ cancelled' = [t \in Threads |-> cancelled[t] \/ (HasItem(t) /\ requestId[t] = r)]
      /\ UNCHANGED <<searchQueue, backgroundQueue, running, requestId>>
  BY DEF IInv, Cancel
<1>2. /\ pc' \in [Threads -> Positions]
      /\ \A t \in Threads : pc'[t] = IF pc[t] = "waiting" THEN "woken" ELSE pc[t]
  BY <1>1 DEF TypeOK, AllWoken, Positions
<1>3. TypeOK'
  BY <1>1, <1>2 DEF TypeOK
<1>4. OneInference' /\ NoLostWakeup'
  BY <1>1, <1>2 DEF OneInference, NoLostWakeup
<1>5. QueuesMatchWaiters'
  BY <1>1, <1>2 DEF QueuesMatchWaiters, InQueue, Threads
<1>6. CancelledItemsMarked'
  BY <1>1, <1>2 DEF CancelledItemsMarked, HasItem
<1> QED BY <1>3, <1>4, <1>5, <1>6 DEF IInv

LEMMA NextKeepsIInv == IInv /\ [Next]_vars => IInv'
<1> SUFFICES ASSUME IInv, [Next]_vars PROVE IInv'
  OBVIOUS
<1>1. CASE \E s \in Searchers, r \in Requests : BeginRequest(s, r)
  BY <1>1, OtherStepsKeepIInv DEF Threads
<1>2. CASE \E t \in Threads : EndRequest(t) \/ Recover(t) \/ SubmitRefused(t)
                             \/ FinishOperation(t) \/ Deliver(t)
  BY <1>2, OtherStepsKeepIInv
<1>3. CASE \E t \in Threads : Submit(t)
  BY <1>3, SubmitKeepsIInv
<1>4. CASE \E t \in Threads : Wake(t)
  BY <1>4, WakeKeepsIInv
<1>5. CASE \E t \in Threads : WakeCancelled(t)
  BY <1>5, WakeCancelledKeepsIInv
<1>6. CASE \E r \in Requests : Cancel(r)
  BY <1>6, CancelKeepsIInv
<1>7. CASE UNCHANGED vars
  BY <1>7 DEF vars, IInv, TypeOK, OneInference, QueuesMatchWaiters, NoLostWakeup,
     CancelledItemsMarked, InQueue, HasItem
<1> QED BY <1>1, <1>2, <1>3, <1>4, <1>5, <1>6, <1>7 DEF Next, ThreadStep

LEMMA InductiveInvariant == Spec => []IInv
BY InitIInv, NextKeepsIInv, PTL DEF Spec

--------------------------------------------------------------------------------
\* Every variable of the scheduler keeps its type; the queues hold threads of
\* their own priority only.
THEOREM TypeCorrect == Spec => []TypeOK
<1>1. IInv => TypeOK
  BY DEF IInv
<1> QED BY <1>1, InductiveInvariant, PTL

\* llama.cpp works for at most one caller, whatever raised or was cancelled.
THEOREM SerialService == Spec => []OneInference
<1>1. IInv => OneInference
  BY DEF IInv
<1> QED BY <1>1, InductiveInvariant, PTL

\* submit's queues hold exactly the callers that are still in its loop.
THEOREM QueuesAreExact == Spec => []QueuesMatchWaiters
<1>1. IInv => QueuesMatchWaiters
  BY DEF IInv
<1> QED BY <1>1, InductiveInvariant, PTL

\* When the engine is free, the thread whose turn it is never sleeps.
THEOREM WakeupsReachTheHead == Spec => []NoLostWakeup
<1>1. IInv => NoLostWakeup
  BY DEF IInv
<1> QED BY <1>1, InductiveInvariant, PTL

\* An item queued under a cancelled id is flagged.
THEOREM CancellationReachesItems == Spec => []CancelledItemsMarked
<1>1. IInv => CancelledItemsMarked
  BY DEF IInv
<1> QED BY <1>1, InductiveInvariant, PTL

--------------------------------------------------------------------------------
\* A cancelled request neither reaches the engine nor gets a result.
THEOREM CancelledRequestsStop == Spec => CancelledNeverServed
<1> DEFINE Honoured == \A t \in Threads : Withdrawn(t) => ~ Starts(t) /\ ~ Delivers(t)
<1>1. ASSUME IInv, [Next]_vars PROVE [Honoured]_vars
  <2> SUFFICES ASSUME Next, NEW t \in Threads, Withdrawn(t)
               PROVE  ~ Starts(t) /\ ~ Delivers(t)
    BY <1>1
  <2>1. TypeOK /\ CancelledItemsMarked
    BY <1>1 DEF IInv
  <2>2. CASE \E s \in Searchers, r \in Requests : BeginRequest(s, r)
    BY <2>1, <2>2 DEF TypeOK, Threads, BeginRequest, Starts, Delivers
  <2>3. CASE \E r \in Requests : Cancel(r)
    BY <2>1, <2>3 DEF TypeOK, Cancel, AllWoken, Starts, Delivers
  <2>4. CASE \E u \in Threads : EndRequest(u) \/ Recover(u) \/ SubmitRefused(u)
                                \/ FinishOperation(u) \/ WakeCancelled(u)
    BY <2>1, <2>4 DEF TypeOK, EndRequest, Recover, SubmitRefused, FinishOperation,
       WakeCancelled, AllWoken, Starts, Delivers
  <2>5. CASE \E u \in Threads : Deliver(u)
    BY <2>1, <2>5 DEF TypeOK, Deliver, Starts, Delivers
  <2>6. ASSUME NEW u \in Threads, Submit(u) \/ Wake(u)
        PROVE  ~ Starts(t) /\ ~ Delivers(t)
    <3>1. /\ pc[u] \in {"ready", "woken"} /\ ~ Withdrawn(u)
          /\ \E x \in {"operating", "waiting"} :
               \/ pc' = [AllWoken EXCEPT ![u] = x]
               \/ pc' = [pc EXCEPT ![u] = x]
      BY <2>1, <2>6 DEF Submit, Wake, Turn, CancelledItemsMarked, HasItem, Withdrawn
    <3>2. t # u /\ pc'[t] \in {pc[t], "woken"}
      BY <2>1, <3>1 DEF TypeOK, AllWoken
    <3> QED BY <3>2 DEF Starts, Delivers
  <2> QED BY <2>2, <2>3, <2>4, <2>5, <2>6, <1>1 DEF Next, ThreadStep
<1> QED BY <1>1, InductiveInvariant, PTL DEF Spec, CancelledNeverServed

--------------------------------------------------------------------------------
\* A background item is next only when no search is queued.
LEMMA BackgroundGoesLast ==
    ASSUME TypeOK, QueuesMatchWaiters, NEW t \in Background,
           NEW bq \in Seq(Background), NextItem(searchQueue, bq) = t
    PROVE  {u \in Threads : InQueue(u)} \intersect Searchers = {}
<1>1. searchQueue \in Seq(Searchers) /\ t \notin Searchers
  BY ThreadsAssumption DEF TypeOK
<1>2. searchQueue = <<>>
  BY <1>1, HeadTailProperties DEF NextItem
<1>3. ToSet(searchQueue) = {}
  BY <1>2 DEF ToSet
<1> QED BY <1>3 DEF QueuesMatchWaiters

\* Every step of the scheduler is a step of the engine's promise, or none at all.
THEOREM Refinement == Spec => ImplementsSerialInference
<1> USE ThreadsAssumption
<1> DEFINE waiting == {t \in Threads : InQueue(t)}
<1>1. Init => Served!Init
  BY DEF Init, Served!Init, InQueue
<1>2. ASSUME IInv, IInv', [Next]_vars PROVE [Served!Next]_(Served!vars)
  <2>1. TypeOK /\ OneInference /\ QueuesMatchWaiters
    BY <1>2 DEF IInv
  <2>2. CASE UNCHANGED vars
    BY <2>2 DEF vars, InQueue, Served!vars
  <2>3. ASSUME NEW t \in Threads, FinishOperation(t)
        PROVE  Served!Release(t)
    BY <2>1, <2>3 DEF TypeOK, OneInference, FinishOperation, AllWoken, InQueue,
       Served!Release
  <2>4. ASSUME NEW t \in Threads, WakeCancelled(t)
        PROVE  Served!Withdraw(t)
    BY <2>1, <2>4 DEF TypeOK, WakeCancelled, AllWoken, InQueue, Served!Withdraw
  <2>5. ASSUME NEW t \in Threads, Submit(t)
        PROVE  Served!Ask(t) \/ Served!Grant(t)
    <3> DEFINE sq == IF t \in Searchers THEN Append(searchQueue, t) ELSE searchQueue
               bq == IF t \in Background THEN Append(backgroundQueue, t)
                     ELSE backgroundQueue
    <3>1. pc[t] = "ready" /\ Turn(t, sq, bq, AllWoken) /\ bq \in Seq(Background)
      BY <2>1, <2>5 DEF Submit, TypeOK
    <3>2. t \in Background => sq = searchQueue
      OBVIOUS
    <3> HIDE DEF sq, bq
    <3>3. t \notin waiting /\ running # t
      BY <2>1, <3>1 DEF OneInference, InQueue
    <3>4. CASE pc' = [AllWoken EXCEPT ![t] = "waiting"] /\ UNCHANGED running
      <4>1. waiting' = waiting \union {t}
        BY <2>1, <3>1, <3>4 DEF TypeOK, AllWoken, InQueue
      <4> QED BY <3>3, <3>4, <4>1 DEF Served!Ask
    <3>5. CASE /\ running = NoThread /\ NextItem(sq, bq) = t /\ running' = t
               /\ pc' = [AllWoken EXCEPT ![t] = "operating"]
      <4>1. waiting' = waiting \ {t}
        BY <2>1, <3>1, <3>3, <3>5 DEF TypeOK, AllWoken, InQueue
      <4>2. Served!MayHold(t)
        BY <2>1, <3>1, <3>2, <3>5, BackgroundGoesLast DEF Served!MayHold
      <4> QED BY <3>5, <4>1, <4>2 DEF Served!Grant
    <3> QED BY <3>1, <3>4, <3>5 DEF Turn
  <2>6. ASSUME NEW t \in Threads, Wake(t)
        PROVE  Served!Grant(t) \/ UNCHANGED Served!vars
    <3>1. pc[t] = "woken" /\ Turn(t, searchQueue, backgroundQueue, pc)
      BY <2>6 DEF Wake
    <3>2. CASE pc' = [pc EXCEPT ![t] = "waiting"] /\ UNCHANGED running
      BY <2>1, <3>1, <3>2 DEF TypeOK, InQueue, Served!vars
    <3>3. CASE /\ running = NoThread /\ NextItem(searchQueue, backgroundQueue) = t
               /\ running' = t
               /\ pc' = [pc EXCEPT ![t] = "operating"]
      <4>1. waiting' = waiting \ {t}
        BY <2>1, <3>1, <3>3 DEF TypeOK, InQueue
      <4>2. Served!MayHold(t)
        BY <2>1, <3>3, BackgroundGoesLast DEF TypeOK, Served!MayHold
      <4> QED BY <3>3, <4>1, <4>2 DEF Served!Grant
    <3> QED BY <3>1, <3>2, <3>3 DEF Turn
  <2>7. CASE \/ \E s \in Searchers, r \in Requests : BeginRequest(s, r)
             \/ \E r \in Requests : Cancel(r)
             \/ \E t \in Threads : EndRequest(t) \/ Recover(t) \/ SubmitRefused(t)
                                   \/ Deliver(t)
    BY <2>1, <2>7 DEF TypeOK, BeginRequest, Cancel, EndRequest, Recover, SubmitRefused,
       Deliver, AllWoken, InQueue, Served!vars, Threads
  <2> QED
    BY <1>2, <2>2, <2>3, <2>4, <2>5, <2>6, <2>7
       DEF Next, ThreadStep, Served!Next, Served!Callers, Threads
<1> QED BY <1>1, <1>2, InductiveInvariant, PTL DEF Spec, ImplementsSerialInference, Served!Spec

================================================================================
