--------------------------- MODULE ImportBatchProofs ---------------------------
(* Safety of the threads around an import, for any number of web threads, batches *)
(* and files.                                                                     *)
EXTENDS ImportBatch, TLAPS

\* A thread that may still do work has a permission left to ask for.
WorkLeft ==
    \A b \in Batches :
        place[b] \in {"gate", "asleep", "woken", "working"} => left[b] > 0

\* Batches are numbered as they start, and the one that is importing is the one that
\* the controller holds and calls active.
HeldBatch ==
    /\ active => batch \in Batches
    /\ \A b \in Batches : /\ b > batch => place[b] = "none"
                          /\ Importing(b) => b = batch /\ active

\* The status of a pause outlives the pause only in a shutdown.
PauseStands ==
    status \in {"pausing", "paused"} => batch \in Batches /\ (paused \/ shutdown)

\* The inductive invariant.  That a start finds nobody asleep needs HeldBatch; that a
\* thread does not leave "paused" behind when it goes on needs PauseStands.
IInv ==
    /\ TypeOK
    /\ WorkLeft
    /\ HeldBatch
    /\ PauseStands
    /\ PauseIsShown
    /\ SleepsForAPause

LEMMA InitIInv == Init => IInv
<1> SUFFICES ASSUME Init PROVE IInv
  OBVIOUS
<1> USE BatchAssumption
<1>1. ControllerTyped
  BY DEF Init, ControllerTyped
<1>2. ThreadsTyped
  BY DEF Init, ThreadsTyped
<1>3. WorkersTyped
  <2>1. jobs \subseteq Batches /\ taken \subseteq jobs
    BY DEF Init
  <2>2. todo \in [Clients -> {"none", "plain", "authorized"}]
    BY DEF Init
  <2> QED BY <2>1, <2>2 DEF Init, WorkersTyped
<1>4. WorkLeft /\ HeldBatch /\ SleepsForAPause
  BY DEF Init, WorkLeft, HeldBatch, SleepsForAPause, Importing
<1>5. PauseStands /\ PauseIsShown
  BY DEF Init, PauseStands, PauseIsShown
<1> QED BY <1>1, <1>2, <1>3, <1>4, <1>5 DEF IInv, TypeOK

\* What leaves the queue, the worker and the application alone.
LEMMA WorkersKept ==
    ASSUME IInv, UNCHANGED <<jobs, todo, worker, application>>
    PROVE  WorkersTyped'
BY DEF IInv, TypeOK, WorkersTyped, worker, application

\* What leaves the controller and the batch threads alone.
LEMMA OthersKeepIInv ==
    ASSUME IInv, UNCHANGED <<controller, threads>>, WorkersTyped'
    PROVE  IInv'
<1>1. TypeOK'
  BY DEF IInv, TypeOK, ControllerTyped, ThreadsTyped, controller, threads
<1>2. WorkLeft' /\ HeldBatch' /\ SleepsForAPause'
  BY DEF IInv, WorkLeft, HeldBatch, SleepsForAPause, Importing, controller, threads
<1>3. PauseStands' /\ PauseIsShown'
  BY DEF IInv, PauseStands, PauseIsShown, controller, threads
<1> QED BY <1>1, <1>2, <1>3 DEF IInv

LEMMA PermissionIInv ==
    ASSUME IInv, NEW b \in Batches, Permission(b)
    PROVE  IInv'
<1> USE DEF Permission, AskingKeeps, Asks, Sleep, GoOn, At
<1>1. b = batch /\ active
  BY DEF IInv, HeldBatch, Importing
<1>2. TypeOK'
  <2>1. ControllerTyped'
    BY DEF IInv, TypeOK, ControllerTyped
  <2>2. ThreadsTyped'
    BY DEF IInv, TypeOK, ThreadsTyped
  <2> QED BY <2>1, <2>2, WorkersKept DEF TypeOK
<1>3. WorkLeft'
  BY DEF IInv, TypeOK, ThreadsTyped, WorkLeft
<1>4. HeldBatch'
  BY <1>1 DEF IInv, TypeOK, ThreadsTyped, HeldBatch, Importing
<1>5. PauseStands' /\ PauseIsShown'
  BY <1>1 DEF IInv, TypeOK, ThreadsTyped, HeldBatch, PauseStands, PauseIsShown
<1>6. SleepsForAPause'
  BY DEF IInv, TypeOK, ThreadsTyped, SleepsForAPause
<1> QED BY <1>2, <1>3, <1>4, <1>5, <1>6 DEF IInv

LEMMA WorkIInv ==
    ASSUME IInv, NEW b \in Batches, Work(b)
    PROVE  IInv'
<1> USE BatchAssumption DEF Work, At
<1>1. b = batch /\ active
  BY DEF IInv, HeldBatch, Importing
<1>2. left[b] > 0 /\ ~ waiting /\ status # "paused"
  BY <1>1 DEF IInv, WorkLeft, PauseIsShown
<1>3. TypeOK'
  <2>1. ControllerTyped'
    BY DEF IInv, TypeOK, ControllerTyped, controller
  <2>2. ThreadsTyped'
    <3>1. left' \in [Batches -> 0..Entries]
      BY <1>2 DEF IInv, TypeOK, ThreadsTyped
    <3>2. counted' \in [Batches -> BOOLEAN]
      BY DEF IInv, TypeOK, ThreadsTyped
    <3> QED BY <3>1, <3>2 DEF IInv, TypeOK, ThreadsTyped
  <2>3. jobs' \subseteq Batches /\ taken' \subseteq jobs'
    BY DEF IInv, TypeOK, WorkersTyped
  <2>4. UNCHANGED <<todo, loop, resting, stop, asked, ready, host>>
    BY DEF application
  <2>5. WorkersTyped'
    BY <2>3, <2>4 DEF IInv, TypeOK, WorkersTyped
  <2> QED BY <2>1, <2>2, <2>5 DEF TypeOK
<1>4. WorkLeft' /\ HeldBatch' /\ SleepsForAPause'
  BY <1>1, <1>2 DEF IInv, TypeOK, ThreadsTyped, WorkLeft, HeldBatch, SleepsForAPause, Importing,
                    controller
<1>5. PauseStands' /\ PauseIsShown'
  BY <1>2 DEF IInv, PauseStands, PauseIsShown, controller
<1> QED BY <1>3, <1>4, <1>5 DEF IInv

LEMMA ReportIInv ==
    ASSUME IInv, NEW b \in Batches, Report(b)
    PROVE  IInv'
<1> USE DEF Report, ReportKeeps, Onward, At
<1>1. b = batch /\ active
  BY DEF IInv, HeldBatch, Importing
<1>2. ~ waiting /\ status # "paused"
  BY <1>1 DEF IInv, PauseIsShown
<1>3. TypeOK'
  <2>1. reported' \in BOOLEAN
    BY DEF IInv, TypeOK, ControllerTyped, ThreadsTyped
  <2>2. ControllerTyped'
    BY <2>1 DEF IInv, TypeOK, ControllerTyped, Stage
  <2>3. ThreadsTyped'
    BY DEF IInv, TypeOK, ThreadsTyped
  <2> QED BY <2>2, <2>3, WorkersKept DEF TypeOK
<1>4. WorkLeft' /\ HeldBatch' /\ SleepsForAPause'
  BY <1>1 DEF IInv, TypeOK, ThreadsTyped, WorkLeft, HeldBatch, SleepsForAPause, Importing
<1>5. PauseStands' /\ PauseIsShown'
  BY <1>1, <1>2 DEF IInv, PauseStands, PauseIsShown, Stage
<1> QED BY <1>3, <1>4, <1>5 DEF IInv

LEMMA SettleIInv ==
    ASSUME IInv, NEW b \in Batches, Settle(b)
    PROVE  IInv'
<1>1. PICK s \in Outcome(b), spoilt \in BOOLEAN :
        /\ status' = s /\ active' = FALSE /\ waiting' = FALSE
        /\ owes' = [owes EXCEPT ![b] = /\ resumes[b] /\ s # "cancelled"
                                       /\ IF s = "failed" THEN reported /\ ~ spoilt ELSE counted[b]]
        /\ place' = [Notified EXCEPT ![b] = IF resumes[b] THEN "calling" ELSE "ended"]
        /\ left' = [left EXCEPT ![b] = 0]
        /\ counted' = [counted EXCEPT ![b] = FALSE]
        /\ resumes' = [resumes EXCEPT ![b] = FALSE]
        /\ UNCHANGED <<shutdown, phase, paused, reported, batch, jobs, todo, worker,
                       application>>
  BY DEF Settle
<1>2. s \in Terminal /\ place[b] \in {"finishing", "failing", "cancelling"}
  BY <1>1 DEF Outcome, Terminal
<1>3. b = batch
  BY <1>2 DEF IInv, HeldBatch, Importing
<1>4. TypeOK'
  <2>1. ControllerTyped'
    BY <1>1, <1>2 DEF IInv, TypeOK, ControllerTyped
  <2>2. owes' \in [Batches -> BOOLEAN]
    <3>1. (/\ resumes[b] /\ s # "cancelled"
           /\ IF s = "failed" THEN reported /\ ~ spoilt ELSE counted[b]) \in BOOLEAN
      BY Zenon
    <3> HIDE <1>2, <1>3
    <3> QED BY <1>1, <3>1, Zenon DEF IInv, TypeOK, ThreadsTyped
  <2>3. place' \in [Batches -> {"none", "gate", "asleep", "woken", "working", "reporting",
                                "finishing", "failing", "cancelling", "calling", "ended"}]
    BY <1>1 DEF IInv, TypeOK, ThreadsTyped, Notified
  <2>4. /\ left' \in [Batches -> 0..Entries]
        /\ counted' \in [Batches -> BOOLEAN] /\ resumes' \in [Batches -> BOOLEAN]
    BY <1>1, BatchAssumption DEF IInv, TypeOK, ThreadsTyped
  <2> QED BY <1>1, <2>1, <2>2, <2>3, <2>4, WorkersKept DEF TypeOK, ThreadsTyped
<1>5. WorkLeft' /\ HeldBatch' /\ SleepsForAPause'
  BY <1>1, <1>2, <1>3 DEF IInv, TypeOK, ThreadsTyped, WorkLeft, HeldBatch, SleepsForAPause,
                          Importing, Notified
<1>6. PauseStands' /\ PauseIsShown'
  BY <1>1, <1>2 DEF PauseStands, PauseIsShown, Terminal
<1> QED BY <1>4, <1>5, <1>6 DEF IInv

LEMMA CallBackIInv ==
    ASSUME IInv, NEW b \in Batches, CallBack(b)
    PROVE  IInv'
<1> USE DEF CallBack, CallingKeeps, At, controller
<1>1. TypeOK'
  <2>1. ControllerTyped'
    BY DEF IInv, TypeOK, ControllerTyped
  <2>2. ThreadsTyped'
    BY DEF IInv, TypeOK, ThreadsTyped
  <2>3. WorkersTyped'
    BY DEF IInv, TypeOK, WorkersTyped, ResumeWorker, application
  <2> QED BY <2>1, <2>2, <2>3 DEF TypeOK
<1>2. WorkLeft' /\ HeldBatch' /\ SleepsForAPause'
  BY DEF IInv, TypeOK, ThreadsTyped, WorkLeft, HeldBatch, SleepsForAPause, Importing
<1>3. PauseStands' /\ PauseIsShown'
  BY DEF IInv, TypeOK, ThreadsTyped, PauseStands, PauseIsShown
<1> QED BY <1>1, <1>2, <1>3 DEF IInv

LEMMA StartIInv ==
    ASSUME IInv, NEW c \in Clients, Start(c)
    PROVE  IInv'
<1>1. WorkersTyped'
  <2>1. todo' \in [Clients -> {"none", "plain", "authorized"}]
    BY DEF IInv, TypeOK, WorkersTyped, Start, Becomes
  <2>2. UNCHANGED <<jobs, loop, resting, stop, asked, taken, ready, host>>
    BY DEF Start, worker, application
  <2> QED BY <2>1, <2>2 DEF IInv, TypeOK, WorkersTyped
<1>2. CASE UNCHANGED <<controller, threads>>
  BY <1>1, <1>2, OthersKeepIInv
<1>3. CASE ~ active /\ NewBatch(batch + 1, todo[c] = "authorized")
  <2> USE BatchAssumption DEF NewBatch, At
  <2>1. batch + 1 \in Batches /\ batch' = batch + 1
    BY <1>3
  <2>2. \A b \in Batches : ~ Importing(b)
    BY <1>3 DEF IInv, HeldBatch
  <2>3. TypeOK'
    <3>1. ControllerTyped'
      BY <1>3, <2>1 DEF IInv, TypeOK, ControllerTyped
    <3>2. ThreadsTyped'
      BY <1>3, <2>1 DEF IInv, TypeOK, ThreadsTyped
    <3> QED BY <1>1, <3>1, <3>2 DEF TypeOK
  <2>4. WorkLeft'
    BY <1>3, <2>1 DEF IInv, TypeOK, ThreadsTyped, WorkLeft
  <2>5. HeldBatch'
    BY <1>3, <2>1, <2>2 DEF IInv, TypeOK, ControllerTyped, ThreadsTyped, HeldBatch, Importing,
                            Batches
  <2>6. SleepsForAPause'
    BY <1>3, <2>1, <2>2 DEF IInv, TypeOK, ThreadsTyped, SleepsForAPause, Importing
  <2>7. PauseStands' /\ PauseIsShown'
    BY <1>3 DEF PauseStands, PauseIsShown
  <2> QED BY <2>3, <2>4, <2>5, <2>6, <2>7 DEF IInv
<1> QED BY <1>2, <1>3 DEF Start

LEMMA PauseIInv == ASSUME IInv, Pause PROVE IInv'
<1> USE DEF Pause, threads
<1>1. TypeOK'
  <2>1. ControllerTyped' /\ ThreadsTyped'
    BY DEF IInv, TypeOK, ControllerTyped, ThreadsTyped
  <2> QED BY <2>1, WorkersKept DEF TypeOK
<1>2. WorkLeft' /\ HeldBatch' /\ SleepsForAPause'
  BY DEF IInv, WorkLeft, HeldBatch, SleepsForAPause, Importing
<1>3. PauseStands' /\ PauseIsShown'
  BY DEF IInv, HeldBatch, PauseStands, PauseIsShown
<1> QED BY <1>1, <1>2, <1>3 DEF IInv

LEMMA ResumeIInv == ASSUME IInv, Resume PROVE IInv'
<1> USE DEF Resume, Notified
<1>1. TypeOK'
  <2>1. ControllerTyped' /\ ThreadsTyped'
    BY DEF IInv, TypeOK, ControllerTyped, ThreadsTyped
  <2> QED BY <2>1, WorkersKept DEF TypeOK
<1>2. WorkLeft' /\ HeldBatch' /\ SleepsForAPause'
  BY DEF IInv, TypeOK, ThreadsTyped, WorkLeft, HeldBatch, SleepsForAPause, Importing
<1>3. PauseStands' /\ PauseIsShown'
  BY DEF IInv, TypeOK, ControllerTyped, PauseStands, PauseIsShown
<1> QED BY <1>1, <1>2, <1>3 DEF IInv

LEMMA StopImportsIInv == ASSUME IInv, StopImports PROVE IInv'
<1> USE DEF StopImports, Notified
<1>1. TypeOK'
  <2>1. ControllerTyped' /\ ThreadsTyped'
    BY DEF IInv, TypeOK, ControllerTyped, ThreadsTyped
  <2>2. WorkersTyped'
    BY DEF IInv, TypeOK, WorkersTyped, worker
  <2> QED BY <2>1, <2>2 DEF TypeOK
<1>2. WorkLeft' /\ HeldBatch' /\ SleepsForAPause'
  BY DEF IInv, TypeOK, ThreadsTyped, WorkLeft, HeldBatch, SleepsForAPause, Importing
<1>3. PauseStands' /\ PauseIsShown'
  BY DEF IInv, TypeOK, ThreadsTyped, PauseStands, PauseIsShown
<1> QED BY <1>1, <1>2, <1>3 DEF IInv

LEMMA NextIInv == IInv /\ [Next]_vars => IInv'
<1> SUFFICES ASSUME IInv, [Next]_vars PROVE IInv'
  OBVIOUS
<1>1. ASSUME NEW b \in Batches, BatchStep(b) PROVE IInv'
  BY <1>1, PermissionIInv, WorkIInv, ReportIInv, SettleIInv, CallBackIInv DEF BatchStep
<1>2. ASSUME ClientStep PROVE IInv'
  <2>1. ASSUME NEW c \in Clients, CheckStart(c) PROVE IInv'
    <3>1. WorkersTyped'
      BY <2>1 DEF IInv, TypeOK, WorkersTyped, CheckStart, Becomes,
             worker, application
    <3> QED BY <2>1, <3>1, OthersKeepIInv DEF CheckStart
  <2>2. CASE TellWorker
    <3>1. WorkersTyped'
      BY <2>2 DEF IInv, TypeOK, WorkersTyped, TellWorker, ResumeWorker, application
    <3> QED BY <2>2, <3>1, OthersKeepIInv DEF TellWorker
  <2>3. CASE HealthCheck
    <3>1. WorkersTyped'
      BY <2>3 DEF IInv, TypeOK, WorkersTyped, HealthCheck, worker
    <3> QED BY <2>3, <3>1, OthersKeepIInv DEF HealthCheck
  <2> QED BY <1>2, <2>1, <2>2, <2>3, StartIInv, PauseIInv, ResumeIInv DEF ClientStep
<1>3. ASSUME WorkerStep PROVE IInv'
  <2>1. WorkersTyped'
    BY <1>3, BatchAssumption DEF IInv, TypeOK, WorkersTyped, WorkerStep, Top, Tick, TickDone,
           LoopKeeps, application
  <2> QED BY <1>3, <2>1, OthersKeepIInv DEF WorkerStep, Top, Tick, TickDone, LoopKeeps
<1>4. ASSUME HostStep PROVE IInv'
  <2>1. ASSUME BeginShutdown \/ StopWorker \/ CloseRuntime PROVE IInv'
    <3>1. WorkersTyped'
      BY <2>1 DEF IInv, TypeOK, WorkersTyped, BeginShutdown, StopWorker, CloseRuntime, worker
    <3> QED BY <2>1, <3>1, OthersKeepIInv DEF BeginShutdown, StopWorker, CloseRuntime
  <2> QED BY <1>4, <2>1, StopImportsIInv DEF HostStep
<1>5. CASE UNCHANGED vars
  <2>1. WorkersTyped'
    BY <1>5 DEF IInv, TypeOK, WorkersTyped, vars, worker, application
  <2> QED BY <1>5, <2>1, OthersKeepIInv DEF vars
<1> QED BY <1>1, <1>2, <1>3, <1>4, <1>5 DEF Next

LEMMA Invariance == Spec => []IInv
BY InitIInv, NextIInv, PTL DEF Spec

--------------------------------------------------------------------------------
\* The fields of the controller, of the threads and of the worker keep their types.
THEOREM TypeCorrect == Spec => []TypeOK
<1>1. IInv => TypeOK
  BY DEF IInv
<1> QED BY <1>1, Invariance, PTL

\* Never are two batches at work on the library (ImportController.start).
THEOREM OneBatch == Spec => []OneBatchRuns
<1>1. IInv => OneBatchRuns
  BY DEF IInv, HeldBatch, OneBatchRuns
<1> QED BY <1>1, Invariance, PTL

\* What the snapshot shows of a pause is what the batch thread does (pause, resume,
\* _on_progress and _wait_for_permission).
THEOREM PauseShown == Spec => []PauseIsShown
<1>1. IInv => PauseIsShown
  BY DEF IInv
<1> QED BY <1>1, Invariance, PTL

\* No batch thread is left asleep without a pause to end (resume, shutdown, start).
THEOREM NoLostResume == Spec => []SleepsForAPause
<1>1. IInv => SleepsForAPause
  BY DEF IInv
<1> QED BY <1>1, Invariance, PTL

\* No file is begun during a pause or after a shutdown (_wait_for_permission).
THEOREM PauseHolds == Spec => NoWorkWhilePaused
<1> DEFINE Begun == \A b \in Batches :
                      place[b] # "working" /\ place'[b] = "working" => ~ paused /\ ~ shutdown
<1>1. IInv /\ [Next]_vars => [Begun]_vars
  <2> SUFFICES ASSUME IInv, Next, NEW b \in Batches,
                      place[b] # "working", place'[b] = "working"
               PROVE  ~ paused /\ ~ shutdown
    OBVIOUS
  <2>1. ASSUME NEW a \in Batches, BatchStep(a) PROVE ~ paused /\ ~ shutdown
    <3>1. CASE Permission(a)
      BY <3>1 DEF IInv, TypeOK, ThreadsTyped, Permission, Sleep, GoOn, At
    <3>2. CASE Work(a) \/ Report(a) \/ CallBack(a)
      BY <3>2 DEF IInv, TypeOK, ThreadsTyped, Work, Report, Onward, CallBack, At
    <3>3. CASE Settle(a)
      BY <3>3 DEF IInv, TypeOK, ThreadsTyped, Settle, Notified
    <3> QED BY <2>1, <3>1, <3>2, <3>3 DEF BatchStep
  <2>2. ASSUME ClientStep PROVE ~ paused /\ ~ shutdown
    BY <2>2 DEF IInv, TypeOK, ThreadsTyped, ClientStep, CheckStart, Start, NewBatch, At, Pause,
                Resume, Notified, TellWorker, HealthCheck, threads
  <2>3. ASSUME WorkerStep \/ HostStep PROVE ~ paused /\ ~ shutdown
    BY <2>3 DEF IInv, TypeOK, ThreadsTyped, WorkerStep, Top, Tick, TickDone, LoopKeeps, HostStep,
                BeginShutdown, StopImports, StopWorker, CloseRuntime, Notified, threads
  <2> QED BY <2>1, <2>2, <2>3 DEF Next
<1> QED BY <1>1, Invariance, PTL DEF Spec, NoWorkWhilePaused

================================================================================
