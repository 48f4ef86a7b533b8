------------------------------ MODULE ImportBatch ------------------------------
(* The threads around an import: the Import Controller and its batch thread     *)
(* (import_controller.py), the command that starts a batch and the callback     *)
(* that resumes the worker (app_commands.py), the worker loop (app_runtime.py)  *)
(* and the application's ordered shutdown (webapp.py, local_app_host.py).       *)
(*                                                                              *)
(* A step is one critical section.  What a batch does to the library is not     *)
(* modelled here, only whether it queues jobs.                                  *)
EXTENDS Naturals

CONSTANTS Clients,    \* threads of the web server that may start a batch
          MaxBatches, \* batches started in the life of the process (bound)
          Entries     \* how often a batch may ask for permission (bound): once while
                      \* scanning, then before each file

ASSUME BatchAssumption ==
    MaxBatches \in Nat \ {0} /\ Entries \in Nat \ {0}

Batches == 1..MaxBatches

VARIABLES active, shutdown, status, phase, paused, waiting,  \* fields of the controller
          reported,  \* whether the progress it holds counts created jobs
          batch,     \* the batch it holds, or 0
          place,     \* where the thread of each batch is
          left,      \* permissions it still has to ask for
          counted,   \* whether the batch has counted created jobs
          resumes,   \* whether it was started with the callback that resumes the worker
          owes,      \* whether that callback found a reason to
          jobs,      \* batches with jobs in the queue
          todo,      \* what each web thread is about to start
          loop, resting, stop,  \* the worker loop, its pause flag and its stop event
          taken,     \* batches all of whose queued jobs the tick works on
          asked,     \* the last word to the worker was a user's pause
          ready,     \* the runtime is authorized for indexing
          host       \* how far the host has come in stopping the application

controller == <<active, shutdown, status, phase, paused, waiting, reported, batch>>
threads == <<place, left, counted, resumes, owes>>
worker == <<loop, resting, stop, taken, asked>>
application == <<ready, host>>
vars == <<controller, threads, jobs, todo, worker, application>>

\* "completed" stands for "completed_with_errors", too.
Terminal == {"completed", "failed", "cancelled"}

ControllerTyped ==
    /\ active \in BOOLEAN /\ shutdown \in BOOLEAN /\ paused \in BOOLEAN
    /\ waiting \in BOOLEAN /\ reported \in BOOLEAN
    /\ phase \in {"scanning", "importing"}
    /\ status \in {"idle", "scanning", "importing", "pausing", "paused"} \union Terminal
    /\ batch \in Batches \union {0}

ThreadsTyped ==
    /\ place \in [Batches -> {"none", "gate", "asleep", "woken", "working", "reporting",
                              "finishing", "failing", "cancelling", "calling", "ended"}]
    /\ left \in [Batches -> 0..Entries]
    /\ counted \in [Batches -> BOOLEAN]
    /\ resumes \in [Batches -> BOOLEAN]
    /\ owes \in [Batches -> BOOLEAN]

WorkersTyped ==
    /\ jobs \subseteq Batches
    /\ todo \in [Clients -> {"none", "plain", "authorized"}]
    /\ loop \in {"top", "ticking", "indexing", "over"}
    /\ resting \in BOOLEAN /\ stop \in BOOLEAN /\ asked \in BOOLEAN
    /\ taken \subseteq jobs
    /\ ready \in BOOLEAN
    /\ host \in {"up", "refusing", "joining", "halting", "down"}

TypeOK == ControllerTyped /\ ThreadsTyped /\ WorkersTyped

--------------------------------------------------------------------------------
(* The batch thread *)

At(b, p) == place' = [place EXCEPT ![b] = p]

\* notify_all, or nothing when no thread is in wait().
Notified == [b \in Batches |-> IF place[b] = "asleep" THEN "woken" ELSE place[b]]

Asks(b) == place[b] \in {"gate", "woken"}
Sleep(b) == waiting' = TRUE /\ status' = "paused" /\ At(b, "asleep")
GoOn(b) ==
    /\ waiting' = FALSE /\ UNCHANGED status
    /\ At(b, IF shutdown THEN "cancelling" ELSE "working")
AskingKeeps == UNCHANGED <<active, shutdown, phase, paused, reported, batch, left, counted,
                           resumes, owes, jobs, todo, worker, application>>

\* Mutant: the wait does not look at the shutdown flag.
PermissionUnheeded(b) ==
    Asks(b) /\ (IF paused THEN Sleep(b) ELSE GoOn(b)) /\ AskingKeeps

\* Mutant: `if` instead of `while`, so that a woken thread does not look again.
PermissionOnce(b) ==
    /\ Asks(b)
    /\ IF place[b] = "gate" /\ paused /\ ~ shutdown THEN Sleep(b) ELSE GoOn(b)
    /\ AskingKeeps

\* _wait_for_permission, from its start or from the return of wait().
Permission(b) ==
    Asks(b) /\ (IF paused /\ ~ shutdown THEN Sleep(b) ELSE GoOn(b)) /\ AskingKeeps

\* One directory entry, or one file, which may queue jobs.  A batch that fails in
\* the middle of a file may have queued jobs that it never counts.
Work(b) ==
    /\ place[b] = "working"
    /\ \/ UNCHANGED <<jobs, taken, counted>> /\ \E p \in {"reporting", "failing"} : At(b, p)
       \/ /\ left[b] < Entries
          /\ jobs' = jobs \union {b} /\ taken' = taken \ {b}
          /\ \/ counted' = [counted EXCEPT ![b] = TRUE] /\ At(b, "reporting")
             \/ UNCHANGED counted /\ At(b, "failing")
    /\ left' = [left EXCEPT ![b] = @ - 1]
    /\ UNCHANGED <<controller, resumes, owes, todo, loop, resting, stop, asked,
                   application>>

\* Mutant: the loop over the files takes one turn too many.
OnwardPastEnd(b) == At(b, IF left[b] < 0 THEN "finishing" ELSE "gate")

Onward(b) == At(b, IF left[b] = 0 THEN "finishing" ELSE "gate")
Stage(b) == IF left[b] = Entries - 1 THEN "scanning" ELSE "importing"
ReportKeeps == UNCHANGED <<active, shutdown, paused, waiting, batch, left, counted, resumes,
                           owes, jobs, todo, worker, application>>

\* Mutant: progress overwrites the status of a pause.
ReportOverPause(b) ==
    /\ place[b] = "reporting"
    /\ phase' = Stage(b) /\ status' = Stage(b) /\ reported' = counted[b]
    /\ Onward(b) /\ ReportKeeps

\* _on_progress.
Report(b) ==
    /\ place[b] = "reporting"
    /\ IF active
       THEN /\ phase' = Stage(b)
            /\ status' = IF status \in {"pausing", "paused"} THEN status ELSE Stage(b)
            /\ reported' = counted[b]
       ELSE UNCHANGED <<phase, status, reported>>
    /\ Onward(b) /\ ReportKeeps

Outcome(b) ==
    CASE place[b] = "finishing" -> {"completed"}
      [] place[b] = "failing" -> {"failed"}
      [] place[b] = "cancelling" -> {"cancelled"}
      [] OTHER -> {}

\* _settle_terminal: an error counts the jobs of the last progress, and no more, and
\* none if a failure of the scan has spoilt the partial result (PartialResultKept of
\* ImportSources).  The thread's own counters are gone with it.
Settle(b) ==
    \E s \in Outcome(b), spoilt \in BOOLEAN :
        /\ status' = s /\ active' = FALSE /\ waiting' = FALSE
        /\ owes' = [owes EXCEPT ![b] = /\ resumes[b] /\ s # "cancelled"
                                       /\ IF s = "failed" THEN reported /\ ~ spoilt ELSE counted[b]]
        /\ place' = [Notified EXCEPT ![b] = IF resumes[b] THEN "calling" ELSE "ended"]
        /\ left' = [left EXCEPT ![b] = 0]
        /\ counted' = [counted EXCEPT ![b] = FALSE]
        /\ resumes' = [resumes EXCEPT ![b] = FALSE]
        /\ UNCHANGED <<shutdown, phase, paused, reported, batch, jobs, todo, worker,
                       application>>

\* The event that ends the loop's wait is left out: the wait has a time-out, so
\* that the event, set or lost, only makes it shorter.
ResumeWorker == resting' = FALSE /\ asked' = FALSE
CallingKeeps == UNCHANGED <<controller, left, counted, resumes, owes, jobs, todo, loop, stop,
                            taken, application>>

\* Mutant: only a batch that completed resumes the worker.
CallBackOnSuccess(b) ==
    /\ place[b] = "calling" /\ At(b, "ended")
    /\ IF owes[b] /\ status = "completed" THEN ResumeWorker ELSE UNCHANGED <<resting, asked>>
    /\ CallingKeeps

\* _resume_after_import; the controller may hold the next batch by now.
CallBack(b) ==
    /\ place[b] = "calling" /\ At(b, "ended")
    /\ IF owes[b] THEN ResumeWorker ELSE UNCHANGED <<resting, asked>>
    /\ CallingKeeps

--------------------------------------------------------------------------------
(* Commands *)

\* A request that was let in before the application stopped may be carried out
\* after it; the process ends when the host is down.
Serving == host # "down"

Becomes(c, start) == todo' = [todo EXCEPT ![c] = start]

\* start_import_batch up to the controller's start: no batch is running, and the
\* runtime is ready if the policy is "required".
CheckStart(c) ==
    /\ Serving /\ todo[c] = "none" /\ ~ active
    /\ \E policy \in {"never", "required", "if-ready"} :
          /\ policy = "required" => ready
          /\ Becomes(c, IF policy # "never" /\ ready THEN "authorized" ELSE "plain")
    /\ UNCHANGED <<controller, threads, jobs, worker, application>>

NewBatch(b, callback) ==
    /\ b \in Batches /\ batch' = b
    /\ active' = TRUE /\ status' = "scanning" /\ phase' = "scanning"
    /\ paused' = FALSE /\ waiting' = FALSE /\ reported' = FALSE
    /\ At(b, "gate")
    /\ left' = [left EXCEPT ![b] = Entries]
    /\ resumes' = [resumes EXCEPT ![b] = callback]
    /\ UNCHANGED <<shutdown, counted, owes>>

\* Mutant: the controller trusts the look that start_import_batch took.
StartUnchecked(c) ==
    /\ Serving /\ todo[c] # "none" /\ Becomes(c, "none")
    /\ \/ shutdown /\ UNCHANGED <<controller, threads>>
       \/ ~ shutdown /\ NewBatch(batch + 1, todo[c] = "authorized")
    /\ UNCHANGED <<jobs, worker, application>>

\* The controller's start, refused after a shutdown and while a batch is running.
Start(c) ==
    /\ Serving /\ todo[c] # "none" /\ Becomes(c, "none")
    /\ \/ (shutdown \/ active) /\ UNCHANGED <<controller, threads>>
       \/ ~ shutdown /\ ~ active /\ NewBatch(batch + 1, todo[c] = "authorized")
    /\ UNCHANGED <<jobs, worker, application>>

Pause ==
    /\ Serving /\ active /\ ~ paused
    /\ paused' = TRUE /\ status' = "pausing"
    /\ UNCHANGED <<active, shutdown, phase, waiting, reported, batch, threads, jobs, todo,
                   worker, application>>

\* Mutant: a resume does not notify the thread that sleeps.
ResumeUnheard ==
    /\ Serving /\ active
    /\ paused' = FALSE /\ waiting' = FALSE /\ status' = phase
    /\ UNCHANGED <<active, shutdown, phase, reported, batch, threads, jobs, todo, worker,
                   application>>

Resume ==
    /\ Serving /\ active
    /\ paused' = FALSE /\ waiting' = FALSE /\ status' = phase /\ place' = Notified
    /\ UNCHANGED <<active, shutdown, phase, reported, batch, left, counted, resumes, owes,
                   jobs, todo, worker, application>>

\* The worker is paused or resumed by a user, or resumed after a rebuild.
TellWorker ==
    /\ Serving
    /\ ResumeWorker \/ (resting' = TRUE /\ asked' = TRUE)
    /\ UNCHANGED <<controller, threads, jobs, todo, loop, stop, taken, application>>

\* The session's health check succeeds or fails; a closed runtime stays closed.
HealthCheck ==
    /\ Serving /\ ready' \in BOOLEAN
    /\ UNCHANGED <<controller, threads, jobs, todo, worker, host>>

--------------------------------------------------------------------------------
(* The worker loop *)

LoopKeeps == UNCHANGED <<controller, threads, todo, resting, stop, asked, application>>

\* The head of the loop.  A worker at rest stays here, in its wait.
Top ==
    /\ loop = "top" /\ (stop \/ ~ resting)
    /\ loop' = IF stop THEN "over" ELSE "ticking"
    /\ UNCHANGED <<jobs, taken>> /\ LoopKeeps

\* run_pending_jobs takes the jobs that are queued.  It raises when the runtime is
\* not ready, and the loop goes on.
Tick ==
    /\ loop = "ticking"
    /\ IF ready THEN taken' = jobs /\ loop' = "indexing" ELSE loop' = "top" /\ UNCHANGED taken
    /\ UNCHANGED jobs /\ LoopKeeps

TickDone ==
    /\ loop = "indexing" /\ loop' = "top"
    /\ jobs' = jobs \ taken /\ taken' = {}
    /\ LoopKeeps

--------------------------------------------------------------------------------
(* LocalAppHost.stop and LocalWebApp.shutdown *)

BeginShutdown ==
    /\ host = "up" /\ host' = "refusing"
    /\ UNCHANGED <<controller, threads, jobs, todo, worker, ready>>

\* ImportController.shutdown up to its join.
StopImports ==
    /\ host = "refusing" /\ host' = "joining"
    /\ shutdown' = TRUE /\ paused' = FALSE /\ place' = Notified
    /\ UNCHANGED <<active, status, phase, waiting, reported, batch, left, counted, resumes,
                   owes, jobs, todo, worker, ready>>

\* The join has a time-out, so it may end before the batch thread does.
StopWorker ==
    /\ host = "joining" /\ host' = "halting"
    /\ stop' = TRUE
    /\ UNCHANGED <<controller, threads, jobs, todo, loop, resting, taken, asked, ready>>

CloseRuntime ==
    /\ host = "halting" /\ host' = "down"
    /\ ready' = FALSE
    /\ UNCHANGED <<controller, threads, jobs, todo, worker>>

--------------------------------------------------------------------------------
Init ==
    /\ active = FALSE /\ shutdown = FALSE /\ status = "idle" /\ phase = "scanning"
    /\ paused = FALSE /\ waiting = FALSE /\ reported = FALSE /\ batch = 0
    /\ place = [b \in Batches |-> "none"]
    /\ left = [b \in Batches |-> 0]
    /\ counted = [b \in Batches |-> FALSE]
    /\ resumes = [b \in Batches |-> FALSE]
    /\ owes = [b \in Batches |-> FALSE]
    /\ jobs = {} /\ todo = [c \in Clients |-> "none"]
    /\ loop = "top" /\ resting = TRUE /\ stop = FALSE
    /\ taken = {} /\ asked = FALSE
    /\ ready = FALSE /\ host = "up"

BatchStep(b) == Permission(b) \/ Work(b) \/ Report(b) \/ Settle(b) \/ CallBack(b)

ClientStep ==
    \/ \E c \in Clients : CheckStart(c) \/ Start(c)
    \/ Pause \/ Resume \/ TellWorker \/ HealthCheck

WorkerStep == Top \/ Tick \/ TickDone

HostStep == BeginShutdown \/ StopImports \/ StopWorker \/ CloseRuntime

Next ==
    \/ \E b \in Batches : BatchStep(b)
    \/ ClientStep
    \/ WorkerStep
    \/ HostStep

\* Started threads go on: a file, a scan and a tick end.  Nobody has to give a
\* command or to stop the application; what is being stopped is stopped.
Fairness ==
    /\ \A b \in Batches : WF_vars(BatchStep(b))
    /\ WF_vars(WorkerStep)
    /\ WF_vars(StopImports) /\ WF_vars(StopWorker) /\ WF_vars(CloseRuntime)

Spec == Init /\ [][Next]_vars
FairSpec == Spec /\ Fairness

--------------------------------------------------------------------------------
(* Properties *)

Importing(b) == place[b] \notin {"none", "calling", "ended"}

\* One batch at a time is at work on the library, though two requests may both
\* find the controller idle, and the last batch's callback may still be running.
OneBatchRuns ==
    \A b, c \in Batches : Importing(b) /\ Importing(c) => b = c

\* From a pause on, and after a shutdown, no further file is begun, however often
\* pause and resume alternate while the thread is asleep.
NoWorkWhilePaused ==
    [][\A b \in Batches :
          place[b] # "working" /\ place'[b] = "working" => ~ paused /\ ~ shutdown]_vars

\* What the snapshot says of a pause is what the thread does: a requested pause
\* stays visible through progress reports, and "paused" means that it sleeps.
PauseIsShown ==
    /\ active /\ paused => status \in {"pausing", "paused"}
    /\ waiting => place[batch] \in {"asleep", "woken"} /\ status \in {"pausing", "paused"}
    /\ status = "paused" => place[batch] \in {"asleep", "woken", "cancelling"}

\* A batch thread sleeps only for a pause that stands: a resume, a shutdown and the
\* next start never leave one behind that nobody will wake.
SleepsForAPause ==
    \A b \in Batches : place[b] = "asleep" => paused /\ ~ shutdown

\* A shutdown ends every batch, also one that is paused, and one that an admitted
\* request pauses after it.
ShutdownEndsBatches ==
    \A b \in Batches : shutdown ~> ~ Importing(b)

\* Jobs that an authorized batch has queued are taken up without another command,
\* whether it completed, had errors or failed, unless a user pauses the worker, the
\* application stops or the runtime loses its authorization.
ImportedIsIndexed ==
    \A b \in Batches :
        owes[b] ~> b \notin jobs \/ asked \/ stop \/ ~ ready

================================================================================
