# MemeSort: a TLA+ model of the library, its indexing and its inference queue

This directory holds TLA+ modules for the Python core of MemeSort
(`src/memesort_worker`), the TLC configurations that check them on small
instances, and TLAPS proofs. It is written for somebody who has the repository
open next to it. The status of each part of the system, the hazards the properties
are for, the mutants that show each property can fail, and the source lines of
every definition are in `PROJECT.json`.

## 1. The system

| component | state it keeps | operations | talks to |
|---|---|---|---|
| inference scheduler (`inference_service.py`) | two queues, the running item, cancelled ids, one condition variable | submit, cancel, finish_request | called by every thread that wants a vector |
| job queue (`job_queue.py`) | the `job` table | enqueue, prepare, fetch, claim, complete, fail, retry | used by imports, activation, commands and the indexing run |
| indexing run (`indexing_pipeline.py`, `indexing_store.py`) | fetched jobs, an open connection with uncommitted rows | run_pending_jobs and the work of a thumbnail, embedding or OCR job | worker loop above, scheduler below, database |
| recipe activation (`asset_catalog.py`) | active recipe, activation record | part of `initialize_library` | drops vectors and embedding jobs, queues new ones |
| OCR artifacts (`ocr_artifacts.py`) | `ocr_result`, full-text table | schedule missing jobs, run, store, search | job queue |
| asset commands (`asset_catalog.py`) | `asset`, `source_record`, `rendition`, `accepted_duplicate_pair` | import, delete, remove source, rebuild, retry, dismiss, accept pair | database, `originals/`, `thumbnails/` |
| import sources (`asset_catalog.py`, `import_contracts.py`) | validated sources, scan work, open directory guards, candidates, counters | validate, merge, scan, count, result and its contract | disk, progress of the controller |
| import transaction (`asset_catalog.py`) | `.tmp`, `.pending` and final files, the set of active import files | candidate loop, error recovery, cleaning at initialization | database, file system |
| import batch (`import_controller.py`, `app_commands.py`) | status, pause and shutdown flags, the batch thread | start, pause, resume, shutdown, terminal callback | runs the import, wakes the worker loop |
| worker loop (`app_runtime.py`) | pause flag, stop and wake events | resume, pause, trigger, shutdown, tick | runs the indexing run every two seconds |
| pinned runtime, llama-server (`pinned_runtime.py`, `llama_cpp_backend.py`) | reference count, session health, child process, idle timer | acquire, authorize, request, idle unload, close | scheduler, operating system |
| local host, sidecar, web app (`local_app_host.py`, `sidecar_entry.py`, `webapp.py`) | host state, server thread, stopping flag | start, ordered stop, dispatch | all of the above |
| retrieval (`retrieval_service.py`, `semantic_retrieval.py`) | none | text and image search, fusion of ranked lists | scheduler, read models |
| desktop shell (Rust), front end (TypeScript) | sidecar handle, one-time selections, search state | start and stop the sidecar, forward requests, show results | web API |

What is hard here: threads that share one backend and may be cancelled at any
moment; a queue on disk that outlives a killed process and can be served by two
processes at once; commands that interleave with a running job between two of
its commits; files and rows that are not changed together; an import that must
survive errors reported for commits that happened; a disk that others change during a
scan; a server process with timers, retries and late users; shutdown while all of that
goes on.

What makes each part correct, in the words of its properties: the scheduler is a lock
that prefers searches and never serves a cancelled request; the job table, as long
as a worker is let on, lets no job wait that has fewer older ones in its way than a run
takes, never runs a deleted one, and derived rows are neither doubled nor mixed nor left
behind; an import keeps one asset per content, a source for every asset and a
marker on every stray copy; a scan finds each file once and nothing behind a link; a
batch holds to its pauses and ends in a shutdown; an engine is shared by those who have
it open, and no llama-server is taken from a request or left running unused.

## 2. The modules

| module | models | notes |
|---|---|---|
| `SerialInference` | what the scheduler promises: a lock with two priorities and withdrawal | abstract specification |
| `InferenceScheduler` | `inference_service.py` | refines `SerialInference` |
| `InferenceSchedulerProofs` | theorems about it | TLAPS |
| `LlamaServer` | `llama_cpp_backend.py`: requests, retry, idle timer, close | used by `PinnedRuntime` |
| `PinnedRuntime` | `pinned_runtime.py`, `embedding_backend.py`: runtimes, their engines and late users | composes `LlamaServer`; takes the scheduler as `SerialInference` promises it |
| `PinnedRuntimeProofs` | its safety, for any numbers of threads, servers and runtimes | TLAPS |
| `ImportBatch` | `import_controller.py`, `start_import_batch`, the worker loop, the host's stop | |
| `ImportBatchProofs` | its safety, for any number of clients and batches | TLAPS |
| `ImportSources` (`MCImportSources`) | `import_sources`: validation, merging, guarded scan, counters, contract of the result | |
| `ImportSourcesProofs` | its safety, for any tree of paths and any selection of sources | TLAPS |
| `Indexing` (`MCIndexing`) | job table, indexing run, recipe activation, OCR scheduling, asset commands, crashes, two processes | |
| `IndexingProofs` | its safety, for any sets of processes, assets and jobs | TLAPS |
| `NothingForgottenProofs` | that no asset is forgotten, for the same | TLAPS |
| `LibraryCopies` (`MCLibraryCopies`) | `originals/`, `asset` and `source_record`: import of a candidate, cleaning, deletion | |
| `LibraryCopiesProofs` | its safety, for any sets of candidates, contents and threads | TLAPS |

The modules meet where the components do. `PinnedRuntime` and `LlamaServer` are one
system. `ImportBatch` has the thread whose work on the disk is `ImportSources` and whose
work on the library is `LibraryCopies`, and it decides when the loop of `Indexing` runs;
each of these takes the others as what their properties promise.

### InferenceScheduler

`searchQueue`, `backgroundQueue`, `running` and `cancelledIds` are the fields of
the class, `cancelled` is the flag of each thread's item and `requestId` the id of the
search scope it is in. `pc` says where a thread is: `out` of a scope, `ready` to submit,
`waiting` inside `wait()`, `woken` by a `notify_all` (`AllWoken`) and about to look again,
`operating`, `returned` from the operation, `leaving` by an exception. One action is one
critical section: `Submit` enqueues, notifies and evaluates the loop for the first time;
`SubmitRefused` is its early exit; `Wake` and `WakeCancelled` are one turn of the loop
after `wait()`, and only a woken thread takes one; `FinishOperation` is the `finally`;
`Deliver` the last check; `Cancel` may name any id, in use or not. Spurious returns from
`wait()` are not modelled: CPython's `Condition.wait` without a time-out returns when
it was notified. The threads are woken without need all the same, by the `notify_all` of
every submission, every end and every cancelled id. `BeginRequest` and `EndRequest` are
`search_inference_request`, `Recover` is the indexing loop taking up its next job after an
error.

### Indexing

Every action is one transaction, or one stretch of code between two of them.
`status`, `age` and `recipeOf` are columns of `job`; `embeddings`, `ocrText` and
`renditions` the derived rows, `thumbnails` the files; `generation` and `version`
say which recipe is active and which manifest installed it. `staged` is what a
connection has inserted and not committed (SQLite's write lock is held exactly
while it is not empty), `pc`, `batch` and `job` are the position of
`run_pending_jobs`, `command` and `target` that of the command a process executes.
`ready` holds the processes whose worker is resumed and whose runtime is authorized: a
process starts outside of it, `Resume` and `Pause` change it at any time, and only `Open`,
the begin of a run, asks for it (`_run_loop`, and the first lines of `run_pending_jobs`). The
flag is read and the library made ready in one step; a pause that comes between the two is
one that comes just after. `created_at` has a resolution of one second, so that jobs of
different transactions may tie, and the ids that break the tie are random: `Fetch` breaks
it in any way.
A command that reads, decides and then writes is split at its first write
(`RebuildCheck`/`RebuildApply`, `DeleteFiles`/`DeleteRows`), because SQLite takes
the write lock only there. `initialize_library` runs before every run and command
and is one step (`Initialize`): its reads and writes are taken together. A write
that meets the lock waits up to 15 seconds; `ClaimTimesOut`, `Raise` and `EndRun`
are what follows when that is not enough.

### LlamaServer and PinnedRuntime

`process`, `armed`, `fired` and `idle` are the child process of a server, its idle timer,
the callbacks that were too late to be cancelled, and whether the time-out has passed
since `_last_activity`. `pc`, `using` and `attempt` are a thread's place in
`request_embedding`. The process-wide lock and the server's own are held by the threads
that are `starting` or `asking`, so they need no variables. `life` follows a runtime
through its constructor and `close()`, which is four steps: the runtime says that it is
closed, `release()` takes the engine from the manager, the engine forgets its backend, the
server is closed under its lock.
`current` and `references` are the manager's, `backend` is an engine's
`_embedding_backend`. `owner` and `tainted` are ghosts: the engine a server was made for,
and that an attempt of the present request to it has failed. `GetBackend` is apart from
`Look` because a runtime may be closed after it was found open; the engine then makes a
new backend, and a thread that has a backend may use it after `close()`. The model shows
what becomes of that: a late request starts a llama-server again, and it stays until its
idle timer unloads it (`IdleServerUnloads`), although `pinned_runtime.py:7` says that the
last runtime tears the engine down. What `atexit` does to such a server is not modelled.

### ImportSources

A path is a number, its name in the order of names, and `Parent` is the tree: a directory has
a lesser name than what is in it, and a drive's root is its own. `Ancestors` is, for each path,
the least set that has its directory and is closed under `Parent`; it is defined without
recursion so that the proofs can use it. `kind` is what is there now, and `Replace` is
anybody who changes it where no guard is open. `selected` and `valid` are the sources before
and after validation; `queue` is the set of places in `valid` that merging has left and
whose turn has not come, `source` the place whose turn it is. `entries` is a set,
taken in the order of names. `work` is `pending_scan_work`, `open` the directories whose
guard is open; `pc` walks through one directory: looked at (`Inspect`), guarded (`Lock`),
looked at again and listed (`List`), its entries (`Entry`), its children (`Descend`).
`tally` is counted by the import of the candidates, whose outcome is any. `Result` and
`PartialResult` say how many details a result carries, `Accepted` is
`ImportBatchResult.__post_init__`. `touched`, `lost` and `followed` are ghosts that the
properties need: paths that others changed, paths that were skipped or failed, candidates
found through a link. Guards are those of Windows, where an open handle without
`FILE_SHARE_DELETE` keeps a directory from being replaced; on other systems a guard does
nothing, the application is not made for them, and `NothingFollowed` is not claimed.
A link leads out of the tree, to the same names; devices are left out.

### ImportBatch

`active`, `shutdown`, `status`, `phase`, `paused` and `waiting` are the controller's
fields; `reported` is the part of its progress that a failed batch is judged by, `batch`
the batch it holds. `place` says where each batch thread is: at `gate` it is about to call
`_wait_for_permission`, `asleep` it is inside `wait()`, `woken` it has been notified and
looks again (`Permission` is one turn of that loop), then it works on an entry or a file,
reports, and settles. `left` is its own count of entries. A batch that fails or is
cancelled may have lost its partial result (finding 5), so that its callback finds no
reason to resume the worker. `todo` holds a client between the checks of
`start_import_batch` and the start of the controller, which are two critical sections. A
request that was let in before the stop may be carried out after it. `loop`, `resting`,
`stop` and `taken` are the worker: `jobs` holds a batch while jobs of it are queued, and a
tick takes what is there. Indexing itself, its retries and the limit of 20 jobs belong to
`Indexing`. The wake event is not modelled: the loop waits two seconds at most, and a
stop, a resume or a trigger only makes that shorter. `asked` remembers whether the last
word to the worker was a user's pause.

### LibraryCopies

`pc` and `current` are the importer's place in the candidate loop and its
candidate, `temps`, `markers` and `copies` the files it makes, `active` the set
`_ACTIVE_IMPORT_FILES`. Errors are alternatives of the action where they are
raised: a transaction may commit and report an error (`Catalog`), an unlink may
fail (`Unlinked`, limited by the constant `UnlinkMayFail`). The cleaning is split
where another thread can act: reading the catalog, listing the directory, and one
step per listed name. An import of another process is one step that commits. `given` is a
ghost: the copies that some step left without an asset and without a marker although it
knew of them, because it could not unlink them or could not read the catalog.

## 3. What TLC checks

| run | instance | question |
|---|---|---|
| `scheduler` | two searches, two background threads, one request id per search | mutual exclusion, exact queues, no lost wake-up or cancellation, refinement, liveness |
| `runtime` | two runtimes, two threads, two servers | one inference, no server taken from a request, fresh retries, unused servers are unloaded |
| `import_batch` | two clients, two batches, one scan and one file each, with fairness | one batch at a time, pauses that hold and are shown, no thread left asleep, a shutdown ends batches, counted jobs are indexed |
| `import_sources` | a drive of seven paths, two sources, at most two files, two changes by others | nothing found behind a link, every file once, guards closed and results accepted at every end |
| `import_partial` | the same drive, left in peace | violated: a partial result is dropped |
| `indexing` | one process, one still image, all job kinds, two rows per kind, two jobs per run, two starts | duplicates, running marks, leftovers, dismissed jobs, no job that waits for ever |
| `indexing_shared` | two processes, one GIF of two frames, embedding jobs, two manifests | nothing forgotten, no mixed recipes |
| `indexing_partial` | one process, one GIF of two frames | violated: a failed job leaves vectors |
| `indexing_repair` | one library with a damaged text | violated: the repair repeats and repairs nothing |
| `indexing_leftover` | one process, thumbnails | violated: a file survives its asset |
| `copies` | two candidates and a foreign import of one content, two command threads, every file error | one asset per content, a source for every asset, imports keep cataloged copies, what is left behind is marked or was given up knowingly |
| `copies_recovery` | one candidate, one command thread | violated: the cleaning deletes a cataloged copy |

Bounds. `Numbers`, `MaxGenerations`, `MaxStarts` and `MaxClock` of `Indexing` limit how
often a job is queued again, a manifest changes, a process starts and a second passes
between jobs. In `indexing` there are two numbers: an import takes the first and a rebuild
the second, so an asset is rebuilt once, which is enough to race a rebuild with the loop,
and two starts are a kill and a restart. Its `MaxJobs` is 2, fewer than the three jobs of
an import, so that the limit of a run takes effect (the program's is 20); two different
ages and ties are enough to tell jobs that are in the way from those that are not. In
`indexing_shared` two starts are two processes, or one that is killed and started again,
but not both; two manifests are one activation, also in the middle of the other process's
job; and since a number is kept for that activation, an asset is rebuilt only if it was
imported after it. So TLC sees neither the rebuild of a rebuilt asset nor a rebuild with a
later activation, nor a restart next to a second process: the theorems
`FramesAreEmbeddedOnce` and `NoAssetIsForgotten` cover these, for any numbers (section 4).
The other runs of `Indexing` have `MaxJobs` 20, which is above what they can queue, and no
passing of time where order does not matter. When the last start is used and the process
is gone the system stops, so deadlock is not an error there. Two batches let the second
start while the callback of the first is still to run; two clients let both find the
controller idle. `MaxRuntimes` 2 and two servers are an engine, its successor after a
close, and a backend made too late; two threads are a request and one that meets its
locks; `MaxFired` 1 is one callback of a server that waits while the next timer counts.
The drive of the scan has the library, a file, and two nested directories, so that a
source may be a drive, lie in another source or above it, and be reached through a link;
`MaxFiles` and `MaxDetails` are below what the drive can give, so that both limits are
met; two changes take away a directory and put a link there. A batch or a run of runtimes
ends, so their runs have no deadlock check. An import run ends with every thread gone, so
it has no deadlock check. The copies are checked with every candidate having the same
content, which is where imports meet. Threads and candidates of that instance are
interchangeable, and so are the processes and the manifests of `indexing_shared`: these
runs use that symmetry and check invariants and steps only.

Fairness. The scheduler's threads run on (weak fairness of each thread's steps), and a
notified waiter returns from `wait()`; nobody has to ask for anything or to cancel. A
batch thread goes on whenever it is not asleep, the worker thread ticks, and a stop that
has begun is completed; pauses, resumes and starts are never owed. A request to
llama-server that was begun ends, because starting and asking have time-outs; a thread
lets its backend go after finitely many requests (strong fairness of `Leave`, because each
request takes it away from where it can leave: the frames of a batch of jobs, the two
requests of a health check); timers fire, and their callbacks go on when the lock is free.
Nobody has to open or close a runtime. The scan has no liveness property and no fairness.
An indexing loop goes on as long as it can: a run that was begun is finished, because its
inferences have time-outs, and another begins while the worker is resumed and the runtime
authorized, because the thread then ticks every two seconds. Nobody has to resume the
worker, and it starts paused: commands, starts, crashes, resumes and pauses are never
obliged to happen. So `EveryJobIsTried` is stated for a process that is let on for good
(`<>[](p \in ready)`). It also excepts the jobs that have `MaxJobs` incomplete others, not
younger, in their way: every run puts failed jobs back before it cuts its list, so that 20
jobs which always fail starve all younger ones. Without either condition TLC finds a job
that waits for ever.

## 4. What is proved

`InferenceSchedulerProofs` proves for all sets of threads and ids, from the
assumption that searches and background threads are disjoint and that `NoThread` is
neither: the type invariant, mutual exclusion (`SerialService`), exact queues, the
wake-up invariant, that cancellations reach their items, that a cancelled request
neither starts nor is served, and the refinement of `SerialInference`. They rest
on one inductive invariant, the conjunction of the invariants TLC checks: mutual
exclusion needs that a thread inside the backend is `running`; the wake-up property
needs exact queues, to know that the head of a queue waits; exact queues need that
no thread is queued twice.

`ImportBatchProofs` proves, for any sets of clients and any numbers of batches and
entries, every safety property of `ImportBatch`. The properties are not
inductive alone. `HeldBatch` (the one batch that imports is the one the controller
holds, and it is active) makes `OneBatchRuns` inductive, and tells a start that
nobody is asleep when it clears `paused`. `PauseStands` (a paused status outlives the
pause only in a shutdown) keeps a woken thread from going to work under the status
"paused". `WorkLeft` keeps the count of entries from going below zero.

`PinnedRuntimeProofs` proves every safety property of `PinnedRuntime` for any sets of
threads and servers and any number of runtimes. `RetryIsFresh` needs that a process
that failed is in the hands of the request it failed (`Blamed`), and that this
request is alone in its engine (`OneAtATime`, the promise of the scheduler), which needs
to know whose server each is (`Owned`). `IdleServerIsWatched` is not inductive while a
server starts, so `Watched` names the thread that starts it. That the manager counts its
users exactly is an argument about cardinalities (`RuntimesAreFinite`).

`LibraryCopiesProofs` proves every property of the run `copies`, for any sets of
candidates, rivals, contents and threads and any choice of file errors. `StraysAreMarked`
needs to know that whoever takes a marker off deals with a copy that does without it
(`NoMarkerNeeded`), and that such a decision is not overtaken by a new copy of that name:
`UnbornIsUnknown`, that nobody has an id in hand whose import has not made its copy
yet. That in turn rests on the foreign key of `source_record` (`SourcesHaveAssets`).

`IndexingProofs` has two parts. For any number of processes, with crashes, activations and
all commands, it proves the type invariant, that vectors of two recipes never mix, that
rows of deleted assets do not come back, and that deleted jobs are never begun. The first
three rest on `Staging`: rows that are not committed belong to one loop, which is in the
middle of a job for a live asset, and they are of the active recipe, because whoever would
delete the asset or activate a recipe needs the write lock. Under the assumption
`OneProcess` it proves that running marks are serial and that a frame has one vector at
most. These need `RunningIsInHand` (a running mark is the job in hand, or one that the
next run puts back before it claims) and `FramesInOrder` (a loop embeds only where there
are no vectors, and numbers them as it goes). The assumption is needed: with two processes
both fail.

`NothingForgottenProofs` proves `NothingForgotten` for any number of processes. Its
assumption `NumbersSuffice` is that embedding is among the kinds of jobs and that the
numbers a job may have begin with 1, have no gaps and reach at least as far as
`MaxGenerations`; the numbers 1, 2 and so on without end satisfy it (`NumbersWithoutEnd`), and then
the guards of `RebuildApply` and `Dismiss` that speak of numbers exclude nothing. The instance of
`indexing_shared` satisfies it too, and TLC has checked the inductive invariant there.
The property looks at what an asset has, the proof at who will still do something for it:
`Remembered` says that a live asset has vectors or an incomplete or dismissed job, and the
step that could break it is the completion of a job that made no vectors, because it
found some (`has_embedding`) that somebody else has deleted since. `Owed` is what saves it: from the
moment a loop is about to complete a job, the asset has vectors, or there are rows to be
committed with the mark, or a job with a greater number is there. A rebuild and an activation
delete the vectors and create that job in one transaction. When the later job is itself the
one that is completed, its own debt names a still later one, which is why `Owed` speaks of
the numbers. `InOrder` says that numbers are used in order, so that a new job has a greater number than
any in hand (`AtHand`); `Room` that there is a number for it; `JobsAreCurrent` that an
incomplete job is of the active recipe, so that the library shows it.

`ImportSourcesProofs` proves every property of `ImportSources`, for any tree that
`TreeAssumption` describes, any selection and any bounds. The lemmas about the tree come
first: that `Ancestors` is transitive, that what is above an entry is its directory and
what is above that, and that what is below a directory is below one of its entries. They
need no induction, because `Ancestors` is a least closed set and a suitable closed set
shows each. The inductive invariant has these parts. `Guards`: a directory that is on the
stack or at hand has all directories above it open, as far as the source goes, and each
that the scan has entered has its guard further down the stack (`Stack`, `Hand`, `Safe`);
so closing the guard on top of the stack uncovers nothing that is still to be scanned, and
whoever is found has open directories above, which cannot have been replaced (`Sound`).
`DiskKnown`: what nobody touched is what it was. `Covered`: a file in peace that lies in a
validated source was found, or lost with a directory above it, or is below something that
is still ahead: a source that waits, an entry of the stack, of the directory at hand or
among its children. `Counted` relates the counters to the candidates before `next`, which
is an argument about cardinalities. `Phases` says which of these are over when. From them
follow `NothingIsFollowed`, `FilesAreFoundOnce` and `BatchesEndInOrder`.

What the proofs assume is what the modules' named `ASSUME`s say, which TLC evaluates on
every run. They use the library's theorems on sequences, finite sets
and well-founded orders.

Liveness, and `ENABLED` in the fairness it rests on, are out of the prover's reach. So
only model-checked are the properties under fairness: `SearchesAreAnswered`,
`BackgroundResumes`, `ShutdownEndsBatches`, `ImportedIsIndexed`, `EveryJobIsTried`,
`IdleServerUnloads`. Every invariant and every action property of a passing run is also a
theorem.

## 5. Findings

1. A job that fails between two frames of a GIF commits the vectors it had
   inserted, with the mark `failed` (`indexing_pipeline.py:168`, `job_queue.py:78`).
   The asset counts as indexed, and the retry stops at `has_embedding`.
2. The OCR repair never repairs (`ocr_artifacts.py:396`) and is queued again by
   every initialization.
3. A thumbnail saved while its asset is deleted stays on disk (`indexing_pipeline.py:119`).
4. The cleaning of abandoned import files reads the catalog too early and can
   delete the copy of an asset that was just cataloged (`asset_catalog.py:923`).
5. The progress of an import carries the details of its own failures but counts those
   of the scan as well, so that after a scan failure the partial result of a failed or
   cancelled batch is refused by its own contract (`import_contracts.py:269`) and dropped
   (`import_controller.py:352`). The jobs such a batch has queued are not counted by its callback.

## 6. Not modelled, and the plan

Left of the plan, in this order: the start of the local host and the release of its
resources; the accepted duplicate pairs; the merging of ranked lists as an operator
checked against a definition; the session gate's one-time bootstrap; the Rust sidecar, the
front end's search state; the probes of runtime activation.

Not modelled, because no step of another actor can come between theirs or because they
keep no state: ranking arithmetic and queries (`retrieval_service.py`,
`semantic_retrieval.py`, `library_store.py`), image processing and the OCR subprocess,
parsing and validation of manifests and descriptors, routing, the exit of the
interpreter, build, packaging and evaluation scripts. An action takes any result they may
give as its input.
