-------------------------------- MODULE Indexing --------------------------------
(* The job table and the worker that empties it: job_queue.py,                  *)
(* indexing_pipeline.py, indexing_store.py, ocr_artifacts.py and the commands   *)
(* of asset_catalog.py that write the same rows.  Each process runs at most one *)
(* indexing loop (the worker thread of the sidecar, or `cli run-jobs`) and at   *)
(* most one command.                                                            *)
(*                                                                              *)
(* A transaction of SQLite is one action.  The exception is the embedding of a  *)
(* GIF: its INSERTs open a transaction that stays open, with the write lock,    *)
(* over the inference calls between them (`staged`).  SELECTs that precede the  *)
(* first write of a transaction are not part of it: they are steps of their own *)
(* where a write of somebody else can fall in between and matters.              *)
EXTENDS Naturals, Sequences, FiniteSets, SequencesExt, FiniteSetsExt

CONSTANTS Processes,       \* sidecar and command-line processes on one library
          Assets,          \* content that may be imported
          Gifs,            \* the assets that are GIFs
          FrameCount,      \* how many frames of each asset are embedded
          Kinds,           \* the types of jobs that exist (all three, or fewer in a run)
          Legacy,          \* assets whose OCR text was damaged by an old version
          Versions,        \* what runtime-manifest.json may say
          MaxJobs,         \* run_pending_jobs takes at most so many jobs
          Numbers,         \* how many jobs of a kind an asset may get (bound)
          MaxGenerations,  \* how many recipes may be activated (bound)
          MaxClock,        \* how many seconds may pass between jobs (bound)
          MaxStarts,       \* how often processes are started (bound)
          UnlinkMayFail,   \* whether removing a thumbnail file can fail
          NoVersion, NoJob, NoTarget

ASSUME IndexingAssumption ==
    /\ Gifs \subseteq Assets /\ Legacy \subseteq Assets \ Gifs
    /\ FrameCount \in [Assets -> Nat \ {0}]
    /\ \A a \in Assets \ Gifs : FrameCount[a] = 1
    /\ Kinds \subseteq {"thumbnail", "embed", "ocr"}
    /\ Numbers \subseteq Nat
    /\ MaxJobs \in Nat \ {0} /\ MaxGenerations \in Nat \ {0}
    /\ MaxClock \in Nat /\ MaxStarts \in Nat
    /\ UnlinkMayFail \in BOOLEAN
    /\ NoVersion \notin Versions

Jobs == [kind : Kinds, asset : Assets, number : Numbers]
Generations == 1..MaxGenerations
Rows == [recipe : Generations, frame : Nat]

Targets == [asset : Assets, recipe : Generations]

ASSUME NothingAssumption == NoJob \notin Jobs /\ NoTarget \notin Targets

VARIABLES asset,       \* "new", "live" or "deleted"
          status,      \* job.status; a job without a row is "unborn", "gone"
                       \* (deleted with its asset or recipe) or "dismissed"
          clock, age,  \* the time in seconds, and job.created_at: jobs that one
                       \* transaction creates, or one second, have the same
          recipeOf,    \* the recipe id in an embed job's payload
          embeddings,  \* committed embedding_item rows of each asset
          ocrText,     \* ocr_result: "none", "damaged" (holds U+FFFD) or "clean"
          renditions,  \* assets with a thumbnail row
          thumbnails,  \* assets with a file in thumbnails/
          generation,  \* the active recipe
          version,     \* the manifest the active recipe was made from
          manifest,    \* the manifest each process has read, NoVersion when down
          ready,       \* processes whose worker is resumed and whose runtime is
                       \* authorized, so that their loop may begin a run
          starts,      \* how many processes have been started
          pc,          \* the indexing loop of each process
          batch,       \* the fetched jobs it still has to look at
          job,         \* the job it works on
          staged,      \* rows it has inserted and not committed
          command,     \* the command of each process
          target       \* the asset that command is about, and the recipe it has read

tables == <<asset, status, clock, age, recipeOf, embeddings, ocrText, renditions>>
recipes == <<generation, version>>
loop == <<pc, batch, job, staged>>
commands == <<command, target>>
vars == <<tables, thumbnails, recipes, manifest, ready, starts, loop, commands>>

Statuses == {"unborn", "pending", "running", "failed", "completed", "gone", "dismissed"}
Positions == {"idle", "opened", "prepared", "looping", "claimed", "thumbnailing",
              "saved", "embedding", "recognizing", "finishing", "failing"}
Working == {"claimed", "thumbnailing", "saved", "embedding", "recognizing"}

TypeOK ==
    /\ asset \in [Assets -> {"new", "live", "deleted"}]
    /\ status \in [Jobs -> Statuses]
    /\ clock \in Nat
    /\ age \in [Jobs -> Nat]
    /\ recipeOf \in [Jobs -> Generations \union {0}]
    /\ embeddings \in [Assets -> Seq(Rows)]
    /\ ocrText \in [Assets -> {"none", "damaged", "clean"}]
    /\ renditions \subseteq Assets
    /\ thumbnails \subseteq Assets
    /\ generation \in Generations
    /\ version \in Versions
    /\ manifest \in [Processes -> Versions \union {NoVersion}]
    /\ ready \subseteq Processes
    /\ starts \in Nat
    /\ pc \in [Processes -> Positions]
    /\ batch \in [Processes -> SUBSET Jobs]
    /\ job \in [Processes -> Jobs \union {NoJob}]
    /\ staged \in [Processes -> Seq(Rows)]
    /\ command \in [Processes -> {"none", "open", "rebuild", "delete"}]
    /\ target \in [Processes -> Targets \union {NoTarget}]

--------------------------------------------------------------------------------
(* Helpers *)

HasRow(j) == status[j] \in {"pending", "running", "failed", "completed"}
Incomplete(j) == status[j] \in {"pending", "running", "failed"}
Live(a) == asset[a] = "live"

JobsOf(k, a) == {j \in Jobs : j.kind = k /\ j.asset = a}

\* Rows are named in the order they are created; a job id is never used again.
IsNext(j) ==
    /\ status[j] = "unborn"
    /\ \A i \in JobsOf(j.kind, j.asset) : i.number < j.number => status[i] # "unborn"
NextOf(k, A) == {j \in Jobs : j.kind = k /\ j.asset \in A /\ IsNext(j)}

\* Somebody else holds SQLite's write lock.
Locked(p) == \E q \in Processes \ {p} : staged[q] # <<>>
Busy == \E q \in Processes : staged[q] # <<>>

\* INSERT INTO job for a set of new jobs, with payloads for recipe g, after the
\* other rows have become st.
Enqueue(new, st, g) ==
    /\ status' = [j \in Jobs |-> IF j \in new THEN "pending" ELSE st[j]]
    /\ clock' \in IF new = {} \/ clock = MaxClock THEN {clock} ELSE {clock, clock + 1}
    /\ age' = [j \in Jobs |-> IF j \in new THEN clock' ELSE age[j]]
    /\ recipeOf' = [j \in Jobs |-> IF j \in new /\ j.kind = "embed" THEN g ELSE recipeOf[j]]

\* UPDATE job SET status = s WHERE id = j: nothing happens without the row.
Marked(j, s) == [status EXCEPT ![j] = IF HasRow(j) THEN s ELSE @]

\* DELETE FROM job for the rows in J.
Dropped(J) == [j \in Jobs |-> IF j \in J /\ HasRow(j) THEN "gone" ELSE status[j]]

\* _project_asset_status: what the library shows for an asset.
ActiveJobs(a) == {j \in JobsOf("embed", a) : HasRow(j) /\ recipeOf[j] = generation}
Embedded(a) == \E n \in 1..Len(embeddings[a]) : embeddings[a][n].recipe = generation
AssetStatus(a) ==
    IF Embedded(a) THEN "indexed"
    ELSE IF \E j \in ActiveJobs(a) : status[j] = "failed" THEN "failed"
    ELSE IF \E j \in ActiveJobs(a) : Incomplete(j) THEN "pending"
    ELSE "missing_index"

--------------------------------------------------------------------------------
(* initialize_library, the first transaction of every run and every command *)

\* ensure_missing_ocr_jobs: stills without a readable text and without an
\* incomplete OCR job.
MissingOcr ==
    {a \in Assets \ Gifs :
        /\ Live(a)
        /\ ocrText[a] # "clean"
        /\ \A j \in JobsOf("ocr", a) : ~ Incomplete(j)}

LiveAssets == {a \in Assets : Live(a)}

\* activate_manifest_recipe finds the recipe of another manifest active.
Initialize(p) ==
    LET activates == manifest[p] # version
        new == NextOf("ocr", MissingOcr)
                 \union (IF activates THEN NextOf("embed", LiveAssets) ELSE {})
        dropped == IF activates THEN {j \in Jobs : j.kind = "embed"} ELSE {}
    IN  /\ manifest[p] # NoVersion
        /\ activates \/ new # {} => ~ Busy
        /\ activates => generation < MaxGenerations
        /\ generation' = IF activates THEN generation + 1 ELSE generation
        /\ version' = manifest[p]
        /\ embeddings' = IF activates THEN [a \in Assets |-> <<>>] ELSE embeddings
        /\ Enqueue(new, Dropped(dropped), generation')
        /\ UNCHANGED <<asset, ocrText, renditions, thumbnails, manifest, ready, starts>>

--------------------------------------------------------------------------------
(* run_pending_jobs *)

\* The worker is not paused, the runtime is authorized, and the library is made ready.
Open(p) ==
    /\ pc[p] = "idle" /\ p \in ready
    /\ Initialize(p)
    /\ pc' = [pc EXCEPT ![p] = "opened"]
    /\ UNCHANGED <<batch, job, staged, commands>>

\* Mutant: only failed jobs are put back.
PrepareFailedOnly(p) ==
    /\ pc[p] = "opened"
    /\ ~ Locked(p)
    /\ status' = [j \in Jobs |-> IF status[j] = "failed" THEN "pending" ELSE status[j]]
    /\ pc' = [pc EXCEPT ![p] = "prepared"]
    /\ UNCHANGED <<asset, clock, age, recipeOf, embeddings, ocrText, renditions,
                   thumbnails, recipes, manifest, ready, starts, batch, job, staged, commands>>

\* requeue_incomplete_jobs: whatever an earlier run left running or failed.
Prepare(p) ==
    /\ pc[p] = "opened"
    /\ ~ Locked(p)
    /\ status' = [j \in Jobs |-> IF status[j] \in {"running", "failed"} THEN "pending" ELSE status[j]]
    /\ pc' = [pc EXCEPT ![p] = "prepared"]
    /\ UNCHANGED <<asset, clock, age, recipeOf, embeddings, ocrText, renditions,
                   thumbnails, recipes, manifest, ready, starts, batch, job, staged, commands>>

Pending == {j \in Jobs : status[j] = "pending"}

\* fetch_pending_jobs: the oldest ones, at most MaxJobs.
Fetch(p) ==
    /\ pc[p] = "prepared"
    /\ \E chosen \in SUBSET Pending :
         /\ Cardinality(chosen) <= MaxJobs
         /\ Cardinality(chosen) = MaxJobs \/ chosen = Pending
         /\ \A j \in chosen, k \in Pending \ chosen : age[j] <= age[k]
         /\ batch' = [batch EXCEPT ![p] = chosen]
    /\ pc' = [pc EXCEPT ![p] = "looping"]
    /\ UNCHANGED <<tables, thumbnails, recipes, manifest, ready, starts, job, staged, commands>>

NextInBatch(p, j) ==
    /\ pc[p] = "looping"
    /\ j \in batch[p]
    /\ \A k \in batch[p] : age[j] <= age[k]

\* Mutant: the UPDATE has no `status = 'pending'`.
ClaimAnything(p, j) ==
    /\ NextInBatch(p, j)
    /\ ~ Locked(p)
    /\ batch' = [batch EXCEPT ![p] = @ \ {j}]
    /\ status' = Marked(j, "running")
    /\ job' = [job EXCEPT ![p] = j]
    /\ pc' = [pc EXCEPT ![p] = "claimed"]
    /\ UNCHANGED <<asset, clock, age, recipeOf, embeddings, ocrText, renditions,
                   thumbnails, recipes, manifest, ready, starts, staged, commands>>

\* claim_job: a job that is not pending any more is skipped.
Claim(p, j) ==
    /\ NextInBatch(p, j)
    /\ ~ Locked(p)
    /\ batch' = [batch EXCEPT ![p] = @ \ {j}]
    /\ IF status[j] = "pending"
       THEN /\ status' = [status EXCEPT ![j] = "running"]
            /\ job' = [job EXCEPT ![p] = j]
            /\ pc' = [pc EXCEPT ![p] = "claimed"]
       ELSE UNCHANGED <<status, job, pc>>
    /\ UNCHANGED <<asset, clock, age, recipeOf, embeddings, ocrText, renditions,
                   thumbnails, recipes, manifest, ready, starts, staged, commands>>

\* The claim runs into the busy time-out; the job is failed without being claimed.
ClaimTimesOut(p, j) ==
    /\ NextInBatch(p, j)
    /\ Locked(p)
    /\ batch' = [batch EXCEPT ![p] = @ \ {j}]
    /\ job' = [job EXCEPT ![p] = j]
    /\ pc' = [pc EXCEPT ![p] = "failing"]
    /\ UNCHANGED <<tables, thumbnails, recipes, manifest, ready, starts, staged, commands>>

\* The loop goes to the next job; what it had inserted is committed with the mark.
Settle(p, s) ==
    /\ status' = Marked(job[p], s)
    /\ embeddings' = [embeddings EXCEPT ![job[p].asset] = @ \o staged[p]]
    /\ staged' = [staged EXCEPT ![p] = <<>>]
    /\ job' = [job EXCEPT ![p] = NoJob]
    /\ pc' = [pc EXCEPT ![p] = "looping"]
    /\ UNCHANGED <<asset, clock, age, recipeOf, recipes, manifest, ready, starts, batch, commands>>

Complete(p) ==
    /\ pc[p] = "finishing"
    /\ ~ Locked(p)
    /\ Settle(p, "completed")
    /\ UNCHANGED <<ocrText, renditions, thumbnails>>

\* Mutant: the first job that fails ends the run.
FailAndStop(p) ==
    /\ pc[p] = "failing"
    /\ ~ Locked(p)
    /\ status' = Marked(job[p], "failed")
    /\ embeddings' = [embeddings EXCEPT ![job[p].asset] = @ \o staged[p]]
    /\ staged' = [staged EXCEPT ![p] = <<>>]
    /\ job' = [job EXCEPT ![p] = NoJob]
    /\ batch' = [batch EXCEPT ![p] = {}]
    /\ pc' = [pc EXCEPT ![p] = "idle"]
    /\ UNCHANGED <<asset, clock, age, recipeOf, ocrText, renditions, thumbnails,
                   recipes, manifest, ready, starts, commands>>

Fail(p) ==
    /\ pc[p] = "failing"
    /\ ~ Locked(p)
    /\ Settle(p, "failed")
    /\ UNCHANGED <<ocrText, renditions, thumbnails>>

\* The work of a job raises: a missing copy, a broken image, the inference, a
\* foreign key, a busy time-out.
Raise(p) ==
    /\ pc[p] \in Working \/ (pc[p] = "finishing" /\ Locked(p))
    /\ pc' = [pc EXCEPT ![p] = "failing"]
    /\ UNCHANGED <<tables, thumbnails, recipes, manifest, ready, starts, batch, job, staged, commands>>

\* The connection is closed, which rolls back, and the loop is over.
Leave(p) ==
    /\ pc' = [pc EXCEPT ![p] = "idle"]
    /\ batch' = [batch EXCEPT ![p] = {}]
    /\ job' = [job EXCEPT ![p] = NoJob]
    /\ staged' = [staged EXCEPT ![p] = <<>>]

EndRun(p) ==
    /\ \/ pc[p] = "looping" /\ batch[p] = {}
       \/ pc[p] \in {"opened", "failing"} /\ Locked(p)
    /\ Leave(p)
    /\ UNCHANGED <<tables, thumbnails, recipes, manifest, ready, starts, commands>>

--------------------------------------------------------------------------------
(* The work of a claimed job *)

Begins(p, k) == pc[p] = "claimed" /\ job[p].kind = k /\ Live(job[p].asset)

GoTo(p, position) ==
    /\ pc' = [pc EXCEPT ![p] = position]
    /\ UNCHANGED <<tables, thumbnails, recipes, manifest, ready, starts, batch, job, staged, commands>>

BeginThumbnail(p) == Begins(p, "thumbnail") /\ GoTo(p, "thumbnailing")

SaveThumbnail(p) ==
    /\ pc[p] = "thumbnailing"
    /\ thumbnails' = thumbnails \union {job[p].asset}
    /\ pc' = [pc EXCEPT ![p] = "saved"]
    /\ UNCHANGED <<tables, recipes, manifest, ready, starts, batch, job, staged, commands>>

\* Mutant: PRAGMA foreign_keys is off.
RecordThumbnailUnchecked(p) ==
    /\ pc[p] = "saved"
    /\ ~ Locked(p)
    /\ renditions' = renditions \union {job[p].asset}
    /\ Settle(p, "completed")
    /\ UNCHANGED <<ocrText, thumbnails>>

\* upsert_thumbnail_rendition and complete_job: one transaction.  The asset row
\* must still be there (foreign key).
RecordThumbnail(p) ==
    /\ pc[p] = "saved"
    /\ ~ Locked(p) /\ Live(job[p].asset)
    /\ renditions' = renditions \union {job[p].asset}
    /\ Settle(p, "completed")
    /\ UNCHANGED <<ocrText, thumbnails>>

\* Mutant: has_embedding is not asked.
BeginEmbedAgain(p) ==
    /\ Begins(p, "embed")
    /\ recipeOf[job[p]] = generation
    /\ GoTo(p, "embedding")

\* get_recipe, get_asset_library_path and has_embedding.
BeginEmbed(p) ==
    /\ Begins(p, "embed")
    /\ recipeOf[job[p]] = generation
    /\ GoTo(p, IF Embedded(job[p].asset) THEN "finishing" ELSE "embedding")

\* Mutant: the row does not say for which recipe it was made.
InsertRowWithoutRecipe(p) ==
    /\ pc[p] = "embedding"
    /\ ~ Locked(p) /\ Live(job[p].asset)
    /\ staged' = [staged EXCEPT ![p] = Append(@, [recipe |-> 0, frame |-> Len(@) + 1])]
    /\ pc' = [pc EXCEPT ![p] = "finishing"]
    /\ UNCHANGED <<tables, thumbnails, recipes, manifest, ready, starts, batch, job, commands>>

\* Mutant: the recipe row is not required to be there still.
InsertRowUnchecked(p) ==
    /\ pc[p] = "embedding"
    /\ ~ Locked(p) /\ Live(job[p].asset)
    /\ staged' = [staged EXCEPT ![p] =
                    Append(@, [recipe |-> recipeOf[job[p]], frame |-> Len(@) + 1])]
    /\ pc' = [pc EXCEPT ![p] =
                IF Len(staged[p]) + 1 < FrameCount[job[p].asset] THEN "embedding" ELSE "finishing"]
    /\ UNCHANGED <<tables, thumbnails, recipes, manifest, ready, starts, batch, job, commands>>

\* One frame was embedded and its row inserted: foreign keys to asset and recipe.
InsertRow(p) ==
    LET a == job[p].asset
        frame == Len(staged[p]) + 1
    IN  /\ pc[p] = "embedding"
        /\ ~ Locked(p) /\ Live(a) /\ recipeOf[job[p]] = generation
        /\ staged' = [staged EXCEPT ![p] = Append(@, [recipe |-> generation, frame |-> frame])]
        /\ pc' = [pc EXCEPT ![p] = IF frame < FrameCount[a] THEN "embedding" ELSE "finishing"]
        /\ UNCHANGED <<tables, thumbnails, recipes, manifest, ready, starts, batch, job, commands>>

\* run_ocr_asset_job up to the recognition: any result counts, also a damaged one.
BeginOcr(p) ==
    /\ Begins(p, "ocr")
    /\ GoTo(p, IF ocrText[job[p].asset] # "none" THEN "finishing" ELSE "recognizing")

\* store_ocr_result and complete_job: one transaction.
StoreOcr(p) ==
    /\ pc[p] = "recognizing"
    /\ ~ Locked(p) /\ Live(job[p].asset)
    /\ ocrText' = [ocrText EXCEPT ![job[p].asset] = "clean"]
    /\ Settle(p, "completed")
    /\ UNCHANGED <<renditions, thumbnails>>

--------------------------------------------------------------------------------
(* Commands *)

OpenCommand(p) ==
    /\ command[p] = "none"
    /\ Initialize(p)
    /\ command' = [command EXCEPT ![p] = "open"]
    /\ UNCHANGED <<loop, target>>

Return(p) ==
    /\ command' = [command EXCEPT ![p] = "none"]
    /\ target' = [target EXCEPT ![p] = NoTarget]

\* The catalog transaction of an import: the asset and its jobs.
Import(p, a) ==
    /\ command[p] = "open" /\ ~ Busy
    /\ asset[a] = "new"
    /\ asset' = [asset EXCEPT ![a] = "live"]
    /\ Enqueue(NextOf("thumbnail", {a}) \union NextOf("embed", {a})
                 \union NextOf("ocr", {a} \ Gifs), status, generation)
    /\ Return(p)
    /\ UNCHANGED <<embeddings, ocrText, renditions, thumbnails, recipes, manifest, ready, starts, loop>>

\* rebuild_active_indexes up to its first write: no embed job of the asset runs.
RebuildCheck(p, a) ==
    /\ command[p] = "open"
    /\ Live(a)
    /\ \A j \in JobsOf("embed", a) : status[j] # "running"
    /\ command' = [command EXCEPT ![p] = "rebuild"]
    /\ target' = [target EXCEPT ![p] = [asset |-> a, recipe |-> generation]]
    /\ UNCHANGED <<tables, thumbnails, recipes, manifest, ready, starts, loop>>

\* Mutant: no new job when one is running by now.
RebuildApplyUnlessRunning(p) ==
    LET a == target[p].asset
        runs == \E j \in JobsOf("embed", a) : status[j] = "running"
    IN  /\ command[p] = "rebuild" /\ ~ Busy
        /\ Live(a) /\ target[p].recipe = generation
        /\ embeddings' = [embeddings EXCEPT ![a] = <<>>]
        /\ Enqueue(IF runs THEN {} ELSE NextOf("embed", {a}),
                   Dropped({j \in JobsOf("embed", a) : status[j] \in {"pending", "failed"}}),
                   generation)
        /\ Return(p)
        /\ UNCHANGED <<asset, ocrText, renditions, thumbnails, recipes, manifest, ready, starts, loop>>

\* The new job's foreign keys: the asset and the recipe are still there.  Numbers
\* are kept for the recipes that may still be activated (bound).
RebuildApply(p) ==
    LET a == target[p].asset
    IN  /\ command[p] = "rebuild" /\ ~ Busy
        /\ Live(a) /\ target[p].recipe = generation
        /\ \E j \in NextOf("embed", {a}) : j.number + MaxGenerations - generation \in Numbers
        /\ embeddings' = [embeddings EXCEPT ![a] = <<>>]
        /\ Enqueue(NextOf("embed", {a}),
                   Dropped({j \in JobsOf("embed", a) : status[j] \in {"pending", "failed"}}),
                   generation)
        /\ Return(p)
        /\ UNCHANGED <<asset, ocrText, renditions, thumbnails, recipes, manifest, ready, starts, loop>>

\* delete_asset up to its first write: the files of the thumbnail rows go first.
DeleteFiles(p, a) ==
    /\ command[p] = "open"
    /\ Live(a)
    /\ \/ a \in renditions /\ thumbnails' = thumbnails \ {a}
       \/ (a \notin renditions \/ UnlinkMayFail) /\ UNCHANGED thumbnails
    /\ command' = [command EXCEPT ![p] = "delete"]
    /\ target' = [target EXCEPT ![p] = [asset |-> a, recipe |-> generation]]
    /\ UNCHANGED <<tables, recipes, manifest, ready, starts, loop>>

\* DELETE FROM asset, and what ON DELETE CASCADE takes with it.
DeleteRows(p) ==
    LET a == target[p].asset
    IN  /\ command[p] = "delete" /\ ~ Busy
        /\ asset' = [asset EXCEPT ![a] = "deleted"]
        /\ status' = Dropped({j \in Jobs : j.asset = a})
        /\ embeddings' = [embeddings EXCEPT ![a] = <<>>]
        /\ ocrText' = [ocrText EXCEPT ![a] = "none"]
        /\ renditions' = renditions \ {a}
        /\ Return(p)
        /\ UNCHANGED <<clock, age, recipeOf, thumbnails, recipes, manifest, ready, starts, loop>>

RetryFailed(p) ==
    /\ command[p] = "open" /\ ~ Busy
    /\ status' = [j \in Jobs |-> IF status[j] = "failed" THEN "pending" ELSE status[j]]
    /\ Return(p)
    /\ UNCHANGED <<asset, clock, age, recipeOf, embeddings, ocrText, renditions,
                   thumbnails, recipes, manifest, ready, starts, loop>>

\* delete_pending_jobs.  The last number is left to initialize_library.
Dismiss(p, j) ==
    /\ command[p] = "open" /\ ~ Busy
    /\ status[j] = "pending"
    /\ NextOf(j.kind, {j.asset}) # {}
    /\ status' = [status EXCEPT ![j] = "dismissed"]
    /\ Return(p)
    /\ UNCHANGED <<asset, clock, age, recipeOf, embeddings, ocrText, renditions,
                   thumbnails, recipes, manifest, ready, starts, loop>>

\* Refused, nothing to do, or an error that rolls the transaction back.
GiveUp(p) ==
    /\ command[p] # "none"
    /\ Return(p)
    /\ UNCHANGED <<tables, thumbnails, recipes, manifest, ready, starts, loop>>

--------------------------------------------------------------------------------
(* Processes *)

Start(p, v) ==
    /\ manifest[p] = NoVersion
    /\ starts < MaxStarts
    /\ manifest' = [manifest EXCEPT ![p] = v]
    /\ starts' = starts + 1
    /\ UNCHANGED <<tables, thumbnails, recipes, ready, loop, commands>>

\* The worker starts paused and the runtime unauthorized.  Both must be lifted; either
\* may come back at any time, and stops no run that has begun.
Resume(p) ==
    /\ manifest[p] # NoVersion /\ p \notin ready
    /\ ready' = ready \union {p}
    /\ UNCHANGED <<tables, thumbnails, recipes, manifest, starts, loop, commands>>

Pause(p) ==
    /\ p \in ready
    /\ ready' = ready \ {p}
    /\ UNCHANGED <<tables, thumbnails, recipes, manifest, starts, loop, commands>>

\* The process ends or is killed, wherever its loop and its command are.
Crash(p) ==
    /\ manifest[p] # NoVersion
    /\ manifest' = [manifest EXCEPT ![p] = NoVersion]
    /\ ready' = ready \ {p}
    /\ Leave(p)
    /\ Return(p)
    /\ UNCHANGED <<tables, thumbnails, recipes, starts>>

Init ==
    /\ asset = [a \in Assets |-> IF a \in Legacy THEN "live" ELSE "new"]
    /\ status = [j \in Jobs |-> IF j.asset \in Legacy /\ j.number = 1 THEN "completed" ELSE "unborn"]
    /\ clock = 0 /\ age = [j \in Jobs |-> 0]
    /\ generation = 1 /\ version \in Versions
    /\ recipeOf = [j \in Jobs |-> IF j.asset \in Legacy /\ j.kind = "embed" /\ j.number = 1 THEN 1 ELSE 0]
    /\ embeddings = [a \in Assets |-> IF a \in Legacy THEN <<[recipe |-> 1, frame |-> 1]>> ELSE <<>>]
    /\ ocrText = [a \in Assets |-> IF a \in Legacy THEN "damaged" ELSE "none"]
    /\ renditions = Legacy /\ thumbnails = Legacy
    /\ manifest = [p \in Processes |-> NoVersion] /\ ready = {} /\ starts = 0
    /\ pc = [p \in Processes |-> "idle"]
    /\ batch = [p \in Processes |-> {}]
    /\ job = [p \in Processes |-> NoJob]
    /\ staged = [p \in Processes |-> <<>>]
    /\ command = [p \in Processes |-> "none"]
    /\ target = [p \in Processes |-> NoTarget]

LoopStep(p) ==
    \/ Open(p) \/ Prepare(p) \/ Fetch(p)
    \/ \E j \in Jobs : Claim(p, j) \/ ClaimTimesOut(p, j)
    \/ BeginThumbnail(p) \/ SaveThumbnail(p) \/ RecordThumbnail(p)
    \/ BeginEmbed(p) \/ InsertRow(p)
    \/ BeginOcr(p) \/ StoreOcr(p)
    \/ Raise(p) \/ Complete(p) \/ Fail(p) \/ EndRun(p)

CommandStep(p) ==
    \/ OpenCommand(p)
    \/ \E a \in Assets : Import(p, a) \/ RebuildCheck(p, a) \/ DeleteFiles(p, a)
    \/ RebuildApply(p) \/ DeleteRows(p) \/ RetryFailed(p)
    \/ \E j \in Jobs : Dismiss(p, j)
    \/ GiveUp(p)

Next ==
    \E p \in Processes :
        \/ LoopStep(p)
        \/ CommandStep(p)
        \/ \E v \in Versions : Start(p, v)
        \/ Resume(p) \/ Pause(p) \/ Crash(p)

\* The worker thread goes on: it ticks every two seconds as long as it is neither paused
\* nor refused, and finishes the run it has begun.  Nobody has to resume it, to give a
\* command, to start a process or to end one.
Fairness == \A p \in Processes : WF_vars(LoopStep(p))

Spec == Init /\ [][Next]_vars
FairSpec == Spec /\ Fairness

--------------------------------------------------------------------------------
(* Properties *)

\* An asset has at most one embedding per frame, across failures, retries,
\* restarts and rebuilds, as long as one process runs the loop.
OneRowPerFrame ==
    \A a \in Assets : \A m, n \in 1..Len(embeddings[a]) :
        embeddings[a][m].frame = embeddings[a][n].frame => m = n

\* One process works on one job: never do two rows say "running", also after it
\* died in the middle of a job.
OneRunningJob ==
    \A j, k \in Jobs : status[j] = "running" /\ status[k] = "running" => j = k

\* No asset is forgotten: one that the library shows as "missing_index", with no
\* vector of the active recipe and no embed job that a coming run will take, is
\* one whose job the operator deleted; whatever rebuilds, restarts, activations
\* and a second process were doing at the time.
NothingForgotten ==
    \A a \in Assets : Live(a) /\ AssetStatus(a) = "missing_index" =>
        \E j \in JobsOf("embed", a) : status[j] = "dismissed"

\* Recipe Activation is transactional: vectors of two recipes are never mixed,
\* and a loop that was embedding for the old recipe adds none to the new one.
VectorsMatchRecipe ==
    \A a \in Assets : \A n \in 1..Len(embeddings[a]) : embeddings[a][n].recipe = generation

\* Nothing the loop still had in hand brings rows of a deleted asset back.
DeletedLeavesNoRows ==
    \A a \in Assets : asset[a] = "deleted" =>
        /\ embeddings[a] = <<>> /\ ocrText[a] = "none" /\ a \notin renditions
        /\ \A j \in Jobs : j.asset = a => ~ HasRow(j)

\* A loop never starts on a job that the operator has deleted, also not one it
\* had fetched before, and the row never comes back.
Claims(p, j) == job[p] # j /\ job'[p] = j /\ pc'[p] = "claimed"
DismissedNeverRuns ==
    [][\A j \in Jobs : status[j] \in {"dismissed", "gone"} =>
          /\ status'[j] = status[j]
          /\ \A p \in Processes : ~ Claims(p, j)]_vars

\* requeue_incomplete_jobs and fetch_pending_jobs: once the worker of some process is let
\* on for good, no job stays queued or running for ever: it is completed, fails or is deleted,
\* however the jobs before it fail, whatever is queued meanwhile, and also when a process
\* died in the middle of it; unless MaxJobs incomplete others that are no younger are in its
\* way, since a run puts failed jobs back before it cuts the list.
Crowded(j) ==
    Cardinality({k \in Jobs \ {j} : Incomplete(k) /\ age[k] <= age[j]}) >= MaxJobs
EveryJobIsTried ==
    \A p \in Processes : <>[](p \in ready) =>
        \A j \in Jobs : []<>(status[j] \notin {"pending", "running"} \/ Crowded(j))

\* CONTEXT.md: a Failed Asset is not searchable.
FailedIsNotSearchable ==
    \A a \in Assets : \A j \in ActiveJobs(a) : status[j] = "failed" => ~ Embedded(a)

\* The comment in ensure_missing_ocr_jobs: the repair of a damaged text happens
\* once; a second job is not made after the first one was completed.
OneTimeRepair ==
    \A a \in Legacy :
        Cardinality({j \in JobsOf("ocr", a) : j.number > 1 /\ status[j] = "completed"}) <= 1

\* CONTEXT.md: Derived Artifacts are deleted with the asset.
DeletedLeavesNoFile ==
    \A a \in Assets :
        asset[a] = "deleted" /\ (\A p \in Processes : pc[p] = "idle") => a \notin thumbnails

================================================================================
