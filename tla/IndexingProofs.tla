----------------------------- MODULE IndexingProofs -----------------------------
(* Safety of the job table, the indexing loops and the commands, for any number *)
(* of processes, assets, jobs, manifests and starts; and what holds in addition *)
(* while one process runs the loop.                                             *)
EXTENDS Indexing, SequenceTheorems, TLAPS

Holding == Working \union {"finishing", "failing"}

\* A loop that works has a job, and a command that goes on has a target.
InHand ==
    \A p \in Processes : /\ pc[p] \in Holding => job[p] \in Jobs
                         /\ command[p] \in {"rebuild", "delete"} => target[p] \in Targets

\* Rows that are not committed belong to one loop, to a live asset and to the active
\* recipe, because the write lock is held as long as they are there.
Staging ==
    \A p \in Processes : staged[p] # <<>> =>
        /\ pc[p] \in {"embedding", "finishing", "failing"}
        /\ job[p] \in Jobs /\ Live(job[p].asset)
        /\ \A q \in Processes : staged[q] # <<>> => q = p
        /\ \A n \in 1..Len(staged[p]) : staged[p][n].recipe = generation

\* The inductive invariant.
IInv ==
    /\ TypeOK
    /\ InHand /\ Staging
    /\ VectorsMatchRecipe /\ DeletedLeavesNoRows

LEMMA InitIInv == Init => IInv
<1> SUFFICES ASSUME Init PROVE IInv
  OBVIOUS
<1> USE IndexingAssumption, NothingAssumption DEF Init
<1>1. 1 \in Generations /\ [recipe |-> 1, frame |-> 1] \in Rows
  BY DEF Generations, Rows
<1>2. TypeOK
  <2>1. embeddings \in [Assets -> Seq(Rows)] /\ staged \in [Processes -> Seq(Rows)]
    BY <1>1
  <2>2. pc \in [Processes -> Positions] /\ status \in [Jobs -> Statuses]
    BY DEF Positions, Statuses
  <2> QED BY <1>1, <2>1, <2>2 DEF TypeOK
<1>3. InHand /\ Staging
  BY DEF InHand, Staging, Holding, Working
<1>4. VectorsMatchRecipe
  BY DEF VectorsMatchRecipe
<1>5. DeletedLeavesNoRows
  BY DEF DeletedLeavesNoRows
<1> QED BY <1>2, <1>3, <1>4, <1>5 DEF IInv

--------------------------------------------------------------------------------
(* What steps leave alone *)

\* Nobody inserts, and rows of jobs are not made.
LEMMA TablesKept ==
    ASSUME IInv, UNCHANGED <<asset, embeddings, ocrText, renditions, generation, staged>>,
           \A j \in Jobs : HasRow(j)' => HasRow(j),
           \A p \in Processes : staged[p] # <<>> =>
               /\ job'[p] = job[p]
               /\ pc'[p] \in {"embedding", "finishing", "failing"}
    PROVE  Staging' /\ VectorsMatchRecipe' /\ DeletedLeavesNoRows'
<1>1. Staging'
  BY DEF IInv, Staging, Live
<1>2. VectorsMatchRecipe' /\ DeletedLeavesNoRows'
  BY DEF IInv, VectorsMatchRecipe, DeletedLeavesNoRows
<1> QED BY <1>1, <1>2

\* A loop that is not inserting has inserted nothing.
LEMMA NothingStaged ==
    ASSUME IInv, NEW p \in Processes, pc[p] \notin {"embedding", "finishing", "failing"}
    PROVE  staged[p] = <<>>
BY DEF IInv, Staging

\* The job in hand is the same, and the loop goes from one place with it to another.
LEMMA GoOnKeeps ==
    ASSUME IInv, NEW p \in Processes, NEW place \in Holding,
           pc' = [pc EXCEPT ![p] = place], pc[p] \in Holding,
           staged[p] # <<>> => place \in {"embedding", "finishing", "failing"},
           UNCHANGED <<tables, recipes, manifest, ready, starts, batch, job, staged, commands>>,
           thumbnails' \subseteq Assets
    PROVE  IInv'
<1>1. place \in Positions
  BY DEF Holding, Working, Positions
<1>2. TypeOK'
  BY <1>1 DEF IInv, TypeOK, tables, recipes, commands
<1>3. InHand'
  BY DEF IInv, TypeOK, InHand, commands
<1>4. \A q \in Processes : staged[q] # <<>> => pc'[q] \in {"embedding", "finishing", "failing"}
  BY DEF IInv, TypeOK, Staging
<1>5. \A j \in Jobs : HasRow(j)' => HasRow(j)
  BY DEF HasRow, tables
<1> QED BY <1>2, <1>3, <1>4, <1>5, TablesKept DEF IInv, tables, recipes

\* Replaced and deleted vectors.
LEMMA EmptiedKeeps ==
    ASSUME NEW old \in [Assets -> Seq(Rows)], NEW a
    PROVE  [old EXCEPT ![a] = <<>>] \in [Assets -> Seq(Rows)]
<1>1. <<>> \in Seq(Rows)
  BY EmptySeq
<1> QED BY <1>1

\* INSERT INTO job for live assets.
LEMMA EnqueueKeeps ==
    ASSUME IInv, NEW new \in SUBSET Jobs, NEW st \in [Jobs -> Statuses], NEW g \in Generations,
           Enqueue(new, st, g)
    PROVE  /\ status' \in [Jobs -> Statuses] /\ clock' \in Nat /\ age' \in [Jobs -> Nat]
           /\ recipeOf' \in [Jobs -> Generations \union {0}]
           /\ \A j \in Jobs \ new : status'[j] = st[j]
<1> USE DEF Enqueue
<1>1. status' \in [Jobs -> Statuses]
  BY DEF Statuses
<1>2. clock' \in Nat /\ age' \in [Jobs -> Nat]
  BY DEF IInv, TypeOK
<1>3. recipeOf' \in [Jobs -> Generations \union {0}]
  BY DEF IInv, TypeOK
<1> QED BY <1>1, <1>2, <1>3

--------------------------------------------------------------------------------
(* initialize_library *)

LEMMA InitializeKeeps ==
    ASSUME IInv, NEW p \in Processes, Initialize(p), UNCHANGED staged
    PROVE  /\ status' \in [Jobs -> Statuses] /\ clock' \in Nat /\ age' \in [Jobs -> Nat]
           /\ recipeOf' \in [Jobs -> Generations \union {0}]
           /\ embeddings' \in [Assets -> Seq(Rows)]
           /\ generation' \in Generations /\ version' \in Versions
           /\ VectorsMatchRecipe' /\ DeletedLeavesNoRows'
           /\ generation' # generation => \A q \in Processes : staged[q] = <<>>
<1> DEFINE activates == manifest[p] # version
           new == NextOf("ocr", MissingOcr)
                    \union (IF activates THEN NextOf("embed", LiveAssets) ELSE {})
           dropped == IF activates THEN {j \in Jobs : j.kind = "embed"} ELSE {}
<1>1. /\ manifest[p] # NoVersion
      /\ activates => ~ Busy /\ generation < MaxGenerations
      /\ generation' = IF activates THEN generation + 1 ELSE generation
      /\ version' = manifest[p]
      /\ embeddings' = IF activates THEN [a \in Assets |-> <<>>] ELSE embeddings
      /\ Enqueue(new, Dropped(dropped), generation')
      /\ UNCHANGED <<asset, ocrText, renditions>>
  BY DEF Initialize
<1>2. new \in SUBSET {j \in Jobs : Live(j.asset)}
  BY DEF NextOf, MissingOcr, LiveAssets
<1>3. Dropped(dropped) \in [Jobs -> Statuses]
      /\ \A j \in Jobs : Dropped(dropped)[j] \in {status[j], "gone"}
  BY DEF Dropped, IInv, TypeOK, Statuses
<1> HIDE DEF activates, new, dropped
<1>4. generation' \in Generations
  BY <1>1, IndexingAssumption DEF IInv, TypeOK, Generations
<1>5. version' \in Versions
  BY <1>1 DEF IInv, TypeOK
<1>6. embeddings' \in [Assets -> Seq(Rows)]
  BY <1>1 DEF IInv, TypeOK
<1>7. /\ status' \in [Jobs -> Statuses] /\ clock' \in Nat /\ age' \in [Jobs -> Nat]
      /\ recipeOf' \in [Jobs -> Generations \union {0}]
      /\ \A j \in Jobs \ new : status'[j] = Dropped(dropped)[j]
  BY <1>1, <1>2, <1>3, <1>4, EnqueueKeeps
<1>8. VectorsMatchRecipe'
  BY <1>1 DEF IInv, VectorsMatchRecipe
<1>9. DeletedLeavesNoRows'
  <2>1. \A j \in Jobs : HasRow(j)' => HasRow(j) \/ Live(j.asset)
    BY <1>2, <1>3, <1>7 DEF HasRow
  <2>2. \A a \in Assets : embeddings[a] = <<>> => embeddings'[a] = <<>>
    BY <1>1
  <2> QED BY <1>1, <2>1, <2>2 DEF IInv, DeletedLeavesNoRows, Live
<1>10. generation' # generation => \A q \in Processes : staged[q] = <<>>
  BY <1>1 DEF Busy
<1> QED BY <1>4, <1>5, <1>6, <1>7, <1>8, <1>9, <1>10

LEMMA InitializedStaging ==
    ASSUME IInv, UNCHANGED <<asset, staged, job>>,
           \A p \in Processes : staged[p] # <<>> => pc'[p] = pc[p],
           generation' # generation => \A q \in Processes : staged[q] = <<>>
    PROVE  Staging'
BY DEF IInv, Staging, Live

LEMMA OpenIInv ==
    ASSUME IInv, NEW p \in Processes, Open(p)
    PROVE  IInv'
<1> USE DEF Open
<1>1. UNCHANGED <<asset, ocrText, renditions, thumbnails, manifest, ready, starts>>
  BY DEF Initialize
<1>2. TypeOK'
  BY <1>1, InitializeKeeps DEF IInv, TypeOK, Positions, commands
<1>3. InHand'
  BY DEF IInv, TypeOK, InHand, Holding, Working, commands
<1>4. Staging'
  <2>1. staged[p] = <<>>
    BY NothingStaged
  <2> QED BY <1>1, <2>1, InitializeKeeps, InitializedStaging DEF IInv, TypeOK
<1> QED BY <1>2, <1>3, <1>4, InitializeKeeps DEF IInv

LEMMA OpenCommandIInv ==
    ASSUME IInv, NEW p \in Processes, OpenCommand(p)
    PROVE  IInv'
<1> USE DEF OpenCommand, loop
<1>1. UNCHANGED <<asset, ocrText, renditions, thumbnails, manifest, ready, starts>>
  BY DEF Initialize
<1>2. TypeOK'
  BY <1>1, InitializeKeeps DEF IInv, TypeOK
<1>3. InHand'
  BY DEF IInv, TypeOK, InHand
<1>4. Staging'
  BY <1>1, InitializeKeeps, InitializedStaging
<1> QED BY <1>2, <1>3, <1>4, InitializeKeeps DEF IInv

--------------------------------------------------------------------------------
(* run_pending_jobs *)

LEMMA PrepareIInv ==
    ASSUME IInv, NEW p \in Processes, Prepare(p)
    PROVE  IInv'
<1> USE DEF Prepare
<1>1. status' \in [Jobs -> Statuses] /\ pc' \in [Processes -> Positions]
  BY DEF IInv, TypeOK, Statuses, Positions
<1>2. TypeOK'
  BY <1>1 DEF IInv, TypeOK, recipes, commands
<1>3. InHand'
  BY DEF IInv, TypeOK, InHand, Holding, Working, commands
<1>4. \A j \in Jobs : HasRow(j)' => HasRow(j)
  BY DEF HasRow
<1>5. \A q \in Processes : staged[q] # <<>> => pc'[q] \in {"embedding", "finishing", "failing"}
  BY DEF IInv, TypeOK, Staging
<1> QED BY <1>2, <1>3, <1>4, <1>5, TablesKept DEF IInv, recipes

LEMMA FetchIInv ==
    ASSUME IInv, NEW p \in Processes, Fetch(p)
    PROVE  IInv'
<1> USE DEF Fetch
<1>1. batch' \in [Processes -> SUBSET Jobs] /\ pc' \in [Processes -> Positions]
  BY DEF IInv, TypeOK, Positions, Pending
<1>2. TypeOK'
  BY <1>1 DEF IInv, TypeOK, tables, recipes, commands
<1>3. InHand'
  BY DEF IInv, TypeOK, InHand, Holding, Working, commands
<1>4. \A j \in Jobs : HasRow(j)' => HasRow(j)
  BY DEF HasRow, tables
<1>5. \A q \in Processes : staged[q] # <<>> => pc'[q] \in {"embedding", "finishing", "failing"}
  BY DEF IInv, TypeOK, Staging
<1> QED BY <1>2, <1>3, <1>4, <1>5, TablesKept DEF IInv, tables, recipes

LEMMA ClaimIInv ==
    ASSUME IInv, NEW p \in Processes, NEW j \in Jobs, Claim(p, j) \/ ClaimTimesOut(p, j)
    PROVE  IInv'
<1>1. pc[p] = "looping" /\ staged[p] = <<>>
  BY NothingStaged DEF Claim, ClaimTimesOut, NextInBatch
<1>2. /\ batch' = [batch EXCEPT ![p] = @ \ {j}]
      /\ UNCHANGED <<asset, clock, age, recipeOf, embeddings, ocrText, renditions, thumbnails,
                     recipes, manifest, ready, starts, staged, commands>>
  BY DEF Claim, ClaimTimesOut, tables
<1>3. \/ UNCHANGED <<status, job, pc>>
      \/ /\ status[j] = "pending" /\ status' = [status EXCEPT ![j] = "running"]
         /\ job' = [job EXCEPT ![p] = j] /\ pc' = [pc EXCEPT ![p] = "claimed"]
      \/ /\ UNCHANGED status
         /\ job' = [job EXCEPT ![p] = j] /\ pc' = [pc EXCEPT ![p] = "failing"]
  <2>1. CASE Claim(p, j)
    BY <2>1 DEF Claim
  <2>2. CASE ClaimTimesOut(p, j)
    BY <2>2 DEF ClaimTimesOut, tables
  <2> QED BY <2>1, <2>2
<1>4. TypeOK'
  <2>1. batch' \in [Processes -> SUBSET Jobs]
    BY <1>2 DEF IInv, TypeOK
  <2>2. pc' \in [Processes -> Positions]
    BY <1>3 DEF IInv, TypeOK, Positions
  <2>3. status' \in [Jobs -> Statuses]
    <3>1. status' = status \/ status' = [status EXCEPT ![j] = "running"]
      BY <1>3
    <3>2. status \in [Jobs -> Statuses] /\ "running" \in Statuses
      BY DEF IInv, TypeOK, Statuses
    <3> QED BY <3>1, <3>2
  <2>4. job' \in [Processes -> Jobs \union {NoJob}]
    BY <1>3 DEF IInv, TypeOK
  <2> QED BY <1>2, <2>1, <2>2, <2>3, <2>4 DEF IInv, TypeOK, recipes, commands
<1>5. InHand'
  BY <1>2, <1>3 DEF IInv, TypeOK, InHand, Holding, Working, commands
<1>6. \A k \in Jobs : HasRow(k)' => HasRow(k)
  BY <1>3 DEF HasRow, IInv, TypeOK
<1>7. \A q \in Processes : staged[q] # <<>> =>
        job'[q] = job[q] /\ pc'[q] \in {"embedding", "finishing", "failing"}
  <2>1. \A q \in Processes : q # p => job'[q] = job[q] /\ pc'[q] = pc[q]
    BY <1>3 DEF IInv, TypeOK
  <2> QED BY <1>1, <2>1 DEF IInv, Staging
<1> QED BY <1>2, <1>4, <1>5, <1>6, <1>7, TablesKept DEF IInv, recipes

\* Rows of one recipe after rows of the same one.
LEMMA ConcatRows ==
    ASSUME NEW s \in Seq(Rows), NEW t \in Seq(Rows), NEW g,
           \A n \in 1..Len(s) : s[n].recipe = g, \A n \in 1..Len(t) : t[n].recipe = g
    PROVE  \A n \in 1..Len(s \o t) : (s \o t)[n].recipe = g
<1> SUFFICES ASSUME NEW n \in 1..Len(s \o t) PROVE (s \o t)[n].recipe = g
  OBVIOUS
<1> DEFINE all == s \o t
<1>1. Len(s) \in Nat /\ Len(t) \in Nat
  BY LenProperties
<1>2. /\ n \in 1..(Len(s) + Len(t))
      /\ all[n] = IF n <= Len(s) THEN s[n] ELSE t[n - Len(s)]
  BY ConcatProperties
<1> HIDE DEF all
<1>3. CASE n <= Len(s)
  BY <1>1, <1>2, <1>3
<1>4. CASE ~ n <= Len(s)
  <2>1. n - Len(s) \in 1..Len(t)
    BY <1>1, <1>2, <1>4
  <2> QED BY <1>2, <1>4, <2>1
<1> QED BY <1>3, <1>4

\* The end of a job.  Its asset is alive, or nothing was inserted.
LEMMA SettleKeeps ==
    ASSUME IInv, NEW p \in Processes, NEW s \in {"completed", "failed"},
           pc[p] \in Holding, Settle(p, s),
           ocrText' \in [Assets -> {"none", "damaged", "clean"}],
           renditions' \subseteq Assets, UNCHANGED thumbnails,
           \A a \in Assets : asset[a] = "deleted" =>
               ocrText'[a] = ocrText[a] /\ (a \in renditions' => a \in renditions)
    PROVE  IInv'
<1> DEFINE a == job[p].asset
           all == embeddings[a] \o staged[p]
<1>1. job[p] \in Jobs /\ a \in Assets
  BY DEF IInv, InHand, Jobs
<1>2. embeddings[a] \in Seq(Rows) /\ staged[p] \in Seq(Rows)
  BY <1>1 DEF IInv, TypeOK
<1>3. /\ embeddings' = [embeddings EXCEPT ![a] = all]
      /\ status' = Marked(job[p], s)
      /\ staged' = [staged EXCEPT ![p] = <<>>]
      /\ job' = [job EXCEPT ![p] = NoJob]
      /\ pc' = [pc EXCEPT ![p] = "looping"]
      /\ UNCHANGED <<asset, clock, age, recipeOf, recipes, manifest, ready, starts, batch, commands>>
  BY DEF Settle
<1>4. /\ all \in Seq(Rows)
      /\ staged[p] = <<>> => all = embeddings[a]
      /\ \A n \in 1..Len(all) : all[n].recipe = generation
  <2>1. \A n \in 1..Len(embeddings[a]) : embeddings[a][n].recipe = generation
    BY <1>1 DEF IInv, VectorsMatchRecipe
  <2>2. \A n \in 1..Len(staged[p]) : staged[p][n].recipe = generation
    <3>1. CASE staged[p] = <<>>
      BY <3>1
    <3>2. CASE staged[p] # <<>>
      BY <3>2 DEF IInv, Staging
    <3> QED BY <3>1, <3>2
  <2>3. \A n \in 1..Len(all) : all[n].recipe = generation
    BY <1>2, <2>1, <2>2, ConcatRows
  <2> QED BY <1>2, <2>3, ConcatProperties, ConcatEmptySeq
<1> HIDE DEF a, all
<1>5. TypeOK'
  <2>1. embeddings' \in [Assets -> Seq(Rows)]
    BY <1>3, <1>4 DEF IInv, TypeOK
  <2>2. status' \in [Jobs -> Statuses]
    BY <1>1, <1>3 DEF Marked, IInv, TypeOK, Statuses
  <2>3. pc' \in [Processes -> Positions] /\ job' \in [Processes -> Jobs \union {NoJob}]
    BY <1>3 DEF IInv, TypeOK, Positions
  <2>4. staged' \in [Processes -> Seq(Rows)]
    BY <1>3 DEF IInv, TypeOK
  <2> QED BY <1>3, <2>1, <2>2, <2>3, <2>4 DEF IInv, TypeOK, recipes, commands
<1>6. InHand'
  BY <1>3 DEF IInv, TypeOK, InHand, Holding, Working, commands
<1>7. Staging'
  BY <1>3 DEF IInv, TypeOK, Staging, Live, recipes
<1>8. VectorsMatchRecipe'
  BY <1>3, <1>4 DEF IInv, TypeOK, VectorsMatchRecipe, recipes
<1>9. DeletedLeavesNoRows'
  <2> SUFFICES ASSUME NEW b \in Assets, asset[b] = "deleted"
               PROVE  /\ embeddings'[b] = <<>> /\ ocrText'[b] = "none" /\ b \notin renditions'
                      /\ \A j \in Jobs : j.asset = b => ~ HasRow(j)'
    BY <1>3 DEF DeletedLeavesNoRows
  <2>1. /\ embeddings[b] = <<>> /\ ocrText[b] = "none" /\ b \notin renditions
        /\ \A j \in Jobs : j.asset = b => ~ HasRow(j)
    BY DEF IInv, DeletedLeavesNoRows
  <2>2. embeddings'[b] = <<>>
    <3>1. CASE b = a
      <4>1. staged[p] = <<>>
        BY <3>1 DEF IInv, Staging, Live, a
      <4> QED BY <1>3, <1>4, <2>1, <3>1, <4>1 DEF IInv, TypeOK
    <3>2. CASE b # a
      BY <1>3, <2>1, <3>2 DEF IInv, TypeOK
    <3> QED BY <3>1, <3>2
  <2>3. \A j \in Jobs : HasRow(j)' => HasRow(j)
    BY <1>1, <1>3 DEF HasRow, Marked, IInv, TypeOK
  <2> QED BY <2>1, <2>2, <2>3
<1> QED BY <1>5, <1>6, <1>7, <1>8, <1>9 DEF IInv

LEMMA EndOfJobIInv ==
    ASSUME IInv, NEW p \in Processes, Complete(p) \/ Fail(p)
    PROVE  IInv'
<1>1. ocrText \in [Assets -> {"none", "damaged", "clean"}] /\ renditions \subseteq Assets
  BY DEF IInv, TypeOK
<1> QED BY <1>1, SettleKeeps DEF Complete, Fail, Holding

LEMMA RecordThumbnailIInv ==
    ASSUME IInv, NEW p \in Processes, RecordThumbnail(p)
    PROVE  IInv'
<1> USE DEF RecordThumbnail
<1>1. pc[p] \in Holding
  BY DEF Holding, Working
<1>2. job[p].asset \in Assets
  BY <1>1 DEF IInv, InHand, Jobs
<1>3. ocrText' \in [Assets -> {"none", "damaged", "clean"}] /\ renditions' \subseteq Assets
  BY <1>2 DEF IInv, TypeOK
<1> QED BY <1>1, <1>3, SettleKeeps DEF Live

LEMMA StoreOcrIInv ==
    ASSUME IInv, NEW p \in Processes, StoreOcr(p)
    PROVE  IInv'
<1> USE DEF StoreOcr
<1>1. pc[p] \in Holding
  BY DEF Holding, Working
<1>2. ocrText' \in [Assets -> {"none", "damaged", "clean"}] /\ renditions' \subseteq Assets
  BY DEF IInv, TypeOK
<1>3. \A a \in Assets : asset[a] = "deleted" => ocrText'[a] = ocrText[a]
  BY DEF IInv, TypeOK, Live
<1> QED BY <1>1, <1>2, <1>3, SettleKeeps

LEMMA RaiseIInv ==
    ASSUME IInv, NEW p \in Processes, Raise(p)
    PROVE  IInv'
<1>1. thumbnails' \subseteq Assets
  BY DEF Raise, IInv, TypeOK
<1> QED BY <1>1, GoOnKeeps DEF Raise, Holding

\* A loop or a whole process ends: what it had in hand is rolled back.
LEMMA LeaveKeeps ==
    ASSUME IInv, NEW p \in Processes, Leave(p), UNCHANGED <<tables, thumbnails, recipes>>
    PROVE  /\ pc' \in [Processes -> Positions] /\ batch' \in [Processes -> SUBSET Jobs]
           /\ job' \in [Processes -> Jobs \union {NoJob}] /\ staged' \in [Processes -> Seq(Rows)]
           /\ Staging' /\ VectorsMatchRecipe' /\ DeletedLeavesNoRows'
           /\ \A q \in Processes : pc'[q] \in Holding => job'[q] \in Jobs
<1> USE DEF Leave, tables, recipes
<1>1. pc' \in [Processes -> Positions] /\ batch' \in [Processes -> SUBSET Jobs]
      /\ job' \in [Processes -> Jobs \union {NoJob}] /\ staged' \in [Processes -> Seq(Rows)]
  BY DEF IInv, TypeOK, Positions
<1>2. Staging'
  BY DEF IInv, TypeOK, Staging, Live
<1>3. VectorsMatchRecipe' /\ DeletedLeavesNoRows'
  BY DEF IInv, VectorsMatchRecipe, DeletedLeavesNoRows, HasRow
<1>4. \A q \in Processes : pc'[q] \in Holding => job'[q] \in Jobs
  BY DEF IInv, TypeOK, InHand, Holding, Working
<1> QED BY <1>1, <1>2, <1>3, <1>4

LEMMA EndRunIInv ==
    ASSUME IInv, NEW p \in Processes, EndRun(p)
    PROVE  IInv'
<1> USE DEF EndRun
<1>1. TypeOK'
  BY LeaveKeeps DEF IInv, TypeOK, tables, recipes, commands
<1>2. InHand'
  BY LeaveKeeps DEF IInv, InHand, commands
<1> QED BY <1>1, <1>2, LeaveKeeps DEF IInv

--------------------------------------------------------------------------------
(* The work of a claimed job *)

LEMMA BeginIInv ==
    ASSUME IInv, NEW p \in Processes, BeginThumbnail(p) \/ BeginEmbed(p) \/ BeginOcr(p)
    PROVE  IInv'
<1>1. pc[p] = "claimed" /\ staged[p] = <<>>
  BY NothingStaged DEF BeginThumbnail, BeginEmbed, BeginOcr, Begins
<1>2. PICK place \in Holding : GoTo(p, place)
  BY DEF BeginThumbnail, BeginEmbed, BeginOcr, Holding, Working
<1>3. thumbnails' \subseteq Assets
  BY <1>2 DEF GoTo, IInv, TypeOK
<1> QED BY <1>1, <1>2, <1>3, GoOnKeeps DEF GoTo, Holding, Working

LEMMA SaveThumbnailIInv ==
    ASSUME IInv, NEW p \in Processes, SaveThumbnail(p)
    PROVE  IInv'
<1> USE DEF SaveThumbnail
<1>1. staged[p] = <<>> /\ pc[p] \in Holding
  BY NothingStaged DEF Holding, Working
<1>2. thumbnails' \subseteq Assets
  BY <1>1 DEF IInv, TypeOK, InHand, Jobs
<1> QED BY <1>1, <1>2, GoOnKeeps DEF Holding, Working

LEMMA InsertRowIInv ==
    ASSUME IInv, NEW p \in Processes, InsertRow(p)
    PROVE  IInv'
<1> DEFINE row == [recipe |-> generation, frame |-> Len(staged[p]) + 1]
<1>1. /\ pc[p] = "embedding" /\ ~ Locked(p) /\ Live(job[p].asset)
      /\ staged' = [staged EXCEPT ![p] = Append(staged[p], row)]
      /\ pc' = [pc EXCEPT ![p] = IF Len(staged[p]) + 1 < FrameCount[job[p].asset]
                                 THEN "embedding" ELSE "finishing"]
      /\ UNCHANGED <<tables, thumbnails, recipes, manifest, ready, starts, batch, job, commands>>
  BY DEF InsertRow
<1>2. staged[p] \in Seq(Rows) /\ Len(staged[p]) \in Nat /\ row \in Rows
  <2>1. staged[p] \in Seq(Rows)
    BY DEF IInv, TypeOK
  <2>2. Len(staged[p]) \in Nat
    BY <2>1, LenProperties
  <2> QED BY <2>1, <2>2 DEF IInv, TypeOK, Rows
<1>3. row.recipe = generation
  OBVIOUS
<1> HIDE DEF row
<1>4. /\ Append(staged[p], row) \in Seq(Rows) /\ Append(staged[p], row) # <<>>
      /\ \A n \in 1..Len(Append(staged[p], row)) : Append(staged[p], row)[n].recipe = generation
  <2>1. /\ Append(staged[p], row) \in Seq(Rows) /\ Append(staged[p], row) # <<>>
        /\ Len(Append(staged[p], row)) = Len(staged[p]) + 1
        /\ \A n \in 1..Len(staged[p]) : Append(staged[p], row)[n] = staged[p][n]
        /\ Append(staged[p], row)[Len(staged[p]) + 1] = row
    BY <1>2, AppendProperties
  <2>2. \A n \in 1..Len(staged[p]) : staged[p][n].recipe = generation
    BY DEF IInv, Staging
  <2> QED BY <1>2, <1>3, <2>1, <2>2
<1>5. TypeOK'
  <2>1. staged' \in [Processes -> Seq(Rows)] /\ pc' \in [Processes -> Positions]
    BY <1>1, <1>4 DEF IInv, TypeOK, Positions
  <2> QED BY <1>1, <2>1 DEF IInv, TypeOK, tables, recipes, commands
<1>6. InHand'
  BY <1>1 DEF IInv, TypeOK, InHand, Holding, Working, commands
<1>7. Staging'
  <2>1. job[p] \in Jobs
    BY <1>1 DEF IInv, InHand, Holding, Working
  <2>2. \A q \in Processes \ {p} : staged[q] = <<>> /\ staged'[q] = <<>>
    BY <1>1 DEF Locked, IInv, TypeOK
  <2>3. staged'[p] = Append(staged[p], row) /\ pc'[p] \in {"embedding", "finishing"}
    BY <1>1 DEF IInv, TypeOK
  <2> QED BY <1>1, <1>4, <2>1, <2>2, <2>3 DEF Staging, Live, tables, recipes
<1>8. VectorsMatchRecipe' /\ DeletedLeavesNoRows'
  BY <1>1 DEF IInv, VectorsMatchRecipe, DeletedLeavesNoRows, HasRow, tables, recipes
<1> QED BY <1>5, <1>6, <1>7, <1>8 DEF IInv

--------------------------------------------------------------------------------
(* Commands and processes *)

\* A command leaves the loops alone.
LEMMA CommandKeeps ==
    ASSUME IInv, NEW p \in Processes, UNCHANGED loop,
           \/ Return(p)
           \/ /\ command' = [command EXCEPT ![p] = "rebuild"] \/ command' = [command EXCEPT ![p] = "delete"]
              /\ \E goal \in Targets : target' = [target EXCEPT ![p] = goal]
    PROVE  /\ pc' \in [Processes -> Positions] /\ batch' \in [Processes -> SUBSET Jobs]
           /\ job' \in [Processes -> Jobs \union {NoJob}] /\ staged' \in [Processes -> Seq(Rows)]
           /\ command' \in [Processes -> {"none", "open", "rebuild", "delete"}]
           /\ target' \in [Processes -> Targets \union {NoTarget}]
           /\ InHand'
           /\ UNCHANGED staged
           /\ \A q \in Processes : staged[q] # <<>> =>
                job'[q] = job[q] /\ pc'[q] \in {"embedding", "finishing", "failing"}
<1>1. /\ pc' \in [Processes -> Positions] /\ batch' \in [Processes -> SUBSET Jobs]
      /\ job' \in [Processes -> Jobs \union {NoJob}] /\ staged' \in [Processes -> Seq(Rows)]
  BY DEF IInv, TypeOK, loop
<1>2. command' \in [Processes -> {"none", "open", "rebuild", "delete"}]
  BY DEF IInv, TypeOK, Return
<1>3. target' \in [Processes -> Targets \union {NoTarget}]
  BY DEF IInv, TypeOK, Return
<1>4. InHand'
  BY DEF IInv, TypeOK, InHand, Return, loop
<1>5. \A q \in Processes : staged[q] # <<>> =>
        job'[q] = job[q] /\ pc'[q] \in {"embedding", "finishing", "failing"}
  BY DEF IInv, Staging, loop
<1> QED BY <1>1, <1>2, <1>3, <1>4, <1>5 DEF loop

\* Nobody inserts while somebody else writes.
LEMMA NotBusy ==
    ASSUME IInv, ~ Busy, UNCHANGED staged
    PROVE  Staging'
BY DEF Busy, Staging

LEMMA ImportIInv ==
    ASSUME IInv, NEW p \in Processes, NEW a \in Assets, Import(p, a)
    PROVE  IInv'
<1> DEFINE new == NextOf("thumbnail", {a}) \union NextOf("embed", {a}) \union NextOf("ocr", {a} \ Gifs)
<1>1. /\ asset[a] = "new" /\ asset' = [asset EXCEPT ![a] = "live"] /\ ~ Busy
      /\ Enqueue(new, status, generation)
      /\ Return(p)
      /\ UNCHANGED <<embeddings, ocrText, renditions, thumbnails, recipes, manifest, ready, starts, loop>>
  BY DEF Import
<1>2. new \in SUBSET {j \in Jobs : j.asset = a}
  BY DEF NextOf
<1> HIDE DEF new
<1>3. /\ status' \in [Jobs -> Statuses] /\ clock' \in Nat /\ age' \in [Jobs -> Nat]
      /\ recipeOf' \in [Jobs -> Generations \union {0}]
      /\ \A j \in Jobs : j.asset # a => status'[j] = status[j]
  <2>1. new \in SUBSET Jobs /\ status \in [Jobs -> Statuses] /\ generation \in Generations
    BY <1>2 DEF IInv, TypeOK
  <2> QED BY <1>1, <1>2, <2>1, EnqueueKeeps
<1>4. TypeOK'
  BY <1>1, <1>3, CommandKeeps DEF IInv, TypeOK, recipes
<1>5. Staging' /\ InHand'
  BY <1>1, CommandKeeps, NotBusy
<1>6. VectorsMatchRecipe'
  BY <1>1 DEF IInv, VectorsMatchRecipe, recipes
<1>7. DeletedLeavesNoRows'
  BY <1>1, <1>3 DEF IInv, TypeOK, DeletedLeavesNoRows, HasRow
<1> QED BY <1>4, <1>5, <1>6, <1>7 DEF IInv

LEMMA RebuildCheckIInv ==
    ASSUME IInv, NEW p \in Processes, NEW a \in Assets, RebuildCheck(p, a)
    PROVE  IInv'
<1> USE DEF RebuildCheck
<1>1. [asset |-> a, recipe |-> generation] \in Targets
  BY DEF IInv, TypeOK, Targets
<1>2. TypeOK'
  BY <1>1, CommandKeeps DEF IInv, TypeOK, tables, recipes
<1>3. \A j \in Jobs : HasRow(j)' => HasRow(j)
  BY DEF HasRow, tables
<1> QED BY <1>1, <1>2, <1>3, CommandKeeps, TablesKept DEF IInv, tables, recipes

LEMMA RebuildApplyIInv ==
    ASSUME IInv, NEW p \in Processes, RebuildApply(p)
    PROVE  IInv'
<1> DEFINE a == target[p].asset
           new == NextOf("embed", {a})
           dropped == {j \in JobsOf("embed", a) : status[j] \in {"pending", "failed"}}
<1>1. /\ ~ Busy /\ Live(a)
      /\ embeddings' = [embeddings EXCEPT ![a] = <<>>]
      /\ Enqueue(new, Dropped(dropped), generation)
      /\ Return(p)
      /\ UNCHANGED <<asset, ocrText, renditions, thumbnails, recipes, manifest, ready, starts, loop>>
  BY DEF RebuildApply
<1>2. new \in SUBSET {j \in Jobs : j.asset = a}
  BY DEF NextOf
<1>3. Dropped(dropped) \in [Jobs -> Statuses]
      /\ \A j \in Jobs : Dropped(dropped)[j] \in {status[j], "gone"}
  BY DEF Dropped, IInv, TypeOK, Statuses
<1> HIDE DEF a, new, dropped
<1>4. /\ status' \in [Jobs -> Statuses] /\ clock' \in Nat /\ age' \in [Jobs -> Nat]
      /\ recipeOf' \in [Jobs -> Generations \union {0}]
      /\ \A j \in Jobs : j.asset # a => status'[j] \in {status[j], "gone"}
  <2>1. new \in SUBSET Jobs /\ generation \in Generations
    BY <1>2 DEF IInv, TypeOK
  <2> QED BY <1>1, <1>2, <1>3, <2>1, EnqueueKeeps
<1>5. TypeOK'
  <2>1. embeddings' \in [Assets -> Seq(Rows)]
    BY <1>1, EmptiedKeeps DEF IInv, TypeOK
  <2> QED BY <1>1, <1>4, <2>1, CommandKeeps DEF IInv, TypeOK, recipes
<1>6. Staging' /\ InHand'
  BY <1>1, CommandKeeps, NotBusy
<1>7. VectorsMatchRecipe'
  BY <1>1 DEF IInv, TypeOK, VectorsMatchRecipe, recipes
<1>8. DeletedLeavesNoRows'
  <2>1. \A b \in Assets : embeddings[b] = <<>> => embeddings'[b] = <<>>
    BY <1>1 DEF IInv, TypeOK
  <2> QED BY <1>1, <1>4, <2>1 DEF IInv, DeletedLeavesNoRows, HasRow, Live
<1> QED BY <1>5, <1>6, <1>7, <1>8 DEF IInv

LEMMA DeleteFilesIInv ==
    ASSUME IInv, NEW p \in Processes, NEW a \in Assets, DeleteFiles(p, a)
    PROVE  IInv'
<1> USE DEF DeleteFiles
<1>1. [asset |-> a, recipe |-> generation] \in Targets /\ thumbnails' \subseteq Assets
  BY DEF IInv, TypeOK, Targets
<1>2. TypeOK'
  BY <1>1, CommandKeeps DEF IInv, TypeOK, tables, recipes
<1>3. \A j \in Jobs : HasRow(j)' => HasRow(j)
  BY DEF HasRow, tables
<1> QED BY <1>1, <1>2, <1>3, CommandKeeps, TablesKept DEF IInv, tables, recipes

LEMMA DeleteRowsIInv ==
    ASSUME IInv, NEW p \in Processes, DeleteRows(p)
    PROVE  IInv'
<1> DEFINE a == target[p].asset
<1>1. /\ ~ Busy
      /\ asset' = [asset EXCEPT ![a] = "deleted"]
      /\ status' = Dropped({j \in Jobs : j.asset = a})
      /\ embeddings' = [embeddings EXCEPT ![a] = <<>>]
      /\ ocrText' = [ocrText EXCEPT ![a] = "none"]
      /\ renditions' = renditions \ {a}
      /\ Return(p)
      /\ UNCHANGED <<clock, age, recipeOf, thumbnails, recipes, manifest, ready, starts, loop>>
  BY DEF DeleteRows
<1> HIDE DEF a
<1>2. status' \in [Jobs -> Statuses]
  BY <1>1 DEF Dropped, IInv, TypeOK, Statuses
<1>3. TypeOK'
  <2>1. /\ asset' \in [Assets -> {"new", "live", "deleted"}]
        /\ ocrText' \in [Assets -> {"none", "damaged", "clean"}]
    BY <1>1 DEF IInv, TypeOK
  <2>2. embeddings' \in [Assets -> Seq(Rows)]
    BY <1>1, EmptiedKeeps DEF IInv, TypeOK
  <2> QED BY <1>1, <1>2, <2>1, <2>2, CommandKeeps DEF IInv, TypeOK, recipes
<1>4. Staging' /\ InHand'
  BY <1>1, CommandKeeps, NotBusy
<1>5. VectorsMatchRecipe'
  BY <1>1 DEF IInv, TypeOK, VectorsMatchRecipe, recipes
<1>6. DeletedLeavesNoRows'
  <2> SUFFICES ASSUME NEW b \in Assets, asset'[b] = "deleted"
               PROVE  /\ embeddings'[b] = <<>> /\ ocrText'[b] = "none" /\ b \notin renditions'
                      /\ \A j \in Jobs : j.asset = b => ~ HasRow(j)'
    BY DEF DeletedLeavesNoRows
  <2>1. CASE b = a
    BY <1>1, <2>1 DEF IInv, TypeOK, Dropped, HasRow
  <2>2. CASE b # a
    BY <1>1, <2>2 DEF IInv, TypeOK, DeletedLeavesNoRows, Dropped, HasRow
  <2> QED BY <2>1, <2>2
<1> QED BY <1>3, <1>4, <1>5, <1>6 DEF IInv

LEMMA StatusCommandIInv ==
    ASSUME IInv, NEW p \in Processes, RetryFailed(p) \/ (\E j \in Jobs : Dismiss(p, j)) \/ GiveUp(p)
    PROVE  IInv'
<1>1. /\ Return(p)
      /\ UNCHANGED <<asset, clock, age, recipeOf, embeddings, ocrText, renditions, thumbnails,
                     recipes, manifest, ready, starts, loop>>
  BY DEF RetryFailed, Dismiss, GiveUp, tables
<1>2. status' \in [Jobs -> Statuses] /\ \A k \in Jobs : HasRow(k)' => HasRow(k)
  <2>1. CASE RetryFailed(p)
    BY <2>1 DEF RetryFailed, HasRow, IInv, TypeOK, Statuses
  <2>2. ASSUME NEW j \in Jobs, Dismiss(p, j)
        PROVE  status' \in [Jobs -> Statuses] /\ \A k \in Jobs : HasRow(k)' => HasRow(k)
    BY <2>2 DEF Dismiss, HasRow, IInv, TypeOK, Statuses
  <2>3. CASE GiveUp(p)
    BY <2>3 DEF GiveUp, HasRow, IInv, TypeOK, tables
  <2> QED BY <2>1, <2>2, <2>3
<1>3. TypeOK'
  BY <1>1, <1>2, CommandKeeps DEF IInv, TypeOK, recipes
<1> QED BY <1>1, <1>2, <1>3, CommandKeeps, TablesKept DEF IInv, recipes

LEMMA StartIInv ==
    ASSUME IInv, NEW p \in Processes, NEW v \in Versions, Start(p, v)
    PROVE  IInv'
<1> USE DEF Start
<1>1. TypeOK'
  <2>1. manifest' \in [Processes -> Versions \union {NoVersion}] /\ starts' \in Nat
    BY DEF IInv, TypeOK
  <2> QED BY <2>1 DEF IInv, TypeOK, tables, recipes, loop, commands
<1>2. InHand'
  BY DEF IInv, InHand, loop, commands
<1>3. \A j \in Jobs : HasRow(j)' => HasRow(j)
  BY DEF HasRow, tables
<1>4. \A q \in Processes : staged[q] # <<>> => pc'[q] \in {"embedding", "finishing", "failing"}
  BY DEF IInv, Staging, loop
<1> QED BY <1>1, <1>2, <1>3, <1>4, TablesKept DEF IInv, tables, recipes, loop

\* Whether a worker may begin a run is of no account to the tables and the loops.
LEMMA ReadyIInv ==
    ASSUME IInv, NEW p \in Processes, Resume(p) \/ Pause(p)
    PROVE  IInv'
<1> USE DEF Resume, Pause
<1>1. TypeOK' /\ InHand'
  BY DEF IInv, TypeOK, InHand, tables, recipes, loop, commands
<1>2. \A j \in Jobs : HasRow(j)' => HasRow(j)
  BY DEF HasRow, tables
<1>3. \A q \in Processes : staged[q] # <<>> => pc'[q] \in {"embedding", "finishing", "failing"}
  BY DEF IInv, Staging, loop
<1> QED BY <1>1, <1>2, <1>3, TablesKept DEF IInv, tables, recipes, loop

LEMMA CrashIInv ==
    ASSUME IInv, NEW p \in Processes, Crash(p)
    PROVE  IInv'
<1> USE DEF Crash
<1>1. TypeOK'
  <2>1. manifest' \in [Processes -> Versions \union {NoVersion}]
    BY DEF IInv, TypeOK
  <2>2. /\ command' \in [Processes -> {"none", "open", "rebuild", "delete"}]
        /\ target' \in [Processes -> Targets \union {NoTarget}]
    BY DEF IInv, TypeOK, Return
  <2> QED BY <2>1, <2>2, LeaveKeeps DEF IInv, TypeOK, tables, recipes
<1>2. InHand'
  BY LeaveKeeps DEF IInv, TypeOK, InHand, Return
<1> QED BY <1>1, <1>2, LeaveKeeps DEF IInv

--------------------------------------------------------------------------------
LEMMA NextIInv == IInv /\ [Next]_vars => IInv'
<1> SUFFICES ASSUME IInv, [Next]_vars PROVE IInv'
  OBVIOUS
<1>1. ASSUME NEW p \in Processes, LoopStep(p) PROVE IInv'
  BY <1>1, OpenIInv, PrepareIInv, FetchIInv, ClaimIInv, BeginIInv, SaveThumbnailIInv,
     RecordThumbnailIInv, InsertRowIInv, StoreOcrIInv, RaiseIInv, EndOfJobIInv, EndRunIInv
  DEF LoopStep
<1>2. ASSUME NEW p \in Processes, CommandStep(p) PROVE IInv'
  BY <1>2, OpenCommandIInv, ImportIInv, RebuildCheckIInv, RebuildApplyIInv, DeleteFilesIInv,
     DeleteRowsIInv, StatusCommandIInv DEF CommandStep
<1>3. CASE UNCHANGED vars
  <2>1. TypeOK' /\ InHand'
    BY <1>3 DEF IInv, TypeOK, InHand, vars, tables, recipes, loop, commands
  <2>2. \A j \in Jobs : HasRow(j)' => HasRow(j)
    BY <1>3 DEF HasRow, vars, tables
  <2>3. \A q \in Processes : staged[q] # <<>> => pc'[q] \in {"embedding", "finishing", "failing"}
    BY <1>3 DEF IInv, Staging, vars, loop
  <2> QED BY <1>3, <2>1, <2>2, <2>3, TablesKept DEF IInv, vars, tables, recipes, loop
<1> QED BY <1>1, <1>2, <1>3, StartIInv, ReadyIInv, CrashIInv DEF Next

LEMMA Invariance == Spec => []IInv
BY InitIInv, NextIInv, PTL DEF Spec

\* indexing_store.py, job_queue.py: rows, positions and what is in hand keep their types.
THEOREM TypeCorrect == Spec => []TypeOK
BY Invariance, PTL DEF IInv

\* activate_manifest_recipe: the vectors of an asset are all of the active recipe, also
\* those that a loop of another process inserts during an activation.
THEOREM RecipesNeverMix == Spec => []VectorsMatchRecipe
BY Invariance, PTL DEF IInv

\* delete_asset: no loop brings back a row of an asset that was deleted under it.
THEOREM DeletedStaysDeleted == Spec => []DeletedLeavesNoRows
BY Invariance, PTL DEF IInv

--------------------------------------------------------------------------------
(* Jobs that are gone *)

\* The step neither touches a job without a row nor lets one run.
Tame ==
    \A j \in Jobs : status'[j] # status[j] =>
        status[j] \notin {"dismissed", "gone"} /\ status'[j] # "running"

\* No loop begins with a job.
Quiet == \A q \in Processes : pc'[q] = "claimed" => job'[q] = job[q]

LEMMA EnqueueTame ==
    ASSUME IInv, NEW new \in SUBSET {j \in Jobs : IsNext(j)}, NEW st \in [Jobs -> Statuses], NEW g,
           Enqueue(new, st, g),
           \A j \in Jobs : st[j] = status[j] \/ (HasRow(j) /\ st[j] = "gone")
    PROVE  Tame
BY DEF Enqueue, Tame, IsNext, HasRow

LEMMA DroppedIs ==
    ASSUME IInv, NEW J
    PROVE  /\ Dropped(J) \in [Jobs -> Statuses]
           /\ \A j \in Jobs : Dropped(J)[j] = status[j] \/ (HasRow(j) /\ Dropped(J)[j] = "gone")
BY DEF Dropped, IInv, TypeOK, Statuses

LEMMA InitializeTame ==
    ASSUME IInv, NEW p \in Processes, Initialize(p)
    PROVE  Tame
<1> DEFINE new == NextOf("ocr", MissingOcr)
                    \union (IF manifest[p] # version THEN NextOf("embed", LiveAssets) ELSE {})
           dropped == IF manifest[p] # version THEN {j \in Jobs : j.kind = "embed"} ELSE {}
<1>1. Enqueue(new, Dropped(dropped), generation')
  BY DEF Initialize
<1>2. new \in SUBSET {j \in Jobs : IsNext(j)}
  BY DEF NextOf
<1> HIDE DEF new, dropped
<1>3. PICK g : g = generation'
  OBVIOUS
<1> QED BY <1>1, <1>2, <1>3, DroppedIs, EnqueueTame

LEMMA SettleTame ==
    ASSUME IInv, NEW p \in Processes, NEW s \in {"completed", "failed"}, Settle(p, s)
    PROVE  Tame /\ Quiet
<1>1. \A j \in Jobs : status'[j] # status[j] => HasRow(j) /\ status'[j] = s
  BY DEF Settle, Marked, HasRow, IInv, TypeOK
<1>2. \A q \in Processes : pc'[q] = "claimed" => q # p
  BY DEF Settle, IInv, TypeOK
<1>3. \A q \in Processes : q # p => job'[q] = job[q]
  BY DEF Settle, IInv, TypeOK
<1> QED BY <1>1, <1>2, <1>3 DEF Tame, Quiet, HasRow

\* Commands leave the loops alone.
LEMMA CommandTame ==
    ASSUME IInv, NEW p \in Processes, CommandStep(p)
    PROVE  Tame /\ UNCHANGED <<pc, job, staged>>
<1>1. CASE OpenCommand(p)
  BY <1>1, InitializeTame DEF OpenCommand, loop
<1>2. ASSUME NEW a \in Assets, Import(p, a) PROVE Tame /\ UNCHANGED <<pc, job, staged>>
  <2> DEFINE new == NextOf("thumbnail", {a}) \union NextOf("embed", {a}) \union NextOf("ocr", {a} \ Gifs)
  <2>1. Enqueue(new, status, generation) /\ UNCHANGED loop
    BY <1>2 DEF Import
  <2>2. new \in SUBSET {j \in Jobs : IsNext(j)}
    BY DEF NextOf
  <2> HIDE DEF new
  <2>3. status \in [Jobs -> Statuses]
    BY DEF IInv, TypeOK
  <2> QED BY <2>1, <2>2, <2>3, EnqueueTame DEF loop
<1>3. ASSUME NEW a \in Assets, RebuildCheck(p, a) \/ DeleteFiles(p, a)
      PROVE  Tame /\ UNCHANGED <<pc, job, staged>>
  BY <1>3 DEF RebuildCheck, DeleteFiles, tables, loop, Tame
<1>4. CASE RebuildApply(p)
  <2> DEFINE a == target[p].asset
             new == NextOf("embed", {a})
             dropped == {j \in JobsOf("embed", a) : status[j] \in {"pending", "failed"}}
  <2>1. Enqueue(new, Dropped(dropped), generation) /\ UNCHANGED loop
    BY <1>4 DEF RebuildApply
  <2>2. new \in SUBSET {j \in Jobs : IsNext(j)}
    BY DEF NextOf
  <2> HIDE DEF new, dropped
  <2> QED BY <2>1, <2>2, DroppedIs, EnqueueTame DEF loop
<1>5. CASE DeleteRows(p)
  <2>1. status' = Dropped({j \in Jobs : j.asset = target[p].asset}) /\ UNCHANGED loop
    BY <1>5 DEF DeleteRows
  <2> QED BY <2>1, DroppedIs DEF loop, Tame, HasRow
<1>6. CASE RetryFailed(p)
  BY <1>6 DEF RetryFailed, loop, Tame, IInv, TypeOK
<1>7. ASSUME NEW j \in Jobs, Dismiss(p, j) PROVE Tame /\ UNCHANGED <<pc, job, staged>>
  BY <1>7 DEF Dismiss, loop, Tame, IInv, TypeOK
<1>8. CASE GiveUp(p)
  BY <1>8 DEF GiveUp, tables, loop, Tame
<1> QED BY <1>1, <1>2, <1>3, <1>4, <1>5, <1>6, <1>7, <1>8 DEF CommandStep

\* So does everything in a loop but the claim.
LEMMA LoopTame ==
    ASSUME IInv, NEW p \in Processes, LoopStep(p), \A j \in Jobs : ~ Claim(p, j)
    PROVE  Tame /\ Quiet
<1>1. CASE Open(p)
  BY <1>1, InitializeTame DEF Open, Quiet, IInv, TypeOK
<1>2. CASE Prepare(p)
  BY <1>2 DEF Prepare, Tame, Quiet, IInv, TypeOK
<1>3. CASE Fetch(p)
  BY <1>3 DEF Fetch, tables, Tame, Quiet, IInv, TypeOK
<1>4. ASSUME NEW j \in Jobs, ClaimTimesOut(p, j) PROVE Tame /\ Quiet
  BY <1>4 DEF ClaimTimesOut, tables, Tame, Quiet, IInv, TypeOK
<1>5. CASE BeginThumbnail(p) \/ BeginEmbed(p) \/ BeginOcr(p) \/ SaveThumbnail(p) \/ InsertRow(p) \/ Raise(p)
  <2>1. UNCHANGED <<status, job>>
    BY <1>5 DEF BeginThumbnail, BeginEmbed, BeginOcr, GoTo, SaveThumbnail, InsertRow, Raise, tables
  <2> QED BY <2>1 DEF Tame, Quiet
<1>6. CASE RecordThumbnail(p) \/ StoreOcr(p) \/ Complete(p) \/ Fail(p)
  BY <1>6, SettleTame DEF RecordThumbnail, StoreOcr, Complete, Fail
<1>7. CASE EndRun(p)
  BY <1>7 DEF EndRun, Leave, tables, Tame, Quiet, IInv, TypeOK
<1> QED BY <1>1, <1>2, <1>3, <1>4, <1>5, <1>6, <1>7 DEF LoopStep

LEMMA OtherTame ==
    ASSUME IInv, NEW p \in Processes,
           (\E v \in Versions : Start(p, v)) \/ Resume(p) \/ Pause(p) \/ Crash(p)
    PROVE  Tame /\ Quiet
<1>1. CASE (\E v \in Versions : Start(p, v)) \/ Resume(p) \/ Pause(p)
  BY <1>1 DEF Start, Resume, Pause, tables, loop, Tame, Quiet
<1>2. CASE Crash(p)
  BY <1>2 DEF Crash, Leave, tables, Tame, Quiet, IInv, TypeOK
<1> QED BY <1>1, <1>2

\* claim_job, delete_pending_jobs: a loop never starts on a job that was deleted, also not
\* on one it had fetched before, and the row never comes back.
THEOREM DeletedJobsStayAway == Spec => DismissedNeverRuns
<1> DEFINE Away == \A j \in Jobs : status[j] \in {"dismissed", "gone"} =>
                     /\ status'[j] = status[j]
                     /\ \A p \in Processes : ~ Claims(p, j)
<1>1. IInv /\ [Next]_vars => [Away]_vars
  <2> SUFFICES ASSUME IInv, Next PROVE Away
    OBVIOUS
  <2>1. Tame /\ Quiet => Away
    BY DEF Tame, Quiet, Claims
  <2>2. ASSUME NEW p \in Processes, NEW j \in Jobs, Claim(p, j) PROVE Away
    <3>1. CASE status[j] = "pending"
      <4>1. \A q \in Processes : job'[q] # job[q] => job'[q] = j
        BY <2>2, <3>1 DEF Claim, IInv, TypeOK
      <4>2. \A k \in Jobs : status'[k] # status[k] => k = j
        BY <2>2, <3>1 DEF Claim, IInv, TypeOK
      <4> QED BY <3>1, <4>1, <4>2 DEF Claims
    <3>2. CASE status[j] # "pending"
      BY <2>2, <3>2 DEF Claim, Claims
    <3> QED BY <3>1, <3>2
  <2>3. ASSUME NEW p \in Processes, CommandStep(p) PROVE Tame /\ Quiet
    BY <2>3, CommandTame DEF Quiet
  <2> QED BY <2>1, <2>2, <2>3, LoopTame, OtherTame DEF Next
<1> HIDE DEF Away
<1>2. Spec => [][Away]_vars
  BY <1>1, Invariance, PTL DEF Spec
<1> QED BY <1>2 DEF Away, DismissedNeverRuns

--------------------------------------------------------------------------------
(* With one process *)

OneProcess == \A p, q \in Processes : p = q

\* Frames are numbered as they are inserted, and inserted when there is no row yet.
FramesInOrder ==
    /\ \A a \in Assets : \A n \in 1..Len(embeddings[a]) : embeddings[a][n].frame = n
    /\ \A p \in Processes :
         /\ \A n \in 1..Len(staged[p]) : staged[p][n].frame = n
         /\ pc[p] = "embedding" \/ staged[p] # <<>> => embeddings[job[p].asset] = <<>>

\* A row that says "running" is the job in hand, or what a crash has left and the next
\* run puts back before it claims anything.
RunningIsInHand ==
    \A p \in Processes : \A j \in Jobs :
        status[j] = "running" => pc[p] \in {"idle", "opened"} \/ (pc[p] \in Holding /\ job[p] = j)

SoleInv == FramesInOrder /\ RunningIsInHand /\ OneRunningJob

LEMMA InitSoleInv == Init => SoleInv
<1> SUFFICES ASSUME Init PROVE SoleInv
  OBVIOUS
<1> USE IndexingAssumption DEF Init
<1>1. FramesInOrder
  BY DEF FramesInOrder
<1>2. \A j \in Jobs : status[j] # "running"
  OBVIOUS
<1> QED BY <1>1, <1>2 DEF SoleInv, RunningIsInHand, OneRunningJob

\* Vectors stay or go, and nobody begins to embed.
LEMMA FramesKept ==
    ASSUME IInv, FramesInOrder,
           \A a \in Assets : embeddings'[a] \in {embeddings[a], <<>>},
           \A q \in Processes : staged'[q] \in {staged[q], <<>>},
           \A q \in Processes : pc'[q] = "embedding" \/ staged'[q] # <<>> =>
               job'[q] = job[q] /\ (pc[q] = "embedding" \/ staged[q] # <<>>)
    PROVE  FramesInOrder'
<1>1. \A q \in Processes : pc[q] = "embedding" \/ staged[q] # <<>> => job[q].asset \in Assets
  BY DEF IInv, InHand, Staging, Holding, Working, Jobs
<1>2. \A q \in Processes : pc'[q] = "embedding" \/ staged'[q] # <<>> => embeddings'[job'[q].asset] = <<>>
  BY <1>1 DEF FramesInOrder
<1>3. \A a \in Assets : \A n \in 1..Len(embeddings'[a]) : embeddings'[a][n].frame = n
  BY DEF FramesInOrder
<1>4. \A q \in Processes : \A n \in 1..Len(staged'[q]) : staged'[q][n].frame = n
  BY DEF FramesInOrder
<1> QED BY <1>2, <1>3, <1>4 DEF FramesInOrder

\* The loop stays where it was with its job, or is at its beginning.
LEMMA RunningKept ==
    ASSUME RunningIsInHand, OneRunningJob, Tame,
           \A q \in Processes : \/ pc'[q] \in {"idle", "opened"}
                                \/ pc'[q] = pc[q] /\ job'[q] = job[q]
                                \/ {pc[q], pc'[q]} \subseteq Holding /\ job'[q] = job[q]
    PROVE  RunningIsInHand' /\ OneRunningJob'
<1>1. \A j \in Jobs : status'[j] = "running" => status[j] = "running"
  BY DEF Tame
<1>2. RunningIsInHand'
  <2> SUFFICES ASSUME NEW q \in Processes, NEW j \in Jobs, status'[j] = "running"
               PROVE  pc'[q] \in {"idle", "opened"} \/ (pc'[q] \in Holding /\ job'[q] = j)
    BY DEF RunningIsInHand
  <2>1. pc[q] \in {"idle", "opened"} \/ (pc[q] \in Holding /\ job[q] = j)
    BY <1>1 DEF RunningIsInHand
  <2> QED BY <2>1 DEF Holding, Working
<1> QED BY <1>1, <1>2 DEF OneRunningJob

LEMMA NoneRunning ==
    ASSUME \A j \in Jobs : status'[j] # "running"
    PROVE  RunningIsInHand' /\ OneRunningJob'
BY DEF RunningIsInHand, OneRunningJob

LEMMA CommandSole ==
    ASSUME IInv, SoleInv, NEW p \in Processes, CommandStep(p)
    PROVE  SoleInv'
<1>1. Tame /\ UNCHANGED <<pc, job, staged>>
  BY CommandTame
<1>2. \A a \in Assets : embeddings'[a] \in {embeddings[a], <<>>}
  <2>1. CASE OpenCommand(p)
    BY <2>1 DEF OpenCommand, Initialize
  <2>2. CASE RebuildApply(p) \/ DeleteRows(p)
    <3>1. embeddings' = [embeddings EXCEPT ![target[p].asset] = <<>>]
      BY <2>2 DEF RebuildApply, DeleteRows
    <3> QED BY <3>1 DEF IInv, TypeOK
  <2>3. CASE ~ (OpenCommand(p) \/ RebuildApply(p) \/ DeleteRows(p))
    <3>1. UNCHANGED embeddings
      BY <2>3 DEF CommandStep, Import, RebuildCheck, DeleteFiles, RetryFailed, Dismiss, GiveUp, tables
    <3> QED BY <3>1
  <2> QED BY <2>1, <2>2, <2>3
<1>3. FramesInOrder'
  BY <1>1, <1>2, FramesKept DEF SoleInv
<1>4. RunningIsInHand' /\ OneRunningJob'
  BY <1>1, RunningKept DEF SoleInv
<1> QED BY <1>3, <1>4 DEF SoleInv

LEMMA OtherSole ==
    ASSUME IInv, SoleInv, NEW p \in Processes,
           (\E v \in Versions : Start(p, v)) \/ Resume(p) \/ Pause(p) \/ Crash(p)
    PROVE  SoleInv'
<1>1. UNCHANGED <<status, embeddings>>
  BY DEF Start, Resume, Pause, Crash, tables
<1>2. \A q \in Processes : \/ pc'[q] = "idle" /\ staged'[q] = <<>>
                           \/ pc'[q] = pc[q] /\ job'[q] = job[q] /\ staged'[q] = staged[q]
  BY DEF Start, Resume, Pause, Crash, Leave, loop, IInv, TypeOK
<1>3. FramesInOrder'
  BY <1>1, <1>2, FramesKept DEF SoleInv
<1>4. RunningIsInHand' /\ OneRunningJob'
  BY <1>1, <1>2, RunningKept DEF SoleInv, Tame
<1> QED BY <1>3, <1>4 DEF SoleInv

\* What was inserted is committed: there was nothing before.
LEMMA SettleSole ==
    ASSUME IInv, SoleInv, OneProcess, NEW p \in Processes, NEW s \in {"completed", "failed"},
           Settle(p, s), pc[p] \in Holding
    PROVE  SoleInv'
<1> DEFINE a == job[p].asset
           all == embeddings[a] \o staged[p]
<1>1. job[p] \in Jobs /\ a \in Assets
  BY DEF IInv, InHand, Jobs
<1>2. embeddings[a] \in Seq(Rows) /\ staged[p] \in Seq(Rows)
  BY <1>1 DEF IInv, TypeOK
<1>3. /\ embeddings' = [embeddings EXCEPT ![a] = all]
      /\ status' = Marked(job[p], s)
      /\ staged' = [staged EXCEPT ![p] = <<>>]
      /\ pc' = [pc EXCEPT ![p] = "looping"]
  BY DEF Settle
<1>4. all = embeddings[a] \/ all = staged[p]
  <2>1. CASE staged[p] = <<>>
    BY <1>2, <2>1, ConcatEmptySeq
  <2>2. CASE staged[p] # <<>>
    BY <1>2, <2>2, ConcatEmptySeq DEF SoleInv, FramesInOrder
  <2> QED BY <2>1, <2>2
<1>5. \A n \in 1..Len(all) : all[n].frame = n
  BY <1>1, <1>4 DEF SoleInv, FramesInOrder
<1> HIDE DEF a, all
<1>6. \A q \in Processes : q = p /\ staged'[q] = <<>> /\ pc'[q] = "looping"
  BY <1>3 DEF OneProcess, IInv, TypeOK
<1>7. FramesInOrder'
  <2>1. \A b \in Assets : \A n \in 1..Len(embeddings'[b]) : embeddings'[b][n].frame = n
    BY <1>3, <1>5 DEF SoleInv, FramesInOrder, IInv, TypeOK
  <2> QED BY <1>6, <2>1 DEF FramesInOrder
<1>8. \A j \in Jobs : status[j] = "running" => j = job[p]
  BY DEF SoleInv, RunningIsInHand, Holding, Working
<1>9. \A j \in Jobs : status'[j] # "running"
  BY <1>1, <1>3, <1>8 DEF Marked, HasRow, IInv, TypeOK
<1> QED BY <1>7, <1>9, NoneRunning DEF SoleInv

LEMMA InsertRowSole ==
    ASSUME IInv, SoleInv, OneProcess, NEW p \in Processes, InsertRow(p)
    PROVE  SoleInv'
<1> DEFINE row == [recipe |-> generation, frame |-> Len(staged[p]) + 1]
<1>1. /\ pc[p] = "embedding"
      /\ staged' = [staged EXCEPT ![p] = Append(staged[p], row)]
      /\ pc' = [pc EXCEPT ![p] = IF Len(staged[p]) + 1 < FrameCount[job[p].asset]
                                 THEN "embedding" ELSE "finishing"]
      /\ UNCHANGED <<tables, job>>
  BY DEF InsertRow
<1>2. staged[p] \in Seq(Rows) /\ Len(staged[p]) \in Nat /\ row \in Rows
  <2>1. staged[p] \in Seq(Rows)
    BY DEF IInv, TypeOK
  <2>2. Len(staged[p]) \in Nat
    BY <2>1, LenProperties
  <2> QED BY <2>1, <2>2 DEF IInv, TypeOK, Rows
<1>3. row.frame = Len(staged[p]) + 1
  OBVIOUS
<1> HIDE DEF row
<1>4. \A n \in 1..Len(Append(staged[p], row)) : Append(staged[p], row)[n].frame = n
  <2>1. /\ Len(Append(staged[p], row)) = Len(staged[p]) + 1
        /\ \A n \in 1..Len(staged[p]) : Append(staged[p], row)[n] = staged[p][n]
        /\ Append(staged[p], row)[Len(staged[p]) + 1] = row
    BY <1>2, AppendProperties
  <2>2. \A n \in 1..Len(staged[p]) : staged[p][n].frame = n
    BY DEF SoleInv, FramesInOrder
  <2> QED BY <1>2, <1>3, <2>1, <2>2
<1>5. \A q \in Processes : q = p /\ staged'[q] = Append(staged[p], row)
  BY <1>1 DEF OneProcess, IInv, TypeOK
<1>6. embeddings[job[p].asset] = <<>>
  BY <1>1 DEF SoleInv, FramesInOrder
<1>7. FramesInOrder'
  BY <1>1, <1>4, <1>5, <1>6 DEF SoleInv, FramesInOrder, tables
<1>8. \A q \in Processes : {pc[q], pc'[q]} \subseteq Holding
  BY <1>1 DEF OneProcess, IInv, TypeOK, Holding, Working
<1>9. RunningIsInHand' /\ OneRunningJob'
  BY <1>1, <1>8, RunningKept DEF SoleInv, Tame, tables
<1> QED BY <1>7, <1>9 DEF SoleInv

\* has_embedding has said that there are no vectors, and vectors are of the active recipe.
LEMMA BeginEmbedSole ==
    ASSUME IInv, SoleInv, OneProcess, NEW p \in Processes, BeginEmbed(p)
    PROVE  SoleInv'
<1>1. /\ pc[p] = "claimed" /\ UNCHANGED <<tables, job, staged>>
      /\ pc' = [pc EXCEPT ![p] = IF Embedded(job[p].asset) THEN "finishing" ELSE "embedding"]
  BY DEF BeginEmbed, Begins, GoTo
<1>2. staged[p] = <<>> /\ job[p].asset \in Assets
  BY <1>1, NothingStaged DEF IInv, InHand, Holding, Working, Jobs
<1>3. ~ Embedded(job[p].asset) => embeddings[job[p].asset] = <<>>
  <2> DEFINE rows == embeddings[job[p].asset]
  <2> SUFFICES ASSUME ~ Embedded(job[p].asset) PROVE rows = <<>>
    OBVIOUS
  <2>1. rows \in Seq(Rows) /\ Len(rows) \in Nat
    BY <1>2, LenProperties DEF IInv, TypeOK
  <2>2. \A n \in 1..Len(rows) : FALSE
    BY <1>2 DEF IInv, VectorsMatchRecipe, Embedded
  <2> QED BY <2>1, <2>2, EmptySeq
<1>4. \A q \in Processes : q = p /\ pc'[q] = IF Embedded(job[p].asset) THEN "finishing" ELSE "embedding"
  BY <1>1 DEF OneProcess, IInv, TypeOK
<1>5. FramesInOrder'
  BY <1>1, <1>2, <1>3, <1>4 DEF SoleInv, FramesInOrder, tables
<1>6. \A q \in Processes : {pc[q], pc'[q]} \subseteq Holding
  BY <1>1, <1>4 DEF Holding, Working
<1>7. RunningIsInHand' /\ OneRunningJob'
  BY <1>1, <1>6, RunningKept DEF SoleInv, Tame, tables
<1> QED BY <1>5, <1>7 DEF SoleInv

\* Nothing runs when a loop claims: requeue_incomplete_jobs was there before.
LEMMA ClaimSole ==
    ASSUME IInv, SoleInv, OneProcess, NEW p \in Processes, NEW j \in Jobs, Claim(p, j)
    PROVE  SoleInv'
<1>1. pc[p] = "looping" /\ UNCHANGED <<embeddings, staged>>
  BY DEF Claim, NextInBatch
<1>2. \A k \in Jobs : status[k] # "running"
  BY <1>1 DEF SoleInv, RunningIsInHand, Holding, Working
<1>3. CASE status[j] # "pending"
  <2>1. UNCHANGED <<status, job, pc>>
    BY <1>3 DEF Claim
  <2> QED BY <1>1, <1>2, <2>1, NoneRunning DEF SoleInv, FramesInOrder
<1>4. CASE status[j] = "pending"
  <2>1. /\ status' = [status EXCEPT ![j] = "running"]
        /\ job' = [job EXCEPT ![p] = j] /\ pc' = [pc EXCEPT ![p] = "claimed"]
    BY <1>4 DEF Claim
  <2>2. \A q \in Processes : q = p /\ pc'[q] = "claimed" /\ job'[q] = j /\ staged'[q] = <<>>
    BY <1>1, <2>1, NothingStaged DEF OneProcess, IInv, TypeOK
  <2>3. \A k \in Jobs : status'[k] = "running" => k = j
    BY <1>2, <2>1 DEF IInv, TypeOK
  <2>4. FramesInOrder'
    BY <1>1, <2>2 DEF SoleInv, FramesInOrder
  <2> QED BY <2>2, <2>3, <2>4 DEF SoleInv, RunningIsInHand, OneRunningJob, Holding, Working
<1> QED BY <1>3, <1>4

LEMMA LoopSole ==
    ASSUME IInv, SoleInv, OneProcess, NEW p \in Processes, LoopStep(p)
    PROVE  SoleInv'
<1>1. CASE Open(p)
  <2>1. /\ pc[p] = "idle" /\ pc' = [pc EXCEPT ![p] = "opened"] /\ UNCHANGED <<job, staged>>
        /\ \A a \in Assets : embeddings'[a] \in {embeddings[a], <<>>}
    BY <1>1 DEF Open, Initialize
  <2>2. \A q \in Processes : pc'[q] = "opened" \/ pc'[q] = pc[q]
    BY <2>1 DEF IInv, TypeOK
  <2>3. FramesInOrder'
    BY <2>1, <2>2, FramesKept DEF SoleInv
  <2>4. Tame
    BY <1>1, InitializeTame DEF Open
  <2> QED BY <2>1, <2>2, <2>3, <2>4, RunningKept DEF SoleInv
<1>2. CASE Prepare(p)
  <2>1. \A j \in Jobs : status'[j] # "running"
    BY <1>2 DEF Prepare
  <2>2. \A q \in Processes : pc'[q] = "embedding" => pc[q] = "embedding"
    BY <1>2 DEF Prepare, IInv, TypeOK
  <2>3. FramesInOrder'
    BY <1>2, <2>2, FramesKept DEF Prepare, SoleInv
  <2> QED BY <2>1, <2>3, NoneRunning DEF SoleInv
<1>3. CASE Fetch(p)
  <2>1. /\ pc[p] = "prepared" /\ pc' = [pc EXCEPT ![p] = "looping"]
        /\ UNCHANGED <<status, embeddings, job, staged>>
    BY <1>3 DEF Fetch, tables
  <2>2. \A j \in Jobs : status'[j] # "running"
    BY <2>1 DEF SoleInv, RunningIsInHand, Holding, Working
  <2>3. \A q \in Processes : pc'[q] = "embedding" => pc[q] = "embedding"
    BY <2>1 DEF IInv, TypeOK
  <2>4. FramesInOrder'
    BY <2>1, <2>3, FramesKept DEF SoleInv
  <2> QED BY <2>2, <2>4, NoneRunning DEF SoleInv
<1>4. ASSUME NEW j \in Jobs, ClaimTimesOut(p, j) PROVE SoleInv'
  BY <1>4 DEF ClaimTimesOut, Locked, OneProcess
<1>5. CASE BeginThumbnail(p) \/ BeginOcr(p) \/ SaveThumbnail(p) \/ Raise(p)
  <2>1. /\ pc[p] \in Holding /\ UNCHANGED <<status, embeddings, job, staged>>
        /\ \E place \in Holding \ {"embedding"} : pc' = [pc EXCEPT ![p] = place]
    <3>1. CASE BeginThumbnail(p) \/ BeginOcr(p)
      BY <3>1 DEF BeginThumbnail, BeginOcr, Begins, GoTo, tables, Holding, Working
    <3>2. CASE SaveThumbnail(p) \/ Raise(p)
      BY <3>2 DEF SaveThumbnail, Raise, tables, Holding, Working
    <3> QED BY <1>5, <3>1, <3>2
  <2>2. \A q \in Processes : \/ pc'[q] = pc[q]
                             \/ {pc[q], pc'[q]} \subseteq Holding /\ pc'[q] # "embedding"
    BY <2>1 DEF IInv, TypeOK
  <2>3. FramesInOrder'
    BY <2>1, <2>2, FramesKept DEF SoleInv
  <2> QED BY <2>1, <2>2, <2>3, RunningKept DEF SoleInv, Tame
<1>6. CASE RecordThumbnail(p) \/ StoreOcr(p) \/ Complete(p) \/ Fail(p)
  <2>1. pc[p] \in Holding
    BY <1>6 DEF RecordThumbnail, StoreOcr, Complete, Fail, Holding, Working
  <2> QED BY <1>6, <2>1, SettleSole DEF RecordThumbnail, StoreOcr, Complete, Fail
<1>7. CASE EndRun(p)
  <2>1. UNCHANGED <<status, embeddings>>
    BY <1>7 DEF EndRun, tables
  <2>2. \A q \in Processes : \/ pc'[q] = "idle" /\ staged'[q] = <<>>
                             \/ pc'[q] = pc[q] /\ job'[q] = job[q] /\ staged'[q] = staged[q]
    BY <1>7 DEF EndRun, Leave, IInv, TypeOK
  <2>3. FramesInOrder'
    BY <2>1, <2>2, FramesKept DEF SoleInv
  <2> QED BY <2>1, <2>2, <2>3, RunningKept DEF SoleInv, Tame
<1> QED BY <1>1, <1>2, <1>3, <1>4, <1>5, <1>6, <1>7, ClaimSole, BeginEmbedSole, InsertRowSole
    DEF LoopStep

LEMMA SoleInvariance == ASSUME OneProcess PROVE Spec => [](IInv /\ SoleInv)
<1>1. IInv /\ SoleInv /\ [Next]_vars => SoleInv'
  <2> SUFFICES ASSUME IInv, SoleInv, [Next]_vars PROVE SoleInv'
    OBVIOUS
  <2>1. CASE UNCHANGED vars
    BY <2>1 DEF vars, tables, loop, SoleInv, FramesInOrder, RunningIsInHand, OneRunningJob
  <2> QED BY <2>1, LoopSole, CommandSole, OtherSole DEF Next
<1> QED BY <1>1, InitIInv, NextIInv, InitSoleInv, PTL DEF Spec

\* requeue_incomplete_jobs, claim_job: as long as one process runs the loop, two jobs
\* never say "running", also after it was killed in the middle of one.
THEOREM RunningJobsAreSerial == ASSUME OneProcess PROVE Spec => []OneRunningJob
BY SoleInvariance, PTL DEF SoleInv

\* run_embed_asset_job, has_embedding: as long as one process runs the loop, a frame has at
\* most one vector, whatever failures, retries, kills and rebuilds there were.
THEOREM FramesAreEmbeddedOnce == ASSUME OneProcess PROVE Spec => []OneRowPerFrame
<1>1. SoleInv => OneRowPerFrame
  BY DEF SoleInv, FramesInOrder, OneRowPerFrame
<1> QED BY <1>1, SoleInvariance, PTL

================================================================================
