------------------------- MODULE NothingForgottenProofs -------------------------
(* No asset is forgotten, for any number of processes, assets and jobs: what    *)
(* stays behind for an asset while loops, commands and activations of several   *)
(* processes work on it.                                                        *)
EXTENDS IndexingProofs, WellFoundedInduction

\* A library that indexes, and numbers for a job of every recipe of every asset: 1, 2 and
\* so on, up to some number or without an end.
NumbersSuffice ==
    /\ "embed" \in Kinds /\ 1..MaxGenerations \subseteq Numbers
    /\ \A n \in Numbers : n # 0 /\ 1..n \subseteq Numbers

\* The program's own numbers have no end, and then nothing is assumed about them.
LEMMA NumbersWithoutEnd ==
    ASSUME "embed" \in Kinds, Numbers = Nat \ {0}
    PROVE  NumbersSuffice
BY IndexingAssumption DEF NumbersSuffice

Born(j) == status[j] # "unborn"

\* The jobs of an asset get its numbers one after the other.
InOrder ==
    /\ \A i, j \in Jobs :
          i.kind = j.kind /\ i.asset = j.asset /\ i.number < j.number /\ Born(j) => Born(i)
    /\ \A j \in Jobs : asset[j.asset] = "new" => ~ Born(j)

\* Some numbers are left for the recipes that may still be activated.
Room(a) ==
    Live(a) => \E m \in Numbers : /\ m + MaxGenerations - generation \in Numbers
                                  /\ \A j \in JobsOf("embed", a) : Born(j) => j.number <= m

\* What a loop has in hand are jobs that were created, of the right kind.
AtHand(p) ==
    /\ \A j \in batch[p] : Born(j)
    /\ pc[p] \in Holding => Born(job[p])
    /\ pc[p] \in {"thumbnailing", "saved"} => job[p].kind = "thumbnail"
    /\ pc[p] = "recognizing" => job[p].kind = "ocr"

\* An activation takes the rows of the jobs of other recipes.
JobsAreCurrent == \A j \in Jobs : j.kind = "embed" /\ HasRow(j) => recipeOf[j] = generation

\* A coming run will embed the asset, for a job after the n-th; or the operator does not
\* want it to.
Attended(a, n) ==
    \E j \in JobsOf("embed", a) : status[j] = "dismissed" \/ (Incomplete(j) /\ j.number > n)

Remembered(a) == Live(a) => Embedded(a) \/ Attended(a, 0)

\* A job that is about to be completed leaves its asset to its rows, or to a later job.
Owed(p) ==
    pc[p] = "finishing" /\ job[p].kind = "embed" /\ Live(job[p].asset) =>
        \/ Embedded(job[p].asset) \/ staged[p] # <<>>
        \/ Attended(job[p].asset, job[p].number)

\* The inductive invariant, with IInv.
CareInv ==
    /\ InOrder /\ JobsAreCurrent
    /\ \A a \in Assets : Room(a) /\ Remembered(a)
    /\ \A p \in Processes : AtHand(p) /\ Owed(p)

\* In a library that was just opened, only the assets of an old version have jobs.
LEMMA InitCareInv == ASSUME NumbersSuffice PROVE Init => CareInv
<1> SUFFICES ASSUME Init PROVE CareInv
  OBVIOUS
<1> USE IndexingAssumption DEF Init
<1>1. \A n \in Numbers : n \in Nat /\ n >= 1
  BY DEF NumbersSuffice
<1>2. 1 \in Numbers /\ 1 + MaxGenerations - 1 \in Numbers
  BY DEF NumbersSuffice
<1>3. InOrder
  <2>1. \A j \in Jobs : j.number \in Nat /\ j.number >= 1 /\ j.asset \in Assets
    BY <1>1 DEF Jobs
  <2>2. \A j \in Jobs : Born(j) <=> j.asset \in Legacy /\ j.number = 1
    BY DEF Born
  <2>3. \A a \in Assets : asset[a] = "new" => a \notin Legacy
    OBVIOUS
  <2> QED BY <2>1, <2>2, <2>3 DEF InOrder
<1>4. JobsAreCurrent
  BY DEF JobsAreCurrent, HasRow
<1>5. ASSUME NEW a \in Assets PROVE Room(a) /\ Remembered(a)
  <2>1. Room(a)
    <3>1. \A j \in JobsOf("embed", a) : Born(j) => j.number <= 1
      BY DEF Born, JobsOf
    <3> QED BY <1>2, <3>1 DEF Room
  <2>2. Live(a) => embeddings[a] = <<[recipe |-> 1, frame |-> 1]>>
    BY DEF Live
  <2>3. Live(a) => Embedded(a)
    BY <2>2 DEF Embedded
  <2> QED BY <2>1, <2>3 DEF Remembered
<1>6. ASSUME NEW p \in Processes PROVE AtHand(p) /\ Owed(p)
  BY DEF AtHand, Owed, Holding, Working
<1> QED BY <1>3, <1>4, <1>5, <1>6 DEF CareInv

\* An incomplete job is of the active recipe, so that the library does not say "missing_index".
LEMMA CareIsEnough == ASSUME IInv, CareInv PROVE NothingForgotten
<1> SUFFICES ASSUME NEW a \in Assets, Live(a), AssetStatus(a) = "missing_index"
             PROVE  \E j \in JobsOf("embed", a) : status[j] = "dismissed"
  BY DEF NothingForgotten
<1>1. ~ Embedded(a) /\ \A j \in ActiveJobs(a) : status[j] # "failed" /\ ~ Incomplete(j)
  BY DEF AssetStatus
<1>2. PICK j \in JobsOf("embed", a) : status[j] = "dismissed" \/ Incomplete(j)
  BY <1>1 DEF CareInv, Remembered, Attended
<1>3. Incomplete(j) => j \in ActiveJobs(a)
  BY <1>2 DEF CareInv, JobsAreCurrent, JobsOf, Incomplete, HasRow, ActiveJobs
<1> QED BY <1>1, <1>2, <1>3

--------------------------------------------------------------------------------
(* New jobs *)

\* A set of numbers has a least one.
LEMMA Least ==
    ASSUME NEW S \in SUBSET Nat, S # {}
    PROVE  \E x \in S : \A y \in S : x <= y
<1> DEFINE R == OpToRel(<, Nat)
<1>1. IsWellFoundedOn(R, Nat)
  BY NatLessThanWellFounded
<1>2. \A x, y \in Nat : y < x => <<y, x>> \in R
  BY DEF OpToRel
<1> HIDE DEF R
<1>3. PICK x \in S : \A y \in S : ~ (<<y, x>> \in R)
  BY <1>1, WFMin
<1>4. \A y \in S : ~ (y < x)
  BY <1>2, <1>3
<1> QED BY <1>4

\* What a job is made of,
LEMMA JobFields ==
    ASSUME NEW j \in Jobs
    PROVE  j.kind \in Kinds /\ j.asset \in Assets /\ j.number \in Nat /\ j.number \in Numbers
BY IndexingAssumption DEF Jobs

\* and that it is nothing else.
LEMMA SameJob ==
    ASSUME NEW i \in Jobs, NEW j \in Jobs, i.kind = j.kind, i.asset = j.asset, i.number = j.number
    PROVE  i = j
BY DEF Jobs

\* While an asset has a number left, its next job is there.
LEMMA NextExists ==
    ASSUME NEW a \in Assets, NEW i \in JobsOf("embed", a), ~ Born(i)
    PROVE  \E j \in NextOf("embed", {a}) : j \in JobsOf("embed", a)
<1> DEFINE unborn == {j \in JobsOf("embed", a) : ~ Born(j)}
           S == {j.number : j \in unborn}
<1>1. S \in SUBSET Nat /\ i.number \in S
  BY JobFields DEF JobsOf
<1>2. PICK n \in S : \A m \in S : n <= m
  BY <1>1, Least
<1>3. PICK j \in unborn : j.number = n
  BY <1>2
<1>4. \A k \in JobsOf("embed", a) : k.number < j.number => Born(k)
  <2> SUFFICES ASSUME NEW k \in JobsOf("embed", a), k.number < j.number, ~ Born(k) PROVE FALSE
    OBVIOUS
  <2>1. k.number \in S /\ k.number \in Nat /\ j.number \in Nat
    BY JobFields DEF JobsOf
  <2> QED BY <1>2, <1>3, <2>1
<1> QED BY <1>3, <1>4 DEF NextOf, IsNext, JobsOf, Born

\* A next job comes after all that were created,
LEMMA NextIsLater ==
    ASSUME InOrder, NEW i \in Jobs, IsNext(i), NEW j \in Jobs, Born(j),
           i.kind = j.kind, i.asset = j.asset
    PROVE  j.number < i.number
<1>1. i.number \in Nat /\ j.number \in Nat
  BY JobFields
<1>2. i.number # j.number
  BY SameJob DEF IsNext, Born
<1>3. ~ i.number < j.number
  BY DEF InOrder, IsNext, Born
<1> QED BY <1>1, <1>2, <1>3

\* and before all the others.
LEMMA NextIsFirst ==
    ASSUME NEW i \in Jobs, IsNext(i), NEW j \in Jobs, ~ Born(j),
           i.kind = j.kind, i.asset = j.asset
    PROVE  i.number <= j.number
<1>1. i.number \in Nat /\ j.number \in Nat
  BY JobFields
<1>2. ~ j.number < i.number
  BY DEF IsNext, Born, JobsOf
<1> QED BY <1>1, <1>2

\* A step that creates the next jobs of live assets, or none.
LEMMA BirthsInOrder ==
    ASSUME InOrder, NEW new \in SUBSET {j \in Jobs : IsNext(j)},
           \A j \in Jobs : Born(j)' <=> Born(j) \/ j \in new,
           \A a \in Assets : asset'[a] = "new" => asset[a] = "new",
           \A j \in new : asset'[j.asset] # "new"
    PROVE  InOrder'
<1>1. ASSUME NEW i \in Jobs, NEW j \in Jobs, i.kind = j.kind, i.asset = j.asset,
             i.number < j.number, Born(j)'
      PROVE  Born(i)'
  <2>1. CASE Born(j)
    BY <1>1, <2>1 DEF InOrder
  <2>2. CASE j \in new
    BY <1>1, <2>2 DEF IsNext, JobsOf, Born
  <2> QED BY <1>1, <2>1, <2>2
<1>2. ASSUME NEW j \in Jobs, asset'[j.asset] = "new" PROVE ~ Born(j)'
  BY <1>2, JobFields DEF InOrder
<1> QED BY <1>1, <1>2 DEF InOrder

\* INSERT INTO job: exactly the new jobs are created.
LEMMA EnqueueBirths ==
    ASSUME NEW new \in SUBSET {j \in Jobs : IsNext(j)}, NEW st, NEW g, Enqueue(new, st, g),
           \A j \in Jobs : st[j] = status[j] \/ (HasRow(j) /\ st[j] = "gone")
    PROVE  \A j \in Jobs : Born(j)' <=> Born(j) \/ j \in new
BY DEF Enqueue, Born, IsNext, HasRow

\* A step that leaves some jobs of the asset where they are in the order.
LEMMA RoomKept ==
    ASSUME NEW a \in Assets, Room(a), Live(a)' => Live(a), generation' = generation,
           \A j \in JobsOf("embed", a) : Born(j)' => Born(j)
    PROVE  Room(a)'
BY DEF Room, JobsOf

\* A job that was just created is one that a coming run will take, after any older one.
LEMMA NewAttends ==
    ASSUME NumbersSuffice, InOrder, NEW a \in Assets, NEW i \in JobsOf("embed", a), IsNext(i),
           status'[i] = "pending"
    PROVE  /\ Attended(a, 0)'
           /\ \A j \in JobsOf("embed", a) : Born(j) => Attended(a, j.number)'
<1>1. i \in Jobs /\ i.kind = "embed" /\ i.asset = a /\ i.number \in Nat /\ i.number # 0
  BY JobFields DEF JobsOf, NumbersSuffice
<1>2. Incomplete(i)'
  BY DEF Incomplete
<1>3. Attended(a, 0)'
  <2>1. i.number > 0
    BY <1>1
  <2> QED BY <1>2, <2>1 DEF Attended, JobsOf
<1>4. ASSUME NEW j \in JobsOf("embed", a), Born(j) PROVE Attended(a, j.number)'
  <2>1. j.number < i.number /\ j.number \in Nat
    BY <1>1, <1>4, NextIsLater, JobFields DEF JobsOf
  <2>2. i.number > j.number
    BY <1>1, <2>1
  <2> QED BY <1>2, <2>2 DEF Attended, JobsOf
<1> QED BY <1>3, <1>4

--------------------------------------------------------------------------------
(* What steps leave alone *)

\* What the step leaves of an asset: its rows, and the jobs that attend to it.
Heeded(a) ==
    Live(a)' =>
        /\ Live(a) /\ (Embedded(a) => Embedded(a)')
        /\ \A j \in JobsOf("embed", a) :
              /\ status[j] = "dismissed" => status'[j] = "dismissed"
              /\ Incomplete(j) => Incomplete(j)' \/ status'[j] = "dismissed"

\* The step is not one of this loop.
Same(q) == pc'[q] = pc[q] /\ batch'[q] = batch[q] /\ job'[q] = job[q] /\ staged'[q] = staged[q]

\* What heeds an asset leaves it attended to, remembered and owed.
LEMMA AttendedKept ==
    ASSUME NEW a \in Assets, NEW n, Heeded(a), Live(a)', Attended(a, n)
    PROVE  Attended(a, n)'
BY DEF Heeded, Attended, JobsOf

LEMMA RememberedKept ==
    ASSUME NEW a \in Assets, Heeded(a), Remembered(a)
    PROVE  Remembered(a)'
BY AttendedKept DEF Remembered, Heeded

LEMMA OwedKept ==
    ASSUME NEW q \in Processes, NEW j \in Jobs, job[q] = j, job'[q] = j, Heeded(j.asset), Owed(q),
           pc'[q] = "finishing" => pc[q] = "finishing" /\ staged'[q] = staged[q]
    PROVE  Owed(q)'
<1> SUFFICES ASSUME pc'[q] = "finishing", j.kind = "embed", Live(j.asset)'
             PROVE  \/ Embedded(j.asset)' \/ staged'[q] # <<>> \/ Attended(j.asset, j.number)'
  BY DEF Owed
<1>1. Live(j.asset) /\ (Embedded(j.asset) => Embedded(j.asset)')
  BY DEF Heeded
<1>2. j.asset \in Assets
  BY JobFields
<1>3. Embedded(j.asset) \/ staged[q] # <<>> \/ Attended(j.asset, j.number)
  BY <1>1 DEF Owed
<1> QED BY <1>1, <1>2, <1>3, AttendedKept

\* A loop keeps what it has in hand, or lets go of it.
LEMMA AtHandKept ==
    ASSUME IInv, NEW q \in Processes, AtHand(q), \A j \in Jobs : Born(j) => Born(j)',
           batch'[q] \subseteq batch[q],
           pc'[q] \notin Holding \/ (pc'[q] = pc[q] /\ job'[q] = job[q])
    PROVE  AtHand(q)'
<1>1. batch[q] \subseteq Jobs /\ (pc[q] \in Holding => job[q] \in Jobs)
  BY DEF IInv, TypeOK, InHand
<1>2. \A j \in batch'[q] : Born(j)'
  BY <1>1 DEF AtHand
<1>3. CASE pc'[q] \notin Holding
  BY <1>2, <1>3 DEF AtHand, Holding, Working
<1>4. CASE pc'[q] = pc[q] /\ job'[q] = job[q]
  <2>1. pc'[q] \in Holding => Born(job[q])'
    <3> SUFFICES ASSUME pc[q] \in Holding PROVE Born(job[q])'
      BY <1>4
    <3>1. PICK j \in Jobs : j = job[q]
      BY <1>1
    <3>2. Born(j)'
      BY <3>1 DEF AtHand
    <3> QED BY <1>4, <3>1, <3>2 DEF Born
  <2> QED BY <1>2, <1>4, <2>1 DEF AtHand, Born
<1> QED BY <1>3, <1>4

\* The next job of the asset's indexing is created.
Reborn(a) == \E i \in JobsOf("embed", a) : IsNext(i) /\ status'[i] = "pending"

\* A new job attends to the asset for every older one.
LEMMA RebornAttended ==
    ASSUME NumbersSuffice, InOrder, NEW a \in Assets, Reborn(a)
    PROVE  /\ Attended(a, 0)'
           /\ \A j \in JobsOf("embed", a) : Born(j) => Attended(a, j.number)'
<1>1. PICK i \in JobsOf("embed", a) : IsNext(i) /\ status'[i] = "pending"
  BY DEF Reborn
<1> QED BY <1>1, NewAttends

\* A step that leaves the loops alone, or takes care of the one that makes it, and of every
\* asset heeds what there is or creates a job.
LEMMA CareKept ==
    ASSUME NumbersSuffice, IInv, CareInv,
           NEW new \in SUBSET {j \in Jobs : IsNext(j)},
           \A j \in Jobs : Born(j)' <=> Born(j) \/ j \in new,
           \A j \in new : asset'[j.asset] # "new",
           \A a \in Assets : asset'[a] = "new" => asset[a] = "new",
           \A a \in Assets : Room(a)' /\ (Heeded(a) \/ Reborn(a)),
           JobsAreCurrent',
           \A q \in Processes : Same(q) \/ (AtHand(q)' /\ Owed(q)')
    PROVE  CareInv'
<1>1. InOrder'
  BY BirthsInOrder DEF CareInv
<1>2. ASSUME NEW a \in Assets PROVE Remembered(a)'
  BY RememberedKept, RebornAttended DEF CareInv, Remembered
<1>3. ASSUME NEW q \in Processes, Same(q) PROVE AtHand(q)' /\ Owed(q)'
  <2>1. AtHand(q)'
    BY <1>3, AtHandKept DEF CareInv, Same
  <2>2. CASE pc[q] # "finishing"
    BY <1>3, <2>1, <2>2 DEF Same, Owed
  <2>3. CASE pc[q] = "finishing"
    <3>1. PICK j \in Jobs : j = job[q]
      BY <2>3 DEF IInv, InHand, Holding
    <3>2. j.asset \in Assets
      BY JobFields
    <3>3. CASE Heeded(j.asset)
      BY <1>3, <2>1, <3>1, <3>3, OwedKept DEF CareInv, Same
    <3>4. CASE Reborn(j.asset) /\ j.kind = "embed"
      <4>1. Born(j)
        BY <2>3, <3>1 DEF CareInv, AtHand, Holding
      <4>2. Attended(j.asset, j.number)'
        BY <3>2, <3>4, <4>1, RebornAttended DEF CareInv, JobsOf
      <4> QED BY <1>3, <2>1, <3>1, <4>2 DEF Same, Owed
    <3>5. CASE j.kind # "embed"
      BY <1>3, <2>1, <3>1, <3>5 DEF Same, Owed
    <3> QED BY <3>2, <3>3, <3>4, <3>5
  <2> QED BY <2>2, <2>3
<1> QED BY <1>1, <1>2, <1>3 DEF CareInv

\* No job of an asset's indexing is created or completed, and no row is taken away.
LEMMA CalmKeeps ==
    ASSUME NumbersSuffice, IInv, CareInv,
           NEW new \in SUBSET {j \in Jobs : IsNext(j)},
           \A j \in new : j.kind # "embed" /\ asset'[j.asset] # "new",
           \A j \in Jobs : Born(j)' <=> Born(j) \/ j \in new,
           \A a \in Assets : asset'[a] \in {asset[a], "deleted"} /\ Heeded(a),
           generation' = generation,
           \A j \in Jobs : j.kind = "embed" => recipeOf'[j] = recipeOf[j] /\ (HasRow(j)' => HasRow(j)),
           \A q \in Processes : Same(q) \/ (AtHand(q)' /\ Owed(q)')
    PROVE  CareInv'
<1>1. JobsAreCurrent'
  BY DEF CareInv, JobsAreCurrent
<1>2. ASSUME NEW a \in Assets PROVE Room(a)'
  <2>1. \A j \in JobsOf("embed", a) : Born(j)' => Born(j)
    BY DEF JobsOf
  <2>2. Live(a)' => Live(a)
    BY DEF Heeded
  <2> QED BY <2>1, <2>2, RoomKept DEF CareInv
<1> QED BY <1>1, <1>2, CareKept

\* A step that only moves statuses, and neither completes nor removes a job of an asset's
\* indexing unless the operator dismisses it.
LEMMA CalmRows ==
    ASSUME NumbersSuffice, IInv, CareInv,
           UNCHANGED <<asset, recipeOf, generation>>,
           \A a \in Assets : Embedded(a) => Embedded(a)',
           \A j \in Jobs : status'[j] # status[j] =>
               /\ HasRow(j) /\ (HasRow(j)' \/ status'[j] = "dismissed")
               /\ j.kind = "embed" /\ Incomplete(j) => Incomplete(j)' \/ status'[j] = "dismissed",
           \A q \in Processes : Same(q) \/ (AtHand(q)' /\ Owed(q)')
    PROVE  CareInv'
<1>1. \A j \in Jobs : Born(j)' <=> Born(j)
  BY DEF Born, HasRow
<1>2. \A j \in Jobs : HasRow(j)' => HasRow(j)
  BY DEF HasRow
<1>3. ASSUME NEW a \in Assets PROVE Heeded(a)
  BY DEF Heeded, Live, JobsOf, HasRow, Incomplete
<1>4. PICK new \in SUBSET {j \in Jobs : IsNext(j)} : new = {}
  OBVIOUS
<1> QED BY <1>1, <1>2, <1>3, <1>4, CalmKeeps

\* One where the job table stays as it is.
LEMMA CalmTables ==
    ASSUME NumbersSuffice, IInv, CareInv,
           UNCHANGED <<asset, recipeOf, generation, embeddings, status>>,
           \A q \in Processes : Same(q) \/ (AtHand(q)' /\ Owed(q)')
    PROVE  CareInv'
<1>1. \A a \in Assets : Embedded(a) => Embedded(a)'
  BY DEF Embedded
<1> QED BY <1>1, CalmRows

\* What was inserted is committed behind what was there.
LEMMA SettleEmbedded ==
    ASSUME IInv, NEW p \in Processes, NEW s, Settle(p, s), pc[p] \in Holding
    PROVE  /\ \A a \in Assets : Embedded(a) => Embedded(a)'
           /\ \A j \in Jobs : j = job[p] /\ staged[p] # <<>> => Embedded(j.asset)'
<1>1. PICK j \in Jobs : j = job[p]
  BY DEF IInv, InHand
<1>2. j.asset \in Assets
  BY JobFields
<1> DEFINE old == embeddings[j.asset]
           rows == staged[p]
           all == old \o rows
<1>3. old \in Seq(Rows) /\ rows \in Seq(Rows) /\ Len(old) \in Nat /\ Len(rows) \in Nat
  <2>1. old \in Seq(Rows) /\ rows \in Seq(Rows)
    BY <1>2 DEF IInv, TypeOK
  <2> QED BY <2>1, LenProperties
<1>4. /\ embeddings' = [embeddings EXCEPT ![j.asset] = all] /\ generation' = generation
      /\ Len(all) = Len(old) + Len(rows)
      /\ \A n \in 1..Len(old) : all[n] = old[n]
      /\ \A n \in 1..Len(rows) : all[Len(old) + n] = rows[n]
  <2>1. embeddings' = [embeddings EXCEPT ![j.asset] = all] /\ generation' = generation
    BY <1>1 DEF Settle, recipes
  <2>2. /\ Len(all) = Len(old) + Len(rows)
        /\ \A n \in 1..(Len(old) + Len(rows)) : all[n] = IF n <= Len(old) THEN old[n] ELSE rows[n - Len(old)]
    BY <1>3, ConcatProperties
  <2> HIDE DEF old, rows, all
  <2>3. \A n \in 1..Len(old) : all[n] = old[n]
    BY <1>3, <2>2
  <2>4. ASSUME NEW n \in 1..Len(rows) PROVE all[Len(old) + n] = rows[n]
    <3>1. Len(old) + n \in 1..(Len(old) + Len(rows)) /\ ~ (Len(old) + n <= Len(old))
          /\ (Len(old) + n) - Len(old) = n
      BY <1>3
    <3> QED BY <2>2, <3>1
  <2> QED BY <2>1, <2>2, <2>3, <2>4
<1>5. ASSUME NEW a \in Assets, Embedded(a) PROVE Embedded(a)'
  <2>1. CASE a = j.asset
    <3>1. PICK n \in 1..Len(old) : old[n].recipe = generation
      BY <1>5, <2>1 DEF Embedded
    <3>2. embeddings'[a] = all
      BY <1>4, <2>1 DEF IInv, TypeOK
    <3> HIDE DEF old, rows, all
    <3>3. n \in 1..Len(all) /\ all[n].recipe = generation
      BY <1>3, <1>4, <3>1
    <3> QED BY <1>4, <3>2, <3>3 DEF Embedded
  <2>2. CASE a # j.asset
    <3>1. embeddings'[a] = embeddings[a]
      BY <1>4, <2>2 DEF IInv, TypeOK
    <3> QED BY <1>4, <1>5, <3>1 DEF Embedded
  <2> QED BY <2>1, <2>2
<1>6. ASSUME rows # <<>> PROVE Embedded(j.asset)'
  <2>1. 1 \in 1..Len(rows)
    BY <1>3, <1>6, EmptySeq
  <2>2. rows[1].recipe = generation
    BY <1>6, <2>1 DEF IInv, Staging
  <2>3. embeddings'[j.asset] = all
    BY <1>2, <1>4 DEF IInv, TypeOK
  <2> HIDE DEF old, rows, all
  <2>4. Len(old) + 1 \in 1..Len(all) /\ all[Len(old) + 1].recipe = generation
    BY <1>3, <1>4, <2>1, <2>2
  <2>5. \E n \in 1..Len(all) : all[n].recipe = generation
    BY <2>4
  <2> QED BY <1>4, <2>3, <2>5 DEF Embedded
<1> QED BY <1>1, <1>5, <1>6

--------------------------------------------------------------------------------
(* Steps of a loop *)

\* The loop lets go of its job, or keeps it and what it had fetched.
LEMMA LetGo ==
    ASSUME NEW p \in Processes, \A j \in batch'[p] : Born(j)', pc'[p] \notin Holding
    PROVE  AtHand(p)' /\ Owed(p)'
BY DEF AtHand, Owed, Holding, Working

\* Running and failed jobs wait again.
LEMMA PrepareCare ==
    ASSUME NumbersSuffice, IInv, CareInv, NEW p \in Processes, Prepare(p)
    PROVE  CareInv'
<1> USE DEF Prepare
<1>1. UNCHANGED <<asset, recipeOf, generation, embeddings, batch>>
  BY DEF recipes
<1>2. \A j \in Jobs : status'[j] # status[j] => HasRow(j) /\ HasRow(j)' /\ Incomplete(j)'
  BY DEF IInv, TypeOK, HasRow, Incomplete
<1>3. \A q \in Processes \ {p} : Same(q)
  BY DEF IInv, TypeOK, Same
<1>4. AtHand(p)' /\ Owed(p)'
  <2>1. pc'[p] \notin Holding
    BY DEF IInv, TypeOK, Holding, Working
  <2>2. \A j \in batch'[p] : Born(j)'
    BY <1>1, <1>2 DEF CareInv, AtHand, Born, HasRow, IInv, TypeOK
  <2> QED BY <2>1, <2>2, LetGo
<1>5. \A a \in Assets : Embedded(a) => Embedded(a)'
  BY <1>1 DEF Embedded
<1> QED BY <1>1, <1>2, <1>3, <1>4, <1>5, CalmRows

\* What is fetched is pending.
LEMMA FetchCare ==
    ASSUME NumbersSuffice, IInv, CareInv, NEW p \in Processes, Fetch(p)
    PROVE  CareInv'
<1> USE DEF Fetch
<1>1. UNCHANGED <<asset, recipeOf, generation, embeddings, status>>
  BY DEF tables, recipes
<1>2. \A q \in Processes \ {p} : Same(q)
  BY DEF IInv, TypeOK, Same
<1>3. AtHand(p)' /\ Owed(p)'
  <2>1. pc'[p] \notin Holding
    BY DEF IInv, TypeOK, Holding, Working
  <2>2. batch'[p] \subseteq Pending
    BY DEF IInv, TypeOK
  <2>3. \A j \in batch'[p] : Born(j)'
    BY <1>1, <2>2 DEF Pending, Born
  <2> QED BY <2>1, <2>3, LetGo
<1> QED BY <1>1, <1>2, <1>3, CalmTables

\* A claimed job runs; one that cannot be claimed is in hand to be failed.
LEMMA ClaimCare ==
    ASSUME NumbersSuffice, IInv, CareInv, NEW p \in Processes, NEW j \in Jobs,
           Claim(p, j) \/ ClaimTimesOut(p, j)
    PROVE  CareInv'
<1>1. /\ pc[p] = "looping" /\ j \in batch[p]
      /\ batch' = [batch EXCEPT ![p] = @ \ {j}]
      /\ UNCHANGED <<asset, recipeOf, generation, embeddings, staged>>
  BY DEF Claim, ClaimTimesOut, NextInBatch, tables, recipes
<1>2. \/ UNCHANGED <<status, job, pc>>
      \/ /\ status[j] = "pending" /\ status' = [status EXCEPT ![j] = "running"]
         /\ job' = [job EXCEPT ![p] = j] /\ pc' = [pc EXCEPT ![p] = "claimed"]
      \/ /\ UNCHANGED status
         /\ job' = [job EXCEPT ![p] = j] /\ pc' = [pc EXCEPT ![p] = "failing"]
  <2>1. CASE Claim(p, j)
    BY <2>1 DEF Claim
  <2>2. CASE ClaimTimesOut(p, j)
    BY <2>2 DEF ClaimTimesOut, tables
  <2> QED BY <2>1, <2>2
<1>3. \A k \in Jobs : status'[k] # status[k] => HasRow(k) /\ HasRow(k)' /\ Incomplete(k)'
  BY <1>2 DEF IInv, TypeOK, HasRow, Incomplete
<1>4. \A q \in Processes \ {p} : Same(q)
  BY <1>1, <1>2 DEF IInv, TypeOK, Same
<1>5. AtHand(p)' /\ Owed(p)'
  <2>1. batch[p] \subseteq Jobs /\ batch'[p] \subseteq batch[p]
    BY <1>1 DEF IInv, TypeOK
  <2>2. \A k \in batch[p] : Born(k)'
    BY <1>3, <2>1 DEF CareInv, AtHand, Born, HasRow
  <2>3. pc'[p] = "looping" \/ (pc'[p] \in {"claimed", "failing"} /\ job'[p] = j)
    BY <1>1, <1>2 DEF IInv, TypeOK
  <2>4. AtHand(p)'
    BY <1>1, <2>1, <2>2, <2>3 DEF AtHand, Born, Holding, Working
  <2> QED BY <2>3, <2>4 DEF Owed
<1>6. \A a \in Assets : Embedded(a) => Embedded(a)'
  BY <1>1 DEF Embedded
<1> QED BY <1>1, <1>3, <1>4, <1>5, <1>6, CalmRows

\* The loop goes from one place to another with its job, and the rows of others are as they
\* were.
LEMMA MoveCare ==
    ASSUME NumbersSuffice, IInv, CareInv, NEW p \in Processes, NEW place \in Positions,
           UNCHANGED <<asset, recipeOf, generation, embeddings, status, batch, job>>,
           pc' = [pc EXCEPT ![p] = place],
           \A q \in Processes \ {p} : staged'[q] = staged[q],
           pc[p] \in Holding,
           place \in {"thumbnailing", "saved"} => job[p].kind = "thumbnail",
           place = "recognizing" => job[p].kind = "ocr",
           place = "finishing" => \/ job[p].kind # "embed"
                                  \/ Embedded(job[p].asset) \/ staged'[p] # <<>>
    PROVE  CareInv'
<1>1. pc'[p] = place /\ \A q \in Processes \ {p} : Same(q)
  BY DEF IInv, TypeOK, Same
<1>2. AtHand(p)'
  BY <1>1 DEF CareInv, AtHand, Born
<1>3. Owed(p)'
  BY <1>1 DEF Owed, Embedded
<1> QED BY <1>1, <1>2, <1>3, CalmTables

\* An embed job is about to be completed only with rows, old or just inserted.
LEMMA WorkCare ==
    ASSUME NumbersSuffice, IInv, CareInv, NEW p \in Processes,
           \/ BeginThumbnail(p) \/ BeginEmbed(p) \/ BeginOcr(p) \/ SaveThumbnail(p)
           \/ InsertRow(p) \/ Raise(p)
    PROVE  CareInv'
<1>1. pc[p] \in Holding /\ UNCHANGED <<asset, recipeOf, generation, embeddings, status, batch, job>>
  BY DEF BeginThumbnail, BeginEmbed, BeginOcr, SaveThumbnail, InsertRow, Raise, Begins, GoTo,
         tables, recipes, Holding, Working
<1>2. \A q \in Processes \ {p} : staged'[q] = staged[q]
  BY DEF BeginThumbnail, BeginEmbed, BeginOcr, SaveThumbnail, InsertRow, Raise, GoTo, IInv, TypeOK
<1>3. {"thumbnailing", "saved", "embedding", "recognizing", "finishing", "failing"} \subseteq Positions
  BY DEF Positions
<1>4. CASE BeginThumbnail(p)
  BY <1>1, <1>2, <1>3, <1>4, MoveCare DEF BeginThumbnail, Begins, GoTo
<1>5. CASE BeginEmbed(p)
  <2>1. PICK place \in {"finishing", "embedding"} :
            /\ pc' = [pc EXCEPT ![p] = place]
            /\ place = "finishing" => Embedded(job[p].asset)
    BY <1>5 DEF BeginEmbed, GoTo
  <2> QED BY <1>1, <1>2, <1>3, <2>1, MoveCare
<1>6. CASE BeginOcr(p)
  <2>1. PICK place \in {"finishing", "recognizing"} :
            pc' = [pc EXCEPT ![p] = place] /\ job[p].kind = "ocr"
    BY <1>6 DEF BeginOcr, Begins, GoTo
  <2> QED BY <1>1, <1>2, <1>3, <2>1, MoveCare
<1>7. CASE SaveThumbnail(p)
  <2>1. pc' = [pc EXCEPT ![p] = "saved"] /\ job[p].kind = "thumbnail"
    BY <1>7 DEF SaveThumbnail, CareInv, AtHand
  <2> QED BY <1>1, <1>2, <1>3, <2>1, MoveCare
<1>8. CASE InsertRow(p)
  <2>1. PICK place \in {"finishing", "embedding"} : pc' = [pc EXCEPT ![p] = place]
    BY <1>8 DEF InsertRow
  <2>2. staged'[p] # <<>>
    <3> DEFINE row == [recipe |-> generation, frame |-> Len(staged[p]) + 1]
    <3>1. staged' = [staged EXCEPT ![p] = Append(staged[p], row)]
      BY <1>8 DEF InsertRow
    <3>2. staged[p] \in Seq(Rows)
      BY DEF IInv, TypeOK
    <3>3. Len(staged[p]) \in Nat
      BY <3>2, LenProperties
    <3>4. row \in Rows
      BY <3>3 DEF IInv, TypeOK, Rows
    <3> HIDE DEF row
    <3>5. staged'[p] = Append(staged[p], row)
      BY <3>1 DEF IInv, TypeOK
    <3> QED BY <3>2, <3>4, <3>5, AppendProperties
  <2> QED BY <1>1, <1>2, <1>3, <2>1, <2>2, MoveCare
<1>9. CASE Raise(p)
  BY <1>1, <1>2, <1>3, <1>9, MoveCare DEF Raise
<1> QED BY <1>4, <1>5, <1>6, <1>7, <1>8, <1>9

\* The end of a job that is not to be embedded, or that failed and stays to be tried again.
LEMMA SettleCare ==
    ASSUME NumbersSuffice, IInv, CareInv, NEW p \in Processes, NEW s \in {"completed", "failed"},
           Settle(p, s), pc[p] \in Holding, s = "failed" \/ job[p].kind # "embed"
    PROVE  CareInv'
<1>1. PICK j \in Jobs : j = job[p]
  BY DEF IInv, InHand
<1>2. /\ status' = Marked(j, s) /\ pc' = [pc EXCEPT ![p] = "looping"]
      /\ staged' = [staged EXCEPT ![p] = <<>>] /\ job' = [job EXCEPT ![p] = NoJob]
      /\ UNCHANGED <<asset, recipeOf, generation, batch>>
  BY <1>1 DEF Settle, recipes
<1>3. \A k \in Jobs : status'[k] # status[k] => k = j /\ HasRow(k) /\ status'[k] = s
  BY <1>2 DEF Marked, IInv, TypeOK
<1>4. ASSUME NEW k \in Jobs, status'[k] # status[k]
      PROVE  HasRow(k) /\ HasRow(k)' /\ (k.kind = "embed" /\ Incomplete(k) => Incomplete(k)')
  BY <1>1, <1>3, <1>4 DEF HasRow, Incomplete
<1>5. \A q \in Processes \ {p} : Same(q)
  BY <1>2 DEF IInv, TypeOK, Same
<1>6. AtHand(p)' /\ Owed(p)'
  <2>1. pc'[p] \notin Holding
    BY <1>2 DEF IInv, TypeOK, Holding, Working
  <2>2. \A k \in batch'[p] : Born(k)'
    BY <1>2, <1>4 DEF CareInv, AtHand, Born, HasRow, IInv, TypeOK
  <2> QED BY <2>1, <2>2, LetGo
<1> QED BY <1>2, <1>4, <1>5, <1>6, SettleEmbedded, CalmRows

\* An embed job is completed: its rows are there, or there is a later job.
LEMMA CompleteCare ==
    ASSUME NumbersSuffice, IInv, CareInv, NEW p \in Processes, Complete(p), job[p].kind = "embed"
    PROVE  CareInv'
<1>1. PICK j \in Jobs : j = job[p]
  BY DEF Complete, IInv, InHand, Holding
<1>2. /\ pc[p] = "finishing" /\ j.kind = "embed" /\ j.asset \in Assets
      /\ status' = Marked(j, "completed") /\ pc' = [pc EXCEPT ![p] = "looping"]
      /\ staged' = [staged EXCEPT ![p] = <<>>] /\ job' = [job EXCEPT ![p] = NoJob]
      /\ UNCHANGED <<asset, recipeOf, generation, batch>>
  BY <1>1, JobFields DEF Complete, Settle, recipes
<1>3. \A k \in Jobs : status'[k] # status[k] => k = j /\ HasRow(k) /\ status'[k] = "completed"
  BY <1>2 DEF Marked, IInv, TypeOK
<1>4. \A a \in Assets : Embedded(a) => Embedded(a)'
  BY SettleEmbedded DEF Complete, Holding
<1>5. staged[p] # <<>> => Embedded(j.asset)'
  BY <1>1, SettleEmbedded DEF Complete, Holding
<1>6. ASSUME NEW a \in Assets, a # j.asset PROVE Heeded(a)
  BY <1>2, <1>3, <1>4, <1>6 DEF Heeded, Live, JobsOf, Incomplete
<1>7. \A k \in Jobs : k # j \/ status[k] = "dismissed" => status'[k] = status[k]
  BY <1>3 DEF HasRow
\* What a later job than this one did for the asset, or than another of its jobs.
<1>8. ASSUME Live(j.asset), ~ Embedded(j.asset)' PROVE Attended(j.asset, j.number)'
  <2>1. Attended(j.asset, j.number)
    BY <1>1, <1>2, <1>4, <1>5, <1>8 DEF CareInv, Owed
  <2>2. PICK k \in JobsOf("embed", j.asset) :
            status[k] = "dismissed" \/ (Incomplete(k) /\ k.number > j.number)
    BY <2>1 DEF Attended
  <2>3. j.number \in Nat /\ k \in Jobs
    BY JobFields DEF JobsOf
  <2>4. status'[k] = status[k]
    BY <1>7, <2>2, <2>3
  <2> QED BY <2>2, <2>4 DEF Attended, JobsOf, Incomplete
<1>9. ASSUME NEW n \in Nat, Live(j.asset), ~ Embedded(j.asset)', Attended(j.asset, n)
      PROVE  Attended(j.asset, n)'
  <2>1. PICK k \in JobsOf("embed", j.asset) :
            status[k] = "dismissed" \/ (Incomplete(k) /\ k.number > n)
    BY <1>9 DEF Attended
  <2>2. k \in Jobs
    BY DEF JobsOf
  <2>3. CASE k # j \/ status[k] = "dismissed"
    BY <1>7, <2>1, <2>2, <2>3 DEF Attended, JobsOf, Incomplete
  <2>4. CASE k = j /\ status[k] # "dismissed"
    <3>1. PICK i \in JobsOf("embed", j.asset) :
              status'[i] = "dismissed" \/ (Incomplete(i)' /\ i.number > j.number)
      BY <1>8, <1>9 DEF Attended, JobsOf
    <3>2. j.number > n /\ j.number \in Nat /\ i.number \in Nat
      BY <2>1, <2>4, JobFields DEF JobsOf
    <3>3. status'[i] = "dismissed" \/ (Incomplete(i)' /\ i.number > n)
      BY <3>1, <3>2
    <3> QED BY <3>1, <3>3 DEF Attended, JobsOf
  <2> QED BY <2>3, <2>4
<1>10. InOrder'
  <2>1. \A k \in Jobs : Born(k)' <=> Born(k)
    BY <1>3 DEF Born, HasRow
  <2>2. PICK new \in SUBSET {k \in Jobs : IsNext(k)} : new = {}
    OBVIOUS
  <2> QED BY <1>2, <2>1, <2>2, BirthsInOrder DEF CareInv
<1>11. JobsAreCurrent'
  BY <1>2, <1>3 DEF CareInv, JobsAreCurrent, HasRow
<1>12. ASSUME NEW a \in Assets PROVE Room(a)' /\ Remembered(a)'
  <2>1. \A k \in JobsOf("embed", a) : Born(k)' => Born(k)
    BY <1>3 DEF Born, HasRow, JobsOf
  <2>2. Room(a)'
    BY <1>2, <2>1, RoomKept DEF CareInv, Live
  <2>3. CASE a = j.asset
    <3>1. Live(a)' => Live(a)
      BY <1>2 DEF Live
    <3> QED BY <1>4, <1>9, <2>2, <2>3, <3>1 DEF CareInv, Remembered
  <2>4. CASE a # j.asset
    BY <1>6, <2>2, <2>4, RememberedKept DEF CareInv
  <2> QED BY <2>3, <2>4
<1>13. ASSUME NEW q \in Processes PROVE AtHand(q)' /\ Owed(q)'
  <2>1. \A k \in Jobs : Born(k) => Born(k)'
    BY <1>3 DEF Born
  <2>2. AtHand(q)'
    BY <1>2, <2>1, AtHandKept DEF CareInv, IInv, TypeOK, Holding, Working
  <2>3. CASE pc'[q] # "finishing"
    BY <2>2, <2>3 DEF Owed
  <2>4. CASE pc'[q] = "finishing"
    <3>1. pc[q] = "finishing" /\ job'[q] = job[q] /\ staged'[q] = staged[q]
      BY <1>2, <2>4 DEF IInv, TypeOK
    <3>2. PICK k \in Jobs : k = job[q]
      BY <3>1 DEF IInv, InHand, Holding
    <3>3. k.asset \in Assets /\ k.number \in Nat
      BY JobFields
    <3>4. CASE k.asset = j.asset
      <4> SUFFICES ASSUME k.kind = "embed", Live(j.asset)', ~ Embedded(j.asset)', staged[q] = <<>>
                   PROVE  Attended(j.asset, k.number)'
        BY <2>2, <3>1, <3>2, <3>4 DEF Owed
      <4>1. Live(j.asset) /\ ~ Embedded(j.asset)
        BY <1>2, <1>4 DEF Live
      <4>2. Attended(j.asset, k.number)
        BY <3>1, <3>2, <3>4, <4>1 DEF CareInv, Owed
      <4> QED BY <1>9, <3>3, <4>1, <4>2
    <3>5. CASE k.asset # j.asset
      BY <1>6, <2>2, <3>1, <3>2, <3>3, <3>5, OwedKept DEF CareInv
    <3> QED BY <3>4, <3>5
  <2> QED BY <2>3, <2>4
<1> QED BY <1>10, <1>11, <1>12, <1>13 DEF CareInv

\* A job of any kind ends.
LEMMA EndOfJobCare ==
    ASSUME NumbersSuffice, IInv, CareInv, NEW p \in Processes,
           RecordThumbnail(p) \/ StoreOcr(p) \/ Complete(p) \/ Fail(p)
    PROVE  CareInv'
<1>1. pc[p] \in Holding
  BY DEF RecordThumbnail, StoreOcr, Complete, Fail, Holding, Working
<1>2. CASE RecordThumbnail(p) \/ StoreOcr(p)
  <2>1. job[p].kind # "embed"
    BY <1>2 DEF RecordThumbnail, StoreOcr, CareInv, AtHand
  <2> QED BY <1>1, <1>2, <2>1, SettleCare DEF RecordThumbnail, StoreOcr
<1>3. CASE Complete(p)
  BY <1>1, <1>3, SettleCare, CompleteCare DEF Complete
<1>4. CASE Fail(p)
  BY <1>1, <1>4, SettleCare DEF Fail
<1> QED BY <1>2, <1>3, <1>4

\* The loop or its process is over.
LEMMA LeaveCare ==
    ASSUME NumbersSuffice, IInv, CareInv, NEW p \in Processes, EndRun(p) \/ Crash(p)
    PROVE  CareInv'
<1>1. Leave(p) /\ UNCHANGED <<asset, recipeOf, generation, embeddings, status>>
  BY DEF EndRun, Crash, tables, recipes
<1>2. \A q \in Processes \ {p} : Same(q)
  BY <1>1 DEF Leave, IInv, TypeOK, Same
<1>3. pc'[p] \notin Holding /\ batch'[p] = {}
  BY <1>1 DEF Leave, IInv, TypeOK, Holding, Working
<1> QED BY <1>1, <1>2, <1>3, LetGo, CalmTables

--------------------------------------------------------------------------------
(* initialize_library *)

\* An activation uses one of the numbers that were left for it.
LEMMA RoomAfterActivation ==
    ASSUME NumbersSuffice, IInv, NEW a \in Assets, Room(a), Live(a),
           generation < MaxGenerations, generation' = generation + 1,
           \A j \in JobsOf("embed", a) : Born(j)' => Born(j) \/ IsNext(j)
    PROVE  Room(a)' /\ \E i \in JobsOf("embed", a) : ~ Born(i)
<1>1. PICK m \in Numbers : /\ m + MaxGenerations - generation \in Numbers
                           /\ \A j \in JobsOf("embed", a) : Born(j) => j.number <= m
  BY DEF Room
<1>2. m \in Nat /\ generation \in Nat /\ MaxGenerations \in Nat
  BY IndexingAssumption DEF IInv, TypeOK, Generations
<1>3. m + 1 \in Numbers
  <2>1. m + 1 \in 1..(m + MaxGenerations - generation)
    BY <1>2
  <2> QED BY <1>1, <2>1 DEF NumbersSuffice
<1>4. (m + 1) + MaxGenerations - generation' \in Numbers
  <2>1. (m + 1) + MaxGenerations - (generation + 1) = m + MaxGenerations - generation
    BY <1>2
  <2> QED BY <1>1, <2>1
<1>5. PICK i \in JobsOf("embed", a) : i.number = m + 1
  <2>1. [kind |-> "embed", asset |-> a, number |-> m + 1] \in Jobs
    BY <1>3 DEF Jobs, NumbersSuffice
  <2> QED BY <2>1 DEF JobsOf
<1>6. ~ Born(i)
  BY <1>1, <1>2, <1>5
<1>7. \A j \in JobsOf("embed", a) : Born(j)' => j.number <= m + 1
  <2> SUFFICES ASSUME NEW j \in JobsOf("embed", a), Born(j)' PROVE j.number <= m + 1
    OBVIOUS
  <2>1. j.number \in Nat
    BY JobFields DEF JobsOf
  <2>2. CASE Born(j)
    BY <1>1, <1>2, <2>1, <2>2
  <2>3. CASE IsNext(j)
    BY <1>5, <1>6, <2>3, NextIsFirst DEF JobsOf
  <2> QED BY <2>2, <2>3
<1>8. Room(a)'
  BY <1>3, <1>4, <1>7 DEF Room, JobsOf
<1> QED BY <1>6, <1>8

\* An activation takes all embed jobs and creates one for every asset; without one, only
\* OCR jobs are created.
LEMMA InitializeCare ==
    ASSUME NumbersSuffice, IInv, CareInv, NEW p \in Processes, Initialize(p),
           \A q \in Processes : Same(q) \/ (AtHand(q)' /\ Owed(q)')
    PROVE  CareInv'
<1> DEFINE activates == manifest[p] # version
           ocr == NextOf("ocr", MissingOcr)
           embed == NextOf("embed", LiveAssets)
           new == ocr \union (IF activates THEN embed ELSE {})
           dropped == IF activates THEN {j \in Jobs : j.kind = "embed"} ELSE {}
<1>1. /\ activates => generation < MaxGenerations
      /\ generation' = IF activates THEN generation + 1 ELSE generation
      /\ embeddings' = IF activates THEN [a \in Assets |-> <<>>] ELSE embeddings
      /\ UNCHANGED asset
  BY DEF Initialize
<1>2. PICK g : g = generation' /\ Enqueue(new, Dropped(dropped), g)
  BY DEF Initialize
<1>3. new \in SUBSET {j \in Jobs : IsNext(j)} /\ \A j \in new : Live(j.asset)
  BY DEF NextOf, MissingOcr, LiveAssets
<1>4. \A j \in ocr : j \in Jobs /\ j.kind = "ocr"
  BY DEF NextOf
<1>5. \A a \in Assets : Live(a) => \A i \in JobsOf("embed", a) : IsNext(i) => i \in embed
  BY DEF NextOf, LiveAssets, JobsOf
<1>6. \A j \in Jobs : \/ Dropped(dropped)[j] = status[j]
                      \/ HasRow(j) /\ Dropped(dropped)[j] = "gone"
  BY DroppedIs
<1>7. \A j \in Jobs : j.kind = "embed" /\ activates => Dropped(dropped)[j] \notin {"pending", "running", "failed", "completed"}
  BY DEF Dropped, HasRow
<1>8. ~ activates => \A j \in Jobs : Dropped(dropped)[j] = status[j]
  BY DEF Dropped
<1> HIDE DEF ocr, embed, dropped
<1>9. \A j \in Jobs : Born(j)' <=> Born(j) \/ j \in new
  <2> HIDE DEF new
  <2> QED BY <1>2, <1>3, <1>6, EnqueueBirths
<1>10. /\ \A j \in Jobs : status'[j] = IF j \in new THEN "pending" ELSE Dropped(dropped)[j]
       /\ \A j \in Jobs : recipeOf'[j] = IF j \in new /\ j.kind = "embed" THEN generation' ELSE recipeOf[j]
  BY <1>2 DEF Enqueue
<1>11. \A j \in new : asset'[j.asset] # "new"
  BY <1>1, <1>3 DEF Live
<1>12. CASE ~ activates
  <2>1. new = ocr
    BY <1>12
  <2>2. \A j \in Jobs : j.kind = "embed" => status'[j] = status[j] /\ recipeOf'[j] = recipeOf[j]
    BY <1>4, <1>8, <1>10, <1>12, <2>1
  <2>3. \A j \in Jobs : j.kind = "embed" => recipeOf'[j] = recipeOf[j] /\ (HasRow(j)' => HasRow(j))
    BY <2>2 DEF HasRow
  <2>4. ASSUME NEW a \in Assets PROVE Heeded(a)
    <3>1. Embedded(a) => Embedded(a)'
      BY <1>1, <1>12 DEF Embedded
    <3> QED BY <1>1, <2>2, <3>1 DEF Heeded, Live, JobsOf, Incomplete
  <2>5. \A j \in new : j.kind # "embed"
    BY <1>4, <2>1
  <2> HIDE DEF new, activates
  <2> QED BY <1>1, <1>3, <1>9, <1>11, <1>12, <2>3, <2>4, <2>5, CalmKeeps
<1>13. CASE activates
  <2>1. ASSUME NEW a \in Assets, Live(a) PROVE Room(a)' /\ Reborn(a)
    <3>1. \A j \in JobsOf("embed", a) : Born(j)' => Born(j) \/ IsNext(j)
      BY <1>3, <1>9 DEF JobsOf
    <3>2. Room(a)' /\ \E i \in JobsOf("embed", a) : ~ Born(i)
      BY <1>1, <1>13, <2>1, <3>1, RoomAfterActivation DEF CareInv
    <3>3. PICK i \in JobsOf("embed", a) : IsNext(i)
      BY <3>2, NextExists DEF NextOf
    <3>4. i \in new
      BY <1>5, <1>13, <2>1, <3>3
    <3>5. i \in Jobs
      BY DEF JobsOf
    <3>6. status'[i] = "pending"
      BY <1>10, <3>4, <3>5
    <3> QED BY <3>2, <3>3, <3>6 DEF Reborn
  <2>2. ASSUME NEW a \in Assets, ~ Live(a) PROVE Room(a)' /\ Heeded(a)
    BY <1>1, <2>2 DEF Room, Heeded, Live
  <2>3. JobsAreCurrent'
    <3> SUFFICES ASSUME NEW j \in Jobs, j.kind = "embed", HasRow(j)' PROVE recipeOf'[j] = generation'
      BY DEF JobsAreCurrent
    <3>1. j \in new
      BY <1>7, <1>10, <1>13 DEF HasRow
    <3> QED BY <1>10, <3>1
  <2> HIDE DEF new, activates
  <2> QED BY <1>1, <1>3, <1>9, <1>11, <2>1, <2>2, <2>3, CareKept
<1> QED BY <1>12, <1>13

\* The first transaction of a run, and that of a command.
LEMMA OpenCare ==
    ASSUME NumbersSuffice, IInv, CareInv, NEW p \in Processes, Open(p) \/ OpenCommand(p)
    PROVE  CareInv'
<1>1. CASE Open(p)
  <2>1. Initialize(p) /\ pc[p] = "idle" /\ pc' = [pc EXCEPT ![p] = "opened"] /\ UNCHANGED <<batch, job, staged>>
    BY <1>1 DEF Open
  <2>2. \A q \in Processes \ {p} : Same(q)
    BY <2>1 DEF IInv, TypeOK, Same
  <2>3. AtHand(p)' /\ Owed(p)'
    <3>1. pc'[p] \notin Holding
      BY <2>1 DEF IInv, TypeOK, Holding, Working
    <3>2. \A j \in Jobs : Born(j) => Born(j)'
      <4>1. PICK new, dropped, g : Enqueue(new, Dropped(dropped), g)
        BY <2>1 DEF Initialize
      <4> QED BY <4>1, DroppedIs DEF Enqueue, Born
    <3>3. batch[p] \subseteq Jobs /\ batch'[p] = batch[p]
      BY <2>1 DEF IInv, TypeOK
    <3> QED BY <3>1, <3>2, <3>3, LetGo DEF CareInv, AtHand
  <2> QED BY <2>1, <2>2, <2>3, InitializeCare
<1>2. CASE OpenCommand(p)
  BY <1>2, InitializeCare DEF OpenCommand, loop, Same
<1> QED BY <1>1, <1>2

--------------------------------------------------------------------------------
(* Commands and processes *)

\* A command leaves the loops alone.
LEMMA LoopsSame == ASSUME UNCHANGED loop PROVE \A q \in Processes : Same(q)
BY DEF loop, Same

\* The next job of an asset is created, and there are numbers left behind it.
LEMMA RoomAfterJob ==
    ASSUME NEW a \in Assets, NEW i \in JobsOf("embed", a), IsNext(i), InOrder,
           i.number + MaxGenerations - generation \in Numbers, generation' = generation,
           \A j \in JobsOf("embed", a) : Born(j)' => Born(j) \/ IsNext(j)
    PROVE  Room(a)'
<1>1. i.number \in Numbers /\ i.number \in Nat /\ ~ Born(i)
  BY JobFields DEF JobsOf, IsNext, Born
<1>2. ASSUME NEW j \in JobsOf("embed", a), Born(j)' PROVE j.number <= i.number
  <2>1. j.number \in Nat
    BY JobFields DEF JobsOf
  <2>2. CASE Born(j)
    BY <1>1, <2>1, <2>2, NextIsLater DEF JobsOf
  <2>3. CASE IsNext(j)
    BY <1>1, <2>3, NextIsFirst DEF JobsOf
  <2> QED BY <1>2, <2>2, <2>3
<1> QED BY <1>1, <1>2 DEF Room, JobsOf

\* The asset was new, so that its first job is the next one.
LEMMA ImportCare ==
    ASSUME NumbersSuffice, IInv, CareInv, NEW p \in Processes, NEW a \in Assets, Import(p, a)
    PROVE  CareInv'
<1> DEFINE embed == NextOf("embed", {a})
           new == NextOf("thumbnail", {a}) \union embed \union NextOf("ocr", {a} \ Gifs)
<1>1. /\ asset[a] = "new" /\ asset' = [asset EXCEPT ![a] = "live"]
      /\ Enqueue(new, status, generation)
      /\ UNCHANGED <<embeddings, generation, loop>>
  BY DEF Import, recipes
<1>2. new \in SUBSET {j \in Jobs : IsNext(j)} /\ \A j \in new : j.asset = a
  BY DEF NextOf
<1>3. \A i \in JobsOf("embed", a) : IsNext(i) => i \in new
  BY DEF NextOf, JobsOf
<1> HIDE DEF new
<1>4. \A j \in Jobs : Born(j)' <=> Born(j) \/ j \in new
  BY <1>1, <1>2, EnqueueBirths
<1>5. \A j \in Jobs \ new : status'[j] = status[j] /\ recipeOf'[j] = recipeOf[j]
  BY <1>1 DEF Enqueue
<1>6. \A j \in new : j \in Jobs /\ status'[j] = "pending" /\ (j.kind = "embed" => recipeOf'[j] = generation)
  BY <1>1, <1>2 DEF Enqueue
<1>7. asset'[a] = "live" /\ \A b \in Assets \ {a} : asset'[b] = asset[b]
  BY <1>1 DEF IInv, TypeOK
\* Its first job.
<1>8. PICK i \in JobsOf("embed", a) : i.number = 1
  <2>1. [kind |-> "embed", asset |-> a, number |-> 1] \in Jobs
    BY IndexingAssumption DEF Jobs, NumbersSuffice
  <2> QED BY <2>1 DEF JobsOf
<1>9. IsNext(i)
  <2>1. \A j \in JobsOf("embed", a) : ~ Born(j)
    BY <1>1 DEF CareInv, InOrder, JobsOf
  <2>2. \A j \in JobsOf("embed", a) : j.number \in Nat /\ ~ j.number < i.number
    BY <1>8, JobFields DEF JobsOf, NumbersSuffice
  <2> QED BY <2>1, <2>2 DEF IsNext, Born, JobsOf
<1>10. Room(a)'
  <2>1. i.number + MaxGenerations - generation \in Numbers
    <3>1. generation \in 1..MaxGenerations /\ MaxGenerations \in Nat
      BY IndexingAssumption DEF IInv, TypeOK, Generations
    <3>2. 1 + MaxGenerations - generation \in 1..MaxGenerations
      BY <3>1
    <3> QED BY <1>8, <3>2 DEF NumbersSuffice
  <2>2. \A j \in JobsOf("embed", a) : Born(j)' => Born(j) \/ IsNext(j)
    BY <1>2, <1>4 DEF JobsOf
  <2> QED BY <1>1, <1>9, <2>1, <2>2, RoomAfterJob DEF CareInv
<1>11. Reborn(a)
  BY <1>3, <1>6, <1>9 DEF Reborn
<1>12. ASSUME NEW b \in Assets, b # a PROVE Room(b)' /\ Heeded(b)
  <2>1. \A j \in JobsOf("embed", b) : j \in Jobs \ new
    BY <1>2, <1>12 DEF JobsOf
  <2>2. Live(b)' => Live(b)
    BY <1>7, <1>12 DEF Live
  <2>3. \A j \in JobsOf("embed", b) : Born(j)' => Born(j)
    BY <1>4, <2>1
  <2>4. Room(b)'
    BY <1>1, <2>2, <2>3, RoomKept DEF CareInv
  <2>5. Embedded(b) => Embedded(b)'
    BY <1>1 DEF Embedded
  <2> QED BY <1>5, <2>1, <2>2, <2>4, <2>5 DEF Heeded, Incomplete
<1>13. JobsAreCurrent'
  BY <1>1, <1>5, <1>6 DEF CareInv, JobsAreCurrent, HasRow
<1>14. \A q \in Processes : Same(q)
  BY <1>1, LoopsSame
<1>15. \A b \in Assets : asset'[b] = "new" => asset[b] = "new"
  BY <1>7
<1>16. \A j \in new : asset'[j.asset] # "new"
  BY <1>2, <1>7
<1> QED BY <1>2, <1>4, <1>10, <1>11, <1>12, <1>13, <1>14, <1>15, <1>16, CareKept

\* The old jobs and rows go, and a new job comes.
LEMMA RebuildApplyCare ==
    ASSUME NumbersSuffice, IInv, CareInv, NEW p \in Processes, RebuildApply(p)
    PROVE  CareInv'
<1>1. PICK a \in Assets : a = target[p].asset
  BY DEF RebuildApply, IInv, InHand, Targets
<1> DEFINE new == NextOf("embed", {a})
           dropped == {j \in JobsOf("embed", a) : status[j] \in {"pending", "failed"}}
<1>2. /\ embeddings' = [embeddings EXCEPT ![a] = <<>>]
      /\ Enqueue(new, Dropped(dropped), generation)
      /\ UNCHANGED <<asset, generation, loop>>
  BY <1>1 DEF RebuildApply, recipes
<1>3. PICK i \in new : i.number + MaxGenerations - generation \in Numbers
  BY <1>1 DEF RebuildApply
<1>4. new \in SUBSET {j \in Jobs : IsNext(j)} /\ \A j \in new : j \in JobsOf("embed", a)
  BY DEF NextOf, JobsOf
<1>5. \A j \in Jobs : \/ Dropped(dropped)[j] = status[j]
                      \/ HasRow(j) /\ Dropped(dropped)[j] = "gone"
  BY DroppedIs
<1>6. \A j \in Jobs : j.asset # a => Dropped(dropped)[j] = status[j]
  BY DEF Dropped, JobsOf
<1> HIDE DEF new, dropped
<1>7. \A j \in Jobs : Born(j)' <=> Born(j) \/ j \in new
  BY <1>2, <1>4, <1>5, EnqueueBirths
<1>8. \A j \in Jobs \ new : status'[j] = Dropped(dropped)[j] /\ recipeOf'[j] = recipeOf[j]
  BY <1>2 DEF Enqueue
<1>9. \A j \in new : j \in Jobs /\ status'[j] = "pending" /\ (j.kind = "embed" => recipeOf'[j] = generation)
  BY <1>2, <1>4 DEF Enqueue
<1>10. Room(a)'
  <2>1. \A j \in JobsOf("embed", a) : Born(j)' => Born(j) \/ IsNext(j)
    BY <1>4, <1>7 DEF JobsOf
  <2> QED BY <1>2, <1>3, <1>4, <2>1, RoomAfterJob DEF CareInv
<1>11. Reborn(a)
  BY <1>3, <1>4, <1>9 DEF Reborn
<1>12. ASSUME NEW b \in Assets, b # a PROVE Room(b)' /\ Heeded(b)
  <2>1. \A j \in JobsOf("embed", b) : j \in Jobs \ new /\ j.asset # a
    BY <1>4, <1>12 DEF JobsOf
  <2>2. Live(b)' => Live(b)
    BY <1>2 DEF Live
  <2>3. \A j \in JobsOf("embed", b) : Born(j)' => Born(j)
    BY <1>7, <2>1
  <2>4. Room(b)'
    BY <1>2, <2>2, <2>3, RoomKept DEF CareInv
  <2>5. Embedded(b) => Embedded(b)'
    BY <1>2, <1>12 DEF Embedded, IInv, TypeOK
  <2>6. \A j \in JobsOf("embed", b) : status'[j] = status[j]
    BY <1>6, <1>8, <2>1
  <2> QED BY <2>2, <2>4, <2>5, <2>6 DEF Heeded, Incomplete
<1>13. JobsAreCurrent'
  BY <1>2, <1>5, <1>8, <1>9 DEF CareInv, JobsAreCurrent, HasRow
<1>14. \A q \in Processes : Same(q)
  BY <1>2, LoopsSame
<1>15. \A b \in Assets : asset'[b] = "new" => asset[b] = "new"
  BY <1>2
<1>16. \A j \in new : asset'[j.asset] # "new"
  BY <1>1, <1>2, <1>4 DEF RebuildApply, Live, JobsOf
<1> QED BY <1>2, <1>4, <1>7, <1>10, <1>11, <1>12, <1>13, <1>14, <1>15, <1>16, CareKept

\* The jobs and the rows of one asset go with it.
LEMMA DeleteRowsCare ==
    ASSUME NumbersSuffice, IInv, CareInv, NEW p \in Processes, DeleteRows(p)
    PROVE  CareInv'
<1>1. PICK a \in Assets : a = target[p].asset
  BY DEF DeleteRows, IInv, InHand, Targets
<1> DEFINE dropped == {j \in Jobs : j.asset = a}
<1>2. /\ asset' = [asset EXCEPT ![a] = "deleted"] /\ status' = Dropped(dropped)
      /\ embeddings' = [embeddings EXCEPT ![a] = <<>>]
      /\ UNCHANGED <<recipeOf, generation, loop>>
  BY <1>1 DEF DeleteRows, recipes
<1>3. \A j \in Jobs : status'[j] = status[j] \/ (HasRow(j) /\ status'[j] = "gone")
  BY <1>2, DroppedIs
<1>4. \A j \in Jobs : j.asset # a => status'[j] = status[j]
  BY <1>2 DEF Dropped
<1> HIDE DEF dropped
<1>5. asset'[a] = "deleted" /\ \A b \in Assets \ {a} : asset'[b] = asset[b] /\ embeddings'[b] = embeddings[b]
  BY <1>2 DEF IInv, TypeOK
<1>6. \A b \in Assets : asset'[b] \in {asset[b], "deleted"} /\ Heeded(b)
  <2> SUFFICES ASSUME NEW b \in Assets PROVE asset'[b] \in {asset[b], "deleted"} /\ Heeded(b)
    OBVIOUS
  <2>1. CASE b = a
    BY <1>5, <2>1 DEF Heeded, Live
  <2>2. CASE b # a
    <3>1. Embedded(b) => Embedded(b)'
      BY <1>2, <1>5, <2>2 DEF Embedded
    <3>2. \A j \in JobsOf("embed", b) : status'[j] = status[j]
      BY <1>4, <2>2 DEF JobsOf
    <3> QED BY <1>5, <2>2, <3>1, <3>2 DEF Heeded, Live, Incomplete
  <2> QED BY <2>1, <2>2
<1>7. \A j \in Jobs : (Born(j)' <=> Born(j)) /\ (HasRow(j)' => HasRow(j))
  BY <1>3 DEF Born, HasRow
<1>8. PICK new \in SUBSET {j \in Jobs : IsNext(j)} : new = {}
  OBVIOUS
<1> QED BY <1>2, <1>6, <1>7, <1>8, LoopsSame, CalmKeeps

\* A failed job waits again, or the operator deletes one that waits.
LEMMA StatusCommandCare ==
    ASSUME NumbersSuffice, IInv, CareInv, NEW p \in Processes,
           RetryFailed(p) \/ \E j \in Jobs : Dismiss(p, j)
    PROVE  CareInv'
<1>1. UNCHANGED <<asset, recipeOf, generation, embeddings, loop>>
  BY DEF RetryFailed, Dismiss, recipes
<1>2. \A j \in Jobs : status'[j] # status[j] =>
          status[j] \in {"pending", "failed"} /\ status'[j] \in {"pending", "dismissed"}
  <2>1. CASE RetryFailed(p)
    BY <2>1 DEF RetryFailed, IInv, TypeOK
  <2>2. ASSUME NEW j \in Jobs, Dismiss(p, j)
        PROVE  \A k \in Jobs : status'[k] # status[k] =>
                   status[k] \in {"pending", "failed"} /\ status'[k] \in {"pending", "dismissed"}
    BY <2>2 DEF Dismiss, IInv, TypeOK
  <2> QED BY <2>1, <2>2
<1>3. \A a \in Assets : Embedded(a) => Embedded(a)'
  BY <1>1 DEF Embedded
<1>4. \A j \in Jobs : status'[j] # status[j] =>
          /\ HasRow(j) /\ (HasRow(j)' \/ status'[j] = "dismissed")
          /\ Incomplete(j)' \/ status'[j] = "dismissed"
  BY <1>2 DEF HasRow, Incomplete
<1> QED BY <1>1, <1>3, <1>4, LoopsSame, CalmRows

\* Nothing that the job table says changes.
LEMMA OtherCare ==
    ASSUME NumbersSuffice, IInv, CareInv,
           \/ UNCHANGED vars
           \/ \E p \in Processes :
                 \/ GiveUp(p)
                 \/ \E a \in Assets : RebuildCheck(p, a) \/ DeleteFiles(p, a)
                 \/ \E v \in Versions : Start(p, v)
                 \/ Resume(p) \/ Pause(p)
    PROVE  CareInv'
<1>1. UNCHANGED <<asset, recipeOf, generation, embeddings, status, loop>>
  BY DEF GiveUp, RebuildCheck, DeleteFiles, Start, Resume, Pause, vars, tables, recipes
<1>2. \A a \in Assets : Embedded(a) => Embedded(a)'
  BY <1>1 DEF Embedded
<1> QED BY <1>1, <1>2, LoopsSame, CalmRows

--------------------------------------------------------------------------------
\* Every step keeps the invariant.
LEMMA NextCareInv == ASSUME NumbersSuffice PROVE IInv /\ CareInv /\ [Next]_vars => CareInv'
<1> SUFFICES ASSUME IInv, CareInv, [Next]_vars PROVE CareInv'
  OBVIOUS
<1>1. ASSUME NEW p \in Processes, LoopStep(p) PROVE CareInv'
  BY <1>1, OpenCare, PrepareCare, FetchCare, ClaimCare, WorkCare, EndOfJobCare, LeaveCare DEF LoopStep
<1>2. ASSUME NEW p \in Processes, CommandStep(p) PROVE CareInv'
  BY <1>2, OpenCare, ImportCare, RebuildApplyCare, DeleteRowsCare, StatusCommandCare, OtherCare
  DEF CommandStep
<1> QED BY <1>1, <1>2, LeaveCare, OtherCare DEF Next

\* enqueue_embedding, requeue_incomplete_jobs, rebuild_active_indexes,
\* activate_manifest_recipe: an asset that the library shows as "missing_index" is one
\* whose job the operator deleted, whatever rebuilds, kills, activations and second loops
\* were doing at the time.
THEOREM NoAssetIsForgotten == ASSUME NumbersSuffice PROVE Spec => []NothingForgotten
<1>1. Spec => [](IInv /\ CareInv)
  BY InitIInv, NextIInv, InitCareInv, NextCareInv, PTL DEF Spec
<1> QED BY <1>1, CareIsEnough, PTL

================================================================================
