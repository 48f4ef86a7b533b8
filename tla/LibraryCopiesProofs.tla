-------------------------- MODULE LibraryCopiesProofs --------------------------
(* Safety of the library copies and their catalog rows, for any sets of         *)
(* candidates, contents, threads and file errors.                               *)
EXTENDS LibraryCopies, FiniteSetTheorems, TLAPS

\* The importer has a candidate while it works, and has not reported on it.
Busy == pc # "idle" => current \in Candidates /\ outcome[current] = "none"

Early == {"examining", "linking", "copying", "copied", "marked", "discarding"}

\* Nothing bears id i so far: its import has not given a file its final name.
Unborn(i) == outcome[i] = "none" /\ (i = current => pc \in Early \union {"idle"})

UnbornIsUnknown ==
    \A i \in Ids : Unborn(i) =>
        /\ i \notin catalog /\ i \notin copies
        /\ \A t \in Threads : i \notin known[t] /\ victim[t] # i

\* The foreign key of source_record.
SourcesHaveAssets == \A s \in sources : s[1] \in catalog

\* Before its copy gets its final name the marker is set, and in use.
MarkerIsSet == pc = "marked" => current \in markers /\ Marker(current) \in active

\* A copy that a deletion has tried to remove, that a cleaning takes to be cataloged,
\* or whose marker is to go, needs no marker.
NoMarkerNeeded ==
    /\ \A t \in Threads : /\ victim[t] \in copies => victim[t] \in given
                          /\ known[t] \intersect copies \subseteq catalog \union given
    /\ pc = "unmarking" /\ current \in copies => current \in catalog \union given

\* The inductive invariant.  That strays are marked needs to know, of whoever takes a
\* marker off or deletes a row, that the copy does without (NoMarkerNeeded); that a
\* decision of this kind is not overtaken by a new copy of the same name needs that
\* names are new (UnbornIsUnknown, which rests on SourcesHaveAssets).
IInv ==
    /\ TypeOK
    /\ Busy /\ UnbornIsUnknown /\ SourcesHaveAssets
    /\ MarkerIsSet /\ NoMarkerNeeded
    /\ UniqueContent /\ NoOrphanAsset /\ StraysAreMarked

LEMMA UnlinkedSets ==
    ASSUME NEW S, NEW i, NEW who, NEW T \in Unlinked(S, i, who)
    PROVE  T = S \/ T = S \ {i}
BY DEF Unlinked

LEMMA InitIInv == Init => IInv
<1> SUFFICES ASSUME Init PROVE IInv
  OBVIOUS
<1> USE CopiesAssumption DEF Init
<1>1. TypeOK
  BY DEF TypeOK
<1>2. Busy /\ UnbornIsUnknown /\ SourcesHaveAssets
  BY DEF Busy, UnbornIsUnknown, SourcesHaveAssets, Ids
<1>3. MarkerIsSet /\ NoMarkerNeeded
  BY DEF MarkerIsSet, NoMarkerNeeded
<1>4. UniqueContent /\ NoOrphanAsset /\ StraysAreMarked
  BY DEF UniqueContent, NoOrphanAsset, StraysAreMarked
<1> QED BY <1>1, <1>2, <1>3, <1>4 DEF IInv

--------------------------------------------------------------------------------
(* What steps leave alone *)

LEMMA RowsKept ==
    ASSUME IInv, UNCHANGED rows
    PROVE  SourcesHaveAssets' /\ UniqueContent' /\ NoOrphanAsset'
BY DEF IInv, rows, SourcesHaveAssets, UniqueContent, NoOrphanAsset, SourcesOf

\* A new asset with a source record is no orphan.
LEMMA NewAssetKeepsNoOrphan ==
    ASSUME IInv, NEW i, NEW path, catalog' = catalog \union {i},
           sources' = sources \union {<<i, path>>}
    PROVE  NoOrphanAsset'
<1> SUFFICES ASSUME NEW x \in catalog' PROVE SourcesOf(x)' # {}
  BY DEF NoOrphanAsset
<1>1. SourcesOf(x) \subseteq SourcesOf(x)'
  BY DEF SourcesOf
<1>2. CASE x \in catalog
  BY <1>1, <1>2 DEF IInv, NoOrphanAsset
<1>3. CASE x = i
  <2>1. <<x, path>> \in SourcesOf(x)'
    BY <1>3 DEF SourcesOf
  <2> QED BY <2>1
<1> QED BY <1>2, <1>3

\* Nothing new gets into the catalog, among the copies or into the hands of a command,
\* and no id is given back.
LEMMA NothingNew ==
    ASSUME IInv, catalog' \subseteq catalog, copies' \subseteq copies,
           \A i \in Ids : Unborn(i)' => Unborn(i),
           \A t \in Threads : /\ known'[t] \subseteq known[t] \union catalog
                              /\ victim'[t] \in {victim[t], NoId} \union catalog
    PROVE  UnbornIsUnknown'
BY CopiesAssumption DEF IInv, UnbornIsUnknown

\* Copies stay or go, and so do markers whose copies need none.
LEMMA StraysKept ==
    ASSUME IInv, catalog \subseteq catalog', given \subseteq given',
           \A i \in copies' : i \in copies /\ (i \in markers => i \in markers' \union given' \union catalog')
    PROVE  StraysAreMarked'
BY DEF IInv, StraysAreMarked

LEMMA ImporterKept ==
    ASSUME IInv, UNCHANGED importer
    PROVE  Busy' /\ \A i \in Ids : Unborn(i)' => Unborn(i)
BY DEF IInv, importer, Busy, Unborn

ImporterTyped ==
    /\ pc \in {"idle", "examining", "linking", "copying", "copied", "marked",
               "discarding", "cataloging", "recovering", "losing", "abandoning",
               "unmarking"}
    /\ current \in Candidates \union {NoId}
    /\ winner \in Ids \union {NoId}
    /\ outcome \in [Ids -> {"none", "succeeded", "failed", "lost"}]

LEMMA ReportKeeps ==
    ASSUME IInv, pc # "idle", NEW result \in {"succeeded", "failed", "lost"}, Report(result)
    PROVE  /\ ImporterTyped' /\ Busy' /\ MarkerIsSet'
           /\ pc' = "idle" /\ \A i \in Ids : Unborn(i)' => Unborn(i)
<1> USE DEF Report
<1>1. ImporterTyped'
  BY DEF IInv, TypeOK, ImporterTyped
<1>2. Busy' /\ MarkerIsSet'
  BY DEF Busy, MarkerIsSet
<1>3. \A i \in Ids : Unborn(i)' => Unborn(i)
  BY CopiesAssumption DEF IInv, TypeOK, Busy, Unborn, Ids
<1> QED BY <1>1, <1>2, <1>3

\* The importer goes on with its candidate, to a place of these.
LEMMA OnwardKeeps ==
    ASSUME IInv, pc # "idle", UNCHANGED <<current, outcome>>, winner' \in Ids \union {NoId},
           pc' \in {"linking", "copying", "copied", "marked", "discarding", "cataloging",
                    "recovering", "losing", "abandoning", "unmarking"},
           pc' \in Early => pc \in Early
    PROVE  ImporterTyped' /\ Busy' /\ \A i \in Ids : Unborn(i)' => Unborn(i)
<1>1. ImporterTyped'
  BY DEF IInv, TypeOK, ImporterTyped
<1>2. Busy'
  BY DEF IInv, Busy
<1>3. \A i \in Ids : Unborn(i)' => Unborn(i)
  BY DEF Unborn, Early
<1> QED BY <1>1, <1>2, <1>3

--------------------------------------------------------------------------------
(* The importer *)

LEMMA BeginIInv ==
    ASSUME IInv, NEW i \in Candidates, Begin(i)
    PROVE  IInv'
<1> USE DEF Begin
<1>1. TypeOK'
  BY DEF IInv, TypeOK, rows, files, commands
<1>2. Busy'
  BY DEF Busy
<1>3. UnbornIsUnknown'
  BY DEF IInv, UnbornIsUnknown, Unborn, rows, files, commands
<1>4. MarkerIsSet' /\ NoMarkerNeeded'
  BY DEF IInv, MarkerIsSet, NoMarkerNeeded, rows, files, commands
<1>5. StraysAreMarked'
  BY StraysKept DEF rows, files
<1> QED BY <1>1, <1>2, <1>3, <1>4, <1>5, RowsKept DEF IInv

LEMMA ExamineIInv ==
    ASSUME IInv, Examine
    PROVE  IInv'
<1> USE DEF Examine
<1>1. ImporterTyped' /\ Busy' /\ (\A i \in Ids : Unborn(i)' => Unborn(i)) /\ MarkerIsSet'
  <2>1. CASE Report("failed")
    BY <2>1, ReportKeeps
  <2>2. CASE pc' \in {"linking", "copying"} /\ UNCHANGED <<current, outcome>>
                /\ winner' \in {winner} \union catalog
    <3>1. winner' \in Ids \union {NoId}
      BY <2>2 DEF IInv, TypeOK
    <3> QED BY <2>2, <3>1, OnwardKeeps DEF Early, MarkerIsSet
  <2> QED BY <2>1, <2>2 DEF WithContentOf
<1>2. TypeOK'
  BY <1>1, CopiesAssumption DEF IInv, TypeOK, ImporterTyped, Busy, Names, Ids, Temp, rows, files, commands
<1>3. UnbornIsUnknown'
  BY <1>1, NothingNew DEF rows, files, commands
<1>4. NoMarkerNeeded'
  BY DEF IInv, NoMarkerNeeded, Report, rows, files, commands
<1>5. StraysAreMarked'
  BY StraysKept DEF rows, files
<1> QED BY <1>1, <1>2, <1>3, <1>4, <1>5, RowsKept DEF IInv

LEMMA LinkIInv ==
    ASSUME IInv, Link
    PROVE  IInv'
<1> USE DEF Link, WithSource
<1>1. ImporterTyped' /\ Busy' /\ (\A i \in Ids : Unborn(i)' => Unborn(i)) /\ MarkerIsSet'
      /\ pc' = "idle"
  BY ReportKeeps
<1>2. \/ UNCHANGED sources
      \/ winner \in catalog /\ sources' = sources \union {<<winner, PathOf[current]>>}
  OBVIOUS
<1>3. PathOf[current] \in Paths
  BY CopiesAssumption DEF IInv, Busy, Ids
<1>4. TypeOK'
  <2>1. sources' \subseteq Ids \X Paths
    BY <1>2, <1>3 DEF IInv, TypeOK
  <2> QED BY <1>1, <2>1 DEF IInv, TypeOK, ImporterTyped, files, commands
<1>5. UnbornIsUnknown'
  BY <1>1, NothingNew DEF files, commands
<1>6. NoMarkerNeeded'
  BY <1>1 DEF IInv, NoMarkerNeeded, files, commands
<1>7. StraysAreMarked'
  BY StraysKept DEF files
<1>8. SourcesHaveAssets' /\ UniqueContent' /\ NoOrphanAsset'
  BY <1>2 DEF IInv, SourcesHaveAssets, UniqueContent, NoOrphanAsset, SourcesOf
<1> QED BY <1>1, <1>4, <1>5, <1>6, <1>7, <1>8 DEF IInv

LEMMA CopyIInv ==
    ASSUME IInv, Copy
    PROVE  IInv'
<1> USE DEF Copy
<1>1. ImporterTyped' /\ Busy' /\ \A i \in Ids : Unborn(i)' => Unborn(i)
  BY OnwardKeeps DEF Early, IInv, TypeOK
<1>2. TypeOK'
  BY <1>1 DEF IInv, TypeOK, ImporterTyped, Busy, Ids, rows, commands
<1>3. UnbornIsUnknown'
  BY <1>1, NothingNew DEF rows, commands
<1>4. MarkerIsSet' /\ NoMarkerNeeded'
  BY DEF IInv, MarkerIsSet, NoMarkerNeeded, rows, commands
<1>5. StraysAreMarked'
  BY StraysKept DEF rows
<1> QED BY <1>1, <1>2, <1>3, <1>4, <1>5, RowsKept DEF IInv

LEMMA MarkIInv ==
    ASSUME IInv, Mark
    PROVE  IInv'
<1> USE DEF Mark
<1>1. ImporterTyped' /\ Busy' /\ \A i \in Ids : Unborn(i)' => Unborn(i)
  BY OnwardKeeps DEF Early, IInv, TypeOK
<1>2. TypeOK'
  BY <1>1 DEF IInv, TypeOK, ImporterTyped, Busy, Ids, Names, Marker, rows, commands
<1>3. UnbornIsUnknown'
  BY <1>1, NothingNew DEF rows, commands
<1>4. MarkerIsSet' /\ NoMarkerNeeded'
  BY DEF IInv, MarkerIsSet, NoMarkerNeeded, rows, commands
<1>5. StraysAreMarked'
  BY StraysKept DEF rows
<1> QED BY <1>1, <1>2, <1>3, <1>4, <1>5, RowsKept DEF IInv

LEMMA FinalizeIInv ==
    ASSUME IInv, Finalize
    PROVE  IInv'
<1> USE DEF Finalize
<1>1. ImporterTyped' /\ Busy' /\ \A i \in Ids : Unborn(i)' => Unborn(i)
  BY OnwardKeeps DEF Early, IInv, TypeOK
<1>2. current \in Ids /\ current \notin catalog /\ current \notin copies
      /\ \A t \in Threads : current \notin known[t] /\ victim[t] # current
  BY DEF IInv, Busy, UnbornIsUnknown, Unborn, Early, Ids
<1>3. \/ /\ copies' = copies \union {current} /\ UNCHANGED markers
         /\ pc' = "cataloging"
      \/ /\ UNCHANGED copies /\ markers' \in {markers, markers \ {current}}
         /\ pc' = "discarding"
  BY UnlinkedSets
<1>4. TypeOK'
  <2>1. temps' \subseteq Ids /\ markers' \subseteq Ids /\ copies' \subseteq Ids
    BY <1>2, <1>3 DEF IInv, TypeOK
  <2> QED BY <1>1, <2>1 DEF IInv, TypeOK, ImporterTyped, rows, commands
<1>5. UnbornIsUnknown'
  BY <1>1, <1>2, <1>3 DEF IInv, UnbornIsUnknown, Unborn, Early, rows, commands
<1>6. MarkerIsSet' /\ NoMarkerNeeded'
  BY <1>2, <1>3 DEF IInv, MarkerIsSet, NoMarkerNeeded, rows, commands
<1>7. StraysAreMarked'
  BY <1>2, <1>3 DEF IInv, MarkerIsSet, StraysAreMarked, rows
<1> QED BY <1>1, <1>4, <1>5, <1>6, <1>7, RowsKept DEF IInv

LEMMA DiscardIInv ==
    ASSUME IInv, Discard
    PROVE  IInv'
<1> USE DEF Discard
<1>1. ImporterTyped' /\ Busy' /\ (\A i \in Ids : Unborn(i)' => Unborn(i)) /\ MarkerIsSet'
      /\ pc' = "idle"
  BY ReportKeeps
<1>2. TypeOK'
  <2>1. temps' \subseteq Ids
    BY UnlinkedSets DEF IInv, TypeOK
  <2> QED BY <1>1, <2>1 DEF IInv, TypeOK, ImporterTyped, rows, commands
<1>3. UnbornIsUnknown'
  BY <1>1, NothingNew DEF rows, commands
<1>4. NoMarkerNeeded'
  BY <1>1 DEF IInv, NoMarkerNeeded, rows, commands
<1>5. StraysAreMarked'
  BY StraysKept DEF rows
<1> QED BY <1>1, <1>2, <1>3, <1>4, <1>5, RowsKept DEF IInv

LEMMA CatalogIInv ==
    ASSUME IInv, Catalog
    PROVE  IInv'
<1> USE DEF Catalog, WithSource
<1>1. ImporterTyped' /\ Busy' /\ \A i \in Ids : Unborn(i)' => Unborn(i)
  BY OnwardKeeps DEF Early, IInv, TypeOK
<1>2. current \in Ids /\ PathOf[current] \in Paths
  BY CopiesAssumption DEF IInv, Busy, Ids
<1>3. \/ /\ WithContentOf(current) = {}
         /\ catalog' = catalog \union {current}
         /\ sources' = sources \union {<<current, PathOf[current]>>}
      \/ UNCHANGED rows /\ pc' = "recovering"
  OBVIOUS
<1>4. TypeOK'
  <2>1. catalog' \subseteq Ids /\ sources' \subseteq Ids \X Paths
    BY <1>2, <1>3 DEF IInv, TypeOK, rows
  <2> QED BY <1>1, <2>1 DEF IInv, TypeOK, ImporterTyped, files, commands
<1>5. UnbornIsUnknown'
  BY <1>1, <1>3 DEF IInv, UnbornIsUnknown, Unborn, Early, rows, files, commands
<1>6. MarkerIsSet' /\ NoMarkerNeeded'
  BY <1>3 DEF IInv, MarkerIsSet, NoMarkerNeeded, rows, files, commands
<1>7. StraysAreMarked'
  BY <1>3, StraysKept DEF rows, files
<1>8. SourcesHaveAssets'
  BY <1>3 DEF IInv, SourcesHaveAssets, rows
<1>9. UniqueContent'
  BY <1>3 DEF IInv, UniqueContent, WithContentOf, rows
<1>10. NoOrphanAsset'
  BY <1>3, NewAssetKeepsNoOrphan, RowsKept
<1> QED BY <1>1, <1>4, <1>5, <1>6, <1>7, <1>8, <1>9, <1>10 DEF IInv

LEMMA RecoverIInv ==
    ASSUME IInv, Recover
    PROVE  IInv'
<1> USE DEF Recover, WithSource
<1>1. \/ UNCHANGED <<sources, winner>> /\ (pc' = "unmarking" => current \in catalog)
      \/ \E x \in catalog : /\ winner' = x /\ pc' \in {"losing", "abandoning"}
                            /\ sources' = sources \union {<<x, PathOf[current]>>}
  BY DEF WithContentOf
<1>2. ImporterTyped' /\ Busy' /\ \A i \in Ids : Unborn(i)' => Unborn(i)
  <2>1. winner' \in Ids \union {NoId}
    BY <1>1 DEF IInv, TypeOK
  <2> QED BY <2>1, OnwardKeeps DEF Early
<1>3. PathOf[current] \in Paths
  BY CopiesAssumption DEF IInv, Busy, Ids
<1>4. TypeOK'
  <2>1. sources' \subseteq Ids \X Paths
    BY <1>1, <1>3 DEF IInv, TypeOK
  <2> QED BY <1>2, <2>1 DEF IInv, TypeOK, ImporterTyped, files, commands
<1>5. UnbornIsUnknown'
  BY <1>2, NothingNew DEF files, commands
<1>6. MarkerIsSet' /\ NoMarkerNeeded'
  BY <1>1 DEF IInv, MarkerIsSet, NoMarkerNeeded, files, commands
<1>7. StraysAreMarked'
  BY StraysKept DEF files
<1>8. SourcesHaveAssets' /\ UniqueContent' /\ NoOrphanAsset'
  BY <1>1 DEF IInv, SourcesHaveAssets, UniqueContent, NoOrphanAsset, SourcesOf
<1> QED BY <1>2, <1>4, <1>5, <1>6, <1>7, <1>8 DEF IInv

LEMMA AbandonIInv ==
    ASSUME IInv, Abandon
    PROVE  IInv'
<1> USE DEF Abandon
<1>1. ImporterTyped' /\ Busy' /\ (\A i \in Ids : Unborn(i)' => Unborn(i)) /\ MarkerIsSet'
      /\ pc' = "idle"
  BY ReportKeeps
<1>2. \/ copies' = copies \ {current} /\ markers' \in {markers, markers \ {current}}
      \/ UNCHANGED <<copies, markers>>
  BY UnlinkedSets
<1>3. active' \subseteq active
  OBVIOUS
<1>4. TypeOK'
  BY <1>1, <1>2, <1>3 DEF IInv, TypeOK, ImporterTyped, rows, commands
<1>5. UnbornIsUnknown'
  BY <1>1, <1>2, NothingNew DEF rows, commands
<1>6. NoMarkerNeeded'
  BY <1>1, <1>2 DEF IInv, NoMarkerNeeded, rows, commands
<1>7. StraysAreMarked'
  BY <1>2, StraysKept DEF rows
<1> QED BY <1>1, <1>4, <1>5, <1>6, <1>7, RowsKept DEF IInv

LEMMA LoseIInv ==
    ASSUME IInv, Lose
    PROVE  IInv'
<1> USE DEF Lose, Unmarked
<1>1. ImporterTyped' /\ Busy' /\ (\A i \in Ids : Unborn(i)' => Unborn(i)) /\ MarkerIsSet'
      /\ pc' = "idle"
  BY ReportKeeps
<1>2. /\ copies' \subseteq copies /\ given \subseteq given' /\ given' \subseteq given \union {current}
      /\ active' \subseteq active
      /\ markers' \in {markers, markers \ {current}}
      /\ \/ UNCHANGED markers \/ current \in catalog
         \/ current \in given' \/ current \notin copies'
  BY UnlinkedSets
<1>3. TypeOK'
  BY <1>1, <1>2 DEF IInv, TypeOK, Busy, ImporterTyped, Ids, rows, commands
<1>4. UnbornIsUnknown'
  BY <1>1, <1>2, NothingNew DEF rows, commands
<1>5. NoMarkerNeeded'
  BY <1>1, <1>2 DEF IInv, NoMarkerNeeded, rows, commands
<1>6. StraysAreMarked'
  BY <1>2, StraysKept DEF rows
<1> QED BY <1>1, <1>3, <1>4, <1>5, <1>6, RowsKept DEF IInv

LEMMA UnmarkIInv ==
    ASSUME IInv, Unmark
    PROVE  IInv'
<1> USE DEF Unmark, Unmarked
<1>1. ImporterTyped' /\ Busy' /\ (\A i \in Ids : Unborn(i)' => Unborn(i)) /\ MarkerIsSet'
      /\ pc' = "idle"
  BY ReportKeeps
<1>2. markers' \in {markers, markers \ {current}}
  BY UnlinkedSets
<1>3. TypeOK'
  BY <1>1, <1>2 DEF IInv, TypeOK, ImporterTyped, rows, commands
<1>4. UnbornIsUnknown'
  BY <1>1, NothingNew DEF rows, commands
<1>5. NoMarkerNeeded'
  BY <1>1 DEF IInv, NoMarkerNeeded, rows, commands
<1>6. StraysAreMarked'
  BY <1>2, StraysKept DEF IInv, NoMarkerNeeded, rows
<1> QED BY <1>1, <1>3, <1>4, <1>5, <1>6, RowsKept DEF IInv

LEMMA RivalIInv ==
    ASSUME IInv, NEW x \in Rivals, RivalCatalogs(x)
    PROVE  IInv'
<1> USE DEF RivalCatalogs, WithSource
<1>1. x \in Ids /\ x # current /\ PathOf[x] \in Paths
  BY CopiesAssumption DEF IInv, TypeOK, Ids
<1>2. Unborn(x) /\ x \notin catalog /\ x \notin copies
      /\ \A t \in Threads : x \notin known[t] /\ victim[t] # x
  BY <1>1 DEF IInv, UnbornIsUnknown, Unborn
<1>3. Busy' /\ (\A i \in Ids : Unborn(i)' => Unborn(i) /\ i # x)
  BY <1>1 DEF IInv, TypeOK, Busy, Unborn, Ids
<1>4. TypeOK'
  <2>1. outcome' \in [Ids -> {"none", "succeeded", "failed", "lost"}]
    BY DEF IInv, TypeOK
  <2> QED BY <1>1, <2>1 DEF IInv, TypeOK, commands
<1>5. UnbornIsUnknown'
  BY <1>3 DEF IInv, UnbornIsUnknown, commands
<1>6. MarkerIsSet' /\ NoMarkerNeeded'
  BY <1>2 DEF IInv, MarkerIsSet, NoMarkerNeeded, commands
<1>7. StraysAreMarked'
  BY DEF IInv, StraysAreMarked
<1>8. SourcesHaveAssets'
  BY DEF IInv, SourcesHaveAssets
<1>9. UniqueContent'
  BY DEF IInv, UniqueContent, WithContentOf
<1>10. NoOrphanAsset'
  BY NewAssetKeepsNoOrphan
<1> QED BY <1>3, <1>4, <1>5, <1>6, <1>7, <1>8, <1>9, <1>10 DEF IInv

--------------------------------------------------------------------------------
(* Commands *)

\* So much holds after every step of a command.
LEMMA CommandKeeps ==
    ASSUME IInv, UNCHANGED <<active, importer>>
    PROVE  /\ Busy' /\ \A i \in Ids : Unborn(i)' => Unborn(i)
           /\ markers' = markers => MarkerIsSet'
BY ImporterKept DEF IInv, MarkerIsSet, importer

LEMMA ReadCatalogIInv ==
    ASSUME IInv, NEW t \in Threads, ReadCatalog(t)
    PROVE  IInv'
<1> USE DEF ReadCatalog
<1>1. TypeOK'
  <2>1. known' \in [Threads -> SUBSET Ids]
    BY DEF IInv, TypeOK
  <2> QED BY <2>1 DEF IInv, TypeOK, rows, files, importer
<1>2. Busy' /\ MarkerIsSet'
  BY CommandKeeps DEF files
<1>3. UnbornIsUnknown'
  BY CommandKeeps, NothingNew DEF IInv, TypeOK, rows, files
<1>4. NoMarkerNeeded'
  BY DEF IInv, TypeOK, NoMarkerNeeded, rows, files, importer
<1>5. StraysAreMarked'
  BY StraysKept DEF rows, files
<1> QED BY <1>1, <1>2, <1>3, <1>4, <1>5, RowsKept DEF IInv

LEMMA ListOriginalsIInv ==
    ASSUME IInv, NEW t \in Threads, ListOriginals(t)
    PROVE  IInv'
<1> USE DEF ListOriginals
<1>1. TypeOK'
  <2>1. {Temp(i) : i \in temps} \union {Marker(i) : i \in markers} \in SUBSET Names
    BY DEF IInv, TypeOK, Names, Temp, Marker
  <2>2. names' \in [Threads -> SUBSET Names]
    BY <2>1 DEF IInv, TypeOK
  <2> QED BY <2>2 DEF IInv, TypeOK, rows, files, importer
<1>2. Busy' /\ MarkerIsSet'
  BY CommandKeeps DEF files
<1>3. UnbornIsUnknown'
  BY CommandKeeps, NothingNew DEF IInv, TypeOK, rows, files
<1>4. NoMarkerNeeded'
  BY DEF IInv, TypeOK, NoMarkerNeeded, rows, files, importer
<1>5. StraysAreMarked'
  BY StraysKept DEF rows, files
<1> QED BY <1>1, <1>2, <1>3, <1>4, <1>5, RowsKept DEF IInv

LEMMA SweepIInv ==
    ASSUME IInv, NEW t \in Threads, NEW n \in Names, Sweep(t, n)
    PROVE  IInv'
<1> USE DEF Sweep
<1>1. \/ UNCHANGED files
      \/ /\ n \notin active /\ n.kind = "temp" /\ UNCHANGED <<markers, copies, given>>
         /\ temps' \in {temps, temps \ {n.id}}
      \/ /\ n \notin active /\ n.kind = "marker" /\ UNCHANGED temps
         /\ copies' \in {copies, copies \ {n.id}}
         /\ markers' \in {markers, markers \ {n.id}}
         /\ given' = IF n.id \notin known[t] /\ n.id \in copies'
                     THEN given \union {n.id} ELSE given
  BY UnlinkedSets DEF Names
<1>2. TypeOK'
  <2>1. temps' \subseteq Ids /\ markers' \subseteq Ids /\ copies' \subseteq Ids /\ given' \subseteq Ids
    BY <1>1 DEF IInv, TypeOK, files, Names
  <2>2. names' \in [Threads -> SUBSET Names]
    BY DEF IInv, TypeOK
  <2> QED BY <2>1, <2>2 DEF IInv, TypeOK, rows, importer
<1>3. copies' \subseteq copies /\ given \subseteq given'
  BY <1>1 DEF files
<1>4. Busy'
  BY CommandKeeps
<1>5. MarkerIsSet'
  <2> SUFFICES ASSUME pc' = "marked" PROVE current' \in markers' /\ Marker(current)' \in active'
    BY DEF MarkerIsSet
  <2>1. current \in markers /\ Marker(current) \in active
    BY DEF IInv, MarkerIsSet, importer
  <2>2. n.kind = "marker" /\ n \notin active => n.id # current
    BY <2>1 DEF Names, Marker
  <2> QED BY <1>1, <2>1, <2>2 DEF importer, files, Marker
<1>6. UnbornIsUnknown'
  BY <1>3, CommandKeeps, NothingNew DEF IInv, TypeOK, rows
<1>7. NoMarkerNeeded'
  BY <1>3 DEF IInv, TypeOK, NoMarkerNeeded, rows, importer
<1>8. StraysAreMarked'
  <2> SUFFICES ASSUME NEW i \in copies' PROVE i \in catalog' \union markers' \union given'
    BY DEF StraysAreMarked
  <2>1. i \in catalog \union markers \union given
    BY <1>3 DEF IInv, StraysAreMarked
  <2>2. CASE i \in markers /\ i \notin markers'
    <3>1. i = n.id /\ (i \in known[t] \/ i \in given')
      BY <1>1, <2>2 DEF files
    <3> QED BY <1>3, <3>1 DEF IInv, NoMarkerNeeded, rows
  <2> QED BY <1>3, <2>1, <2>2 DEF rows
<1> QED BY <1>2, <1>4, <1>5, <1>6, <1>7, <1>8, RowsKept DEF IInv

LEMMA SweepDoneIInv ==
    ASSUME IInv, NEW t \in Threads, SweepDone(t)
    PROVE  IInv'
<1> USE DEF SweepDone
<1>1. TypeOK'
  <2>1. known' \in [Threads -> SUBSET Ids]
    BY DEF IInv, TypeOK
  <2> QED BY <2>1 DEF IInv, TypeOK, rows, files, importer
<1>2. Busy' /\ MarkerIsSet'
  BY CommandKeeps DEF files
<1>3. UnbornIsUnknown'
  BY CommandKeeps, NothingNew DEF IInv, TypeOK, rows, files
<1>4. NoMarkerNeeded'
  BY DEF IInv, TypeOK, NoMarkerNeeded, rows, files, importer
<1>5. StraysAreMarked'
  BY StraysKept DEF rows, files
<1> QED BY <1>1, <1>2, <1>3, <1>4, <1>5, RowsKept DEF IInv

\* A deletion gets as far as the file.
LEMMA VictimIInv ==
    ASSUME IInv, NEW t \in Threads, NEW x \in catalog, Unlink(x),
           NEW step \in {"deleting", "removing"},
           thread' = [thread EXCEPT ![t] = step], victim' = [victim EXCEPT ![t] = x],
           UNCHANGED <<rows, temps, markers, active, importer, known, names>>
    PROVE  IInv'
<1>1. copies' \in {copies, copies \ {x}} /\ given' = IF x \in copies' THEN given \union {x} ELSE given
  BY UnlinkedSets DEF Unlink
<1>2. x \in Ids
  BY DEF IInv, TypeOK
<1>3. TypeOK'
  <2>1. victim' \in [Threads -> Ids \union {NoId}]
    BY <1>2 DEF IInv, TypeOK
  <2>2. copies' \subseteq Ids /\ given' \subseteq Ids
    BY <1>1, <1>2 DEF IInv, TypeOK
  <2> QED BY <2>1, <2>2 DEF IInv, TypeOK, rows, importer
<1>4. Busy' /\ MarkerIsSet'
  BY CommandKeeps
<1>5. UnbornIsUnknown'
  BY <1>1, CommandKeeps, NothingNew DEF IInv, TypeOK, rows
<1>6. NoMarkerNeeded'
  BY <1>1 DEF IInv, TypeOK, NoMarkerNeeded, rows, importer
<1>7. StraysAreMarked'
  BY <1>1, StraysKept DEF rows
<1> QED BY <1>3, <1>4, <1>5, <1>6, <1>7, RowsKept DEF IInv

LEMMA BeginDeleteIInv ==
    ASSUME IInv, NEW t \in Threads, NEW x \in Ids, BeginDelete(t, x) \/ BeginRemoveLast(t, x)
    PROVE  IInv'
<1>1. CASE BeginDelete(t, x)
  BY <1>1, VictimIInv DEF BeginDelete
<1>2. CASE BeginRemoveLast(t, x)
  <2>1. SourcesOf(x) # {}
    BY <1>2, FS_EmptySet DEF BeginRemoveLast
  <2>2. x \in catalog
    BY <2>1 DEF IInv, SourcesHaveAssets, SourcesOf
  <2> QED BY <1>2, <2>2, VictimIInv DEF BeginRemoveLast
<1> QED BY <1>1, <1>2

LEMMA RemoveSourceIInv ==
    ASSUME IInv, NEW t \in Threads, NEW x \in Ids, NEW path \in Paths, RemoveSource(t, x, path)
    PROVE  IInv'
<1> USE DEF RemoveSource, Done
<1>1. TypeOK'
  <2>1. victim' \in [Threads -> Ids \union {NoId}]
    BY DEF IInv, TypeOK
  <2> QED BY <2>1 DEF IInv, TypeOK, files, importer
<1>2. Busy' /\ MarkerIsSet'
  BY CommandKeeps DEF files
<1>3. UnbornIsUnknown'
  BY CommandKeeps, NothingNew DEF IInv, TypeOK, files
<1>4. NoMarkerNeeded'
  BY CopiesAssumption DEF IInv, TypeOK, NoMarkerNeeded, files, importer
<1>5. StraysAreMarked'
  BY StraysKept DEF files
<1>6. SourcesHaveAssets' /\ UniqueContent'
  BY DEF IInv, SourcesHaveAssets, UniqueContent
<1>7. NoOrphanAsset'
  <2> SUFFICES ASSUME NEW y \in catalog PROVE SourcesOf(y)' # {}
    BY DEF NoOrphanAsset
  <2>1. PICK s \in SourcesOf(y) : s # <<x, path>>
    BY DEF IInv, NoOrphanAsset, SourcesOf
  <2> QED BY <2>1 DEF SourcesOf
<1> QED BY <1>1, <1>2, <1>3, <1>4, <1>5, <1>6, <1>7 DEF IInv

LEMMA CommitDeleteIInv ==
    ASSUME IInv, NEW t \in Threads, CommitDelete(t)
    PROVE  IInv'
<1> USE DEF CommitDelete, Done
<1>1. TypeOK'
  <2>1. victim' \in [Threads -> Ids \union {NoId}]
    BY DEF IInv, TypeOK
  <2> QED BY <2>1 DEF IInv, TypeOK, files, importer
<1>2. Busy' /\ MarkerIsSet'
  BY CommandKeeps DEF files
<1>3. UnbornIsUnknown'
  BY CommandKeeps, NothingNew DEF IInv, TypeOK, files
<1>4. victim[t] \in copies => victim[t] \in given
  BY DEF IInv, NoMarkerNeeded
<1>5. NoMarkerNeeded'
  BY <1>4, CopiesAssumption DEF IInv, TypeOK, NoMarkerNeeded, files, importer
<1>6. StraysAreMarked'
  BY <1>4 DEF IInv, StraysAreMarked, files
<1>7. SourcesHaveAssets' /\ UniqueContent'
  BY DEF IInv, SourcesHaveAssets, UniqueContent, SourcesOf
<1>8. NoOrphanAsset'
  BY DEF IInv, NoOrphanAsset, SourcesOf
<1> QED BY <1>1, <1>2, <1>3, <1>5, <1>6, <1>7, <1>8 DEF IInv

LEMMA GiveUpIInv ==
    ASSUME IInv, NEW t \in Threads, GiveUp(t)
    PROVE  IInv'
<1> USE DEF GiveUp, Done
<1>1. TypeOK'
  <2>1. victim' \in [Threads -> Ids \union {NoId}]
    BY DEF IInv, TypeOK
  <2> QED BY <2>1 DEF IInv, TypeOK, rows, files, importer
<1>2. Busy' /\ MarkerIsSet'
  BY CommandKeeps DEF files
<1>3. UnbornIsUnknown'
  BY CommandKeeps, NothingNew DEF IInv, TypeOK, rows, files
<1>4. NoMarkerNeeded'
  BY CopiesAssumption DEF IInv, TypeOK, NoMarkerNeeded, rows, files, importer
<1>5. StraysAreMarked'
  BY StraysKept DEF rows, files
<1> QED BY <1>1, <1>2, <1>3, <1>4, <1>5, RowsKept DEF IInv

LEMMA RestartIInv ==
    ASSUME IInv, Restart
    PROVE  IInv'
<1> USE DEF Restart
<1>1. TypeOK'
  BY DEF IInv, TypeOK, rows, files
<1>2. Busy' /\ MarkerIsSet'
  BY DEF Busy, MarkerIsSet
<1>3. \A i \in Ids : Unborn(i)' => Unborn(i)
  BY DEF IInv, TypeOK, Unborn
<1>4. UnbornIsUnknown'
  BY <1>3, NothingNew DEF rows, files
<1>5. NoMarkerNeeded'
  BY CopiesAssumption DEF IInv, TypeOK, NoMarkerNeeded, rows, files
<1>6. StraysAreMarked'
  BY StraysKept DEF rows, files
<1> QED BY <1>1, <1>2, <1>4, <1>5, <1>6, RowsKept DEF IInv

--------------------------------------------------------------------------------
LEMMA NextIInv == IInv /\ [Next]_vars => IInv'
<1> SUFFICES ASSUME IInv, [Next]_vars PROVE IInv'
  OBVIOUS
<1>1. CASE ImportStep
  BY <1>1, BeginIInv, ExamineIInv, LinkIInv, CopyIInv, MarkIInv, FinalizeIInv, DiscardIInv,
     CatalogIInv, RecoverIInv, AbandonIInv, LoseIInv, UnmarkIInv DEF ImportStep
<1>2. ASSUME NEW t \in Threads, CommandStep(t) PROVE IInv'
  BY <1>2, ReadCatalogIInv, ListOriginalsIInv, SweepIInv, SweepDoneIInv, BeginDeleteIInv,
     RemoveSourceIInv, CommitDeleteIInv, GiveUpIInv DEF CommandStep
<1>3. CASE UNCHANGED vars
  <2>1. TypeOK'
    BY <1>3 DEF IInv, TypeOK, vars, rows, files, importer, commands
  <2>2. Busy' /\ MarkerIsSet' /\ StraysAreMarked'
    BY <1>3, CommandKeeps, StraysKept DEF vars, rows, files
  <2>3. UnbornIsUnknown' /\ NoMarkerNeeded'
    BY <1>3 DEF IInv, UnbornIsUnknown, Unborn, NoMarkerNeeded, vars, rows, files, importer, commands
  <2> QED BY <1>3, <2>1, <2>2, <2>3, RowsKept DEF IInv, vars
<1> QED BY <1>1, <1>2, <1>3, RivalIInv, RestartIInv DEF Next

LEMMA Invariance == Spec => []IInv
BY InitIInv, NextIInv, PTL DEF Spec

--------------------------------------------------------------------------------
\* Catalog rows, files and the positions of the importer and of the commands keep their
\* types.
THEOREM TypeCorrect == Spec => []TypeOK
<1>1. IInv => TypeOK
  BY DEF IInv
<1> QED BY <1>1, Invariance, PTL

\* Never have two assets the same content (the catalog transaction and what follows a
\* race that it lost).
THEOREM OneAssetPerContent == Spec => []UniqueContent
<1>1. IInv => UniqueContent
  BY DEF IInv
<1> QED BY <1>1, Invariance, PTL

\* Every asset has a source record, whatever imports and removals overlap
\* (remove_source_record, _commit_existing_asset_source_record).
THEOREM NoOrphans == Spec => []NoOrphanAsset
<1>1. IInv => NoOrphanAsset
  BY DEF IInv
<1> QED BY <1>1, Invariance, PTL

\* A copy without an asset has its marker, unless somebody saw it and left it, after
\* every error and every crash (_import_file_candidates, _recover_abandoned_import_files).
THEOREM MarkedStrays == Spec => []StraysAreMarked
<1>1. IInv => StraysAreMarked
  BY DEF IInv
<1> QED BY <1>1, Invariance, PTL

\* A failing or losing import never removes the copy of a cataloged asset
\* (_library_copy_is_referenced).
THEOREM CopiesSurviveImports == Spec => ImportKeepsCopies
<1> DEFINE Kept == \A i \in catalog : (pc # "idle" /\ pc' # pc) => (i \in copies => i \in copies')
<1>1. [Next]_vars => [Kept]_vars
  <2> SUFFICES ASSUME Next, pc' # pc, NEW i \in catalog, i \in copies PROVE i \in copies'
    OBVIOUS
  <2>1. CASE ImportStep
    BY <2>1 DEF ImportStep, Begin, Examine, Link, Copy, Mark, Finalize, Discard, Catalog, Recover,
                Abandon, Lose, Unmark, Unmarked, files
  <2>2. ASSUME NEW t \in Threads, CommandStep(t) PROVE FALSE
    BY <2>2 DEF CommandStep, ReadCatalog, ListOriginals, Sweep, SweepDone, BeginDelete, RemoveSource,
                BeginRemoveLast, CommitDelete, GiveUp, importer
  <2>3. ASSUME NEW x \in Rivals, RivalCatalogs(x) PROVE FALSE
    BY <2>3 DEF RivalCatalogs
  <2>4. CASE Restart
    BY <2>4 DEF Restart, files
  <2> QED BY <2>1, <2>2, <2>3, <2>4 DEF Next
<1> QED BY <1>1, PTL DEF Spec, ImportKeepsCopies

================================================================================
