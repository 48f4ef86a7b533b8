----------------------------- MODULE LibraryCopies -----------------------------
(* The files in originals/ and the catalog rows that own them: the import of    *)
(* one candidate (_import_file_candidates in asset_catalog.py), the cleaning of *)
(* what an interrupted import left (_recover_abandoned_import_files, which      *)
(* every initialize_library runs), and the deletion of assets.                  *)
(*                                                                              *)
(* One process: its importer, which takes one candidate at a time, and threads  *)
(* that give commands.  An import of another process (`cli import`) appears as  *)
(* the asset it commits.  A candidate's asset id is new, so candidates name     *)
(* their files: .<id>.tmp (temps), .<id>.<ext>.pending (markers), <id>.<ext>    *)
(* (copies).                                                                    *)
EXTENDS Naturals, FiniteSets

CONSTANTS Candidates,     \* what the importer takes up, and the asset id it draws
          Rivals,         \* assets that another process imports
          Contents, Paths,
          ContentOf,      \* the content of each of them
          PathOf,         \* and the source path it comes from
          Threads,        \* threads that give commands, the worker tick included
          UnlinkMayFail,  \* who may meet a file that cannot be removed: "import",
                          \* "sweep" (recovery) or "delete"
          LookupMayFail,  \* whether the loser of a race may fail to read the catalog
          NoId

Ids == Candidates \union Rivals

ASSUME CopiesAssumption ==
    /\ Candidates \intersect Rivals = {}
    /\ ContentOf \in [Ids -> Contents] /\ PathOf \in [Ids -> Paths]
    /\ UnlinkMayFail \subseteq {"import", "sweep", "delete"} /\ LookupMayFail \in BOOLEAN
    /\ NoId \notin Ids

Names == [kind : {"temp", "marker"}, id : Ids]

VARIABLES catalog,   \* ids of the asset rows
          sources,   \* source_record rows: asset id and path
          temps, markers, copies,  \* files in originals/
          given,     \* ids whose copy somebody left there, unowned, on purpose (ghost)
          active,    \* _ACTIVE_IMPORT_FILES
          pc,        \* where the importer is
          current,   \* its candidate
          winner,    \* the asset that already has the candidate's content
          outcome,   \* what became of each import
          thread,    \* what each command thread does
          known,     \* library paths it read before it listed originals/
          names,     \* the listed names it has not looked at
          victim     \* the asset it deletes

rows == <<catalog, sources>>
files == <<temps, markers, copies, given>>
importer == <<pc, current, winner, outcome>>
commands == <<thread, known, names, victim>>
vars == <<rows, files, active, importer, commands>>

TypeOK ==
    /\ catalog \subseteq Ids
    /\ sources \subseteq Ids \X Paths
    /\ temps \subseteq Ids /\ markers \subseteq Ids /\ copies \subseteq Ids
    /\ given \subseteq Ids
    /\ active \subseteq Names
    /\ pc \in {"idle", "examining", "linking", "copying", "copied", "marked",
               "discarding", "cataloging", "recovering", "losing", "abandoning",
               "unmarking"}
    /\ current \in Candidates \union {NoId}
    /\ winner \in Ids \union {NoId}
    /\ outcome \in [Ids -> {"none", "succeeded", "failed", "lost"}]
    /\ thread \in [Threads -> {"idle", "knowing", "scanning", "ready", "deleting", "removing"}]
    /\ known \in [Threads -> SUBSET Ids]
    /\ names \in [Threads -> SUBSET Names]
    /\ victim \in [Threads -> Ids \union {NoId}]

Temp(i) == [kind |-> "temp", id |-> i]
Marker(i) == [kind |-> "marker", id |-> i]

\* What unlinking i, by `who`, may make of a set of files.
Unlinked(S, i, who) == {S \ {i}} \union (IF who \in UnlinkMayFail THEN {S} ELSE {})

WithContentOf(i) == {x \in catalog : ContentOf[x] = ContentOf[i]}

\* upsert_source_record: the path of i becomes a source of asset x, or is seen again.
WithSource(x, i) == sources \union {<<x, PathOf[i]>>}

\* A thread that removes the last source of an asset holds the write lock.
Locked == \E t \in Threads : thread[t] = "removing"

--------------------------------------------------------------------------------
(* The import of a candidate *)

Report(result) ==
    /\ outcome' = [outcome EXCEPT ![current] = result]
    /\ pc' = "idle" /\ current' = NoId /\ winner' = NoId

Begin(i) ==
    /\ pc = "idle" /\ outcome[i] = "none"
    /\ pc' = "examining" /\ current' = i
    /\ UNCHANGED <<rows, files, active, winner, outcome, commands>>

\* Reading, hashing and validating the source; then the look for its content.
Examine ==
    /\ pc = "examining"
    /\ \/ /\ WithContentOf(current) = {}
          /\ active' = active \union {Temp(current)}
          /\ pc' = "copying"
          /\ UNCHANGED <<current, winner, outcome>>
       \/ /\ \E x \in WithContentOf(current) : winner' = x
          /\ pc' = "linking"
          /\ UNCHANGED <<active, current, outcome>>
       \/ Report("failed") /\ UNCHANGED active
    /\ UNCHANGED <<rows, files, commands>>

\* _commit_existing_asset_source_record.  A reported error is looked up again, so
\* that a commit that did happen counts, unless the look-up fails as well.
Link ==
    /\ pc = "linking"
    /\ \/ /\ winner \in catalog /\ ~ Locked
          /\ sources' = WithSource(winner, current)
          /\ Report("succeeded") \/ Report("failed")
       \/ UNCHANGED sources /\ Report("failed")
    /\ UNCHANGED <<catalog, files, active, commands>>

Copy ==
    /\ pc = "copying"
    /\ \/ temps' = temps \union {current} /\ pc' \in {"copied", "discarding"}
       \/ UNCHANGED temps /\ pc' = "discarding"
    /\ UNCHANGED <<rows, markers, copies, given, active, current, winner, outcome, commands>>

\* The copy was checked against hash and source; its marker is set before it gets
\* its final name.
Mark ==
    /\ pc = "copied"
    /\ \/ /\ active' = active \union {Marker(current)}
          /\ markers' = markers \union {current}
          /\ pc' = "marked"
       \/ pc' = "discarding" /\ UNCHANGED <<active, markers>>
    /\ UNCHANGED <<rows, temps, copies, given, current, winner, outcome, commands>>

\* os.replace and the `finally` that follows it; an OSError takes the marker away.
Finalize ==
    /\ pc = "marked"
    /\ \/ /\ current \in temps
          /\ copies' = copies \union {current}
          /\ temps' = temps \ {current}
          /\ active' = active \ {Temp(current)}
          /\ pc' = "cataloging"
          /\ UNCHANGED markers
       \/ /\ markers' \in Unlinked(markers, current, "import")
          /\ active' = active \ {Marker(current)}
          /\ pc' = "discarding"
          /\ UNCHANGED <<temps, copies>>
    /\ UNCHANGED <<rows, given, current, winner, outcome, commands>>

\* The `finally` of a candidate that failed before it had its final name.
Discard ==
    /\ pc = "discarding"
    /\ temps' \in Unlinked(temps, current, "import")
    /\ active' = active \ {Temp(current)}
    /\ Report("failed")
    /\ UNCHANGED <<rows, markers, copies, given, commands>>

\* Mutant: content_hash is not unique.
CatalogAnyway ==
    /\ pc = "cataloging"
    /\ catalog' = catalog \union {current}
    /\ sources' = WithSource(current, current)
    /\ pc' \in {"unmarking", "recovering"}
    /\ UNCHANGED <<files, active, current, winner, outcome, commands>>

\* The catalog transaction.  content_hash is unique; an error may be reported for
\* a commit that happened.
Catalog ==
    /\ pc = "cataloging"
    /\ \/ /\ WithContentOf(current) = {} /\ ~ Locked
          /\ catalog' = catalog \union {current}
          /\ sources' = WithSource(current, current)
          /\ pc' \in {"unmarking", "recovering"}
       \/ pc' = "recovering" /\ UNCHANGED rows
    /\ UNCHANGED <<files, active, current, winner, outcome, commands>>

\* Mutant: the source record goes to the asset that Examine found, which is none.
RecoverStaleWinner ==
    /\ pc = "recovering"
    /\ \/ /\ current \in catalog
          /\ pc' = "unmarking"
          /\ UNCHANGED <<sources, winner>>
       \/ /\ \E x \in WithContentOf(current) \ {current} : winner' = x
          /\ ~ Locked
          /\ sources' = WithSource(winner, current)
          /\ pc' = "losing"
       \/ pc' = "abandoning" /\ UNCHANGED <<sources, winner>>
    /\ UNCHANGED <<catalog, files, active, current, outcome, commands>>

\* _recover_new_asset_commit: what the catalog says now decides; it may be out of
\* reach, also when the source of the winner was committed and that was reported as an
\* error.
Recover ==
    /\ pc = "recovering"
    /\ \/ /\ current \in catalog
          /\ <<current, PathOf[current]>> \in sources
          /\ pc' = "unmarking"
          /\ UNCHANGED <<sources, winner>>
       \/ /\ \E x \in WithContentOf(current) \ {current} :
               /\ winner' = x /\ ~ Locked
               /\ sources' = WithSource(x, current)
          /\ pc' \in {"losing", "abandoning"}
       \/ pc' = "abandoning" /\ UNCHANGED <<sources, winner>>
    /\ UNCHANGED <<catalog, files, active, current, outcome, commands>>

\* Mutant: _library_copy_is_referenced is not asked.
AbandonUnchecked ==
    /\ pc = "abandoning"
    /\ copies' = copies \ {current}
    /\ markers' = markers \ {current}
    /\ active' = active \ {Marker(current)}
    /\ Report("failed")
    /\ UNCHANGED <<rows, temps, given, commands>>

\* The copy goes unless a row refers to it, or that cannot be found out.  When it
\* cannot be removed the marker stays, and stays active.
Abandon ==
    /\ pc = "abandoning"
    /\ \/ /\ current \notin catalog
          /\ copies' = copies \ {current}
          /\ markers' \in Unlinked(markers, current, "import")
          /\ active' = active \ {Marker(current)}
       \/ active' = active \ {Marker(current)} /\ UNCHANGED <<copies, markers>>
       \/ "import" \in UnlinkMayFail /\ current \notin catalog /\ UNCHANGED <<copies, markers, active>>
    /\ Report("failed")
    /\ UNCHANGED <<rows, temps, given, commands>>

\* Takes the marker off; its file may stay.
Unmarked ==
    /\ markers' \in Unlinked(markers, current, "import")
    /\ active' = active \ {Marker(current)}
    /\ Report("succeeded")

\* Somebody else's asset has the content: this copy goes.
Lose ==
    /\ pc = "losing"
    /\ \/ current \notin catalog /\ copies' = copies \ {current} /\ Unmarked /\ UNCHANGED given
       \/ current \in catalog /\ UNCHANGED <<copies, given>> /\ Unmarked
       \/ LookupMayFail /\ UNCHANGED copies /\ given' = given \union {current} /\ Unmarked
       \/ /\ "import" \in UnlinkMayFail /\ current \notin catalog
          /\ UNCHANGED <<copies, markers, given, active>>
          /\ Report("failed")
    /\ UNCHANGED <<rows, temps, commands>>

Unmark ==
    /\ pc = "unmarking"
    /\ Unmarked
    /\ UNCHANGED <<rows, temps, copies, given, commands>>

\* An import of another process commits: its copy has its final name by then.
RivalCatalogs(x) ==
    /\ outcome[x] = "none" /\ WithContentOf(x) = {} /\ ~ Locked
    /\ outcome' = [outcome EXCEPT ![x] = "succeeded"]
    /\ catalog' = catalog \union {x}
    /\ sources' = WithSource(x, x)
    /\ copies' = copies \union {x}
    /\ UNCHANGED <<temps, markers, given, active, pc, current, winner, commands>>

--------------------------------------------------------------------------------
(* initialize_library: _recover_abandoned_import_files *)

\* The library paths are read first, in a transaction of their own.
ReadCatalog(t) ==
    /\ thread[t] = "idle"
    /\ thread' = [thread EXCEPT ![t] = "knowing"]
    /\ known' = [known EXCEPT ![t] = catalog]
    /\ UNCHANGED <<rows, files, active, importer, names, victim>>

ListOriginals(t) ==
    /\ thread[t] = "knowing"
    /\ thread' = [thread EXCEPT ![t] = "scanning"]
    /\ names' = [names EXCEPT ![t] = {Temp(i) : i \in temps} \union {Marker(i) : i \in markers}]
    /\ UNCHANGED <<rows, files, active, importer, known, victim>>

\* Mutant: nothing is said to be in use.
SweepEverything(t, n) ==
    /\ thread[t] = "scanning" /\ n \in names[t]
    /\ names' = [names EXCEPT ![t] = @ \ {n}]
    /\ temps' = IF n.kind = "temp" THEN temps \ {n.id} ELSE temps
    /\ copies' = IF n.kind = "marker" THEN copies \ ({n.id} \ known[t]) ELSE copies
    /\ markers' = IF n.kind = "marker" THEN markers \ {n.id} ELSE markers
    /\ UNCHANGED <<rows, given, active, importer, thread, known, victim>>

\* One listed name.  Names in use are left alone; a file that cannot be removed
\* stays, and its marker goes nevertheless.
Sweep(t, n) ==
    /\ thread[t] = "scanning" /\ n \in names[t]
    /\ names' = [names EXCEPT ![t] = @ \ {n}]
    /\ IF n \in active THEN UNCHANGED files
       ELSE IF n.kind = "temp"
       THEN temps' \in Unlinked(temps, n.id, "sweep") /\ UNCHANGED <<markers, copies, given>>
       ELSE /\ copies' \in IF n.id \in known[t] THEN {copies} ELSE Unlinked(copies, n.id, "sweep")
            /\ given' = IF n.id \notin known[t] /\ n.id \in copies'
                        THEN given \union {n.id} ELSE given
            /\ markers' \in Unlinked(markers, n.id, "sweep")
            /\ UNCHANGED temps
    /\ UNCHANGED <<rows, active, importer, thread, known, victim>>

\* The command itself, or none: most commands do not touch these files.
SweepDone(t) ==
    /\ thread[t] = "scanning" /\ names[t] = {}
    /\ thread' = [thread EXCEPT ![t] = "ready"]
    /\ known' = [known EXCEPT ![t] = {}]
    /\ UNCHANGED <<rows, files, active, importer, names, victim>>

--------------------------------------------------------------------------------
(* delete_asset and remove_source_record *)

Done(t) ==
    /\ thread' = [thread EXCEPT ![t] = "idle"]
    /\ victim' = [victim EXCEPT ![t] = NoId]

\* The file of an asset goes; one that cannot be removed stays, without a marker.
Unlink(x) ==
    /\ copies' \in Unlinked(copies, x, "delete")
    /\ given' = IF x \in copies' THEN given \union {x} ELSE given

\* The file goes before the first write of the transaction.
BeginDelete(t, x) ==
    /\ thread[t] = "ready" /\ x \in catalog
    /\ thread' = [thread EXCEPT ![t] = "deleting"]
    /\ victim' = [victim EXCEPT ![t] = x]
    /\ Unlink(x)
    /\ UNCHANGED <<rows, temps, markers, active, importer, known, names>>

SourcesOf(x) == {s \in sources : s[1] = x}

RemoveSource(t, x, path) ==
    /\ thread[t] = "ready" /\ ~ Locked
    /\ <<x, path>> \in sources
    /\ SourcesOf(x) # {<<x, path>>}
    /\ sources' = sources \ {<<x, path>>}
    /\ Done(t)
    /\ UNCHANGED <<catalog, files, active, importer, known, names>>

\* The last source goes, and the asset with it: the row is deleted, which takes the
\* write lock, the file is unlinked, and then the transaction goes on.
BeginRemoveLast(t, x) ==
    /\ thread[t] = "ready" /\ ~ Locked
    /\ Cardinality(SourcesOf(x)) = 1
    /\ thread' = [thread EXCEPT ![t] = "removing"]
    /\ victim' = [victim EXCEPT ![t] = x]
    /\ Unlink(x)
    /\ UNCHANGED <<rows, temps, markers, active, importer, known, names>>

\* Mutant: the rows of an asset's sources stay when the asset goes, or the other
\* way round: only the sources are deleted.
CommitSourcesOnly(t) ==
    /\ thread[t] \in {"deleting", "removing"}
    /\ \A u \in Threads \ {t} : thread[u] # "removing"
    /\ sources' = sources \ SourcesOf(victim[t])
    /\ Done(t)
    /\ UNCHANGED <<catalog, files, active, importer, known, names>>

CommitDelete(t) ==
    /\ thread[t] \in {"deleting", "removing"}
    /\ \A u \in Threads \ {t} : thread[u] # "removing"
    /\ catalog' = catalog \ {victim[t]}
    /\ sources' = sources \ SourcesOf(victim[t])
    /\ Done(t)
    /\ UNCHANGED <<files, active, importer, known, names>>

\* The command is refused, is another one, or its transaction rolls back.
GiveUp(t) ==
    /\ thread[t] \in {"ready", "deleting", "removing"}
    /\ Done(t)
    /\ UNCHANGED <<rows, files, active, importer, known, names>>

--------------------------------------------------------------------------------
\* The process ends anywhere and is started again; only rows and files remain.
Restart ==
    /\ pc # "idle" \/ active # {} \/ \E t \in Threads : thread[t] # "idle"
    /\ active' = {}
    /\ pc' = "idle" /\ current' = NoId /\ winner' = NoId
    /\ outcome' = [i \in Ids |-> IF i = current THEN "lost" ELSE outcome[i]]
    /\ thread' = [t \in Threads |-> "idle"]
    /\ known' = [t \in Threads |-> {}]
    /\ names' = [t \in Threads |-> {}]
    /\ victim' = [t \in Threads |-> NoId]
    /\ UNCHANGED <<rows, files>>

Init ==
    /\ catalog = {} /\ sources = {}
    /\ temps = {} /\ markers = {} /\ copies = {} /\ given = {} /\ active = {}
    /\ pc = "idle" /\ current = NoId /\ winner = NoId
    /\ outcome = [i \in Ids |-> "none"]
    /\ thread = [t \in Threads |-> "idle"]
    /\ known = [t \in Threads |-> {}]
    /\ names = [t \in Threads |-> {}]
    /\ victim = [t \in Threads |-> NoId]

ImportStep ==
    \/ \E i \in Candidates : Begin(i)
    \/ Examine \/ Link \/ Copy \/ Mark \/ Finalize \/ Discard
    \/ Catalog \/ Recover \/ Abandon \/ Lose \/ Unmark

CommandStep(t) ==
    \/ ReadCatalog(t) \/ ListOriginals(t) \/ SweepDone(t)
    \/ \E n \in Names : Sweep(t, n)
    \/ \E x \in Ids : BeginDelete(t, x) \/ BeginRemoveLast(t, x)
    \/ \E x \in Ids, path \in Paths : RemoveSource(t, x, path)
    \/ CommitDelete(t) \/ GiveUp(t)

Next ==
    \/ ImportStep
    \/ \E t \in Threads : CommandStep(t)
    \/ \E x \in Rivals : RivalCatalogs(x)
    \/ Restart

Spec == Init /\ [][Next]_vars

--------------------------------------------------------------------------------
(* Properties *)

\* Asset identity is content hash: two imports of the same content, a reported
\* error and its recovery never leave two assets.
UniqueContent ==
    \A x, y \in catalog : ContentOf[x] = ContentOf[y] => x = y

\* There is no Orphan Asset: every asset keeps a source record, whatever imports
\* and removals of sources overlap.
NoOrphanAsset ==
    \A x \in catalog : SourcesOf(x) # {}

\* No copy is left behind unawares: one that no asset owns still has its marker, by
\* which a later initialization finds and removes it, also after a failed
\* transaction, a lost race or a crash.  The exceptions are copies that somebody saw
\* and left: a cleaning or a deletion that could not remove the file, and the loser
\* of a race that could not read the catalog.
StraysAreMarked ==
    \A i \in copies : i \in catalog \union markers \union given

\* A candidate that is given up, or that lost a race, never takes the copy of a
\* cataloged asset with it, also when its own commit had happened unnoticed.
ImportKeepsCopies ==
    [][\A i \in catalog : (pc # "idle" /\ pc' # pc) => (i \in copies => i \in copies')]_vars

\* _recover_abandoned_import_files: clean only names whose Library Copy is not
\* cataloged.
RecoveryKeepsCopies ==
    [][\A t \in Threads : thread[t] = "scanning" /\ names'[t] # names[t] =>
          \A i \in catalog : i \in copies => i \in copies']_vars

================================================================================
