----------------------------- MODULE ImportSources -----------------------------
(* One Import Batch (import_sources): the selected sources are validated and     *)
(* merged, their directories scanned under guards, and the files that were found *)
(* imported and counted.  Meanwhile others may replace anything on the disk that *)
(* no guard protects (Windows: an open directory handle that does not share      *)
(* deletion).  LibraryCopies has what the import of a file does to the library,  *)
(* and ImportBatch the thread that runs the batch.                               *)
(*                                                                               *)
(* A path is a number, its name in the order in which entries are sorted.        *)
EXTENDS Naturals, Sequences, FiniteSets, SequencesExt

CONSTANTS Parent,      \* the directory of each path; a drive's root is its own
          Library,     \* the Library Root
          Plain,       \* the paths that begin as a regular file,
          Linked,      \* and those that begin as a directory or as a reparse point
          Supported,   \* the paths with a supported suffix
          MaxSources,  \* sources of a selection (MAX_IMPORT_SOURCES)
          MaxFiles,    \* MAX_IMPORT_DISCOVERED_FILES
          MaxDetails,  \* MAX_IMPORT_FAILURE_DETAILS
          MaxChanges   \* changes that others make to the disk (bound)

Paths == 1..Len(Parent)

\* A drive's root has the least name of its drive, and nothing is below a file.
ASSUME TreeAssumption ==
    /\ Parent \in Seq(Paths) /\ Library \in Paths
    /\ Plain \subseteq Paths /\ Linked \subseteq Paths \ Plain
    /\ \A p \in Paths : Parent[p] <= p /\ Parent[p] \notin Plain

ASSUME BoundsAssumption == {MaxSources, MaxFiles, MaxDetails, MaxChanges} \subseteq Nat

VARIABLES kind,      \* what each path is
          changes,   \* changes made to the disk, and
          touched,   \* the paths they concerned (ghosts)
          pc,
          selected,  \* the sources that wait for their validation
          valid,     \* those validated: path, canonical path, directory or not
          queue,     \* the effective ones whose turn has not come, by their places in valid,
          source,    \* and the one whose turn it is
          work,      \* pending_scan_work: directories, and guards to be closed
          open,      \* the directories whose guard is open
          current, seen,      \* the directory at hand,
          entries, children,  \* and what it holds: to be looked at, directories among it
          found,     \* the candidates; their set is candidate_keys
          skipped, failures,  \* reparse points skipped, scan failures
          lost,      \* paths that were skipped or failed (ghost)
          followed,  \* candidates found behind a reparse point (ghost)
          tally,     \* the counters of the import
          next,      \* the candidate whose turn it is
          progress   \* the phase of the last progress reported, whose counters have not
                     \* changed since

disk == <<kind, changes, touched>>
selection == <<selected, valid, queue, source>>
scan == <<work, open, current, seen, entries, children>>
harvest == <<found, skipped, failures, lost, followed>>
import == <<tally, next>>
vars == <<disk, pc, selection, scan, harvest, import, progress>>

--------------------------------------------------------------------------------
(* The disk *)

Kinds == {"directory", "other directory", "file", "reparse point", "none"}
IsDirectory(k) == k \in {"directory", "other directory"}

\* S has, with a path, every directory above it.
Closed(S) == \A q \in S : Parent[q] \in S
Ancestors ==
    [p \in Paths |-> {a \in Paths \ {p} :
                        \A S \in SUBSET Paths : Closed(S) /\ Parent[p] \in S => a \in S}]
Within(p, d) == p = d \/ d \in Ancestors[p]
Beyond(p) == \E a \in Ancestors[p] : kind[a] = "reparse point"

\* lstat: what is at p itself.  Behind a reparse point are the same names, elsewhere.
Lstat(p) ==
    IF \A a \in Ancestors[p] : IsDirectory(kind[a]) \/ kind[a] = "reparse point"
    THEN kind[p] ELSE "none"

\* An open guard keeps its directory from being replaced.
Replace(p) ==
    /\ changes < MaxChanges /\ p \notin open
    /\ ~ Within(Library, p)
    /\ \E k \in Kinds \ {kind[p]} : kind' = [kind EXCEPT ![p] = k]
    /\ changes' = changes + 1 /\ touched' = touched \union {p}
    /\ UNCHANGED <<pc, selection, scan, harvest, import, progress>>

--------------------------------------------------------------------------------
(* Counters and results (import_contracts.py) *)

Counters == {"processed", "succeeded", "failed", "new", "duplicate", "added", "refreshed"}
NoCounts == [c \in Counters |-> 0]
Add(which) == [c \in Counters |-> IF c \in which THEN tally[c] + 1 ELSE tally[c]]

\* A source in another selected directory is left to that directory.
Effective(s) ==
    ~ \E i \in 1..Len(valid) :
        /\ valid[i].directory /\ valid[i].path # s.path
        /\ valid[i].beyond = s.beyond /\ Within(s.path, valid[i].path)

EffectiveSources == {i \in 1..Len(valid) : Effective(valid[i])}

\* What a result is made of: the counters, and how many details of failures it carries
\* from the scan and from the import.
Result == [scanDetails |-> failures, importDetails |-> tally["failed"], counts |-> tally]

\* The partial result that the controller makes of the last progress.  The progress of
\* a scan has its failures, that of an import only the failures of the import.
PartialResult ==
    IF progress = "scanning"
    THEN [scanDetails |-> failures, importDetails |-> 0, counts |-> NoCounts]
    ELSE [scanDetails |-> 0, importDetails |-> tally["failed"], counts |-> tally]

AtMost(n, m) == IF n < m THEN n ELSE m

\* ImportBatchResult.__post_init__ accepts r.
Accepted(r) ==
    LET c == r.counts
        Failures == failures + c["failed"]
        Details == r.scanDetails + r.importDetails
        KeptOfScan == AtMost(r.scanDetails, MaxDetails)
        SupportedFiles == Cardinality({i \in 1..Len(found) : found[i] \in Supported}) IN
    /\ EffectiveSources # {} /\ Cardinality(EffectiveSources) <= MaxSources
    /\ c["processed"] <= SupportedFiles
    /\ c["processed"] = c["succeeded"] + c["failed"]
    /\ c["succeeded"] = c["new"] + c["duplicate"]
    /\ c["succeeded"] = c["added"] + c["refreshed"]
    /\ AtMost(Failures, MaxDetails) <= Details /\ Details <= Failures
    /\ KeptOfScan <= failures /\ AtMost(Details, MaxDetails) - KeptOfScan <= c["failed"]

--------------------------------------------------------------------------------
Sources == [path: Paths, beyond: BOOLEAN, directory: BOOLEAN]

TypeOK ==
    /\ kind \in [Paths -> Kinds] /\ changes \in 0..MaxChanges /\ touched \subseteq Paths
    /\ pc \in {"validating", "refused", "sources", "popping", "locking", "listing", "entries",
               "limit", "initializing", "importing", "completed", "cancelled", "failed"}
    /\ selected \in Seq(Paths) /\ valid \in Seq(Sources)
    /\ Len(selected) + Len(valid) <= MaxSources
    /\ queue \subseteq 1..Len(valid) /\ source \in 1..MaxSources
    /\ work \in Seq([path: Paths, guard: BOOLEAN])
    /\ open \subseteq Paths /\ current \in Paths /\ seen \in Kinds
    /\ entries \subseteq Paths /\ children \in Seq(Paths)
    /\ found \in Seq(Paths) /\ Len(found) <= MaxFiles
    /\ {skipped, failures} \subseteq Nat
    /\ {lost, followed} \subseteq SUBSET Paths
    /\ tally \in [Counters -> Nat] /\ next \in 1..MaxFiles + 1
    /\ progress \in {"none", "scanning", "importing"}

Init ==
    /\ kind \in {k \in [Paths -> Kinds] :
                    \A p \in Paths : k[p] \in IF p \in Plain THEN {"file"}
                                              ELSE IF p \in Linked THEN {"directory", "reparse point"}
                                              ELSE {"directory"}}
    /\ changes = 0 /\ touched = {}
    /\ pc = "validating"
    /\ selected \in BoundedSeq(Paths, MaxSources) \ {<<>>}
    /\ valid = <<>> /\ queue = {} /\ source = 1
    /\ work = <<>> /\ open = {} /\ current = 1 /\ seen = "none" /\ entries = {} /\ children = <<>>
    /\ found = <<>> /\ skipped = 0 /\ failures = 0 /\ lost = {} /\ followed = {}
    /\ tally = NoCounts /\ next = 1
    /\ progress = "none"

--------------------------------------------------------------------------------
(* The sources *)

At(place) == pc' = place

Refused(p) ==
    \/ Lstat(p) \notin {"file", "directory", "other directory"}
    \/ ~ Beyond(p) /\ (Within(p, Library) \/ Within(Library, p))

Refuse ==
    /\ pc = "validating" /\ selected # <<>> /\ Refused(Head(selected))
    /\ At("refused")
    /\ UNCHANGED <<disk, selection, scan, harvest, import, progress>>

\* A canonical path that was there before is the same source.
Validate ==
    LET p == Head(selected)
        Source == [path |-> p, beyond |-> Beyond(p), directory |-> IsDirectory(Lstat(p))]
        IsKnown == \E i \in 1..Len(valid) : valid[i].path = p /\ valid[i].beyond = Beyond(p) IN
    /\ pc = "validating" /\ selected # <<>> /\ ~ Refused(p)
    /\ valid' = IF IsKnown THEN valid ELSE Append(valid, Source)
    /\ selected' = Tail(selected)
    /\ UNCHANGED <<disk, pc, queue, source, scan, harvest, import, progress>>

Merge ==
    /\ pc = "validating" /\ selected = <<>>
    /\ queue' = EffectiveSources /\ At("sources")
    /\ UNCHANGED <<disk, selected, valid, source, scan, harvest, import, progress>>

--------------------------------------------------------------------------------
(* The scan *)

Reported == progress' = "scanning"

\* A failure, or a reparse point, at path p.
FailAt(p) == failures' = failures + 1 /\ lost' = lost \union {p} /\ UNCHANGED <<skipped, found, followed>>
SkipAt(p) == skipped' = skipped + 1 /\ lost' = lost \union {p} /\ UNCHANGED <<failures, found, followed>>

\* The directories that the scan of a source has to have looked at before path p.
Trusted(p) == {d \in Ancestors[p] : Within(d, Parent[valid[source].path])}

\* Mutant: the limit is noticed one file too late.
CandidateOverLimit(p, trusted, place) ==
    \/ p \in ToSet(found) /\ At(place) /\ UNCHANGED harvest
    \/ /\ p \notin ToSet(found) /\ Len(found) <= MaxFiles /\ At(place)
       /\ found' = Append(found, p)
       /\ UNCHANGED <<skipped, failures, lost, followed>>
    \/ /\ p \notin ToSet(found) /\ Len(found) > MaxFiles /\ At("limit")
       /\ FailAt(p)

\* Mutant: a candidate is not looked up among those of the other sources.
CandidateAgain(p, trusted, place) ==
    \/ /\ Len(found) < MaxFiles /\ At(place)
       /\ found' = Append(found, p)
       /\ UNCHANGED <<skipped, failures, lost, followed>>
    \/ Len(found) >= MaxFiles /\ At("limit") /\ FailAt(p)

\* _append_unique_candidate, for a path found below the trusted directories.
Candidate(p, trusted, place) ==
    \/ p \in ToSet(found) /\ At(place) /\ UNCHANGED harvest
    \/ /\ p \notin ToSet(found) /\ Len(found) < MaxFiles /\ At(place)
       /\ found' = Append(found, p)
       /\ followed' = IF \E d \in trusted : kind[d] = "reparse point"
                      THEN followed \union {p} ELSE followed
       /\ UNCHANGED <<skipped, failures, lost>>
    \/ /\ p \notin ToSet(found) /\ Len(found) >= MaxFiles /\ At("limit")
       /\ FailAt(p)

\* The sources have their turns in the order of their validation.
Take(i) ==
    /\ pc = "sources" /\ i \in queue /\ \A j \in queue : i <= j
    /\ queue' = queue \ {i} /\ source' = i

FileSource ==
    \E i \in queue :
        /\ Take(i) /\ ~ valid[i].directory
        /\ Candidate(valid[i].path, {}, "sources") /\ Reported
        /\ UNCHANGED <<disk, selected, valid, scan, import>>

\* The directory above the source is guarded first, unless the source is a drive.
DirectorySource ==
    \E i \in queue :
        LET s == valid[i].path IN
        /\ Take(i) /\ valid[i].directory
        /\ Reported
        /\ \/ /\ Parent[s] = s \/ IsDirectory(Lstat(Parent[s]))
              /\ open' = IF Parent[s] = s THEN {} ELSE {Parent[s]}
              /\ work' = <<[path |-> s, guard |-> FALSE]>>
              /\ At("popping") /\ UNCHANGED harvest
           \/ /\ Parent[s] # s /\ Lstat(Parent[s]) = "reparse point" /\ SkipAt(s)
              /\ UNCHANGED <<pc, open, work>>
           \/ /\ Parent[s] # s /\ FailAt(s)
              /\ UNCHANGED <<pc, open, work>>
        /\ UNCHANGED <<disk, selected, valid, current, seen, entries, children, import>>

Popped == work' = Front(work)

CloseGuard ==
    /\ pc = "popping" /\ work # <<>> /\ Last(work).guard
    /\ open' = open \ {Last(work).path} /\ Popped
    /\ UNCHANGED <<disk, pc, selection, current, seen, entries, children, harvest, import, progress>>

\* A directory is looked at before it is guarded,
Inspect ==
    LET d == Last(work).path IN
    /\ pc = "popping" /\ work # <<>> /\ ~ Last(work).guard
    /\ Popped /\ Reported
    /\ \/ /\ IsDirectory(Lstat(d)) /\ At("locking")
          /\ current' = d /\ seen' = Lstat(d) /\ UNCHANGED harvest
       \/ Lstat(d) = "reparse point" /\ SkipAt(d) /\ UNCHANGED <<pc, current, seen>>
       \/ FailAt(d) /\ UNCHANGED <<pc, current, seen>>
    /\ UNCHANGED <<disk, selection, open, entries, children, import>>

Lock ==
    /\ pc = "locking" /\ Reported
    /\ \/ /\ IsDirectory(Lstat(current)) /\ At("listing")
          /\ open' = open \union {current} /\ UNCHANGED harvest
       \/ /\ Lstat(current) = "reparse point" /\ SkipAt(current)
          /\ At("popping") /\ UNCHANGED open
       \/ FailAt(current) /\ At("popping") /\ UNCHANGED open
    /\ UNCHANGED <<disk, selection, work, current, seen, entries, children, import>>

\* and again once it is open.
List ==
    /\ pc = "listing"
    /\ \/ /\ Lstat(current) = seen /\ At("entries")
          /\ entries' = {p \in Paths \ {current} : Parent[p] = current /\ Lstat(p) # "none"}
          /\ children' = <<>> /\ UNCHANGED <<open, harvest>>
       \/ /\ FailAt(current) /\ At("popping")
          /\ open' = open \ {current} /\ UNCHANGED <<entries, children>>
    /\ UNCHANGED <<disk, selection, work, current, seen, import, progress>>

\* The entries are looked at in the order of their names.
Entry ==
    \E p \in entries :
        /\ pc = "entries" /\ \A q \in entries : p <= q
        /\ entries' = entries \ {p} /\ Reported
        /\ \/ /\ IsDirectory(Lstat(p)) /\ children' = Append(children, p)
              /\ UNCHANGED <<pc, harvest>>
           \/ Lstat(p) = "reparse point" /\ SkipAt(p) /\ UNCHANGED <<pc, children>>
           \/ Lstat(p) = "file" /\ Candidate(p, Trusted(p), "entries") /\ UNCHANGED children
           \/ FailAt(p) /\ UNCHANGED <<pc, children>>
        /\ IF pc' = "limit" THEN open' = {} ELSE UNCHANGED open
        /\ UNCHANGED <<disk, selection, work, current, seen, import>>

\* Mutant: a directory is let go as soon as it has been read.
DescendUnguarded ==
    /\ pc = "entries" /\ entries = {}
    /\ open' = open \ {current}
    /\ work' = work \o [i \in 1..Len(children) |-> [path |-> Reverse(children)[i], guard |-> FALSE]]
    /\ children' = <<>> /\ At("popping")
    /\ UNCHANGED <<disk, selection, current, seen, entries, harvest, import, progress>>

\* The guard stays open until the directories below have been scanned.
Descend ==
    /\ pc = "entries" /\ entries = {}
    /\ IF children = <<>>
       THEN open' = open \ {current} /\ UNCHANGED work
       ELSE /\ UNCHANGED open
            /\ work' = Append(work, [path |-> current, guard |-> TRUE])
                       \o [i \in 1..Len(children) |->
                              [path |-> Reverse(children)[i], guard |-> FALSE]]
    /\ children' = <<>> /\ At("popping")
    /\ UNCHANGED <<disk, selection, current, seen, entries, harvest, import, progress>>

\* The scan of a source is over, and all its guards are closed.
Scanned ==
    /\ pc = "popping" /\ work = <<>>
    /\ open' = {} /\ At("sources")
    /\ UNCHANGED <<disk, selection, work, current, seen, entries, children, harvest, import, progress>>

--------------------------------------------------------------------------------
(* The import *)

BeginImport ==
    /\ pc = "sources" /\ queue = {} /\ At("initializing")
    /\ UNCHANGED <<disk, selection, scan, harvest, import, progress>>

Initialized ==
    /\ pc = "initializing" /\ At("importing")
    /\ UNCHANGED <<disk, selection, scan, harvest, import, progress>>

Outcomes ==
    {{"processed", "failed"}} \union
    {{"processed", "succeeded", asset, record} : asset \in {"new", "duplicate"},
                                                record \in {"added", "refreshed"}}

ImportFile ==
    /\ pc = "importing" /\ next <= Len(found)
    /\ IF found[next] \in Supported THEN \E which \in Outcomes : tally' = Add(which)
                                     ELSE UNCHANGED tally
    /\ next' = next + 1 /\ progress' = "importing"
    /\ UNCHANGED <<disk, pc, selection, scan, harvest>>

Finish ==
    /\ pc = "importing" /\ next > Len(found) /\ At("completed")
    /\ UNCHANGED <<disk, selection, scan, harvest, import, progress>>

\* Mutant: the guards are closed at the regular end of a scan only.
CancelGuarded ==
    /\ \/ pc = "entries" /\ entries # {}
       \/ pc = "importing" /\ next <= Len(found)
    /\ At("cancelled")
    /\ UNCHANGED <<disk, selection, scan, harvest, import, progress>>

\* wait_for_permission raises, at an entry of a directory or before a file.
Cancel ==
    /\ \/ pc = "entries" /\ entries # {}
       \/ pc = "importing" /\ next <= Len(found)
    /\ At("cancelled") /\ open' = {}
    /\ UNCHANGED <<disk, selection, work, current, seen, entries, children, harvest, import, progress>>

\* An error that is not the fault of one file: the library cannot be opened or read.
Fail ==
    /\ pc \in {"initializing", "importing"} /\ At("failed")
    /\ UNCHANGED <<disk, selection, scan, harvest, import, progress>>

Next ==
    \/ Refuse \/ Validate \/ Merge
    \/ FileSource \/ DirectorySource \/ CloseGuard \/ Inspect \/ Lock \/ List \/ Entry \/ Descend
    \/ Scanned
    \/ BeginImport \/ Initialized \/ ImportFile \/ Finish \/ Cancel \/ Fail
    \/ \E p \in Paths : Replace(p)

Spec == Init /\ [][Next]_vars

--------------------------------------------------------------------------------
(* Properties *)

ScanIsOver == pc \in {"initializing", "importing", "completed", "failed"}

\* No candidate of a directory is found behind a reparse point, whatever is replaced
\* while the scan goes on.
NothingFollowed == followed = {}

\* Each file of the selection that is left in peace is found once, however the sources
\* overlap, unless the scan reports that it could not, or would not, go there.
EveryFileOnce ==
    /\ Cardinality(ToSet(found)) = Len(found)
    /\ ScanIsOver =>
          \A p \in Plain, i \in 1..Len(valid) :
              Within(p, valid[i].path) /\ touched \intersect ({p} \union Ancestors[p]) = {} =>
                  p \in ToSet(found) \/ lost \intersect ({p} \union Ancestors[p]) # {}

\* A batch that is over, completed or not, has let go of every directory, and its result
\* is one that the contract accepts.
EndsInOrder ==
    pc \in {"limit", "completed", "cancelled", "failed"} =>
        open = {} /\ Accepted(Result)

\* What a cancelled or failed batch has done until then is kept as its partial result.
PartialResultKept ==
    pc \in {"cancelled", "failed"} /\ progress # "none" => Accepted(PartialResult)

================================================================================
