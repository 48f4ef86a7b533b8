-------------------------- MODULE ImportSourcesProofs --------------------------
(* The proofs of ImportSources: the scan of the sources follows no reparse       *)
(* point, reaches every file that is left in peace, and ends in order.  The tree *)
(* of paths is arbitrary, and so are the changes that others make to it.         *)
EXTENDS ImportSources, SequenceTheorems, FiniteSetTheorems, TLAPS

--------------------------------------------------------------------------------
(* The tree of paths *)

Up(p) == {p} \union Ancestors[p]

\* What a path is, for the numbers that paths are.
LEMMA PathsAreNumbers ==
    /\ Len(Parent) \in Nat /\ 1 \in Paths
    /\ \A p \in Paths :
          p \in Nat /\ Parent[p] \in Nat /\ Parent[p] \in Paths /\ Parent[p] <= p /\ Parent[p] \notin Plain
<1>1. Len(Parent) \in Nat /\ \A p \in Paths : Parent[p] \in Paths
  BY TreeAssumption, LenProperties DEF Paths
<1>2. 1 \in Paths /\ \A p \in Paths : p \in Nat
  BY <1>1, TreeAssumption DEF Paths
<1> QED BY <1>1, <1>2, TreeAssumption

\* What is above a path has a lesser name, and so has what is above that.
LEMMA AboveIsLess ==
    ASSUME NEW p \in Paths, NEW a \in Ancestors[p]
    PROVE  a \in Paths /\ a < p
<1> DEFINE S == {x \in Paths : x <= Parent[p]}
<1>1. S \in SUBSET Paths /\ Parent[p] \in S
  BY PathsAreNumbers
<1>2. \A q \in S : Parent[q] \in S
  BY PathsAreNumbers
<1>3. a \in Paths \ {p} /\ a \in S
  BY <1>1, <1>2 DEF Ancestors, Closed
<1>4. a \in Paths /\ a <= Parent[p] /\ a # p
  BY <1>3
<1> QED BY <1>4, PathsAreNumbers

\* The directory of a path is above it, but for a drive, which is its own.
LEMMA ParentIsAbove ==
    ASSUME NEW p \in Paths, Parent[p] # p
    PROVE  Parent[p] \in Ancestors[p]
  BY PathsAreNumbers DEF Ancestors

\* Nothing is above a drive.
LEMMA DriveHasNothingAbove ==
    ASSUME NEW p \in Paths, Parent[p] = p
    PROVE  Ancestors[p] = {}
<1>1. {p} \in SUBSET Paths /\ Closed({p}) /\ Parent[p] \in {p}
  BY DEF Closed
<1> QED BY <1>1 DEF Ancestors

\* What is above a directory is above what is in it,
LEMMA AboveIsTransitive ==
    ASSUME NEW c \in Paths, NEW b \in Ancestors[c], NEW a \in Ancestors[b]
    PROVE  a \in Ancestors[c]
<1>1. b \in Paths /\ a \in Paths /\ a < b /\ b < c
  BY AboveIsLess
<1>4. a \in Nat /\ b \in Nat /\ c \in Nat
  BY <1>1, PathsAreNumbers
<1>2. ASSUME NEW S \in SUBSET Paths, Closed(S), Parent[c] \in S
      PROVE  a \in S
  <2>1. b \in S
    BY <1>2 DEF Ancestors
  <2>2. Parent[b] \in S
    BY <1>2, <2>1 DEF Closed
  <2> QED BY <1>1, <1>2, <2>2 DEF Ancestors
<1>3. a # c
  BY <1>1, <1>4
<1> QED BY <1>1, <1>2, <1>3 DEF Ancestors

\* and what is above a path has its own directory there too.
LEMMA AboveIsClosed ==
    ASSUME NEW p \in Paths, NEW a \in Ancestors[p]
    PROVE  Parent[a] \in Ancestors[p]
<1>1. a \in Paths /\ a < p
  BY AboveIsLess
<1>2. CASE Parent[a] = a
  BY <1>2
<1>3. CASE Parent[a] # a
  BY <1>1, <1>3, ParentIsAbove, AboveIsTransitive
<1> QED BY <1>2, <1>3

\* Above an entry of a directory are the directory and what is above that.
LEMMA AboveAnEntry ==
    ASSUME NEW q \in Paths, Parent[q] # q
    PROVE  Ancestors[q] = Up(Parent[q])
<1> DEFINE d == Parent[q]
<1>1. d \in Paths /\ d \in Ancestors[q]
  BY PathsAreNumbers, ParentIsAbove
<1>2. Up(d) \subseteq Ancestors[q]
  BY <1>1, AboveIsTransitive DEF Up
<1>3. Up(d) \in SUBSET Paths
  BY <1>1, AboveIsLess DEF Up
<1>4. Closed(Up(d))
  <2>1. Parent[d] \in Up(d)
    BY <1>1, ParentIsAbove DEF Up
  <2>2. \A x \in Ancestors[d] : Parent[x] \in Ancestors[d]
    BY <1>1, AboveIsClosed
  <2> QED BY <2>1, <2>2 DEF Up, Closed
<1>5. Ancestors[q] \subseteq Up(d)
  BY <1>3, <1>4 DEF Ancestors, Up
<1> QED BY <1>2, <1>5

\* What is below a directory is, or is below, an entry of it.
LEMMA BelowIsInAnEntry ==
    ASSUME NEW p \in Paths, NEW d \in Ancestors[p]
    PROVE  \E q \in Paths \ {d} : Parent[q] = d /\ Within(p, q)
<1> SUFFICES ASSUME \A q \in Paths \ {d} : Parent[q] = d => ~ Within(p, q)
             PROVE  FALSE
  OBVIOUS
<1> DEFINE S == Ancestors[p] \ {d}
<1>1. d # p /\ d \in Paths
  BY AboveIsLess, PathsAreNumbers
<1>2. Parent[p] # d /\ Parent[p] # p
  BY <1>1, DriveHasNothingAbove DEF Within
<1>3. Parent[p] \in S
  BY <1>2, ParentIsAbove
<1>4. S \in SUBSET Paths
  BY AboveIsLess
<1>5. Closed(S)
  <2> SUFFICES ASSUME NEW x \in S PROVE Parent[x] \in S
    BY DEF Closed
  <2> QED BY <1>4, AboveIsClosed DEF Within
<1> QED BY <1>3, <1>4, <1>5 DEF Ancestors

\* A path in a directory is in every directory around that.
LEMMA WithinIsTransitive ==
    ASSUME NEW p \in Paths, NEW q, NEW d, Within(p, q), Within(q, d)
    PROVE  Within(p, d)
  BY AboveIsTransitive DEF Within

\* A set of numbers has a least one.
LEMMA Least ==
    ASSUME NEW S \in SUBSET Nat, S # {}
    PROVE  \E x \in S : \A y \in S : x <= y
<1> DEFINE R == OpToRel(<, Nat)
<1>1. IsWellFoundedOn(R, Nat)
  BY NatLessThanWellFounded
<1>2. \A x, y \in Nat : y < x => <<y, x>> \in R
  BY DEF OpToRel
<1> HIDE DEF R
<1>3. PICK x \in S : \A y \in S : ~ (<<y, x>> \in R)
  BY <1>1, WFMin
<1>4. \A y \in S : ~ (y < x)
  BY <1>2, <1>3
<1> QED BY <1>4

--------------------------------------------------------------------------------
(* The inductive invariant *)

Scanning == pc \in {"popping", "locking", "listing", "entries"}
AtDirectory == pc \in {"locking", "listing", "entries"}
Top == valid[source].path

\* What the drive's tree was at the beginning, where nobody touched it, and what the
\* validation has seen of it.
DiskKnown ==
    /\ \A p \in Paths \ touched :
          kind[p] \in IF p \in Plain THEN {"file"} ELSE {"directory", "reparse point"}
    /\ \A i \in 1..Len(valid) : valid[i].path \notin touched =>
          /\ kind[valid[i].path] # "reparse point"
          /\ valid[i].directory <=> IsDirectory(kind[valid[i].path])
    /\ pc \in {"locking", "listing"} /\ current \notin touched => IsDirectory(kind[current])

\* The phases of the batch.
Phases ==
    /\ pc = "validating" /\ selected = <<>> => valid # <<>>
    /\ pc \notin {"validating", "refused"} => valid # <<>>
    /\ ScanIsOver => queue = {}
    /\ Scanning => source \in 1..Len(valid)
    /\ ~ Scanning => open = {}

\* With the directories O open and W on the stack: those above path p that the scan of
\* source top has to have looked at are open, and the ones that it has entered stay so
\* until the work above their guards, up to place n of the stack, is done.
Safe(p, n, O, W, top) ==
    \A d \in Ancestors[p] : Within(d, Parent[top]) =>
        /\ d \in O
        /\ Within(d, top) => \E m \in 1..n - 1 : W[m].guard /\ W[m].path = d

\* An open directory is one, and none that had to be open was not.
Sound == followed = {} /\ \A d \in open : IsDirectory(kind[d])

\* The guards on the stack are those of directories above what is on top of them.
Stack ==
    /\ \A n \in 1..Len(work) : Within(work[n].path, Top)
    /\ \A m, n \in 1..Len(work) :
          m < n /\ work[m].guard => work[m].path \in Ancestors[work[n].path]
    /\ \A n \in 1..Len(work) : ~ work[n].guard => Safe(work[n].path, n, open, work, Top)

\* The directory at hand is as if it were still on top of the stack.
Hand ==
    /\ Within(current, Top)
    /\ \A m \in 1..Len(work) : work[m].guard => work[m].path \in Ancestors[current]
    /\ Safe(current, Len(work) + 1, open, work, Top)
    /\ pc \in {"listing", "entries"} => current \in open
    /\ pc = "entries" =>
          \A q \in entries \union ToSet(children) : Parent[q] = current /\ q # current

Guards == Sound /\ (Scanning => Stack) /\ (AtDirectory => Hand)

\* What has been counted is what has been processed.
Counted ==
    /\ \A m, n \in 1..Len(found) : found[m] = found[n] => m = n
    /\ next <= Len(found) + 1
    /\ tally["processed"] = Cardinality({i \in 1..next - 1 : found[i] \in Supported})
    /\ tally["processed"] = tally["succeeded"] + tally["failed"]
    /\ tally["succeeded"] = tally["new"] + tally["duplicate"]
    /\ tally["succeeded"] = tally["added"] + tally["refreshed"]

\* A file in peace is found, given up, or in the way of what the scan has still to do.
InPeace(p) == touched \intersect Up(p) = {}
Reached(p) == p \in ToSet(found) \/ lost \intersect Up(p) # {}
Ahead(p) ==
    \/ \E i \in queue : Within(p, valid[i].path)
    \/ Scanning /\ \E n \in 1..Len(work) : ~ work[n].guard /\ Within(p, work[n].path)
    \/ pc \in {"locking", "listing"} /\ Within(p, current)
    \/ pc = "entries" /\ \E q \in entries \union ToSet(children) : Within(p, q)
Covered ==
    pc \notin {"validating", "refused", "limit", "cancelled"} =>
        \A p \in Plain, i \in 1..Len(valid) :
            Within(p, valid[i].path) /\ InPeace(p) => Reached(p) \/ Ahead(p)

--------------------------------------------------------------------------------
(* Types *)

Places == {"validating", "refused", "sources", "popping", "locking", "listing", "entries",
           "limit", "initializing", "importing", "completed", "cancelled", "failed"}
Items == [path: Paths, guard: BOOLEAN]

\* The parts of TypeOK.
DiskOK == kind \in [Paths -> Kinds] /\ changes \in 0..MaxChanges /\ touched \subseteq Paths
SelectionOK ==
    /\ selected \in Seq(Paths) /\ valid \in Seq(Sources)
    /\ Len(selected) + Len(valid) <= MaxSources
    /\ queue \subseteq 1..Len(valid) /\ source \in 1..MaxSources
ScanOK ==
    /\ work \in Seq(Items)
    /\ open \subseteq Paths /\ current \in Paths /\ seen \in Kinds
    /\ entries \subseteq Paths /\ children \in Seq(Paths)
HarvestOK ==
    /\ found \in Seq(Paths) /\ Len(found) <= MaxFiles
    /\ skipped \in Nat /\ failures \in Nat
    /\ lost \subseteq Paths /\ followed \subseteq Paths
ImportOK == tally \in [Counters -> Nat] /\ next \in 1..MaxFiles + 1
ReportOK == progress \in {"none", "scanning", "importing"}

\* TypeOK is the conjunction of its parts.
LEMMA TypeParts ==
    TypeOK <=> DiskOK /\ pc \in Places /\ SelectionOK /\ ScanOK /\ HarvestOK /\ ImportOK /\ ReportOK
  BY DEF TypeOK, DiskOK, Places, SelectionOK, ScanOK, HarvestOK, ImportOK, ReportOK, Items

\* The same of the next state.
LEMMA TypePartsNext ==
    TypeOK' <=> (DiskOK /\ pc \in Places /\ SelectionOK /\ ScanOK /\ HarvestOK /\ ImportOK /\ ReportOK)'
  BY DEF TypeOK, DiskOK, Places, SelectionOK, ScanOK, HarvestOK, ImportOK, ReportOK, Items

\* What does not change keeps its type.
LEMMA TypeKept ==
    /\ UNCHANGED disk /\ DiskOK => DiskOK'
    /\ UNCHANGED selection /\ SelectionOK => SelectionOK'
    /\ UNCHANGED scan /\ ScanOK => ScanOK'
    /\ UNCHANGED harvest /\ HarvestOK => HarvestOK'
    /\ UNCHANGED import /\ ImportOK => ImportOK'
    /\ UNCHANGED progress /\ ReportOK => ReportOK'
<1>1. UNCHANGED disk /\ DiskOK => DiskOK'
  BY DEF disk, DiskOK
<1>2. UNCHANGED selection /\ SelectionOK => SelectionOK'
  BY DEF selection, SelectionOK
<1>3. UNCHANGED scan /\ ScanOK => ScanOK'
  BY DEF scan, ScanOK
<1>4. UNCHANGED harvest /\ HarvestOK => HarvestOK'
  BY DEF harvest, HarvestOK
<1>5. UNCHANGED import /\ ImportOK => ImportOK'
  BY DEF import, ImportOK
<1>6. UNCHANGED progress /\ ReportOK => ReportOK'
  BY DEF ReportOK
<1> QED BY <1>1, <1>2, <1>3, <1>4, <1>5, <1>6

\* The bounds are numbers.
LEMMA Bounds == MaxSources \in Nat /\ MaxFiles \in Nat /\ MaxDetails \in Nat /\ MaxChanges \in Nat
  BY BoundsAssumption

\* A selection is a sequence of bounded length.
LEMMA BoundedIsSeq ==
    ASSUME NEW S, NEW n \in Nat, NEW s \in BoundedSeq(S, n)
    PROVE  s \in Seq(S) /\ Len(s) <= n
<1>1. PICK m \in 0..n : s \in [1..m -> S]
  BY DEF BoundedSeq, SeqOf
<1> QED BY <1>1, LenProperties

\* A batch that begins has the types of TypeOK.
LEMMA InitType == Init => TypeOK
<1> SUFFICES ASSUME Init PROVE TypeOK
  OBVIOUS
<1>1. DiskOK
  <2>1. kind \in [Paths -> Kinds]
    BY DEF Init, Kinds
  <2>2. changes = 0 /\ touched = {}
    BY DEF Init
  <2> QED BY <2>1, <2>2, Bounds DEF DiskOK
<1>2. SelectionOK
  <2>1. selected \in Seq(Paths) /\ Len(selected) <= MaxSources /\ selected # <<>>
    BY Bounds, BoundedIsSeq DEF Init
  <2>2. Len(selected) \in Nat \ {0}
    BY <2>1, LenProperties, EmptySeq
  <2>3. valid = <<>> /\ queue = {} /\ source = 1
    BY DEF Init
  <2> QED BY <2>1, <2>2, <2>3, Bounds DEF SelectionOK
<1>3. ScanOK
  <2>1. /\ work = <<>> /\ open = {} /\ current = 1 /\ seen = "none" /\ entries = {} /\ children = <<>>
    BY DEF Init
  <2> QED BY <2>1, PathsAreNumbers, EmptySeq DEF ScanOK, Kinds
<1>4. HarvestOK
  <2>1. found = <<>> /\ skipped = 0 /\ failures = 0 /\ lost = {} /\ followed = {}
    BY DEF Init
  <2> QED BY <2>1, Bounds, EmptySeq DEF HarvestOK
<1>5. ImportOK
  <2>1. tally = NoCounts /\ next = 1
    BY DEF Init
  <2> QED BY <2>1, Bounds DEF ImportOK, NoCounts
<1> QED BY <1>1, <1>2, <1>3, <1>4, <1>5, TypeParts DEF Init, ReportOK, Places

\* The harvest of the scan: a failure, a reparse point, a candidate.
LEMMA FailAtType ==
    ASSUME HarvestOK, NEW p \in Paths, FailAt(p)
    PROVE  HarvestOK'
  BY DEF HarvestOK, FailAt

\* The same of a reparse point,
LEMMA SkipAtType ==
    ASSUME HarvestOK, NEW p \in Paths, SkipAt(p)
    PROVE  HarvestOK'
  BY DEF HarvestOK, SkipAt

\* and of a candidate.
LEMMA CandidateType ==
    ASSUME HarvestOK, NEW p \in Paths, NEW trusted, NEW place \in Places, Candidate(p, trusted, place)
    PROVE  HarvestOK' /\ pc' \in Places
<1>1. CASE UNCHANGED harvest /\ At(place)
  BY <1>1, TypeKept DEF At
<1>2. CASE /\ Len(found) < MaxFiles /\ At(place) /\ found' = Append(found, p)
           /\ followed' = IF \E d \in trusted : kind[d] = "reparse point"
                          THEN followed \union {p} ELSE followed
           /\ UNCHANGED <<skipped, failures, lost>>
  <2>1. found' \in Seq(Paths) /\ Len(found') = Len(found) + 1
    BY <1>2, AppendProperties DEF HarvestOK
  <2>2. Len(found) \in Nat
    BY LenProperties DEF HarvestOK
  <2>3. followed' \subseteq Paths
    BY <1>2 DEF HarvestOK
  <2>6. Len(found) < MaxFiles
    BY <1>2
  <2>4. Len(found') <= MaxFiles
    BY <2>1, <2>2, <2>6, Bounds
  <2>5. skipped' \in Nat /\ failures' \in Nat /\ lost' \subseteq Paths /\ pc' = place
    BY <1>2 DEF HarvestOK, At
  <2> QED BY <2>1, <2>3, <2>4, <2>5 DEF HarvestOK
<1>3. CASE At("limit") /\ FailAt(p)
  BY <1>3, FailAtType DEF At, Places
<1> QED BY <1>1, <1>2, <1>3 DEF Candidate

\* The stack of the scan without its top.
LEMMA FrontOfWork ==
    ASSUME ScanOK, work # <<>>
    PROVE  /\ Len(work) \in Nat \ {0} /\ Last(work) = work[Len(work)] /\ Last(work) \in Items
           /\ Front(work) \in Seq(Items) /\ Len(Front(work)) = Len(work) - 1
           /\ \A n \in 1..Len(work) - 1 : Front(work)[n] = work[n]
<1>1. Len(work) \in Nat \ {0} /\ \A n \in 1..Len(work) : work[n] \in Items
  BY LenProperties, EmptySeq DEF ScanOK
<1> DEFINE k == Len(work) - 1
<1>2. k \in Int /\ 1 \in Int /\ \A n \in 1..k : work[n] \in Items
  BY <1>1
<1>3. /\ SubSeq(work, 1, k) \in Seq(Items)
      /\ Len(SubSeq(work, 1, k)) = IF 1 <= k THEN k - 1 + 1 ELSE 0
      /\ \A n \in 1..k - 1 + 1 : SubSeq(work, 1, k)[n] = work[1 + n - 1]
  <2> HIDE DEF k
  <2> QED BY <1>2, SubSeqProperties
<1>5. k \in Nat
  BY <1>1
<1>4. Len(SubSeq(work, 1, k)) = k /\ \A n \in 1..k : SubSeq(work, 1, k)[n] = work[n]
  <2> HIDE DEF k
  <2>1. Len(SubSeq(work, 1, k)) = k
    BY <1>3, <1>5
  <2>2. ASSUME NEW n \in 1..k PROVE SubSeq(work, 1, k)[n] = work[n]
    <3>1. n \in 1..k - 1 + 1 /\ 1 + n - 1 = n
      BY <1>5
    <3>2. SubSeq(work, 1, k)[n] = work[1 + n - 1]
      BY <1>3, <3>1
    <3> QED BY <3>1, <3>2
  <2> QED BY <2>1, <2>2
<1> QED BY <1>1, <1>3, <1>4 DEF Front, Last

\* What Descend puts on the stack: nothing, or the guard and above it the directories
\* found, the first one on top.
Below == [i \in 1..Len(children) |-> [path |-> Reverse(children)[i], guard |-> FALSE]]
Pushed == Append(work, [path |-> current, guard |-> TRUE]) \o Below

\* What is on the stack after Descend, place by place.
LEMMA PushedWork ==
    ASSUME ScanOK
    PROVE  /\ Len(work) \in Nat /\ Len(children) \in Nat
           /\ Pushed \in Seq(Items) /\ Len(Pushed) = Len(work) + 1 + Len(children)
           /\ \A n \in 1..Len(work) : Pushed[n] = work[n]
           /\ Pushed[Len(work) + 1] = [path |-> current, guard |-> TRUE]
           /\ \A n \in 1..Len(children) :
                 /\ children[n] \in Paths
                 /\ Pushed[Len(work) + 1 + (Len(children) - n + 1)] = [path |-> children[n], guard |-> FALSE]
           /\ \A n \in Len(work) + 2..Len(work) + 1 + Len(children) :
                 \E q \in ToSet(children) : Pushed[n] = [path |-> q, guard |-> FALSE]
<1> DEFINE G == [path |-> current, guard |-> TRUE]
           A == Append(work, G)
<1>1. Len(work) \in Nat /\ Len(children) \in Nat /\ \A n \in 1..Len(children) : children[n] \in Paths
  BY LenProperties DEF ScanOK
<1>2. \A i \in 1..Len(children) :
         /\ Len(children) - i + 1 \in 1..Len(children)
         /\ Reverse(children)[i] = children[Len(children) - i + 1]
  BY <1>1 DEF Reverse
<1>3. Below \in Seq(Items) /\ Len(Below) = Len(children)
  <2>1. Below \in [1..Len(children) -> Items]
    BY <1>1, <1>2 DEF Below, Items
  <2> QED BY <1>1, <2>1, LenProperties
<1>4. A \in Seq(Items) /\ Len(A) = Len(work) + 1 /\ A[Len(work) + 1] = G
      /\ \A n \in 1..Len(work) : A[n] = work[n]
  BY AppendProperties DEF ScanOK, Items
<1> HIDE DEF A, G
<1>11. Pushed = A \o Below
  BY DEF Pushed, A, G
<1>5. /\ Pushed \in Seq(Items) /\ Len(Pushed) = Len(A) + Len(Below)
      /\ \A n \in 1..Len(A) + Len(Below) :
            Pushed[n] = IF n <= Len(A) THEN A[n] ELSE Below[n - Len(A)]
  <2>1. A \in Seq(Items) /\ Below \in Seq(Items)
    BY <1>3, <1>4
  <2>2. /\ A \o Below \in Seq(Items) /\ Len(A \o Below) = Len(A) + Len(Below)
        /\ \A n \in 1..Len(A) + Len(Below) :
              (A \o Below)[n] = IF n <= Len(A) THEN A[n] ELSE Below[n - Len(A)]
    BY <2>1, ConcatProperties
  <2> QED BY <1>11, <2>2
<1>6. \A n \in 1..Len(work) : Pushed[n] = work[n]
  BY <1>1, <1>3, <1>4, <1>5
<1>7. Pushed[Len(work) + 1] = [path |-> current, guard |-> TRUE]
  BY <1>1, <1>3, <1>4, <1>5 DEF G
<1>8. \A i \in 1..Len(children) :
         Pushed[Len(work) + 1 + i] = [path |-> children[Len(children) - i + 1], guard |-> FALSE]
  <2> TAKE i \in 1..Len(children)
  <2>1. Len(work) + 1 + i \in 1..Len(A) + Len(Below) /\ ~ (Len(work) + 1 + i <= Len(A))
        /\ Len(work) + 1 + i - Len(A) = i
    BY <1>1, <1>3, <1>4
  <2>2. Pushed[Len(work) + 1 + i] = Below[i]
    BY <1>5, <2>1
  <2> QED BY <1>2, <2>2 DEF Below
<1>9. \A n \in 1..Len(children) :
         Pushed[Len(work) + 1 + (Len(children) - n + 1)] = [path |-> children[n], guard |-> FALSE]
  <2> TAKE n \in 1..Len(children)
  <2>1. Len(children) - n + 1 \in 1..Len(children)
        /\ Len(children) - (Len(children) - n + 1) + 1 = n
    BY <1>1
  <2> QED BY <1>8, <2>1
<1>10. \A n \in Len(work) + 2..Len(work) + 1 + Len(children) :
          \E q \in ToSet(children) : Pushed[n] = [path |-> q, guard |-> FALSE]
  <2> TAKE n \in Len(work) + 2..Len(work) + 1 + Len(children)
  <2> DEFINE i == n - Len(work) - 1
  <2>1. i \in 1..Len(children) /\ Len(work) + 1 + i = n /\ Len(children) - i + 1 \in 1..Len(children)
    BY <1>1
  <2>2. children[Len(children) - i + 1] \in ToSet(children)
    BY <2>1, LenProperties DEF ToSet, ScanOK
  <2> QED BY <1>8, <2>1, <2>2
<1> QED BY <1>1, <1>3, <1>4, <1>5, <1>6, <1>7, <1>9, <1>10

\* The places of the validated sources, and what is there.
LEMMA ValidType ==
    ASSUME SelectionOK
    PROVE  /\ Len(valid) \in Nat /\ Len(selected) \in Nat
           /\ \A i \in 1..Len(valid) : i \in 1..MaxSources /\ valid[i] \in Sources /\ valid[i].path \in Paths
           /\ \A i \in queue : i \in 1..Len(valid)
<1>1. Len(valid) \in Nat /\ Len(selected) \in Nat /\ \A i \in 1..Len(valid) : valid[i] \in Sources
  BY LenProperties, ElementOfSeq DEF SelectionOK
<1>2. \A s \in Sources : s.path \in Paths
  BY DEF Sources
<1> QED BY <1>1, <1>2, Bounds DEF SelectionOK

\* No step loses a type.
LEMMA NextType == TypeOK /\ [Next]_vars => TypeOK'
<1> SUFFICES ASSUME TypeOK, [Next]_vars PROVE TypeOK'
  OBVIOUS
<1> USE TypeParts, TypePartsNext, TypeKept
<1>0. /\ DiskOK /\ pc \in Places /\ SelectionOK /\ ScanOK /\ HarvestOK /\ ImportOK /\ ReportOK
  OBVIOUS
<1>a. Reported => ReportOK'
  BY DEF Reported, ReportOK
<1>1. CASE Refuse
  BY <1>0, <1>1 DEF Refuse, At, Places
<1>2. CASE Validate
  <2> DEFINE p == Head(selected)
             Source == [path |-> p, beyond |-> Beyond(p), directory |-> IsDirectory(Lstat(p))]
  <2>1. selected # <<>> /\ selected' = Tail(selected) /\ UNCHANGED <<queue, source>>
        /\ (valid' = valid \/ valid' = Append(valid, Source))
    BY <1>2 DEF Validate
  <2>2. p \in Paths /\ selected' \in Seq(Paths) /\ Len(selected') = Len(selected) - 1
    BY <1>0, <2>1, HeadTailProperties DEF SelectionOK
  <2>3. Beyond(p) \in BOOLEAN /\ IsDirectory(Lstat(p)) \in BOOLEAN
    BY DEF Beyond, IsDirectory
  <2>4. Source \in Sources
    BY <2>2, <2>3, Zenon DEF Sources
  <2> HIDE DEF Source, p
  <2>5. Len(valid) \in Nat /\ Len(selected) \in Nat
    BY <1>0, LenProperties DEF SelectionOK
  <2>6. valid' \in Seq(Sources) /\ Len(valid') \in {Len(valid), Len(valid) + 1}
    <3>1. CASE valid' = valid
      BY <1>0, <2>5, <3>1 DEF SelectionOK
    <3>2. CASE valid' = Append(valid, Source)
      BY <1>0, <2>4, <3>2, AppendProperties DEF SelectionOK
    <3> QED BY <2>1, <3>1, <3>2 DEF Source, p
  <2>7. Len(selected') + Len(valid') <= MaxSources
    BY <1>0, <2>2, <2>5, <2>6, Bounds DEF SelectionOK
  <2>8. queue' \subseteq 1..Len(valid')
    BY <1>0, <2>1, <2>5, <2>6 DEF SelectionOK
  <2>9. SelectionOK'
    BY <1>0, <2>1, <2>2, <2>6, <2>7, <2>8 DEF SelectionOK
  <2> QED BY <1>0, <1>2, <2>9 DEF Validate
<1>3. CASE Merge
  <2>1. SelectionOK'
    BY <1>0, <1>3 DEF Merge, SelectionOK, EffectiveSources
  <2> QED BY <1>0, <1>3, <2>1 DEF Merge, At, Places
<1>4. CASE FileSource
  <2>1. PICK i \in queue :
          /\ Take(i) /\ Candidate(valid[i].path, {}, "sources") /\ Reported
          /\ UNCHANGED <<disk, selected, valid, scan, import>>
    BY <1>4 DEF FileSource
  <2>2. i \in 1..Len(valid) /\ valid[i].path \in Paths
    BY <1>0, ValidType
  <2>3. HarvestOK' /\ pc' \in Places
    BY <1>0, <2>1, <2>2, CandidateType DEF Places
  <2>4. i \in 1..MaxSources
    BY <1>0, <2>2, ValidType
  <2>5. SelectionOK'
    BY <1>0, <2>1, <2>4 DEF SelectionOK, Take
  <2> QED BY <1>0, <1>a, <2>1, <2>3, <2>5
<1>5. CASE DirectorySource
  <2>1. PICK i \in queue :
          /\ Take(i) /\ Reported
          /\ \/ /\ open' = IF Parent[valid[i].path] = valid[i].path THEN {} ELSE {Parent[valid[i].path]}
                /\ work' = <<[path |-> valid[i].path, guard |-> FALSE]>>
                /\ At("popping") /\ UNCHANGED harvest
             \/ /\ SkipAt(valid[i].path) \/ FailAt(valid[i].path)
                /\ UNCHANGED <<pc, open, work>>
          /\ UNCHANGED <<disk, selected, valid, current, seen, entries, children, import>>
    BY <1>5 DEF DirectorySource
  <2>2. i \in 1..Len(valid) /\ valid[i].path \in Paths
    BY <1>0, ValidType
  <2>3. HarvestOK' /\ pc' \in Places
    BY <1>0, <2>1, <2>2, SkipAtType, FailAtType DEF Places, At
  <2>4. i \in 1..MaxSources
    BY <1>0, <2>2, ValidType
  <2>5. SelectionOK'
    BY <1>0, <2>1, <2>4 DEF SelectionOK, Take
  <2>6. Parent[valid[i].path] \in Paths /\ [path |-> valid[i].path, guard |-> FALSE] \in Items
    BY <2>2, PathsAreNumbers DEF Items
  <2>9. <<[path |-> valid[i].path, guard |-> FALSE]>> \in Seq(Items)
    BY <2>6
  <2>10. open' \in {{}, {Parent[valid[i].path]}, open}
    BY <2>1
  <2>7. open' \subseteq Paths /\ work' \in Seq(Items)
    BY <1>0, <2>1, <2>6, <2>9, <2>10 DEF ScanOK
  <2>8. ScanOK'
    BY <1>0, <2>1, <2>7 DEF ScanOK
  <2> QED BY <1>0, <1>a, <2>1, <2>3, <2>5, <2>8
<1>6. CASE CloseGuard
  <2>1. ScanOK'
    BY <1>0, <1>6, FrontOfWork DEF CloseGuard, Popped, ScanOK
  <2> QED BY <1>0, <1>6, <2>1 DEF CloseGuard
<1>7. CASE Inspect
  <2>1. Last(work).path \in Paths /\ Front(work) \in Seq(Items)
    BY <1>0, <1>7, FrontOfWork DEF Inspect, Items
  <2>2. Lstat(Last(work).path) \in Kinds
    BY <1>0, <2>1 DEF Lstat, DiskOK, Kinds
  <2>3. ScanOK'
    BY <1>0, <1>7, <2>1, <2>2 DEF Inspect, Popped, ScanOK
  <2>4. HarvestOK' /\ pc' \in Places
    BY <1>0, <1>7, <2>1, SkipAtType, FailAtType DEF Inspect, At, Places
  <2> QED BY <1>0, <1>7, <1>a, <2>3, <2>4 DEF Inspect
<1>8. CASE Lock
  <2>1. ScanOK'
    BY <1>0, <1>8 DEF Lock, ScanOK
  <2>2. HarvestOK' /\ pc' \in Places
    BY <1>0, <1>8, SkipAtType, FailAtType DEF Lock, At, Places, ScanOK
  <2> QED BY <1>0, <1>8, <1>a, <2>1, <2>2 DEF Lock
<1>9. CASE List
  <2>1. /\ UNCHANGED <<work, current, seen>>
        /\ \/ /\ entries' = {p \in Paths \ {current} : Parent[p] = current /\ Lstat(p) # "none"}
              /\ children' = <<>> /\ open' = open
           \/ open' = open \ {current} /\ UNCHANGED <<entries, children>>
    BY <1>9 DEF List
  <2>2. entries' \subseteq Paths /\ open' \subseteq Paths /\ children' \in Seq(Paths)
    BY <1>0, <2>1, EmptySeq DEF ScanOK
  <2>3. ScanOK'
    BY <1>0, <2>1, <2>2 DEF ScanOK
  <2>4. HarvestOK' /\ pc' \in Places
    BY <1>0, <1>9, FailAtType DEF List, At, Places, ScanOK
  <2> QED BY <1>0, <1>9, <2>3, <2>4 DEF List
<1>10. CASE Entry
  <2>1. PICK p \in entries :
          /\ entries' = entries \ {p} /\ Reported
          /\ \/ children' = Append(children, p) /\ UNCHANGED <<pc, harvest>>
             \/ (SkipAt(p) \/ FailAt(p)) /\ UNCHANGED <<pc, children>>
             \/ Candidate(p, Trusted(p), "entries") /\ UNCHANGED children
          /\ open' = {} \/ open' = open
          /\ UNCHANGED <<disk, selection, work, current, seen, import>>
    BY <1>10 DEF Entry
  <2>2. p \in Paths
    BY <1>0 DEF ScanOK
  <2>3. HarvestOK' /\ pc' \in Places
    BY <1>0, <2>1, <2>2, SkipAtType, FailAtType, CandidateType DEF Places
  <2>4. children' \in Seq(Paths)
    BY <1>0, <2>1, <2>2, AppendProperties DEF ScanOK
  <2>5. ScanOK'
    BY <1>0, <2>1, <2>4 DEF ScanOK
  <2> QED BY <1>0, <1>a, <2>1, <2>3, <2>5
<1>11. CASE Descend
  <2>1. /\ work' = work \/ work' = Pushed
        /\ open' = open \ {current} \/ open' = open
        /\ children' = <<>> /\ UNCHANGED <<current, seen, entries>>
    BY <1>11 DEF Descend, Pushed, Below
  <2>2. work' \in Seq(Items) /\ children' \in Seq(Paths)
    BY <1>0, <2>1, PushedWork, EmptySeq DEF ScanOK
  <2>3. ScanOK'
    BY <1>0, <2>1, <2>2 DEF ScanOK
  <2> QED BY <1>0, <1>11, <2>3 DEF Descend, At, Places
<1>12. CASE Scanned
  <2>1. ScanOK'
    BY <1>0, <1>12 DEF Scanned, ScanOK
  <2> QED BY <1>0, <1>12, <2>1 DEF Scanned, At, Places
<1>13. CASE BeginImport
  BY <1>0, <1>13 DEF BeginImport, At, Places
<1>14. CASE Initialized
  BY <1>0, <1>14 DEF Initialized, At, Places
<1>15. CASE ImportFile
  <2>1. tally' \in [Counters -> Nat]
    BY <1>0, <1>15 DEF ImportFile, Add, ImportOK
  <2>2. next \in Nat /\ next <= Len(found) /\ Len(found) \in Nat /\ Len(found) <= MaxFiles /\ next' = next + 1
    BY <1>0, <1>15, LenProperties DEF ImportFile, ImportOK, HarvestOK
  <2>3. next' \in 1..MaxFiles + 1
    BY <2>2, Bounds
  <2>4. ImportOK' /\ ReportOK'
    BY <1>15, <2>1, <2>3 DEF ImportOK, ImportFile, ReportOK
  <2> QED BY <1>0, <1>15, <2>4 DEF ImportFile
<1>16. CASE Finish
  BY <1>0, <1>16 DEF Finish, At, Places
<1>17. CASE Cancel
  <2>1. ScanOK'
    BY <1>0, <1>17 DEF Cancel, ScanOK
  <2> QED BY <1>0, <1>17, <2>1 DEF Cancel, At, Places
<1>18. CASE Fail
  BY <1>0, <1>18 DEF Fail, At, Places
<1>19. ASSUME NEW p \in Paths, Replace(p) PROVE TypeOK'
  <2>1. kind' \in [Paths -> Kinds]
    BY <1>0, <1>19 DEF Replace, DiskOK
  <2>2. changes' \in 0..MaxChanges /\ touched' \subseteq Paths
    BY <1>0, <1>19, Bounds DEF Replace, DiskOK
  <2>3. DiskOK'
    BY <2>1, <2>2 DEF DiskOK
  <2> QED BY <1>0, <1>19, <2>3 DEF Replace
<1>20. CASE UNCHANGED vars
  BY <1>0, <1>20 DEF vars
<1> QED
  BY <1>1, <1>2, <1>3, <1>4, <1>5, <1>6, <1>7, <1>8, <1>9, <1>10, <1>11, <1>12, <1>13, <1>14,
     <1>15, <1>16, <1>17, <1>18, <1>19, <1>20 DEF Next

--------------------------------------------------------------------------------
(* The disk, and the phases of the batch *)

\* A batch that begins knows the disk, and is in its first phase.
LEMMA InitDisk == Init => DiskKnown /\ Phases
<1> SUFFICES ASSUME Init PROVE DiskKnown /\ Phases
  OBVIOUS
<1>1. \A p \in Paths : kind[p] \in IF p \in Plain THEN {"file"} ELSE {"directory", "reparse point"}
  BY DEF Init
<1>2. pc = "validating" /\ valid = <<>> /\ selected # <<>> /\ open = {}
  BY DEF Init
<1>3. 1..Len(valid) = {}
  BY <1>2
<1>4. DiskKnown
  BY <1>1, <1>2, <1>3, Zenon DEF DiskKnown
<1>5. Phases
  BY <1>2 DEF Phases, Scanning, ScanIsOver
<1> QED BY <1>4, <1>5

\* A step that leaves the disk, the sources and the directory at hand alone.
LEMMA DiskKept ==
    ASSUME DiskKnown, UNCHANGED <<kind, touched, valid, current>>, pc' \notin {"locking", "listing"}
    PROVE  DiskKnown'
  BY DEF DiskKnown

\* lstat finds what is there, or nothing.
LEMMA LstatIs ==
    ASSUME NEW p \in Paths
    PROVE  Lstat(p) = kind[p] \/ Lstat(p) = "none"
  BY DEF Lstat

\* What others replace is touched, was not guarded, and is all that changes.
LEMMA ReplaceKeeps ==
    ASSUME DiskOK, NEW p \in Paths, Replace(p)
    PROVE  /\ touched \subseteq touched' /\ p \in touched'
           /\ \A q \in Paths \ {p} : kind'[q] = kind[q]
           /\ p \notin open
           /\ UNCHANGED <<pc, selection, scan, harvest, import, progress>>
  BY DEF Replace, DiskOK

\* No step, of the batch or of others, makes what is known of the disk wrong.
LEMMA NextDisk == TypeOK /\ TypeOK' /\ DiskKnown /\ [Next]_vars => DiskKnown'
<1> SUFFICES ASSUME TypeOK, TypeOK', DiskKnown, [Next]_vars PROVE DiskKnown'
  OBVIOUS
<1>0. DiskOK /\ SelectionOK /\ ScanOK
  BY TypeParts
<1>1. CASE Refuse
  BY <1>1, DiskKept DEF Refuse, At, disk, selection, scan
<1>2. CASE Validate
  <2> DEFINE p == Head(selected)
             Source == [path |-> p, beyond |-> Beyond(p), directory |-> IsDirectory(Lstat(p))]
  <2>1. /\ pc = "validating" /\ selected # <<>> /\ ~ Refused(p)
        /\ UNCHANGED <<disk, pc, scan>>
        /\ (valid' = valid \/ valid' = Append(valid, Source))
    BY <1>2 DEF Validate
  <2>2. p \in Paths
    BY <1>0, <2>1, HeadTailProperties DEF SelectionOK
  <2>3. kind[p] # "reparse point" /\ Lstat(p) = kind[p]
    BY <2>1, <2>2, LstatIs DEF Refused
  <2>4. Len(valid) \in Nat
    BY <1>0, ValidType
  <2>5. Source.path = p /\ Source.directory = IsDirectory(kind[p])
    BY <2>3
  <2>6. Source \in Sources
    <3>1. Beyond(p) \in BOOLEAN /\ IsDirectory(Lstat(p)) \in BOOLEAN
      BY DEF Beyond, IsDirectory
    <3> QED BY <2>2, <3>1, Zenon DEF Sources
  <2> HIDE DEF Source, p
  <2>7. \A i \in 1..Len(valid') :
           \/ i \in 1..Len(valid) /\ valid'[i] = valid[i]
           \/ valid'[i] = Source
    <3>1. CASE valid' = valid
      BY <3>1
    <3>2. CASE valid' = Append(valid, Source)
      BY <1>0, <2>4, <2>6, <3>2, AppendProperties DEF SelectionOK
    <3> QED BY <2>1, <3>1, <3>2
  <2>8. \A i \in 1..Len(valid') : valid'[i].path \notin touched =>
          /\ kind[valid'[i].path] # "reparse point"
          /\ valid'[i].directory <=> IsDirectory(kind[valid'[i].path])
    BY <2>3, <2>5, <2>7 DEF DiskKnown
  <2>9. UNCHANGED <<kind, touched, current, pc>>
    BY <2>1 DEF disk, scan
  <2> QED BY <2>1, <2>8, <2>9 DEF DiskKnown
<1>3. CASE Merge
  BY <1>3, DiskKept DEF Merge, At, disk, scan
<1>4. CASE FileSource
  <2>1. pc' \in {"sources", "limit"}
    BY <1>4 DEF FileSource, Candidate, At
  <2> QED BY <1>4, <2>1, DiskKept DEF FileSource, disk, scan
<1>5. CASE DirectorySource
  <2>1. pc' \in {"sources", "popping"}
    BY <1>5 DEF DirectorySource, At, Take
  <2> QED BY <1>5, <2>1, DiskKept DEF DirectorySource, disk
<1>6. CASE CloseGuard
  BY <1>6, DiskKept DEF CloseGuard, disk, selection
<1>7. CASE Inspect
  <2>1. Last(work).path \in Paths
    BY <1>0, <1>7, FrontOfWork DEF Inspect, Items
  <2>2. \/ pc' = "locking" /\ current' = Last(work).path /\ IsDirectory(Lstat(Last(work).path))
        \/ pc' = "popping" /\ current' = current
    BY <1>7 DEF Inspect, At
  <2>3. UNCHANGED <<kind, touched, valid>>
    BY <1>7 DEF Inspect, disk, selection
  <2>4. pc' = "locking" => IsDirectory(kind[current'])
    BY <2>1, <2>2, LstatIs DEF IsDirectory
  <2> QED BY <2>2, <2>3, <2>4 DEF DiskKnown
<1>8. CASE Lock
  <2>1. pc' \in {"listing", "popping"} /\ pc = "locking" /\ UNCHANGED <<kind, touched, valid, current>>
    BY <1>8 DEF Lock, At, disk, selection
  <2> QED BY <2>1 DEF DiskKnown
<1>9. CASE List
  <2>1. pc' \in {"entries", "popping"}
    BY <1>9 DEF List, At
  <2> QED BY <1>9, <2>1, DiskKept DEF List, disk, selection
<1>10. CASE Entry
  <2>1. pc' \in {"entries", "limit"}
    BY <1>10 DEF Entry, Candidate, At
  <2> QED BY <1>10, <2>1, DiskKept DEF Entry, disk, selection
<1>11. CASE Descend
  BY <1>11, DiskKept DEF Descend, At, disk, selection
<1>12. CASE Scanned
  BY <1>12, DiskKept DEF Scanned, At, disk, selection
<1>13. CASE BeginImport \/ Initialized \/ ImportFile \/ Finish \/ Cancel \/ Fail
  <2>1. pc' \notin {"locking", "listing"} /\ UNCHANGED <<disk, selection, current>>
    BY <1>13 DEF BeginImport, Initialized, ImportFile, Finish, Cancel, Fail, At, scan
  <2> QED BY <2>1, DiskKept DEF disk, selection
<1>14. ASSUME NEW p \in Paths, Replace(p) PROVE DiskKnown'
  <2>1. /\ touched \subseteq touched' /\ p \in touched' /\ UNCHANGED <<pc, valid, current>>
        /\ \A q \in Paths \ {p} : kind'[q] = kind[q]
    BY <1>0, <1>14, ReplaceKeeps DEF selection, scan
  <2>2. \A i \in 1..Len(valid) : valid[i].path \in Paths
    BY <1>0, ValidType
  <2>3. \A i \in 1..Len(valid) : valid[i].path \notin touched' =>
          valid[i].path \notin touched /\ kind'[valid[i].path] = kind[valid[i].path]
    BY <2>1, <2>2
  <2>4. current \notin touched' => current \notin touched /\ kind'[current] = kind[current]
    BY <1>0, <2>1 DEF ScanOK
  <2>5. \A q \in Paths \ touched' : q \in Paths \ touched /\ kind'[q] = kind[q]
    BY <2>1
  <2> QED BY <2>1, <2>3, <2>4, <2>5 DEF DiskKnown
<1>15. CASE UNCHANGED vars
  BY <1>15 DEF vars, disk, selection, scan, DiskKnown
<1> QED
  BY <1>1, <1>2, <1>3, <1>4, <1>5, <1>6, <1>7, <1>8, <1>9, <1>10, <1>11, <1>12, <1>13, <1>14,
     <1>15 DEF Next

\* No step leaves the phases.
LEMMA NextPhases == TypeOK /\ TypeOK' /\ Phases /\ [Next]_vars => Phases'
<1> SUFFICES ASSUME TypeOK, TypeOK', Phases, [Next]_vars PROVE Phases'
  OBVIOUS
<1>0. SelectionOK /\ SelectionOK' /\ ScanOK
  BY TypeParts, TypePartsNext
<1> USE DEF Scanning, ScanIsOver
<1>1. CASE Refuse
  BY <1>1 DEF Refuse, At, Phases, selection, scan
<1>2. CASE Validate
  <2> DEFINE p == Head(selected)
             Source == [path |-> p, beyond |-> Beyond(p), directory |-> IsDirectory(Lstat(p))]
  <2>1. /\ pc = "validating" /\ pc' = pc /\ open' = open /\ selected # <<>>
        /\ \/ valid' = valid /\ \E i \in 1..Len(valid) : valid[i].path = p
           \/ valid' = Append(valid, Source)
    BY <1>2 DEF Validate, scan
  <2>2. p \in Paths
    BY <1>0, <2>1, HeadTailProperties DEF SelectionOK
  <2>6. Beyond(p) \in BOOLEAN /\ IsDirectory(Lstat(p)) \in BOOLEAN
    BY DEF Beyond, IsDirectory
  <2>3. Source \in Sources
    BY <2>2, <2>6, Zenon DEF Sources
  <2> HIDE DEF Source, p
  <2>4. CASE valid' = valid /\ \E i \in 1..Len(valid) : valid[i].path = p
    <3>1. valid' # <<>>
      BY <2>4, <1>0, ValidType
    <3> QED BY <2>1, <3>1 DEF Phases
  <2>5. CASE valid' = Append(valid, Source)
    <3>1. valid' # <<>>
      BY <1>0, <2>3, <2>5, AppendProperties DEF SelectionOK
    <3> QED BY <2>1, <3>1 DEF Phases
  <2> QED BY <2>1, <2>4, <2>5
<1>3. CASE Merge
  BY <1>3 DEF Merge, At, Phases, scan
<1>4. CASE FileSource
  <2>1. pc = "sources" /\ pc' \in {"sources", "limit"} /\ valid' = valid /\ open' = open
    BY <1>4 DEF FileSource, Take, Candidate, At, scan
  <2> QED BY <2>1 DEF Phases
<1>5. CASE DirectorySource
  <2>1. PICK i \in queue :
          /\ pc = "sources" /\ valid' = valid /\ source' = i
          /\ \/ pc' = "sources" /\ open' = open
             \/ pc' = "popping"
    BY <1>5 DEF DirectorySource, Take, At
  <2>2. i \in 1..Len(valid)
    BY <1>0, ValidType
  <2> QED BY <2>1, <2>2 DEF Phases
<1>6. CASE CloseGuard
  BY <1>6 DEF CloseGuard, Phases, selection
<1>7. CASE Inspect
  <2>1. pc = "popping" /\ pc' \in {"popping", "locking"} /\ UNCHANGED selection
    BY <1>7 DEF Inspect, At
  <2> QED BY <2>1 DEF Phases, selection
<1>8. CASE Lock
  <2>1. pc = "locking" /\ pc' \in {"listing", "popping"} /\ UNCHANGED selection
    BY <1>8 DEF Lock, At
  <2> QED BY <2>1 DEF Phases, selection
<1>9. CASE List
  <2>1. pc = "listing" /\ pc' \in {"entries", "popping"} /\ UNCHANGED selection
    BY <1>9 DEF List, At
  <2> QED BY <2>1 DEF Phases, selection
<1>10. CASE Entry
  <2>1. pc = "entries" /\ UNCHANGED selection /\ (pc' = "limit" => open' = {})
    BY <1>10 DEF Entry
  <2>2. pc' \in {"entries", "limit"}
    BY <1>10 DEF Entry, Candidate, At
  <2> QED BY <2>1, <2>2 DEF Phases, selection
<1>11. CASE Descend
  BY <1>11 DEF Descend, At, Phases, selection
<1>12. CASE Scanned
  BY <1>12 DEF Scanned, At, Phases, selection
<1>13. CASE BeginImport
  BY <1>13 DEF BeginImport, At, Phases, selection, scan
<1>14. CASE Initialized
  BY <1>14 DEF Initialized, At, Phases, selection, scan
<1>15. CASE ImportFile
  BY <1>15 DEF ImportFile, Phases, selection, scan
<1>16. CASE Finish
  BY <1>16 DEF Finish, At, Phases, selection, scan
<1>17. CASE Cancel
  BY <1>17 DEF Cancel, At, Phases, selection
<1>18. CASE Fail
  BY <1>18 DEF Fail, At, Phases, selection, scan
<1>19. ASSUME NEW p \in Paths, Replace(p) PROVE Phases'
  BY <1>19 DEF Replace, Phases, selection, scan
<1>20. CASE UNCHANGED vars
  BY <1>20 DEF vars, Phases, selection, scan
<1> QED
  BY <1>1, <1>2, <1>3, <1>4, <1>5, <1>6, <1>7, <1>8, <1>9, <1>10, <1>11, <1>12, <1>13, <1>14,
     <1>15, <1>16, <1>17, <1>18, <1>19, <1>20 DEF Next

--------------------------------------------------------------------------------
(* The guards *)

\* Nothing is guarded at first.
LEMMA InitGuards == Init => Guards
  BY DEF Init, Guards, Sound, Scanning, AtDirectory

\* What keeps the directories above a path safe.
LEMMA SafeKept ==
    ASSUME NEW p \in Paths, NEW n \in Nat, NEW k \in Nat, NEW O, NEW O2, NEW W, NEW W2, NEW top,
           Safe(p, n, O, W, top), n <= k,
           \A m \in 1..n - 1 : W2[m] = W[m],
           \A d \in Ancestors[p] :
              /\ Within(d, Parent[top]) /\ d \in O
              /\ Within(d, top) => \E m \in 1..n - 1 : W[m].guard /\ W[m].path = d
              => d \in O2
    PROVE  Safe(p, k, O2, W2, top)
<1> SUFFICES ASSUME NEW d \in Ancestors[p], Within(d, Parent[top])
             PROVE  /\ d \in O2
                    /\ Within(d, top) => \E m \in 1..k - 1 : W2[m].guard /\ W2[m].path = d
  BY DEF Safe
<1>1. d \in O /\ (Within(d, top) => \E m \in 1..n - 1 : W[m].guard /\ W[m].path = d)
  BY DEF Safe
<1>2. d \in O2
  BY <1>1
<1>3. ASSUME Within(d, top) PROVE \E m \in 1..k - 1 : W2[m].guard /\ W2[m].path = d
  <2>1. PICK m \in 1..n - 1 : W[m].guard /\ W[m].path = d
    BY <1>1, <1>3
  <2>2. m \in 1..k - 1 /\ W2[m] = W[m]
    OBVIOUS
  <2> QED BY <2>1, <2>2
<1> QED BY <1>2, <1>3

\* Of a source only the directory above it has to be open.
LEMMA SafeAtTop ==
    ASSUME NEW top \in Paths, NEW O, NEW W, NEW n, Parent[top] # top => Parent[top] \in O
    PROVE  Safe(top, n, O, W, top)
<1> SUFFICES ASSUME NEW d \in Ancestors[top], Within(d, Parent[top])
             PROVE  d \in O /\ ~ Within(d, top)
  BY DEF Safe
<1>1. Parent[top] # top /\ Parent[top] \in Paths
  BY DriveHasNothingAbove, PathsAreNumbers
<1>2. d \in Paths /\ d < top /\ d \in Nat /\ top \in Nat /\ Parent[top] \in Nat
  BY <1>1, AboveIsLess, PathsAreNumbers
<1>3. d = Parent[top]
  <2>1. CASE d \in Ancestors[Parent[top]]
    <3>1. d < Parent[top]
      BY <1>1, <2>1, AboveIsLess
    <3>2. d # Parent[top] => Parent[top] < d
      BY <1>2, AboveIsLess DEF Within
    <3> QED BY <1>2, <3>1, <3>2
  <2> QED BY <1>1, <2>1, AboveAnEntry DEF Up
<1>4. ~ Within(d, top)
  <2>1. Within(d, top) => d = top \/ top < d
    BY <1>2, AboveIsLess DEF Within
  <2> QED BY <1>2, <2>1
<1> QED BY <1>1, <1>3, <1>4

\* The entry of a safe directory that is open and has its guard on the stack is safe.
LEMMA SafeBelow ==
    ASSUME NEW q \in Paths, Parent[q] # q, NEW n \in Nat, NEW O, NEW W, NEW top,
           Safe(Parent[q], n, O, W, top), Parent[q] \in O,
           \E m \in 1..n - 1 : W[m].guard /\ W[m].path = Parent[q]
    PROVE  Safe(q, n, O, W, top)
  BY AboveAnEntry DEF Safe, Up

\* A directory that is let go is none of those that have to be above it.
LEMMA NotAbove ==
    ASSUME NEW g \in Paths, NEW d \in Paths, NEW top \in Paths, Within(g, top),
           Within(d, top) => d \in Ancestors[g]
    PROVE  d # g
<1>1. g \notin Ancestors[g]
  BY AboveIsLess, PathsAreNumbers
<1> QED BY <1>1

\* Outside a scan nothing has to be guarded.
LEMMA GuardsAtRest ==
    ASSUME Guards, UNCHANGED <<kind, followed>>, open' \subseteq open,
           pc' \notin {"popping", "locking", "listing", "entries"}
    PROVE  Guards'
  BY DEF Guards, Sound, Scanning, AtDirectory

\* The source that is scanned is a path.
LEMMA TopIsPath ==
    ASSUME TypeOK, Phases, Scanning
    PROVE  Top \in Paths
  BY TypeParts, ValidType DEF Phases, Top

\* The places of the stack, and what is there.
LEMMA WorkType ==
    ASSUME TypeOK
    PROVE  /\ Len(work) \in Nat
           /\ \A n \in 1..Len(work) : work[n].path \in Paths /\ work[n].guard \in BOOLEAN
<1>1. work \in Seq(Items)
  BY TypeParts DEF ScanOK
<1>2. Len(work) \in Nat /\ \A n \in 1..Len(work) : work[n] \in Items
  BY <1>1, LenProperties, ElementOfSeq
<1> QED BY <1>2 DEF Items

\* What lstat finds to be a directory is one.
LEMMA IsOne ==
    ASSUME NEW p \in Paths, IsDirectory(Lstat(p))
    PROVE  IsDirectory(kind[p])
  BY LstatIs DEF IsDirectory

\* The first guard is that of the directory above the source.
LEMMA DirectorySourceGuards ==
    ASSUME TypeOK, TypeOK', Phases, Guards, DirectorySource
    PROVE  Guards'
<1>1. PICK i \in queue :
        /\ Take(i) /\ UNCHANGED <<kind, valid>>
        /\ \/ /\ Parent[valid[i].path] = valid[i].path \/ IsDirectory(Lstat(Parent[valid[i].path]))
              /\ open' = IF Parent[valid[i].path] = valid[i].path THEN {} ELSE {Parent[valid[i].path]}
              /\ work' = <<[path |-> valid[i].path, guard |-> FALSE]>>
              /\ At("popping") /\ UNCHANGED harvest
           \/ pc' = pc /\ followed' = followed /\ open' = open
  BY DEF DirectorySource, FailAt, SkipAt, disk
<1>2. CASE pc' = pc /\ followed' = followed /\ open' = open
  BY <1>1, <1>2, GuardsAtRest DEF Take
<1>3. CASE /\ Parent[valid[i].path] = valid[i].path \/ IsDirectory(Lstat(Parent[valid[i].path]))
           /\ open' = IF Parent[valid[i].path] = valid[i].path THEN {} ELSE {Parent[valid[i].path]}
           /\ work' = <<[path |-> valid[i].path, guard |-> FALSE]>>
           /\ At("popping") /\ UNCHANGED harvest
  <2> DEFINE top == valid[i].path
  <2>1. top \in Paths /\ Parent[top] \in Paths /\ Top' = top
    BY <1>1, TypeParts, ValidType, PathsAreNumbers DEF Take, Top
  <2> HIDE DEF top
  <2>2. Sound'
    <3>1. \A d \in open' : d = Parent[top] /\ IsDirectory(kind[d])
      BY <1>3, <2>1, IsOne DEF top
    <3> QED BY <1>1, <1>3, <3>1 DEF Sound, Guards, harvest
  <2>3. Safe(top, 1, open', work', top)
    BY <1>3, <2>1, SafeAtTop DEF top
  <2>4. Len(work') = 1 /\ work'[1].path = top /\ ~ work'[1].guard
    BY <1>3 DEF top
  <2>5. Stack'
    BY <2>1, <2>3, <2>4 DEF Stack, Within
  <2> QED BY <1>3, <2>2, <2>5 DEF Guards, At, AtDirectory
<1> QED BY <1>1, <1>2, <1>3

\* A guard is closed when nothing below its directory is left on the stack.
LEMMA CloseGuardGuards ==
    ASSUME TypeOK, TypeOK', Phases, Guards, CloseGuard
    PROVE  Guards'
<1> DEFINE L == Len(work)
           g == work[L].path
<1>1. /\ pc = "popping" /\ work # <<>> /\ Last(work).guard /\ open' = open \ {Last(work).path}
      /\ UNCHANGED <<kind, pc, valid, source, followed>> /\ work' = Front(work)
  BY DEF CloseGuard, Popped, disk, selection, harvest
<1>2. /\ L \in Nat \ {0} /\ work[L].guard /\ open' = open \ {g}
      /\ Len(work') = L - 1 /\ \A n \in 1..L - 1 : work'[n] = work[n]
  BY <1>1, FrontOfWork, TypeParts
<1>3. Scanning /\ Stack /\ Top \in Paths /\ Top' = Top
  BY <1>1, TopIsPath DEF Guards, Scanning, Top
<1>4. g \in Paths /\ \A n \in 1..L : work[n].path \in Paths
  BY <1>2, WorkType
<1>5. ASSUME NEW n \in 1..L - 1, ~ work[n].guard
      PROVE  Safe(work[n].path, n, open', work', Top)
  <2>1. Safe(work[n].path, n, open, work, Top)
    BY <1>2, <1>3, <1>5 DEF Stack
  <2>2. ASSUME NEW d \in Ancestors[work[n].path], d \in open,
               Within(d, Top) => \E m \in 1..n - 1 : work[m].guard /\ work[m].path = d
        PROVE  d \in open'
    <3>1. Within(d, Top) => d \in Ancestors[g]
      <4>1. \A m \in 1..n - 1 : work[m].guard => work[m].path \in Ancestors[g]
        BY <1>2, <1>3 DEF Stack
      <4> QED BY <2>2, <4>1
    <3>2. d \in Paths
      BY <1>2, <1>4, AboveIsLess
    <3>3. Within(g, Top)
      BY <1>2, <1>3 DEF Stack
    <3> QED BY <1>2, <1>3, <1>4, <2>2, <3>1, <3>2, <3>3, NotAbove
  <2>3. work[n].path \in Paths /\ n \in Nat /\ \A m \in 1..n - 1 : work'[m] = work[m]
    BY <1>2, <1>4
  <2> QED BY <2>1, <2>2, <2>3, SafeKept
<1>6. Stack'
  <2>1. \A n \in 1..L - 1 : Within(work'[n].path, Top')
    BY <1>2, <1>3 DEF Stack
  <2>2. \A m, n \in 1..L - 1 :
           m < n /\ work'[m].guard => work'[m].path \in Ancestors[work'[n].path]
    BY <1>2, <1>3 DEF Stack
  <2>3. \A n \in 1..L - 1 : ~ work'[n].guard => Safe(work'[n].path, n, open', work', Top')
    BY <1>2, <1>3, <1>5
  <2> QED BY <1>2, <2>1, <2>2, <2>3 DEF Stack
<1>7. Sound'
  BY <1>1 DEF Guards, Sound
<1> QED BY <1>1, <1>6, <1>7 DEF Guards, AtDirectory

\* The directory at hand was on top of the stack.
LEMMA InspectGuards ==
    ASSUME TypeOK, TypeOK', Phases, Guards, Inspect
    PROVE  Guards'
<1> DEFINE L == Len(work)
           d == work[L].path
<1>1. /\ pc = "popping" /\ work # <<>> /\ ~ Last(work).guard /\ work' = Front(work)
      /\ UNCHANGED <<kind, open, valid, source, followed>>
      /\ \/ pc' = "locking" /\ current' = Last(work).path
         \/ pc' = "popping"
  BY DEF Inspect, Popped, At, FailAt, SkipAt, disk, selection, harvest
<1>2. /\ L \in Nat \ {0} /\ ~ work[L].guard /\ (pc' = "locking" => current' = d)
      /\ Len(work') = L - 1 /\ \A n \in 1..L - 1 : work'[n] = work[n]
  BY <1>1, FrontOfWork, TypeParts
<1>3. Scanning /\ Stack /\ Top' = Top
  BY <1>1 DEF Guards, Scanning, Top
<1>4. \A n \in 1..L : work[n].path \in Paths
  BY <1>2, WorkType
<1>5. ASSUME NEW n \in 1..L, ~ work[n].guard
      PROVE  Safe(work[n].path, n, open', work', Top')
  <2>1. Safe(work[n].path, n, open, work, Top)
    BY <1>2, <1>3, <1>5 DEF Stack
  <2>2. work[n].path \in Paths /\ n \in Nat /\ \A m \in 1..n - 1 : work'[m] = work[m]
    BY <1>2, <1>4
  <2> QED BY <1>1, <1>3, <2>1, <2>2, SafeKept
<1>6. Stack'
  <2>1. \A n \in 1..L - 1 : Within(work'[n].path, Top')
    BY <1>2, <1>3 DEF Stack
  <2>2. \A m, n \in 1..L - 1 :
           m < n /\ work'[m].guard => work'[m].path \in Ancestors[work'[n].path]
    BY <1>2, <1>3 DEF Stack
  <2>3. \A n \in 1..L - 1 : ~ work'[n].guard => Safe(work'[n].path, n, open', work', Top')
    BY <1>2, <1>5
  <2> QED BY <1>2, <2>1, <2>2, <2>3 DEF Stack
<1>7. pc' = "locking" => Hand'
  <2> SUFFICES ASSUME pc' = "locking" PROVE Hand'
    OBVIOUS
  <2>1. current' = d /\ L \in 1..L /\ Len(work') + 1 = L
    BY <1>2
  <2>2. Within(current', Top')
    BY <1>3, <2>1 DEF Stack
  <2>3. \A m \in 1..Len(work') : work'[m].guard => work'[m].path \in Ancestors[current']
    BY <1>2, <1>3, <2>1 DEF Stack
  <2>4. Safe(current', Len(work') + 1, open', work', Top')
    BY <1>2, <1>5, <2>1
  <2> QED BY <2>2, <2>3, <2>4 DEF Hand
<1>8. Sound'
  BY <1>1 DEF Guards, Sound
<1> QED BY <1>1, <1>6, <1>7, <1>8 DEF Guards, AtDirectory

\* As long as nothing on the stack changes, and what is open stays open.
LEMMA StackKept ==
    ASSUME TypeOK, Stack, UNCHANGED <<work, valid, source>>, open \subseteq open'
    PROVE  Stack'
<1>1. Top' = Top
  BY DEF Top
<1>2. ASSUME NEW n \in 1..Len(work), ~ work[n].guard
      PROVE  Safe(work[n].path, n, open', work, Top)
  <2>1. work[n].path \in Paths /\ n \in Nat
    BY WorkType
  <2> QED BY <1>2, <2>1, SafeKept DEF Stack
<1> QED BY <1>1, <1>2 DEF Stack

\* The directory at hand can be let go, for nothing on the stack is in it.
LEMMA LetGo ==
    ASSUME TypeOK, Phases, Guards, AtDirectory, UNCHANGED <<work, valid, source>>,
           open' = open \ {current}
    PROVE  Stack'
<1>1. Top' = Top /\ Scanning /\ Stack /\ Hand /\ Top \in Paths /\ current \in Paths
  BY TopIsPath, TypeParts DEF Top, Guards, Scanning, AtDirectory, ScanOK
<1>2. Len(work) \in Nat /\ \A n \in 1..Len(work) : work[n].path \in Paths
  BY WorkType
<1>3. ASSUME NEW n \in 1..Len(work), ~ work[n].guard
      PROVE  Safe(work[n].path, n, open', work, Top)
  <2>1. Safe(work[n].path, n, open, work, Top)
    BY <1>1, <1>3 DEF Stack
  <2>2. ASSUME NEW d \in Ancestors[work[n].path], d \in open,
               Within(d, Top) => \E m \in 1..n - 1 : work[m].guard /\ work[m].path = d
        PROVE  d \in open'
    <3>1. Within(d, Top) => d \in Ancestors[current]
      <4>1. \A m \in 1..n - 1 : work[m].guard => work[m].path \in Ancestors[current]
        BY <1>1, <1>2 DEF Hand
      <4> QED BY <2>2, <4>1
    <3>2. d \in Paths
      BY <1>2, AboveIsLess
    <3> QED BY <1>1, <2>2, <3>1, <3>2, NotAbove DEF Hand
  <2> QED BY <1>2, <2>1, <2>2, SafeKept
<1> QED BY <1>1, <1>3 DEF Stack

\* What is opened as a directory stays one.
LEMMA LockGuards ==
    ASSUME TypeOK, TypeOK', Phases, Guards, Lock
    PROVE  Guards'
<1>1. /\ pc = "locking" /\ UNCHANGED <<kind, work, valid, source, current, followed>>
      /\ \/ pc' = "listing" /\ open' = open \union {current} /\ IsDirectory(Lstat(current))
         \/ pc' = "popping" /\ open' = open
  BY DEF Lock, At, FailAt, SkipAt, disk, selection, harvest
<1>2. Stack /\ Hand /\ Sound /\ Top' = Top /\ current \in Paths /\ Len(work) \in Nat
  BY <1>1, TypeParts, WorkType DEF Guards, Scanning, AtDirectory, Top, ScanOK
<1>3. Stack'
  BY <1>1, <1>2, StackKept
<1>4. Sound'
  <2>1. CASE open' = open
    BY <1>1, <1>2, <2>1 DEF Sound
  <2>2. CASE open' = open \union {current} /\ IsDirectory(Lstat(current))
    <3>1. IsDirectory(kind[current])
      BY <1>2, <2>2, IsOne
    <3> QED BY <1>1, <1>2, <2>2, <3>1 DEF Sound
  <2> QED BY <1>1, <2>1, <2>2
<1>5. ASSUME pc' = "listing" PROVE Hand'
  <2>1. Safe(current, Len(work) + 1, open', work, Top)
    BY <1>1, <1>2, SafeKept DEF Hand
  <2> QED BY <1>1, <1>2, <1>5, <2>1 DEF Hand
<1> QED BY <1>1, <1>3, <1>4, <1>5 DEF Guards, AtDirectory

\* The entries of a directory are in it.
LEMMA ListGuards ==
    ASSUME TypeOK, TypeOK', Phases, Guards, List
    PROVE  Guards'
<1>1. /\ pc = "listing" /\ UNCHANGED <<kind, work, valid, source, current, followed>>
      /\ \/ /\ pc' = "entries" /\ open' = open /\ children' = <<>>
            /\ entries' = {p \in Paths \ {current} : Parent[p] = current /\ Lstat(p) # "none"}
         \/ pc' = "popping" /\ open' = open \ {current}
  BY DEF List, At, FailAt, disk, selection, harvest
<1>2. Stack /\ Hand /\ Sound /\ Top' = Top /\ AtDirectory
  BY <1>1 DEF Guards, Scanning, AtDirectory, Top
<1>3. Stack'
  BY <1>1, <1>2, StackKept, LetGo
<1>4. Sound'
  BY <1>1, <1>2 DEF Sound
<1>5. ASSUME pc' = "entries" PROVE Hand'
  <2>1. ToSet(children') = {}
    BY <1>1, <1>5 DEF ToSet
  <2>2. \A q \in entries' \union ToSet(children') : Parent[q] = current /\ q # current
    BY <1>1, <1>5, <2>1
  <2>3. current \in open'
    BY <1>1, <1>2, <1>5 DEF Hand
  <2> QED BY <1>1, <1>2, <1>5, <2>2, <2>3 DEF Hand
<1> QED BY <1>1, <1>3, <1>4, <1>5 DEF Guards, AtDirectory

\* A sequence that is appended to has the elements that it had, and the new one.
LEMMA AppendedSet ==
    ASSUME NEW S, NEW s \in Seq(S), NEW e \in S
    PROVE  ToSet(Append(s, e)) = ToSet(s) \union {e}
<1>1. Len(s) \in Nat /\ DOMAIN s = 1..Len(s)
  BY LenProperties
<1>2. /\ Append(s, e) \in Seq(S) /\ Len(Append(s, e)) = Len(s) + 1
      /\ \A i \in 1..Len(s) : Append(s, e)[i] = s[i]
      /\ Append(s, e)[Len(s) + 1] = e
  BY AppendProperties
<1>3. DOMAIN Append(s, e) = 1..Len(s) + 1
  BY <1>2, LenProperties
<1>4. \A i \in 1..Len(s) + 1 : i \in 1..Len(s) \/ i = Len(s) + 1
  BY <1>1
<1>5. Len(s) + 1 \in 1..Len(s) + 1 /\ \A i \in 1..Len(s) : i \in 1..Len(s) + 1
  BY <1>1
<1> QED BY <1>1, <1>2, <1>3, <1>4, <1>5 DEF ToSet

\* A candidate is found with every directory above it open, so behind no reparse point.
LEMMA EntryGuards ==
    ASSUME TypeOK, TypeOK', Phases, Guards, Entry
    PROVE  Guards'
<1>1. PICK p \in entries :
        /\ pc = "entries" /\ entries' = entries \ {p}
        /\ UNCHANGED <<kind, work, valid, source, current>>
        /\ \/ children' = Append(children, p) /\ pc' = pc /\ followed' = followed
           \/ children' = children /\ pc' = pc /\ followed' = followed
           \/ children' = children /\ Candidate(p, Trusted(p), "entries")
        /\ IF pc' = "limit" THEN open' = {} ELSE UNCHANGED open
  BY DEF Entry, FailAt, SkipAt, disk, selection, harvest
<1>2. Stack /\ Hand /\ Sound /\ Top' = Top /\ p \in Paths /\ current \in Paths
  BY <1>1, TypeParts DEF Guards, Scanning, AtDirectory, Top, ScanOK
<1>3. Parent[p] = current /\ p # current
  BY <1>1, <1>2 DEF Hand
<1>4. \A d \in Trusted(p) : d \in open
  <2>1. \A d \in Ancestors[current] : Within(d, Parent[Top]) => d \in open
    BY <1>2 DEF Hand, Safe
  <2>2. current \in open
    BY <1>1, <1>2 DEF Hand
  <2> QED BY <1>2, <1>3, <2>1, <2>2, AboveAnEntry DEF Trusted, Up, Top
<1>5. \A d \in Trusted(p) : kind[d] # "reparse point"
  BY <1>2, <1>4 DEF Sound, IsDirectory
<1>6. followed' = {} /\ pc' \in {"entries", "limit"}
  <2>1. CASE pc' = pc /\ followed' = followed
    BY <1>1, <1>2, <2>1 DEF Sound
  <2>2. CASE Candidate(p, Trusted(p), "entries")
    BY <1>2, <1>5, <2>2 DEF Candidate, Sound, harvest, At, FailAt
  <2> QED BY <1>1, <2>1, <2>2
<1>7. Sound'
  BY <1>1, <1>2, <1>6 DEF Sound
<1>8. CASE pc' = "limit"
  BY <1>7, <1>8 DEF Guards, Scanning, AtDirectory
<1>9. CASE pc' = "entries"
  <2>1. open' = open
    BY <1>1, <1>9
  <2>2. Stack'
    BY <1>1, <1>2, <2>1, StackKept
  <2>3. ToSet(children') \subseteq ToSet(children) \union {p}
    <3>1. children \in Seq(Paths)
      BY TypeParts DEF ScanOK
    <3>2. ToSet(Append(children, p)) = ToSet(children) \union {p}
      BY <1>2, <3>1, AppendedSet
    <3> QED BY <1>1, <3>2
  <2>4. \A q \in entries' \union ToSet(children') : Parent[q] = current /\ q # current
    BY <1>1, <1>2, <1>3, <2>3 DEF Hand
  <2>5. Hand'
    BY <1>1, <1>2, <1>9, <2>1, <2>4 DEF Hand
  <2> QED BY <1>7, <2>2, <2>5 DEF Guards
<1> QED BY <1>6, <1>8, <1>9

\* The directories found wait above the guard of the one they are in.
LEMMA DescendGuards ==
    ASSUME TypeOK, TypeOK', Phases, Guards, Descend
    PROVE  Guards'
<1>1. /\ pc = "entries" /\ pc' = "popping" /\ UNCHANGED <<kind, valid, source, current, followed>>
      /\ \/ open' = open \ {current} /\ work' = work
         \/ open' = open /\ work' = Pushed
  BY DEF Descend, At, disk, selection, harvest, Pushed, Below
<1>2. /\ Stack /\ Hand /\ Sound /\ Top' = Top /\ AtDirectory /\ ScanOK
      /\ Top \in Paths /\ current \in Paths
  BY <1>1, TypeParts, TopIsPath DEF Guards, Scanning, AtDirectory, Top, ScanOK
<1>3. Sound'
  BY <1>1, <1>2 DEF Sound
<1>4. CASE open' = open \ {current} /\ work' = work
  <2>1. Stack'
    BY <1>1, <1>2, <1>4, LetGo
  <2> QED BY <1>1, <1>3, <2>1 DEF Guards, AtDirectory
<1>5. CASE open' = open /\ work' = Pushed
  <2> DEFINE L == Len(work)
             N == Len(work')
             C == ToSet(children)
  <2>1. /\ L \in Nat /\ N \in Nat /\ N = L + 1 + Len(children) /\ Len(children) \in Nat
        /\ \A n \in 1..L : work'[n] = work[n]
        /\ work'[L + 1] = [path |-> current, guard |-> TRUE]
        /\ \A n \in L + 2..N : \E q \in C : work'[n] = [path |-> q, guard |-> FALSE]
    <3>1. /\ L \in Nat /\ Len(children) \in Nat /\ Len(Pushed) = L + 1 + Len(children)
          /\ \A n \in 1..L : Pushed[n] = work[n]
          /\ Pushed[L + 1] = [path |-> current, guard |-> TRUE]
          /\ \A n \in L + 2..L + 1 + Len(children) :
                \E q \in C : Pushed[n] = [path |-> q, guard |-> FALSE]
      BY <1>2, PushedWork
    <3>2. N = L + 1 + Len(children)
      BY <1>5, <3>1
    <3> HIDE DEF N, L, C
    <3>3. N \in Nat
      BY <3>1, <3>2
    <3> QED BY <1>5, <3>1, <3>2, <3>3
  <2>2. \A q \in C : q \in Paths /\ Parent[q] = current /\ q # current
    <3>1. C \subseteq Paths
      BY <1>2, LenProperties DEF ScanOK, ToSet
    <3> QED BY <1>1, <1>2, <3>1 DEF Hand
  <2>3. \A n \in 1..L : work[n].path \in Paths /\ work[n].guard \in BOOLEAN
    BY WorkType
  <2> HIDE DEF L, N, C
  <2>4. \A n \in 1..N : n \in 1..L \/ n = L + 1 \/ n \in L + 2..N
    BY <2>1
  <2>5. ASSUME NEW q \in C PROVE Ancestors[q] = Up(current) /\ Within(q, Top)
    <3>1. Ancestors[q] = Up(current)
      BY <2>2, <2>5, AboveAnEntry
    <3>2. Within(q, current) /\ Within(current, Top)
      BY <1>2, <3>1 DEF Within, Up, Hand
    <3> QED BY <2>2, <2>5, <3>1, <3>2, WithinIsTransitive
  <2>6. ASSUME NEW n \in 1..N PROVE Within(work'[n].path, Top)
    <3>1. CASE n \in 1..L
      BY <1>2, <2>1, <3>1 DEF Stack, L
    <3>2. CASE n = L + 1
      BY <1>2, <2>1, <3>2 DEF Hand
    <3>3. CASE n \in L + 2..N
      <4>1. PICK q \in C : work'[n] = [path |-> q, guard |-> FALSE]
        BY <2>1, <3>3
      <4> QED BY <2>5, <4>1
    <3> QED BY <2>4, <3>1, <3>2, <3>3
  <2>7. ASSUME NEW m \in 1..N, NEW n \in 1..N, m < n, work'[m].guard
        PROVE  work'[m].path \in Ancestors[work'[n].path]
    <3>1. ASSUME m \in L + 2..N PROVE FALSE
      <4>1. PICK q \in C : work'[m] = [path |-> q, guard |-> FALSE]
        BY <2>1, <3>1
      <4> QED BY <2>7, <4>1
    <3>2. CASE n \in 1..L
      <4>1. m \in 1..L
        BY <2>1, <2>7, <3>2
      <4> QED BY <1>2, <2>1, <2>7, <3>2, <4>1 DEF Stack, L
    <3>3. CASE n = L + 1
      <4>1. m \in 1..L
        BY <2>1, <2>7, <3>3
      <4> QED BY <1>2, <2>1, <2>7, <3>3, <4>1 DEF Hand, L
    <3>4. CASE n \in L + 2..N
      <4>1. PICK q \in C : work'[n] = [path |-> q, guard |-> FALSE]
        BY <2>1, <3>4
      <4>2. work'[m].path \in Up(current)
        <5>1. CASE m \in 1..L
          BY <1>2, <2>1, <2>7, <5>1 DEF Hand, L, Up
        <5>2. CASE m = L + 1
          BY <2>1, <5>2 DEF Up
        <5> QED BY <2>4, <3>1, <5>1, <5>2
      <4> QED BY <2>5, <4>1, <4>2
    <3> QED BY <2>4, <3>2, <3>3, <3>4
  <2>8. ASSUME NEW n \in 1..N, ~ work'[n].guard
        PROVE  Safe(work'[n].path, n, open', work', Top)
    <3>1. CASE n \in 1..L
      <4>1. Safe(work[n].path, n, open, work, Top)
        BY <1>2, <2>1, <2>8, <3>1 DEF Stack, L
      <4>2. work[n].path \in Paths /\ n \in Nat /\ \A m \in 1..n - 1 : work'[m] = work[m]
        BY <2>1, <2>3, <3>1
      <4> QED BY <1>5, <2>1, <3>1, <4>1, <4>2, SafeKept
    <3>2. CASE n = L + 1
      BY <2>1, <2>8, <3>2
    <3>3. CASE n \in L + 2..N
      <4>1. PICK q \in C : work'[n] = [path |-> q, guard |-> FALSE]
        BY <2>1, <3>3
      <4>2. Safe(current, L + 1, open, work, Top) /\ current \in open
        BY <1>1, <1>2 DEF Hand, L
      <4>3. n \in Nat /\ L + 1 \in Nat /\ L + 1 <= n /\ L + 1 \in 1..n - 1
            /\ \A m \in 1..L + 1 - 1 : work'[m] = work[m]
        BY <2>1, <3>3
      <4>4. Safe(current, n, open', work', Top)
        <5> DEFINE k == L + 1
        <5>1. k \in Nat /\ k <= n /\ n \in Nat
          BY <2>1, <4>3
        <5>4. ASSUME NEW m \in 1..k - 1 PROVE work'[m] = work[m]
          <6>1. m \in 1..L
            BY <2>1
          <6> QED BY <2>1, <6>1
        <5>2. Safe(current, k, open, work, Top)
          BY <4>2
        <5> HIDE DEF k
        <5>3. Safe(current, n, open, work', Top)
          BY <1>2, <5>1, <5>2, <5>4, SafeKept
        <5> QED BY <1>5, <5>3
      <4>5. work'[L + 1].guard /\ work'[L + 1].path = current
        BY <2>1
      <4>6. q \in Paths /\ Parent[q] = current /\ Parent[q] # q
        BY <2>2, <4>1
      <4>7. Safe(q, n, open', work', Top)
        BY <1>5, <4>2, <4>3, <4>4, <4>5, <4>6, SafeBelow
      <4> QED BY <4>1, <4>7
    <3> QED BY <2>4, <3>1, <3>2, <3>3
  <2>9. Stack'
    BY <1>2, <2>6, <2>7, <2>8 DEF Stack, N
  <2> QED BY <1>1, <1>3, <2>9 DEF Guards, AtDirectory
<1> QED BY <1>1, <1>4, <1>5

\* Others replace nothing that is guarded.
LEMMA ReplaceGuards ==
    ASSUME TypeOK, Guards, NEW p \in Paths, Replace(p)
    PROVE  Guards'
<1>1. /\ \A q \in Paths \ {p} : kind'[q] = kind[q]
      /\ p \notin open /\ open \subseteq Paths
      /\ UNCHANGED <<pc, valid, source, work, open, current, entries, children, followed>>
  BY TypeParts, ReplaceKeeps DEF selection, scan, harvest, ScanOK
<1>2. Sound'
  BY <1>1 DEF Guards, Sound
<1> QED BY <1>1, <1>2 DEF Guards, Stack, Hand, Top, Scanning, AtDirectory

\* No step opens a way through a reparse point.
LEMMA NextGuards == TypeOK /\ TypeOK' /\ Phases /\ Guards /\ [Next]_vars => Guards'
<1> SUFFICES ASSUME TypeOK, TypeOK', Phases, Guards, [Next]_vars PROVE Guards'
  OBVIOUS
<1>1. CASE Refuse
  BY <1>1, GuardsAtRest DEF Refuse, At, disk, scan, harvest
<1>2. CASE Validate
  BY <1>2, GuardsAtRest DEF Validate, disk, scan, harvest
<1>3. CASE Merge
  BY <1>3, GuardsAtRest DEF Merge, At, disk, scan, harvest
<1>4. CASE FileSource
  <2>1. pc' \in {"sources", "limit"} /\ UNCHANGED <<kind, open>>
    BY <1>4 DEF FileSource, Take, Candidate, At, disk, scan
  <2>2. followed' = followed
    BY <1>4 DEF FileSource, Candidate, harvest, FailAt
  <2> QED BY <2>1, <2>2, GuardsAtRest
<1>5. CASE Scanned
  BY <1>5, GuardsAtRest DEF Scanned, At, disk, harvest
<1>6. CASE BeginImport \/ Initialized \/ ImportFile \/ Finish \/ Fail
  <2>1. pc' \in {"initializing", "importing", "completed", "failed"} /\ UNCHANGED <<disk, scan, harvest>>
    BY <1>6 DEF BeginImport, Initialized, ImportFile, Finish, Fail, At
  <2> QED BY <2>1, GuardsAtRest DEF disk, scan, harvest
<1>7. CASE Cancel
  BY <1>7, GuardsAtRest DEF Cancel, At, disk, harvest
<1>8. CASE UNCHANGED vars
  BY <1>8 DEF vars, disk, selection, scan, harvest, Guards, Sound, Stack, Hand, Top, Scanning,
              AtDirectory
<1> QED
  BY <1>1, <1>2, <1>3, <1>4, <1>5, <1>6, <1>7, <1>8, DirectorySourceGuards, CloseGuardGuards,
     InspectGuards, LockGuards, ListGuards, EntryGuards, DescendGuards, ReplaceGuards DEF Next

--------------------------------------------------------------------------------
(* The candidates and the counters *)


\* Nothing is counted at first.
LEMMA InitCounted == Init => Counted
<1> SUFFICES ASSUME Init PROVE Counted
  OBVIOUS
<1>1. found = <<>> /\ next = 1 /\ tally = NoCounts
  BY DEF Init
<1>2. Len(found) = 0 /\ 1..Len(found) = {} /\ 1..next - 1 = {}
  BY <1>1
<1>3. {i \in 1..next - 1 : found[i] \in Supported} = {}
  BY <1>2
<1>4. Cardinality({i \in 1..next - 1 : found[i] \in Supported}) = 0
  BY <1>3, FS_EmptySet
<1>5. \A c \in Counters : tally[c] = 0
  BY <1>1 DEF NoCounts
<1>6. /\ tally["processed"] = 0 /\ tally["succeeded"] = 0 /\ tally["failed"] = 0 /\ tally["new"] = 0
      /\ tally["duplicate"] = 0 /\ tally["added"] = 0 /\ tally["refreshed"] = 0
  BY <1>5 DEF Counters
<1> QED BY <1>1, <1>2, <1>4, <1>6 DEF Counted

\* A step that leaves the candidates and the counters alone.
LEMMA CountedKept ==
    ASSUME Counted, UNCHANGED <<found, tally, next>>
    PROVE  Counted'
  BY DEF Counted

\* A new candidate is none of those that were there, and does not concern the import.
LEMMA CandidateCounted ==
    ASSUME HarvestOK, ImportOK, Counted, UNCHANGED import,
           NEW p \in Paths, NEW trusted, NEW place, Candidate(p, trusted, place)
    PROVE  Counted'
<1>1. UNCHANGED <<tally, next>>
  BY DEF import
<1>2. CASE found' = found
  BY <1>1, <1>2, CountedKept
<1>3. CASE p \notin ToSet(found) /\ found' = Append(found, p)
  <2>1. Len(found) \in Nat /\ next \in Nat /\ next <= Len(found) + 1
    BY LenProperties DEF HarvestOK, ImportOK, Counted
  <2>2. /\ Len(found') = Len(found) + 1 /\ found'[Len(found) + 1] = p
        /\ \A i \in 1..Len(found) : found'[i] = found[i]
    BY <1>3, AppendProperties DEF HarvestOK
  <2>3. \A i \in 1..Len(found) : found[i] # p
    BY <1>3 DEF ToSet
  <2>4. \A m, n \in 1..Len(found') : found'[m] = found'[n] => m = n
    <3> SUFFICES ASSUME NEW m \in 1..Len(found) + 1, NEW n \in 1..Len(found) + 1, found'[m] = found'[n]
                 PROVE  m = n
      BY <2>2
    <3>1. m \in 1..Len(found) \/ m = Len(found) + 1
      BY <2>1
    <3>2. n \in 1..Len(found) \/ n = Len(found) + 1
      BY <2>1
    <3> QED BY <2>2, <2>3, <3>1, <3>2 DEF Counted
  <2>5. \A i \in 1..next - 1 : i \in 1..Len(found)
    BY <2>1
  <2>6. {i \in 1..next - 1 : found'[i] \in Supported} = {i \in 1..next - 1 : found[i] \in Supported}
    BY <2>2, <2>5
  <2>7. next <= Len(found') + 1
    BY <2>1, <2>2
  <2> QED BY <1>1, <2>4, <2>6, <2>7 DEF Counted
<1> QED BY <1>2, <1>3 DEF Candidate, FailAt, harvest

\* A file whose turn comes is counted once, with what became of it.
LEMMA ImportCounted ==
    ASSUME HarvestOK, ImportOK, Counted, ImportFile
    PROVE  Counted'
<1> DEFINE D == {i \in 1..next - 1 : found[i] \in Supported}
           E == {i \in 1..next' - 1 : found'[i] \in Supported}
<1>1. next \in Nat \ {0} /\ next <= Len(found) /\ Len(found) \in Nat /\ next' = next + 1
      /\ found' = found
  BY LenProperties DEF ImportFile, ImportOK, HarvestOK, harvest
<1>2. IsFiniteSet(D) /\ next \notin D
  <2>1. next - 1 \in Int
    BY <1>1
  <2>2. IsFiniteSet(1..next - 1)
    BY <2>1, FS_Interval
  <2> QED BY <1>1, <2>2, FS_Subset
<1>3. E = IF found[next] \in Supported THEN D \union {next} ELSE D
  BY <1>1
<1>4. tally["processed"] = Cardinality(D) /\ Cardinality(D) \in Nat
  BY <1>2, FS_CardinalityType DEF Counted
<1>5. Cardinality(E) = IF found[next] \in Supported THEN Cardinality(D) + 1 ELSE Cardinality(D)
  BY <1>2, <1>3, FS_AddElement
<1> HIDE DEF D, E
<1>6. \A c \in Counters : tally[c] \in Nat
  BY DEF ImportOK
<1>7. /\ tally["processed"] \in Nat /\ tally["succeeded"] \in Nat /\ tally["failed"] \in Nat
      /\ tally["new"] \in Nat /\ tally["duplicate"] \in Nat
      /\ tally["added"] \in Nat /\ tally["refreshed"] \in Nat
  BY <1>6 DEF Counters
<1> DEFINE Sums == /\ tally'["processed"] = Cardinality(E)
                   /\ tally'["processed"] = tally'["succeeded"] + tally'["failed"]
                   /\ tally'["succeeded"] = tally'["new"] + tally'["duplicate"]
                   /\ tally'["succeeded"] = tally'["added"] + tally'["refreshed"]
<1>8. Sums
  <2>1. CASE found[next] \in Supported
    <3>1. PICK which \in Outcomes : tally' = Add(which)
      BY <2>1 DEF ImportFile
    <3>2. \A c \in Counters : tally'[c] = IF c \in which THEN tally[c] + 1 ELSE tally[c]
      BY <3>1 DEF Add
    <3>3. CASE which = {"processed", "failed"}
      <4>1. /\ tally'["processed"] = tally["processed"] + 1 /\ tally'["failed"] = tally["failed"] + 1
            /\ \A c \in {"succeeded", "new", "duplicate", "added", "refreshed"} : tally'[c] = tally[c]
        BY <3>2, <3>3 DEF Counters
      <4> QED BY <1>4, <1>5, <1>7, <2>1, <4>1 DEF Counted
    <3>4. ASSUME NEW asset \in {"new", "duplicate"}, NEW record \in {"added", "refreshed"},
                 which = {"processed", "succeeded", asset, record}
          PROVE  Sums
      <4>1. /\ tally'["processed"] = tally["processed"] + 1
            /\ tally'["succeeded"] = tally["succeeded"] + 1
            /\ tally'["failed"] = tally["failed"]
        BY <3>2, <3>4 DEF Counters
      <4>2. \/ tally'["new"] = tally["new"] + 1 /\ tally'["duplicate"] = tally["duplicate"]
            \/ tally'["new"] = tally["new"] /\ tally'["duplicate"] = tally["duplicate"] + 1
        BY <3>2, <3>4 DEF Counters
      <4>3. \/ tally'["added"] = tally["added"] + 1 /\ tally'["refreshed"] = tally["refreshed"]
            \/ tally'["added"] = tally["added"] /\ tally'["refreshed"] = tally["refreshed"] + 1
        BY <3>2, <3>4 DEF Counters
      <4>4. tally'["new"] + tally'["duplicate"] = tally["new"] + tally["duplicate"] + 1
        BY <1>7, <4>2
      <4>5. tally'["added"] + tally'["refreshed"] = tally["added"] + tally["refreshed"] + 1
        BY <1>7, <4>3
      <4>6. tally'["processed"] = Cardinality(E)
        BY <1>4, <1>5, <2>1, <4>1
      <4>7. /\ tally["processed"] = tally["succeeded"] + tally["failed"]
            /\ tally["succeeded"] = tally["new"] + tally["duplicate"]
            /\ tally["succeeded"] = tally["added"] + tally["refreshed"]
        BY DEF Counted
      <4>8. tally'["processed"] = tally'["succeeded"] + tally'["failed"]
        BY <1>7, <4>1, <4>7
      <4> QED BY <4>1, <4>4, <4>5, <4>6, <4>7, <4>8
    <3>5. \/ which = {"processed", "failed"}
          \/ \E asset \in {"new", "duplicate"}, record \in {"added", "refreshed"} :
                which = {"processed", "succeeded", asset, record}
      BY <3>1 DEF Outcomes
    <3> QED BY <3>3, <3>4, <3>5
  <2>2. CASE found[next] \notin Supported
    BY <1>4, <1>5, <2>2 DEF ImportFile, Counted
  <2> QED BY <2>1, <2>2
<1>9. next' <= Len(found') + 1
  BY <1>1
<1> QED BY <1>1, <1>8, <1>9 DEF Counted, E

\* No step loses count.
LEMMA NextCounted == TypeOK /\ Counted /\ [Next]_vars => Counted'
<1> SUFFICES ASSUME TypeOK, Counted, [Next]_vars PROVE Counted'
  OBVIOUS
<1>0. SelectionOK /\ ScanOK /\ HarvestOK /\ ImportOK
  BY TypeParts
<1>1. CASE FileSource
  <2>1. PICK i \in queue : Candidate(valid[i].path, {}, "sources") /\ UNCHANGED import
    BY <1>1 DEF FileSource
  <2>2. valid[i].path \in Paths
    BY <1>0, ValidType
  <2> QED BY <1>0, <2>1, <2>2, CandidateCounted
<1>2. CASE Entry
  <2>1. PICK p \in entries : /\ UNCHANGED import
                             /\ Candidate(p, Trusted(p), "entries") \/ UNCHANGED found
    BY <1>2 DEF Entry, SkipAt, FailAt, harvest
  <2>2. p \in Paths
    BY <1>0 DEF ScanOK
  <2> QED BY <1>0, <2>1, <2>2, CandidateCounted, CountedKept DEF import
<1>3. CASE ImportFile
  BY <1>0, <1>3, ImportCounted
<1>4. CASE \/ Refuse \/ Validate \/ Merge \/ CloseGuard \/ Descend \/ Scanned \/ BeginImport
           \/ Initialized \/ Finish \/ Cancel \/ Fail
  BY <1>4, CountedKept
     DEF Refuse, Validate, Merge, CloseGuard, Descend, Scanned, BeginImport, Initialized, Finish,
         Cancel, Fail, harvest, import
<1>5. CASE DirectorySource \/ Inspect \/ Lock \/ List
  BY <1>5, CountedKept DEF DirectorySource, Inspect, Lock, List, SkipAt, FailAt, harvest, import
<1>6. ASSUME NEW p \in Paths, Replace(p) PROVE Counted'
  BY <1>6, CountedKept DEF Replace, harvest, import
<1>7. CASE UNCHANGED vars
  BY <1>7, CountedKept DEF vars, harvest, import
<1> QED BY <1>1, <1>2, <1>3, <1>4, <1>5, <1>6, <1>7 DEF Next

--------------------------------------------------------------------------------
(* The files in peace *)

\* A file in peace is what it was, and so are the directories above it, none of which is
\* touched: what lstat finds there is what is there.
LEMMA Peace ==
    ASSUME DiskKnown, NEW p \in Plain, InPeace(p), NEW q, Within(p, q)
    PROVE  /\ p \in Paths /\ q \in Paths /\ q \in Up(p) /\ q \notin touched /\ Lstat(q) = kind[q]
           /\ q = p => kind[q] = "file"
           /\ q # p => q \in Ancestors[p] /\ kind[q] \in {"directory", "reparse point"}
<1>1. p \in Paths /\ p \notin touched /\ kind[p] = "file"
  BY TreeAssumption DEF DiskKnown, InPeace, Up
<1>2. ASSUME NEW a \in Ancestors[p]
      PROVE  a \in Paths /\ a \notin touched /\ kind[a] \in {"directory", "reparse point"}
  <2>1. a \in Paths /\ a \notin touched
    BY <1>1, AboveIsLess DEF InPeace, Up
  <2>2. \E c \in Paths : Parent[c] = a
    BY <1>1, BelowIsInAnEntry
  <2>3. a \notin Plain
    BY <2>2, PathsAreNumbers
  <2> QED BY <2>1, <2>3 DEF DiskKnown
<1>3. \A a \in Ancestors[q] : a \in Ancestors[p]
  BY <1>1, AboveIsTransitive DEF Within
<1>4. Lstat(q) = kind[q]
  BY <1>2, <1>3 DEF Lstat, IsDirectory
<1> QED BY <1>1, <1>2, <1>4 DEF Within, Up

\* What has been reached stays so: nothing is taken from the harvest.
LEMMA HarvestGrows ==
    ASSUME HarvestOK, NEW q \in Paths,
           \/ FailAt(q) \/ SkipAt(q) \/ UNCHANGED harvest \/ UNCHANGED <<found, lost>>
           \/ \E trusted, place : Candidate(q, trusted, place)
    PROVE  \A p : Reached(p) => Reached(p)'
<1>1. lost \subseteq lost' /\ (found' = found \/ found' = Append(found, q))
  BY DEF FailAt, SkipAt, Candidate, harvest
<1>2. ToSet(Append(found, q)) = ToSet(found) \union {q}
  BY AppendedSet DEF HarvestOK
<1>3. ToSet(found) \subseteq ToSet(found')
  <2>1. CASE found' = found
    BY <2>1
  <2>2. CASE found' = Append(found, q)
    BY <1>2, <2>2
  <2> QED BY <1>1, <2>1, <2>2
<1> QED BY <1>1, <1>3 DEF Reached

\* Where a failure or a reparse point stops the scan, what is below is given up.
LEMMA GivenUp ==
    ASSUME NEW p, NEW q, FailAt(q) \/ SkipAt(q), Within(p, q)
    PROVE  Reached(p)'
  BY DEF FailAt, SkipAt, Within, Reached, Up

\* A candidate is in, or the limit is reached.
LEMMA CandidateIsIn ==
    ASSUME HarvestOK, NEW p \in Paths, NEW trusted, NEW place, Candidate(p, trusted, place),
           pc' # "limit"
    PROVE  Reached(p)'
<1>1. CASE p \in ToSet(found) /\ UNCHANGED harvest
  BY <1>1 DEF Reached, harvest
<1>2. CASE found' = Append(found, p)
  <2>1. p \in ToSet(found')
    BY <1>2, AppendedSet DEF HarvestOK
  <2> QED BY <2>1 DEF Reached
<1> QED BY <1>1, <1>2 DEF Candidate, At

\* A batch that has its sources and was not stopped, and a file that it cares for.
Active == pc \notin {"validating", "refused", "limit", "cancelled"}
Cared(p) == Reached(p) \/ Ahead(p)

\* A source that is not effective is in one that is: the uppermost one around it.
LEMMA AroundASource ==
    ASSUME SelectionOK, NEW i \in 1..Len(valid)
    PROVE  \E j \in EffectiveSources : Within(valid[i].path, valid[j].path)
<1>1. \A j \in 1..Len(valid) : valid[j].path \in Paths /\ valid[j].path \in Nat
  BY ValidType, PathsAreNumbers
<1>2. CASE Effective(valid[i])
  BY <1>2 DEF EffectiveSources, Within
<1>3. CASE ~ Effective(valid[i])
  <2> DEFINE Around(j) == /\ valid[j].directory /\ valid[j].beyond = valid[i].beyond
                          /\ Within(valid[i].path, valid[j].path)
             D == {valid[j].path : j \in {k \in 1..Len(valid) : Around(k)}}
  <2>1. D \subseteq Nat /\ D # {}
    BY <1>1, <1>3 DEF Effective
  <2>2. PICK d \in D : \A e \in D : d <= e
    <3> HIDE DEF D
    <3> QED BY <2>1, Least
  <2>3. PICK j \in 1..Len(valid) : Around(j) /\ valid[j].path = d
    BY <2>2
  <2>4. ASSUME NEW k \in 1..Len(valid), valid[k].directory, valid[k].path # d,
               valid[k].beyond = valid[j].beyond, Within(d, valid[k].path)
        PROVE  FALSE
    <3>1. Within(valid[i].path, valid[k].path)
      BY <1>1, <2>3, <2>4, WithinIsTransitive
    <3>2. valid[k].path \in D
      BY <2>3, <2>4, <3>1
    <3>3. valid[k].path < d
      BY <1>1, <2>3, <2>4, AboveIsLess DEF Within
    <3>4. d <= valid[k].path
      BY <2>2, <3>2
    <3> QED BY <1>1, <2>3, <3>3, <3>4
  <2>5. Effective(valid[j])
    BY <2>3, <2>4 DEF Effective
  <2> QED BY <2>3, <2>5 DEF EffectiveSources
<1> QED BY <1>2, <1>3

\* Every selected file is in the way of an effective source.
LEMMA MergeCovers ==
    ASSUME TypeOK, Merge
    PROVE  Covered'
<1>1. queue' = EffectiveSources /\ pc' = "sources" /\ valid' = valid
  BY DEF Merge, At
<1>2. SelectionOK /\ \A i \in 1..Len(valid) : valid[i].path \in Paths
  BY TypeParts, ValidType
<1> SUFFICES ASSUME NEW p \in Plain, NEW i \in 1..Len(valid), Within(p, valid[i].path)
             PROVE  Ahead(p)'
  BY <1>1 DEF Covered
<1>3. PICK j \in EffectiveSources : Within(valid[i].path, valid[j].path)
  BY <1>2, AroundASource
<1>4. Within(p, valid[j].path)
  BY <1>3, TreeAssumption, WithinIsTransitive
<1> QED BY <1>1, <1>3, <1>4 DEF Ahead

\* A selected file is what was selected.
LEMMA FileSourceCares ==
    ASSUME TypeOK, DiskKnown, FileSource, NEW p \in Plain, InPeace(p), Cared(p), Active'
    PROVE  Cared(p)'
<1>1. PICK i \in queue :
        /\ pc = "sources" /\ ~ valid[i].directory /\ queue' = queue \ {i} /\ valid' = valid
        /\ Candidate(valid[i].path, {}, "sources")
  BY DEF FileSource, Take
<1>2. HarvestOK /\ i \in 1..Len(valid) /\ valid[i].path \in Paths
  BY TypeParts, ValidType
<1>3. Reached(p) => Reached(p)'
  BY <1>1, <1>2, HarvestGrows
<1>4. ASSUME NEW k \in queue, Within(p, valid[k].path), k # i
      PROVE  Ahead(p)'
  BY <1>1, <1>4 DEF Ahead
<1>5. ASSUME Within(p, valid[i].path)
      PROVE  Reached(p)'
  <2>1. valid[i].path \notin touched /\ (valid[i].path # p => kind[valid[i].path] \in {"directory", "reparse point"})
    BY <1>5, Peace
  <2>2. valid[i].path = p
    BY <1>1, <1>2, <2>1 DEF DiskKnown, IsDirectory
  <2> QED BY <1>1, <1>2, <2>2, CandidateIsIn DEF Active
<1> QED BY <1>1, <1>3, <1>4, <1>5 DEF Cared, Ahead, Scanning

\* A selected directory is put on the stack, or given up.
LEMMA DirectorySourceCares ==
    ASSUME TypeOK, DirectorySource, NEW p \in Plain, Cared(p)
    PROVE  Cared(p)'
<1>1. PICK i \in queue :
        /\ pc = "sources" /\ queue' = queue \ {i} /\ valid' = valid
        /\ \/ /\ work' = <<[path |-> valid[i].path, guard |-> FALSE]>> /\ pc' = "popping"
              /\ UNCHANGED harvest
           \/ SkipAt(valid[i].path)
           \/ FailAt(valid[i].path)
  BY DEF DirectorySource, Take, At
<1>2. HarvestOK /\ valid[i].path \in Paths
  BY TypeParts, ValidType
<1>3. Reached(p) => Reached(p)'
  BY <1>1, <1>2, HarvestGrows
<1>4. ASSUME NEW k \in queue, Within(p, valid[k].path), k # i
      PROVE  Ahead(p)'
  BY <1>1, <1>4 DEF Ahead
<1>5. ASSUME Within(p, valid[i].path)
      PROVE  Cared(p)'
  <2>1. CASE work' = <<[path |-> valid[i].path, guard |-> FALSE]>> /\ pc' = "popping"
    <3>1. Len(work') = 1 /\ work'[1].path = valid[i].path /\ ~ work'[1].guard
      BY <2>1
    <3> QED BY <1>5, <2>1, <3>1 DEF Cared, Ahead, Scanning
  <2>2. CASE SkipAt(valid[i].path) \/ FailAt(valid[i].path)
    BY <1>5, <2>2, GivenUp DEF Cared
  <2> QED BY <1>1, <2>1, <2>2
<1> QED BY <1>1, <1>3, <1>4, <1>5 DEF Cared, Ahead, Scanning

\* A guard that is closed is in the way of nothing.
LEMMA CloseGuardCares ==
    ASSUME TypeOK, CloseGuard, NEW p \in Plain, Cared(p)
    PROVE  Cared(p)'
<1> DEFINE L == Len(work)
<1>1. /\ pc = "popping" /\ pc' = "popping" /\ UNCHANGED <<queue, valid, found, lost>>
      /\ work # <<>> /\ Last(work).guard /\ work' = Front(work)
  BY DEF CloseGuard, Popped, selection, harvest
<1>2. /\ L \in Nat \ {0} /\ work[L].guard
      /\ Len(work') = L - 1 /\ \A n \in 1..L - 1 : work'[n] = work[n]
  BY <1>1, FrontOfWork, TypeParts
<1>3. Reached(p) => Reached(p)'
  BY <1>1 DEF Reached
<1>4. ASSUME NEW n \in 1..L, ~ work[n].guard, Within(p, work[n].path)
      PROVE  Ahead(p)'
  <2>1. n \in 1..L - 1
    BY <1>2, <1>4
  <2> QED BY <1>1, <1>2, <1>4, <2>1 DEF Ahead, Scanning
<1>5. ASSUME NEW k \in queue, Within(p, valid[k].path)
      PROVE  Ahead(p)'
  BY <1>1, <1>5 DEF Ahead
<1> QED BY <1>1, <1>3, <1>4, <1>5 DEF Cared, Ahead

\* A directory on top of the stack is taken in hand, or given up.
LEMMA InspectCares ==
    ASSUME TypeOK, Inspect, NEW p \in Plain, Cared(p)
    PROVE  Cared(p)'
<1> DEFINE L == Len(work)
           d == work[L].path
<1>1. /\ pc = "popping" /\ pc' \in {"popping", "locking"} /\ UNCHANGED <<queue, valid>>
      /\ work # <<>> /\ work' = Front(work)
      /\ \/ pc' = "locking" /\ current' = Last(work).path /\ UNCHANGED harvest
         \/ SkipAt(Last(work).path)
         \/ FailAt(Last(work).path)
  BY DEF Inspect, Popped, At, selection
<1>2. /\ L \in Nat \ {0} /\ Last(work) = work[L] /\ d \in Paths
      /\ Len(work') = L - 1 /\ \A n \in 1..L - 1 : work'[n] = work[n]
  BY <1>1, FrontOfWork, TypeParts DEF Items
<1>3. Reached(p) => Reached(p)'
  BY <1>1, <1>2, HarvestGrows, TypeParts
<1>4. ASSUME NEW n \in 1..L - 1, ~ work[n].guard, Within(p, work[n].path)
      PROVE  Ahead(p)'
  BY <1>1, <1>2, <1>4 DEF Ahead, Scanning
<1>5. ASSUME Within(p, d)
      PROVE  Cared(p)'
  <2>1. CASE pc' = "locking" /\ current' = Last(work).path
    BY <1>2, <1>5, <2>1 DEF Cared, Ahead
  <2>2. CASE SkipAt(Last(work).path) \/ FailAt(Last(work).path)
    BY <1>2, <1>5, <2>2, GivenUp DEF Cared
  <2> QED BY <1>1, <2>1, <2>2
<1>6. ASSUME NEW k \in queue, Within(p, valid[k].path)
      PROVE  Ahead(p)'
  BY <1>1, <1>6 DEF Ahead
<1>7. \A n \in 1..L : n \in 1..L - 1 \/ n = L
  BY <1>2
<1> QED BY <1>1, <1>3, <1>4, <1>5, <1>6, <1>7 DEF Cared, Ahead

\* What was ahead, but not in the directory at hand, is still ahead.
LEMMA StillAhead ==
    ASSUME UNCHANGED <<queue, valid, work>>, AtDirectory, Scanning', NEW p, Ahead(p)
    PROVE  \/ Ahead(p)'
           \/ pc \in {"locking", "listing"} /\ Within(p, current)
           \/ pc = "entries" /\ \E q \in entries \union ToSet(children) : Within(p, q)
  BY DEF Ahead, Scanning

\* A directory that cannot be opened is given up.
LEMMA LockCares ==
    ASSUME TypeOK, Lock, NEW p \in Plain, Cared(p)
    PROVE  Cared(p)'
<1>1. /\ pc = "locking" /\ pc' \in {"listing", "popping"} /\ UNCHANGED <<queue, valid, work, current>>
      /\ \/ pc' = "listing" /\ UNCHANGED harvest
         \/ SkipAt(current)
         \/ FailAt(current)
  BY DEF Lock, At, selection
<1>2. AtDirectory /\ Scanning' /\ HarvestOK /\ current \in Paths
  BY <1>1, TypeParts DEF AtDirectory, Scanning, ScanOK
<1>3. Reached(p) => Reached(p)'
  BY <1>1, <1>2, HarvestGrows
<1>4. ASSUME Within(p, current)
      PROVE  Cared(p)'
  <2>1. CASE pc' = "listing"
    BY <1>1, <1>4, <2>1 DEF Cared, Ahead
  <2>2. CASE SkipAt(current) \/ FailAt(current)
    BY <1>4, <2>2, GivenUp DEF Cared
  <2> QED BY <1>1, <2>1, <2>2
<1> QED BY <1>1, <1>2, <1>3, <1>4, StillAhead DEF Cared

\* The directory at hand has the entry in which the file is.
LEMMA ListCares ==
    ASSUME TypeOK, DiskKnown, List, NEW p \in Plain, InPeace(p), Cared(p)
    PROVE  Cared(p)'
<1>1. /\ pc = "listing" /\ pc' \in {"entries", "popping"} /\ UNCHANGED <<queue, valid, work>>
      /\ \/ /\ pc' = "entries" /\ UNCHANGED harvest
            /\ entries' = {q \in Paths \ {current} : Parent[q] = current /\ Lstat(q) # "none"}
         \/ FailAt(current)
  BY DEF List, At, selection
<1>2. AtDirectory /\ Scanning' /\ HarvestOK /\ current \in Paths
  BY <1>1, TypeParts DEF AtDirectory, Scanning, ScanOK
<1>3. Reached(p) => Reached(p)'
  BY <1>1, <1>2, HarvestGrows
<1>4. ASSUME Within(p, current)
      PROVE  Cared(p)'
  <2>1. CASE /\ pc' = "entries"
             /\ entries' = {q \in Paths \ {current} : Parent[q] = current /\ Lstat(q) # "none"}
    <3>1. /\ current \notin touched /\ p \in Paths /\ (current = p => kind[current] = "file")
          /\ (current # p => current \in Ancestors[p])
      BY <1>4, Peace
    <3>2. current \in Ancestors[p]
      BY <1>1, <3>1 DEF DiskKnown, IsDirectory
    <3>3. PICK q \in Paths \ {current} : Parent[q] = current /\ Within(p, q)
      BY <3>1, <3>2, BelowIsInAnEntry
    <3>4. Lstat(q) # "none"
      BY <3>3, Peace
    <3>5. q \in entries'
      BY <2>1, <3>3, <3>4
    <3> QED BY <2>1, <3>3, <3>5 DEF Cared, Ahead
  <2>2. CASE FailAt(current)
    BY <1>4, <2>2, GivenUp DEF Cared
  <2> QED BY <1>1, <2>1, <2>2
<1> QED BY <1>1, <1>2, <1>3, <1>4, StillAhead DEF Cared

\* An entry is a directory, a candidate, or given up.
LEMMA EntryCares ==
    ASSUME TypeOK, DiskKnown, Entry, NEW p \in Plain, InPeace(p), Cared(p), Active'
    PROVE  Cared(p)'
<1>1. PICK e \in entries :
        /\ pc = "entries" /\ entries' = entries \ {e} /\ UNCHANGED <<queue, valid, work>>
        /\ \/ IsDirectory(Lstat(e)) /\ children' = Append(children, e) /\ pc' = pc /\ UNCHANGED harvest
           \/ SkipAt(e) /\ children' = children /\ pc' = pc
           \/ Lstat(e) = "file" /\ Candidate(e, Trusted(e), "entries") /\ children' = children
           \/ FailAt(e) /\ children' = children /\ pc' = pc
  BY DEF Entry, selection
<1>2. AtDirectory /\ HarvestOK /\ e \in Paths /\ children \in Seq(Paths)
  BY <1>1, TypeParts DEF AtDirectory, ScanOK
<1>3. pc' = "entries"
  BY <1>1 DEF Candidate, At, Active
<1>4. Reached(p) => Reached(p)'
  BY <1>1, <1>2, HarvestGrows
<1>5. ToSet(Append(children, e)) = ToSet(children) \union {e}
  BY <1>2, AppendedSet
<1>6. ToSet(children) \subseteq ToSet(children')
  <2>1. CASE children' = children
    BY <2>1
  <2>2. CASE children' = Append(children, e)
    BY <1>5, <2>2
  <2> QED BY <1>1, <2>1, <2>2
<1>7. ASSUME NEW q \in entries \union ToSet(children), Within(p, q), q # e
      PROVE  Ahead(p)'
  <2>1. q \in entries' \union ToSet(children')
    BY <1>1, <1>6, <1>7
  <2> QED BY <1>3, <1>7, <2>1 DEF Ahead
<1>8. ASSUME Within(p, e)
      PROVE  Cared(p)'
  <2>1. CASE children' = Append(children, e)
    <3>1. e \in ToSet(children')
      BY <1>5, <2>1
    <3> QED BY <1>3, <1>8, <3>1 DEF Cared, Ahead
  <2>2. CASE SkipAt(e) \/ FailAt(e)
    BY <1>8, <2>2, GivenUp DEF Cared
  <2>3. CASE Lstat(e) = "file" /\ Candidate(e, Trusted(e), "entries")
    <3>1. e = p
      BY <1>8, <2>3, Peace
    <3> QED BY <1>2, <1>3, <2>3, <3>1, CandidateIsIn DEF Cared
  <2> QED BY <1>1, <2>1, <2>2, <2>3
<1>9. Scanning'
  BY <1>3 DEF Scanning
<1> QED BY <1>1, <1>2, <1>4, <1>7, <1>8, <1>9, StillAhead DEF Cared

\* The directories found are put on the stack, all of them.
LEMMA DescendCares ==
    ASSUME TypeOK, Descend, NEW p \in Plain, Cared(p)
    PROVE  Cared(p)'
<1>1. /\ pc = "entries" /\ pc' = "popping" /\ entries = {} /\ UNCHANGED <<queue, valid, found, lost>>
      /\ IF children = <<>> THEN work' = work ELSE work' = Pushed
  BY DEF Descend, At, selection, harvest, Pushed, Below
<1>2. /\ Len(work) \in Nat /\ Len(children) \in Nat /\ Len(Pushed) = Len(work) + 1 + Len(children)
      /\ \A n \in 1..Len(work) : Pushed[n] = work[n]
      /\ \A n \in 1..Len(children) :
            Pushed[Len(work) + 1 + (Len(children) - n + 1)] = [path |-> children[n], guard |-> FALSE]
  BY TypeParts, PushedWork
<1>3. Reached(p) => Reached(p)'
  BY <1>1 DEF Reached
<1>4. \A n \in 1..Len(work) : n \in 1..Len(work') /\ work'[n] = work[n]
  <2>1. CASE work' = work
    BY <2>1
  <2>2. CASE work' = Pushed
    BY <1>2, <2>2
  <2> QED BY <1>1, <2>1, <2>2
<1>5. ASSUME NEW n \in 1..Len(work), ~ work[n].guard, Within(p, work[n].path)
      PROVE  Ahead(p)'
  BY <1>1, <1>4, <1>5 DEF Ahead, Scanning
<1>6. ASSUME NEW k \in queue, Within(p, valid[k].path)
      PROVE  Ahead(p)'
  BY <1>1, <1>6 DEF Ahead
<1>7. ASSUME NEW q \in ToSet(children), Within(p, q)
      PROVE  Ahead(p)'
  <2>1. PICK n \in 1..Len(children) : q = children[n]
    BY <1>7, LenProperties, TypeParts DEF ToSet, ScanOK
  <2>2. work' = Pushed
    BY <1>1, <2>1
  <2> DEFINE m == Len(work) + 1 + (Len(children) - n + 1)
  <2>3. m \in 1..Len(work')
    BY <1>2, <2>2
  <2>4. work'[m] = [path |-> q, guard |-> FALSE]
    BY <1>2, <2>1, <2>2
  <2> HIDE DEF m
  <2>5. ~ work'[m].guard /\ work'[m].path = q
    BY <2>4
  <2> QED BY <1>1, <1>7, <2>3, <2>5 DEF Ahead, Scanning
<1> QED BY <1>1, <1>3, <1>5, <1>6, <1>7 DEF Cared, Ahead

\* A scan is over when nothing is on the stack.
LEMMA ScannedCares ==
    ASSUME TypeOK, Scanned, NEW p \in Plain, Cared(p)
    PROVE  Cared(p)'
<1>1. pc = "popping" /\ work = <<>> /\ pc' = "sources" /\ UNCHANGED <<queue, valid, found, lost>>
  BY DEF Scanned, At, selection, harvest
<1>2. 1..Len(work) = {}
  BY <1>1
<1> QED BY <1>1, <1>2 DEF Cared, Reached, Ahead, Scanning

\* When the scan is over nothing is ahead any more.
LEMMA AfterTheScan ==
    ASSUME \/ BeginImport \/ Initialized \/ ImportFile \/ Finish \/ Fail,
           Phases, NEW p, Cared(p)
    PROVE  Cared(p)'
<1>1. /\ UNCHANGED <<found, lost>> /\ pc \in {"sources", "initializing", "importing"}
      /\ pc = "sources" => queue = {}
  BY DEF BeginImport, Initialized, ImportFile, Finish, Fail, harvest
<1>2. queue = {}
  BY <1>1 DEF Phases, ScanIsOver
<1> QED BY <1>1, <1>2 DEF Cared, Reached, Ahead, Scanning

\* No step forgets a file in peace.
LEMMA NextCovered ==
    TypeOK /\ TypeOK' /\ DiskKnown /\ Phases /\ Covered /\ [Next]_vars => Covered'
<1> SUFFICES ASSUME TypeOK, TypeOK', DiskKnown, Phases, Covered, [Next]_vars PROVE Covered'
  OBVIOUS
<1> DEFINE Cares == \A p \in Plain : InPeace(p) /\ Cared(p) /\ Active' => Cared(p)'
<1>1. ASSUME UNCHANGED <<touched, valid>>, Active, Cares PROVE Covered'
  BY <1>1 DEF Covered, Active, Cared, InPeace
<1>2. CASE Refuse \/ Validate
  <2>1. pc' \in {"validating", "refused"}
    BY <1>2 DEF Refuse, Validate, At
  <2> QED BY <2>1 DEF Covered
<1>3. CASE Merge
  BY <1>3, MergeCovers
<1>4. CASE FileSource
  BY <1>1, <1>4, FileSourceCares DEF FileSource, Take, Active, disk
<1>5. CASE DirectorySource
  BY <1>1, <1>5, DirectorySourceCares DEF DirectorySource, Take, Active, disk
<1>6. CASE CloseGuard
  BY <1>1, <1>6, CloseGuardCares DEF CloseGuard, Active, disk, selection
<1>7. CASE Inspect
  BY <1>1, <1>7, InspectCares DEF Inspect, Active, disk, selection
<1>8. CASE Lock
  BY <1>1, <1>8, LockCares DEF Lock, Active, disk, selection
<1>9. CASE List
  BY <1>1, <1>9, ListCares DEF List, Active, disk, selection
<1>10. CASE Entry
  BY <1>1, <1>10, EntryCares DEF Entry, Active, disk, selection
<1>11. CASE Descend
  BY <1>1, <1>11, DescendCares DEF Descend, Active, disk, selection
<1>12. CASE Scanned
  BY <1>1, <1>12, ScannedCares DEF Scanned, Active, disk, selection
<1>13. CASE BeginImport \/ Initialized \/ ImportFile \/ Finish \/ Fail
  BY <1>1, <1>13, AfterTheScan
     DEF BeginImport, Initialized, ImportFile, Finish, Fail, Active, disk, selection
<1>14. CASE Cancel
  BY <1>14 DEF Cancel, At, Covered
<1>15. ASSUME NEW q \in Paths, Replace(q) PROVE Covered'
  <2>1. touched \subseteq touched' /\ UNCHANGED <<pc, selection, scan, harvest>>
    BY <1>15 DEF Replace
  <2>2. \A p : InPeace(p)' => InPeace(p)
    BY <2>1 DEF InPeace
  <2>3. \A p : Cared(p) => Cared(p)'
    BY <2>1 DEF Cared, Reached, Ahead, Scanning, selection, scan, harvest
  <2> QED BY <2>1, <2>2, <2>3 DEF Covered, Cared, selection
<1>16. CASE UNCHANGED vars
  <2>1. \A p : Cared(p) => Cared(p)'
    BY <1>16 DEF Cared, Reached, Ahead, Scanning, vars, selection, scan, harvest
  <2> QED BY <1>16, <2>1 DEF vars, disk, selection, Covered, Cared, InPeace
<1> QED
  BY <1>2, <1>3, <1>4, <1>5, <1>6, <1>7, <1>8, <1>9, <1>10, <1>11, <1>12, <1>13, <1>14, <1>15,
     <1>16 DEF Next

--------------------------------------------------------------------------------
(* The invariant and what follows from it *)

IInv == TypeOK /\ DiskKnown /\ Phases /\ Guards /\ Counted /\ Covered

\* The invariant holds at first,
LEMMA InitIInv == Init => IInv
<1>1. Init => Covered
  BY DEF Init, Covered
<1> QED BY <1>1, InitType, InitDisk, InitGuards, InitCounted DEF IInv

\* and each step keeps it.
LEMMA NextIInv == IInv /\ [Next]_vars => IInv'
<1> SUFFICES ASSUME IInv, [Next]_vars PROVE IInv'
  OBVIOUS
<1>1. TypeOK'
  BY NextType DEF IInv
<1> QED BY <1>1, NextDisk, NextPhases, NextGuards, NextCounted, NextCovered DEF IInv

\* So it always holds.
LEMMA Invariance == Spec => []IInv
BY InitIInv, NextIInv, PTL DEF Spec

\* How many the first n numbers are.
LEMMA UpTo ==
    ASSUME NEW n \in Nat
    PROVE  IsFiniteSet(1..n) /\ Cardinality(1..n) = n
<1>1. 1 \in Int /\ n \in Int
  OBVIOUS
<1>2. IsFiniteSet(1..n) /\ Cardinality(1..n) = IF 1 > n THEN 0 ELSE n - 1 + 1
  BY <1>1, FS_Interval
<1> QED BY <1>2

\* As many different candidates as there are candidates.
LEMMA FoundOnce ==
    ASSUME HarvestOK, Counted
    PROVE  Cardinality(ToSet(found)) = Len(found)
<1>1. Len(found) \in Nat /\ DOMAIN found = 1..Len(found) /\ ToSet(found) = {found[i] : i \in 1..Len(found)}
  BY LenProperties DEF HarvestOK, ToSet
<1>2. found \in [1..Len(found) -> ToSet(found)]
  BY <1>1, LenProperties DEF HarvestOK
<1>3. found \in Surjection(1..Len(found), ToSet(found))
  BY <1>1, <1>2 DEF Surjection
<1>4. found \in Injection(1..Len(found), ToSet(found))
  BY <1>2 DEF Injection, IsInjective, Counted
<1>5. IsFiniteSet(1..Len(found)) /\ Cardinality(1..Len(found)) = Len(found)
  BY <1>1, UpTo
<1> DEFINE I == 1..Len(found)
<1> HIDE DEF I
<1>6. Cardinality(ToSet(found)) = Cardinality(I)
  BY <1>3, <1>4, <1>5, FS_Surjection DEF I
<1> QED BY <1>5, <1>6 DEF I

\* The result of a batch is one that the contract accepts (ImportBatchResult).
LEMMA ResultIsAccepted ==
    ASSUME IInv, pc \in {"limit", "completed", "cancelled", "failed"}
    PROVE  Accepted(Result)
<1> DEFINE All == {i \in 1..Len(found) : found[i] \in Supported}
           Done == {i \in 1..next - 1 : found[i] \in Supported}
<1>1. /\ Len(valid) \in Nat /\ Len(selected) \in Nat /\ Len(selected) + Len(valid) <= MaxSources
      /\ valid # <<>> /\ Len(found) \in Nat /\ next \in Nat /\ next <= Len(found) + 1
      /\ failures \in Nat /\ tally \in [Counters -> Nat]
  <2>1. SelectionOK /\ HarvestOK /\ ImportOK
    BY TypeParts DEF IInv
  <2>2. Len(found) \in Nat
    BY <2>1, LenProperties DEF HarvestOK
  <2>3. valid # <<>> /\ next <= Len(found) + 1
    BY DEF IInv, Phases, Counted
  <2>4. next \in Nat
    BY <2>1, Bounds DEF ImportOK
  <2> QED BY <2>1, <2>2, <2>3, <2>4, ValidType DEF SelectionOK, HarvestOK, ImportOK
<1>2. EffectiveSources # {}
  <2>1. valid \in Seq(Sources)
    BY TypeParts DEF IInv, SelectionOK
  <2>2. Len(valid) # 0
    BY <1>1, <2>1, EmptySeq
  <2>3. 1 \in 1..Len(valid)
    BY <1>1, <2>2
  <2> QED BY <2>3, AroundASource, TypeParts DEF IInv
<1>3. Cardinality(EffectiveSources) <= MaxSources
  <2>1. IsFiniteSet(1..Len(valid)) /\ Cardinality(1..Len(valid)) = Len(valid)
    BY <1>1, UpTo
  <2>2. /\ IsFiniteSet(EffectiveSources)
        /\ Cardinality(EffectiveSources) <= Len(valid)
    BY <2>1, FS_Subset DEF EffectiveSources
  <2> QED BY <1>1, <2>2, Bounds, FS_CardinalityType
<1>4. tally["processed"] <= Cardinality(All)
  <2>1. IsFiniteSet(All)
    <3>1. IsFiniteSet(1..Len(found))
      BY <1>1, UpTo
    <3> QED BY <3>1, FS_Subset
  <2>2. Done \subseteq All
    BY <1>1
  <2> HIDE DEF All
  <2>3. Cardinality(Done) <= Cardinality(All)
    BY <2>1, <2>2, FS_Subset
  <2> QED BY <2>3 DEF IInv, Counted
<1>5. /\ tally["processed"] = tally["succeeded"] + tally["failed"]
      /\ tally["succeeded"] = tally["new"] + tally["duplicate"]
      /\ tally["succeeded"] = tally["added"] + tally["refreshed"]
  BY DEF IInv, Counted
<1>6. tally["failed"] \in Nat /\ MaxDetails \in Nat
  BY <1>1, Bounds DEF Counters
<1>7. /\ AtMost(failures + tally["failed"], MaxDetails) <= failures + tally["failed"]
      /\ AtMost(failures, MaxDetails) <= failures
      /\ AtMost(failures + tally["failed"], MaxDetails) - AtMost(failures, MaxDetails) <= tally["failed"]
      /\ failures + tally["failed"] <= failures + tally["failed"]
  <2> DEFINE f == tally["failed"]
  <2>1. f \in Nat /\ failures \in Nat /\ MaxDetails \in Nat
    BY <1>1, <1>6
  <2> HIDE DEF f
  <2>2. /\ AtMost(failures + f, MaxDetails) <= failures + f
        /\ AtMost(failures, MaxDetails) <= failures
        /\ AtMost(failures + f, MaxDetails) - AtMost(failures, MaxDetails) <= f
        /\ failures + f <= failures + f
    BY <2>1 DEF AtMost
  <2> QED BY <2>2 DEF f
<1> QED BY <1>2, <1>3, <1>4, <1>5, <1>7 DEF Accepted, Result

\* import_sources: the stack of the scan, its guards, the candidates and the counters keep
\* their types, and the limits on sources and files are kept.
THEOREM TypeCorrect == Spec => []TypeOK
<1>1. IInv => TypeOK
  BY DEF IInv
<1> QED BY <1>1, Invariance, PTL

\* _iter_directory_candidates, _append_unique_candidate: no candidate is found behind a
\* reparse point, in whatever tree, and whatever is replaced during the scan.
THEOREM NothingIsFollowed == Spec => []NothingFollowed
<1>1. IInv => NothingFollowed
  BY DEF IInv, Guards, Sound, NothingFollowed
<1> QED BY <1>1, Invariance, PTL

\* _merge_overlapping_sources, _iter_directory_candidates, candidate_keys: each file that is
\* left in peace is found once, or the scan says where it did not go.
THEOREM FilesAreFoundOnce == Spec => []EveryFileOnce
<1>1. ASSUME IInv PROVE EveryFileOnce
  <2>1. Cardinality(ToSet(found)) = Len(found)
    BY <1>1, FoundOnce, TypeParts DEF IInv
  <2>2. ASSUME ScanIsOver, NEW p \in Plain, NEW i \in 1..Len(valid), Within(p, valid[i].path),
               touched \intersect ({p} \union Ancestors[p]) = {}
        PROVE  p \in ToSet(found) \/ lost \intersect ({p} \union Ancestors[p]) # {}
    <3>1. Reached(p) \/ Ahead(p)
      BY <1>1, <2>2 DEF IInv, Covered, ScanIsOver, InPeace, Up
    <3>2. ~ Ahead(p)
      BY <1>1, <2>2 DEF IInv, Phases, ScanIsOver, Ahead, Scanning
    <3> QED BY <3>1, <3>2 DEF Reached, Up
  <2> QED BY <2>1, <2>2 DEF EveryFileOnce
<1> QED BY <1>1, Invariance, PTL

\* import_sources: however a batch ends, no guard stays open, and ImportBatchResult accepts
\* what it has counted.
THEOREM BatchesEndInOrder == Spec => []EndsInOrder
<1>1. ASSUME IInv PROVE EndsInOrder
  <2> SUFFICES ASSUME pc \in {"limit", "completed", "cancelled", "failed"}
               PROVE  open = {} /\ Accepted(Result)
    BY DEF EndsInOrder
  <2>1. open = {}
    BY <1>1 DEF IInv, Phases, Scanning
  <2> QED BY <1>1, <2>1, ResultIsAccepted
<1> QED BY <1>1, Invariance, PTL

================================================================================
