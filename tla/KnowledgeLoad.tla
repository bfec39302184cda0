---------------------------- MODULE KnowledgeLoad ----------------------------
(***************************************************************************)
(* KnowledgeBase::load (src/src/knowledge.cpp): one object that scans a    *)
(* directory tree, reads the entries it finds and publishes a base that    *)
(* can be looked up by id, while the author of the knowledge keeps editing *)
(* the same tree.  Every visit of the file system is a step of its own, so *)
(* an edit may fall between any two of them; load() may be called again on *)
(* the same object.                                                        *)
(*                                                                         *)
(* Two visits of different files that are one step here (the two probes of *)
(* a directory, the two checks of an entry's files) commute with an edit,  *)
(* which changes one path.                                                 *)
(***************************************************************************)
EXTENDS Integers, Sequences, FiniteSets, Reports, StdSort

CONSTANTS
    Dirs,       \* the paths below and including the root, numbered in
                \* pathSortsBefore order
    Root,       \* the knowledge root
    Parent,     \* the directory that holds each other path
    DirName,    \* the id each directory's own name spells (candidateId)
    Ids,        \* entry ids, numbered in string order
    Trees,      \* the trees a run starts from
    Edits,      \* what the author may make of a path
    MaxEdits,   \* bound on the number of edits
    MaxLoads    \* bound on the number of calls of load()

ASSUME PathsAssumption ==
    /\ Dirs \subseteq Nat /\ IsFiniteSet(Dirs) /\ Root \in Dirs
    /\ Parent \in [Dirs \ {Root} -> Dirs]
    /\ \A d \in Dirs \ {Root} : Parent[d] < d
ASSUME IdsAssumption == Ids \subseteq Nat /\ DirName \in [Dirs -> Ids]

(***************************************************************************)
(* The tree.  A path is a directory, a link to one, a dangling link, a     *)
(* plain file, absent, or denied (its status cannot be read); a directory  *)
(* lists, cannot be opened, or fails in the middle of its listing.         *)
(***************************************************************************)
Kinds    == {"absent", "dir", "link", "dangling", "file", "denied"}
Listings == {"ok", "closed", "breaks"}
Files    == {"missing", "denied", "irregular", "regular"}

\* meta.yaml: its file, what parsing and field validation make of its text
\* (unreadable, rejected with a diagnostic, accepted), and what it declares;
\* `clean' is false when an accepted text still earns a warning of its own.
MetaFiles == [file : Files, text : {"unreadable", "rejected", "accepted"},
              id : Ids, related : SUBSET Ids, clean : BOOLEAN]
ContentFiles == [file : Files, text : {"unreadable", "blank", "text"}]

Nodes == [kind : Kinds, listing : Listings,
          meta : MetaFiles, content : ContentFiles]

ASSUME TreesAssumption ==
    /\ Trees \subseteq [Dirs -> Nodes]
    /\ Edits \subseteq Dirs \X Nodes

Severities == {"error", "warning"}
Subjects   == {"root", "list", "inspect", "link", "shallow", "meta",
               "content", "note", "duplicate", "related"}
Diagnostics == [at : Dirs, severity : Severities, about : Subjects]
Entries     == [id : Ids, source_directory : Dirs, related : SUBSET Ids]

VARIABLES
    tree,            \* what is on disk
    edits, loads,    \* edits made and loads begun so far (bounds)
    touched,         \* history: the paths edited since the load began
    pc,              \* where load() is
    directories,     \* the breadth-first queue of directories
    directory_index, \* how many of them have been visited
    children,        \* children of the directory in hand, not yet inspected
    link,            \* the child found to be a link, while its target waits to
                     \* be looked at (the root, which is no child, when none does)
    candidates,      \* directories that look like entries
    pending,         \* candidates not yet looked at
    current,         \* the candidate being loaded by loadEntry
    draft,           \* its metadata, as read
    entries,         \* entries_
    id_lookup,       \* id_lookup_: id -> position in entries_
    report           \* report_

disk  == <<tree, edits, touched>>
scan  == <<directories, directory_index, children, link>>
work  == <<pending, current, draft>>
base  == <<entries, id_lookup>>
vars  == <<disk, loads, pc, scan, candidates, work, base, report>>

EmptyReport == [root_available |-> FALSE, discovered_entries |-> 0,
                loaded_entries |-> 0, skipped_entries |-> 0,
                diagnostics |-> {}]
NoLookup == [id \in {} |-> 0]
Blank == [id |-> DirName[Root], related |-> {}]

-----------------------------------------------------------------------------
(* What the file system answers.                                           *)

\* What a status call on the path answers: its own kind while every ancestor
\* is a directory (or a link to one), a missing path below a missing one, and
\* an error that is not "missing" (ENOTDIR, EACCES) below anything else.
KindOf[d \in Dirs] ==
    IF d = Root THEN tree[Root].kind
    ELSE LET up == KindOf[Parent[d]] IN
         CASE up \in {"dir", "link"}        -> tree[d].kind
           [] up \in {"absent", "dangling"} -> "absent"
           [] OTHER                         -> "denied"

\* ... and on one of the two files of a directory.
FileIn(d, f) == CASE KindOf[d] \in {"dir", "link"}        -> f.file
                  [] KindOf[d] \in {"absent", "dangling"} -> "missing"
                  [] OTHER                                -> "denied"

Children(d) == {c \in Dirs \ {Root} : Parent[c] = d /\ tree[c].kind # "absent"}

\* pathIsPresent: anything but a missing path, an inaccessible one included.
PathIsPresent(d, f) == FileIn(d, f) # "missing"

IsCandidate(d) == \/ PathIsPresent(d, tree[d].meta)
                  \/ PathIsPresent(d, tree[d].content)

\* validateRegularFile: a link is refused, whatever it points to.
IsRegularFile(d, f) == FileIn(d, f) = "regular"

\* readFileByteExact: opening follows a link, so only the text decides.
Opens(d, f) == /\ FileIn(d, f) \in {"irregular", "regular"}
               /\ f.text # "unreadable"

-----------------------------------------------------------------------------
(* Reports.                                                                *)

Diag(d, severity, about) == [at |-> d, severity |-> severity, about |-> about]
Warn(d, about) == {Diag(d, "warning", about)}

AddDiagnostics(r, ds) == [r EXCEPT !.diagnostics = @ \cup ds]

\* Mutants: an early return that forgets the counter, or the diagnostic.
SkipUncounted(r, ds) == AddDiagnostics(r, ds)
SkipSilently(r, ds) == [r EXCEPT !.skipped_entries = @ + 1]

\* Each way of leaving a candidate out says so and counts it.
Skip(r, ds) == [AddDiagnostics(r, ds) EXCEPT !.skipped_entries = @ + 1]

\* components.size() < 2: the root itself or a category directory.
TooShallow(d) == d = Root \/ Parent[d] = Root

\* Mutant: references checked inside the loading loop, before the base is whole.
RelatedSoFar(es, lookup) ==
    {Diag(es[i].source_directory, "warning", "related") :
        i \in {j \in DOMAIN es :
                ~(es[j].related \subseteq {es[k].id : k \in 1..j})}}

RelatedDiagnostics(es, lookup) ==
    {Diag(es[i].source_directory, "warning", "related") :
        i \in {j \in DOMAIN es : ~(es[j].related \subseteq DOMAIN lookup)}}

-----------------------------------------------------------------------------
(* The author.                                                             *)

\* Bound: a call after the first takes the place of an edit.
WithinBounds == loads + edits <= MaxEdits

\* One path changes: a directory comes, goes, opens or closes, or one of its
\* files is written.  The loader reads a file in one step, so no edit falls
\* inside a read.
Edit ==
    /\ edits < MaxEdits /\ WithinBounds
    /\ \E e \in Edits :
        /\ tree[e[1]] # e[2]
        /\ tree' = [tree EXCEPT ![e[1]] = e[2]]
        /\ touched' = touched \cup {e[1]}
    /\ edits' = edits + 1
    /\ UNCHANGED <<loads, pc, scan, candidates, work, base, report>>

-----------------------------------------------------------------------------
(* The scan.                                                               *)

\* Mutants: a load that appends to the entries, or to the report, of the last.
KeepEntries == UNCHANGED entries /\ id_lookup' = NoLookup
KeepReport  == UNCHANGED report

ClearBase   == entries' = <<>> /\ id_lookup' = NoLookup
ClearReport == report' = EmptyReport

\* load() drops whatever an earlier call left.
Begin ==
    /\ pc \in {"idle", "done"} /\ loads < MaxLoads /\ WithinBounds
    /\ loads' = loads + 1
    /\ pc' = "root"
    /\ touched' = {}
    /\ ClearBase /\ ClearReport
    /\ directories' = <<Root>> /\ directory_index' = 0
    /\ children' = {} /\ link' = Root
    /\ candidates' = {} /\ pending' = {} /\ current' = Root /\ draft' = Blank
    /\ UNCHANGED <<tree, edits>>

\* A root that fails ends the load with an error and an empty base.
FailRoot(about) ==
    /\ report' = AddDiagnostics(report, {Diag(Root, "error", about)})
    /\ pc' = "done"

InspectRoot ==
    /\ pc = "root"
    /\ IF KindOf[Root] \in {"dir", "link"}
       THEN pc' = "scan" /\ UNCHANGED report
       ELSE FailRoot("root")
    /\ UNCHANGED <<disk, loads, scan, candidates, work, base>>

Visiting == directories[directory_index + 1]
NextIndex == directory_index + 1
CanVisit == pc = "scan" /\ children = {} /\ directory_index < Len(directories)

ListingOf(d) == IF KindOf[d] \in {"dir", "link"} THEN tree[d].listing ELSE "closed"

\* The directory lists, and its children wait to be inspected.
VisitDirectory ==
    /\ CanVisit
    /\ \/ ListingOf(Visiting) = "ok"
       \/ ListingOf(Visiting) = "breaks" /\ Children(Visiting) = {}
    /\ children' = Children(Visiting)
    /\ directory_index' = NextIndex
    /\ report' = [report EXCEPT !.root_available = @ \/ directory_index = 0]
    /\ UNCHANGED <<disk, loads, pc, directories, link, candidates, work, base>>

\* Mutant: a `continue' that skips the increment.
SameIndex == directory_index

\* `continue' in the for loop.
IndexAfterFailure == NextIndex

\* It cannot be opened: the root's failure is fatal, any other is skipped.
CannotList ==
    /\ CanVisit /\ ListingOf(Visiting) = "closed"
    /\ IF directory_index = 0
       THEN FailRoot("list") /\ UNCHANGED directory_index
       ELSE /\ report' = AddDiagnostics(report, Warn(Visiting, "list"))
            /\ directory_index' = IndexAfterFailure
            /\ UNCHANGED pc
    /\ UNCHANGED <<disk, loads, directories, children, link, candidates, work, base>>

\* The listing fails after it has given some of the children: below the root
\* those are kept.
BreakListing ==
    /\ CanVisit /\ ListingOf(Visiting) = "breaks"
    /\ \E got \in SUBSET Children(Visiting) \ {{}} :
        IF directory_index = 0
        THEN FailRoot("list") /\ UNCHANGED <<directory_index, children>>
        ELSE /\ report' = AddDiagnostics(report, Warn(Visiting, "list"))
             /\ directory_index' = NextIndex
             /\ children' = got
             /\ UNCHANGED pc
    /\ UNCHANGED <<disk, loads, directories, link, candidates, work, base>>

IsLink(c) == KindOf[c] \in {"link", "dangling"}

InspectDiagnostics(c) ==
    IF KindOf[c] \in {"absent", "denied"} THEN Warn(c, "inspect") ELSE {}

\* The children in path order; one may have changed since it was listed.  The
\* first look does not follow a link; for a link there is a second one.
InspectChild ==
    /\ pc = "scan" /\ link = Root
    /\ \E c \in children :
        /\ \A other \in children : c <= other
        /\ IF IsLink(c)
           THEN link' = c /\ UNCHANGED <<children, directories, report>>
           ELSE /\ children' = children \ {c}
                /\ directories' = IF KindOf[c] = "dir" THEN Append(directories, c)
                                                       ELSE directories
                /\ report' = AddDiagnostics(report, InspectDiagnostics(c))
                /\ UNCHANGED link
    /\ UNCHANGED <<disk, loads, pc, directory_index, candidates, work, base>>

\* Mutant: links to directories are passed over without a word.
TargetQuietly(c) == {}

TargetDiagnostics(c) ==
    IF KindOf[c] \in {"dir", "link"} THEN Warn(c, "link") ELSE {}

\* The second look follows the link, if it still is one: whatever leads to a
\* directory by now is reported and not traversed.
FollowLink ==
    /\ pc = "scan" /\ link # Root
    /\ children' = children \ {link}
    /\ link' = Root
    /\ report' = AddDiagnostics(report, TargetDiagnostics(link))
    /\ UNCHANGED <<disk, loads, pc, directories, directory_index, candidates,
                   work, base>>

EndScan ==
    /\ pc = "scan" /\ children = {} /\ directory_index = Len(directories)
    /\ pc' = "probe"
    /\ directory_index' = 0
    /\ UNCHANGED <<disk, loads, directories, children, link, candidates, work, base,
                   report>>

Probe ==
    /\ pc = "probe" /\ directory_index < Len(directories)
    /\ candidates' = IF IsCandidate(Visiting) THEN candidates \cup {Visiting}
                                              ELSE candidates
    /\ directory_index' = NextIndex
    /\ UNCHANGED <<disk, loads, pc, directories, children, link, work, base, report>>

EndProbe ==
    /\ pc = "probe" /\ directory_index = Len(directories)
    /\ pc' = "load"
    /\ pending' = candidates
    /\ report' = [report EXCEPT !.discovered_entries = Cardinality(candidates)]
    /\ UNCHANGED <<disk, loads, scan, candidates, current, draft, base>>

-----------------------------------------------------------------------------
(* The entries, in path order.                                             *)

Last(d) == d \in pending /\ \A other \in pending : other <= d   \* mutant
First(d) == d \in pending /\ \A other \in pending : d <= other

SkipShallow ==
    /\ pc = "load"
    /\ \E d \in pending :
        /\ First(d) /\ TooShallow(d)
        /\ pending' = pending \ {d}
        /\ report' = Skip(report, Warn(d, "shallow"))
    /\ UNCHANGED <<disk, loads, pc, scan, candidates, current, draft, base>>

\* loadEntry checks both files before it gives up on either.
ValidateFiles ==
    /\ pc = "load"
    /\ \E d \in pending :
        /\ First(d) /\ ~TooShallow(d)
        /\ pending' = pending \ {d}
        /\ current' = d
        /\ LET meta_ok == IsRegularFile(d, tree[d].meta)
               content_ok == IsRegularFile(d, tree[d].content)
           IN IF meta_ok /\ content_ok
              THEN pc' = "meta" /\ UNCHANGED report
              ELSE /\ report' = Skip(report,
                        (IF meta_ok THEN {} ELSE Warn(d, "meta")) \cup
                        (IF content_ok THEN {} ELSE Warn(d, "content")))
                   /\ UNCHANGED pc
    /\ UNCHANGED <<disk, loads, scan, candidates, draft, base>>

\* Read, parse and validate meta.yaml as it is now.  A mapping with a name
\* other than the directory's, or with other blemishes, is noted and kept.
ReadMetadata ==
    /\ pc = "meta"
    /\ LET m == tree[current].meta IN
       IF Opens(current, m) /\ m.text = "accepted"
       THEN /\ pc' = "content"
            /\ draft' = [id |-> m.id, related |-> m.related]
            /\ report' = AddDiagnostics(report,
                  IF m.clean /\ m.id = DirName[current] THEN {}
                                                        ELSE Warn(current, "note"))
       ELSE /\ pc' = "load"
            /\ report' = Skip(report, Warn(current, "meta"))
            /\ UNCHANGED draft
    /\ UNCHANGED <<disk, loads, scan, candidates, pending, current, base>>

LoadedIds == {entries[i].id : i \in DOMAIN entries}

Taken(id) == id \in LoadedIds

\* Read content.md, then keep the entry unless its id is taken.
ReadContent ==
    /\ pc = "content"
    /\ pc' = "load"
    /\ LET c == tree[current].content IN
       IF ~(Opens(current, c) /\ c.text = "text")
       THEN report' = Skip(report, Warn(current, "content")) /\ UNCHANGED entries
       ELSE IF Taken(draft.id)
       THEN report' = Skip(report, Warn(current, "duplicate")) /\ UNCHANGED entries
       ELSE /\ entries' = Append(entries, [id |-> draft.id,
                                           source_directory |-> current,
                                           related |-> draft.related])
            /\ UNCHANGED report
    /\ UNCHANGED <<disk, loads, scan, candidates, work, id_lookup>>

-----------------------------------------------------------------------------
(* Publication.                                                            *)

ById(l, r) == l.id < r.id

\* Mutant: positions counted from one, into a vector that counts from zero.
LookupShifted(es) ==
    [id \in {es[i].id : i \in DOMAIN es} |->
        1 + CHOOSE i \in DOMAIN es : es[i].id = id]

\* rebuildLookup: emplace keeps the first position of an id.
LookupOf(es) ==
    [id \in {es[i].id : i \in DOMAIN es} |->
        CHOOSE i \in DOMAIN es :
            es[i].id = id /\ \A j \in DOMAIN es : es[j].id = id => i <= j]

\* Sort, index, count, and only then check the references between entries.
Publish ==
    /\ pc = "load" /\ pending = {}
    /\ \E sorted \in Sortings(entries, ById) :
        /\ entries' = sorted
        /\ id_lookup' = LookupOf(sorted)
        /\ report' = AddDiagnostics(
              [report EXCEPT !.loaded_entries = Len(sorted)],
              RelatedDiagnostics(sorted, LookupOf(sorted)))
    /\ pc' = "done"
    /\ UNCHANGED <<disk, loads, scan, candidates, work>>

-----------------------------------------------------------------------------
Init ==
    /\ tree \in Trees
    /\ edits = 0 /\ loads = 0 /\ touched = {}
    /\ pc = "idle"
    /\ directories = <<>> /\ directory_index = 0
    /\ children = {} /\ link = Root
    /\ candidates = {} /\ pending = {} /\ current = Root /\ draft = Blank
    /\ entries = <<>> /\ id_lookup = NoLookup
    /\ report = EmptyReport

Load == \/ InspectRoot \/ VisitDirectory \/ CannotList \/ BreakListing
        \/ InspectChild \/ FollowLink \/ EndScan \/ Probe \/ EndProbe
        \/ SkipShallow \/ ValidateFiles \/ ReadMetadata \/ ReadContent
        \/ Publish

Next == Begin \/ Load \/ Edit

\* load() runs to its return once called; nobody has to call it or to edit.
Spec == Init /\ [][Next]_vars /\ WF_vars(Load)

-----------------------------------------------------------------------------
(* What load() promises.                                                   *)

\* The variables have the types of their C++ counterparts.
TypeOK ==
    /\ tree \in [Dirs -> Nodes] /\ edits \in Nat /\ loads \in Nat
    /\ touched \subseteq Dirs
    /\ pc \in {"idle", "root", "scan", "probe", "load", "meta", "content", "done"}
    /\ directories \in Seq(Dirs) /\ directory_index \in 0..Len(directories)
    /\ children \subseteq Dirs /\ link \in Dirs /\ candidates \subseteq Dirs
    /\ pending \subseteq candidates /\ current \in Dirs
    /\ draft \in [id : Ids, related : SUBSET Ids]
    /\ entries \in Seq(Entries)
    /\ DOMAIN id_lookup \subseteq Ids
    /\ \A id \in DOMAIN id_lookup : id_lookup[id] \in DOMAIN entries
    /\ report \in [root_available : BOOLEAN, discovered_entries : Nat,
                   loaded_entries : Nat, skipped_entries : Nat,
                   diagnostics : SUBSET Diagnostics]

Returned == pc = "done"
Sources == {entries[i].source_directory : i \in DOMAIN entries}
Complaints(d) == {x.about : x \in {y \in report.diagnostics : y.at = d}}

\* The report can be relied on whatever the author does meanwhile: each
\* discovered entry is loaded or skipped, once, the loaded ones are those in
\* the base, and a report with a skipped entry or without a root has
\* diagnostics.  The exit code of validate looks only at the diagnostics, its
\* rendered status at the counters as well.
ReportIsHonest ==
    Returned => HonestLoad(report) /\ report.loaded_entries = Len(entries)

\* No entry disappears silently: a candidate that is not in the base has a
\* diagnostic of its own that says why.
SkipsAreDiagnosed ==
    Returned => \A d \in candidates \ Sources :
        Complaints(d) \cap {"shallow", "meta", "content", "duplicate"} # {}

\* findById answers for exactly the loaded ids, with the entry of that id:
\* the positions in id_lookup_ are those after the sort, and ids are unique.
LookupExact ==
    Returned => /\ DOMAIN id_lookup = LoadedIds
                /\ \A id \in LoadedIds : entries[id_lookup[id]].id = id
                /\ \A i, j \in DOMAIN entries : i < j => entries[i].id < entries[j].id

\* A load fails as a whole or not at all: without a root there is an error
\* and an empty base; with one, nothing is an error.
AvailabilityIsErrorFree ==
    Returned => LET errors == {x \in report.diagnostics : x.severity = "error"} IN
                IF report.root_available
                THEN errors = {}
                ELSE errors # {} /\ entries = <<>> /\ report.discovered_entries = 0

\* Related ids are judged against the whole base: one that names any loaded
\* entry, earlier or later in the order, is not reported, any other one is.
RelatedJudgedOnWholeBase ==
    Returned => \A i \in DOMAIN entries :
        ("related" \in Complaints(entries[i].source_directory))
            <=> ~(entries[i].related \subseteq LoadedIds)

\* The path was not edited during the load, nor anything above it.
Untouched[d \in Dirs] ==
    d \notin touched /\ (d = Root \/ Untouched[Parent[d]])

\* The scan reaches the directory: it and all above it are real directories
\* that list (the root may be a link).
Reachable[d \in Dirs] ==
    IF d = Root THEN tree[d].kind \in {"dir", "link"}
    ELSE /\ tree[d].kind = "dir" /\ tree[Parent[d]].listing = "ok"
         /\ Reachable[Parent[d]]

WellFormed(d) ==
    /\ ~TooShallow(d)
    /\ tree[d].meta.file = "regular" /\ tree[d].meta.text = "accepted"
    /\ tree[d].content.file = "regular" /\ tree[d].content.text = "text"

\* Edits and defects elsewhere never cost a good entry: one that is reachable,
\* well formed and left alone during the load is in the base, unless another
\* entry with its id comes before it in path order; and an entry left alone
\* that is not well formed is not in the base.
GoodEntriesSurvive ==
    Returned /\ report.root_available =>
        \A d \in {c \in Dirs : Untouched[c] /\ Reachable[c]} :
            /\ WellFormed(d) => \E i \in DOMAIN entries :
                    /\ entries[i].id = tree[d].meta.id
                    /\ entries[i].source_directory <= d
            /\ d \in Sources => WellFormed(d)

\* A report without a diagnostic means that nothing was left out: every
\* directory left alone that holds one of the two files is in the base.
CleanReportIsComplete ==
    Returned /\ ~HasIssues(report) =>
        \A d \in Dirs :
            Untouched[d] /\ KindOf[d] = "dir" /\ IsCandidate(d) => d \in Sources

\* load() returns, even while the author keeps editing.
LoadReturns == (pc = "root") ~> Returned

=============================================================================
