------------------------ MODULE KnowledgeLoad_proofs ------------------------
(***************************************************************************)
(* What holds of every load, for every tree, every set of edits and any    *)
(* number of loads: the type invariant, the honesty of the report, its     *)
(* severities, the lookup by id, what becomes of good entries, and the     *)
(* references between entries.                                             *)
(***************************************************************************)
EXTENDS KnowledgeLoad, FiniteSetTheorems, SequenceTheorems,
        WellFoundedInduction, TLAPS

-----------------------------------------------------------------------------
(* Helpers.                                                                *)

Permutes(s, t) ==
    \E p \in [DOMAIN s -> DOMAIN s] :
        /\ \A i, j \in DOMAIN s : i # j => p[i] # p[j]
        /\ \A j \in DOMAIN s : \E i \in DOMAIN s : p[i] = j
        /\ \A i \in DOMAIN s : t[i] = s[p[i]]

\* A sorted vector has the elements of the original, moved by a permutation
\* of the positions, and no element comes after one with a larger id.
LEMMA SortingProperties ==
    ASSUME NEW S, NEW s \in Seq(S), NEW t \in Sortings(s, ById)
    PROVE  /\ t \in Seq(S) /\ Len(t) = Len(s) /\ DOMAIN t = DOMAIN s
           /\ \A i, j \in DOMAIN t : i < j => ~(t[j].id < t[i].id)
           /\ Permutes(s, t)
<1>1. PICK p \in Injections(DOMAIN s) : t = [i \in DOMAIN s |-> s[p[i]]]
    BY DEF Sortings
<1>2. /\ p \in [DOMAIN s -> DOMAIN s]
      /\ \A i, j \in DOMAIN s : i # j => p[i] # p[j]
    BY <1>1 DEF Injections
<1>3. /\ Len(s) \in Nat /\ DOMAIN s = 1..Len(s)
      /\ s \in [1..Len(s) -> S]
    BY LenProperties
<1>4. /\ DOMAIN t = 1..Len(s)
      /\ \A i \in 1..Len(s) : t[i] = s[p[i]] /\ t[i] \in S
    BY <1>1, <1>2, <1>3
<1>5. t \in Seq(S) /\ Len(t) = Len(s)
  <2>1. t \in [1..Len(s) -> S]
      BY <1>1, <1>2, <1>3
  <2> QED
      BY <2>1, <1>3
<1>6. \A j \in DOMAIN s : \E i \in DOMAIN s : p[i] = j
  <2>1. p \in Injection(DOMAIN s, DOMAIN s)
      BY <1>2 DEF Injection, IsInjective
  <2>2. IsFiniteSet(DOMAIN s)
      BY <1>3, FS_Interval
  <2>3. p \in Surjection(DOMAIN s, DOMAIN s)
      BY <2>1, <2>2, FS_Injection
  <2> QED
      BY <2>3 DEF Surjection
<1>7. \A i, j \in DOMAIN t : i < j => ~(t[j].id < t[i].id)
    BY <1>1, <1>4, <1>3 DEF Sortings, ById
<1>8. Permutes(s, t)
    BY <1>2, <1>3, <1>4, <1>6 DEF Permutes
<1> QED
    BY <1>3, <1>4, <1>5, <1>7, <1>8

\* The least-number principle.
LEMMA SmallestMember ==
    ASSUME NEW S \in SUBSET Nat, S # {}
    PROVE  \E m \in S : \A n \in S : m <= n
<1> DEFINE R == OpToRel(<, Nat)
<1>1. IsWellFoundedOn(R, Nat)
    BY NatLessThanWellFounded
<1>2. \E m \in S : \A n \in S : <<n, m>> \notin R
    BY <1>1, WFMin
<1>3. \A m, n \in S : <<n, m>> \notin R => m <= n
    BY DEF OpToRel
<1> QED
    BY <1>2, <1>3

-----------------------------------------------------------------------------
(* Types.                                                                  *)

ReportType ==
    [root_available : BOOLEAN, discovered_entries : Nat,
     loaded_entries : Nat, skipped_entries : Nat,
     diagnostics : SUBSET Diagnostics]

\* What the inspections say of a directory is a diagnostic of that directory.
LEMMA WarnType ==
    ASSUME NEW d \in Dirs, NEW about \in Subjects
    PROVE  Warn(d, about) \subseteq Diagnostics
BY DEF Warn, Diag, Diagnostics, Severities

\* Adding diagnostics, or skipping an entry, makes a report of a report.
LEMMA AddDiagnosticsType ==
    ASSUME NEW r \in ReportType, NEW ds \in SUBSET Diagnostics
    PROVE  /\ AddDiagnostics(r, ds) \in ReportType
           /\ Skip(r, ds) \in ReportType
<1>1. AddDiagnostics(r, ds) \in ReportType
    BY DEF AddDiagnostics, ReportType
<1>2. Skip(r, ds) \in ReportType
    BY <1>1 DEF Skip, ReportType
<1> QED
    BY <1>1, <1>2

\* The lookup built from a base (rebuildLookup) has exactly its ids, and each
\* leads to a position that holds it.
LEMMA LookupOfType ==
    ASSUME NEW es \in Seq(Entries)
    PROVE  /\ DOMAIN LookupOf(es) = {es[i].id : i \in DOMAIN es}
           /\ DOMAIN LookupOf(es) \subseteq Ids
           /\ \A id \in DOMAIN LookupOf(es) :
                LookupOf(es)[id] \in DOMAIN es /\ es[LookupOf(es)[id]].id = id
<1>1. DOMAIN es = 1..Len(es) /\ Len(es) \in Nat /\ \A i \in DOMAIN es : es[i] \in Entries
    BY LenProperties, ElementOfSeq
<1>2. DOMAIN LookupOf(es) = {es[i].id : i \in DOMAIN es}
    BY DEF LookupOf
<1>3. DOMAIN LookupOf(es) \subseteq Ids
    BY <1>1, <1>2 DEF Entries
<1>4. ASSUME NEW id \in DOMAIN LookupOf(es)
      PROVE  LookupOf(es)[id] \in DOMAIN es /\ es[LookupOf(es)[id]].id = id
  <2> DEFINE Positions == {i \in DOMAIN es : es[i].id = id}
  <2>1. Positions # {} /\ Positions \subseteq Nat
      BY <1>1, <1>2
  <2>2. \E i \in Positions : \A j \in Positions : i <= j
      BY <2>1, SmallestMember
  <2>3. \E i \in DOMAIN es :
            es[i].id = id /\ \A j \in DOMAIN es : es[j].id = id => i <= j
      BY <2>2
  <2>4. LookupOf(es)[id] = CHOOSE i \in DOMAIN es :
            es[i].id = id /\ \A j \in DOMAIN es : es[j].id = id => i <= j
      BY <1>2 DEF LookupOf
  <2> QED
      BY <2>3, <2>4
<1> QED
    BY <1>2, <1>3, <1>4

\* The metadata read from a tree and the entry made of it.
LEMMA TreeTypes ==
    ASSUME TypeOK
    PROVE  /\ report \in ReportType
           /\ \A d \in Dirs : tree[d].meta \in MetaFiles
           /\ entries \in Seq(Entries) /\ Len(entries) \in Nat
           /\ DOMAIN entries = 1..Len(entries)
<1>1. entries \in Seq(Entries) /\ report \in ReportType
    BY DEF TypeOK, ReportType
<1>2. \A d \in Dirs : tree[d].meta \in MetaFiles
    BY DEF TypeOK, Nodes
<1> QED
    BY <1>1, <1>2, LenProperties

\* A step of the scan leaves every variable in its type.
LEMMA ScanType ==
    ASSUME TypeOK
    PROVE  /\ InspectRoot => TypeOK'
           /\ VisitDirectory => TypeOK'
           /\ CannotList => TypeOK'
           /\ BreakListing => TypeOK'
           /\ InspectChild => TypeOK'
           /\ FollowLink => TypeOK'
           /\ EndScan => TypeOK'
           /\ Probe => TypeOK'
           /\ EndProbe => TypeOK'
<1> USE PathsAssumption DEF disk, scan, work, base
<1>0. report \in ReportType
    BY TreeTypes
<1>a. ASSUME NEW about \in Subjects, FailRoot(about)
      PROVE  report' \in ReportType /\ pc' = "done"
  <2>1. {Diag(Root, "error", about)} \subseteq Diagnostics
      BY DEF Diag, Diagnostics, Severities
  <2> QED
      BY <1>0, <1>a, <2>1, AddDiagnosticsType DEF FailRoot
<1>b. ASSUME CanVisit
      PROVE  /\ Visiting \in Dirs /\ NextIndex \in 0..Len(directories)
             /\ AddDiagnostics(report, Warn(Visiting, "list")) \in ReportType
  <2>1. Visiting \in Dirs /\ NextIndex \in 0..Len(directories)
      BY <1>b, ElementOfSeq, LenProperties DEF TypeOK, CanVisit, Visiting, NextIndex
  <2> QED
      BY <1>0, <2>1, WarnType, AddDiagnosticsType DEF Subjects
<1>1. ASSUME InspectRoot PROVE TypeOK'
  <2>1. report' \in ReportType /\ pc' \in {"scan", "done"}
      BY <1>0, <1>1, <1>a DEF InspectRoot, Subjects
  <2> QED
      BY <1>1, <2>1 DEF InspectRoot, TypeOK, ReportType
<1>2. ASSUME VisitDirectory PROVE TypeOK'
  <2>1. report' \in ReportType
      BY <1>0, <1>2 DEF VisitDirectory, ReportType
  <2>2. children' \subseteq Dirs /\ directory_index' \in 0..Len(directories)
      BY <1>2, <1>b DEF VisitDirectory, Children
  <2> QED
      BY <1>2, <2>1, <2>2 DEF VisitDirectory, TypeOK, ReportType
<1>3. ASSUME CannotList PROVE TypeOK'
  <2>1. /\ report' \in ReportType /\ pc' \in {pc, "done"}
        /\ directory_index' \in 0..Len(directories)
      BY <1>0, <1>3, <1>a, <1>b DEF CannotList, IndexAfterFailure, Subjects, TypeOK
  <2> QED
      BY <1>3, <2>1 DEF CannotList, TypeOK, ReportType
<1>4. ASSUME BreakListing PROVE TypeOK'
  <2>1. /\ report' \in ReportType /\ pc' \in {pc, "done"}
        /\ directory_index' \in 0..Len(directories) /\ children' \subseteq Dirs
      BY <1>0, <1>4, <1>a, <1>b DEF BreakListing, Subjects, TypeOK, Children
  <2> QED
      BY <1>4, <2>1 DEF BreakListing, TypeOK, ReportType
<1>5. ASSUME InspectChild PROVE TypeOK'
  <2>1. PICK c \in children :
            IF IsLink(c)
            THEN link' = c /\ UNCHANGED <<children, directories, report>>
            ELSE /\ children' = children \ {c}
                 /\ directories' = IF KindOf[c] = "dir" THEN Append(directories, c)
                                                        ELSE directories
                 /\ report' = AddDiagnostics(report, InspectDiagnostics(c))
                 /\ UNCHANGED link
      BY <1>5 DEF InspectChild
  <2>2. c \in Dirs
      BY <2>1 DEF TypeOK
  <2>3. CASE IsLink(c)
      BY <1>5, <2>1, <2>2, <2>3 DEF InspectChild, TypeOK
  <2>4. CASE ~IsLink(c)
    <3>1. InspectDiagnostics(c) \subseteq Diagnostics
        BY <2>2, WarnType DEF InspectDiagnostics, Subjects
    <3>2. report' \in ReportType
        BY <1>0, <2>1, <2>4, <3>1, AddDiagnosticsType
    <3>3. /\ directories' \in Seq(Dirs) /\ Len(directories) \in Nat
          /\ Len(directories') \in {Len(directories), Len(directories) + 1}
      <4>1. directories' \in {directories, Append(directories, c)}
          BY <2>1, <2>4, Zenon
      <4>2. directories \in Seq(Dirs) /\ Len(directories) \in Nat
          BY LenProperties DEF TypeOK
      <4>3. /\ Append(directories, c) \in Seq(Dirs)
            /\ Len(Append(directories, c)) = Len(directories) + 1
          BY <2>2, <4>2, AppendProperties
      <4> QED
          BY <4>1, <4>2, <4>3
    <3>4. directory_index' \in 0..Len(directories')
        BY <1>5, <3>3 DEF InspectChild, TypeOK
    <3>5. children' \subseteq Dirs /\ link' \in Dirs
        BY <2>1, <2>4 DEF TypeOK
    <3>6. UNCHANGED <<tree, edits, touched, loads, pc, candidates, pending, current,
                      draft, entries, id_lookup>>
        BY <1>5 DEF InspectChild
    <3> QED
        BY <3>2, <3>3, <3>4, <3>5, <3>6 DEF TypeOK, ReportType
  <2> QED
      BY <2>3, <2>4
<1>9. ASSUME FollowLink PROVE TypeOK'
  <2>1. TargetDiagnostics(link) \subseteq Diagnostics
      BY WarnType DEF TargetDiagnostics, TypeOK, Subjects
  <2>2. report' \in ReportType
      BY <1>0, <1>9, <2>1, AddDiagnosticsType DEF FollowLink
  <2> QED
      BY <1>9, <2>2 DEF FollowLink, TypeOK, ReportType
<1>6. ASSUME EndScan PROVE TypeOK'
    BY <1>6, LenProperties DEF EndScan, TypeOK
<1>7. ASSUME Probe PROVE TypeOK'
  <2>1. Visiting \in Dirs /\ NextIndex \in 0..Len(directories)
      BY <1>7, ElementOfSeq, LenProperties DEF TypeOK, Probe, Visiting, NextIndex
  <2> QED
      BY <1>7, <2>1 DEF Probe, TypeOK
<1>8. ASSUME EndProbe PROVE TypeOK'
  <2>1. IsFiniteSet(candidates)
      BY FS_Subset DEF TypeOK
  <2>2. Cardinality(candidates) \in Nat
      BY <2>1, FS_CardinalityType
  <2>3. report' \in ReportType
      BY <1>0, <1>8, <2>2 DEF EndProbe, ReportType
  <2> QED
      BY <1>8, <2>3 DEF EndProbe, TypeOK, ReportType
<1> QED
    BY <1>1, <1>2, <1>3, <1>4, <1>5, <1>6, <1>7, <1>8, <1>9

\* Neither does a step that loads an entry.
LEMMA EntryType ==
    ASSUME TypeOK
    PROVE  /\ SkipShallow => TypeOK'
           /\ ValidateFiles => TypeOK'
           /\ ReadMetadata => TypeOK'
           /\ ReadContent => TypeOK'
<1> USE DEF disk, scan, work, base
<1>0. report \in ReportType /\ current \in Dirs
    BY TreeTypes DEF TypeOK
<1>1. ASSUME SkipShallow PROVE TypeOK'
  <2>1. PICK d \in pending : /\ pending' = pending \ {d}
                             /\ report' = Skip(report, Warn(d, "shallow"))
      BY <1>1 DEF SkipShallow
  <2>2. report' \in ReportType
      BY <1>0, <2>1, WarnType, AddDiagnosticsType DEF TypeOK, Subjects
  <2> QED
      BY <1>1, <2>1, <2>2 DEF SkipShallow, TypeOK, ReportType
<1>2. ASSUME ValidateFiles PROVE TypeOK'
  <2>1. PICK d \in pending :
            /\ pending' = pending \ {d} /\ current' = d
            /\ \/ pc' = "meta" /\ UNCHANGED report
               \/ /\ pc' = pc
                  /\ \E ds \in SUBSET (Warn(d, "meta") \cup Warn(d, "content")) :
                        report' = Skip(report, ds)
      BY <1>2 DEF ValidateFiles
  <2>2. d \in Dirs /\ Warn(d, "meta") \cup Warn(d, "content") \subseteq Diagnostics
      BY <2>1, WarnType DEF TypeOK, Subjects
  <2>3. report' \in ReportType
      BY <1>0, <2>1, <2>2, AddDiagnosticsType
  <2> QED
      BY <1>2, <2>1, <2>2, <2>3 DEF ValidateFiles, TypeOK, ReportType
<1>3. ASSUME ReadMetadata PROVE TypeOK'
  <2> DEFINE m == tree[current].meta
  <2>1. m \in MetaFiles
      BY <1>0, TreeTypes
  <2>2. [id |-> m.id, related |-> m.related] \in [id : Ids, related : SUBSET Ids]
      BY <2>1 DEF MetaFiles
  <2>3. /\ {} \subseteq Diagnostics
        /\ Warn(current, "note") \subseteq Diagnostics
        /\ Warn(current, "meta") \subseteq Diagnostics
      BY <1>0, WarnType DEF Subjects
  <2>4. /\ report' \in ReportType /\ pc' \in {"content", "load"}
        /\ draft' \in [id : Ids, related : SUBSET Ids]
      BY <1>0, <1>3, <2>2, <2>3, AddDiagnosticsType DEF ReadMetadata, TypeOK
  <2> QED
      BY <1>3, <2>4 DEF ReadMetadata, TypeOK, ReportType
<1>4. ASSUME ReadContent PROVE TypeOK'
  <2> DEFINE new == [id |-> draft.id, source_directory |-> current,
                     related |-> draft.related]
  <2>1. new \in Entries
      BY <1>0 DEF Entries, TypeOK
  <2>2. \/ entries' = Append(entries, new) /\ UNCHANGED report
        \/ /\ UNCHANGED entries
           /\ report' \in {Skip(report, Warn(current, "content")),
                           Skip(report, Warn(current, "duplicate"))}
      BY <1>4 DEF ReadContent
  <2>3. report' \in ReportType
      BY <1>0, <2>2, WarnType, AddDiagnosticsType DEF Subjects
  <2>4. entries' \in Seq(Entries) /\ DOMAIN entries \subseteq DOMAIN entries'
    <3>1. CASE UNCHANGED entries
        BY <3>1 DEF TypeOK
    <3>2. CASE entries' = Append(entries, new)
      <4>1. Append(entries, new) \in Seq(Entries)
            /\ Len(Append(entries, new)) = Len(entries) + 1
          BY <2>1, TreeTypes
      <4> QED
          BY <4>1, <3>2, TreeTypes, LenProperties
    <3> QED
        BY <2>2, <3>1, <3>2
  <2> QED
      BY <1>4, <2>3, <2>4 DEF ReadContent, TypeOK, ReportType
<1> QED
    BY <1>1, <1>2, <1>3, <1>4

\* What the reference check says of an entry is a diagnostic of its directory.
LEMMA RelatedDiagnosticsType ==
    ASSUME NEW es \in Seq(Entries), NEW lookup
    PROVE  RelatedDiagnostics(es, lookup) \subseteq Diagnostics
<1>1. DOMAIN es = 1..Len(es) /\ \A i \in DOMAIN es : es[i] \in Entries
    BY LenProperties, ElementOfSeq
<1>2. \A i \in DOMAIN es : es[i].source_directory \in Dirs
    BY <1>1 DEF Entries
<1> QED
    BY <1>2 DEF RelatedDiagnostics, Diag, Diagnostics, Severities, Subjects

\* Nor does the publication of the base.
LEMMA PublishType ==
    ASSUME TypeOK, Publish
    PROVE  TypeOK'
<1>1. PICK sorted \in Sortings(entries, ById) :
        /\ entries' = sorted
        /\ id_lookup' = LookupOf(sorted)
        /\ report' = AddDiagnostics([report EXCEPT !.loaded_entries = Len(sorted)],
                                    RelatedDiagnostics(sorted, LookupOf(sorted)))
    BY DEF Publish
<1>2. sorted \in Seq(Entries)
    BY TreeTypes, SortingProperties
<1>3. [report EXCEPT !.loaded_entries = Len(sorted)] \in ReportType
  <2>1. Len(sorted) \in Nat /\ report \in ReportType
      BY <1>2, LenProperties, TreeTypes
  <2> QED
      BY <2>1 DEF ReportType
<1>4. report' \in ReportType
    BY <1>1, <1>2, <1>3, RelatedDiagnosticsType, AddDiagnosticsType
<1>5. DOMAIN id_lookup' \subseteq Ids
      /\ \A id \in DOMAIN id_lookup' : id_lookup'[id] \in DOMAIN entries'
    BY <1>1, <1>2, LookupOfType
<1> QED
    BY <1>1, <1>2, <1>4, <1>5 DEF Publish, TypeOK, ReportType, disk, scan, work

\* The values that a load starts from have their types.
LEMMA BlankType ==
    /\ Blank \in [id : Ids, related : SUBSET Ids]
    /\ DOMAIN NoLookup = {}
    /\ EmptyReport \in ReportType
BY PathsAssumption, IdsAssumption DEF Blank, NoLookup, EmptyReport, ReportType

\* A new call of load() starts from well-typed values.
LEMMA BeginType ==
    ASSUME TypeOK, Begin
    PROVE  TypeOK'
<1>1. <<Root>> \in Seq(Dirs) /\ Len(<<Root>>) = 1
    BY PathsAssumption
<1>2. entries' = <<>> /\ id_lookup' = NoLookup /\ report' = EmptyReport
    BY DEF Begin, ClearBase, ClearReport
<1>3. <<>> \in Seq(Entries)
    BY EmptySeq
<1> QED
    BY <1>1, <1>2, <1>3, BlankType, PathsAssumption DEF Begin, TypeOK, ReportType

\* The author leaves the tree a tree.
LEMMA EditType ==
    ASSUME TypeOK, Edit
    PROVE  TypeOK'
<1>1. PICK e \in Edits : /\ tree' = [tree EXCEPT ![e[1]] = e[2]]
                         /\ touched' = touched \cup {e[1]}
    BY DEF Edit
<1>2. e[1] \in Dirs /\ e[2] \in Nodes
    BY <1>1, TreesAssumption
<1> QED
    BY <1>1, <1>2 DEF Edit, TypeOK, scan, work, base

\* The variables of the loader keep their types, whatever the author does.
THEOREM TypeCorrectness == Spec => []TypeOK
<1>1. Init => TypeOK
  <2> SUFFICES ASSUME Init PROVE TypeOK
      OBVIOUS
  <2>1. <<>> \in Seq(Dirs) /\ Len(<<>>) = 0 /\ <<>> \in Seq(Entries)
      BY EmptySeq
  <2> QED
      BY <2>1, BlankType, PathsAssumption, TreesAssumption DEF Init, TypeOK, ReportType
<1>2. TypeOK /\ [Next]_vars => TypeOK'
  <2> SUFFICES ASSUME TypeOK, [Next]_vars PROVE TypeOK'
      OBVIOUS
  <2>1. CASE Load
      BY <2>1, ScanType, EntryType, PublishType DEF Load
  <2>2. CASE Begin \/ Edit
      BY <2>2, BeginType, EditType
  <2>3. CASE UNCHANGED vars
      BY <2>3 DEF vars, disk, scan, work, base, TypeOK
  <2> QED
      BY <2>1, <2>2, <2>3 DEF Next
<1> QED
    BY <1>1, <1>2, PTL DEF Spec

-----------------------------------------------------------------------------
(* The inductive invariants.                                               *)

Loading == pc \in {"load", "meta", "content"}
InHand  == IF pc \in {"meta", "content"} THEN {current} ELSE {}

NoCounters(r) == /\ r.discovered_entries = 0
                 /\ r.loaded_entries = 0
                 /\ r.skipped_entries = 0
OnlyWarnings(r) == \A x \in r.diagnostics : x.severity = "warning"

\* The counters of the report, and the availability of the root, at each stage
\* of a load: what is promised on return holds of every early return because
\* it holds, adjusted by what is still to do, of every stage before it.
Accounting ==
    /\ pc \in {"idle", "root", "scan", "probe"} =>
            entries = <<>> /\ NoCounters(report)
    /\ pc = "root" => /\ ~report.root_available
                      /\ directory_index = 0 /\ Len(directories) = 1
    /\ pc = "scan" => /\ Len(directories) >= 1
                      /\ report.root_available <=> directory_index > 0
    /\ pc = "probe" \/ Loading => report.root_available
    /\ Loading => /\ report.loaded_entries = 0
                  /\ report.discovered_entries =
                        Len(entries) + report.skipped_entries
                            + Cardinality(pending) + Cardinality(InHand)
    /\ report.skipped_entries > 0 => report.diagnostics # {}
    /\ pc # "done" => OnlyWarnings(report)
    /\ ReportIsHonest
    /\ AvailabilityIsErrorFree

\* No two entries share an id, and the lookup is empty until it is rebuilt.
Distinct(es) == \A i, j \in DOMAIN es : i # j => es[i].id # es[j].id
Indexing ==
    /\ Distinct(entries)
    /\ pc \in {"idle", "root", "scan", "probe"} => entries = <<>>
    /\ pc # "done" => id_lookup = NoLookup
    /\ LookupExact

\* Every candidate that is neither loaded nor waiting has its diagnostic.
Explained(d) == Complaints(d) \cap {"shallow", "meta", "content", "duplicate"} # {}
Explaining ==
    /\ pc \in {"idle", "root", "scan"} => candidates = {}
    /\ Loading => \A d \in candidates \ (pending \cup InHand \cup Sources) : Explained(d)
    /\ SkipsAreDiagnosed

-----------------------------------------------------------------------------
(* What a report gains.                                                    *)

\* A warning is one diagnostic, about that path, and no error.
LEMMA WarnProperties ==
    ASSUME NEW d, NEW about
    PROVE  /\ Warn(d, about) # {}
           /\ \A x \in Warn(d, about) :
                x.at = d /\ x.severity = "warning" /\ x.about = about
BY DEF Warn, Diag

\* addDiagnostic changes the diagnostics and nothing else.
LEMMA AddDiagnosticsEffect ==
    ASSUME NEW r \in ReportType, NEW ds
    PROVE  /\ AddDiagnostics(r, ds).diagnostics = r.diagnostics \cup ds
           /\ AddDiagnostics(r, ds).root_available = r.root_available
           /\ AddDiagnostics(r, ds).discovered_entries = r.discovered_entries
           /\ AddDiagnostics(r, ds).loaded_entries = r.loaded_entries
           /\ AddDiagnostics(r, ds).skipped_entries = r.skipped_entries
BY DEF AddDiagnostics, ReportType

\* Skipping an entry adds its diagnostics and counts it, and nothing else.
LEMMA SkipEffect ==
    ASSUME NEW r \in ReportType, NEW ds \in SUBSET Diagnostics
    PROVE  /\ Skip(r, ds).diagnostics = r.diagnostics \cup ds
           /\ Skip(r, ds).root_available = r.root_available
           /\ Skip(r, ds).discovered_entries = r.discovered_entries
           /\ Skip(r, ds).loaded_entries = r.loaded_entries
           /\ Skip(r, ds).skipped_entries = r.skipped_entries + 1
<1>1. AddDiagnostics(r, ds) \in ReportType
    BY AddDiagnosticsType
<1> QED
    BY <1>1, AddDiagnosticsEffect DEF Skip, ReportType

\* There are finitely many candidates, and one leaves at a time.
LEMMA PendingFinite ==
    ASSUME TypeOK
    PROVE  /\ IsFiniteSet(candidates) /\ IsFiniteSet(pending)
           /\ Cardinality(candidates) \in Nat /\ Cardinality(pending) \in Nat
           /\ \A d \in pending : Cardinality(pending \ {d}) = Cardinality(pending) - 1
<1>1. candidates \in SUBSET Dirs /\ pending \in SUBSET Dirs
    BY DEF TypeOK
<1>2. IsFiniteSet(candidates) /\ IsFiniteSet(pending)
    BY <1>1, FS_Subset, PathsAssumption
<1> QED
    BY <1>2, FS_CardinalityType, FS_RemoveElement

\* The four ways of setting an entry aside, or taking it up, as changes of the
\* counters: what leaves `pending' or the hands of loadEntry is counted.
LEMMA SkipStep ==
    ASSUME TypeOK
    PROVE  /\ SkipShallow => \E d \in pending, ds \in SUBSET Diagnostics :
                /\ pending' = pending \ {d} /\ ds = Warn(d, "shallow")
                /\ report' = Skip(report, ds)
           /\ ValidateFiles => \E d \in pending :
                /\ pending' = pending \ {d} /\ current' = d
                /\ \/ pc' = "meta" /\ UNCHANGED report
                   \/ pc' = "load" /\ \E ds \in SUBSET Diagnostics :
                        /\ report' = Skip(report, ds)
                        /\ ds # {}
                        /\ ds \subseteq Warn(d, "meta") \cup Warn(d, "content")
           /\ ReadMetadata =>
                \/ pc' = "content" /\ \E ds \in SUBSET Diagnostics :
                        /\ report' = AddDiagnostics(report, ds)
                        /\ ds \subseteq Warn(current, "note")
                \/ pc' = "load" /\ \E ds \in SUBSET Diagnostics :
                        /\ report' = Skip(report, ds)
                        /\ ds = Warn(current, "meta")
           /\ ReadContent =>
                \/ /\ entries' = Append(entries, [id |-> draft.id,
                                                  source_directory |-> current,
                                                  related |-> draft.related])
                   /\ ~Taken(draft.id) /\ UNCHANGED report
                \/ /\ UNCHANGED entries
                   /\ \E ds \in SUBSET Diagnostics :
                        /\ report' = Skip(report, ds)
                        /\ ds \in {Warn(current, "content"), Warn(current, "duplicate")}
<1>1. \A d \in Dirs, about \in Subjects :
        Warn(d, about) # {} /\ Warn(d, about) \in SUBSET Diagnostics
    BY WarnType, WarnProperties
<1>2. pending \subseteq Dirs /\ current \in Dirs
    BY DEF TypeOK
<1>3. {"shallow", "meta", "content", "duplicate", "note"} \subseteq Subjects
    BY DEF Subjects
<1>4. SkipShallow => \E d \in pending, ds \in SUBSET Diagnostics :
                /\ pending' = pending \ {d} /\ ds = Warn(d, "shallow")
                /\ report' = Skip(report, ds)
    BY <1>1, <1>2, <1>3 DEF SkipShallow
<1>5. ASSUME ValidateFiles
      PROVE  \E d \in pending :
                /\ pending' = pending \ {d} /\ current' = d
                /\ \/ pc' = "meta" /\ UNCHANGED report
                   \/ pc' = "load" /\ \E ds \in SUBSET Diagnostics :
                        /\ report' = Skip(report, ds)
                        /\ ds # {}
                        /\ ds \subseteq Warn(d, "meta") \cup Warn(d, "content")
  <2>1. PICK d \in pending :
            /\ pending' = pending \ {d} /\ current' = d
            /\ LET meta_ok == IsRegularFile(d, tree[d].meta)
                   content_ok == IsRegularFile(d, tree[d].content)
               IN IF meta_ok /\ content_ok
                  THEN pc' = "meta" /\ UNCHANGED report
                  ELSE /\ report' = Skip(report,
                            (IF meta_ok THEN {} ELSE Warn(d, "meta")) \cup
                            (IF content_ok THEN {} ELSE Warn(d, "content")))
                       /\ UNCHANGED pc
      BY <1>5 DEF ValidateFiles
  <2> DEFINE ds == (IF IsRegularFile(d, tree[d].meta) THEN {} ELSE Warn(d, "meta")) \cup
                   (IF IsRegularFile(d, tree[d].content) THEN {} ELSE Warn(d, "content"))
  <2>2. d \in Dirs
      BY <1>2
  <2>3. ds \in SUBSET Diagnostics /\ ds \subseteq Warn(d, "meta") \cup Warn(d, "content")
      BY <2>2, <1>1, <1>3
  <2>4. CASE IsRegularFile(d, tree[d].meta) /\ IsRegularFile(d, tree[d].content)
      BY <2>1, <2>4
  <2>5. CASE ~(IsRegularFile(d, tree[d].meta) /\ IsRegularFile(d, tree[d].content))
    <3>1. report' = Skip(report, ds) /\ pc' = "load"
        BY <2>1, <2>5, <1>5 DEF ValidateFiles
    <3>2. ds # {}
        BY <2>5, <2>2, <1>1, <1>3
    <3> HIDE DEF ds
    <3> QED
        BY <3>1, <3>2, <2>1, <2>3
  <2> QED
      BY <2>4, <2>5
<1>6. ASSUME ReadMetadata
      PROVE  \/ pc' = "content" /\ \E ds \in SUBSET Diagnostics :
                        /\ report' = AddDiagnostics(report, ds)
                        /\ ds \subseteq Warn(current, "note")
             \/ pc' = "load" /\ \E ds \in SUBSET Diagnostics :
                        /\ report' = Skip(report, ds)
                        /\ ds = Warn(current, "meta")
    BY <1>6, <1>1, <1>2, <1>3 DEF ReadMetadata
<1>7. ASSUME ReadContent
      PROVE  \/ /\ entries' = Append(entries, [id |-> draft.id,
                                               source_directory |-> current,
                                               related |-> draft.related])
                /\ ~Taken(draft.id) /\ UNCHANGED report
             \/ /\ UNCHANGED entries
                /\ \E ds \in SUBSET Diagnostics :
                     /\ report' = Skip(report, ds)
                     /\ ds \in {Warn(current, "content"), Warn(current, "duplicate")}
    BY <1>7, <1>1, <1>2, <1>3 DEF ReadContent
<1> QED
    BY <1>4, <1>5, <1>6, <1>7

-----------------------------------------------------------------------------
(* The accounting is inductive.                                            *)

\* A root that fails leaves an error, and a report of nothing else.
LEMMA FailRootAccounting ==
    ASSUME TypeOK, Accounting, NEW about \in Subjects,
           FailRoot(about), UNCHANGED entries,
           entries = <<>>, NoCounters(report), ~report.root_available
    PROVE  Accounting'
<1> DEFINE x == Diag(Root, "error", about)
<1>1. /\ report \in ReportType /\ report' = AddDiagnostics(report, {x})
      /\ pc' = "done"
    BY TreeTypes DEF FailRoot
<1>2. x.severity = "error"
    BY DEF Diag
<1> HIDE DEF x
<1>3. /\ report'.diagnostics = report.diagnostics \cup {x}
      /\ report'.root_available = report.root_available
      /\ report'.discovered_entries = report.discovered_entries
      /\ report'.loaded_entries = report.loaded_entries
      /\ report'.skipped_entries = report.skipped_entries
    BY <1>1, AddDiagnosticsEffect
<1>4. ReportIsHonest'
  <2>1. Len(entries') = 0
    OBVIOUS
  <2>2. HonestLoad(report')
      BY <1>3 DEF HonestLoad, HasIssues, NoCounters
  <2> QED
      BY <2>1, <2>2, <1>3 DEF ReportIsHonest, NoCounters
<1>5. AvailabilityIsErrorFree'
    BY <1>1, <1>2, <1>3 DEF AvailabilityIsErrorFree, NoCounters
<1> QED
    BY <1>1, <1>3, <1>4, <1>5 DEF Accounting, Loading, NoCounters

\* The scan keeps the accounts: no entry is counted before EndProbe.
LEMMA AccountingScan ==
    ASSUME TypeOK, Accounting
    PROVE  /\ InspectRoot => Accounting'
           /\ VisitDirectory => Accounting'
           /\ CannotList => Accounting'
           /\ BreakListing => Accounting'
           /\ InspectChild => Accounting'
           /\ FollowLink => Accounting'
           /\ EndScan => Accounting'
           /\ Probe => Accounting'
           /\ EndProbe => Accounting'
<1> USE DEF disk, scan, work, base, Returned, ReportIsHonest, AvailabilityIsErrorFree
<1>0. /\ report \in ReportType
      /\ directory_index \in Nat /\ Len(directories) \in Nat
      /\ NextIndex \in Nat /\ NextIndex > 0
    BY TreeTypes, LenProperties DEF TypeOK, NextIndex
<1>a. ASSUME NEW ds, OnlyWarnings(report), \A x \in ds : x.severity = "warning",
             report' = AddDiagnostics(report, ds)
      PROVE  /\ OnlyWarnings(report')
             /\ report'.root_available = report.root_available
             /\ NoCounters(report) => NoCounters(report')
             /\ report'.skipped_entries = report.skipped_entries
    BY <1>0, <1>a, AddDiagnosticsEffect DEF OnlyWarnings, NoCounters
<1>1. ASSUME InspectRoot PROVE Accounting'
  <2>1. CASE FailRoot("root")
      BY <1>1, <2>1, FailRootAccounting DEF InspectRoot, Accounting, Subjects
  <2>2. CASE pc' = "scan" /\ UNCHANGED report
      BY <1>1, <2>2 DEF InspectRoot, Accounting, Loading
  <2> QED
      BY <1>1, <2>1, <2>2 DEF InspectRoot
<1>2. ASSUME VisitDirectory PROVE Accounting'
  <2>1. /\ report'.diagnostics = report.diagnostics
        /\ report'.root_available <=> report.root_available \/ directory_index = 0
        /\ NoCounters(report) => NoCounters(report')
        /\ report'.skipped_entries = report.skipped_entries
      BY <1>0, <1>2 DEF VisitDirectory, ReportType, NoCounters
  <2> QED
      BY <1>0, <1>2, <2>1 DEF VisitDirectory, CanVisit, Accounting, Loading, OnlyWarnings
<1>3. ASSUME CannotList PROVE Accounting'
  <2>1. CASE FailRoot("list") /\ directory_index = 0
      BY <1>3, <2>1, FailRootAccounting DEF CannotList, CanVisit, Accounting, Subjects
  <2>2. CASE /\ directory_index # 0 /\ directory_index' = NextIndex /\ UNCHANGED pc
             /\ report' = AddDiagnostics(report, Warn(Visiting, "list"))
    <3>1. \A x \in Warn(Visiting, "list") : x.severity = "warning"
        BY WarnProperties
    <3> QED
        BY <1>0, <1>3, <1>a, <2>2, <3>1 DEF CannotList, CanVisit, Accounting, Loading, NoCounters
  <2> QED
      BY <1>3, <2>1, <2>2 DEF CannotList, IndexAfterFailure
<1>4. ASSUME BreakListing PROVE Accounting'
  <2>1. CASE FailRoot("list") /\ directory_index = 0
      BY <1>4, <2>1, FailRootAccounting DEF BreakListing, CanVisit, Accounting, Subjects
  <2>2. CASE /\ directory_index # 0 /\ directory_index' = NextIndex /\ UNCHANGED pc
             /\ report' = AddDiagnostics(report, Warn(Visiting, "list"))
    <3>1. \A x \in Warn(Visiting, "list") : x.severity = "warning"
        BY WarnProperties
    <3> QED
        BY <1>0, <1>4, <1>a, <2>2, <3>1 DEF BreakListing, CanVisit, Accounting, Loading, NoCounters
  <2> QED
      BY <1>4, <2>1, <2>2 DEF BreakListing
<1>5. ASSUME InspectChild PROVE Accounting'
  <2>1. PICK c \in children :
            IF IsLink(c)
            THEN UNCHANGED <<directories, report>>
            ELSE /\ directories' = IF KindOf[c] = "dir" THEN Append(directories, c)
                                                        ELSE directories
                 /\ report' = AddDiagnostics(report, InspectDiagnostics(c))
      BY <1>5 DEF InspectChild
  <2>2. \A x \in InspectDiagnostics(c) : x.severity = "warning"
      BY WarnProperties DEF InspectDiagnostics
  <2>3. Len(directories') >= Len(directories)
      BY <1>0, <2>1 DEF TypeOK
  <2>4. CASE IsLink(c)
      BY <1>0, <1>5, <2>1, <2>4 DEF InspectChild, Accounting, Loading, NoCounters
  <2>5. CASE ~IsLink(c)
      BY <1>0, <1>5, <1>a, <2>1, <2>2, <2>3, <2>5
      DEF InspectChild, Accounting, Loading, NoCounters
  <2> QED
      BY <2>4, <2>5
<1>9. ASSUME FollowLink PROVE Accounting'
  <2>1. \A x \in TargetDiagnostics(link) : x.severity = "warning"
      BY WarnProperties DEF TargetDiagnostics
  <2> QED
      BY <1>0, <1>9, <1>a, <2>1 DEF FollowLink, Accounting, Loading, NoCounters
<1>6. ASSUME EndScan PROVE Accounting'
    BY <1>0, <1>6 DEF EndScan, Accounting, Loading
<1>7. ASSUME Probe PROVE Accounting'
    BY <1>7 DEF Probe, Accounting, Loading
<1>8. ASSUME EndProbe PROVE Accounting'
  <2>1. /\ report'.diagnostics = report.diagnostics
        /\ report'.root_available = report.root_available
        /\ report'.discovered_entries = Cardinality(candidates)
        /\ report'.loaded_entries = report.loaded_entries
        /\ report'.skipped_entries = report.skipped_entries
      BY <1>0, <1>8 DEF EndProbe, ReportType
  <2>2. Cardinality(InHand') = 0
      BY <1>8, FS_EmptySet DEF EndProbe, InHand
  <2>3. Len(entries) = 0 /\ Cardinality(candidates) \in Nat
      BY <1>8, PendingFinite, EmptySeq DEF EndProbe, Accounting
  <2> QED
      BY <1>8, <2>1, <2>2, <2>3 DEF EndProbe, Accounting, Loading, NoCounters, OnlyWarnings
<1> QED
    BY <1>1, <1>2, <1>3, <1>4, <1>5, <1>6, <1>7, <1>8, <1>9

\* Loading an entry keeps the balance: what leaves pending and the hands of
\* loadEntry is loaded or skipped.
LEMMA AccountingEntries ==
    ASSUME TypeOK, Accounting
    PROVE  /\ SkipShallow => Accounting'
           /\ ValidateFiles => Accounting'
           /\ ReadMetadata => Accounting'
           /\ ReadContent => Accounting'
<1> USE DEF disk, scan, work, base
<1>0. /\ report \in ReportType /\ Len(entries) \in Nat
      /\ report.skipped_entries \in Nat
      /\ Cardinality(pending) \in Nat
    BY TreeTypes, PendingFinite DEF ReportType
<1>1. /\ pc \in {"meta", "content"} => Cardinality(InHand) = 1
      /\ pc \notin {"meta", "content"} => Cardinality(InHand) = 0
      /\ pc' \in {"meta", "content"} => Cardinality(InHand') = 1
      /\ pc' \notin {"meta", "content"} => Cardinality(InHand') = 0
    BY FS_EmptySet, FS_Singleton DEF InHand
<1>a. ASSUME Loading, pc' = "load",
             Len(entries) + Cardinality(pending) + Cardinality(InHand)
                = Len(entries') + Cardinality(pending') + Cardinality(InHand') + 1,
             Len(entries') \in Nat, Cardinality(pending') \in Nat,
             \E ds \in SUBSET Diagnostics :
                /\ report' = Skip(report, ds) /\ ds # {}
                /\ \A x \in ds : x.severity = "warning"
      PROVE  Accounting'
  <2>1. PICK ds \in SUBSET Diagnostics :
            /\ report' = Skip(report, ds) /\ ds # {}
            /\ \A x \in ds : x.severity = "warning"
      BY <1>a
  <2>2. /\ report'.diagnostics = report.diagnostics \cup ds
        /\ report'.root_available = report.root_available
        /\ report'.discovered_entries = report.discovered_entries
        /\ report'.loaded_entries = report.loaded_entries
        /\ report'.skipped_entries = report.skipped_entries + 1
      BY <1>0, <2>1, SkipEffect
  <2>3. report'.discovered_entries = Len(entries') + report'.skipped_entries
            + Cardinality(pending') + Cardinality(InHand')
      BY <1>0, <1>1, <1>a, <2>2 DEF Accounting, Loading
  <2>4. OnlyWarnings(report')
      BY <1>a, <2>1, <2>2 DEF Accounting, OnlyWarnings, Loading
  <2> QED
      BY <1>a, <2>1, <2>2, <2>3, <2>4
      DEF Accounting, Loading, Returned, ReportIsHonest, AvailabilityIsErrorFree
<1>2. ASSUME SkipShallow PROVE Accounting'
  <2>1. PICK d \in pending : /\ pending' = pending \ {d}
                             /\ report' = Skip(report, Warn(d, "shallow"))
                             /\ Warn(d, "shallow") \in SUBSET Diagnostics
      BY <1>2, SkipStep
  <2>2. Cardinality(pending') = Cardinality(pending) - 1
      BY <2>1, PendingFinite
  <2>3. pc = "load" /\ pc' = "load" /\ entries' = entries
      BY <1>2 DEF SkipShallow
  <2>4. Cardinality(pending') \in Nat
      BY <2>1, PendingFinite, FS_RemoveElement, FS_CardinalityType
  <2> QED
      BY <1>0, <1>1, <1>a, <2>1, <2>2, <2>3, <2>4, WarnProperties DEF Loading
<1>3. ASSUME ValidateFiles PROVE Accounting'
  <2>1. PICK d \in pending :
            /\ pending' = pending \ {d}
            /\ \/ pc' = "meta" /\ UNCHANGED report
               \/ pc' = "load" /\ \E ds \in SUBSET Diagnostics :
                    /\ report' = Skip(report, ds)
                    /\ ds # {}
                    /\ ds \subseteq Warn(d, "meta") \cup Warn(d, "content")
      BY <1>3, SkipStep
  <2>2. Cardinality(pending') = Cardinality(pending) - 1
      BY <2>1, PendingFinite
  <2>3. pc = "load" /\ entries' = entries
      BY <1>3 DEF ValidateFiles
  <2>4. Cardinality(pending') \in Nat
      BY <2>1, PendingFinite, FS_RemoveElement, FS_CardinalityType
  <2>5. CASE pc' = "meta" /\ UNCHANGED report
      BY <1>0, <1>1, <2>2, <2>3, <2>4, <2>5
      DEF Accounting, Loading, Returned, ReportIsHonest, AvailabilityIsErrorFree
  <2>6. CASE pc' = "load"
      BY <1>0, <1>1, <1>a, <2>1, <2>2, <2>3, <2>4, <2>6, WarnProperties DEF Loading
  <2> QED
      BY <2>1, <2>5, <2>6
<1>4. ASSUME ReadMetadata PROVE Accounting'
  <2>1. pc = "meta" /\ entries' = entries /\ pending' = pending
      BY <1>4 DEF ReadMetadata
  <2>2. CASE pc' = "load"
      BY <1>0, <1>1, <1>4, <1>a, <2>1, <2>2, SkipStep, WarnProperties DEF Loading
  <2>3. CASE pc' = "content"
    <3>1. PICK ds \in SUBSET Diagnostics :
            /\ report' = AddDiagnostics(report, ds)
            /\ ds \subseteq Warn(current, "note")
        BY <1>4, <2>3, SkipStep
    <3>2. /\ report'.diagnostics = report.diagnostics \cup ds
          /\ report'.root_available = report.root_available
          /\ report'.discovered_entries = report.discovered_entries
          /\ report'.loaded_entries = report.loaded_entries
          /\ report'.skipped_entries = report.skipped_entries
        BY <1>0, <3>1, AddDiagnosticsEffect
    <3>3. OnlyWarnings(report')
        BY <2>1, <3>1, <3>2, WarnProperties DEF Accounting, OnlyWarnings
    <3> QED
        BY <1>0, <1>1, <2>1, <2>3, <3>2, <3>3
        DEF Accounting, Loading, Returned, ReportIsHonest, AvailabilityIsErrorFree
  <2> QED
      BY <1>4, <2>2, <2>3, SkipStep
<1>5. ASSUME ReadContent PROVE Accounting'
  <2>1. pc = "content" /\ pc' = "load" /\ pending' = pending
      BY <1>5 DEF ReadContent
  <2>2. CASE UNCHANGED report
    <3>1. Len(entries') = Len(entries) + 1
        BY <1>5, <2>2, SkipStep, SkipEffect, TreeTypes, <1>0
    <3> QED
        BY <1>0, <1>1, <2>1, <2>2, <3>1
        DEF Accounting, Loading, Returned, ReportIsHonest, AvailabilityIsErrorFree
  <2>3. CASE ~UNCHANGED report
      BY <1>0, <1>1, <1>5, <1>a, <2>1, <2>3, SkipStep, WarnProperties DEF Loading
  <2> QED
      BY <2>2, <2>3
<1> QED
    BY <1>2, <1>3, <1>4, <1>5

\* The report that Publish leaves.
LEMMA PublishEffect ==
    ASSUME TypeOK, Publish
    PROVE  \E sorted \in Sortings(entries, ById) :
            /\ sorted \in Seq(Entries) /\ Len(sorted) = Len(entries)
            /\ entries' = sorted /\ id_lookup' = LookupOf(sorted)
            /\ report'.diagnostics = report.diagnostics
                    \cup RelatedDiagnostics(sorted, LookupOf(sorted))
            /\ report'.root_available = report.root_available
            /\ report'.discovered_entries = report.discovered_entries
            /\ report'.loaded_entries = Len(sorted)
            /\ report'.skipped_entries = report.skipped_entries
<1>1. PICK sorted \in Sortings(entries, ById) :
        /\ entries' = sorted /\ id_lookup' = LookupOf(sorted)
        /\ report' = AddDiagnostics([report EXCEPT !.loaded_entries = Len(sorted)],
                                    RelatedDiagnostics(sorted, LookupOf(sorted)))
    BY DEF Publish
<1>2. /\ sorted \in Seq(Entries) /\ Len(sorted) = Len(entries)
      /\ Len(sorted) \in Nat /\ report \in ReportType
    BY TreeTypes, SortingProperties
<1> DEFINE counted == [report EXCEPT !.loaded_entries = Len(sorted)]
<1>3. /\ counted \in ReportType
      /\ counted.diagnostics = report.diagnostics
      /\ counted.root_available = report.root_available
      /\ counted.discovered_entries = report.discovered_entries
      /\ counted.loaded_entries = Len(sorted)
      /\ counted.skipped_entries = report.skipped_entries
    BY <1>2 DEF ReportType
<1>4. report' = AddDiagnostics(counted, RelatedDiagnostics(sorted, LookupOf(sorted)))
    BY <1>1
<1> HIDE DEF counted
<1> QED
    BY <1>1, <1>2, <1>3, <1>4, AddDiagnosticsEffect

\* On publication, with nothing pending, the balance is the promise.
LEMMA AccountingPublish ==
    ASSUME TypeOK, Accounting, Publish
    PROVE  Accounting'
<1>1. PICK sorted \in Sortings(entries, ById) :
            /\ sorted \in Seq(Entries) /\ Len(sorted) = Len(entries)
            /\ entries' = sorted
            /\ report'.diagnostics = report.diagnostics
                    \cup RelatedDiagnostics(sorted, LookupOf(sorted))
            /\ report'.root_available = report.root_available
            /\ report'.discovered_entries = report.discovered_entries
            /\ report'.loaded_entries = Len(sorted)
            /\ report'.skipped_entries = report.skipped_entries
    BY PublishEffect
<1>2. /\ pc = "load" /\ pc' = "done" /\ pending = {}
      /\ Cardinality(pending) = 0 /\ Cardinality(InHand) = 0
    BY FS_EmptySet DEF Publish, InHand
<1>3. /\ Len(entries) \in Nat /\ report.skipped_entries \in Nat
    BY TreeTypes DEF ReportType
<1>4. \A x \in RelatedDiagnostics(sorted, LookupOf(sorted)) : x.severity = "warning"
    BY DEF RelatedDiagnostics, Diag
<1>5. ReportIsHonest'
    BY <1>1, <1>2, <1>3 DEF Accounting, Loading, ReportIsHonest, HonestLoad, HasIssues
<1>6. AvailabilityIsErrorFree'
    BY <1>1, <1>2, <1>4 DEF Accounting, Loading, OnlyWarnings, AvailabilityIsErrorFree
<1> QED
    BY <1>1, <1>2, <1>5, <1>6 DEF Accounting, Loading

\* The inductive step: the loader's own steps, a new call, and the author.
LEMMA AccountingStep ==
    ASSUME TypeOK, Accounting, [Next]_vars
    PROVE  Accounting'
<1>1. CASE Load
    BY <1>1, AccountingScan, AccountingEntries, AccountingPublish DEF Load
<1>2. CASE Begin
  <2>1. /\ pc' = "root" /\ entries' = <<>> /\ report' = EmptyReport
        /\ directories' = <<Root>> /\ directory_index' = 0
      BY <1>2 DEF Begin, ClearBase, ClearReport
  <2> QED
      BY <2>1 DEF Accounting, Loading, NoCounters, OnlyWarnings, EmptyReport,
                  Returned, ReportIsHonest, AvailabilityIsErrorFree
<1>3. CASE Edit \/ UNCHANGED vars
  <2>1. /\ UNCHANGED <<pc, directories, directory_index, pending, current>>
        /\ UNCHANGED <<entries, report>>
      BY <1>3 DEF Edit, vars, scan, work, base
  <2> QED
      BY <2>1 DEF Accounting, Loading, InHand, NoCounters, OnlyWarnings,
                  Returned, ReportIsHonest, AvailabilityIsErrorFree
<1> QED
    BY <1>1, <1>2, <1>3 DEF Next

\* The accounts hold at every stage of every load.
THEOREM AccountingHolds == Spec => []Accounting
<1>1. Init => Accounting
    BY DEF Init, Accounting, Loading, NoCounters, OnlyWarnings, EmptyReport,
           Returned, ReportIsHonest, AvailabilityIsErrorFree
<1> QED
    BY <1>1, AccountingStep, TypeCorrectness, PTL DEF Spec

\* Whatever load() returns with, and whatever the author edited meanwhile, the
\* counters of the report agree with each other and with the base, and nothing
\* is left out without a diagnostic.
THEOREM ReportsAreHonest == Spec => []ReportIsHonest
<1>1. Accounting => ReportIsHonest
    BY DEF Accounting
<1> QED
    BY <1>1, AccountingHolds, PTL

\* A load fails as a whole, with an error and an empty base, or has no error.
THEOREM LoadsFailAsAWhole == Spec => []AvailabilityIsErrorFree
<1>1. Accounting => AvailabilityIsErrorFree
    BY DEF Accounting
<1> QED
    BY <1>1, AccountingHolds, PTL

-----------------------------------------------------------------------------
(* The lookup.                                                             *)

\* Sorting distinct ids leaves them in strictly ascending order.
LEMMA SortedStrictly ==
    ASSUME NEW es \in Seq(Entries), Distinct(es), NEW t \in Sortings(es, ById)
    PROVE  \A i, j \in DOMAIN t : i < j => t[i].id < t[j].id
<1>1. /\ t \in Seq(Entries) /\ DOMAIN t = DOMAIN es
      /\ \A i, j \in DOMAIN t : i < j => ~(t[j].id < t[i].id)
      /\ Permutes(es, t)
    BY SortingProperties
<1>2. PICK p \in [DOMAIN es -> DOMAIN es] :
        /\ \A i, j \in DOMAIN es : i # j => p[i] # p[j]
        /\ \A j \in DOMAIN es : \E i \in DOMAIN es : p[i] = j
        /\ \A i \in DOMAIN es : t[i] = es[p[i]]
    BY <1>1 DEF Permutes
<1>3. DOMAIN t = 1..Len(t) /\ \A i \in DOMAIN t : t[i] \in Entries
    BY <1>1, LenProperties, ElementOfSeq
<1>4. \A i \in DOMAIN t : t[i].id \in Nat
    BY <1>3, IdsAssumption DEF Entries
<1>5. Len(t) \in Nat
    BY <1>1, LenProperties
<1>6. \A i, j \in DOMAIN t : i < j => t[i].id # t[j].id
  <2> TAKE i, j \in DOMAIN t
  <2> HAVE i < j
  <2>1. p[i] \in DOMAIN es /\ p[j] \in DOMAIN es /\ p[i] # p[j]
      BY <1>1, <1>2, <1>3, <1>5
  <2>2. es[p[i]].id # es[p[j]].id
      BY <2>1 DEF Distinct
  <2>3. t[i] = es[p[i]] /\ t[j] = es[p[j]]
      BY <1>1, <1>2
  <2> QED
      BY <2>2, <2>3
<1> QED
    BY <1>1, <1>4, <1>6

\* Ids stay distinct, and the lookup of a returned base is its own.
LEMMA IndexingStep ==
    ASSUME TypeOK, Indexing, [Next]_vars
    PROVE  Indexing'
<1> USE DEF disk, scan, work, base, Returned, LookupExact, LoadedIds
<1>0. /\ entries \in Seq(Entries) /\ DOMAIN entries = 1..Len(entries)
      /\ Len(entries) \in Nat
    BY TreeTypes
<1>a. ASSUME UNCHANGED <<entries, id_lookup>>,
             \/ pc' # "done"
             \/ pc' = "done" /\ entries = <<>> /\ id_lookup = NoLookup,
             pc' \in {"idle", "root", "scan", "probe"} => entries = <<>>,
             pc' # "done" => id_lookup = NoLookup
      PROVE  Indexing'
    BY <1>a, BlankType DEF Indexing, Distinct
<1>1. CASE \/ InspectRoot \/ VisitDirectory \/ CannotList \/ BreakListing
           \/ InspectChild \/ FollowLink \/ EndScan \/ Probe \/ EndProbe
    BY <1>1, <1>a DEF InspectRoot, VisitDirectory, CannotList, BreakListing,
        InspectChild, FollowLink, EndScan, Probe, EndProbe, FailRoot, CanVisit, Indexing
<1>2. CASE SkipShallow \/ ValidateFiles \/ ReadMetadata
    BY <1>2, <1>a DEF SkipShallow, ValidateFiles, ReadMetadata, Indexing
<1>3. CASE ReadContent
  <2> DEFINE new == [id |-> draft.id, source_directory |-> current,
                     related |-> draft.related]
  <2>1. CASE UNCHANGED entries
      BY <1>3, <1>a, <2>1 DEF ReadContent, Indexing
  <2>2. CASE entries' = Append(entries, new) /\ ~Taken(draft.id)
    <3>1. new \in Entries
        BY DEF Entries, TypeOK
    <3>2. /\ DOMAIN entries' = 1..(Len(entries) + 1)
          /\ \A i \in DOMAIN entries : entries'[i] = entries[i]
          /\ entries'[Len(entries) + 1] = new
      <4> HIDE DEF new
      <4> QED
          BY <1>0, <2>2, <3>1
    <3>3. \A i \in DOMAIN entries : entries[i].id # new.id
        BY <2>2 DEF Taken
    <3>4. Distinct(entries')
        BY <1>0, <3>2, <3>3 DEF Distinct, Indexing
    <3> QED
        BY <1>3, <3>4 DEF ReadContent, Indexing
  <2> QED
      BY <1>3, <2>1, <2>2, SkipStep
<1>4. CASE Publish
  <2>1. PICK sorted \in Sortings(entries, ById) :
            /\ sorted \in Seq(Entries)
            /\ entries' = sorted /\ id_lookup' = LookupOf(sorted)
      BY <1>4, PublishEffect
  <2>2. \A i, j \in DOMAIN sorted : i < j => sorted[i].id < sorted[j].id
      BY <1>0, SortedStrictly DEF Indexing
  <2>3. /\ DOMAIN sorted = 1..Len(sorted) /\ Len(sorted) \in Nat
        /\ \A i \in DOMAIN sorted : sorted[i].id \in Nat
    <3>1. /\ DOMAIN sorted = 1..Len(sorted) /\ Len(sorted) \in Nat
          /\ \A i \in DOMAIN sorted : sorted[i] \in Entries
        BY <2>1, LenProperties, ElementOfSeq
    <3> QED
        BY <3>1, IdsAssumption DEF Entries
  <2>4. Distinct(sorted)
    <3> SUFFICES ASSUME NEW i \in DOMAIN sorted, NEW j \in DOMAIN sorted, i # j
                 PROVE  sorted[i].id # sorted[j].id
        BY DEF Distinct
    <3>1. i < j \/ j < i
        BY <2>3
    <3> QED
        BY <2>2, <2>3, <3>1
  <2>5. /\ DOMAIN id_lookup' = LoadedIds'
        /\ \A id \in LoadedIds' : entries'[id_lookup'[id]].id = id
    <3>1. LoadedIds' = {sorted[i].id : i \in DOMAIN sorted}
        BY <2>1
    <3>2. /\ DOMAIN LookupOf(sorted) = {sorted[i].id : i \in DOMAIN sorted}
          /\ \A id \in DOMAIN LookupOf(sorted) : sorted[LookupOf(sorted)[id]].id = id
        BY <2>1, LookupOfType
    <3> QED
        BY <2>1, <3>1, <3>2
  <2> QED
      BY <1>4, <2>1, <2>2, <2>4, <2>5 DEF Publish, Indexing
<1>5. CASE Begin
  <2>1. entries' = <<>> /\ id_lookup' = NoLookup /\ pc' = "root"
      BY <1>5 DEF Begin, ClearBase
  <2> QED
      BY <2>1 DEF Indexing, Distinct
<1>6. CASE Edit \/ UNCHANGED vars
  <2>1. UNCHANGED <<pc, entries, id_lookup>> /\ LoadedIds' = LoadedIds
      BY <1>6 DEF Edit, vars
  <2> QED
      BY <2>1 DEF Indexing, Distinct
<1> QED
    BY <1>1, <1>2, <1>3, <1>4, <1>5, <1>6 DEF Next, Load

\* The ids loaded so far are distinct, and the lookup follows the sort.
THEOREM IndexingHolds == Spec => []Indexing
<1>1. Init => Indexing
    BY DEF Init, Indexing, Distinct, LookupExact, Returned
<1> QED
    BY <1>1, IndexingStep, TypeCorrectness, PTL DEF Spec

\* findById finds exactly the loaded ids, and under each its own entry: ids
\* stay unique, and the positions are those after the sort.
THEOREM LookupsAreExact == Spec => []LookupExact
<1>1. Indexing => LookupExact
    BY DEF Indexing
<1> QED
    BY <1>1, IndexingHolds, PTL

-----------------------------------------------------------------------------
(* The diagnostics of skipped entries.                                     *)

\* A diagnostic that was there stays there.
LEMMA ExplainedStays ==
    ASSUME NEW d, Explained(d), report.diagnostics \subseteq report'.diagnostics
    PROVE  Explained(d)'
BY DEF Explained, Complaints

\* Setting a candidate aside explains it.
LEMMA SkipExplains ==
    ASSUME NEW d, NEW about \in {"shallow", "meta", "content", "duplicate"},
           \E x \in report'.diagnostics : x.at = d /\ x.about = about
    PROVE  Explained(d)'
BY DEF Explained, Complaints

\* Every step that drops a candidate explains it, and no explanation is lost.
LEMMA ExplainingStep ==
    ASSUME TypeOK, Explaining, [Next]_vars
    PROVE  Explaining'
<1> USE DEF disk, scan, work, base, Returned
<1>0. /\ report \in ReportType /\ pending \subseteq candidates
      /\ entries \in Seq(Entries) /\ DOMAIN entries = 1..Len(entries)
      /\ Len(entries) \in Nat
    BY TreeTypes DEF TypeOK
<1>s. SkipsAreDiagnosed <=>
        (pc = "done" => \A d \in candidates \ Sources : Explained(d))
    BY DEF SkipsAreDiagnosed, Explained
<1>t. SkipsAreDiagnosed' <=>
        (pc' = "done" => \A d \in candidates' \ Sources' : Explained(d)')
    BY DEF SkipsAreDiagnosed, Explained
<1>a. ASSUME Loading, pc' \in {"load", "meta", "content"},
             UNCHANGED candidates, Sources \subseteq Sources',
             report.diagnostics \subseteq report'.diagnostics,
             \A d \in (pending \cup InHand) \ (pending' \cup InHand') :
                d \in Sources' \/ Explained(d)'
      PROVE  Explaining'
  <2>1. ASSUME NEW d \in candidates' \ (pending' \cup InHand' \cup Sources')
        PROVE  Explained(d)'
    <3>1. CASE d \in pending \cup InHand
        BY <1>a, <2>1, <3>1
    <3>2. CASE d \notin pending \cup InHand
      <4>1. Explained(d)
          BY <1>a, <2>1, <3>2 DEF Explaining
      <4> QED
          BY <1>a, <4>1, ExplainedStays
    <3> QED
        BY <3>1, <3>2
  <2> QED
      BY <1>a, <1>t, <2>1 DEF Explaining, Loading
<1>1. CASE \/ InspectRoot \/ VisitDirectory \/ CannotList \/ BreakListing
           \/ InspectChild \/ FollowLink \/ EndScan
  <2>1. /\ UNCHANGED candidates /\ pc \in {"root", "scan"}
        /\ pc' \in {"scan", "probe", "done"}
      BY <1>1 DEF InspectRoot, VisitDirectory, CannotList, BreakListing,
            InspectChild, FollowLink, EndScan, FailRoot, CanVisit
  <2> QED
      BY <1>t, <2>1 DEF Explaining, Loading
<1>2. CASE Probe
    BY <1>2, <1>t DEF Probe, Explaining, Loading
<1>3. CASE EndProbe
    BY <1>3, <1>t DEF EndProbe, Explaining, Loading
<1>4. CASE SkipShallow
  <2>1. PICK d \in pending, ds \in SUBSET Diagnostics :
            /\ pending' = pending \ {d} /\ ds = Warn(d, "shallow")
            /\ report' = Skip(report, ds)
      BY <1>4, SkipStep
  <2>2. /\ pc = "load" /\ pc' = "load" /\ UNCHANGED candidates
        /\ Sources' = Sources /\ InHand = {} /\ InHand' = {}
      BY <1>4 DEF SkipShallow, Sources, InHand
  <2>3. report'.diagnostics = report.diagnostics \cup Warn(d, "shallow")
      BY <1>0, <2>1, SkipEffect
  <2>4. Explained(d)'
      BY <2>3, WarnProperties, SkipExplains
  <2> QED
      BY <1>a, <2>1, <2>2, <2>3, <2>4 DEF Loading
<1>5. CASE ValidateFiles
  <2>1. PICK d \in pending :
            /\ pending' = pending \ {d} /\ current' = d
            /\ \/ pc' = "meta" /\ UNCHANGED report
               \/ pc' = "load" /\ \E ds \in SUBSET Diagnostics :
                    /\ report' = Skip(report, ds)
                    /\ ds # {}
                    /\ ds \subseteq Warn(d, "meta") \cup Warn(d, "content")
      BY <1>5, SkipStep
  <2>2. /\ pc = "load" /\ UNCHANGED candidates
        /\ Sources' = Sources /\ InHand = {}
      BY <1>5 DEF ValidateFiles, Sources, InHand
  <2>3. CASE pc' = "meta" /\ UNCHANGED report
    <3>1. InHand' = {d}
        BY <2>1, <2>3 DEF InHand
    <3> QED
        BY <1>a, <2>1, <2>2, <2>3, <3>1 DEF Loading
  <2>4. CASE pc' = "load" /\ ~UNCHANGED report
    <3>1. PICK ds \in SUBSET Diagnostics :
            /\ report' = Skip(report, ds) /\ ds # {}
            /\ ds \subseteq Warn(d, "meta") \cup Warn(d, "content")
        BY <2>1, <2>4
    <3>2. report'.diagnostics = report.diagnostics \cup ds
        BY <1>0, <3>1, SkipEffect
    <3>3. \E x \in ds : x.at = d /\ x.about \in {"meta", "content"}
        BY <3>1, WarnProperties
    <3>4. Explained(d)'
        BY <3>2, <3>3, SkipExplains
    <3> QED
        BY <1>a, <2>1, <2>2, <2>4, <3>2, <3>4 DEF Loading
  <2>5. CASE pc' = "load" /\ UNCHANGED report
    <3>1. \E ds \in SUBSET Diagnostics : report' = Skip(report, ds)
        BY <2>1, <2>5
    <3>2. report'.skipped_entries = report.skipped_entries + 1
        BY <1>0, <3>1, SkipEffect
    <3> QED
        BY <1>0, <2>5, <3>2 DEF ReportType
  <2> QED
      BY <2>1, <2>3, <2>4, <2>5
<1>6. CASE ReadMetadata
  <2>1. /\ pc = "meta" /\ UNCHANGED <<candidates, pending, current>>
        /\ Sources' = Sources /\ InHand = {current}
      BY <1>6 DEF ReadMetadata, Sources, InHand
  <2>2. CASE pc' = "content"
    <3>1. InHand' = {current} /\ report.diagnostics \subseteq report'.diagnostics
        BY <1>0, <1>6, <2>1, <2>2, SkipStep, AddDiagnosticsEffect DEF InHand
    <3> QED
        BY <1>a, <2>1, <2>2, <3>1 DEF Loading
  <2>3. CASE pc' = "load"
    <3>1. PICK ds \in SUBSET Diagnostics :
            report' = Skip(report, ds) /\ ds = Warn(current, "meta")
        BY <1>6, <2>3, SkipStep
    <3>2. report'.diagnostics = report.diagnostics \cup Warn(current, "meta")
        BY <1>0, <3>1, SkipEffect
    <3>3. Explained(current)'
      <4>1. \E x \in report'.diagnostics : x.at = current /\ x.about = "meta"
          BY <3>2, WarnProperties
      <4> QED
          BY <2>1, <4>1 DEF Explained, Complaints
    <3> QED
        BY <1>a, <2>1, <2>3, <3>2, <3>3 DEF Loading, InHand
  <2> QED
      BY <1>6, <2>2, <2>3, SkipStep
<1>7. CASE ReadContent
  <2> DEFINE new == [id |-> draft.id, source_directory |-> current,
                     related |-> draft.related]
  <2>1. /\ pc = "content" /\ pc' = "load" /\ UNCHANGED <<candidates, pending, current>>
        /\ InHand = {current} /\ InHand' = {}
      BY <1>7 DEF ReadContent, InHand
  <2>2. CASE entries' = Append(entries, new) /\ UNCHANGED report
    <3>1. new \in Entries /\ new.source_directory = current
        BY DEF Entries, TypeOK
    <3>2. /\ DOMAIN entries' = 1..(Len(entries) + 1)
          /\ \A i \in DOMAIN entries : entries'[i] = entries[i]
          /\ entries'[Len(entries) + 1] = new
      <4> HIDE DEF new
      <4> QED
          BY <1>0, <2>2, <3>1
    <3>3. Sources \subseteq Sources' /\ current \in Sources'
        BY <1>0, <3>1, <3>2 DEF Sources
    <3> QED
        BY <1>a, <2>1, <2>2, <3>3 DEF Loading
  <2>3. CASE /\ UNCHANGED entries
             /\ \E ds \in SUBSET Diagnostics :
                  /\ report' = Skip(report, ds)
                  /\ ds \in {Warn(current, "content"), Warn(current, "duplicate")}
    <3>1. PICK ds \in SUBSET Diagnostics :
            /\ report' = Skip(report, ds)
            /\ ds \in {Warn(current, "content"), Warn(current, "duplicate")}
        BY <2>3
    <3>2. report'.diagnostics = report.diagnostics \cup ds
        BY <1>0, <3>1, SkipEffect
    <3>3. \E x \in report'.diagnostics :
            x.at = current /\ x.about \in {"content", "duplicate"}
        BY <3>1, <3>2, WarnProperties
    <3>4. Explained(current)'
        BY <2>1, <3>3 DEF Explained, Complaints
    <3>5. Sources' = Sources
        BY <2>3 DEF Sources
    <3> QED
        BY <1>a, <2>1, <3>2, <3>4, <3>5 DEF Loading
  <2> QED
      BY <1>7, <2>2, <2>3, SkipStep
<1>8. CASE Publish
  <2>1. PICK sorted \in Sortings(entries, ById) :
            /\ entries' = sorted
            /\ report.diagnostics \subseteq report'.diagnostics
      BY <1>8, PublishEffect
  <2>2. PICK p \in [DOMAIN entries -> DOMAIN entries] :
            /\ \A i, j \in DOMAIN entries : i # j => p[i] # p[j]
            /\ \A j \in DOMAIN entries : \E i \in DOMAIN entries : p[i] = j
            /\ \A i \in DOMAIN entries : sorted[i] = entries[p[i]]
    <3>1. Permutes(entries, sorted)
        BY <1>0, SortingProperties
    <3> QED
        BY <3>1 DEF Permutes
  <2>3. Sources \subseteq Sources'
    <3>1. DOMAIN sorted = DOMAIN entries
        BY <1>0, SortingProperties
    <3> QED
        BY <2>1, <2>2, <3>1 DEF Sources
  <2>4. /\ pc = "load" /\ pc' = "done" /\ pending = {} /\ InHand = {}
        /\ UNCHANGED candidates
      BY <1>8 DEF Publish, InHand
  <2>5. \A d \in candidates' \ Sources' : Explained(d)'
      BY <2>1, <2>3, <2>4, ExplainedStays DEF Explaining, Loading
  <2> QED
      BY <1>t, <2>4, <2>5 DEF Explaining, Loading
<1>9. CASE Begin
    BY <1>9, <1>t DEF Begin, Explaining, Loading
<1>10. CASE Edit \/ UNCHANGED vars
  <2>1. UNCHANGED <<pc, candidates, pending, current, entries, report>>
      BY <1>10 DEF Edit, vars
  <2>2. /\ Sources' = Sources /\ InHand' = InHand
        /\ \A d : Explained(d)' <=> Explained(d)
      BY <2>1 DEF Sources, InHand, Explained, Complaints
  <2> QED
      BY <1>s, <1>t, <2>1, <2>2 DEF Explaining, Loading
<1> QED
    BY <1>1, <1>2, <1>3, <1>4, <1>5, <1>6, <1>7, <1>8, <1>9, <1>10 DEF Next, Load

\* Whatever was dropped so far has its diagnostic, at every stage.
THEOREM ExplainingHolds == Spec => []Explaining
<1>1. Init => Explaining
    BY DEF Init, Explaining, Loading, SkipsAreDiagnosed, Returned
<1> QED
    BY <1>1, ExplainingStep, TypeCorrectness, PTL DEF Spec

\* No entry disappears silently: each candidate that did not make it into the
\* base has a diagnostic of its own.
THEOREM SkipsHaveDiagnostics == Spec => []SkipsAreDiagnosed
<1>1. Explaining => SkipsAreDiagnosed
    BY DEF Explaining
<1> QED
    BY <1>1, ExplainingHolds, PTL

-----------------------------------------------------------------------------
(* Recursion up the tree.  A path comes after its parent, so a function of *)
(* a path that asks only for its value at the parent exists, whatever the  *)
(* tree: what KindOf, Reachable and Untouched rest on.                     *)

Steps(V) == [Dirs \X V -> V]

\* The function solves the equation below n, or on all paths.
Solves(f, n, r, G) ==
    \A d \in Dirs : d < n =>
        f[d] = IF d = Root THEN r ELSE G[<<d, f[Parent[d]]>>]
SolvesAll(f, r, G) ==
    \A d \in Dirs : f[d] = IF d = Root THEN r ELSE G[<<d, f[Parent[d]]>>]

\* Two solutions below n agree there: the smallest path at which they differ
\* would have a parent at which they agree.
LEMMA SolutionsAgree ==
    ASSUME NEW V, NEW r \in V, NEW G \in Steps(V), NEW n \in Nat,
           NEW f \in [Dirs -> V], NEW g \in [Dirs -> V],
           Solves(f, n, r, G), Solves(g, n, r, G)
    PROVE  \A d \in Dirs : d < n => f[d] = g[d]
<1> DEFINE S == {d \in Dirs : d < n /\ f[d] # g[d]}
<1> SUFFICES ASSUME S # {} PROVE FALSE
    OBVIOUS
<1>1. S \subseteq Nat
    BY PathsAssumption
<1>2. PICK m \in S : \A k \in S : m <= k
    BY <1>1, SmallestMember
<1>3. CASE m = Root
    BY <1>2, <1>3 DEF Solves
<1>4. CASE m # Root
  <2>1. Parent[m] \in Dirs /\ Parent[m] < m /\ m \in Nat /\ Parent[m] \in Nat
      BY <1>2, <1>4, PathsAssumption
  <2>2. Parent[m] \notin S
      BY <1>2, <2>1
  <2>3. f[Parent[m]] = g[Parent[m]]
      BY <1>2, <2>1, <2>2
  <2> QED
      BY <1>2, <1>4, <2>3 DEF Solves
<1> QED
    BY <1>3, <1>4

\* There is a solution below every n: one more path, one more value.
LEMMA SolutionsExist ==
    ASSUME NEW V, NEW r \in V, NEW G \in Steps(V)
    PROVE  \A n \in Nat : \E f \in [Dirs -> V] : Solves(f, n, r, G)
<1> DEFINE S == {n \in Nat : ~ \E f \in [Dirs -> V] : Solves(f, n, r, G)}
<1> SUFFICES ASSUME S # {} PROVE FALSE
    OBVIOUS
<1>1. PICK m \in S : \A k \in S : m <= k
    BY SmallestMember
<1>2. m # 0
  <2>1. [d \in Dirs |-> r] \in [Dirs -> V]
      OBVIOUS
  <2>2. Solves([d \in Dirs |-> r], 0, r, G)
      BY PathsAssumption DEF Solves
  <2> QED
      BY <1>1, <2>1, <2>2
<1>3. m - 1 \in Nat /\ m \in Nat /\ m - 1 \notin S
    BY <1>1, <1>2
<1>4. PICK f \in [Dirs -> V] : Solves(f, m - 1, r, G)
    BY <1>3
<1> DEFINE k == m - 1
           v == IF k = Root THEN r ELSE G[<<k, f[Parent[k]]>>]
           g == [f EXCEPT ![k] = v]
<1>5. \A d \in Dirs : d # Root => Parent[d] \in Dirs /\ Parent[d] < d
    BY PathsAssumption
<1>6. g \in [Dirs -> V]
  <2>1. k \in Dirs => v \in V
      BY <1>4, <1>5 DEF Steps
  <2> QED
      BY <2>1
<1>7. Solves(g, m, r, G)
  <2> SUFFICES ASSUME NEW d \in Dirs, d < m
               PROVE  g[d] = IF d = Root THEN r ELSE G[<<d, g[Parent[d]]>>]
      BY DEF Solves
  <2>1. d \in Nat /\ (d < k \/ d = k)
      BY <1>3, PathsAssumption
  <2>2. ASSUME d # Root
        PROVE  g[Parent[d]] = f[Parent[d]] /\ Parent[d] \in Dirs
    <3>1. Parent[d] \in Dirs /\ Parent[d] < d /\ Parent[d] \in Nat
        BY <1>5, <2>2, PathsAssumption
    <3>2. Parent[d] # k
        BY <1>3, <2>1, <3>1
    <3> QED
        BY <1>4, <3>1, <3>2
  <2>3. CASE d = k
      BY <2>2, <2>3
  <2>4. CASE d < k
    <3>1. g[d] = f[d]
        BY <1>3, <2>1, <2>4
    <3> QED
        BY <1>4, <2>2, <2>4, <3>1 DEF Solves
  <2> QED
      BY <2>1, <2>3, <2>4
<1> QED
    BY <1>1, <1>6, <1>7

\* The recursion equation has a solution on all paths: the value at a path is
\* that of any solution that reaches it.
LEMMA ParentRecursion ==
    ASSUME NEW V, NEW r \in V, NEW G \in Steps(V)
    PROVE  \E f \in [Dirs -> V] : SolvesAll(f, r, G)
<1> DEFINE below(n) == CHOOSE f \in [Dirs -> V] : Solves(f, n, r, G)
           F == [d \in Dirs |-> below(d + 1)[d]]
<1>1. \A n \in Nat : below(n) \in [Dirs -> V] /\ Solves(below(n), n, r, G)
    BY SolutionsExist
<1> HIDE DEF below
<1>2. \A d \in Dirs : d \in Nat /\ d + 1 \in Nat /\ d < d + 1
    BY PathsAssumption
<1>3. F \in [Dirs -> V]
    BY <1>1, <1>2
<1>4. ASSUME NEW d \in Dirs
      PROVE  F[d] = IF d = Root THEN r ELSE G[<<d, F[Parent[d]]>>]
  <2>1. below(d + 1)[d] = IF d = Root THEN r ELSE G[<<d, below(d + 1)[Parent[d]]>>]
      BY <1>1, <1>2 DEF Solves
  <2>2. ASSUME d # Root
        PROVE  below(d + 1)[Parent[d]] = F[Parent[d]]
    <3> DEFINE p == Parent[d]
    <3>1. p \in Dirs /\ p < d
        BY <2>2, PathsAssumption
    <3>2. Solves(below(d + 1), p + 1, r, G)
        BY <1>1, <1>2, <3>1 DEF Solves
    <3>3. Solves(below(p + 1), p + 1, r, G)
        BY <1>1, <1>2, <3>1
    <3>4. below(d + 1)[p] = below(p + 1)[p]
      <4> DEFINE f == below(d + 1)
                 g == below(p + 1)
                 n == p + 1
      <4>1. f \in [Dirs -> V] /\ g \in [Dirs -> V] /\ n \in Nat /\ p < n
          BY <1>1, <1>2, <3>1
      <4>2. Solves(f, n, r, G) /\ Solves(g, n, r, G)
          BY <3>2, <3>3
      <4> HIDE DEF f, g, n
      <4>3. \A e \in Dirs : e < n => f[e] = g[e]
          BY <4>1, <4>2, SolutionsAgree
      <4>4. f[p] = g[p]
          BY <3>1, <4>1, <4>3
      <4> QED
          BY <4>4 DEF f, g
    <3> QED
        BY <3>1, <3>4
  <2> QED
      BY <2>1, <2>2
<1> QED
    BY <1>3, <1>4 DEF SolvesAll

\* The status of a path, its reachability and its being left alone, as
\* functions of the tree and of the paths edited.
KindIn(t) == CHOOSE f : f = [d \in Dirs |->
    IF d = Root THEN t[Root].kind
    ELSE LET up == f[Parent[d]] IN
         CASE up \in {"dir", "link"}        -> t[d].kind
           [] up \in {"absent", "dangling"} -> "absent"
           [] OTHER                         -> "denied"]
ReachableIn(t) == CHOOSE f : f = [d \in Dirs |->
    IF d = Root THEN t[d].kind \in {"dir", "link"}
    ELSE /\ t[d].kind = "dir" /\ t[Parent[d]].listing = "ok"
         /\ f[Parent[d]]]
UntouchedBy(s) == CHOOSE f : f = [d \in Dirs |->
    d \notin s /\ (d = Root \/ f[Parent[d]])]

LEMMA RecursiveForms ==
    /\ KindOf = KindIn(tree) /\ KindOf' = KindIn(tree')
    /\ Reachable = ReachableIn(tree) /\ Reachable' = ReachableIn(tree')
    /\ Untouched = UntouchedBy(touched) /\ Untouched' = UntouchedBy(touched')
BY DEF KindOf, KindIn, Reachable, ReachableIn, Untouched, UntouchedBy

\* Each satisfies the equation that defines it.
LEMMA KindInEquation ==
    ASSUME NEW t \in [Dirs -> Nodes]
    PROVE  \A d \in Dirs : /\ KindIn(t)[d] \in Kinds
           /\ KindIn(t)[d] =
                IF d = Root THEN t[Root].kind
                ELSE LET up == KindIn(t)[Parent[d]] IN
                     CASE up \in {"dir", "link"}        -> t[d].kind
                       [] up \in {"absent", "dangling"} -> "absent"
                       [] OTHER                         -> "denied"
<1> DEFINE step(d, up) == CASE up \in {"dir", "link"}        -> t[d].kind
                            [] up \in {"absent", "dangling"} -> "absent"
                            [] OTHER                         -> "denied"
           G == [p \in Dirs \X Kinds |-> step(p[1], p[2])]
           r == t[Root].kind
           rhs(f) == [d \in Dirs |-> IF d = Root THEN r
                                     ELSE step(d, f[Parent[d]])]
<1>0. ASSUME NEW d \in Dirs, NEW up PROVE step(d, up) \in Kinds
  <2>1. t[d].kind \in Kinds
      BY DEF Nodes
  <2>2. "absent" \in Kinds /\ "denied" \in Kinds
      BY DEF Kinds
  <2> QED
      BY <2>1, <2>2, Zenon DEF step
<1>1. \A d \in Dirs, up \in Kinds : step(d, up) \in Kinds
    BY <1>0
<1>2. r \in Kinds
    BY PathsAssumption DEF Nodes
<1> HIDE DEF step
<1>3. G \in Steps(Kinds)
    BY <1>1 DEF Steps
<1>a. \A d \in Dirs, up \in Kinds : G[<<d, up>>] = step(d, up)
    OBVIOUS
<1> HIDE DEF G, r
<1>4. PICK f \in [Dirs -> Kinds] : SolvesAll(f, r, G)
    BY <1>2, <1>3, ParentRecursion
<1>5. \A d \in Dirs : d # Root => Parent[d] \in Dirs
    BY PathsAssumption
<1>6. \A d \in Dirs : f[d] = IF d = Root THEN r
                             ELSE step(d, f[Parent[d]])
    BY <1>4, <1>5, <1>a DEF SolvesAll
<1>7. f = rhs(f)
    BY <1>6
<1>8. KindIn(t) = rhs(KindIn(t))
  <2>1. KindIn(t) = CHOOSE h : h = rhs(h)
      BY DEF KindIn, step, r
  <2> QED
      BY <1>7, <2>1
<1>9. \A d \in Dirs : KindIn(t)[d] = IF d = Root THEN r
                                     ELSE step(d, KindIn(t)[Parent[d]])
    BY <1>8
<1>10. \A d \in Dirs : KindIn(t)[d] \in Kinds
    BY <1>0, <1>2, <1>9
<1> QED
    BY <1>9, <1>10, Zenon DEF step, r

LEMMA ReachableInEquation ==
    ASSUME NEW t \in [Dirs -> Nodes]
    PROVE  \A d \in Dirs : /\ ReachableIn(t)[d] \in BOOLEAN
           /\ ReachableIn(t)[d] <=>
                IF d = Root THEN t[d].kind \in {"dir", "link"}
                ELSE /\ t[d].kind = "dir" /\ t[Parent[d]].listing = "ok"
                     /\ ReachableIn(t)[Parent[d]]
<1> DEFINE step(d, up) == t[d].kind = "dir" /\ t[Parent[d]].listing = "ok" /\ up
           G == [p \in Dirs \X BOOLEAN |-> step(p[1], p[2])]
           r == t[Root].kind \in {"dir", "link"}
           rhs(f) == [d \in Dirs |-> IF d = Root THEN t[d].kind \in {"dir", "link"}
                                                 ELSE step(d, f[Parent[d]])]
<1>1. \A d \in Dirs, up \in BOOLEAN : step(d, up) \in BOOLEAN
    OBVIOUS
<1>2. r \in BOOLEAN
    OBVIOUS
<1>3. G \in Steps(BOOLEAN)
    BY <1>1 DEF Steps
<1>a. \A d \in Dirs, up \in BOOLEAN : G[<<d, up>>] = step(d, up)
    OBVIOUS
<1> HIDE DEF G
<1>4. PICK f \in [Dirs -> BOOLEAN] : SolvesAll(f, r, G)
  <2> HIDE DEF r
  <2> QED
      BY <1>2, <1>3, ParentRecursion
<1>5. \A d \in Dirs : d # Root => Parent[d] \in Dirs
    BY PathsAssumption
<1>6. \A d \in Dirs : f[d] = IF d = Root THEN r ELSE step(d, f[Parent[d]])
  <2> HIDE DEF r, step
  <2> QED
      BY <1>4, <1>5, <1>a DEF SolvesAll
<1>7. f = rhs(f)
    BY <1>6
<1>8. ReachableIn(t) = rhs(ReachableIn(t))
  <2>1. ReachableIn(t) = CHOOSE h : h = rhs(h)
      BY DEF ReachableIn
  <2> QED
      BY <1>7, <2>1
<1>9. \A d \in Dirs : ReachableIn(t)[d] =
            IF d = Root THEN t[d].kind \in {"dir", "link"}
                        ELSE step(d, ReachableIn(t)[Parent[d]])
    BY <1>8
<1> QED
    BY <1>9

LEMMA UntouchedByEquation ==
    ASSUME NEW s
    PROVE  \A d \in Dirs : /\ UntouchedBy(s)[d] \in BOOLEAN
           /\ UntouchedBy(s)[d] <=>
                d \notin s /\ (d = Root \/ UntouchedBy(s)[Parent[d]])
<1> DEFINE step(d, up) == d \notin s /\ up
           G == [p \in Dirs \X BOOLEAN |-> step(p[1], p[2])]
           r == Root \notin s
           rhs(f) == [d \in Dirs |-> d \notin s /\ (d = Root \/ f[Parent[d]])]
<1>1. \A d \in Dirs, up \in BOOLEAN : step(d, up) \in BOOLEAN
    OBVIOUS
<1>2. r \in BOOLEAN
    OBVIOUS
<1>3. G \in Steps(BOOLEAN)
    BY <1>1 DEF Steps
<1>a. \A d \in Dirs, up \in BOOLEAN : G[<<d, up>>] = step(d, up)
    OBVIOUS
<1> HIDE DEF G
<1>4. PICK f \in [Dirs -> BOOLEAN] : SolvesAll(f, r, G)
  <2> HIDE DEF r
  <2> QED
      BY <1>2, <1>3, ParentRecursion
<1>5. \A d \in Dirs : d # Root => Parent[d] \in Dirs
    BY PathsAssumption
<1>6. \A d \in Dirs : f[d] = IF d = Root THEN r ELSE step(d, f[Parent[d]])
  <2> HIDE DEF r, step
  <2> QED
      BY <1>4, <1>5, <1>a DEF SolvesAll
<1>7. f = rhs(f)
  <2>1. \A d \in Dirs : f[d] = (d \notin s /\ (d = Root \/ f[Parent[d]]))
      BY <1>6
  <2> QED
      BY <2>1
<1>8. UntouchedBy(s) = rhs(UntouchedBy(s))
  <2>1. UntouchedBy(s) = CHOOSE h : h = rhs(h)
      BY DEF UntouchedBy
  <2> QED
      BY <1>7, <2>1
<1>9. \A d \in Dirs : UntouchedBy(s)[d] =
            (d \notin s /\ (d = Root \/ UntouchedBy(s)[Parent[d]]))
    BY <1>8
<1> QED
    BY <1>9

-----------------------------------------------------------------------------
(* What the scan has yet to find, and what became of the good entries.     *)

Listed  == {directories[i] : i \in DOMAIN directories}
Visited == {directories[i] : i \in 1..directory_index}

\* A directory the scan owes the base a look at: left alone, and reachable or
\* at least there while nothing has been complained of.
Promised(d) ==
    /\ Untouched[d]
    /\ \/ Reachable[d]
       \/ KindOf[d] \in {"dir", "link"} /\ report.diagnostics = {}

\* Every promised directory has an ancestor still in the queue or among the
\* children in hand (the scan), has been queued (the probes), and is a
\* candidate if it holds a file (the loading).  The child whose target is
\* looked at next was no directory, and still is none if it was left alone.
Finding ==
    /\ pc = "root" => directories = <<Root>> /\ children = {} /\ link = Root
    /\ pc = "scan" =>
        /\ Root \in Listed
        /\ link # Root /\ Untouched[link] => KindOf[link] # "dir"
        /\ \A c \in Dirs \ {Root} :
            Promised(c) /\ Parent[c] \in Visited => c \in Listed \cup children
    /\ pc = "probe" =>
        /\ \A d \in Dirs : Promised(d) => d \in Listed
        /\ \A d \in Visited : Promised(d) /\ IsCandidate(d) => d \in candidates
    /\ Loading \/ (Returned /\ report.root_available) =>
        \A d \in Dirs : Promised(d) /\ IsCandidate(d) => d \in candidates

LeftAlone(d) == Untouched[d] /\ Reachable[d]
BothRegular(d) == tree[d].meta.file = "regular" /\ tree[d].content.file = "regular"
Survives(d) == \E i \in DOMAIN entries : /\ entries[i].id = tree[d].meta.id
                                         /\ entries[i].source_directory <= d

\* Entries are loaded in path order; a good one is waiting, in hand, or in the
\* base under its id, and what is in hand has passed the checks made so far.
Surviving ==
    /\ pc \in {"meta", "content"} /\ LeftAlone(current) =>
            ~TooShallow(current) /\ BothRegular(current)
    /\ pc = "content" /\ LeftAlone(current) =>
            tree[current].meta.text = "accepted" /\ draft.id = tree[current].meta.id
    /\ \A d \in Sources : LeftAlone(d) => WellFormed(d)
    /\ Loading =>
        /\ \A d \in candidates : LeftAlone(d) /\ WellFormed(d) =>
                d \in pending \cup InHand \/ Survives(d)
        /\ \A s \in Sources, d \in pending \cup InHand : s < d
        /\ \A c \in InHand, d \in pending : c < d
    /\ Returned /\ report.root_available =>
        \A d \in candidates : LeftAlone(d) /\ WellFormed(d) => Survives(d)

\* No reference is judged before the base is whole, and no two entries come
\* from one directory.
Judging ==
    /\ pc # "done" => \A x \in report.diagnostics : x.about # "related"
    /\ \A i, j \in DOMAIN entries :
        i # j => entries[i].source_directory # entries[j].source_directory
    /\ RelatedJudgedOnWholeBase


-----------------------------------------------------------------------------
(* What the file system answers, by cases.                                 *)

LEMMA KindInCases ==
    ASSUME NEW t \in [Dirs -> Nodes], NEW d \in Dirs
    PROVE  /\ d = Root => KindIn(t)[d] = t[d].kind
           /\ d # Root => LET up == KindIn(t)[Parent[d]] IN
                /\ up \in {"dir", "link"} => KindIn(t)[d] = t[d].kind
                /\ up \notin {"dir", "link"} => KindIn(t)[d] \in {"absent", "denied"}
                /\ up \in {"absent", "dangling"} => KindIn(t)[d] = "absent"
                /\ up \notin {"dir", "link", "absent", "dangling"} => KindIn(t)[d] = "denied"
<1> DEFINE up == KindIn(t)[Parent[d]]
           K == KindIn(t)
<1>1. K[d] = IF d = Root THEN t[Root].kind
             ELSE CASE up \in {"dir", "link"}        -> t[d].kind
                    [] up \in {"absent", "dangling"} -> "absent"
                    [] OTHER                         -> "denied"
    BY KindInEquation, Zenon
<1>2. d = Root => K[d] = t[d].kind
    BY <1>1, Zenon
<1>a. ~(up \in {"dir", "link"} /\ up \in {"absent", "dangling"})
    OBVIOUS
<1>b. "dir" # "absent" /\ "dir" # "dangling" /\ "link" # "absent" /\ "link" # "dangling"
    OBVIOUS
<1>3. d # Root /\ up \in {"dir", "link"} => K[d] = t[d].kind
    BY <1>1, <1>a, Zenon
<1>4. d # Root /\ up \in {"absent", "dangling"} => K[d] = "absent"
    BY <1>1, <1>a, Zenon
<1>5. d # Root /\ up \notin {"dir", "link"} /\ up \notin {"absent", "dangling"}
        => K[d] = "denied"
    BY <1>1, Zenon
<1> QED
    BY <1>2, <1>3, <1>4, <1>5

\* An edit of one path changes no answer about a path that neither it nor
\* anything above it was edited.
LEMMA LeftAloneIsFrozen ==
    ASSUME NEW t \in [Dirs -> Nodes], NEW t2 \in [Dirs -> Nodes],
           NEW s, NEW e, \A d \in Dirs : d # e => t2[d] = t[d]
    PROVE  \A d \in Dirs : UntouchedBy(s \cup {e})[d] =>
                /\ UntouchedBy(s)[d] /\ t2[d] = t[d]
                /\ KindIn(t2)[d] = KindIn(t)[d]
                /\ ReachableIn(t2)[d] <=> ReachableIn(t)[d]
<1> DEFINE Same(d) == /\ UntouchedBy(s)[d] /\ t2[d] = t[d]
                      /\ KindIn(t2)[d] = KindIn(t)[d]
                      /\ ReachableIn(t2)[d] <=> ReachableIn(t)[d]
           S == {d \in Dirs : UntouchedBy(s \cup {e})[d] /\ ~Same(d)}
<1> SUFFICES ASSUME S # {} PROVE FALSE
    OBVIOUS
<1>1. PICK m \in S : \A k \in S : m <= k
  <2>1. S \subseteq Nat
      BY PathsAssumption
  <2> QED
      BY <2>1, SmallestMember
<1>2. /\ m # e /\ m \notin s /\ t2[m] = t[m]
      /\ m # Root => UntouchedBy(s \cup {e})[Parent[m]]
  <2>1. UntouchedBy(s \cup {e})[m] /\ m \in Dirs
      BY <1>1
  <2>2. m \notin s \cup {e} /\ (m = Root \/ UntouchedBy(s \cup {e})[Parent[m]])
      BY <2>1, UntouchedByEquation, Zenon
  <2> QED
      BY <2>1, <2>2
<1>3. CASE m = Root
  <2>1. UntouchedBy(s)[m]
      BY <1>1, <1>2, <1>3, UntouchedByEquation
  <2>2. KindIn(t2)[m] = KindIn(t)[m]
      BY <1>1, <1>2, <1>3, KindInCases
  <2>3. ReachableIn(t2)[m] <=> ReachableIn(t)[m]
      BY <1>1, <1>2, <1>3, ReachableInEquation
  <2> QED
      BY <1>1, <1>2, <2>1, <2>2, <2>3
<1>4. CASE m # Root
  <2> DEFINE p == Parent[m]
  <2>1. p \in Dirs /\ p < m /\ p \in Nat /\ m \in Nat
      BY <1>1, <1>4, PathsAssumption
  <2>2. p \notin S
      BY <1>1, <2>1
  <2>3. Same(p)
      BY <1>2, <1>4, <2>1, <2>2
  <2>4. UntouchedBy(s)[m]
      BY <1>1, <1>2, <1>4, <2>3, UntouchedByEquation
  <2>5. KindIn(t2)[m] = KindIn(t)[m]
    <3>1. /\ KindIn(t)[m] = IF m = Root THEN t[Root].kind
             ELSE CASE KindIn(t)[p] \in {"dir", "link"}        -> t[m].kind
                    [] KindIn(t)[p] \in {"absent", "dangling"} -> "absent"
                    [] OTHER                         -> "denied"
          /\ KindIn(t2)[m] = IF m = Root THEN t2[Root].kind
             ELSE CASE KindIn(t2)[p] \in {"dir", "link"}        -> t2[m].kind
                    [] KindIn(t2)[p] \in {"absent", "dangling"} -> "absent"
                    [] OTHER                         -> "denied"
        BY <1>1, KindInEquation, Zenon
    <3>2. KindIn(t2)[p] = KindIn(t)[p] /\ t2[m] = t[m]
        BY <1>2, <2>3
    <3> QED
        BY <3>1, <3>2, <1>4, Zenon
  <2>6. ReachableIn(t2)[m] <=> ReachableIn(t)[m]
    <3>1. /\ ReachableIn(t)[m] <=>
                IF m = Root THEN t[m].kind \in {"dir", "link"}
                ELSE /\ t[m].kind = "dir" /\ t[p].listing = "ok"
                     /\ ReachableIn(t)[p]
          /\ ReachableIn(t2)[m] <=>
                IF m = Root THEN t2[m].kind \in {"dir", "link"}
                ELSE /\ t2[m].kind = "dir" /\ t2[p].listing = "ok"
                     /\ ReachableIn(t2)[p]
        BY <1>1, ReachableInEquation, Zenon
    <3> QED
        BY <3>1, <1>2, <1>4, <2>3, Zenon
  <2> QED
      BY <1>1, <1>2, <2>4, <2>5, <2>6
<1> QED
    BY <1>3, <1>4

\* What holds of every path and its parent.
LEMMA PathFacts ==
    ASSUME TypeOK, NEW d \in Dirs
    PROVE  /\ tree[d] \in Nodes /\ KindOf[d] \in Kinds
           /\ d # Root => Parent[d] \in Dirs
           /\ d # Root /\ Untouched[d] => Untouched[Parent[d]]
           /\ d # Root /\ Reachable[d] =>
                    /\ Reachable[Parent[d]] /\ tree[Parent[d]].listing = "ok"
                    /\ tree[d].kind = "dir"
           /\ KindOf[d] \in {"dir", "link"} =>
                    /\ tree[d].kind = KindOf[d]
                    /\ d # Root => KindOf[Parent[d]] \in {"dir", "link"}
           /\ d = Root => /\ KindOf[d] = tree[d].kind
                          /\ Reachable[d] <=> tree[d].kind \in {"dir", "link"}
           /\ d # Root /\ KindOf[Parent[d]] \in {"dir", "link"} => KindOf[d] = tree[d].kind
<1>1. tree \in [Dirs -> Nodes]
    BY DEF TypeOK
<1>2. d # Root => Parent[d] \in Dirs
    BY PathsAssumption
<1>3. d # Root /\ Untouched[d] => Untouched[Parent[d]]
  <2>1. Untouched = UntouchedBy(touched)
      BY RecursiveForms
  <2>2. Untouched[d] <=> d \notin touched /\ (d = Root \/ Untouched[Parent[d]])
    <3>1. UntouchedBy(touched)[d] <=>
                d \notin touched /\ (d = Root \/ UntouchedBy(touched)[Parent[d]])
        BY UntouchedByEquation, Zenon
    <3> QED
        BY <2>1, <3>1, Zenon
  <2> QED
      BY <2>2, Zenon
<1>4. /\ d = Root => (Reachable[d] <=> tree[d].kind \in {"dir", "link"})
      /\ d # Root /\ Reachable[d] =>
                    /\ Reachable[Parent[d]] /\ tree[Parent[d]].listing = "ok"
                    /\ tree[d].kind = "dir"
  <2>1. Reachable = ReachableIn(tree)
      BY RecursiveForms
  <2>2. Reachable[d] <=>
                IF d = Root THEN tree[d].kind \in {"dir", "link"}
                ELSE /\ tree[d].kind = "dir" /\ tree[Parent[d]].listing = "ok"
                     /\ Reachable[Parent[d]]
    <3>1. ReachableIn(tree)[d] <=>
                IF d = Root THEN tree[d].kind \in {"dir", "link"}
                ELSE /\ tree[d].kind = "dir" /\ tree[Parent[d]].listing = "ok"
                     /\ ReachableIn(tree)[Parent[d]]
        BY <1>1, ReachableInEquation, Zenon
    <3> QED
        BY <2>1, <3>1, Zenon
  <2> QED
      BY <2>2, Zenon
<1>5. KindOf[d] \in Kinds
    BY <1>1, RecursiveForms, KindInEquation, Zenon
<1>6. /\ d = Root => KindOf[d] = tree[d].kind
      /\ d # Root => LET up == KindOf[Parent[d]] IN
                /\ up \in {"dir", "link"} => KindOf[d] = tree[d].kind
                /\ up \notin {"dir", "link"} => KindOf[d] \in {"absent", "denied"}
    BY <1>1, RecursiveForms, KindInCases
<1> QED
    BY <1>1, <1>2, <1>3, <1>4, <1>5, <1>6

\* A reachable path is a directory, or the root, which may be a link to one.
LEMMA ReachableIsDirectory ==
    ASSUME TypeOK
    PROVE  \A d \in Dirs : Reachable[d] =>
                /\ KindOf[d] = tree[d].kind /\ KindOf[d] \in {"dir", "link"}
                /\ d # Root => KindOf[d] = "dir"
<1> DEFINE S == {d \in Dirs : Reachable[d] /\ ~(/\ KindOf[d] = tree[d].kind
                                                /\ KindOf[d] \in {"dir", "link"}
                                                /\ d # Root => KindOf[d] = "dir")}
<1> SUFFICES ASSUME S # {} PROVE FALSE
    OBVIOUS
<1>1. PICK m \in S : \A k \in S : m <= k
  <2>1. S \subseteq Nat
      BY PathsAssumption
  <2> QED
      BY <2>1, SmallestMember
<1>2. CASE m = Root
    BY <1>1, <1>2, PathFacts
<1>3. CASE m # Root
  <2>1. Parent[m] \in Dirs /\ Parent[m] < m /\ Parent[m] \in Nat /\ m \in Nat
      BY <1>1, <1>3, PathsAssumption
  <2>2. Reachable[Parent[m]] /\ tree[m].kind = "dir"
      BY <1>1, <1>3, PathFacts
  <2>3. Parent[m] \notin S
      BY <1>1, <2>1
  <2>4. KindOf[Parent[m]] \in {"dir", "link"}
      BY <2>1, <2>2, <2>3
  <2> QED
      BY <1>1, <1>3, <2>2, <2>4, PathFacts
<1> QED
    BY <1>2, <1>3

\* Nothing that an author left alone looks different after the step, and
\* nothing that was complained of is forgotten.
Undisturbed ==
    /\ \A d \in Dirs : (Untouched[d])' =>
            /\ Untouched[d] /\ tree'[d] = tree[d]
            /\ (KindOf[d])' = KindOf[d]
            /\ (Reachable[d])' <=> Reachable[d]
    /\ report.diagnostics \subseteq report'.diagnostics

\* An edit changes one path and reports nothing.
LEMMA EditDisturbsNothingElse ==
    ASSUME TypeOK, Edit
    PROVE  Undisturbed
<1>1. PICK e \in Edits : /\ tree' = [tree EXCEPT ![e[1]] = e[2]]
                         /\ touched' = touched \cup {e[1]}
    BY DEF Edit
<1>2. e[1] \in Dirs /\ e[2] \in Nodes
    BY <1>1, TreesAssumption
<1>3. /\ tree \in [Dirs -> Nodes] /\ tree' \in [Dirs -> Nodes]
      /\ \A d \in Dirs : d # e[1] => tree'[d] = tree[d]
    BY <1>1, <1>2 DEF TypeOK
<1>4. \A d \in Dirs : UntouchedBy(touched \cup {e[1]})[d] =>
                /\ UntouchedBy(touched)[d] /\ tree'[d] = tree[d]
                /\ KindIn(tree')[d] = KindIn(tree)[d]
                /\ ReachableIn(tree')[d] <=> ReachableIn(tree)[d]
    BY <1>3, LeftAloneIsFrozen, Zenon
<1>5. /\ Untouched = UntouchedBy(touched)
      /\ Untouched' = UntouchedBy(touched \cup {e[1]})
      /\ KindOf = KindIn(tree) /\ KindOf' = KindIn(tree')
      /\ Reachable = ReachableIn(tree) /\ Reachable' = ReachableIn(tree')
  <2>1. UntouchedBy(touched') = UntouchedBy(touched \cup {e[1]})
      BY <1>1
  <2> QED
      BY <2>1, RecursiveForms
<1>6. \A d \in Dirs : Untouched'[d] =>
            /\ Untouched[d] /\ tree'[d] = tree[d]
            /\ KindOf'[d] = KindOf[d]
            /\ Reachable'[d] <=> Reachable[d]
    BY <1>4, <1>5, Zenon
<1>7. report' = report
    BY DEF Edit
<1> QED
    BY <1>6, <1>7, Zenon DEF Undisturbed

\* The loader changes no file, and adds to its report.
LEMMA LoaderDisturbsNothing ==
    ASSUME UNCHANGED <<tree, touched>>, report.diagnostics \subseteq report'.diagnostics
    PROVE  Undisturbed
<1>1. KindOf' = KindOf
    BY RecursiveForms
<1>2. Reachable' = Reachable
    BY RecursiveForms
<1>3. Untouched' = Untouched
    BY RecursiveForms
<1>4. tree' = tree
    OBVIOUS
<1> QED
    BY <1>1, <1>2, <1>3, <1>4, Zenon DEF Undisturbed

\* A path has the same files, in the eyes of the loader, and the same promise.
LEMMA UndisturbedPaths ==
    ASSUME Undisturbed, NEW d \in Dirs
    PROVE  /\ Promised(d)' => Promised(d)
           /\ Promised(d)' => (IsCandidate(d)' <=> IsCandidate(d))
           /\ LeftAlone(d)' => LeftAlone(d) /\ tree'[d] = tree[d]
           /\ LeftAlone(d)' => (WellFormed(d)' <=> WellFormed(d))
<1>1. (Untouched[d])' => /\ Untouched[d] /\ tree'[d] = tree[d]
                         /\ (KindOf[d])' = KindOf[d]
                         /\ (Reachable[d])' <=> Reachable[d]
    BY Zenon DEF Undisturbed
<1>2. report'.diagnostics = {} => report.diagnostics = {}
    BY DEF Undisturbed
<1>3. (Untouched[d])' => (IsCandidate(d)' <=> IsCandidate(d))
    BY <1>1, Zenon DEF IsCandidate, PathIsPresent, FileIn
<1>4. (Untouched[d])' => (WellFormed(d)' <=> WellFormed(d))
    BY <1>1, Zenon DEF WellFormed, TooShallow
<1>5. Promised(d)' => (Untouched[d])'
    BY Zenon DEF Promised
<1>6. Promised(d)' => Promised(d)
    BY <1>1, <1>2, Zenon DEF Promised
<1>7. LeftAlone(d)' => LeftAlone(d) /\ (Untouched[d])'
    BY <1>1, Zenon DEF LeftAlone
<1> QED
    BY <1>1, <1>3, <1>4, <1>5, <1>6, <1>7, Zenon

\* No step of a load takes a diagnostic back.
LEMMA DiagnosticsGrow ==
    ASSUME TypeOK, Load \/ Edit \/ UNCHANGED vars
    PROVE  report.diagnostics \subseteq report'.diagnostics
<1>1. report \in ReportType
    BY TreeTypes
<1>a. ASSUME NEW ds, report' = AddDiagnostics(report, ds)
      PROVE  report.diagnostics \subseteq report'.diagnostics
    BY <1>1, <1>a, AddDiagnosticsEffect
<1>b. ASSUME NEW ds \in SUBSET Diagnostics, report' = Skip(report, ds)
      PROVE  report.diagnostics \subseteq report'.diagnostics
    BY <1>1, <1>b, SkipEffect
<1>2. CASE InspectRoot \/ CannotList \/ BreakListing \/ InspectChild \/ FollowLink
    BY <1>2, <1>a
    DEF InspectRoot, CannotList, BreakListing, InspectChild, FollowLink, FailRoot
<1>3. CASE VisitDirectory \/ EndScan \/ Probe \/ EndProbe
    BY <1>1, <1>3 DEF VisitDirectory, EndScan, Probe, EndProbe, ReportType
<1>4. CASE SkipShallow \/ ValidateFiles \/ ReadMetadata \/ ReadContent
    BY <1>4, <1>a, <1>b, SkipStep
<1>5. CASE Publish
    BY <1>5, PublishEffect
<1>6. CASE Edit \/ UNCHANGED vars
    BY <1>6 DEF Edit, vars
<1> QED
    BY <1>2, <1>3, <1>4, <1>5, <1>6 DEF Load

\* So nothing is disturbed, except by a new call.
LEMMA StepUndisturbed ==
    ASSUME TypeOK, Load \/ Edit \/ UNCHANGED vars
    PROVE  Undisturbed
<1>1. CASE Edit
    BY <1>1, EditDisturbsNothingElse
<1>2. CASE Load \/ UNCHANGED vars
  <2>1. UNCHANGED <<tree, touched>>
      BY <1>2 DEF Load, vars, disk, InspectRoot, VisitDirectory, CannotList,
            BreakListing, InspectChild, FollowLink, EndScan, Probe, EndProbe, SkipShallow,
            ValidateFiles, ReadMetadata, ReadContent, Publish
  <2> QED
      BY <1>2, <2>1, DiagnosticsGrow, LoaderDisturbsNothing
<1> QED
    BY <1>1, <1>2

\* A promise is made for a directory, or for the root, and for its parent.
LEMMA PromisedPaths ==
    ASSUME TypeOK, NEW d \in Dirs, Promised(d)
    PROVE  /\ KindOf[d] \in {"dir", "link"} /\ KindOf[d] = tree[d].kind
           /\ d # Root => /\ Parent[d] \in Dirs /\ Promised(Parent[d])
                          /\ KindOf[Parent[d]] \in {"dir", "link"}
           /\ d # Root /\ KindOf[d] = "link" => report.diagnostics = {}
           /\ \/ report.diagnostics = {}
              \/ Reachable[d] /\ (d # Root => tree[Parent[d]].listing = "ok")
<1>1. Reachable[d] \/ (KindOf[d] \in {"dir", "link"} /\ report.diagnostics = {})
    BY DEF Promised
<1>2. Untouched[d]
    BY DEF Promised
<1>3. KindOf[d] \in {"dir", "link"} /\ KindOf[d] = tree[d].kind
    BY <1>1, ReachableIsDirectory, PathFacts
<1>4. d # Root => Parent[d] \in Dirs /\ Untouched[Parent[d]]
                    /\ KindOf[Parent[d]] \in {"dir", "link"}
    BY <1>2, <1>3, PathFacts
<1>5. d # Root /\ Reachable[d] => Reachable[Parent[d]] /\ tree[Parent[d]].listing = "ok"
    BY PathFacts
<1>6. d # Root => Promised(Parent[d])
    BY <1>1, <1>4, <1>5 DEF Promised
<1>7. d # Root /\ KindOf[d] = "link" => report.diagnostics = {}
    BY <1>1, ReachableIsDirectory
<1> QED
    BY <1>1, <1>3, <1>4, <1>5, <1>6, <1>7

\* When the queue is empty every promised directory has been in it: the
\* smallest that was not would have a parent that was.
LEMMA ScanIsComplete ==
    ASSUME TypeOK, Finding, EndScan
    PROVE  \A d \in Dirs : Promised(d) => d \in Listed
<1> DEFINE S == {d \in Dirs : Promised(d) /\ d \notin Listed}
<1> SUFFICES ASSUME S # {} PROVE FALSE
    OBVIOUS
<1>1. PICK m \in S : \A k \in S : m <= k
  <2>1. S \subseteq Nat
      BY PathsAssumption
  <2> QED
      BY <2>1, SmallestMember
<1>2. /\ pc = "scan" /\ children = {} /\ Visited = Listed
      /\ Root \in Listed
    BY LenProperties DEF EndScan, Visited, Listed, Finding, TypeOK
<1>3. m # Root
    BY <1>1, <1>2
<1>4. Parent[m] \in Dirs /\ Promised(Parent[m]) /\ Parent[m] < m
    BY <1>1, <1>3, PromisedPaths, PathsAssumption
<1>5. Parent[m] \in Nat /\ m \in Nat
    BY <1>1, <1>4, PathsAssumption
<1>6. Parent[m] \in Listed
    BY <1>1, <1>4, <1>5
<1>7. m \in Listed \cup children
    BY <1>1, <1>2, <1>3, <1>6 DEF Finding
<1> QED
    BY <1>1, <1>2, <1>7

\* The steps of the scan.
LEMMA FindingScan ==
    ASSUME TypeOK, Accounting, Finding
    PROVE  /\ InspectRoot => Finding'
           /\ VisitDirectory => Finding'
           /\ CannotList => Finding'
           /\ BreakListing => Finding'
           /\ InspectChild => Finding'
           /\ FollowLink => Finding'
           /\ EndScan => Finding'
<1> USE DEF disk, scan, work, base, Returned
<1>0. /\ report \in ReportType /\ directory_index \in Nat
      /\ directory_index <= Len(directories) /\ Len(directories) \in Nat
      /\ DOMAIN directories = 1..Len(directories)
      /\ \A i \in DOMAIN directories : directories[i] \in Dirs
    BY TreeTypes, LenProperties, ElementOfSeq DEF TypeOK
<1>a. ASSUME NEW about, FailRoot(about), ~report.root_available
      PROVE  Finding'
  <2>1. pc' = "done" /\ ~report'.root_available
      BY <1>0, <1>a, AddDiagnosticsEffect DEF FailRoot
  <2> QED
      BY <2>1 DEF Finding, Loading
<1>b. ASSUME CanVisit
      PROVE  /\ Visiting \in Dirs /\ Visiting \in Listed /\ children = {} /\ pc = "scan"
             /\ \A i \in 1..NextIndex : i \in 1..directory_index \/ directories[i] = Visiting
             /\ NextIndex = directory_index + 1
             /\ directory_index = 0 => ~report.root_available
  <2>1. directory_index + 1 \in DOMAIN directories
      BY <1>0, <1>b DEF CanVisit
  <2> QED
      BY <1>0, <1>b, <2>1 DEF CanVisit, Visiting, NextIndex, Listed, Accounting
<1>d. ASSUME pc = "scan", Undisturbed, UNCHANGED link
      PROVE  link' # Root /\ (Untouched[link])' => (KindOf[link])' # "dir"
    BY <1>d DEF Undisturbed, Finding, TypeOK
<1>c. ASSUME CanVisit, pc' = "scan", directory_index' = NextIndex,
             UNCHANGED <<directories, link>>, Undisturbed,
             \A c \in Dirs \ {Root} : Promised(c)' /\ Parent[c] = Visiting => c \in children'
      PROVE  Finding'
  <2>1. Listed' = Listed /\ Root \in Listed
      BY <1>b, <1>c DEF Listed, Finding
  <2>2. ASSUME NEW c \in Dirs \ {Root}, Promised(c)', Parent[c] \in Visited'
        PROVE  c \in Listed \cup children'
    <3>1. Parent[c] = Visiting \/ Parent[c] \in Visited
        BY <1>b, <1>c, <2>2 DEF Visited
    <3>2. Promised(c)
        BY <1>c, <2>2, UndisturbedPaths
    <3> QED
        BY <1>b, <1>c, <2>2, <3>1, <3>2 DEF Finding
  <2>3. link' # Root /\ (Untouched[link])' => (KindOf[link])' # "dir"
      BY <1>b, <1>c, <1>d
  <2> QED
      BY <1>c, <2>1, <2>2, <2>3 DEF Finding, Loading
<1>1. ASSUME InspectRoot PROVE Finding'
  <2>1. CASE FailRoot("root")
      BY <1>1, <2>1, <1>a DEF InspectRoot, Accounting
  <2>2. CASE pc' = "scan"
    <3>1. /\ directories' = <<Root>> /\ directory_index' = 0 /\ link' = Root
        BY <1>1, <2>2 DEF InspectRoot, Accounting, Finding
    <3>2. Root \in Listed' /\ Visited' = {}
        BY <3>1 DEF Listed, Visited
    <3> QED
        BY <2>2, <3>1, <3>2 DEF Finding, Loading
  <2> QED
      BY <1>1, <2>1, <2>2 DEF InspectRoot
<1>2. ASSUME VisitDirectory PROVE Finding'
  <2>1. /\ CanVisit /\ pc' = "scan" /\ directory_index' = NextIndex
        /\ UNCHANGED <<directories, link>> /\ children' = Children(Visiting)
      BY <1>2 DEF VisitDirectory, CanVisit
  <2>2. Undisturbed
      BY <1>2, StepUndisturbed DEF Load
  <2>3. ASSUME NEW c \in Dirs \ {Root}, Promised(c)', Parent[c] = Visiting
        PROVE  c \in children'
    <3>1. Promised(c)
        BY <2>2, <2>3, UndisturbedPaths
    <3>2. tree[c].kind \in {"dir", "link"}
        BY <3>1, PromisedPaths
    <3> QED
        BY <2>1, <2>3, <3>2 DEF Children
  <2> QED
      BY <1>c, <2>1, <2>2, <2>3
<1>3. ASSUME NEW listing \in {"closed", "breaks"}, CanVisit, ListingOf(Visiting) = listing,
             directory_index' = NextIndex, UNCHANGED <<pc, directories, link>>,
             Load,
             report' = AddDiagnostics(report, Warn(Visiting, "list"))
      PROVE  Finding'
  <2>1. report'.diagnostics # {}
      BY <1>0, <1>3, AddDiagnosticsEffect, WarnProperties
  <2>2. Undisturbed
      BY <1>3, StepUndisturbed
  <2>3. ASSUME NEW c \in Dirs \ {Root}, Promised(c)', Parent[c] = Visiting
        PROVE  FALSE
    <3>1. Promised(c)
        BY <2>2, <2>3, UndisturbedPaths
    <3>2. (Reachable[c])'
        BY <2>1, <2>3 DEF Promised
    <3>3. (Untouched[c])'
        BY <2>3 DEF Promised
    <3>4. Reachable[c]
        BY <2>2, <3>2, <3>3, Zenon DEF Undisturbed
    <3>5. tree[Visiting].listing = "ok" /\ KindOf[Visiting] \in {"dir", "link"}
        BY <2>3, <3>1, <3>4, PathFacts, PromisedPaths
    <3> QED
        BY <1>3, <3>5 DEF ListingOf
  <2> QED
      BY <1>3, <1>b, <1>c, <2>2, <2>3
<1>4. ASSUME CannotList PROVE Finding'
  <2>1. CASE FailRoot("list") /\ directory_index = 0
      BY <1>4, <2>1, <1>a, <1>b DEF CannotList
  <2>2. CASE /\ directory_index' = NextIndex /\ UNCHANGED pc
             /\ report' = AddDiagnostics(report, Warn(Visiting, "list"))
      BY <1>4, <2>2, <1>3 DEF CannotList, Load
  <2> QED
      BY <1>4, <2>1, <2>2 DEF CannotList, IndexAfterFailure
<1>5. ASSUME BreakListing PROVE Finding'
  <2>1. CASE FailRoot("list") /\ directory_index = 0
      BY <1>5, <2>1, <1>a, <1>b DEF BreakListing
  <2>2. CASE /\ directory_index' = NextIndex /\ UNCHANGED pc
             /\ report' = AddDiagnostics(report, Warn(Visiting, "list"))
      BY <1>5, <2>2, <1>3 DEF BreakListing, Load
  <2> QED
      BY <1>5, <2>1, <2>2 DEF BreakListing
<1>6. ASSUME InspectChild PROVE Finding'
  <2>1. PICK c \in children :
            IF IsLink(c)
            THEN link' = c /\ UNCHANGED <<children, directories, report>>
            ELSE /\ children' = children \ {c}
                 /\ directories' = IF KindOf[c] = "dir" THEN Append(directories, c)
                                                        ELSE directories
                 /\ report' = AddDiagnostics(report, InspectDiagnostics(c))
                 /\ UNCHANGED link
      BY <1>6 DEF InspectChild
  <2>2. /\ c \in Dirs /\ pc = "scan" /\ pc' = "scan" /\ link = Root
        /\ UNCHANGED directory_index
      BY <1>6, <2>1 DEF InspectChild, TypeOK
  <2>3. Undisturbed
      BY <1>6, StepUndisturbed DEF Load
  <2>4. /\ \A i \in DOMAIN directories : i \in DOMAIN directories' /\ directories'[i] = directories[i]
        /\ KindOf[c] = "dir" => c \in Listed'
    <3>1. CASE KindOf[c] = "dir"
      <4>1. /\ Len(Append(directories, c)) = Len(directories) + 1
            /\ DOMAIN Append(directories, c) = 1..(Len(directories) + 1)
            /\ \A i \in 1..Len(directories) : Append(directories, c)[i] = directories[i]
            /\ Append(directories, c)[Len(directories) + 1] = c
          BY <2>2, AppendProperties DEF TypeOK
      <4>2. directories' = Append(directories, c)
          BY <2>1, <3>1 DEF IsLink
      <4> QED
          BY <1>0, <3>1, <4>1, <4>2 DEF Listed
    <3>2. CASE KindOf[c] # "dir"
        BY <2>1, <3>2
    <3> QED
        BY <3>1, <3>2
  <2>5. Listed \subseteq Listed' /\ Visited' = Visited
    <3>1. \A i \in 1..directory_index : i \in DOMAIN directories
        BY <1>0
    <3> QED
        BY <2>2, <2>4, <3>1 DEF Listed, Visited
  <2>6. ASSUME NEW d \in Dirs \ {Root}, Promised(d)', Parent[d] \in Visited'
        PROVE  d \in Listed' \cup children'
    <3>1. Promised(d)
        BY <2>3, <2>6, UndisturbedPaths
    <3>2. d \in Listed \cup children
        BY <2>2, <2>5, <2>6, <3>1 DEF Finding
    <3>3. CASE d # c \/ IsLink(c)
        BY <2>1, <2>5, <3>2, <3>3
    <3>4. CASE d = c /\ ~IsLink(c)
      <4>1. KindOf[c] \in {"dir", "link"}
          BY <3>1, <3>4, PromisedPaths
      <4> QED
          BY <2>4, <3>4, <4>1 DEF IsLink
    <3> QED
        BY <3>3, <3>4
  <2>7. Root \in Listed'
      BY <2>2, <2>5 DEF Finding
  <2>8. link' # Root /\ (Untouched[link])' => (KindOf[link])' # "dir"
    <3>1. CASE ~IsLink(c)
        BY <2>1, <2>2, <3>1
    <3>2. CASE IsLink(c)
      <4>1. link' = c /\ KindOf[c] # "dir"
          BY <2>1, <3>2 DEF IsLink
      <4>2. (Untouched[link])' => (KindOf[link])' = KindOf[c]
          BY <2>2, <2>3, <4>1 DEF Undisturbed
      <4> QED
          BY <4>1, <4>2
    <3> QED
        BY <3>1, <3>2
  <2> QED
      BY <2>2, <2>6, <2>7, <2>8 DEF Finding, Loading
<1>8. ASSUME FollowLink PROVE Finding'
  <2>1. /\ children' = children \ {link} /\ link' = Root /\ link # Root
        /\ report' = AddDiagnostics(report, TargetDiagnostics(link))
        /\ pc = "scan" /\ pc' = "scan" /\ UNCHANGED <<directories, directory_index>>
        /\ link \in Dirs
      BY <1>8 DEF FollowLink, TypeOK
  <2>2. Undisturbed
      BY <1>8, StepUndisturbed DEF Load
  <2>3. Listed' = Listed /\ Visited' = Visited
      BY <2>1 DEF Listed, Visited
  <2>4. ASSUME NEW d \in Dirs \ {Root}, Promised(d)', Parent[d] \in Visited'
        PROVE  d \in Listed' \cup children'
    <3>1. Promised(d)
        BY <2>2, <2>4, UndisturbedPaths
    <3>2. d \in Listed \cup children
        BY <2>1, <2>3, <2>4, <3>1 DEF Finding
    <3>3. ASSUME d = link PROVE FALSE
      <4>1. KindOf[link] \in {"dir", "link"} /\ Untouched[link]
          BY <3>1, <3>3, PromisedPaths DEF Promised
      <4>2. TargetDiagnostics(link) = Warn(link, "link")
          BY <4>1 DEF TargetDiagnostics
      <4>3. report'.diagnostics # {}
          BY <1>0, <2>1, <4>2, AddDiagnosticsEffect, WarnProperties
      <4>4. (Reachable[d])' /\ (Untouched[d])'
          BY <2>4, <4>3 DEF Promised
      <4>5. Reachable[d]
          BY <2>2, <4>4, Zenon DEF Undisturbed
      <4>6. KindOf[link] = "dir"
          BY <2>4, <3>3, <4>5, ReachableIsDirectory
      <4> QED
          BY <2>1, <4>1, <4>6 DEF Finding
    <3> QED
        BY <2>1, <2>3, <3>2, <3>3
  <2>5. Root \in Listed'
      BY <2>1, <2>3 DEF Finding
  <2> QED
      BY <2>1, <2>4, <2>5 DEF Finding, Loading
<1>7. ASSUME EndScan PROVE Finding'
  <2>1. \A d \in Dirs : Promised(d) => d \in Listed
      BY <1>7, ScanIsComplete
  <2>2. Undisturbed
      BY <1>7, StepUndisturbed DEF Load
  <2>3. pc' = "probe" /\ Listed' = Listed /\ Visited' = {}
      BY <1>7 DEF EndScan, Listed, Visited
  <2>4. \A d \in Dirs : Promised(d)' => d \in Listed'
      BY <2>1, <2>2, <2>3, UndisturbedPaths
  <2> QED
      BY <2>3, <2>4 DEF Finding, Loading
<1> QED
    BY <1>1, <1>2, <1>4, <1>5, <1>6, <1>7, <1>8

\* The probes, the loading, and what the author does.
LEMMA FindingStep ==
    ASSUME TypeOK, Accounting, Finding, [Next]_vars
    PROVE  Finding'
<1> USE DEF disk, scan, work, base, Returned
<1>0. /\ directory_index \in Nat
      /\ directory_index <= Len(directories) /\ Len(directories) \in Nat
      /\ DOMAIN directories = 1..Len(directories)
      /\ \A i \in DOMAIN directories : directories[i] \in Dirs
    BY LenProperties, ElementOfSeq DEF TypeOK
<1>1. CASE \/ InspectRoot \/ VisitDirectory \/ CannotList \/ BreakListing
           \/ InspectChild \/ FollowLink \/ EndScan
    BY <1>1, FindingScan
<1>2. CASE Probe
  <2>1. Undisturbed
      BY <1>2, StepUndisturbed DEF Load
  <2>2. /\ pc = "probe" /\ pc' = "probe" /\ Listed' = Listed
        /\ candidates' = IF IsCandidate(Visiting) THEN candidates \cup {Visiting}
                                                  ELSE candidates
        /\ UNCHANGED directories /\ directory_index' = directory_index + 1
      BY <1>2 DEF Probe, Listed, NextIndex
  <2>3. \A d \in Visited' : d \in Dirs /\ (d = Visiting \/ d \in Visited)
    <3>1. \A i \in 1..(directory_index + 1) : i \in DOMAIN directories
        BY <1>0, <1>2 DEF Probe
    <3> QED
        BY <1>0, <2>2, <3>1 DEF Visited, Visiting
  <2>4. ASSUME NEW d \in Visited', Promised(d)', IsCandidate(d)'
        PROVE  d \in candidates'
    <3>1. Promised(d) /\ IsCandidate(d)
        BY <2>1, <2>3, <2>4, UndisturbedPaths
    <3> QED
        BY <2>2, <2>3, <3>1 DEF Finding
  <2>5. \A d \in Dirs : Promised(d)' => d \in Listed'
      BY <2>1, <2>2, UndisturbedPaths DEF Finding
  <2> QED
      BY <2>2, <2>4, <2>5 DEF Finding, Loading
<1>3. CASE EndProbe
  <2>1. Undisturbed
      BY <1>3, StepUndisturbed DEF Load
  <2>2. /\ pc = "probe" /\ pc' = "load" /\ Listed = Visited /\ UNCHANGED candidates
      BY <1>0, <1>3 DEF EndProbe, Listed, Visited
  <2>3. ASSUME NEW d \in Dirs, Promised(d)', IsCandidate(d)'
        PROVE  d \in candidates'
    <3>1. Promised(d) /\ IsCandidate(d)
        BY <2>1, <2>3, UndisturbedPaths
    <3> QED
        BY <2>2, <3>1 DEF Finding
  <2> QED
      BY <2>2, <2>3 DEF Finding, Loading
<1>4. CASE SkipShallow \/ ValidateFiles \/ ReadMetadata \/ ReadContent \/ Publish
  <2>1. Undisturbed
      BY <1>4, StepUndisturbed DEF Load
  <2>2. Loading /\ UNCHANGED candidates /\ pc' \in {"load", "meta", "content", "done"}
      BY <1>4 DEF SkipShallow, ValidateFiles, ReadMetadata, ReadContent, Publish, Loading
  <2>3. \A d \in Dirs : Promised(d)' /\ IsCandidate(d)' => d \in candidates'
      BY <2>1, <2>2, UndisturbedPaths DEF Finding
  <2> QED
      BY <2>2, <2>3 DEF Finding, Loading
<1>5. CASE Begin
    BY <1>5 DEF Begin, Finding, Loading
<1>6. CASE Edit \/ UNCHANGED vars
  <2>1. Undisturbed
      BY <1>6, StepUndisturbed
  <2>2. /\ UNCHANGED <<pc, directories, children, link, candidates, report>>
        /\ Listed' = Listed /\ Visited' = Visited
      BY <1>6 DEF Edit, vars, Listed, Visited
  <2>3. \A d \in Dirs : /\ Promised(d)' => Promised(d)
                        /\ Promised(d)' => (IsCandidate(d)' <=> IsCandidate(d))
      BY <2>1, UndisturbedPaths
  <2>4. Visited \subseteq Dirs
      BY <1>0 DEF Visited
  <2>5. pc = "scan" /\ link' # Root /\ (Untouched[link])' => (KindOf[link])' # "dir"
      BY <2>1, <2>2 DEF Undisturbed, Finding, TypeOK
  <2> QED
      BY <2>2, <2>3, <2>4, <2>5 DEF Finding, Loading
<1> QED
    BY <1>1, <1>2, <1>3, <1>4, <1>5, <1>6 DEF Next, Load

\* A file of a reachable directory is what its status says.
LEMMA FilesOfReachable ==
    ASSUME TypeOK, NEW d \in Dirs, LeftAlone(d), NEW f
    PROVE  FileIn(d, f) = f.file
<1>1. KindOf[d] \in {"dir", "link"}
    BY ReachableIsDirectory DEF LeftAlone
<1>2. ~(KindOf[d] \in {"dir", "link"} /\ KindOf[d] \in {"absent", "dangling"})
    OBVIOUS
<1> QED
    BY <1>1, <1>2, Zenon DEF FileIn

\* A well formed entry that is left alone passes every check of the loader.
LEMMA GoodPasses ==
    ASSUME TypeOK, NEW d \in Dirs, LeftAlone(d), WellFormed(d)
    PROVE  /\ ~TooShallow(d)
           /\ IsRegularFile(d, tree[d].meta) /\ IsRegularFile(d, tree[d].content)
           /\ Opens(d, tree[d].meta) /\ tree[d].meta.text = "accepted"
           /\ Opens(d, tree[d].content) /\ tree[d].content.text = "text"
           /\ IsCandidate(d)
<1>1. /\ FileIn(d, tree[d].meta) = "regular" /\ FileIn(d, tree[d].content) = "regular"
    BY FilesOfReachable DEF WellFormed
<1> QED
    BY <1>1 DEF WellFormed, IsRegularFile, Opens, IsCandidate, PathIsPresent

\* The steps that load an entry.
LEMMA SurvivingEntries ==
    ASSUME TypeOK, Surviving
    PROVE  /\ SkipShallow => Surviving'
           /\ ValidateFiles => Surviving'
           /\ ReadMetadata => Surviving'
           /\ ReadContent => Surviving'
<1> USE DEF disk, scan, work, base, Returned
<1>0. /\ pending \subseteq candidates /\ candidates \subseteq Dirs /\ current \in Dirs
      /\ candidates \subseteq Nat /\ current \in Nat
      /\ entries \in Seq(Entries) /\ DOMAIN entries = 1..Len(entries)
      /\ Len(entries) \in Nat /\ Sources \subseteq Dirs
      /\ \A i \in DOMAIN entries : entries[i] \in Entries
  <2>1. /\ entries \in Seq(Entries) /\ DOMAIN entries = 1..Len(entries)
        /\ Len(entries) \in Nat
      BY TreeTypes
  <2>2. \A i \in DOMAIN entries : entries[i] \in Entries
      BY <2>1, ElementOfSeq
  <2>3. Sources \subseteq Dirs
      BY <2>2 DEF Sources, Entries
  <2>4. /\ pending \subseteq candidates /\ candidates \subseteq Dirs /\ current \in Dirs
      BY DEF TypeOK
  <2> QED
      BY <2>1, <2>2, <2>3, <2>4, PathsAssumption
<1>a. ASSUME SkipShallow \/ ValidateFiles \/ ReadMetadata \/ ReadContent
      PROVE  /\ Loading /\ UNCHANGED <<tree, touched, candidates>>
             /\ pc' \in {"load", "meta", "content"}
             /\ \A d \in Dirs : /\ LeftAlone(d)' => LeftAlone(d)
                                /\ LeftAlone(d)' => (WellFormed(d)' <=> WellFormed(d))
  <2>1. Undisturbed
      BY <1>a, StepUndisturbed DEF Load
  <2> QED
      BY <1>a, <2>1, UndisturbedPaths
      DEF SkipShallow, ValidateFiles, ReadMetadata, ReadContent, Loading
<1>b. ASSUME SkipShallow \/ ValidateFiles \/ ReadMetadata \/ ReadContent,
             UNCHANGED entries, InHand' \cup pending' \subseteq InHand \cup pending,
             \A c \in InHand', d \in pending' : c < d,
             \A d \in (pending \cup InHand) \ (pending' \cup InHand') :
                LeftAlone(d) /\ WellFormed(d) => Survives(d),
             pc' \in {"meta", "content"} /\ LeftAlone(current') =>
                ~TooShallow(current') /\ BothRegular(current'),
             pc' = "content" /\ LeftAlone(current') =>
                /\ tree[current'].meta.text = "accepted"
                /\ draft'.id = tree[current'].meta.id,
             current' \in Dirs
      PROVE  Surviving'
  <2>1. Sources' = Sources
      BY <1>b DEF Sources
  <2>2. /\ \A d \in Dirs : Survives(d)' <=> Survives(d)
        /\ \A d \in Dirs : BothRegular(d)' <=> BothRegular(d)
      BY <1>a, <1>b DEF Survives, BothRegular
  <2>3. /\ pc' \in {"meta", "content"} /\ LeftAlone(current)' =>
            ~TooShallow(current') /\ BothRegular(current)'
        /\ pc' = "content" /\ LeftAlone(current)' =>
            tree'[current'].meta.text = "accepted" /\ draft'.id = tree'[current'].meta.id
    <3>1. LeftAlone(current)' => LeftAlone(current')
      <4>1. Reachable' = Reachable /\ Untouched' = Untouched
        <5>1. UNCHANGED <<tree, touched>>
            BY <1>a, <1>b
        <5> QED
            BY <5>1, RecursiveForms
      <4> QED
          BY <4>1, Zenon DEF LeftAlone
    <3>2. BothRegular(current)' <=> BothRegular(current')
        BY <1>a, <1>b DEF BothRegular
    <3>3. tree' = tree
        BY <1>a, <1>b
    <3> QED
        BY <1>b, <3>1, <3>2, <3>3
  <2>4. \A d \in Sources' : LeftAlone(d)' => WellFormed(d)'
      BY <1>0, <1>a, <1>b, <2>1 DEF Surviving
  <2>5. ASSUME NEW d \in candidates', LeftAlone(d)', WellFormed(d)'
        PROVE  d \in pending' \cup InHand' \/ Survives(d)'
    <3>1. d \in candidates /\ d \in Dirs /\ LeftAlone(d) /\ WellFormed(d)
        BY <1>0, <1>a, <1>b, <2>5
    <3>2. d \in pending \cup InHand \/ Survives(d)
        BY <1>a, <1>b, <3>1 DEF Surviving
    <3> QED
        BY <1>b, <2>2, <3>1, <3>2
  <2>6. \A s \in Sources', d \in pending' \cup InHand' : s < d
      BY <1>a, <1>b, <2>1 DEF Surviving
  <2>7. pc' # "done" /\ Loading'
      BY <1>a, <1>b DEF Loading
  <2> QED
      BY <1>b, <2>3, <2>4, <2>5, <2>6, <2>7 DEF Surviving
<1>1. ASSUME SkipShallow PROVE Surviving'
  <2>1. PICK d \in pending : pending' = pending \ {d} /\ TooShallow(d)
      BY <1>1 DEF SkipShallow
  <2>2. /\ pc = "load" /\ pc' = "load" /\ UNCHANGED <<entries, current>>
        /\ InHand = {} /\ InHand' = {}
      BY <1>1 DEF SkipShallow, InHand
  <2>3. ~(LeftAlone(d) /\ WellFormed(d))
      BY <2>1 DEF WellFormed
  <2> QED
      BY <1>0, <1>1, <1>b, <2>1, <2>2, <2>3
<1>2. ASSUME ValidateFiles PROVE Surviving'
  <2>1. PICK d \in pending :
            /\ First(d) /\ ~TooShallow(d)
            /\ pending' = pending \ {d} /\ current' = d
            /\ IF IsRegularFile(d, tree[d].meta) /\ IsRegularFile(d, tree[d].content)
               THEN pc' = "meta" ELSE pc' = pc
      BY <1>2, Zenon DEF ValidateFiles
  <2>2. /\ pc = "load" /\ UNCHANGED entries /\ InHand = {}
      BY <1>2 DEF ValidateFiles, InHand
  <2>3. d \in Dirs /\ d \in Nat
      BY <1>0, <2>1
  <2>4. CASE /\ pc' = "meta" /\ IsRegularFile(d, tree[d].meta)
             /\ IsRegularFile(d, tree[d].content)
    <3>1. InHand' = {d}
        BY <2>1, <2>4 DEF InHand
    <3>2. \A other \in pending' : d < other
        BY <1>0, <2>1, <2>3 DEF First
    <3>3. LeftAlone(d) => BothRegular(d)
        BY <2>3, <2>4, FilesOfReachable DEF IsRegularFile, BothRegular
    <3>4. /\ pc' # "content" /\ current' = d /\ d \in Dirs
          /\ InHand' \cup pending' \subseteq InHand \cup pending
          /\ (pending \cup InHand) \ (pending' \cup InHand') = {}
        BY <2>1, <2>2, <2>3, <2>4, <3>1
    <3> QED
        BY <1>2, <1>b, <2>1, <2>2, <3>1, <3>2, <3>3, <3>4
  <2>5. CASE /\ pc' = "load"
             /\ ~(IsRegularFile(d, tree[d].meta) /\ IsRegularFile(d, tree[d].content))
    <3>1. InHand' = {}
        BY <2>5 DEF InHand
    <3>2. ~(LeftAlone(d) /\ WellFormed(d))
        BY <2>3, <2>5, GoodPasses
    <3> QED
        BY <1>2, <1>b, <2>1, <2>2, <2>3, <2>5, <3>1, <3>2
  <2> QED
      BY <2>1, <2>2, <2>4, <2>5
<1>3. ASSUME ReadMetadata PROVE Surviving'
  <2>1. /\ pc = "meta" /\ UNCHANGED <<pending, current, entries>>
        /\ InHand = {current}
      BY <1>3 DEF ReadMetadata, InHand
  <2>2. /\ LeftAlone(current) => ~TooShallow(current) /\ BothRegular(current)
        /\ \A d \in pending : current < d
      BY <2>1 DEF Surviving, Loading
  <2>3. CASE /\ pc' = "content" /\ tree[current].meta.text = "accepted"
             /\ draft' = [id |-> tree[current].meta.id, related |-> tree[current].meta.related]
    <3>1. InHand' = {current} /\ draft'.id = tree[current].meta.id
        BY <2>1, <2>3 DEF InHand
    <3> QED
        BY <1>0, <1>3, <1>b, <2>1, <2>2, <2>3, <3>1
  <2>4. CASE pc' = "load" /\ ~(Opens(current, tree[current].meta) /\ tree[current].meta.text = "accepted")
    <3>1. InHand' = {}
        BY <2>4 DEF InHand
    <3>2. ~(LeftAlone(current) /\ WellFormed(current))
        BY <1>0, <2>4, GoodPasses
    <3> QED
        BY <1>0, <1>3, <1>b, <2>1, <2>4, <3>1, <3>2
  <2> QED
    <3>1. \/ /\ pc' = "content" /\ tree[current].meta.text = "accepted"
             /\ draft' = [id |-> tree[current].meta.id, related |-> tree[current].meta.related]
          \/ pc' = "load" /\ ~(Opens(current, tree[current].meta) /\ tree[current].meta.text = "accepted")
        BY <1>3, Zenon DEF ReadMetadata
    <3> QED
        BY <2>3, <2>4, <3>1
<1>4. ASSUME ReadContent PROVE Surviving'
  <2> DEFINE new == [id |-> draft.id, source_directory |-> current,
                     related |-> draft.related]
             c == tree[current].content
  <2>1. /\ pc = "content" /\ pc' = "load" /\ UNCHANGED <<pending, current, draft>>
        /\ InHand = {current} /\ InHand' = {}
      BY <1>4 DEF ReadContent, InHand
  <2>2. /\ LeftAlone(current) =>
            /\ ~TooShallow(current) /\ BothRegular(current)
            /\ tree[current].meta.text = "accepted" /\ draft.id = tree[current].meta.id
        /\ \A d \in pending : current < d
        /\ \A s \in Sources, d \in pending \cup {current} : s < d
      BY <2>1 DEF Surviving, Loading
  <2>3. CASE Opens(current, c) /\ c.text = "text" /\ entries' = Append(entries, new)
    <3>1. new \in Entries /\ new.source_directory = current /\ new.id = draft.id
        BY DEF Entries, TypeOK
    <3>2. /\ DOMAIN entries' = 1..(Len(entries) + 1)
          /\ \A i \in DOMAIN entries : entries'[i] = entries[i]
          /\ entries'[Len(entries) + 1] = new
      <4> HIDE DEF new
      <4> QED
          BY <1>0, <2>3, <3>1
    <3>3. Sources' = Sources \cup {current}
        BY <1>0, <3>1, <3>2 DEF Sources
    <3>4. LeftAlone(current) => WellFormed(current)
        BY <2>2, <2>3 DEF WellFormed, BothRegular
    <3>5. LeftAlone(current) => Survives(current)'
        BY <1>0, <1>4, <1>a, <2>1, <2>2, <3>1, <3>2 DEF Survives
    <3>6. \A d \in Dirs : Survives(d) => Survives(d)'
        BY <1>0, <1>4, <1>a, <3>2 DEF Survives
    <3>7. ASSUME NEW d \in candidates', LeftAlone(d)', WellFormed(d)'
          PROVE  d \in pending' \cup InHand' \/ Survives(d)'
      <4>1. d \in candidates /\ d \in Dirs /\ LeftAlone(d) /\ WellFormed(d)
          BY <1>0, <1>4, <1>a, <3>7
      <4>2. d \in pending \/ d = current \/ Survives(d)
          BY <2>1, <4>1 DEF Surviving, Loading
      <4> QED
          BY <2>1, <3>5, <3>6, <4>1, <4>2
    <3>8. \A d \in Sources' : LeftAlone(d)' => WellFormed(d)'
      <4>1. \A d \in Sources' : d \in Dirs /\ (LeftAlone(d) => WellFormed(d))
          BY <1>0, <3>3, <3>4 DEF Surviving
      <4> QED
          BY <1>4, <1>a, <4>1
    <3>9. \A s \in Sources', d \in pending' \cup InHand' : s < d
        BY <2>1, <2>2, <3>3
    <3> QED
        BY <2>1, <3>7, <3>8, <3>9 DEF Surviving, Loading
  <2>4. CASE UNCHANGED entries /\ ~(Opens(current, c) /\ c.text = "text")
    <3>1. ~(LeftAlone(current) /\ WellFormed(current))
        BY <1>0, <2>4, GoodPasses
    <3> QED
        BY <1>0, <1>4, <1>b, <2>1, <2>4, <3>1
  <2>5. CASE UNCHANGED entries /\ Taken(draft.id)
    <3>1. PICK i \in DOMAIN entries : entries[i].id = draft.id
        BY <2>5 DEF Taken, LoadedIds
    <3>2. entries[i].source_directory <= current
      <4>1. entries[i].source_directory \in Sources
          BY DEF Sources
      <4>2. entries[i].source_directory \in Nat
          BY <1>0, <4>1, PathsAssumption
      <4> QED
          BY <1>0, <2>2, <4>1, <4>2
    <3>3. LeftAlone(current) => Survives(current)
        BY <2>2, <3>1, <3>2 DEF Survives
    <3> QED
        BY <1>0, <1>4, <1>b, <2>1, <2>5, <3>3
  <2> QED
    <3>1. \/ Opens(current, c) /\ c.text = "text" /\ entries' = Append(entries, new)
          \/ UNCHANGED entries /\ ~(Opens(current, c) /\ c.text = "text")
          \/ UNCHANGED entries /\ Taken(draft.id)
        BY <1>4 DEF ReadContent
    <3> QED
        BY <2>3, <2>4, <2>5, <3>1
<1> QED
    BY <1>1, <1>2, <1>3, <1>4

\* A load that fails returns without a root.
LEMMA FailsWithoutRoot ==
    ASSUME TypeOK, Accounting, pc' = "done",
           InspectRoot \/ CannotList \/ BreakListing
    PROVE  ~report'.root_available
<1>1. PICK about : FailRoot(about)
  <2>1. pc # "done"
      BY DEF InspectRoot, CannotList, BreakListing, CanVisit
  <2> QED
      BY <2>1 DEF InspectRoot, CannotList, BreakListing
<1>2. ~report.root_available
  <2>1. pc = "root" \/ (pc = "scan" /\ directory_index = 0)
    <3>1. pc # "done"
        BY DEF InspectRoot, CannotList, BreakListing, CanVisit
    <3> QED
        BY <3>1 DEF InspectRoot, CannotList, BreakListing, CanVisit
  <2> QED
      BY <2>1 DEF Accounting
<1> QED
    BY <1>1, <1>2, TreeTypes, AddDiagnosticsEffect DEF FailRoot

\* What became of the good entries is an invariant.
LEMMA SurvivingStep ==
    ASSUME TypeOK, Accounting, Surviving, [Next]_vars
    PROVE  Surviving'
<1> USE DEF disk, scan, work, base, Returned
<1>0. /\ pending \subseteq candidates /\ candidates \subseteq Dirs /\ current \in Dirs
      /\ entries \in Seq(Entries) /\ DOMAIN entries = 1..Len(entries)
      /\ Sources \subseteq Dirs
  <2>1. entries \in Seq(Entries) /\ DOMAIN entries = 1..Len(entries)
      BY TreeTypes
  <2>2. \A i \in DOMAIN entries : entries[i] \in Entries
      BY <2>1, ElementOfSeq
  <2>3. Sources \subseteq Dirs
      BY <2>2 DEF Sources, Entries
  <2> QED
      BY <2>1, <2>3 DEF TypeOK
<1>1. CASE \/ InspectRoot \/ VisitDirectory \/ CannotList \/ BreakListing
           \/ InspectChild \/ FollowLink \/ EndScan \/ Probe
  <2>1. /\ pc' \in {"scan", "probe", "done"}
        /\ pc' = "done" => InspectRoot \/ CannotList \/ BreakListing
        /\ pc \in {"root", "scan", "probe"} /\ UNCHANGED entries
      BY <1>1 DEF InspectRoot, VisitDirectory, CannotList, BreakListing,
            InspectChild, FollowLink, EndScan, Probe, FailRoot, CanVisit
  <2>2. Sources' = {}
      BY <2>1 DEF Accounting, Sources
  <2>3. pc' = "done" => ~report'.root_available
      BY <2>1, FailsWithoutRoot
  <2> QED
      BY <2>1, <2>2, <2>3 DEF Surviving, Loading
<1>2. CASE EndProbe
  <2>1. /\ pc' = "load" /\ pending' = candidates /\ UNCHANGED candidates
        /\ InHand' = {}
      BY <1>2 DEF EndProbe, InHand
  <2>2. Sources' = {}
      BY <1>2 DEF EndProbe, Accounting, Sources
  <2> QED
      BY <2>1, <2>2 DEF Surviving, Loading
<1>3. CASE SkipShallow \/ ValidateFiles \/ ReadMetadata \/ ReadContent
    BY <1>3, SurvivingEntries
<1>4. CASE Publish
  <2>1. PICK sorted \in Sortings(entries, ById) : entries' = sorted
      BY <1>4, PublishEffect
  <2>2. PICK p \in [DOMAIN entries -> DOMAIN entries] :
            /\ \A j \in DOMAIN entries : \E i \in DOMAIN entries : p[i] = j
            /\ \A i \in DOMAIN entries : sorted[i] = entries[p[i]]
    <3>1. Permutes(entries, sorted)
        BY <1>0, SortingProperties
    <3> QED
        BY <3>1 DEF Permutes
  <2>3. DOMAIN sorted = DOMAIN entries
      BY <1>0, SortingProperties
  <2>4. Sources' \subseteq Sources
      BY <2>1, <2>2, <2>3 DEF Sources
  <2>5. Undisturbed
      BY <1>4, StepUndisturbed DEF Load
  <2>6. \A d \in Dirs : /\ LeftAlone(d)' => LeftAlone(d)
                        /\ LeftAlone(d)' => (WellFormed(d)' <=> WellFormed(d))
      BY <2>5, UndisturbedPaths
  <2>7. /\ pc = "load" /\ pc' = "done" /\ pending = {} /\ InHand = {}
        /\ UNCHANGED <<tree, candidates>>
      BY <1>4 DEF Publish, InHand
  <2>8. \A d \in Dirs : Survives(d) => Survives(d)'
      BY <2>1, <2>2, <2>3, <2>7 DEF Survives
  <2>9. \A d \in candidates' : LeftAlone(d)' /\ WellFormed(d)' => Survives(d)'
      BY <1>0, <2>6, <2>7, <2>8 DEF Surviving, Loading
  <2>10. \A d \in Sources' : LeftAlone(d)' => WellFormed(d)'
      BY <1>0, <2>4, <2>6 DEF Surviving
  <2> QED
      BY <2>7, <2>9, <2>10 DEF Surviving, Loading
<1>5. CASE Begin
  <2>1. pc' = "root" /\ entries' = <<>>
      BY <1>5 DEF Begin, ClearBase
  <2>2. Sources' = {}
      BY <2>1 DEF Sources
  <2> QED
      BY <2>1, <2>2 DEF Surviving, Loading
<1>6. CASE Edit \/ UNCHANGED vars
  <2>1. Undisturbed
      BY <1>6, StepUndisturbed
  <2>2. /\ UNCHANGED <<pc, candidates, pending, current, draft, entries, report>>
        /\ InHand' = InHand /\ Sources' = Sources
      BY <1>6 DEF Edit, vars, InHand, Sources
  <2>3. \A d \in Dirs : /\ LeftAlone(d)' => LeftAlone(d) /\ tree'[d] = tree[d]
                        /\ LeftAlone(d)' => (WellFormed(d)' <=> WellFormed(d))
      BY <2>1, UndisturbedPaths
  <2>4. \A d \in Dirs : LeftAlone(d)' =>
            /\ Survives(d) => Survives(d)'
            /\ BothRegular(d) => BothRegular(d)'
            /\ TooShallow(d)' <=> TooShallow(d)
      BY <2>2, <2>3 DEF Survives, BothRegular, TooShallow
  <2>5. /\ pc \in {"meta", "content"} /\ LeftAlone(current)' =>
                ~TooShallow(current)' /\ BothRegular(current)'
        /\ pc = "content" /\ LeftAlone(current)' =>
            /\ tree'[current].meta.text = "accepted"
            /\ draft.id = tree'[current].meta.id
    <3> SUFFICES ASSUME NEW c \in Dirs, c = current, LeftAlone(c)'
                 PROVE  /\ pc \in {"meta", "content"} =>
                            ~TooShallow(c)' /\ BothRegular(c)'
                        /\ pc = "content" => /\ tree'[c].meta.text = "accepted"
                                             /\ draft.id = tree'[c].meta.id
        BY <1>0, <2>2 DEF LeftAlone, BothRegular, TooShallow
    <3>1. LeftAlone(c) /\ tree'[c] = tree[c]
        BY <2>3
    <3>2. /\ pc \in {"meta", "content"} => ~TooShallow(c) /\ BothRegular(c)
          /\ pc = "content" => tree[c].meta.text = "accepted" /\ draft.id = tree[c].meta.id
        BY <3>1 DEF Surviving
    <3> QED
        BY <2>4, <3>1, <3>2
  <2>6. \A d \in Sources' : LeftAlone(d)' => WellFormed(d)'
      BY <1>0, <2>2, <2>3 DEF Surviving
  <2>7. Loading /\ Loading' =>
            \A d \in candidates' : LeftAlone(d)' /\ WellFormed(d)' =>
                d \in pending' \cup InHand' \/ Survives(d)'
      BY <1>0, <2>2, <2>3, <2>4 DEF Surviving
  <2>8. Returned' /\ report'.root_available =>
            \A d \in candidates' : LeftAlone(d)' /\ WellFormed(d)' => Survives(d)'
      BY <1>0, <2>2, <2>3, <2>4 DEF Surviving
  <2> QED
      BY <2>2, <2>5, <2>6, <2>7, <2>8 DEF Surviving, Loading
<1> QED
    BY <1>1, <1>2, <1>3, <1>4, <1>5, <1>6 DEF Next, Load

\* Whatever the tree, the defects elsewhere and the edits elsewhere.
THEOREM SurvivingHolds == Spec => [](Finding /\ Surviving)
<1>1. Init => Finding /\ Surviving
  <2> SUFFICES ASSUME Init PROVE Finding /\ Surviving
      OBVIOUS
  <2>1. pc = "idle" /\ Sources = {}
      BY DEF Init, Sources
  <2> QED
      BY <2>1 DEF Finding, Surviving, Loading, Returned
<1> QED
    BY <1>1, FindingStep, SurvivingStep, TypeCorrectness, AccountingHolds, PTL DEF Spec

\* A good entry is in the base whatever is wrong elsewhere.
THEOREM GoodEntriesAlwaysSurvive == Spec => []GoodEntriesSurvive
<1>1. TypeOK /\ Finding /\ Surviving => GoodEntriesSurvive
  <2> SUFFICES ASSUME TypeOK, Finding, Surviving, Returned, report.root_available,
                      NEW d \in Dirs, Untouched[d], Reachable[d]
               PROVE  /\ WellFormed(d) => Survives(d)
                      /\ d \in Sources => WellFormed(d)
      BY DEF GoodEntriesSurvive, Survives
  <2>1. LeftAlone(d) /\ Promised(d)
      BY DEF LeftAlone, Promised
  <2>2. WellFormed(d) => d \in candidates
      BY <2>1, GoodPasses DEF Finding
  <2> QED
      BY <2>1, <2>2 DEF Surviving
<1> QED
    BY <1>1, SurvivingHolds, TypeCorrectness, PTL

\* A report without a diagnostic accounts for every entry left alone.
THEOREM CleanReportsAreComplete == Spec => []CleanReportIsComplete
<1>1. Accounting /\ Finding /\ Explaining => CleanReportIsComplete
  <2> SUFFICES ASSUME Accounting, Finding, Explaining, Returned, ~HasIssues(report),
                      NEW d \in Dirs, Untouched[d], KindOf[d] = "dir", IsCandidate(d)
               PROVE  d \in Sources
      BY DEF CleanReportIsComplete
  <2>1. report.diagnostics = {}
      BY DEF HasIssues
  <2>2. report.root_available
      BY <2>1 DEF Accounting, AvailabilityIsErrorFree
  <2>3. d \in candidates
      BY <2>1, <2>2 DEF Finding, Promised
  <2>4. Complaints(d) = {}
      BY <2>1 DEF Complaints
  <2> QED
      BY <2>3, <2>4 DEF Explaining, SkipsAreDiagnosed
<1> QED
    BY <1>1, SurvivingHolds, AccountingHolds, ExplainingHolds, PTL

-----------------------------------------------------------------------------
(* References between entries.                                             *)

\* The source directories stay distinct, as entries are taken in path order,
\* and nothing is said of a reference before the whole base is there.
LEMMA JudgingStep ==
    ASSUME TypeOK, Accounting, Surviving, Judging, [Next]_vars
    PROVE  Judging'
<1> USE DEF disk, scan, work, base, Returned
<1> DEFINE Apart(es) == \A i, j \in DOMAIN es :
                i # j => es[i].source_directory # es[j].source_directory
           Silent(r) == \A x \in r.diagnostics : x.about # "related"
<1>0. /\ report \in ReportType
      /\ entries \in Seq(Entries) /\ DOMAIN entries = 1..Len(entries)
      /\ Len(entries) \in Nat
      /\ \A i \in DOMAIN entries : entries[i].source_directory \in Nat
  <2>1. entries \in Seq(Entries) /\ DOMAIN entries = 1..Len(entries)
      BY TreeTypes
  <2>2. \A i \in DOMAIN entries : entries[i] \in Entries
      BY <2>1, ElementOfSeq
  <2> QED
      BY <2>1, <2>2, TreeTypes, PathsAssumption DEF Entries
<1>a. ASSUME NEW ds, report' = AddDiagnostics(report, ds), Silent(report),
             \A x \in ds : x.about # "related"
      PROVE  Silent(report')
    BY <1>0, <1>a, AddDiagnosticsEffect
<1>b. ASSUME NEW ds \in SUBSET Diagnostics, report' = Skip(report, ds), Silent(report),
             \A x \in ds : x.about # "related"
      PROVE  Silent(report')
    BY <1>0, <1>b, SkipEffect
<1>1. CASE \/ InspectRoot \/ VisitDirectory \/ CannotList \/ BreakListing
           \/ InspectChild \/ FollowLink \/ EndScan \/ Probe \/ EndProbe
  <2>1. /\ entries = <<>> /\ UNCHANGED entries /\ pc # "done"
      BY <1>1 DEF InspectRoot, VisitDirectory, CannotList, BreakListing,
            InspectChild, FollowLink, EndScan, Probe, EndProbe, FailRoot, CanVisit,
            Accounting
  <2>2. Silent(report')
    <3>1. CASE VisitDirectory \/ EndScan \/ Probe \/ EndProbe
      <4>1. report'.diagnostics = report.diagnostics
          BY <1>0, <3>1 DEF VisitDirectory, EndScan, Probe, EndProbe, ReportType
      <4> QED
          BY <2>1, <4>1 DEF Judging
    <3>2. CASE InspectRoot \/ CannotList \/ BreakListing \/ InspectChild \/ FollowLink
      <4>1. \A d, about : about # "related" =>
                \A x \in Warn(d, about) \cup {Diag(d, "error", about)} : x.about # "related"
          BY DEF Warn, Diag
      <4>2. \A c : \A x \in InspectDiagnostics(c) \cup TargetDiagnostics(c) :
                x.about # "related"
          BY <4>1 DEF InspectDiagnostics, TargetDiagnostics
      <4> HIDE DEF Silent
      <4>3. Silent(report)
          BY <2>1 DEF Judging, Silent
      <4>4. CASE UNCHANGED report
          BY <4>3, <4>4
      <4>5. CASE report' = AddDiagnostics(report, {Diag(Root, "error", "root")})
          BY <1>a, <4>1, <4>3, <4>5
      <4>6. CASE report' = AddDiagnostics(report, {Diag(Root, "error", "list")})
          BY <1>a, <4>1, <4>3, <4>6
      <4>7. CASE report' = AddDiagnostics(report, Warn(Visiting, "list"))
          BY <1>a, <4>1, <4>3, <4>7
      <4>8. CASE \E c : report' = AddDiagnostics(report, InspectDiagnostics(c))
          BY <1>a, <4>2, <4>3, <4>8
      <4>9. CASE \E c : report' = AddDiagnostics(report, TargetDiagnostics(c))
          BY <1>a, <4>2, <4>3, <4>9
      <4> QED
          BY <3>2, <4>4, <4>5, <4>6, <4>7, <4>8, <4>9
          DEF InspectRoot, CannotList, BreakListing, InspectChild, FollowLink, FailRoot
    <3> QED
        BY <1>1, <3>1, <3>2
  <2> QED
      BY <2>1, <2>2 DEF Judging, RelatedJudgedOnWholeBase
<1>2. CASE SkipShallow \/ ValidateFiles \/ ReadMetadata \/ ReadContent
  <2>1. pc # "done" /\ pc' # "done"
      BY <1>2 DEF SkipShallow, ValidateFiles, ReadMetadata, ReadContent
  <2>2. Silent(report')
    <3>1. Silent(report)
        BY <2>1 DEF Judging
    <3> HIDE DEF Silent
    <3>2. \A d, about : about # "related" => \A x \in Warn(d, about) : x.about # "related"
        BY DEF Warn, Diag
    <3>3. CASE UNCHANGED report
        BY <3>1, <3>3
    <3>4. CASE SkipShallow
        BY <1>b, <3>1, <3>2, <3>4, SkipStep
    <3>5. CASE ValidateFiles /\ ~UNCHANGED report
      <4>1. PICK d \in pending, ds \in SUBSET Diagnostics :
                report' = Skip(report, ds) /\ ds \subseteq Warn(d, "meta") \cup Warn(d, "content")
          BY <3>5, SkipStep
      <4>2. \A x \in ds : x.about # "related"
          BY <3>2, <4>1
      <4> QED
          BY <1>b, <3>1, <4>1, <4>2
    <3>6. CASE ReadMetadata
        BY <1>a, <1>b, <3>1, <3>2, <3>6, SkipStep
    <3>7. CASE ReadContent /\ ~UNCHANGED report
        BY <1>b, <3>1, <3>2, <3>7, SkipStep
    <3> QED
        BY <1>2, <3>3, <3>4, <3>5, <3>6, <3>7
  <2>3. Apart(entries')
    <3>1. CASE UNCHANGED entries
        BY <3>1 DEF Judging
    <3>2. CASE ReadContent /\ ~UNCHANGED entries
      <4> DEFINE new == [id |-> draft.id, source_directory |-> current,
                         related |-> draft.related]
      <4>1. entries' = Append(entries, new) /\ pc = "content"
          BY <3>2, SkipStep DEF ReadContent
      <4>2. new \in Entries /\ new.source_directory = current
          BY DEF Entries, TypeOK
      <4>3. /\ DOMAIN entries' = 1..(Len(entries) + 1)
            /\ \A i \in DOMAIN entries : entries'[i] = entries[i]
            /\ entries'[Len(entries) + 1] = new
        <5> HIDE DEF new
        <5> QED
            BY <1>0, <4>1, <4>2
      <4>4. \A i \in DOMAIN entries : entries[i].source_directory # current
        <5>1. \A s \in Sources : s < current
            BY <4>1 DEF Surviving, Loading, InHand
        <5>2. current \in Nat
            BY PathsAssumption DEF TypeOK
        <5>3. ASSUME NEW i \in DOMAIN entries
              PROVE  entries[i].source_directory \in Sources
            BY DEF Sources
        <5> QED
            BY <1>0, <5>1, <5>2, <5>3
      <4>5. Apart(entries)
          BY DEF Judging
      <4> HIDE DEF new
      <4> QED
          BY <1>0, <4>2, <4>3, <4>4, <4>5
    <3> QED
        BY <1>2, <3>1, <3>2 DEF SkipShallow, ValidateFiles, ReadMetadata
  <2> QED
      BY <2>1, <2>2, <2>3 DEF Judging, RelatedJudgedOnWholeBase
<1>3. CASE Publish
  <2>1. PICK sorted \in Sortings(entries, ById) :
            /\ sorted \in Seq(Entries) /\ entries' = sorted
            /\ report'.diagnostics = report.diagnostics
                    \cup RelatedDiagnostics(sorted, LookupOf(sorted))
      BY <1>3, PublishEffect
  <2>2. PICK p \in [DOMAIN entries -> DOMAIN entries] :
            /\ \A i, j \in DOMAIN entries : i # j => p[i] # p[j]
            /\ \A i \in DOMAIN entries : sorted[i] = entries[p[i]]
    <3>1. Permutes(entries, sorted)
        BY <1>0, SortingProperties
    <3> QED
        BY <3>1 DEF Permutes
  <2>3. DOMAIN sorted = DOMAIN entries
      BY <1>0, SortingProperties
  <2>4. Apart(sorted)
      BY <2>2, <2>3 DEF Judging
  <2>5. DOMAIN LookupOf(sorted) = LoadedIds'
    <3>1. LoadedIds' = {sorted[i].id : i \in DOMAIN sorted}
        BY <2>1 DEF LoadedIds
    <3> QED
        BY <2>1, <3>1, LookupOfType
  <2>6. Silent(report)
      BY <1>3 DEF Publish, Judging
  <2>7. ASSUME NEW i \in DOMAIN sorted
        PROVE  (\E x \in report'.diagnostics : /\ x.at = sorted[i].source_directory
                                               /\ x.about = "related")
               <=> ~(sorted[i].related \subseteq LoadedIds')
    <3>1. \A x : x \in RelatedDiagnostics(sorted, LookupOf(sorted)) <=>
            \E j \in DOMAIN sorted :
                /\ ~(sorted[j].related \subseteq LoadedIds')
                /\ x = Diag(sorted[j].source_directory, "warning", "related")
        BY <2>5 DEF RelatedDiagnostics
    <3>2. \A d : /\ Diag(d, "warning", "related").at = d
                 /\ Diag(d, "warning", "related").about = "related"
        BY DEF Diag
    <3>3. ASSUME ~(sorted[i].related \subseteq LoadedIds')
          PROVE  \E x \in report'.diagnostics : /\ x.at = sorted[i].source_directory
                                                /\ x.about = "related"
        BY <2>1, <3>1, <3>2, <3>3
    <3>4. ASSUME NEW x \in report'.diagnostics,
                 x.at = sorted[i].source_directory, x.about = "related"
          PROVE  ~(sorted[i].related \subseteq LoadedIds')
      <4>1. x \in RelatedDiagnostics(sorted, LookupOf(sorted))
          BY <2>1, <2>6, <3>4
      <4>2. PICK j \in DOMAIN sorted :
                /\ ~(sorted[j].related \subseteq LoadedIds')
                /\ x = Diag(sorted[j].source_directory, "warning", "related")
          BY <3>1, <4>1
      <4>3. sorted[j].source_directory = sorted[i].source_directory
          BY <3>2, <3>4, <4>2
      <4>4. i = j
          BY <2>4, <4>3
      <4> QED
          BY <4>2, <4>4
    <3> QED
        BY <3>3, <3>4
  <2>8. RelatedJudgedOnWholeBase'
      BY <2>1, <2>7 DEF RelatedJudgedOnWholeBase, Complaints
  <2> QED
      BY <1>3, <2>1, <2>4, <2>8 DEF Judging, Publish
<1>4. CASE Begin
  <2>1. entries' = <<>> /\ report' = EmptyReport /\ pc' = "root"
      BY <1>4 DEF Begin, ClearBase, ClearReport
  <2> QED
      BY <2>1 DEF Judging, RelatedJudgedOnWholeBase, EmptyReport
<1>5. CASE Edit \/ UNCHANGED vars
  <2>1. UNCHANGED <<pc, entries, report>>
      BY <1>5 DEF Edit, vars
  <2> QED
      BY <2>1 DEF Judging, RelatedJudgedOnWholeBase, Complaints, LoadedIds
<1> QED
    BY <1>1, <1>2, <1>3, <1>4, <1>5 DEF Next, Load

\* Every reference is judged against the whole base, once it is published.
THEOREM ReferencesJudgedOnWholeBase == Spec => []RelatedJudgedOnWholeBase
<1>1. Init => Judging
  <2> SUFFICES ASSUME Init PROVE Judging
      OBVIOUS
  <2>1. pc = "idle" /\ entries = <<>> /\ report = EmptyReport
      BY DEF Init
  <2> QED
      BY <2>1 DEF Judging, RelatedJudgedOnWholeBase, EmptyReport, Returned
<1>2. Judging => RelatedJudgedOnWholeBase
    BY DEF Judging
<1>3. Spec => []Judging
    BY <1>1, JudgingStep, TypeCorrectness, AccountingHolds, SurvivingHolds, PTL DEF Spec
<1> QED
    BY <1>2, <1>3, PTL
=============================================================================
