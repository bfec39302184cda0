------------------------------- MODULE Reports -------------------------------
(***************************************************************************)
(* The reports that the knowledge loader and the concept loader hand to    *)
(* the application, and what the application relies on in them.  The       *)
(* loaders are shown to keep these promises in their own modules; App      *)
(* draws its reports from those that do.                                   *)
(***************************************************************************)
EXTENDS Integers

\* KnowledgeLoadReport over a set of diagnostics, with counters in a range.
LoadReports(diagnostics, range) ==
    [root_available : BOOLEAN, discovered_entries : range,
     loaded_entries : range, skipped_entries : range,
     diagnostics : SUBSET diagnostics]

\* ConceptLoadReport.
ConceptReports(diagnostics, range) ==
    [file_present : BOOLEAN, usable : BOOLEAN, concepts_loaded : range,
     diagnostics : SUBSET diagnostics]

\* hasIssues() of the three reports.
HasIssues(r)        == r.diagnostics # {}
ConceptHasIssues(r) == ~r.usable \/ r.diagnostics # {}

\* Every discovered entry is loaded or skipped, nothing is skipped in silence,
\* and a root that is not available is explained and has no entries.
HonestLoad(r) ==
    /\ r.discovered_entries = r.loaded_entries + r.skipped_entries
    /\ r.skipped_entries > 0 => HasIssues(r)
    /\ ~r.root_available => HasIssues(r) /\ r.discovered_entries = 0

\* A concept file is usable exactly when nothing is wrong with it; one that
\* is missing is usable and empty.
HonestConcepts(r) ==
    /\ r.usable <=> r.diagnostics = {}
    /\ ~r.usable => r.concepts_loaded = 0
    /\ ~r.file_present => r.concepts_loaded = 0
=============================================================================
