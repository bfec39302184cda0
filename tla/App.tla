---------------------------------- MODULE App ----------------------------------
(***************************************************************************)
(* runApplication (src/src/app.cpp) behind the command line: the stages    *)
(* from the options to the exit code; Program leads up to them.  The       *)
(* loaders, the lint and the search are represented by their results: any  *)
(* report that keeps the promises of Reports, and any outcome ResultPolicy *)
(* can produce.                                                            *)
(*                                                                         *)
(* stdout and stderr are sequences of items: a JSON document or a block of *)
(* text, what it says, the diagnostics it contains, and how many results   *)
(* it lists.                                                               *)
(***************************************************************************)
EXTENDS Integers, Sequences, FiniteSets, FiniteSetsExt, Reports

CONSTANTS
    Messages,   \* diagnostics a component may report
    MaxEntries, \* bound on the counters of a report
    MaxResults  \* bound on the results of a search

ASSUME BoundsAssumption ==
    MaxEntries \in Nat /\ MaxResults \in Nat

\* CliCommand
Commands == {"search", "list", "show", "validate", "help", "version"}

Success           == 0
NoConfidentResult == 1
InvalidArguments  == 2
ConfigurationError == 3
Running           == -1

VARIABLES
    pc,        \* where the run is
    options,   \* what parseCommandLine returned
    knowledge, \* the report of KnowledgeBase::load
    concepts,  \* the report of ConceptDictionary::load
    lint,      \* the diagnostics of KnowledgeBase::lint
    found,     \* the outcome of findById or of the search
    stdout, stderr,
    exit       \* the exit code, or Running

vars == <<pc, options, knowledge, concepts, lint, found, stdout, stderr, exit>>

NoLoad     == [root_available |-> FALSE, discovered_entries |-> 0,
               loaded_entries |-> 0, skipped_entries |-> 0, diagnostics |-> {}]
NoConcepts == [file_present |-> FALSE, usable |-> TRUE,
               concepts_loaded |-> 0, diagnostics |-> {}]
NoOutcome  == [status |-> "none", results |-> 0]

\* What ResultPolicy::decide can make of a number of results.
Outcomes == {o \in [status : {"confident", "uncertain", "no_match"},
                    results : 0..MaxResults] :
                o.status = "no_match" <=> o.results = 0}

-----------------------------------------------------------------------------
(* Output.                                                                 *)

Item(form, says, diagnostics, listed) ==
    [form |-> form, says |-> says, diagnostics |-> diagnostics, listed |-> listed]
Say(form, says)               == <<Item(form, says, {}, 0)>>
SayDiagnostics(form, says, ds) == <<Item(form, says, ds, 0)>>

Form == IF options.json THEN "json" ELSE "text"

Write(items)    == stdout' = stdout \o items
Complain(items) == stderr' = stderr \o items
Exit(code)      == pc' = "exit" /\ exit' = code

\* emitDiagnostics: one line each, nothing at all for none.
Emitted(ds) == IF ds = {} THEN <<>> ELSE SayDiagnostics("text", "diagnostics", ds)

\* Mutant: the status is settled before the lint has run.
IssuesBeforeLint(k, c, l) ==
    ~k.root_available \/ k.skipped_entries # 0 \/ k.diagnostics # {}
    \/ ~c.usable \/ c.diagnostics # {}

\* hasValidationIssues of the renderer, which looks at more than the exit
\* code does.
HasValidationIssues(k, c, l) ==
    ~k.root_available \/ k.skipped_entries # 0 \/ k.diagnostics # {}
    \/ ~c.usable \/ c.diagnostics # {} \/ l # {}

ValidationStatus(k, c, l) ==
    IF ~k.root_available THEN "error"
    ELSE IF HasValidationIssues(k, c, l) THEN "invalid" ELSE "valid"

\* Renderer::validation and validationJson.
Validation(k, c, l) ==
    SayDiagnostics(Form, ValidationStatus(k, c, l), k.diagnostics \cup c.diagnostics \cup l)

\* limitedResults, for a limit that is not zero.
Limited(n) == Min({options.limit, n})

-----------------------------------------------------------------------------
(* The steps.                                                              *)

Init ==
    /\ pc = "start" /\ exit = Running
    /\ knowledge = NoLoad /\ concepts = NoConcepts /\ lint = {} /\ found = NoOutcome
    /\ stdout = <<>> /\ stderr = <<>>

outcome == <<knowledge, concepts, lint, found>>

LoadKnowledge ==
    /\ pc = "load"
    /\ \E r \in LoadReports(Messages, 0..MaxEntries) :
        /\ HonestLoad(r)
        /\ knowledge' = r
        /\ IF r.root_available
           THEN pc' = "concepts" /\ UNCHANGED <<stdout, stderr, exit>>
           ELSE /\ Complain(Emitted(r.diagnostics))
                /\ CASE options.command = "validate" /\ options.json ->
                            Write(Validation(r, NoConcepts, {}))
                     [] options.command # "validate" /\ options.json ->
                            Write(SayDiagnostics("json", "knowledge_unavailable", r.diagnostics))
                     [] OTHER -> UNCHANGED stdout
                /\ Exit(ConfigurationError)
    /\ UNCHANGED <<options, concepts, lint, found>>

\* Mutant: with --json, only the document is written.
EmitUnlessJson(c) ==
    IF options.json \/ options.command = "validate" THEN UNCHANGED stderr
    ELSE Complain(Emitted(knowledge.diagnostics) \o Emitted(c.diagnostics))

\* Outside of validate the diagnostics of both loads go to stderr at once.
EmitLoads(c) ==
    IF options.command = "validate" THEN UNCHANGED stderr
    ELSE Complain(Emitted(knowledge.diagnostics) \o Emitted(c.diagnostics))

LoadConcepts ==
    /\ pc = "concepts"
    /\ \E c \in ConceptReports(Messages, 0..MaxEntries) :
        /\ HonestConcepts(c)
        /\ concepts' = c
        /\ EmitLoads(c)
        /\ IF c.usable
           THEN pc' = options.command /\ UNCHANGED <<stdout, exit>>
           ELSE /\ CASE options.command = "validate" ->
                            Write(Validation(knowledge, c, {}))
                     [] options.command # "validate" /\ options.json ->
                            Write(SayDiagnostics("json", "concepts_invalid", c.diagnostics))
                     [] OTHER -> UNCHANGED stdout
                /\ Exit(ConfigurationError)
    /\ UNCHANGED <<options, knowledge, lint, found>>

Validate ==
    /\ pc = "validate"
    /\ \E l \in SUBSET Messages :
        /\ lint' = l
        /\ Write(Validation(knowledge, concepts, l))
        /\ Exit(IF HasIssues(knowledge) \/ ConceptHasIssues(concepts) \/ l # {}
                THEN NoConfidentResult ELSE Success)
    /\ UNCHANGED <<options, knowledge, concepts, found, stderr>>

WarnIfEmpty == IF knowledge.loaded_entries = 0
               THEN Complain(Say("text", "no valid entries"))
               ELSE UNCHANGED stderr

List ==
    /\ pc = "list" /\ WarnIfEmpty
    /\ Write(<<Item(Form, "list", {}, knowledge.loaded_entries)>>)
    /\ Exit(Success)
    /\ UNCHANGED <<options, outcome>>

\* findById cannot find anything in an empty base.
Show ==
    /\ pc = "show" /\ WarnIfEmpty
    /\ \E status \in {"ok", "not_found"} :
        /\ status = "ok" => knowledge.loaded_entries > 0
        /\ found' = [status |-> status, results |-> 0]
        /\ Write(Say(Form, IF status = "ok" THEN "entry" ELSE "not_found"))
        /\ Exit(IF status = "ok" THEN Success ELSE NoConfidentResult)
    /\ UNCHANGED <<options, knowledge, concepts, lint>>

\* Mutant: the first result is always shown in full.
SearchOutputFirst(o) ==
    IF options.json THEN <<Item("json", o.status, {}, Limited(o.results))>>
    ELSE Say("text", IF o.results > 0 THEN "entry" ELSE "no_match")
Explained(o) ==
    IF options.explain THEN <<Item("text", "explanation", {}, Limited(o.results))>>
    ELSE <<>>
\* In text, a confident result is the entry itself, an uncertain one is
\* suggestions, and either is explained when asked for.
SearchOutput(o) ==
    CASE options.json -> <<Item("json", o.status, {}, Limited(o.results))>>
      [] ~options.json /\ o.status = "confident" ->
            Say("text", "entry") \o Explained(o)
      [] ~options.json /\ o.status = "uncertain" ->
            <<Item("text", "suggestions", {}, Limited(o.results))>> \o Explained(o)
      [] OTHER -> Say("text", "no_match")

\* internal_limit: two results at least.
Search ==
    /\ pc = "search" /\ WarnIfEmpty
    /\ \E o \in Outcomes :
        /\ o.results <= Min({knowledge.loaded_entries, Max({options.limit, 2})})
        /\ found' = o
        /\ Write(SearchOutput(o))
        /\ Exit(IF o.status = "confident" THEN Success ELSE NoConfidentResult)
    /\ UNCHANGED <<options, knowledge, concepts, lint>>

\* What follows the load of the knowledge base.
Stages == LoadConcepts \/ Validate \/ List \/ Show \/ Search

-----------------------------------------------------------------------------
(* What a run of the program promises.                                     *)

Exited == pc = "exit"
Said(out) == {out[i].says : i \in DOMAIN out}
Printed(out) == UNION {out[i].diagnostics : i \in DOMAIN out}
Ran == Exited /\ (knowledge # NoLoad)   \* past the arguments

\* The exit code says what stdout says: 0 for an answer, a listing or a valid
\* base, 1 for anything weaker, 3 for a base that cannot be used.
ExitCodeMatchesOutput ==
    Ran => /\ exit = Success <=>
                Said(stdout) \cap {"entry", "list", "confident", "valid"} # {}
           /\ exit = ConfigurationError <=>
                ~knowledge.root_available \/ ~concepts.usable
           /\ exit = NoConfidentResult =>
                Said(stdout) \cap {"uncertain", "suggestions", "no_match",
                                   "not_found", "invalid"} # {}

\* The status that validate prints and its exit code, which are computed from
\* different fields of the reports, agree.
ValidateVerdictMatchesExit ==
    Ran /\ options.command = "validate" /\ stdout # <<>> =>
        /\ (stdout[1].says = "valid") <=> (exit = Success)
        /\ (stdout[1].says = "error") <=> ~knowledge.root_available

\* No diagnostic is swallowed, and none gets into an answer: what the loaders
\* and the lint reported reaches the user, on stderr or in the document, and
\* the payload of an answer carries none (requirements.md: "keep diagnostics
\* out of a normal search payload").
NothingSwallowed ==
    Ran =>
        /\ knowledge.diagnostics \cup concepts.diagnostics \cup lint
                \subseteq Printed(stdout) \cup Printed(stderr)
        /\ exit \in {Success, NoConfidentResult} /\ options.command # "validate" =>
                Printed(stdout) = {}
=============================================================================
