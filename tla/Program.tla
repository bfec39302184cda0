------------------------------- MODULE Program -------------------------------
(***************************************************************************)
(* One run of the program from argv to the exit code: main, the parse of   *)
(* CommandLine, the choice of the knowledge directory, and the stages of   *)
(* App, composed.  Directories may appear and vanish while the program     *)
(* runs.                                                                   *)
(***************************************************************************)
EXTENDS App

CONSTANTS
    ArgumentLists, Dashed, Inline, NumberOf, DefaultLimit, MaximumLimit,
    Starts,         \* the arguments and surroundings a run starts from
    Places,         \* the places that may appear or vanish
    MaxMoves        \* bound on how often one does

ASSUME ArgumentsAssumption ==
    /\ {"--", "-h", "--help", "-V", "--version", "--explain", "--json", "--raw",
        "--knowledge", "--limit"} \subseteq Dashed \ DOMAIN Inline
    /\ DOMAIN Inline \subseteq Dashed
    /\ "" \notin DOMAIN NumberOf
    /\ DefaultLimit \in 1..MaximumLimit
    /\ {s.arguments : s \in Starts} \subseteq ArgumentLists

VARIABLES
    \* parseCommandLine
    arguments, index, reading, parse_options, force_implicit_query,
    positional, parsed, error,
    \* the surroundings
    cwd_known,      \* whether main can determine the current directory
    environment,    \* HOWLINUX_KNOWLEDGE, or Absent
    present,        \* the places that are directories
    moves,
    knowledge_path  \* what resolveKnowledgePath returned, or Absent

CL == INSTANCE CommandLine WITH pc <- reading, options <- parsed

Absent == CL!Absent

\* Absent stands for no string.
ASSUME AbsentAssumption ==
    /\ ArgumentLists \subseteq Seq(STRING \ {Absent})
    /\ \A argument \in DOMAIN Inline : Inline[argument][2] \in STRING \ {Absent}

cli  == <<arguments, index, reading, parse_options, force_implicit_query,
          positional, parsed, error>>
app  == <<pc, options, outcome, stdout, stderr, exit>>
here == <<cwd_known, environment, present, moves, knowledge_path>>

\* Where a knowledge directory is looked for when nobody names one.
Searched == <<"beside the executable", "installed", "current directory">>

RunInit ==
    /\ options = [command |-> "search", json |-> FALSE, raw |-> FALSE,
                  explain |-> FALSE, limit |-> DefaultLimit]
    /\ \E s \in Starts :
        /\ arguments = s.arguments /\ cwd_known = s.cwd_known
        /\ environment = s.environment /\ present = s.present
    /\ CL!Init /\ Init
    /\ moves = 0 /\ knowledge_path = Absent

Parse ==
    /\ reading = "arguments" /\ CL!Next
    /\ UNCHANGED <<app, here>>

Parsed == reading = "returned" /\ pc = "start"
Rejected == error # ""
NeedsNothing == ~Rejected /\ parsed.command \in {"help", "version"}

\* The options of App are those of the parse.
TakeOptions ==
    options' = [command |-> parsed.command, json |-> parsed.json, raw |-> parsed.raw,
                explain |-> parsed.explain, limit |-> parsed.limit]

\* main gives up before runApplication, unless nothing needs a directory.
StopsWithoutDirectory == ~cwd_known /\ ~NeedsNothing

Stop ==
    /\ Parsed /\ StopsWithoutDirectory
    /\ Complain(Say("text", "configuration error"))
    /\ Exit(ConfigurationError)
    /\ UNCHANGED <<cli, here, options, outcome, stdout>>

Reject ==
    /\ Parsed /\ ~StopsWithoutDirectory /\ Rejected
    /\ Complain(Say("text", "invalid arguments"))
    /\ Exit(InvalidArguments)
    /\ UNCHANGED <<cli, here, options, outcome, stdout>>

Inform ==
    /\ Parsed /\ NeedsNothing
    /\ TakeOptions
    /\ Write(Say("text", parsed.command))
    /\ Exit(Success)
    /\ UNCHANGED <<cli, here, outcome, stderr>>

\* Mutant: a place named by the user is passed over when it is not there.
FirstPresent ==
    LET named == <<parsed.knowledge_path, environment>> \o Searched
        found_places == {i \in DOMAIN named : named[i] \in present}
    IN  named[IF found_places = {} THEN 5 ELSE CHOOSE i \in found_places :
                \A j \in found_places : i <= j]
\* resolveKnowledgePath: a place the user names is taken as it is, of the
\* others the first that is there, else the last.
Resolved ==
    IF parsed.knowledge_path # Absent THEN parsed.knowledge_path
    ELSE IF environment \notin {Absent, ""} THEN environment
    ELSE LET found_places == {i \in DOMAIN Searched : Searched[i] \in present} IN
         Searched[IF found_places = {} THEN Len(Searched) ELSE Min(found_places)]

Resolve ==
    /\ Parsed /\ ~StopsWithoutDirectory /\ ~Rejected /\ ~NeedsNothing
    /\ TakeOptions
    /\ knowledge_path' = Resolved
    /\ pc' = "load"
    /\ UNCHANGED <<cli, cwd_known, environment, present, moves, outcome, stdout, stderr, exit>>

\* The root is looked at again when it is loaded.
Load ==
    /\ LoadKnowledge
    /\ knowledge'.root_available <=> knowledge_path \in present
    /\ UNCHANGED <<cli, here>>

Continue ==
    /\ Stages
    /\ UNCHANGED <<cli, here>>

Move ==
    /\ moves < MaxMoves /\ pc \notin {"exit", "start"}
    /\ \E place \in Places :
        present' = IF place \in present THEN present \ {place} ELSE present \cup {place}
    /\ moves' = moves + 1
    /\ UNCHANGED <<cli, app, cwd_known, environment, knowledge_path>>

Work == Parse \/ Stop \/ Reject \/ Inform \/ Resolve \/ Load \/ Continue
RunNext == Work \/ Move

RunSpec == RunInit /\ [][RunNext]_<<cli, app, here>> /\ WF_<<cli, app, here>>(Work)

-----------------------------------------------------------------------------
(* What a command line promises.                                           *)

\* Code 2 is for malformed command lines and for nothing else, provided the
\* program knows where it is and the usage text and the code agree on what
\* the arguments mean; help and version are given wherever it stands.
ExitTwoIsMalformed ==
    /\ Exited /\ cwd_known /\ ~CL!Disputed(arguments) =>
        (exit = InvalidArguments <=> ~CL!Accepted(arguments))
    /\ Exited /\ CL!Accepted(arguments) /\ CL!Asks(arguments) # {} => exit = Success

\* With --json on the command line, wherever it stands among the options, a
\* run that reaches the knowledge base leaves one JSON document on stdout; a
\* run without it leaves none.  What follows -- does not count.
JsonOnRequest ==
    Exited /\ knowledge_path # Absent =>
        IF CL!Has(arguments, "--json")
        THEN Len(stdout) = 1 /\ stdout[1].form = "json"
        ELSE \A i \in DOMAIN stdout : stdout[i].form = "text"

\* Text behind the word validate that names a directory.
NamedToValidate(texts) == CL!FormOf(arguments) = "validate" /\ Len(texts) = 2

\* A user who names a knowledge directory never gets an answer from another
\* one: the option counts first, without it the argument of validate, and
\* without both the environment, whatever is there.
NamedBaseOrNone ==
    Exited /\ knowledge_path # Absent /\ ~CL!Disputed(arguments) =>
        LET given == CL!Given(arguments, "--knowledge")
            texts == CL!Texts(arguments)
        IN  /\ given # {} => knowledge_path \in {CL!Value(arguments, i) : i \in given}
            /\ given = {} /\ NamedToValidate(texts) => knowledge_path = texts[2]
            /\ given = {} /\ ~NamedToValidate(texts) /\ environment \notin {Absent, ""} =>
                knowledge_path = environment

\* Every run ends.
RunsEnd == <>Exited

\* Every list of arguments whose meaning is not disputed has the one meaning
\* its positions give it, by the reference of CommandLine (what comes after the parse leaves it alone).
MeaningIsPositional == Parsed => CL!MeaningIsPositional
=============================================================================
