----------------------------- MODULE CommandLine -----------------------------
(***************************************************************************)
(* parseCommandLine (cli.cpp): one pass over the arguments that tells      *)
(* options, option values and text apart, then one look at the text.       *)
(*                                                                         *)
(* An argument is a string.  What its characters decide is given by        *)
(* constants: whether it starts like an option, which option and value     *)
(* `--option=value' spells, which number it is.                            *)
(***************************************************************************)
EXTENDS Integers, Sequences, FiniteSets

CONSTANTS
    ArgumentLists,
    Dashed,         \* arguments of at least two characters that start with -
    Inline,         \* --option=value |-> <<option, value>>
    NumberOf,       \* the arguments std::from_chars reads as a number
    DefaultLimit, MaximumLimit

Absent == "absent"

VARIABLES
    arguments, index, pc,
    parse_options, force_implicit_query, positional,
    options,        \* CliOptions
    error           \* what the arguments are rejected for

vars == <<arguments, index, pc, parse_options, force_implicit_query,
          positional, options, error>>

DefaultOptions ==
    [command |-> "search", knowledge_path |-> Absent, limit |-> DefaultLimit,
     explain |-> FALSE, json |-> FALSE, raw |-> FALSE,
     query |-> <<>>, entry_id |-> Absent]

Init ==
    /\ arguments \in ArgumentLists /\ index = 1 /\ pc = "arguments"
    /\ parse_options = TRUE /\ force_implicit_query = FALSE /\ positional = <<>>
    /\ options = DefaultOptions /\ error = ""

-----------------------------------------------------------------------------
(* The pass over the arguments.                                            *)

Argument == arguments[index]
Reading  == pc = "arguments" /\ index <= Len(arguments)

OptionsAllowed == parse_options

Return == pc' = "returned" /\ UNCHANGED error
Reject(why) == pc' = "returned" /\ error' = why

\* Mutant: the same argument for ever.
SameIndex(i) == i
NextIndex(i) == i + 1

\* Mutant: the query is implicit whatever stands before --.
AlwaysImplicit(texts) == TRUE
IsImplicit(texts) == texts = <<>>

\* Mutant: options go on after --.
OptionsGoOn == TRUE
OptionsAfterTerminator == FALSE

Terminator ==
    /\ Reading /\ OptionsAllowed /\ Argument = "--"
    /\ force_implicit_query' = IsImplicit(positional)
    /\ parse_options' = OptionsAfterTerminator
    /\ index' = NextIndex(index)
    /\ UNCHANGED <<arguments, pc, positional, options, error>>

\* --help and --version end the parse, whatever follows.
Immediate ==
    /\ Reading /\ OptionsAllowed
    /\ \/ /\ Argument \in {"--help", "-h"}
          /\ options' = [options EXCEPT !.command = "help"]
       \/ /\ Argument \in {"--version", "-V"}
          /\ options' = [options EXCEPT !.command = "version"]
    /\ Return
    /\ UNCHANGED <<arguments, index, parse_options, force_implicit_query, positional>>

Flag ==
    /\ Reading /\ OptionsAllowed
    /\ \/ Argument = "--explain" /\ options' = [options EXCEPT !.explain = TRUE]
       \/ Argument = "--json" /\ options' = [options EXCEPT !.json = TRUE]
       \/ Argument = "--raw" /\ options' = [options EXCEPT !.raw = TRUE]
    /\ index' = NextIndex(index)
    /\ UNCHANGED <<arguments, pc, parse_options, force_implicit_query, positional, error>>

\* The argument is the option, alone or with its value.
Names(argument, option) ==
    \/ argument = option
    \/ argument \in DOMAIN Inline /\ Inline[argument][1] = option

\* The option stands alone and nothing follows it.
LacksValue(i) == i + 1 > Len(arguments)

\* The position and text of the value.
ValueAt(i) == IF arguments[i] \in DOMAIN Inline THEN i ELSE i + 1
ValueOf(i) == IF arguments[i] \in DOMAIN Inline THEN Inline[arguments[i]][2]
              ELSE arguments[i + 1]

IsInline(i) == arguments[i] \in DOMAIN Inline

Knowledge ==
    /\ Reading /\ OptionsAllowed /\ Names(Argument, "--knowledge")
    /\ IF ~IsInline(index) /\ LacksValue(index)
       THEN Reject("no value") /\ UNCHANGED <<options, index>>
       ELSE /\ index' = ValueAt(index) + 1
            /\ CASE ValueOf(index) = "" -> Reject("no value") /\ UNCHANGED options
                 [] ValueOf(index) # "" /\ options.knowledge_path # Absent ->
                        Reject("twice") /\ UNCHANGED options
                 [] OTHER ->
                        /\ options' = [options EXCEPT !.knowledge_path = ValueOf(index)]
                        /\ UNCHANGED <<pc, error>>
    /\ UNCHANGED <<arguments, parse_options, force_implicit_query, positional>>

\* parseLimit.
IsLimit(value) == value \in DOMAIN NumberOf /\ NumberOf[value] \in 1..MaximumLimit

Limit ==
    /\ Reading /\ OptionsAllowed /\ Names(Argument, "--limit")
    /\ IF ~IsInline(index) /\ LacksValue(index)
       THEN Reject("no value") /\ UNCHANGED <<options, index>>
       ELSE /\ index' = ValueAt(index) + 1
            /\ IF IsLimit(ValueOf(index))
               THEN /\ options' = [options EXCEPT !.limit = NumberOf[ValueOf(index)]]
                    /\ UNCHANGED <<pc, error>>
               ELSE Reject("limit") /\ UNCHANGED options
    /\ UNCHANGED <<arguments, parse_options, force_implicit_query, positional>>

Known(argument) ==
    \/ argument \in {"--", "--help", "-h", "--version", "-V", "--explain", "--json", "--raw"}
    \/ Names(argument, "--knowledge") \/ Names(argument, "--limit")

UnknownOption ==
    /\ Reading /\ OptionsAllowed
    /\ Argument \in Dashed /\ ~Known(Argument)
    /\ Reject("unknown option")
    /\ UNCHANGED <<arguments, index, parse_options, force_implicit_query, positional, options>>

Positional ==
    /\ Reading
    /\ ~OptionsAllowed \/ Argument \notin Dashed
    /\ positional' = Append(positional, Argument)
    /\ index' = NextIndex(index)
    /\ UNCHANGED <<arguments, pc, parse_options, force_implicit_query, options, error>>

-----------------------------------------------------------------------------
(* The look at the text.                                                   *)

Read == pc = "arguments" /\ index > Len(arguments)
After(command) ==
    /\ Read /\ positional # <<>> /\ ~(options.raw /\ options.json)
    /\ ~force_implicit_query /\ positional[1] = command

parsed == <<arguments, index, parse_options, force_implicit_query, positional>>

RejectAll ==
    /\ Read
    /\ \/ positional = <<>> /\ Reject("missing query")
       \/ positional # <<>> /\ options.raw /\ options.json /\ Reject("raw and json")
    /\ UNCHANGED <<parsed, options>>

Accept(command, field, value) ==
    /\ options' = [options EXCEPT !.command = command, ![field] = value]
    /\ Return
    /\ UNCHANGED parsed

SearchCommand ==
    /\ After("search")
    /\ IF Len(positional) = 1 THEN Reject("search") /\ UNCHANGED <<parsed, options>>
       ELSE Accept("search", "query", Tail(positional))

ListCommand ==
    /\ After("list")
    /\ IF Len(positional) # 1 THEN Reject("list") /\ UNCHANGED <<parsed, options>>
       ELSE Accept("list", "query", <<>>)

ShowCommand ==
    /\ After("show")
    /\ IF Len(positional) # 2 THEN Reject("show") /\ UNCHANGED <<parsed, options>>
       ELSE Accept("show", "entry_id", positional[2])

ValidateCommand ==
    /\ After("validate")
    /\ CASE Len(positional) > 2 -> Reject("validate") /\ UNCHANGED <<parsed, options>>
         [] Len(positional) = 1 -> Accept("validate", "query", <<>>)
         [] Len(positional) = 2 /\ options.knowledge_path # Absent ->
                Reject("path twice") /\ UNCHANGED <<parsed, options>>
         [] OTHER -> Accept("validate", "knowledge_path", positional[2])

ImplicitQuery ==
    /\ Read /\ positional # <<>> /\ ~(options.raw /\ options.json)
    /\ force_implicit_query \/ positional[1] \notin {"search", "list", "show", "validate"}
    /\ Accept("search", "query", positional)

Parse == Terminator \/ Immediate \/ Flag \/ Knowledge \/ Limit
         \/ UnknownOption \/ Positional
Dispatch == RejectAll \/ SearchCommand \/ ListCommand \/ ShowCommand
            \/ ValidateCommand \/ ImplicitQuery
Next == Parse \/ Dispatch

Spec == Init /\ [][Next]_vars

-----------------------------------------------------------------------------
(* The reference: what a list of arguments means, position by position.    *)

\* What each argument is: an option, one that takes the next argument, such
\* a value, the terminator, or text.
Role(args) ==
    LET role[i \in DOMAIN args] ==
            IF i > 1 /\ role[i - 1] = "takes" THEN "value"
            ELSE IF \E j \in 1..(i - 1) : role[j] = "terminator" THEN "text"
            ELSE IF args[i] = "--" THEN "terminator"
            ELSE IF args[i] \in {"--knowledge", "--limit"} THEN "takes"
            ELSE IF args[i] \in Dashed THEN "option" ELSE "text"
    IN role

Having(args, roles) == {i \in DOMAIN args : Role(args)[i] \in roles}

\* The positions at which a value for an option is given, and the values.
Given(args, option) ==
    {i \in Having(args, {"takes", "option"}) : Names(args[i], option)}
Value(args, i) == IF args[i] \in DOMAIN Inline THEN Inline[args[i]][2]
                  ELSE IF i < Len(args) THEN args[i + 1] ELSE ""

\* The positions that end the parse: help and version, or an error.
Asks(args) == {i \in Having(args, {"option"}) :
                   args[i] \in {"-h", "--help", "-V", "--version"}}
Errs(args) ==
    {i \in Having(args, {"option"}) : ~Known(args[i])}
    \cup {i \in Given(args, "--limit") : ~IsLimit(Value(args, i))}
    \cup {i \in Given(args, "--knowledge") :
            Value(args, i) = "" \/ \E j \in Given(args, "--knowledge") : j < i}

Texts(args) ==
    [n \in 1..Cardinality(Having(args, {"text"})) |->
        args[CHOOSE i \in Having(args, {"text"}) :
                Cardinality({j \in Having(args, {"text"}) : j <= i}) = n]]

Has(args, flag) == \E i \in Having(args, {"option"}) : args[i] = flag

\* The forms the usage text lists, as the words of each command.
IsImplicitQuery(args) ==
    \/ \E t \in Having(args, {"terminator"}) : \A i \in Having(args, {"text"}) : t < i
    \/ Texts(args)[1] \notin {"search", "list", "show", "validate"}

FormOf(args) ==
    LET texts == Texts(args) IN
    CASE texts = <<>> -> "none"
      [] texts # <<>> /\ IsImplicitQuery(args) -> "query"
      [] OTHER -> texts[1]

IsForm(args) ==
    LET texts == Texts(args) IN
    /\ FormOf(args) # "none" /\ ~(Has(args, "--raw") /\ Has(args, "--json"))
    /\ FormOf(args) = "search" => Len(texts) > 1
    /\ FormOf(args) = "list" => Len(texts) = 1
    /\ FormOf(args) = "show" => Len(texts) = 2
    /\ FormOf(args) = "validate" =>
        \/ Len(texts) = 1
        \/ Len(texts) = 2 /\ Given(args, "--knowledge") = {}

\* Parsed as the reference reads the arguments: accepted or not, and, when it
\* is a form of the usage text, with which options.
Accepted(args) ==
    \/ Asks(args) # {} /\ \A e \in Errs(args) : \E a \in Asks(args) : a < e
    \/ Asks(args) = {} /\ Errs(args) = {} /\ IsForm(args)

\* The last --limit counts.
LimitOf(args) ==
    LET limits == Given(args, "--limit") IN
    IF limits = {} THEN DefaultLimit
    ELSE NumberOf[Value(args, CHOOSE i \in limits : \A j \in limits : j <= i)]

MeaningOf(args) ==
    LET texts == Texts(args)
        form  == FormOf(args)
        paths == Given(args, "--knowledge")
    IN  [command |-> IF form = "query" THEN "search" ELSE form,
         knowledge_path |->
            IF paths # {} THEN Value(args, CHOOSE i \in paths : TRUE)
            ELSE IF form = "validate" /\ Len(texts) = 2 THEN texts[2] ELSE Absent,
         limit |-> LimitOf(args),
         explain |-> Has(args, "--explain"), json |-> Has(args, "--json"),
         raw |-> Has(args, "--raw"),
         query |-> IF form = "query" THEN texts
                   ELSE IF form = "search" THEN Tail(texts) ELSE <<>>,
         entry_id |-> IF form = "show" THEN texts[2] ELSE Absent]

-----------------------------------------------------------------------------
(* Properties.                                                             *)

Done == pc = "returned"

\* Text behind -- after a command that is not search: the usage text calls it
\* query text (README.md:195, cli.cpp:261), cli.cpp:69 an argument of the
\* command.  These lists have no meaning to compare with.
Disputed(args) ==
    /\ Asks(args) = {} /\ Errs(args) = {}
    /\ FormOf(args) \in {"list", "show", "validate"}
    /\ \E t \in Having(args, {"terminator"}), i \in Having(args, {"text"}) : t < i

\* Every list of arguments whose meaning is not disputed has the one meaning
\* the usage text gives it: what the pass decides argument by argument, with a
\* flag for what it has seen, is what the positions of the arguments decide
\* together.
MeaningIsPositional ==
    Done /\ ~Disputed(arguments) =>
        /\ error = "" <=> Accepted(arguments)
        /\ error = "" /\ Asks(arguments) = {} => options = MeaningOf(arguments)
        /\ error = "" /\ Asks(arguments) # {} => options.command \in {"help", "version"}

=============================================================================
