---------------------------- MODULE Program_proofs ----------------------------
(***************************************************************************)
(* For all arguments, reports and outcomes, with directories that come and *)
(* go: what a run prints, on stdout and stderr, and its exit code agree,   *)
(* no diagnostic is lost on the way, the arguments mean what their         *)
(* positions say, and the run does what they ask for.                      *)
(***************************************************************************)
EXTENDS Program, Phrases_proofs

-----------------------------------------------------------------------------
(* The invariant: what each stage finds from the stages before it.         *)

\* parseCommandLine returns a command of the enumeration.
CommandKnown == "command" \in DOMAIN parsed /\ parsed.command \in Commands

\* What the stages write to stderr.
Complaints == [form : {"text"}, says : {"diagnostics", "no valid entries"},
               diagnostics : SUBSET Messages, listed : {0}]

RunCommands == {"search", "list", "show", "validate"}
CommandTaken == pc \in {"load", "concepts"} => options.command \in RunCommands

NothingYet ==
    pc \in {"start", "load"} =>
        /\ stdout = <<>> /\ stderr = <<>>
        /\ knowledge = NoLoad /\ concepts = NoConcepts /\ lint = {}

KnowledgeThere ==
    pc = "concepts" =>
        /\ stdout = <<>> /\ stderr = <<>>
        /\ HonestLoad(knowledge) /\ knowledge.root_available
        /\ knowledge.diagnostics \in SUBSET Messages /\ knowledge.skipped_entries \in Nat
        /\ concepts = NoConcepts /\ lint = {}

\* Only validate keeps the diagnostics of the loads for its document.
BothThere ==
    pc \in RunCommands =>
        /\ options.command = pc
        /\ stdout = <<>> /\ stderr \in Seq(Complaints)
        /\ HonestLoad(knowledge) /\ knowledge.root_available
        /\ knowledge.diagnostics \in SUBSET Messages /\ knowledge.skipped_entries \in Nat
        /\ HonestConcepts(concepts) /\ concepts.usable
        /\ lint = {}
        /\ pc # "validate" => knowledge.diagnostics \cup concepts.diagnostics \subseteq Printed(stderr)

Agreed == ExitCodeMatchesOutput /\ ValidateVerdictMatchesExit /\ NothingSwallowed

IInv == CommandKnown /\ CommandTaken /\ NothingYet /\ KnowledgeThere /\ BothThere /\ Agreed

-----------------------------------------------------------------------------
(* Output.                                                                 *)

\* One item, or two, on an empty stream.
LEMMA OneItem ==
    ASSUME NEW form, NEW says, NEW ds, NEW listed, NEW out,
           out = <<>> \o <<Item(form, says, ds, listed)>>
    PROVE  out # <<>> /\ out[1].says = says /\ Said(out) = {says} /\ Printed(out) = ds
<1>1. out = <<Item(form, says, ds, listed)>>
    OBVIOUS
<1>2. DOMAIN out = {1} /\ out[1] = Item(form, says, ds, listed) /\ out # <<>>
    BY <1>1
<1>3. out[1].says = says /\ out[1].diagnostics = ds
    BY <1>2 DEF Item
<1>4. Said(out) = {says}
    BY <1>2, <1>3 DEF Said
<1>5. Printed(out) = ds
    BY <1>2, <1>3 DEF Printed
<1> QED
    BY <1>2, <1>3, <1>4, <1>5

LEMMA NoItem == Said(<<>>) = {} /\ Printed(<<>>) = {}
<1>1. DOMAIN <<>> = {}
    OBVIOUS
<1> QED
    BY <1>1 DEF Said, Printed

\* What two pieces of output print, they print together.
LEMMA PrintedTogether ==
    ASSUME NEW S, NEW a \in Seq(S), NEW b \in Seq(S)
    PROVE  Printed(a \o b) = Printed(a) \cup Printed(b) /\ Said(a \o b) = Said(a) \cup Said(b)
<1> DEFINE c == a \o b
<1>1. /\ DOMAIN a = 1..Len(a) /\ DOMAIN b = 1..Len(b) /\ DOMAIN c = 1..(Len(a) + Len(b))
      /\ Len(a) \in Nat /\ Len(b) \in Nat
    OBVIOUS
<1>2. \A i \in DOMAIN a : i \in DOMAIN c /\ c[i] = a[i]
    OBVIOUS
<1>3. \A i \in DOMAIN b : Len(a) + i \in DOMAIN c /\ c[Len(a) + i] = b[i]
    OBVIOUS
<1>4. \A i \in DOMAIN c : i \in DOMAIN a \/ (i - Len(a) \in DOMAIN b /\ c[i] = b[i - Len(a)])
    OBVIOUS
<1> HIDE DEF c
<1>5. Said(c) = Said(a) \cup Said(b)
  <2>1. \A x \in Said(a) \cup Said(b) : x \in Said(c)
      BY <1>2, <1>3 DEF Said
  <2>2. \A x \in Said(c) : x \in Said(a) \cup Said(b)
      BY <1>2, <1>4 DEF Said
  <2> QED
      BY <2>1, <2>2
<1>6. Printed(c) = Printed(a) \cup Printed(b)
  <2>1. \A x \in Printed(a) \cup Printed(b) : x \in Printed(c)
      BY <1>2, <1>3 DEF Printed
  <2>2. \A x \in Printed(c) : x \in Printed(a) \cup Printed(b)
      BY <1>2, <1>4 DEF Printed
  <2> QED
      BY <2>1, <2>2
<1> QED
    BY <1>5, <1>6 DEF c

-----------------------------------------------------------------------------
(* The parse.                                                              *)

LEMMA ParseKeepsCommand == CommandKnown /\ CL!Next => CommandKnown'
<1> SUFFICES ASSUME CommandKnown, CL!Next PROVE CommandKnown'
    OBVIOUS
<1> USE DEF CommandKnown, Commands
<1>1. CASE CL!Terminator
    BY <1>1 DEF CL!Terminator
<1>2. CASE CL!Immediate
    BY <1>2 DEF CL!Immediate
<1>3. CASE CL!Flag
    BY <1>3 DEF CL!Flag
<1>4. CASE CL!Knowledge
  <2>1. parsed' = parsed \/ parsed' = [parsed EXCEPT !.knowledge_path = CL!ValueOf(index)]
      BY <1>4 DEF CL!Knowledge, CL!Reject
  <2> QED
      BY <2>1
<1>5. CASE CL!Limit
  <2>1. parsed' = parsed \/ parsed' = [parsed EXCEPT !.limit = NumberOf[CL!ValueOf(index)]]
      BY <1>5 DEF CL!Limit
  <2> QED
      BY <2>1
<1>6. CASE CL!UnknownOption
    BY <1>6 DEF CL!UnknownOption
<1>7. CASE CL!Positional
    BY <1>7 DEF CL!Positional
<1>8. CASE CL!RejectAll
    BY <1>8 DEF CL!RejectAll
<1>9. ASSUME NEW command \in Commands, NEW field \in {"query", "entry_id", "knowledge_path"},
             NEW value, CL!Accept(command, field, value)
      PROVE  CommandKnown'
    BY <1>9 DEF CL!Accept
<1>10. CASE CL!SearchCommand
  <2>1. parsed' = parsed \/ CL!Accept("search", "query", Tail(positional))
      BY <1>10 DEF CL!SearchCommand
  <2> QED
      BY <2>1, <1>9
<1>11. CASE CL!ListCommand
  <2>1. parsed' = parsed \/ CL!Accept("list", "query", <<>>)
      BY <1>11 DEF CL!ListCommand
  <2> QED
      BY <2>1, <1>9
<1>12. CASE CL!ShowCommand
  <2>1. parsed' = parsed \/ CL!Accept("show", "entry_id", positional[2])
      BY <1>12 DEF CL!ShowCommand
  <2> QED
      BY <2>1, <1>9
<1>13. CASE CL!ValidateCommand
  <2>1. \/ parsed' = parsed
        \/ CL!Accept("validate", "query", <<>>)
        \/ CL!Accept("validate", "knowledge_path", positional[2])
      BY <1>13 DEF CL!ValidateCommand
  <2> QED
      BY <2>1, <1>9
<1>14. CASE CL!ImplicitQuery
  <2>1. CL!Accept("search", "query", positional)
      BY <1>14 DEF CL!ImplicitQuery
  <2> QED
      BY <2>1, <1>9
<1> QED
    BY <1>1, <1>2, <1>3, <1>4, <1>5, <1>6, <1>7, <1>8, <1>10, <1>11, <1>12, <1>13, <1>14
       DEF CL!Next, CL!Parse, CL!Dispatch

-----------------------------------------------------------------------------
(* The stages.                                                             *)

\* emitDiagnostics prints what it is given.
LEMMA EmittedFacts ==
    ASSUME NEW ds \in SUBSET Messages
    PROVE  Emitted(ds) \in Seq(Complaints) /\ Printed(Emitted(ds)) = ds
<1>1. CASE ds = {}
  <2>1. Emitted(ds) = <<>>
      BY <1>1 DEF Emitted
  <2> QED
      BY <2>1, <1>1, NoItem
<1>2. CASE ds # {}
  <2>1. Emitted(ds) = <<Item("text", "diagnostics", ds, 0)>>
      BY <1>2 DEF Emitted, SayDiagnostics
  <2>2. Item("text", "diagnostics", ds, 0) \in Complaints
      BY DEF Item, Complaints
  <2>3. Emitted(ds) = <<>> \o <<Item("text", "diagnostics", ds, 0)>>
      BY <2>1
  <2>4. Printed(Emitted(ds)) = ds
      BY <2>3, OneItem
  <2> QED
      BY <2>1, <2>2, <2>4
<1> QED
    BY <1>1, <1>2

LEMMA InitHolds == RunInit => IInv
<1> SUFFICES ASSUME RunInit PROVE IInv
    OBVIOUS
<1>1. pc = "start" /\ stdout = <<>> /\ stderr = <<>>
      /\ knowledge = NoLoad /\ concepts = NoConcepts /\ lint = {}
    BY DEF RunInit, Init
<1>2. CommandKnown
  <2>1. parsed = CL!DefaultOptions
      BY DEF RunInit, CL!Init
  <2> QED
      BY <2>1 DEF CL!DefaultOptions, CommandKnown, Commands
<1> QED
    BY <1>1, <1>2 DEF IInv, CommandTaken, NothingYet, KnowledgeThere, BothThere, RunCommands,
                      Agreed, ExitCodeMatchesOutput, ValidateVerdictMatchesExit,
                      NothingSwallowed, Ran, Exited

\* A run that ends before it has looked for a knowledge base.
LEMMA EarlyExitKeeps ==
    ASSUME IInv, Stop \/ Reject \/ Inform
    PROVE  IInv'
<1>1. pc' = "exit" /\ parsed' = parsed /\ knowledge' = knowledge /\ pc = "start"
    BY DEF Stop, Reject, Inform, Parsed, Exit, cli, outcome
<1>2. knowledge' = NoLoad
    BY <1>1 DEF IInv, NothingYet
<1> QED
    BY <1>1, <1>2 DEF IInv, CommandKnown, CommandTaken, NothingYet, KnowledgeThere, BothThere,
                      RunCommands, Agreed, ExitCodeMatchesOutput, ValidateVerdictMatchesExit,
                      NothingSwallowed, Ran, NoLoad

LEMMA ResolveKeeps == ASSUME IInv, Resolve PROVE IInv'
<1>1. /\ pc = "start" /\ pc' = "load" /\ parsed' = parsed /\ stdout' = stdout /\ stderr' = stderr
      /\ knowledge' = knowledge /\ concepts' = concepts /\ lint' = lint
    BY DEF Resolve, Parsed, cli, outcome
<1>2. options'.command = parsed.command /\ parsed.command \in RunCommands
    BY DEF Resolve, TakeOptions, NeedsNothing, IInv, CommandKnown, Commands, RunCommands
<1> QED
    BY <1>1, <1>2 DEF IInv, CommandKnown, CommandTaken, NothingYet, KnowledgeThere, BothThere,
                      RunCommands, Agreed, ExitCodeMatchesOutput, ValidateVerdictMatchesExit,
                      NothingSwallowed, Ran, Exited

\* What a load without a root leaves: an error, on both streams where both
\* are asked for.
LEMMA LoadKeeps == ASSUME IInv, Load PROVE IInv'
<1>1. PICK r \in LoadReports(Messages, 0..MaxEntries) :
          /\ HonestLoad(r) /\ knowledge' = r
          /\ IF r.root_available
             THEN pc' = "concepts" /\ UNCHANGED <<stdout, stderr, exit>>
             ELSE /\ Complain(Emitted(r.diagnostics))
                  /\ CASE options.command = "validate" /\ options.json ->
                            Write(Validation(r, NoConcepts, {}))
                       [] options.command # "validate" /\ options.json ->
                            Write(SayDiagnostics("json", "knowledge_unavailable", r.diagnostics))
                       [] OTHER -> UNCHANGED stdout
                  /\ Exit(ConfigurationError)
    BY DEF Load, LoadKnowledge
<1>2. /\ pc = "load" /\ parsed' = parsed /\ options' = options
      /\ concepts' = concepts /\ lint' = lint
    BY DEF Load, LoadKnowledge, cli
<1>3. /\ stdout = <<>> /\ stderr = <<>> /\ concepts = NoConcepts /\ lint = {}
      /\ options.command \in RunCommands
    BY <1>2 DEF IInv, NothingYet, CommandTaken
<1>4. r.diagnostics \in SUBSET Messages /\ r.skipped_entries \in Nat
    BY DEF LoadReports
<1>5. CASE r.root_available
    BY <1>1, <1>2, <1>3, <1>5, <1>4
       DEF IInv, CommandKnown, CommandTaken, NothingYet, KnowledgeThere, BothThere,
           RunCommands, Agreed, ExitCodeMatchesOutput, ValidateVerdictMatchesExit,
           NothingSwallowed, Ran, Exited
<1>6. CASE ~r.root_available
  <2>1. pc' = "exit" /\ exit' = ConfigurationError
      BY <1>1, <1>6 DEF Exit
  <2>2. Printed(stderr') = r.diagnostics
    <3>1. r.diagnostics \in SUBSET Messages
        BY <1>4
    <3>2. stderr' = Emitted(r.diagnostics)
      <4>1. stderr' = <<>> \o Emitted(r.diagnostics)
          BY <1>1, <1>3, <1>6 DEF Complain
      <4>2. Emitted(r.diagnostics) \in Seq(Complaints)
          BY <3>1, EmittedFacts
      <4> QED
          BY <4>1, <4>2
    <3> QED
        BY <3>1, <3>2, EmittedFacts
  <2>3. \/ stdout' = <<>> /\ Said(stdout') = {}
        \/ /\ Said(stdout') \subseteq {"error", "knowledge_unavailable"}
           /\ stdout'[1].says \in {"error", "knowledge_unavailable"}
           /\ options.command = "validate" => stdout'[1].says = "error"
    <3>1. CASE options.command = "validate" /\ options.json
      <4>1. ValidationStatus(r, NoConcepts, {}) = "error"
          BY <1>6 DEF ValidationStatus
      <4>2. stdout' = <<>> \o <<Item(Form, "error", r.diagnostics \cup NoConcepts.diagnostics \cup {}, 0)>>
          BY <1>1, <1>3, <1>6, <3>1, <4>1 DEF Write, Validation, SayDiagnostics
      <4> QED
          BY <4>2, OneItem
    <3>2. CASE options.command # "validate" /\ options.json
      <4>1. stdout' = <<>> \o <<Item("json", "knowledge_unavailable", r.diagnostics, 0)>>
          BY <1>1, <1>3, <1>6, <3>2 DEF Write, SayDiagnostics
      <4> QED
          BY <4>1, <3>2, OneItem
    <3>3. CASE ~options.json
        BY <1>1, <1>3, <1>6, <3>3, NoItem
    <3> QED
        BY <3>1, <3>2, <3>3
  <2>4. ExitCodeMatchesOutput'
      BY <1>1, <1>6, <2>1, <2>3
         DEF ExitCodeMatchesOutput, Success, NoConfidentResult, ConfigurationError
  <2>5. ValidateVerdictMatchesExit'
      BY <1>1, <1>2, <1>6, <2>1, <2>3
         DEF ValidateVerdictMatchesExit, Success, ConfigurationError
  <2>6. NothingSwallowed'
    <3>1. concepts'.diagnostics = {} /\ lint' = {}
        BY <1>2, <1>3 DEF NoConcepts
    <3> QED
        BY <1>1, <2>1, <2>2, <3>1
           DEF NothingSwallowed, Success, NoConfidentResult, ConfigurationError
  <2> QED
      BY <1>2, <2>1, <2>4, <2>5, <2>6
         DEF IInv, CommandKnown, CommandTaken, NothingYet, KnowledgeThere, BothThere,
             RunCommands, Agreed
<1> QED
    BY <1>5, <1>6

LEMMA LoadConceptsKeeps == ASSUME IInv, LoadConcepts, UNCHANGED <<cli, here>> PROVE IInv'
<1>1. PICK c \in ConceptReports(Messages, 0..MaxEntries) :
          /\ HonestConcepts(c) /\ concepts' = c /\ EmitLoads(c)
          /\ IF c.usable
             THEN pc' = options.command /\ UNCHANGED <<stdout, exit>>
             ELSE /\ CASE options.command = "validate" ->
                            Write(Validation(knowledge, c, {}))
                       [] options.command # "validate" /\ options.json ->
                            Write(SayDiagnostics("json", "concepts_invalid", c.diagnostics))
                       [] OTHER -> UNCHANGED stdout
                  /\ Exit(ConfigurationError)
    BY DEF LoadConcepts
<1>2. /\ pc = "concepts" /\ parsed' = parsed /\ options' = options
      /\ knowledge' = knowledge /\ lint' = lint
    BY DEF LoadConcepts, cli
<1>3. /\ stdout = <<>> /\ stderr = <<>> /\ lint = {} /\ options.command \in RunCommands
      /\ HonestLoad(knowledge) /\ knowledge.root_available
      /\ knowledge.diagnostics \in SUBSET Messages
    BY <1>2 DEF IInv, KnowledgeThere, CommandTaken
<1>4. c.diagnostics \in SUBSET Messages
    BY DEF ConceptReports
<1>5. /\ options.command = "validate" => stderr' = <<>>
      /\ stderr' \in Seq(Complaints)
      /\ options.command # "validate" =>
            Printed(stderr') = knowledge.diagnostics \cup c.diagnostics
  <2>1. CASE options.command = "validate"
      BY <2>1, <1>1, <1>3 DEF EmitLoads
  <2>2. CASE options.command # "validate"
    <3>1. stderr' = <<>> \o (Emitted(knowledge.diagnostics) \o Emitted(c.diagnostics))
        BY <2>2, <1>1, <1>3 DEF EmitLoads, Complain
    <3>2. /\ Emitted(knowledge.diagnostics) \in Seq(Complaints)
          /\ Emitted(c.diagnostics) \in Seq(Complaints)
          /\ Printed(Emitted(knowledge.diagnostics)) = knowledge.diagnostics
          /\ Printed(Emitted(c.diagnostics)) = c.diagnostics
        BY <1>3, <1>4, EmittedFacts
    <3>3. stderr' = Emitted(knowledge.diagnostics) \o Emitted(c.diagnostics)
          /\ stderr' \in Seq(Complaints)
        BY <3>1, <3>2
    <3> QED
        BY <2>2, <3>2, <3>3, PrintedTogether
  <2> QED
      BY <2>1, <2>2
<1>6. CASE c.usable
  <2>1. pc' = options.command /\ stdout' = <<>>
      BY <1>1, <1>3, <1>6
  <2> QED
      BY <1>1, <1>2, <1>3, <1>5, <1>6, <2>1
         DEF IInv, CommandKnown, CommandTaken, NothingYet, KnowledgeThere, BothThere,
             RunCommands, Agreed, ExitCodeMatchesOutput, ValidateVerdictMatchesExit,
             NothingSwallowed, Ran, Exited
<1>7. CASE ~c.usable
  <2>1. pc' = "exit" /\ exit' = ConfigurationError
      BY <1>1, <1>7 DEF Exit
  <2>2. \/ /\ stdout' = <<>> /\ Said(stdout') = {} /\ options.command # "validate"
        \/ /\ Said(stdout') \subseteq {"invalid", "concepts_invalid"}
           /\ stdout'[1].says \in {"invalid", "concepts_invalid"}
           /\ options.command = "validate" =>
                 Printed(stdout') = knowledge.diagnostics \cup c.diagnostics
    <3>1. CASE options.command = "validate"
      <4>1. ValidationStatus(knowledge, c, {}) = "invalid"
          BY <1>3, <1>7 DEF ValidationStatus, HasValidationIssues
      <4>2. stdout' = <<>> \o <<Item(Form, "invalid",
                                     knowledge.diagnostics \cup c.diagnostics \cup {}, 0)>>
          BY <1>1, <1>3, <1>7, <3>1, <4>1 DEF Write, Validation, SayDiagnostics
      <4> QED
          BY <4>2, OneItem
    <3>2. CASE options.command # "validate" /\ options.json
      <4>1. stdout' = <<>> \o <<Item("json", "concepts_invalid", c.diagnostics, 0)>>
          BY <1>1, <1>3, <1>7, <3>2 DEF Write, SayDiagnostics
      <4> QED
          BY <4>1, <3>2, OneItem
    <3>3. CASE options.command # "validate" /\ ~options.json
        BY <1>1, <1>3, <1>7, <3>3, NoItem
    <3> QED
        BY <3>1, <3>2, <3>3
  <2>3. ExitCodeMatchesOutput'
      BY <1>1, <1>7, <2>1, <2>2
         DEF ExitCodeMatchesOutput, Success, NoConfidentResult, ConfigurationError
  <2>4. ValidateVerdictMatchesExit'
      BY <1>1, <1>2, <1>3, <2>1, <2>2
         DEF ValidateVerdictMatchesExit, Success, ConfigurationError
  <2>5. NothingSwallowed'
    <3>1. knowledge'.diagnostics \cup concepts'.diagnostics \cup lint'
              = knowledge.diagnostics \cup c.diagnostics
        BY <1>1, <1>2, <1>3
    <3>2. knowledge.diagnostics \cup c.diagnostics \subseteq Printed(stdout') \cup Printed(stderr')
        BY <1>5, <2>2
    <3> QED
        BY <2>1, <3>1, <3>2
           DEF NothingSwallowed, Success, NoConfidentResult, ConfigurationError
  <2> QED
      BY <1>2, <2>1, <2>3, <2>4, <2>5
         DEF IInv, CommandKnown, CommandTaken, NothingYet, KnowledgeThere, BothThere,
             RunCommands, Agreed
<1> QED
    BY <1>6, <1>7

\* A stage that answers ends the run: what it must show for the whole
\* invariant.
LEMMA LastStage ==
    ASSUME IInv, UNCHANGED <<cli, here>>, pc' = "exit", Agreed' PROVE IInv'
    BY DEF IInv, CommandKnown, CommandTaken, NothingYet, KnowledgeThere, BothThere,
           RunCommands, cli

\* The status that is printed looks at more than the exit code, but an honest
\* report has nothing there without a diagnostic.
LEMMA ValidateKeeps == ASSUME IInv, Validate, UNCHANGED <<cli, here>> PROVE IInv'
<1>1. PICK l \in SUBSET Messages :
          /\ lint' = l /\ Write(Validation(knowledge, concepts, l))
          /\ Exit(IF HasIssues(knowledge) \/ ConceptHasIssues(concepts) \/ l # {}
                  THEN NoConfidentResult ELSE Success)
    BY DEF Validate
<1>2. /\ pc = "validate" /\ options' = options
      /\ knowledge' = knowledge /\ concepts' = concepts
    BY DEF Validate
<1>3. /\ stdout = <<>> /\ HonestLoad(knowledge) /\ knowledge.root_available
      /\ concepts.usable /\ options.command = "validate"
      /\ knowledge.skipped_entries \in Nat
    BY <1>2 DEF IInv, BothThere, RunCommands
<1> DEFINE bad == knowledge.diagnostics # {} \/ concepts.diagnostics # {} \/ l # {}
<1>4. ValidationStatus(knowledge, concepts, l) = IF bad THEN "invalid" ELSE "valid"
  <2>1. knowledge.skipped_entries # 0 => knowledge.diagnostics # {}
      BY <1>3 DEF HonestLoad, HasIssues
  <2> QED
      BY <1>3, <2>1 DEF ValidationStatus, HasValidationIssues
<1>5. exit' = (IF bad THEN NoConfidentResult ELSE Success) /\ pc' = "exit"
    BY <1>1, <1>3 DEF Exit, HasIssues, ConceptHasIssues
<1> HIDE DEF bad
<1>6. stdout' = <<>> \o <<Item(Form, ValidationStatus(knowledge, concepts, l),
                               knowledge.diagnostics \cup concepts.diagnostics \cup l, 0)>>
    BY <1>1, <1>3 DEF Write, Validation, SayDiagnostics
<1>7. /\ stdout'[1].says = (IF bad THEN "invalid" ELSE "valid")
      /\ Said(stdout') = {IF bad THEN "invalid" ELSE "valid"}
      /\ Printed(stdout') = knowledge.diagnostics \cup concepts.diagnostics \cup l
    BY <1>4, <1>6, OneItem
<1>8. ExitCodeMatchesOutput'
  <2>1. CASE bad
    <3>1. exit' = NoConfidentResult /\ Said(stdout') = {"invalid"}
        BY <1>5, <1>7, <2>1
    <3> QED
        BY <1>2, <1>3, <3>1
           DEF ExitCodeMatchesOutput, Success, NoConfidentResult, ConfigurationError
  <2>2. CASE ~bad
    <3>1. exit' = Success /\ Said(stdout') = {"valid"}
        BY <1>5, <1>7, <2>2
    <3> QED
        BY <1>2, <1>3, <3>1
           DEF ExitCodeMatchesOutput, Success, NoConfidentResult, ConfigurationError
  <2> QED
      BY <2>1, <2>2
<1>9. ValidateVerdictMatchesExit'
    BY <1>2, <1>3, <1>5, <1>7
       DEF ValidateVerdictMatchesExit, Success, NoConfidentResult, ConfigurationError
<1>10. NothingSwallowed'
    BY <1>1, <1>2, <1>3, <1>7 DEF NothingSwallowed
<1> QED
    BY <1>5, <1>8, <1>9, <1>10, LastStage DEF Agreed

\* What an answer ends with: an exit code that fits what was said, and the
\* diagnostics of both loads on stderr, none of them in the answer.
LEMMA AnswerKeeps ==
    ASSUME IInv, UNCHANGED <<cli, here>>,
           pc \in {"list", "show", "search"}, pc' = "exit", WarnIfEmpty,
           UNCHANGED <<options, knowledge, concepts, lint>>,
           Printed(stdout') = {},
           \/ exit' = Success /\ Said(stdout') \cap {"entry", "list", "confident"} # {}
           \/ /\ exit' = NoConfidentResult
              /\ Said(stdout') \subseteq {"uncertain", "suggestions", "no_match", "not_found",
                                         "explanation"}
              /\ Said(stdout') \cap {"uncertain", "suggestions", "no_match", "not_found"} # {}
    PROVE  IInv'
<1>1. /\ options.command = pc /\ pc # "validate" /\ stderr \in Seq(Complaints)
      /\ knowledge.root_available /\ concepts.usable /\ lint = {}
      /\ knowledge.diagnostics \cup concepts.diagnostics \subseteq Printed(stderr)
    BY DEF IInv, BothThere, RunCommands
<1>2. Printed(stderr) \subseteq Printed(stderr')
  <2>1. CASE knowledge.loaded_entries = 0
    <3> DEFINE warning == Item("text", "no valid entries", {}, 0)
    <3>1. warning \in Complaints
        BY DEF Item, Complaints
    <3>2. stderr' = stderr \o <<warning>>
        BY <2>1 DEF WarnIfEmpty, Complain, Say
    <3> HIDE DEF warning
    <3> DEFINE added == <<warning>>
    <3>3. added \in Seq(Complaints)
        BY <3>1
    <3>4. stderr' = stderr \o added
        BY <3>2
    <3> HIDE DEF added
    <3>5. Printed(stderr \o added) = Printed(stderr) \cup Printed(added)
        BY <1>1, <3>3, PrintedTogether
    <3> QED
        BY <3>4, <3>5
  <2>2. CASE knowledge.loaded_entries # 0
      BY <2>2 DEF WarnIfEmpty
  <2> QED
      BY <2>1, <2>2
<1>3. ExitCodeMatchesOutput'
    BY <1>1 DEF ExitCodeMatchesOutput, Success, NoConfidentResult, ConfigurationError
<1>4. ValidateVerdictMatchesExit'
    BY <1>1 DEF ValidateVerdictMatchesExit
<1>5. NothingSwallowed'
    BY <1>1, <1>2 DEF NothingSwallowed
<1> QED
    BY <1>3, <1>4, <1>5, LastStage DEF Agreed

LEMMA ListKeeps == ASSUME IInv, List, UNCHANGED <<cli, here>> PROVE IInv'
<1>1. stdout = <<>>
    BY DEF List, IInv, BothThere, RunCommands
<1>2. stdout' = <<>> \o <<Item(Form, "list", {}, knowledge.loaded_entries)>>
    BY <1>1 DEF List, Write
<1>3. Printed(stdout') = {} /\ Said(stdout') = {"list"}
    BY <1>2, OneItem
<1>4. /\ pc = "list" /\ pc' = "exit" /\ exit' = Success /\ WarnIfEmpty
      /\ UNCHANGED <<options, knowledge, concepts, lint>>
    BY DEF List, Exit, outcome
<1> QED
    BY <1>3, <1>4, AnswerKeeps

LEMMA ShowKeeps == ASSUME IInv, Show, UNCHANGED <<cli, here>> PROVE IInv'
<1>1. stdout = <<>>
    BY DEF Show, IInv, BothThere, RunCommands
<1>2. PICK status \in {"ok", "not_found"} :
          /\ Write(Say(Form, IF status = "ok" THEN "entry" ELSE "not_found"))
          /\ Exit(IF status = "ok" THEN Success ELSE NoConfidentResult)
    BY DEF Show
<1>3. stdout' = <<>> \o <<Item(Form, IF status = "ok" THEN "entry" ELSE "not_found", {}, 0)>>
    BY <1>1, <1>2 DEF Write, Say
<1>4. Printed(stdout') = {} /\ Said(stdout') = {IF status = "ok" THEN "entry" ELSE "not_found"}
    BY <1>3, OneItem
<1>5. /\ pc = "show" /\ pc' = "exit" /\ WarnIfEmpty
      /\ UNCHANGED <<options, knowledge, concepts, lint>>
      /\ exit' = IF status = "ok" THEN Success ELSE NoConfidentResult
    BY <1>2 DEF Show, Exit
<1>6. CASE status = "ok"
    BY <1>4, <1>5, <1>6, AnswerKeeps
<1>7. CASE status = "not_found"
    BY <1>4, <1>5, <1>7, AnswerKeeps
<1> QED
    BY <1>6, <1>7

\* What is shown of a search, with its explanation when asked for, prints no
\* diagnostics and says what it says.
LEMMA ShownItem ==
    ASSUME NEW o, NEW item, item.diagnostics = {},
           NEW out, out = <<>> \o (<<item>> \o Explained(o))
    PROVE  /\ Printed(out) = {} /\ item.says \in Said(out)
           /\ Said(out) \subseteq {item.says, "explanation"}
<1> DEFINE why == Item("text", "explanation", {}, Limited(o.results))
<1>1. why.diagnostics = {} /\ why.says = "explanation"
    BY DEF Item
<1>2. \/ out = <<>> \o (<<item>> \o <<why>>)
      \/ out = <<>> \o (<<item>> \o <<>>)
    BY DEF Explained
<1> HIDE DEF why
<1>3. \/ DOMAIN out = 1..2 /\ out[1] = item /\ out[2] = why
      \/ DOMAIN out = 1..1 /\ out[1] = item
    BY <1>2
<1>4. \A i \in DOMAIN out : out[i].diagnostics = {} /\ out[i].says \in {item.says, "explanation"}
    BY <1>1, <1>3
<1>5. 1 \in DOMAIN out /\ out[1].says = item.says
    BY <1>3
<1> QED
    BY <1>4, <1>5 DEF Printed, Said

LEMMA SearchKeeps == ASSUME IInv, Search, UNCHANGED <<cli, here>> PROVE IInv'
<1>1. stdout = <<>>
    BY DEF Search, IInv, BothThere, RunCommands
<1>2. PICK o \in Outcomes :
          /\ Write(SearchOutput(o))
          /\ Exit(IF o.status = "confident" THEN Success ELSE NoConfidentResult)
    BY DEF Search
<1>3. o.status \in {"confident", "uncertain", "no_match"}
    BY DEF Outcomes
<1>4. /\ pc = "search" /\ pc' = "exit" /\ WarnIfEmpty
      /\ UNCHANGED <<options, knowledge, concepts, lint>>
      /\ exit' = IF o.status = "confident" THEN Success ELSE NoConfidentResult
    BY <1>2 DEF Search, Exit
<1>5. stdout' = <<>> \o SearchOutput(o)
    BY <1>1, <1>2 DEF Write
<1>6. /\ Printed(stdout') = {} /\ Said(stdout') # {}
      /\ o.status = "confident" => Said(stdout') \cap {"entry", "confident"} # {}
      /\ o.status # "confident" =>
            /\ Said(stdout') \subseteq {"uncertain", "suggestions", "no_match", "explanation"}
            /\ Said(stdout') \cap {"uncertain", "suggestions", "no_match"} # {}
  <2>1. CASE options.json
    <3>1. stdout' = <<>> \o <<Item("json", o.status, {}, Limited(o.results))>>
        BY <1>5, <2>1 DEF SearchOutput
    <3>2. Printed(stdout') = {} /\ Said(stdout') = {o.status}
        BY <3>1, OneItem
    <3> QED
        BY <1>3, <3>2
  <2>2. CASE ~options.json /\ o.status = "confident"
    <3> DEFINE entry == Item("text", "entry", {}, 0)
    <3>1. stdout' = <<>> \o (<<entry>> \o Explained(o))
        BY <1>5, <2>2 DEF SearchOutput, Say
    <3>2. entry.diagnostics = {} /\ entry.says = "entry"
        BY DEF Item
    <3> HIDE DEF entry
    <3> QED
        BY <2>2, <3>1, <3>2, ShownItem
  <2>3. CASE ~options.json /\ o.status = "uncertain"
    <3> DEFINE those == Item("text", "suggestions", {}, Limited(o.results))
    <3>1. stdout' = <<>> \o (<<those>> \o Explained(o))
        BY <1>5, <2>3 DEF SearchOutput
    <3>2. those.diagnostics = {} /\ those.says = "suggestions"
        BY DEF Item
    <3> HIDE DEF those
    <3> QED
        BY <2>3, <3>1, <3>2, ShownItem
  <2>4. CASE ~options.json /\ o.status = "no_match"
    <3>1. stdout' = <<>> \o <<Item("text", "no_match", {}, 0)>>
        BY <1>5, <2>4 DEF SearchOutput, Say
    <3> QED
        BY <3>1, <2>4, OneItem
  <2> QED
      BY <1>3, <2>1, <2>2, <2>3, <2>4
<1>7. CASE o.status = "confident"
    BY <1>4, <1>6, <1>7, AnswerKeeps
<1>8. CASE o.status # "confident"
    BY <1>4, <1>6, <1>8, AnswerKeeps
<1> QED
    BY <1>7, <1>8

-----------------------------------------------------------------------------
(* The stages, and what they print.                                        *)

\* Steps of the parse and of the surroundings leave the stages alone.
LEMMA AppUnchanged == ASSUME IInv, UNCHANGED app, CommandKnown' PROVE IInv'
<1>1. UNCHANGED <<pc, options, knowledge, concepts, lint, stdout, stderr, exit>>
    BY DEF app, outcome
<1>2. (CommandTaken /\ NothingYet /\ KnowledgeThere)'
    BY <1>1 DEF IInv, CommandTaken, NothingYet, KnowledgeThere
<1>3. Printed(stderr)' = Printed(stderr) /\ Printed(stdout)' = Printed(stdout)
      /\ Said(stdout)' = Said(stdout)
    BY <1>1 DEF Printed, Said
<1>4. BothThere'
    BY <1>1, <1>3 DEF IInv, BothThere
<1>5. ExitCodeMatchesOutput'
    BY <1>1, <1>3 DEF IInv, Agreed, ExitCodeMatchesOutput, Ran, Exited
<1>6. ValidateVerdictMatchesExit'
    BY <1>1 DEF IInv, Agreed, ValidateVerdictMatchesExit, Ran, Exited
<1>7. NothingSwallowed'
    BY <1>1, <1>3 DEF IInv, Agreed, NothingSwallowed, Ran, Exited
<1> QED
    BY <1>2, <1>4, <1>5, <1>6, <1>7 DEF IInv, Agreed

LEMMA InvariantNext == IInv /\ [RunNext]_<<cli, app, here>> => IInv'
<1> SUFFICES ASSUME IInv, [RunNext]_<<cli, app, here>> PROVE IInv'
    OBVIOUS
<1>1. CASE Parse
    BY <1>1, ParseKeepsCommand, AppUnchanged DEF Parse, IInv
<1>2. CASE Stop \/ Reject \/ Inform
    BY <1>2, EarlyExitKeeps
<1>3. CASE Resolve
    BY <1>3, ResolveKeeps
<1>4. CASE Load
    BY <1>4, LoadKeeps
<1>5. CASE Continue
  <2>1. UNCHANGED <<cli, here>> /\ Stages
      BY <1>5 DEF Continue
  <2> QED
      BY <2>1, LoadConceptsKeeps, ValidateKeeps, ListKeeps, ShowKeeps, SearchKeeps DEF Stages
<1>6. CASE Move
    BY <1>6, AppUnchanged DEF Move, IInv, CommandKnown, cli
<1>7. CASE UNCHANGED <<cli, app, here>>
    BY <1>7, AppUnchanged DEF IInv, CommandKnown, cli
<1> QED
    BY <1>1, <1>2, <1>3, <1>4, <1>5, <1>6, <1>7 DEF RunNext, Work

THEOREM Invariant == RunSpec => []IInv
<1> QED
    BY InitHolds, InvariantNext, PTL DEF RunSpec

\* Of a run that has looked for a knowledge base, the exit code says what
\* stdout says, whatever was asked, loaded and found.
THEOREM ExitCodesMatch == RunSpec => []ExitCodeMatchesOutput
<1>1. IInv => ExitCodeMatchesOutput
    BY DEF IInv, Agreed
<1> QED
    BY <1>1, Invariant, PTL

\* validate prints "valid" exactly when it exits with 0, although the renderer
\* and the application ask different fields of the reports.
THEOREM VerdictsMatch == RunSpec => []ValidateVerdictMatchesExit
<1>1. IInv => ValidateVerdictMatchesExit
    BY DEF IInv, Agreed
<1> QED
    BY <1>1, Invariant, PTL

\* Every diagnostic of a load or of the lint reaches the user, and none gets
\* into an answer.
THEOREM DiagnosticsReachTheUser == RunSpec => []NothingSwallowed
<1>1. IInv => NothingSwallowed
    BY DEF IInv, Agreed
<1> QED
    BY <1>1, Invariant, PTL


-----------------------------------------------------------------------------
(* The reference of the command line: the role of each argument.           *)

\* What the equation says of position i, given the roles before it.
RoleAt(args, g, i) ==
    IF i > 1 /\ g[i - 1] = "takes" THEN "value"
    ELSE IF \E j \in 1..(i - 1) : g[j] = "terminator" THEN "text"
    ELSE IF args[i] = "--" THEN "terminator"
    ELSE IF args[i] \in {"--knowledge", "--limit"} THEN "takes"
    ELSE IF args[i] \in Dashed THEN "option" ELSE "text"

\* The role of an argument depends on those before it only, so the equation
\* of Role has a solution, and Role is one.
LEMMA RoleEquation ==
    ASSUME NEW args, Len(args) \in Nat, DOMAIN args = 1..Len(args)
    PROVE  \A i \in DOMAIN args : CL!Role(args)[i] = RoleAt(args, CL!Role(args), i)
<1> DEFINE N == Len(args)
           solves(g, n) == \A i \in 1..n : g[i] = RoleAt(args, g, i)
           S == {n \in 0..N : ~ \E g : solves(g, n)}
           rhs(g) == [i \in DOMAIN args |-> RoleAt(args, g, i)]
<1>0. \A g, h, i : (\A j \in 1..(i - 1) : g[j] = h[j]) /\ i \in Nat \ {0} =>
          RoleAt(args, g, i) = RoleAt(args, h, i)
  <2> TAKE g, h, i
  <2> HAVE (\A j \in 1..(i - 1) : g[j] = h[j]) /\ i \in Nat \ {0}
  <2>1. i > 1 => i - 1 \in 1..(i - 1)
      OBVIOUS
  <2> QED
      BY <2>1 DEF RoleAt
<1>1. \E g : solves(g, N)
  <2> SUFFICES ASSUME N \in S PROVE FALSE
      OBVIOUS
  <2>1. PICK m \in S : \A k \in S : m <= k
    <3>1. S \in SUBSET Nat /\ S # {}
        OBVIOUS
    <3> HIDE DEF S
    <3> QED
        BY <3>1, LeastNumber
  <2>2. m # 0
    <3>1. solves(args, 0)
        OBVIOUS
    <3> QED
        BY <3>1
  <2>3. m - 1 \in 0..N /\ m \in 1..N /\ m - 1 \notin S
    <3>1. m \in 0..N /\ N \in Nat
        OBVIOUS
    <3>2. m - 1 \in 0..N /\ m \in 1..N
        BY <2>2, <3>1
    <3> HIDE DEF S
    <3>3. m - 1 \notin S
        BY <2>1, <3>1
    <3> QED
        BY <3>2, <3>3
  <2>4. PICK g : solves(g, m - 1)
      BY <2>3
  <2> DEFINE h == [i \in 1..m |-> IF i = m THEN RoleAt(args, g, m) ELSE g[i]]
  <2>5. \A i \in 1..(m - 1) : h[i] = g[i]
      BY <2>3
  <2>6. \A i \in 1..m : RoleAt(args, h, i) = RoleAt(args, g, i)
    <3> TAKE i \in 1..m
    <3>1. \A j \in 1..(i - 1) : h[j] = g[j]
        BY <2>3, <2>5
    <3> HIDE DEF h
    <3> QED
        BY <2>3, <3>1, <1>0
  <2>7. solves(h, m)
    <3> TAKE i \in 1..m
    <3>1. h[i] = IF i = m THEN RoleAt(args, g, m) ELSE g[i]
        OBVIOUS
    <3>2. i # m => i \in 1..(m - 1)
        BY <2>3
    <3> HIDE DEF h
    <3> QED
        BY <2>4, <2>6, <3>1, <3>2
  <2> QED
      BY <2>1, <2>7
<1>2. PICK g : solves(g, N)
    BY <1>1
<1> DEFINE h == [i \in 1..N |-> g[i]]
<1>3. h = rhs(h)
  <2>1. \A i \in 1..N : RoleAt(args, h, i) = RoleAt(args, g, i)
    <3> TAKE i \in 1..N
    <3>1. \A j \in 1..(i - 1) : h[j] = g[j]
        OBVIOUS
    <3> HIDE DEF h
    <3> QED
        BY <3>1, <1>0
  <2>2. \A i \in 1..N : h[i] = RoleAt(args, h, i)
      BY <1>2, <2>1
  <2>3. DOMAIN args = 1..N
      OBVIOUS
  <2>4. rhs(h) = [i \in 1..N |-> RoleAt(args, h, i)]
      BY <2>3
  <2> QED
      BY <2>2, <2>4
<1>4. CL!Role(args) = rhs(CL!Role(args))
  <2>1. CL!Role(args) = CHOOSE f : f = rhs(f)
      BY Zenon DEF CL!Role, RoleAt
  <2> QED
      BY <1>3, <2>1
<1> HIDE DEF h
<1> QED
    BY <1>4

-----------------------------------------------------------------------------
(* What the pass has found out when it stands at an index: what the roles  *)
(* of the arguments before it say together.                                *)

Strings == STRING \ {Absent}

Roles  == CL!Role(arguments)
Terms  == CL!Having(arguments, {"terminator"})
Words  == CL!Having(arguments, {"text"})
Flagged(flag) == {i \in CL!Having(arguments, {"option"}) : arguments[i] = flag}
Limits == CL!Given(arguments, "--limit")
Paths  == CL!Given(arguments, "--knowledge")

IndexOk ==
    /\ arguments \in ArgumentLists
    /\ index \in 1..Len(arguments) + 1
    /\ index > 1 => Roles[index - 1] # "takes"

Terminated == parse_options <=> \A t \in Terms : index <= t

Implicit ==
    force_implicit_query <=>
        \E t \in Terms : t < index /\ \A i \in Words : i < index => t < i

WordsBefore(n) == {i \in Words : i < n}
Ordinal(i) == Cardinality({j \in Words : j <= i})
Collected ==
    /\ positional \in Seq(Strings)
    /\ Len(positional) = Cardinality(WordsBefore(index))
    /\ \A i \in WordsBefore(index) : positional[Ordinal(i)] = arguments[i]
    /\ \A n \in 1..Len(positional) : \E i \in WordsBefore(index) : Ordinal(i) = n

Flags ==
    /\ parsed.explain <=> \E i \in Flagged("--explain") : i < index
    /\ parsed.json <=> \E i \in Flagged("--json") : i < index
    /\ parsed.raw <=> \E i \in Flagged("--raw") : i < index

LimitSeen ==
    /\ (\A i \in Limits : index <= i) => parsed.limit = DefaultLimit
    /\ \A i \in Limits :
        i < index /\ (\A j \in Limits : j < index => j <= i) =>
            parsed.limit = NumberOf[CL!Value(arguments, i)]

PathSeen ==
    /\ (\A i \in Paths : index <= i) => parsed.knowledge_path = Absent
    /\ \A i \in Paths : i < index => parsed.knowledge_path = CL!Value(arguments, i)

NothingWrong == \A i \in CL!Asks(arguments) \cup CL!Errs(arguments) : index <= i

Unfinished ==
    /\ error = ""
    /\ parsed \in [command : {"search"}, knowledge_path : Strings \cup {Absent}, limit : 1..MaximumLimit,
                   explain : BOOLEAN, json : BOOLEAN, raw : BOOLEAN,
                   query : {<<>>}, entry_id : {Absent}]

Passing ==
    /\ IndexOk /\ Terminated /\ Implicit /\ Collected /\ Flags
    /\ LimitSeen /\ PathSeen /\ NothingWrong /\ Unfinished

-----------------------------------------------------------------------------
(* Arguments and their roles.                                              *)

LEMMA ArgumentFacts ==
    ASSUME NEW args \in ArgumentLists
    PROVE  /\ args \in Seq(Strings) /\ Len(args) \in Nat /\ DOMAIN args = 1..Len(args)
           /\ \A i \in DOMAIN args : args[i] \in Strings
<1>1. args \in Seq(Strings)
    BY AbsentAssumption DEF Strings
<1> QED
    BY <1>1

\* A role is one of five, and the sets of positions are those of the roles.
LEMMA RoleFacts ==
    ASSUME NEW args \in ArgumentLists
    PROVE  /\ \A i \in DOMAIN args : CL!Role(args)[i] \in
                  {"value", "text", "terminator", "takes", "option"}
           /\ \A i, role : i \in CL!Having(args, {role}) <=>
                  i \in DOMAIN args /\ CL!Role(args)[i] = role
           /\ \A i, option : i \in CL!Given(args, option) <=>
                  /\ i \in DOMAIN args /\ CL!Role(args)[i] \in {"takes", "option"}
                  /\ CL!Names(args[i], option)
<1>1. \A i \in DOMAIN args : CL!Role(args)[i] = RoleAt(args, CL!Role(args), i)
    BY RoleEquation, ArgumentFacts
<1>2. \A i \in DOMAIN args : CL!Role(args)[i] \in
          {"value", "text", "terminator", "takes", "option"}
    BY <1>1 DEF RoleAt
<1> QED
    BY <1>2 DEF CL!Having, CL!Given

\* The role of the argument at the index is what the pass takes it for.
LEMMA RoleHere ==
    ASSUME IndexOk, Terminated, index <= Len(arguments)
    PROVE  /\ index \in DOMAIN arguments
           /\ Roles[index] =
                IF ~parse_options THEN "text"
                ELSE IF arguments[index] = "--" THEN "terminator"
                ELSE IF arguments[index] \in {"--knowledge", "--limit"} THEN "takes"
                ELSE IF arguments[index] \in Dashed THEN "option" ELSE "text"
<1>1. arguments \in ArgumentLists /\ index \in 1..Len(arguments) + 1
      /\ Len(arguments) \in Nat /\ DOMAIN arguments = 1..Len(arguments)
    BY ArgumentFacts DEF IndexOk
<1>2. index \in DOMAIN arguments
    BY <1>1
<1>3. Roles[index] = RoleAt(arguments, Roles, index)
    BY <1>1, <1>2, RoleEquation DEF Roles
<1>4. \A i : i \in Terms <=> i \in DOMAIN arguments /\ Roles[i] = "terminator"
    BY <1>1, RoleFacts DEF Terms, Roles
<1>5. parse_options <=> ~ \E j \in 1..(index - 1) : Roles[j] = "terminator"
    BY <1>1, <1>4 DEF Terminated
<1>6. ~(index > 1 /\ Roles[index - 1] = "takes")
    BY DEF IndexOk
<1> QED
    BY <1>2, <1>3, <1>5, <1>6 DEF RoleAt

LEMMA RoleOfValue ==
    ASSUME arguments \in ArgumentLists, NEW i \in DOMAIN arguments,
           i + 1 \in DOMAIN arguments, Roles[i] = "takes"
    PROVE  Roles[i + 1] = "value"
<1>1. Roles[i + 1] = RoleAt(arguments, Roles, i + 1)
    BY RoleEquation, ArgumentFacts DEF Roles
<1>2. i \in Nat \ {0}
    BY ArgumentFacts
<1>3. i + 1 > 1 /\ (i + 1) - 1 = i
    BY <1>2
<1> QED
    BY <1>1, <1>3 DEF RoleAt

\* The pass goes to the next argument, or behind the value of an option.
Advances ==
    \/ index' = index + 1 /\ Roles[index] # "takes"
    \/ index' = index + 2 /\ Roles[index] = "takes" /\ index + 1 <= Len(arguments)

\* Of the positions the reference speaks of, it passes the index alone.
LEMMA AdvanceFacts ==
    ASSUME IndexOk, index <= Len(arguments), Advances, UNCHANGED arguments
    PROVE  /\ IndexOk'
           /\ \A i \in DOMAIN arguments : Roles[i] # "value" =>
                  (i < index' <=> i < index \/ i = index)
<1>1. arguments \in ArgumentLists /\ index \in 1..Len(arguments) + 1
      /\ Len(arguments) \in Nat /\ DOMAIN arguments = 1..Len(arguments)
    BY ArgumentFacts DEF IndexOk
<1>2. index \in DOMAIN arguments
    BY <1>1
<1>3. Roles' = Roles
    BY DEF Roles
<1>4. CASE index' = index + 1 /\ Roles[index] # "takes"
  <2>1. index' - 1 = index /\ index' \in 1..Len(arguments) + 1
      BY <1>1, <1>4
  <2>2. IndexOk'
      BY <1>1, <1>3, <1>4, <2>1 DEF IndexOk
  <2> QED
      BY <1>1, <1>4, <2>2
<1>5. CASE index' = index + 2 /\ Roles[index] = "takes" /\ index + 1 <= Len(arguments)
  <2>1. Roles[index + 1] = "value"
      BY <1>1, <1>2, <1>5, RoleOfValue
  <2>2. index' - 1 = index + 1 /\ index' \in 1..Len(arguments) + 1
      BY <1>1, <1>5
  <2>3. IndexOk'
      BY <1>1, <1>3, <1>5, <2>1, <2>2 DEF IndexOk
  <2>4. \A i \in DOMAIN arguments : i < index' <=> i < index \/ i = index \/ i = index + 1
      BY <1>1, <1>5
  <2> QED
      BY <2>1, <2>3, <2>4
<1> QED
    BY <1>4, <1>5 DEF Advances

-----------------------------------------------------------------------------
(* One argument further, part by part.                                     *)

\* The index, and every position of a set the reference speaks of.
LEMMA Positions ==
    ASSUME arguments \in ArgumentLists
    PROVE  /\ \A i : i \in Terms <=> i \in DOMAIN arguments /\ Roles[i] = "terminator"
           /\ \A i : i \in Words <=> i \in DOMAIN arguments /\ Roles[i] = "text"
           /\ \A i, flag : i \in Flagged(flag) <=>
                  i \in DOMAIN arguments /\ Roles[i] = "option" /\ arguments[i] = flag
           /\ \A i : i \in Limits <=>
                  /\ i \in DOMAIN arguments /\ Roles[i] \in {"takes", "option"}
                  /\ CL!Names(arguments[i], "--limit")
           /\ \A i : i \in Paths <=>
                  /\ i \in DOMAIN arguments /\ Roles[i] \in {"takes", "option"}
                  /\ CL!Names(arguments[i], "--knowledge")
    BY RoleFacts DEF Terms, Words, Flagged, Limits, Paths, Roles

\* An index that goes further, and the positions it passes.
Further ==
    /\ arguments \in ArgumentLists /\ UNCHANGED arguments
    /\ index \in Nat /\ index' \in Nat /\ DOMAIN arguments \subseteq Nat
    /\ index \in DOMAIN arguments
    /\ \A i \in DOMAIN arguments : Roles[i] # "value" => (i < index' <=> i < index \/ i = index)

LEMMA FurtherFacts ==
    ASSUME IndexOk, index <= Len(arguments), Advances, UNCHANGED arguments
    PROVE  Further
<1>1. arguments \in ArgumentLists /\ index \in 1..Len(arguments) + 1
      /\ Len(arguments) \in Nat /\ DOMAIN arguments = 1..Len(arguments)
    BY ArgumentFacts DEF IndexOk
<1>2. index \in DOMAIN arguments /\ DOMAIN arguments \subseteq Nat /\ index \in Nat
    BY <1>1
<1>3. index' \in Nat
    BY <1>2 DEF Advances
<1> QED
    BY <1>1, <1>2, <1>3, AdvanceFacts DEF Further

\* Each set of positions, before and behind the step.
LEMMA PassedPositions ==
    ASSUME Further, NEW S,
           S \in {Terms, Words, Limits, Paths}
               \cup {Flagged(flag) : flag \in {"--explain", "--json", "--raw"}}
    PROVE  S \subseteq Nat /\ \A i \in S : i < index' <=> i < index \/ i = index
<1>1. \A i \in S : i \in DOMAIN arguments /\ Roles[i] # "value"
    BY Positions DEF Further
<1> QED
    BY <1>1 DEF Further

LEMMA SetsStay ==
    ASSUME UNCHANGED arguments
    PROVE  /\ Terms' = Terms /\ Words' = Words /\ Limits' = Limits /\ Paths' = Paths
           /\ Roles' = Roles
           /\ \A flag : Flagged(flag)' = Flagged(flag)
    BY DEF Terms, Words, Limits, Paths, Flagged, Roles

LEMMA TerminatedKept ==
    ASSUME Further, Terminated, parse_options' <=> (parse_options /\ index \notin Terms)
    PROVE  Terminated'
<1>1. Terms \subseteq Nat /\ \A i \in Terms : i < index' <=> i < index \/ i = index
    BY PassedPositions
<1>2. index \in Nat /\ index' \in Nat
    BY DEF Further
<1>3. \A i \in Terms : /\ index' <= i <=> ~(i < index')
                       /\ index <= i <=> ~(i < index)
    BY <1>1, <1>2
<1>4. (\A t \in Terms : index' <= t) <=> (\A t \in Terms : index <= t) /\ index \notin Terms
    BY <1>1, <1>2, <1>3
<1>5. Terms' = Terms
    BY SetsStay DEF Further
<1> QED
    BY <1>4, <1>5 DEF Terminated

LEMMA WordsBeforeFinite ==
    ASSUME arguments \in ArgumentLists, NEW n
    PROVE  IsFiniteSet(WordsBefore(n))
<1>1. Len(arguments) \in Nat /\ DOMAIN arguments = 1..Len(arguments)
    BY ArgumentFacts
<1>2. IsFiniteSet(1..Len(arguments))
    BY <1>1, FS_Interval
<1>3. WordsBefore(n) \subseteq 1..Len(arguments)
    BY <1>1, Positions DEF WordsBefore
<1> QED
    BY <1>2, <1>3, FS_Subset

LEMMA ImplicitKept ==
    ASSUME Further, Implicit, Terminated, Collected,
           index \in Terms => parse_options /\ (force_implicit_query' <=> positional = <<>>),
           index \notin Terms => (force_implicit_query' <=> force_implicit_query)
    PROVE  Implicit'
<1>1. Terms \subseteq Nat /\ \A i \in Terms : i < index' <=> i < index \/ i = index
    BY PassedPositions
<1>2. Words \subseteq Nat /\ \A i \in Words : i < index' <=> i < index \/ i = index
    BY PassedPositions
<1>3. Terms' = Terms /\ Words' = Words
    BY SetsStay DEF Further
<1>4. index \in Nat /\ index' \in Nat
    BY DEF Further
<1>5. CASE index \in Terms
  <2>1. index \notin Words
      BY <1>5, Positions DEF Further
  <2>2. positional = <<>> <=> WordsBefore(index) = {}
    <3>1. Len(positional) = Cardinality(WordsBefore(index)) /\ positional \in Seq(Strings)
        BY DEF Collected
    <3>2. IsFiniteSet(WordsBefore(index))
        BY WordsBeforeFinite DEF Further
    <3>3. Cardinality(WordsBefore(index)) = 0 <=> WordsBefore(index) = {}
        BY <3>2, FS_EmptySet
    <3> QED
        BY <3>1, <3>3
  <2>3. \A t \in Terms : index <= t
      BY <1>5 DEF Terminated
  <2>4. \A t \in Terms : t < index' <=> t = index
      BY <1>1, <1>4, <2>3
  <2>5. (\E t \in Terms : t < index' /\ \A i \in Words : i < index' => t < i)
            <=> \A i \in Words : i < index' => index < i
      BY <1>1, <1>4, <1>5, <2>4
  <2>6. (\A i \in Words : i < index' => index < i) <=> WordsBefore(index) = {}
    <3>1. \A i \in Words : i # index
        BY <2>1
    <3>2. \A i \in Words : (i < index' => index < i) <=> ~(i < index)
        BY <1>2, <1>4, <3>1
    <3> QED
        BY <3>2 DEF WordsBefore
  <2> QED
      BY <1>3, <1>5, <2>2, <2>5, <2>6 DEF Implicit
<1>6. CASE index \notin Terms
  <2>1. \A t \in Terms : t < index' <=> t < index
      BY <1>1, <1>6
  <2>2. \A t \in Terms : t < index =>
            ((\A i \in Words : i < index' => t < i) <=> (\A i \in Words : i < index => t < i))
      BY <1>1, <1>2, <1>4
  <2>3. (\E t \in Terms : t < index' /\ \A i \in Words : i < index' => t < i)
            <=> (\E t \in Terms : t < index /\ \A i \in Words : i < index => t < i)
      BY <2>1, <2>2
  <2> QED
      BY <1>3, <1>6, <2>3 DEF Implicit
<1> QED
    BY <1>5, <1>6

LEMMA AppendFacts ==
    ASSUME NEW T, NEW s \in Seq(T), NEW e \in T
    PROVE  /\ Append(s, e) \in Seq(T) /\ Len(Append(s, e)) = Len(s) + 1
           /\ \A n \in 1..Len(s) : Append(s, e)[n] = s[n]
           /\ Append(s, e)[Len(s) + 1] = e
    OBVIOUS

\* The number of the words before a position grows by the word there.
LEMMA CollectedKept ==
    ASSUME Further, Collected, arguments[index] \in Strings,
           positional' = IF index \in Words THEN Append(positional, arguments[index])
                         ELSE positional
    PROVE  Collected'
<1>1. Words \subseteq Nat /\ \A i \in Words : i < index' <=> i < index \/ i = index
    BY PassedPositions
<1>2. Words' = Words /\ arguments' = arguments
    BY SetsStay DEF Further
<1>3. index \in Nat /\ index' \in Nat
    BY DEF Further
<1> DEFINE before == WordsBefore(index)
           after  == {i \in Words : i < index'}
<1>4. WordsBefore(index)' = after /\ \A i : Ordinal(i)' = Ordinal(i)
    BY <1>2 DEF WordsBefore, Ordinal
<1>5. /\ positional \in Seq(Strings) /\ Len(positional) = Cardinality(before)
      /\ \A i \in before : positional[Ordinal(i)] = arguments[i]
      /\ \A n \in 1..Len(positional) : \E i \in before : Ordinal(i) = n
    BY DEF Collected
<1>6. CASE index \notin Words
  <2>1. after = before
      BY <1>1, <1>6 DEF WordsBefore
  <2>2. positional' = positional
      BY <1>6
  <2>3. /\ positional' \in Seq(Strings) /\ Len(positional') = Cardinality(after)
        /\ \A i \in after : positional'[Ordinal(i)] = arguments'[i]
        /\ \A n \in 1..Len(positional') : \E i \in after : Ordinal(i) = n
      BY <1>2, <1>5, <2>1, <2>2
  <2> HIDE DEF before, after
  <2> QED
      BY <2>3, <1>4 DEF Collected
<1>7. CASE index \in Words
  <2> DEFINE N == Len(positional)
             word == arguments[index]
  <2>0. /\ \A i : i \in before <=> i \in Words /\ i < index
        /\ \A i : i \in after <=> i \in Words /\ i < index'
      BY DEF WordsBefore
  <2>1. index \notin before /\ after = before \cup {index} /\ index \in after
    <3> HIDE DEF before, after
    <3>1. index \notin before /\ index \in after
        BY <1>1, <1>3, <1>7, <2>0
    <3>2. \A i : i \in after <=> i \in before \/ i = index
        BY <1>1, <1>7, <2>0
    <3> QED
        BY <3>1, <3>2
  <2>2. IsFiniteSet(before)
      BY WordsBeforeFinite DEF Further
  <2>3. Cardinality(after) = Cardinality(before) + 1
    <3>1. Cardinality(before \cup {index}) = Cardinality(before) + 1
      <4> HIDE DEF before
      <4> QED
          BY <2>1, <2>2, FS_AddElement
    <3> QED
        BY <2>1, <3>1
  <2>4. Ordinal(index) = N + 1
    <3>1. {j \in Words : j <= index} = after
      <4>1. \A j \in Words : j <= index <=> j < index'
          BY <1>1, <1>3
      <4> QED
          BY <4>1
    <3> QED
        BY <1>5, <2>3, <3>1 DEF Ordinal
  <2>5. \A i \in before : Ordinal(i) \in 1..N
    <3> TAKE i \in before
    <3> DEFINE upto == {j \in Words : j <= i}
    <3>1. i \in Words /\ i < index
        BY DEF WordsBefore
    <3>2. upto \subseteq before /\ i \in upto
      <4>1. \A j \in Words : j <= i => j < index
          BY <1>1, <1>3, <3>1
      <4>2. i <= i
          BY <1>1, <3>1
      <4> QED
          BY <2>0, <3>1, <4>1, <4>2
    <3>3. Ordinal(i) = Cardinality(upto)
        BY DEF Ordinal
    <3> HIDE DEF upto, before
    <3>4. IsFiniteSet(upto) /\ Cardinality(upto) <= Cardinality(before)
        BY <2>2, <3>2, FS_Subset
    <3>5. Cardinality(upto) \in Nat /\ Cardinality(upto) # 0
        BY <3>2, <3>4, FS_EmptySet, FS_CardinalityType
    <3> QED
        BY <1>5, <3>3, <3>4, <3>5
  <2>6. positional' = Append(positional, word)
      BY <1>7
  <2>7. N \in Nat /\ Len(positional') = N + 1 /\ positional' \in Seq(Strings)
        /\ positional'[N + 1] = word /\ \A n \in 1..N : positional'[n] = positional[n]
    <3> HIDE DEF before, word
    <3>1. positional \in Seq(Strings) /\ word \in Strings
        BY <1>5 DEF word
    <3> HIDE DEF N
    <3>2. /\ Append(positional, word) \in Seq(Strings)
          /\ Len(Append(positional, word)) = Len(positional) + 1
          /\ \A n \in 1..Len(positional) : Append(positional, word)[n] = positional[n]
          /\ Append(positional, word)[Len(positional) + 1] = word
        BY <3>1, AppendFacts
    <3>3. Len(positional) \in Nat
        BY <3>1
    <3> QED
        BY <2>6, <3>2, <3>3 DEF N
  <2> HIDE DEF before, after, N
  <2>8. \A i \in after : positional'[Ordinal(i)] = arguments'[i]
      BY <1>2, <1>5, <2>1, <2>4, <2>5, <2>7
  <2>9. \A n \in 1..Len(positional') : \E i \in after : Ordinal(i) = n
    <3> TAKE n \in 1..Len(positional')
    <3>1. CASE n = N + 1
        BY <2>1, <2>4, <3>1
    <3>2. CASE n # N + 1
      <4>1. n \in 1..Len(positional)
          BY <2>7, <3>2 DEF N
      <4> QED
          BY <1>5, <2>1, <4>1
    <3> QED
        BY <3>1, <3>2
  <2>10. Len(positional') = Cardinality(after)
      BY <1>5, <2>3, <2>7 DEF N
  <2> QED
      BY <1>4, <2>7, <2>8, <2>9, <2>10 DEF Collected
<1> QED
    BY <1>6, <1>7

LEMMA FlagsKept ==
    ASSUME Further, Flags,
           parsed'.explain <=> (parsed.explain \/ index \in Flagged("--explain")),
           parsed'.json <=> (parsed.json \/ index \in Flagged("--json")),
           parsed'.raw <=> (parsed.raw \/ index \in Flagged("--raw"))
    PROVE  Flags'
<1>1. ASSUME NEW flag \in {"--explain", "--json", "--raw"}
      PROVE  (\E i \in Flagged(flag) : i < index') <=>
                 (\E i \in Flagged(flag) : i < index) \/ index \in Flagged(flag)
    BY PassedPositions
<1>2. \A flag : Flagged(flag)' = Flagged(flag)
    BY SetsStay DEF Further
<1> QED
    BY <1>1, <1>2 DEF Flags

LEMMA LimitKept ==
    ASSUME Further, LimitSeen,
           parsed'.limit = IF index \in Limits THEN NumberOf[CL!Value(arguments, index)]
                           ELSE parsed.limit
    PROVE  LimitSeen'
<1>1. Limits \subseteq Nat /\ \A i \in Limits : i < index' <=> i < index \/ i = index
    BY PassedPositions
<1>2. index \in Nat /\ index' \in Nat /\ arguments' = arguments /\ Limits' = Limits
    BY SetsStay DEF Further
<1>3. \A i \in Limits : index <= i <=> ~(i < index)
    BY <1>1, <1>2
<1>4. \A i \in Limits : index' <= i <=> ~(i < index')
    BY <1>1, <1>2
<1>5. ASSUME \A i \in Limits : index' <= i PROVE parsed'.limit = DefaultLimit
    BY <1>1, <1>3, <1>4, <1>5 DEF LimitSeen
<1>6. ASSUME NEW i \in Limits, i < index', \A j \in Limits : j < index' => j <= i
      PROVE  parsed'.limit = NumberOf[CL!Value(arguments, i)]
  <2>1. CASE index \in Limits
    <3>1. i = index
        BY <1>1, <1>2, <1>6, <2>1
    <3> QED
        BY <2>1, <3>1
  <2>2. CASE index \notin Limits
      BY <1>1, <1>6, <2>2 DEF LimitSeen
  <2> QED
      BY <2>1, <2>2
<1>7. \A i : NumberOf[CL!Value(arguments', i)] = NumberOf[CL!Value(arguments, i)]
    BY <1>2
<1> QED
    BY <1>2, <1>5, <1>6, <1>7 DEF LimitSeen

LEMMA PathKept ==
    ASSUME Further, PathSeen,
           index \in Paths => \A i \in Paths : index <= i,
           parsed'.knowledge_path = IF index \in Paths THEN CL!Value(arguments, index)
                                    ELSE parsed.knowledge_path
    PROVE  PathSeen'
<1>1. Paths \subseteq Nat /\ \A i \in Paths : i < index' <=> i < index \/ i = index
    BY PassedPositions
<1>2. index \in Nat /\ index' \in Nat /\ arguments' = arguments /\ Paths' = Paths
    BY SetsStay DEF Further
<1>3. \A i \in Paths : index <= i <=> ~(i < index)
    BY <1>1, <1>2
<1>4. \A i \in Paths : index' <= i <=> ~(i < index')
    BY <1>1, <1>2
<1>5. ASSUME \A i \in Paths : index' <= i PROVE parsed'.knowledge_path = Absent
    BY <1>1, <1>3, <1>4, <1>5 DEF PathSeen
<1>6. ASSUME NEW i \in Paths, i < index'
      PROVE  parsed'.knowledge_path = CL!Value(arguments, i)
  <2>1. CASE index \in Paths
    <3>1. i = index
        BY <1>1, <1>2, <1>3, <1>6, <2>1
    <3> QED
        BY <2>1, <3>1
  <2>2. CASE index \notin Paths
      BY <1>1, <1>6, <2>2 DEF PathSeen
  <2> QED
      BY <2>1, <2>2
<1>7. \A i : CL!Value(arguments', i) = CL!Value(arguments, i)
    BY <1>2
<1>8. Absent' = Absent
    BY DEF Absent, CL!Absent
<1> QED
    BY <1>2, <1>5, <1>6, <1>7, <1>8 DEF PathSeen

LEMMA NothingWrongKept ==
    ASSUME Further, NothingWrong, index \notin CL!Asks(arguments) \cup CL!Errs(arguments)
    PROVE  NothingWrong'
<1>1. \A i \in CL!Asks(arguments) \cup CL!Errs(arguments) :
          i \in DOMAIN arguments /\ Roles[i] # "value"
  <2>1. \A i \in CL!Asks(arguments) : i \in DOMAIN arguments /\ Roles[i] = "option"
      BY RoleFacts DEF CL!Asks, Roles, Further
  <2>2. \A i \in CL!Errs(arguments) :
            i \in DOMAIN arguments /\ Roles[i] \in {"takes", "option"}
      BY RoleFacts DEF CL!Errs, Roles, Further
  <2> QED
      BY <2>1, <2>2
<1>2. \A i \in CL!Asks(arguments) \cup CL!Errs(arguments) : index <= i /\ i # index
    BY DEF NothingWrong
<1>3. \A i \in CL!Asks(arguments) \cup CL!Errs(arguments) : index' <= i
    BY <1>1, <1>2 DEF Further
<1>4. arguments' = arguments
    BY DEF Further
<1> QED
    BY <1>3, <1>4 DEF NothingWrong

\* A step of the pass that goes on.
LEMMA PassKept ==
    ASSUME Passing, index <= Len(arguments), Advances, UNCHANGED arguments,
           index \notin CL!Asks(arguments) \cup CL!Errs(arguments),
           parse_options' <=> (parse_options /\ index \notin Terms),
           index \in Terms => parse_options /\ (force_implicit_query' <=> positional = <<>>),
           index \notin Terms => (force_implicit_query' <=> force_implicit_query),
           positional' = IF index \in Words THEN Append(positional, arguments[index])
                         ELSE positional,
           parsed'.explain <=> (parsed.explain \/ index \in Flagged("--explain")),
           parsed'.json <=> (parsed.json \/ index \in Flagged("--json")),
           parsed'.raw <=> (parsed.raw \/ index \in Flagged("--raw")),
           parsed'.limit = IF index \in Limits THEN NumberOf[CL!Value(arguments, index)]
                           ELSE parsed.limit,
           index \in Paths => \A i \in Paths : index <= i,
           parsed'.knowledge_path = IF index \in Paths THEN CL!Value(arguments, index)
                                    ELSE parsed.knowledge_path,
           Unfinished'
    PROVE  Passing'
<1>1. Further /\ IndexOk'
    BY FurtherFacts, AdvanceFacts DEF Passing
<1>2. arguments[index] \in Strings
    BY <1>1, ArgumentFacts DEF Further
<1>3. Terminated' /\ Implicit' /\ Collected'
    BY <1>1, <1>2, TerminatedKept, ImplicitKept, CollectedKept DEF Passing
<1>4. Flags' /\ LimitSeen' /\ PathSeen' /\ NothingWrong'
    BY <1>1, FlagsKept, LimitKept, PathKept, NothingWrongKept DEF Passing
<1> QED
    BY <1>1, <1>3, <1>4 DEF Passing

-----------------------------------------------------------------------------
(* The pass, argument by argument.                                         *)

Reserved == {"--", "-h", "--help", "-V", "--version", "--explain", "--json", "--raw",
             "--knowledge", "--limit"}

\* Options that take no value are not asked for one.
LEMMA ReservedFacts ==
    ASSUME NEW a \in Reserved
    PROVE  /\ a \in Dashed /\ a \notin DOMAIN Inline /\ CL!Known(a)
           /\ \A option : CL!Names(a, option) <=> a = option
<1>1. a \in Dashed /\ a \notin DOMAIN Inline
    BY ArgumentsAssumption DEF Reserved
<1>2. \A option : CL!Names(a, option) <=> a = option
    BY <1>1 DEF CL!Names
<1> QED
    BY <1>1, <1>2 DEF CL!Known, Reserved

\* What is neither an option nor takes a value is none of the option sets.
LEMMA NoOption ==
    ASSUME arguments \in ArgumentLists, NEW i, Roles[i] \notin {"takes", "option"}
    PROVE  /\ i \notin CL!Asks(arguments) \cup CL!Errs(arguments)
           /\ i \notin Limits \cup Paths /\ \A flag : i \notin Flagged(flag)
    BY RoleFacts DEF CL!Asks, CL!Errs, Limits, Paths, Flagged, Roles

\* Where a position errs, or asks for help or the version.
LEMMA AskErrFacts ==
    ASSUME arguments \in ArgumentLists, NEW i
    PROVE  /\ i \in CL!Asks(arguments) <=>
                /\ i \in DOMAIN arguments /\ Roles[i] = "option"
                /\ arguments[i] \in {"-h", "--help", "-V", "--version"}
           /\ i \in CL!Errs(arguments) <=>
                \/ /\ i \in DOMAIN arguments /\ Roles[i] = "option"
                   /\ ~CL!Known(arguments[i])
                \/ i \in Limits /\ ~CL!IsLimit(CL!Value(arguments, i))
                \/ /\ i \in Paths
                   /\ CL!Value(arguments, i) = "" \/ \E j \in Paths : j < i
    BY RoleFacts DEF CL!Asks, CL!Errs, Limits, Paths, Roles

Here == Passing /\ CL!Reading
LEMMA HereFacts ==
    ASSUME Here
    PROVE  /\ arguments \in ArgumentLists /\ index <= Len(arguments) /\ index \in DOMAIN arguments
           /\ arguments[index] \in Strings
           /\ parse_options =>
                Roles[index] =
                   IF arguments[index] = "--" THEN "terminator"
                   ELSE IF arguments[index] \in {"--knowledge", "--limit"} THEN "takes"
                   ELSE IF arguments[index] \in Dashed THEN "option" ELSE "text"
           /\ ~parse_options => Roles[index] = "text"
           /\ reading = "arguments"
<1>1. index <= Len(arguments) /\ reading = "arguments"
    BY DEF Here, CL!Reading
<1>2. arguments \in ArgumentLists
    BY DEF Here, Passing, IndexOk
<1> QED
    BY <1>1, <1>2, RoleHere, ArgumentFacts DEF Here, Passing

LEMMA TerminatorPasses == ASSUME Here, CL!Terminator PROVE Passing' /\ reading' = "arguments"
<1>1. /\ parse_options /\ arguments[index] = "--"
      /\ force_implicit_query' = (positional = <<>>)
      /\ parse_options' = FALSE /\ index' = index + 1
      /\ UNCHANGED <<arguments, reading, positional, parsed, error>>
    BY Zenon DEF CL!Terminator, CL!OptionsAllowed, CL!Argument, CL!IsImplicit,
                 CL!OptionsAfterTerminator, CL!NextIndex
<1>2. Roles[index] = "terminator"
    BY <1>1, HereFacts
<1>3. /\ index \in Terms /\ index \notin Words
      /\ index \notin CL!Asks(arguments) \cup CL!Errs(arguments)
      /\ index \notin Limits /\ index \notin Paths /\ \A flag : index \notin Flagged(flag)
    BY <1>2, HereFacts, NoOption, Positions
<1>4. Unfinished'
    BY <1>1 DEF Here, Passing, Unfinished, Absent, CL!Absent
<1>5. Advances
    BY <1>1, <1>2 DEF Advances
<1>6. force_implicit_query' <=> positional = <<>>
    BY <1>1, Zenon
<1>7. ~parse_options'
    BY <1>1
<1>8. parsed' = parsed /\ arguments' = arguments /\ positional' = positional
    BY <1>1
<1> HIDE DEF Passing
<1>9. Passing /\ index <= Len(arguments) /\ reading' = "arguments"
    BY <1>1, HereFacts DEF Here
<1> QED
    BY <1>1, <1>3, <1>4, <1>5, <1>6, <1>7, <1>8, <1>9, PassKept

\* An option other than --, which leaves the words and the terminator alone.
LEMMA OptionPasses ==
    ASSUME Here, parse_options, arguments[index] # "--", arguments[index] \in Dashed,
           Advances, UNCHANGED <<arguments, parse_options, force_implicit_query, positional>>,
           index \notin CL!Asks(arguments) \cup CL!Errs(arguments),
           parsed'.explain <=> (parsed.explain \/ index \in Flagged("--explain")),
           parsed'.json <=> (parsed.json \/ index \in Flagged("--json")),
           parsed'.raw <=> (parsed.raw \/ index \in Flagged("--raw")),
           parsed'.limit = IF index \in Limits THEN NumberOf[CL!Value(arguments, index)]
                           ELSE parsed.limit,
           index \in Paths => \A i \in Paths : index <= i,
           parsed'.knowledge_path = IF index \in Paths THEN CL!Value(arguments, index)
                                    ELSE parsed.knowledge_path,
           Unfinished'
    PROVE  Passing'
<1>1. Roles[index] \in {"takes", "option"}
    BY HereFacts
<1>2. index \notin Terms /\ index \notin Words
    BY <1>1, HereFacts, Positions
<1> QED
    BY <1>2, HereFacts, PassKept DEF Here

LEMMA FlagPasses == ASSUME Here, CL!Flag PROVE Passing' /\ reading' = "arguments"
<1>1. /\ parse_options /\ index' = index + 1
      /\ UNCHANGED <<arguments, reading, parse_options, force_implicit_query, positional, error>>
      /\ \/ arguments[index] = "--explain" /\ parsed' = [parsed EXCEPT !.explain = TRUE]
         \/ arguments[index] = "--json" /\ parsed' = [parsed EXCEPT !.json = TRUE]
         \/ arguments[index] = "--raw" /\ parsed' = [parsed EXCEPT !.raw = TRUE]
    BY DEF CL!Flag, CL!OptionsAllowed, CL!Argument, CL!NextIndex
<1>2. /\ arguments[index] \in {"--explain", "--json", "--raw"}
      /\ arguments[index] \in Reserved
    BY <1>1 DEF Reserved
<1>3. arguments[index] \in Dashed /\ arguments[index] # "--" /\ Roles[index] = "option"
    BY <1>1, <1>2, ReservedFacts, HereFacts
<1>4. index \notin Limits /\ index \notin Paths
    BY <1>2, HereFacts, Positions, ReservedFacts
<1>5. index \notin CL!Asks(arguments) \cup CL!Errs(arguments)
    BY <1>2, <1>4, HereFacts, AskErrFacts, ReservedFacts
<1>6. \A flag : index \in Flagged(flag) <=> arguments[index] = flag
    BY <1>3, HereFacts, Positions
<1>7. parsed \in [command : {"search"}, knowledge_path : Strings \cup {Absent},
                  limit : 1..MaximumLimit, explain : BOOLEAN, json : BOOLEAN, raw : BOOLEAN,
                  query : {<<>>}, entry_id : {Absent}] /\ error = ""
    BY DEF Here, Passing, Unfinished
<1>8. Unfinished'
    BY <1>1, <1>7 DEF Unfinished, Absent, CL!Absent
<1>9. /\ parsed'.explain <=> (parsed.explain \/ arguments[index] = "--explain")
      /\ parsed'.json <=> (parsed.json \/ arguments[index] = "--json")
      /\ parsed'.raw <=> (parsed.raw \/ arguments[index] = "--raw")
      /\ parsed'.limit = parsed.limit /\ parsed'.knowledge_path = parsed.knowledge_path
    BY <1>1, <1>7
<1>10. Advances
    BY <1>1, <1>3 DEF Advances
<1>11. Passing'
    BY <1>1, <1>3, <1>4, <1>5, <1>6, <1>8, <1>9, <1>10, OptionPasses
<1> QED
    BY <1>1, <1>11, HereFacts

\* What the parse must say when it returns.
Judged ==
    /\ error = "" <=> CL!Accepted(arguments)
    /\ error = "" /\ CL!Asks(arguments) = {} => parsed = CL!MeaningOf(arguments)
    /\ error = "" /\ CL!Asks(arguments) # {} => parsed.command \in {"help", "version"}
    /\ error = "" /\ CL!Asks(arguments) = {} => CL!Texts(arguments) \in Seq(Strings)

LEMMA NoneBefore ==
    ASSUME Passing
    PROVE  /\ arguments \in ArgumentLists /\ Len(arguments) \in Nat /\ index \in Nat
           /\ \A i \in CL!Asks(arguments) \cup CL!Errs(arguments) :
                i \in DOMAIN arguments /\ i \in Nat /\ ~(i < index)
<1>1. arguments \in ArgumentLists /\ index \in 1..Len(arguments) + 1
    BY DEF Passing, IndexOk
<1>2. Len(arguments) \in Nat /\ DOMAIN arguments = 1..Len(arguments)
    BY <1>1, ArgumentFacts
<1>3. index \in Nat
    BY <1>1, <1>2
<1>4. \A i \in CL!Asks(arguments) \cup CL!Errs(arguments) : i \in DOMAIN arguments
    BY <1>1, AskErrFacts, Positions
<1>5. \A i \in CL!Asks(arguments) \cup CL!Errs(arguments) : index <= i
    BY DEF Passing, NothingWrong
<1> QED
    BY <1>1, <1>2, <1>3, <1>4, <1>5

\* The first position that ends the parse decides.
LEMMA WrongHere ==
    ASSUME Passing, index \in CL!Errs(arguments), UNCHANGED arguments, error' # ""
    PROVE  Judged'
<1>1. \A a \in CL!Asks(arguments) : ~(a < index)
    BY NoneBefore
<1>2. ~CL!Accepted(arguments)
    BY <1>1, Zenon DEF CL!Accepted
<1>3. CL!Accepted(arguments)' <=> CL!Accepted(arguments)
    BY DEF CL!Accepted
<1> QED
    BY <1>2, <1>3 DEF Judged

LEMMA ImmediateJudged == ASSUME Here, CL!Immediate PROVE Judged' /\ reading' = "returned"
<1>1. /\ parse_options /\ reading' = "returned"
      /\ UNCHANGED <<arguments, error>>
      /\ \/ /\ arguments[index] \in {"--help", "-h"}
            /\ parsed' = [parsed EXCEPT !.command = "help"]
         \/ /\ arguments[index] \in {"--version", "-V"}
            /\ parsed' = [parsed EXCEPT !.command = "version"]
    BY DEF CL!Immediate, CL!OptionsAllowed, CL!Argument, CL!Return
<1>2. arguments[index] \in {"-h", "--help", "-V", "--version"} /\ arguments[index] \in Reserved
    BY <1>1 DEF Reserved
<1>3. Roles[index] = "option"
    BY <1>1, <1>2, HereFacts, ReservedFacts
<1>4. index \in CL!Asks(arguments)
    BY <1>2, <1>3, HereFacts, AskErrFacts
<1>5. index \notin Limits /\ index \notin Paths
    BY <1>2, HereFacts, Positions, ReservedFacts
<1>6. index \notin CL!Errs(arguments)
    BY <1>2, <1>5, HereFacts, AskErrFacts, ReservedFacts
<1>7. \A e \in CL!Errs(arguments) : index < e
  <2> TAKE e \in CL!Errs(arguments)
  <2>1. index \in Nat /\ e \in Nat /\ ~(e < index)
      BY NoneBefore DEF Here
  <2>2. e # index
      BY <1>6
  <2> QED
      BY <2>1, <2>2
<1>8. CL!Accepted(arguments)
    BY <1>4, <1>7 DEF CL!Accepted
<1>9. error' = "" /\ parsed'.command \in {"help", "version"}
    BY <1>1 DEF Here, Passing, Unfinished
<1>10. CL!Asks(arguments)' # {}
    BY <1>1, <1>4
<1> QED
    BY <1>1, <1>4, <1>8, <1>9, <1>10 DEF Judged

LEMMA UnknownOptionJudged ==
    ASSUME Here, CL!UnknownOption PROVE Judged' /\ reading' = "returned"
<1>1. /\ parse_options /\ reading' = "returned" /\ error' = "unknown option"
      /\ arguments[index] \in Dashed /\ ~CL!Known(arguments[index])
      /\ UNCHANGED arguments
    BY DEF CL!UnknownOption, CL!OptionsAllowed, CL!Argument, CL!Reject
<1>2. arguments[index] \notin Reserved
    BY <1>1, ReservedFacts
<1>3. Roles[index] = "option"
    BY <1>1, <1>2, HereFacts DEF Reserved
<1>4. index \in CL!Errs(arguments)
    BY <1>1, <1>3, HereFacts, AskErrFacts
<1> QED
    BY <1>1, <1>4, WrongHere DEF Here

LEMMA PositionalPasses == ASSUME Here, CL!Positional PROVE Passing' /\ reading' = "arguments"
<1>1. /\ ~parse_options \/ arguments[index] \notin Dashed
      /\ positional' = Append(positional, arguments[index]) /\ index' = index + 1
      /\ UNCHANGED <<arguments, reading, parse_options, force_implicit_query, parsed, error>>
    BY DEF CL!Positional, CL!OptionsAllowed, CL!Argument, CL!NextIndex
<1>2. Roles[index] = "text"
  <2>1. arguments[index] \notin Dashed => arguments[index] \notin Reserved
      BY ReservedFacts
  <2> QED
      BY <1>1, <2>1, HereFacts DEF Reserved
<1>3. /\ index \notin Terms /\ index \in Words
      /\ index \notin CL!Asks(arguments) \cup CL!Errs(arguments)
      /\ index \notin Limits /\ index \notin Paths /\ \A flag : index \notin Flagged(flag)
    BY <1>2, HereFacts, NoOption, Positions
<1>4. Unfinished'
    BY <1>1 DEF Here, Passing, Unfinished, Absent, CL!Absent
<1>5. Advances
    BY <1>1, <1>2 DEF Advances
<1>6. Passing /\ index <= Len(arguments) /\ reading' = "arguments"
    BY <1>1, HereFacts DEF Here
<1>7. /\ parsed' = parsed /\ arguments' = arguments
      /\ positional' = Append(positional, arguments[index])
      /\ parse_options' = parse_options /\ force_implicit_query' = force_implicit_query
    BY <1>1
<1> HIDE DEF Passing
<1> QED
    BY <1>3, <1>4, <1>5, <1>6, <1>7, PassKept

\* The options with a value, alone or with it: where the value stands, and
\* where the pass goes on.
LEMMA ValueFacts ==
    ASSUME Here, parse_options,
           NEW option \in {"--knowledge", "--limit"}, CL!Names(arguments[index], option)
    PROVE  /\ arguments[index] \in Dashed /\ arguments[index] # "--"
           /\ Roles[index] \in {"takes", "option"}
           /\ CL!Known(arguments[index])
           /\ index \notin CL!Asks(arguments)
           /\ \A flag \in {"--explain", "--json", "--raw"} : index \notin Flagged(flag)
           /\ \A other \in {"--knowledge", "--limit"} :
                CL!Names(arguments[index], other) <=> other = option
           /\ ~CL!IsInline(index) /\ CL!LacksValue(index) => CL!Value(arguments, index) = ""
           /\ CL!IsInline(index) \/ ~CL!LacksValue(index) =>
                /\ CL!Value(arguments, index) = CL!ValueOf(index)
                /\ CL!Value(arguments, index) \in Strings
                /\ index' = CL!ValueAt(index) + 1 => Advances
<1> DEFINE a == arguments[index]
<1>1. /\ arguments \in ArgumentLists /\ index \in Nat /\ Len(arguments) \in Nat
      /\ DOMAIN arguments = 1..Len(arguments) /\ index \in DOMAIN arguments
    BY HereFacts, ArgumentFacts
<1>2. CASE a = option
  <2>1. a \in Reserved /\ a \notin DOMAIN Inline
      BY <1>2, ReservedFacts DEF Reserved
  <2>2. Roles[index] = "takes" /\ a \in Dashed /\ a # "--"
      BY <1>2, <2>1, HereFacts, ReservedFacts
  <2>3. /\ index \notin CL!Asks(arguments) /\ \A flag : index \notin Flagged(flag)
      BY <1>1, <2>2, AskErrFacts, Positions
  <2>4. /\ ~CL!IsInline(index) /\ (CL!LacksValue(index) <=> ~(index < Len(arguments)))
        /\ CL!ValueAt(index) = index + 1 /\ CL!ValueOf(index) = arguments[index + 1]
      BY <1>1, <2>1 DEF CL!IsInline, CL!LacksValue, CL!ValueAt, CL!ValueOf
  <2>5. CL!Value(arguments, index) =
            IF index < Len(arguments) THEN arguments[index + 1] ELSE ""
      BY <2>1 DEF CL!Value
  <2>6. index < Len(arguments) => arguments[index + 1] \in Strings
    <3>1. index < Len(arguments) => index + 1 \in DOMAIN arguments
        BY <1>1
    <3> QED
        BY <1>1, <3>1, ArgumentFacts
  <2>7. index < Len(arguments) /\ index' = CL!ValueAt(index) + 1 => Advances
      BY <1>1, <2>2, <2>4 DEF Advances
  <2>8. \A other \in {"--knowledge", "--limit"} : CL!Names(a, other) <=> other = option
      BY <1>2, <2>1, ReservedFacts
  <2>9. CL!Known(a)
      BY <2>1, ReservedFacts
  <2> HIDE DEF Here
  <2> QED
      BY <2>2, <2>3, <2>4, <2>5, <2>6, <2>7, <2>8, <2>9
<1>3. CASE a # option
  <2>1. a \in DOMAIN Inline /\ Inline[a][1] = option
      BY <1>3 DEF CL!Names
  <2>2. a \in Dashed /\ a \notin Reserved /\ Inline[a][2] \in Strings
      BY <2>1, ReservedFacts, ArgumentsAssumption, AbsentAssumption DEF Strings
  <2>3. Roles[index] = "option" /\ a # "--"
      BY <2>2, HereFacts DEF Reserved
  <2>4. /\ index \notin CL!Asks(arguments)
        /\ \A flag \in {"--explain", "--json", "--raw"} : index \notin Flagged(flag)
      BY <1>1, <2>2, <2>3, AskErrFacts, Positions DEF Reserved
  <2>5. /\ CL!IsInline(index) /\ CL!ValueAt(index) = index /\ CL!ValueOf(index) = Inline[a][2]
        /\ CL!Value(arguments, index) = Inline[a][2]
      BY <2>1 DEF CL!IsInline, CL!ValueAt, CL!ValueOf, CL!Value
  <2>6. index' = CL!ValueAt(index) + 1 => Advances
      BY <1>1, <2>3, <2>5 DEF Advances
  <2>7. \A other \in {"--knowledge", "--limit"} : CL!Names(a, other) <=> other = option
      BY <2>1, <2>2 DEF CL!Names, Reserved
  <2>8. CL!Known(a)
      BY <2>7 DEF CL!Known
  <2> HIDE DEF Here
  <2> QED
      BY <2>2, <2>3, <2>4, <2>5, <2>6, <2>7, <2>8
<1> QED
    BY <1>2, <1>3

LEMMA ValueIsThere ==
    ASSUME NEW args \in ArgumentLists, NEW i \in DOMAIN args
    PROVE  CL!Value(args, i) # Absent
<1>1. Absent \notin Strings
    BY DEF Strings
<1>2. CASE args[i] \in DOMAIN Inline
    BY <1>2, AbsentAssumption DEF CL!Value
<1>3. CASE args[i] \notin DOMAIN Inline /\ i < Len(args)
  <2>1. i + 1 \in DOMAIN args
      BY <1>3, ArgumentFacts
  <2> QED
      BY <1>1, <1>3, <2>1, ArgumentFacts DEF CL!Value
<1>4. CASE args[i] \notin DOMAIN Inline /\ ~(i < Len(args))
    BY <1>4 DEF CL!Value, Absent, CL!Absent
<1> QED
    BY <1>2, <1>3, <1>4

\* The path is the value of the one --knowledge before, or of none.
LEMMA PathAbsent ==
    ASSUME Passing
    PROVE  parsed.knowledge_path = Absent <=> ~ \E i \in Paths : i < index
<1>1. arguments \in ArgumentLists /\ index \in Nat /\ \A i \in Paths : i \in DOMAIN arguments
    BY NoneBefore, Positions
<1>2. \A i \in Paths : CL!Value(arguments, i) # Absent
    BY <1>1, ValueIsThere
<1>3. \A i \in Paths : index <= i <=> ~(i < index)
  <2>1. \A i \in Paths : i \in Nat
      BY <1>1, ArgumentFacts
  <2> QED
      BY <1>1, <2>1
<1>4. PathSeen
    BY DEF Passing
<1> QED
    BY <1>2, <1>3, <1>4 DEF PathSeen

LEMMA KnowledgePasses ==
    ASSUME Here, CL!Knowledge
    PROVE  \/ Passing' /\ reading' = "arguments"
           \/ Judged' /\ reading' = "returned"
<1>1. /\ parse_options /\ CL!Names(arguments[index], "--knowledge")
      /\ UNCHANGED <<arguments, parse_options, force_implicit_query, positional>>
    BY DEF CL!Knowledge, CL!OptionsAllowed, CL!Argument
<1>2. /\ arguments[index] \in Dashed /\ arguments[index] # "--"
      /\ Roles[index] \in {"takes", "option"} /\ CL!Known(arguments[index])
      /\ index \notin CL!Asks(arguments)
      /\ \A flag \in {"--explain", "--json", "--raw"} : index \notin Flagged(flag)
      /\ ~CL!Names(arguments[index], "--limit")
    BY <1>1, ValueFacts
<1>3. /\ arguments \in ArgumentLists /\ index \in DOMAIN arguments
      /\ index \in Paths /\ index \notin Limits
    BY <1>1, <1>2, HereFacts, Positions
<1>4. ASSUME reading' = "returned" /\ error' # "", index \in CL!Errs(arguments)
      PROVE  Judged' /\ reading' = "returned"
    BY <1>1, <1>4, WrongHere DEF Here
<1>5. CASE ~CL!IsInline(index) /\ CL!LacksValue(index)
  <2>1. CL!Value(arguments, index) = ""
      BY <1>1, <1>5, ValueFacts
  <2>2. index \in CL!Errs(arguments)
      BY <1>3, <2>1, AskErrFacts
  <2>3. reading' = "returned" /\ error' # ""
      BY <1>5 DEF CL!Knowledge, CL!Reject
  <2> QED
      BY <1>4, <2>2, <2>3
<1>6. CASE ~(~CL!IsInline(index) /\ CL!LacksValue(index))
  <2>1. /\ CL!Value(arguments, index) = CL!ValueOf(index)
        /\ CL!Value(arguments, index) \in Strings
        /\ index' = CL!ValueAt(index) + 1 => Advances
      BY <1>1, <1>6, ValueFacts
  <2>2. /\ index' = CL!ValueAt(index) + 1
        /\ CASE CL!ValueOf(index) = "" -> CL!Reject("no value") /\ UNCHANGED parsed
             [] CL!ValueOf(index) # "" /\ parsed.knowledge_path # CL!Absent ->
                    CL!Reject("twice") /\ UNCHANGED parsed
             [] OTHER ->
                    /\ parsed' = [parsed EXCEPT !.knowledge_path = CL!ValueOf(index)]
                    /\ UNCHANGED <<reading, error>>
      BY <1>6, Zenon DEF CL!Knowledge
  <2>3. CASE CL!ValueOf(index) = ""
    <3>1. reading' = "returned" /\ error' # ""
        BY <2>2, <2>3 DEF CL!Reject
    <3>2. index \in CL!Errs(arguments)
        BY <1>3, <2>1, <2>3, AskErrFacts
    <3> QED
        BY <1>4, <3>1, <3>2
  <2>4. CASE CL!ValueOf(index) # "" /\ parsed.knowledge_path # Absent
    <3>1. reading' = "returned" /\ error' # ""
        BY <2>2, <2>4 DEF CL!Reject, Absent
    <3>2. \E j \in Paths : j < index
        BY <2>4, PathAbsent DEF Here
    <3>3. index \in CL!Errs(arguments)
        BY <1>3, <3>2, AskErrFacts
    <3> QED
        BY <1>4, <3>1, <3>3
  <2>5. CASE CL!ValueOf(index) # "" /\ parsed.knowledge_path = Absent
    <3>1. /\ parsed' = [parsed EXCEPT !.knowledge_path = CL!ValueOf(index)]
          /\ reading' = reading /\ error' = error
        BY <2>2, <2>5 DEF Absent
    <3>2. ~ \E j \in Paths : j < index
        BY <2>5, PathAbsent DEF Here
    <3>3. index \notin CL!Errs(arguments)
        BY <1>2, <1>3, <2>1, <2>5, <3>2, AskErrFacts
    <3>4. \A i \in Paths : index <= i
      <4>1. index \in Nat /\ \A i \in Paths : i \in Nat
          BY <1>3, ArgumentFacts, Positions
      <4> QED
          BY <3>2, <4>1
    <3>5. parsed \in [command : {"search"}, knowledge_path : Strings \cup {Absent},
                      limit : 1..MaximumLimit, explain : BOOLEAN, json : BOOLEAN,
                      raw : BOOLEAN, query : {<<>>}, entry_id : {Absent}] /\ error = ""
        BY DEF Here, Passing, Unfinished
    <3>6. Unfinished'
        BY <2>1, <3>1, <3>5 DEF Unfinished, Absent, CL!Absent
    <3>7. /\ parsed'.explain = parsed.explain /\ parsed'.json = parsed.json
          /\ parsed'.raw = parsed.raw /\ parsed'.limit = parsed.limit
          /\ parsed'.knowledge_path = CL!ValueOf(index)
        BY <3>1, <3>5
    <3>8. Passing'
        BY <1>1, <1>2, <1>3, <2>1, <2>2, <3>3, <3>4, <3>6, <3>7, OptionPasses
    <3> QED
        BY <3>1, <3>8, HereFacts
  <2> QED
      BY <2>3, <2>4, <2>5
<1> QED
    BY <1>5, <1>6

LEMMA LimitPasses ==
    ASSUME Here, CL!Limit
    PROVE  \/ Passing' /\ reading' = "arguments"
           \/ Judged' /\ reading' = "returned"
<1>1. /\ parse_options /\ CL!Names(arguments[index], "--limit")
      /\ UNCHANGED <<arguments, parse_options, force_implicit_query, positional>>
    BY DEF CL!Limit, CL!OptionsAllowed, CL!Argument
<1>2. /\ arguments[index] \in Dashed /\ arguments[index] # "--"
      /\ Roles[index] \in {"takes", "option"} /\ CL!Known(arguments[index])
      /\ index \notin CL!Asks(arguments)
      /\ \A flag \in {"--explain", "--json", "--raw"} : index \notin Flagged(flag)
      /\ ~CL!Names(arguments[index], "--knowledge")
    BY <1>1, ValueFacts
<1>3. /\ arguments \in ArgumentLists /\ index \in DOMAIN arguments
      /\ index \in Limits /\ index \notin Paths
    BY <1>1, <1>2, HereFacts, Positions
<1>4. ASSUME reading' = "returned" /\ error' # "", ~CL!IsLimit(CL!Value(arguments, index))
      PROVE  Judged' /\ reading' = "returned"
  <2>1. index \in CL!Errs(arguments)
      BY <1>3, <1>4, AskErrFacts
  <2> QED
      BY <1>1, <1>4, <2>1, WrongHere DEF Here
<1>5. CASE ~CL!IsInline(index) /\ CL!LacksValue(index)
  <2>1. CL!Value(arguments, index) = ""
      BY <1>1, <1>5, ValueFacts
  <2>2. ~CL!IsLimit(CL!Value(arguments, index))
      BY <2>1, ArgumentsAssumption DEF CL!IsLimit
  <2>3. reading' = "returned" /\ error' # ""
      BY <1>5 DEF CL!Limit, CL!Reject
  <2> QED
      BY <1>4, <2>2, <2>3
<1>6. CASE ~(~CL!IsInline(index) /\ CL!LacksValue(index))
  <2>1. /\ CL!Value(arguments, index) = CL!ValueOf(index)
        /\ index' = CL!ValueAt(index) + 1 => Advances
      BY <1>1, <1>6, ValueFacts
  <2>2. /\ index' = CL!ValueAt(index) + 1
        /\ IF CL!IsLimit(CL!ValueOf(index))
           THEN /\ parsed' = [parsed EXCEPT !.limit = NumberOf[CL!ValueOf(index)]]
                /\ UNCHANGED <<reading, error>>
           ELSE CL!Reject("limit") /\ UNCHANGED parsed
      BY <1>6, Zenon DEF CL!Limit
  <2>3. CASE ~CL!IsLimit(CL!ValueOf(index))
    <3>1. reading' = "returned" /\ error' # ""
        BY <2>2, <2>3 DEF CL!Reject
    <3> QED
        BY <1>4, <2>1, <2>3, <3>1
  <2>4. CASE CL!IsLimit(CL!ValueOf(index))
    <3>1. /\ parsed' = [parsed EXCEPT !.limit = NumberOf[CL!ValueOf(index)]]
          /\ reading' = reading /\ error' = error
        BY <2>2, <2>4
    <3>2. index \notin CL!Errs(arguments)
        BY <1>2, <1>3, <2>1, <2>4, AskErrFacts
    <3>3. NumberOf[CL!ValueOf(index)] \in 1..MaximumLimit
        BY <2>4 DEF CL!IsLimit
    <3>4. parsed \in [command : {"search"}, knowledge_path : Strings \cup {Absent},
                      limit : 1..MaximumLimit, explain : BOOLEAN, json : BOOLEAN,
                      raw : BOOLEAN, query : {<<>>}, entry_id : {Absent}] /\ error = ""
        BY DEF Here, Passing, Unfinished
    <3>5. Unfinished'
        BY <3>1, <3>3, <3>4 DEF Unfinished, Absent, CL!Absent
    <3>6. /\ parsed'.explain = parsed.explain /\ parsed'.json = parsed.json
          /\ parsed'.raw = parsed.raw /\ parsed'.limit = NumberOf[CL!ValueOf(index)]
          /\ parsed'.knowledge_path = parsed.knowledge_path
        BY <3>1, <3>4
    <3>7. Passing'
        BY <1>1, <1>2, <1>3, <2>1, <2>2, <3>2, <3>5, <3>6, OptionPasses
    <3> QED
        BY <3>1, <3>7, HereFacts
  <2> QED
      BY <2>3, <2>4
<1> QED
    BY <1>5, <1>6

-----------------------------------------------------------------------------
(* Behind the last argument.                                               *)

AtEnd == Passing /\ CL!Read

LEMMA EndFacts ==
    ASSUME AtEnd
    PROVE  /\ arguments \in ArgumentLists /\ Len(arguments) \in Nat
           /\ DOMAIN arguments = 1..Len(arguments)
           /\ \A i \in DOMAIN arguments : i < index
           /\ CL!Asks(arguments) = {} /\ CL!Errs(arguments) = {}
           /\ Terms \subseteq DOMAIN arguments /\ Words \subseteq DOMAIN arguments
           /\ Limits \subseteq DOMAIN arguments /\ Paths \subseteq DOMAIN arguments
           /\ \A flag : Flagged(flag) \subseteq DOMAIN arguments
           /\ reading = "arguments" /\ error = ""
<1>1. arguments \in ArgumentLists /\ index \in Nat
      /\ \A i \in CL!Asks(arguments) \cup CL!Errs(arguments) :
            i \in DOMAIN arguments /\ ~(i < index)
    BY NoneBefore DEF AtEnd
<1>2. Len(arguments) \in Nat /\ DOMAIN arguments = 1..Len(arguments)
    BY <1>1, ArgumentFacts
<1>3. index > Len(arguments) /\ reading = "arguments"
    BY DEF AtEnd, CL!Read
<1>4. \A i \in DOMAIN arguments : i < index
    BY <1>1, <1>2, <1>3
<1>5. error = ""
    BY DEF AtEnd, Passing, Unfinished
<1>6. /\ Terms \subseteq DOMAIN arguments /\ Words \subseteq DOMAIN arguments
      /\ Limits \subseteq DOMAIN arguments /\ Paths \subseteq DOMAIN arguments
      /\ \A flag : Flagged(flag) \subseteq DOMAIN arguments
    BY <1>1, Positions
<1> QED
    BY <1>1, <1>2, <1>3, <1>4, <1>5, <1>6

\* The text collected is the text of the reference.
LEMMA EndTexts == ASSUME AtEnd PROVE positional = CL!Texts(arguments)
<1> DEFINE W == CL!Having(arguments, {"text"})
           N == Cardinality(W)
           upto(i) == Cardinality({j \in W : j <= i})
           pick(n) == CHOOSE i \in W : upto(i) = n
<1>0. Words = W /\ \A i : Ordinal(i) = upto(i)
    BY DEF Words, Ordinal
<1>4. CL!Texts(arguments) = [n \in 1..N |-> arguments[pick(n)]]
    BY DEF CL!Texts, CL!Cardinality, Cardinality
<1> HIDE DEF W, upto
<1>1. WordsBefore(index) = W
    BY <1>0, EndFacts DEF WordsBefore
<1>2. /\ positional \in Seq(Strings) /\ Len(positional) = N
      /\ \A i \in W : positional[upto(i)] = arguments[i]
      /\ \A n \in 1..Len(positional) : \E i \in W : upto(i) = n
    BY <1>0, <1>1 DEF AtEnd, Passing, Collected
<1>3. \A n \in 1..N : pick(n) \in W /\ upto(pick(n)) = n
    BY <1>2
<1> HIDE DEF pick
<1>5. \A n \in 1..N : positional[n] = arguments[pick(n)]
    BY <1>2, <1>3
<1> HIDE DEF N
<1>6. positional = [n \in 1..N |-> positional[n]]
    BY <1>2
<1> QED
    BY <1>4, <1>5, <1>6

LEMMA EndImplicit ==
    ASSUME AtEnd
    PROVE  force_implicit_query <=>
               \E t \in CL!Having(arguments, {"terminator"}) :
                   \A i \in CL!Having(arguments, {"text"}) : t < i
<1>1. Implicit
    BY DEF AtEnd, Passing
<1>2. \A t \in Terms : t < index
    BY EndFacts
<1>3. \A i \in Words : i < index
    BY EndFacts
<1> QED
    BY <1>1, <1>2, <1>3 DEF Implicit, Terms, Words

LEMMA EndFlags ==
    ASSUME AtEnd
    PROVE  /\ parsed.explain = CL!Has(arguments, "--explain")
           /\ parsed.json = CL!Has(arguments, "--json")
           /\ parsed.raw = CL!Has(arguments, "--raw")
<1>1. \A flag : (\E i \in Flagged(flag) : i < index) <=> CL!Has(arguments, flag)
    BY EndFacts DEF Flagged, CL!Has
<1>2. /\ parsed.explain <=> CL!Has(arguments, "--explain")
      /\ parsed.json <=> CL!Has(arguments, "--json")
      /\ parsed.raw <=> CL!Has(arguments, "--raw")
    BY <1>1 DEF AtEnd, Passing, Flags
<1>3. parsed.explain \in BOOLEAN /\ parsed.json \in BOOLEAN /\ parsed.raw \in BOOLEAN
    BY DEF AtEnd, Passing, Unfinished
<1>4. \A flag : CL!Has(arguments, flag) \in BOOLEAN
    BY DEF CL!Has
<1> QED
    BY <1>2, <1>3, <1>4, Zenon

LEMMA EndLimit == ASSUME AtEnd PROVE parsed.limit = CL!LimitOf(arguments)
<1>1. LimitSeen
    BY DEF AtEnd, Passing
<1>2. \A i \in Limits : i < index
    BY EndFacts
<1>3. CASE Limits = {}
    BY <1>1, <1>3 DEF LimitSeen, CL!LimitOf, Limits
<1>4. CASE Limits # {}
  <2> DEFINE last == CHOOSE i \in Limits : \A j \in Limits : j <= i
  <2>1. \E i \in Limits : \A j \in Limits : j <= i
    <3>1. Limits \subseteq 1..Len(arguments) /\ Len(arguments) \in Nat
        BY EndFacts
    <3>2. Limits \in SUBSET (0..Len(arguments))
        BY <3>1
    <3> QED
        BY <1>4, <3>1, <3>2, MaxProperty
  <2>2. last \in Limits /\ \A j \in Limits : j <= last
      BY <2>1
  <2>3. CL!LimitOf(arguments) = NumberOf[CL!Value(arguments, last)]
      BY <1>4 DEF CL!LimitOf, Limits
  <2> HIDE DEF last
  <2> QED
      BY <1>1, <1>2, <2>2, <2>3 DEF LimitSeen
<1> QED
    BY <1>3, <1>4

\* The options as they are before the command is looked at.
OptionsBut(command, knowledge_path_, query, entry_id) ==
    [command |-> command, knowledge_path |-> knowledge_path_,
     limit |-> CL!LimitOf(arguments),
     explain |-> CL!Has(arguments, "--explain"), json |-> CL!Has(arguments, "--json"),
     raw |-> CL!Has(arguments, "--raw"), query |-> query, entry_id |-> entry_id]
GivenPath ==
    IF Paths # {} THEN CL!Value(arguments, CHOOSE i \in Paths : TRUE) ELSE Absent

LEMMA EndOptions ==
    ASSUME AtEnd
    PROVE  /\ parsed = OptionsBut("search", GivenPath, <<>>, Absent)
           /\ parsed.knowledge_path = GivenPath
           /\ GivenPath = Absent <=> Paths = {}
<1>1. parsed \in [command : {"search"}, knowledge_path : Strings \cup {Absent},
                  limit : 1..MaximumLimit, explain : BOOLEAN, json : BOOLEAN, raw : BOOLEAN,
                  query : {<<>>}, entry_id : {Absent}]
    BY DEF AtEnd, Passing, Unfinished
<1>2. parsed = [command |-> parsed.command, knowledge_path |-> parsed.knowledge_path,
                limit |-> parsed.limit, explain |-> parsed.explain, json |-> parsed.json,
                raw |-> parsed.raw, query |-> parsed.query, entry_id |-> parsed.entry_id]
    BY <1>1
<1>3. parsed.command = "search" /\ parsed.query = <<>> /\ parsed.entry_id = Absent
    BY <1>1
<1>4. parsed.knowledge_path = GivenPath
  <2>1. PathSeen
      BY DEF AtEnd, Passing
  <2>2. \A i \in Paths : i < index
      BY EndFacts
  <2>3. CASE Paths = {}
      BY <2>1, <2>3 DEF PathSeen, GivenPath
  <2>4. CASE Paths # {}
      BY <2>1, <2>2, <2>4 DEF PathSeen, GivenPath
  <2> QED
      BY <2>3, <2>4
<1>5. GivenPath = Absent <=> Paths = {}
  <2>1. CASE Paths # {}
    <3>1. PICK i \in Paths : GivenPath = CL!Value(arguments, i)
        BY <2>1 DEF GivenPath
    <3> QED
        BY <2>1, <3>1, EndFacts, ValueIsThere
  <2> QED
      BY <2>1 DEF GivenPath
<1> HIDE DEF GivenPath
<1>6. parsed = OptionsBut("search", GivenPath, <<>>, Absent)
    BY <1>2, <1>3, <1>4, EndFlags, EndLimit, Zenon DEF OptionsBut
<1> QED
    BY <1>4, <1>5, <1>6

-----------------------------------------------------------------------------
(* The look at the text, against the forms of the usage text.              *)

CommandWords == {"search", "list", "show", "validate"}

LEMMA FormFacts ==
    ASSUME AtEnd
    PROVE  /\ positional = <<>> => CL!FormOf(arguments) = "none"
           /\ positional # <<>> /\ (force_implicit_query \/ positional[1] \notin CommandWords) =>
                CL!FormOf(arguments) = "query"
           /\ positional # <<>> /\ ~force_implicit_query /\ positional[1] \in CommandWords =>
                CL!FormOf(arguments) = positional[1]
<1>1. CL!IsImplicitQuery(arguments) <=>
          force_implicit_query \/ positional[1] \notin CommandWords
    BY EndImplicit, EndTexts DEF CL!IsImplicitQuery, CommandWords
<1>2. CL!FormOf(arguments) =
          CASE positional = <<>> -> "none"
            [] positional # <<>> /\ CL!IsImplicitQuery(arguments) -> "query"
            [] OTHER -> positional[1]
    BY EndTexts DEF CL!FormOf
<1> QED
    BY <1>1, <1>2, Zenon

\* Nothing before was wrong, so a form of the usage text is what is missing.
LEMMA AcceptedAtEnd ==
    ASSUME AtEnd
    PROVE  CL!Accepted(arguments) <=>
              LET form == CL!FormOf(arguments) IN
              /\ form # "none" /\ ~(parsed.raw /\ parsed.json)
              /\ form = "search" => Len(positional) > 1
              /\ form = "list" => Len(positional) = 1
              /\ form = "show" => Len(positional) = 2
              /\ form = "validate" =>
                    \/ Len(positional) = 1
                    \/ Len(positional) = 2 /\ Paths = {}
<1>1. CL!Accepted(arguments) <=> CL!IsForm(arguments)
    BY EndFacts, Zenon DEF CL!Accepted
<1>2. parsed.raw /\ parsed.json <=> CL!Has(arguments, "--raw") /\ CL!Has(arguments, "--json")
    BY EndFlags, Zenon
<1> QED
    BY <1>1, <1>2, EndTexts, Zenon DEF CL!IsForm, Paths

LEMMA MeaningAtEnd ==
    ASSUME AtEnd, NEW form, form = CL!FormOf(arguments)
    PROVE  CL!MeaningOf(arguments) =
              OptionsBut(IF form = "query" THEN "search" ELSE form,
                         IF Paths = {} /\ form = "validate" /\ Len(positional) = 2
                         THEN positional[2] ELSE GivenPath,
                         IF form = "query" THEN positional
                         ELSE IF form = "search" THEN Tail(positional) ELSE <<>>,
                         IF form = "show" THEN positional[2] ELSE Absent)
<1>1. CL!MeaningOf(arguments) =
              OptionsBut(IF form = "query" THEN "search" ELSE form,
                         IF Paths # {} THEN CL!Value(arguments, CHOOSE i \in Paths : TRUE)
                         ELSE IF form = "validate" /\ Len(positional) = 2
                         THEN positional[2] ELSE Absent,
                         IF form = "query" THEN positional
                         ELSE IF form = "search" THEN Tail(positional) ELSE <<>>,
                         IF form = "show" THEN positional[2] ELSE Absent)
    BY EndTexts, Zenon DEF CL!MeaningOf, OptionsBut, Paths, Absent
<1>2. (IF Paths # {} THEN CL!Value(arguments, CHOOSE i \in Paths : TRUE)
       ELSE IF form = "validate" /\ Len(positional) = 2 THEN positional[2] ELSE Absent)
      = (IF Paths = {} /\ form = "validate" /\ Len(positional) = 2
         THEN positional[2] ELSE GivenPath)
  <2>1. CASE Paths = {}
      BY <2>1 DEF GivenPath
  <2>2. CASE Paths # {}
    <3> DEFINE value == CL!Value(arguments, CHOOSE i \in Paths : TRUE)
    <3>1. GivenPath = value
        BY <2>2, Zenon DEF GivenPath
    <3> HIDE DEF value
    <3>2. (IF Paths # {} THEN value
           ELSE IF form = "validate" /\ Len(positional) = 2 THEN positional[2] ELSE Absent)
          = (IF Paths = {} /\ form = "validate" /\ Len(positional) = 2
             THEN positional[2] ELSE GivenPath)
        BY <2>2, <3>1
    <3> QED
        BY <3>2 DEF value
  <2> QED
      BY <2>1, <2>2
<1> QED
    BY <1>1, <1>2

\* What the steps at the end leave for the reference.
LEMMA RejectedAtEnd ==
    ASSUME AtEnd, UNCHANGED arguments, reading' = "returned", error' # "",
           ~CL!Accepted(arguments)
    PROVE  Judged' /\ reading' = "returned"
<1>1. CL!Accepted(arguments)' <=> CL!Accepted(arguments)
    BY DEF CL!Accepted
<1> QED
    BY <1>1 DEF Judged

LEMMA AcceptedHere ==
    ASSUME AtEnd, UNCHANGED <<arguments, error>>, reading' = "returned",
           CL!Accepted(arguments), parsed' = CL!MeaningOf(arguments)
    PROVE  Judged' /\ reading' = "returned"
<1>1. (CL!Accepted(arguments)' <=> CL!Accepted(arguments))
      /\ CL!MeaningOf(arguments)' = CL!MeaningOf(arguments)
      /\ CL!Asks(arguments)' = CL!Asks(arguments)
    BY DEF CL!Accepted
<1>2. error' = "" /\ CL!Asks(arguments) = {}
    BY EndFacts
<1>3. CL!Texts(arguments)' \in Seq(Strings)
  <2>1. CL!Texts(arguments) \in Seq(Strings)
      BY EndTexts DEF AtEnd, Passing, Collected
  <2>2. CL!Texts(arguments)' = CL!Texts(arguments)
      BY DEF CL!Texts
  <2> QED
      BY <2>1, <2>2
<1> QED
    BY <1>1, <1>2, <1>3 DEF Judged

\* The options as a function of their fields.
Fields(c, k, l, x, j, w, q, e) ==
    [command |-> c, knowledge_path |-> k, limit |-> l, explain |-> x,
     json |-> j, raw |-> w, query |-> q, entry_id |-> e]

LEMMA OptionsWith ==
    ASSUME AtEnd, NEW command, NEW value
    PROVE  /\ [parsed EXCEPT !.command = command, !.query = value] =
                OptionsBut(command, GivenPath, value, Absent)
           /\ [parsed EXCEPT !.command = command, !.entry_id = value] =
                OptionsBut(command, GivenPath, <<>>, value)
           /\ [parsed EXCEPT !.command = command, !.knowledge_path = value] =
                OptionsBut(command, value, <<>>, Absent)
<1> DEFINE limit == CL!LimitOf(arguments)
           explain == CL!Has(arguments, "--explain")
           json == CL!Has(arguments, "--json")
           raw == CL!Has(arguments, "--raw")
<1>1. \A c, k, q, e :
          OptionsBut(c, k, q, e) = Fields(c, k, limit, explain, json, raw, q, e)
    BY Zenon DEF OptionsBut, Fields
<1> HIDE DEF limit, explain, json, raw
<1>2. parsed = Fields("search", GivenPath, limit, explain, json, raw, <<>>, Absent)
    BY <1>1, EndOptions, Zenon
<1>3. ASSUME NEW s, s = [parsed EXCEPT !.command = command, !.query = value]
      PROVE  s = Fields(command, GivenPath, limit, explain, json, raw, value, Absent)
    BY <1>2, <1>3 DEF Fields
<1>4. ASSUME NEW s, s = [parsed EXCEPT !.command = command, !.entry_id = value]
      PROVE  s = Fields(command, GivenPath, limit, explain, json, raw, <<>>, value)
    BY <1>2, <1>4 DEF Fields
<1>5. ASSUME NEW s, s = [parsed EXCEPT !.command = command, !.knowledge_path = value]
      PROVE  s = Fields(command, value, limit, explain, json, raw, <<>>, Absent)
    BY <1>2, <1>5 DEF Fields
<1> QED
    BY <1>1, <1>3, <1>4, <1>5, Zenon

LEMMA AfterFacts ==
    ASSUME AtEnd, NEW command \in CommandWords, CL!After(command)
    PROVE  /\ positional # <<>> /\ ~(parsed.raw /\ parsed.json)
           /\ CL!FormOf(arguments) = command
           /\ Len(positional) \in Nat \ {0}
<1>1. /\ positional # <<>> /\ ~(parsed.raw /\ parsed.json)
      /\ ~force_implicit_query /\ positional[1] = command
    BY DEF CL!After
<1>2. positional \in Seq(Strings)
    BY DEF AtEnd, Passing, Collected
<1>3. Len(positional) \in Nat \ {0}
    BY <1>1, <1>2
<1> QED
    BY <1>1, <1>3, FormFacts

LEMMA RejectAllJudged == ASSUME AtEnd, CL!RejectAll PROVE Judged' /\ reading' = "returned"
<1>1. /\ UNCHANGED arguments /\ reading' = "returned" /\ error' # ""
      /\ positional = <<>> \/ (parsed.raw /\ parsed.json)
    BY DEF CL!RejectAll, CL!Reject, CL!parsed
<1>2. ~CL!Accepted(arguments)
    BY <1>1, AcceptedAtEnd, FormFacts
<1> QED
    BY <1>1, <1>2, RejectedAtEnd

LEMMA SearchJudged == ASSUME AtEnd, CL!SearchCommand PROVE Judged' /\ reading' = "returned"
<1>1. /\ CL!FormOf(arguments) = "search" /\ Len(positional) \in Nat \ {0}
      /\ ~(parsed.raw /\ parsed.json)
    BY AfterFacts DEF CL!SearchCommand, CommandWords
<1>2. CASE Len(positional) = 1
  <2>1. UNCHANGED arguments /\ reading' = "returned" /\ error' # ""
      BY <1>2 DEF CL!SearchCommand, CL!Reject, CL!parsed
  <2>2. ~CL!Accepted(arguments)
      BY <1>1, <1>2, AcceptedAtEnd
  <2> QED
      BY <2>1, <2>2, RejectedAtEnd
<1>3. CASE Len(positional) # 1
  <2>1. /\ UNCHANGED <<arguments, error>> /\ reading' = "returned"
        /\ parsed' = [parsed EXCEPT !.command = "search", !.query = Tail(positional)]
      BY <1>3 DEF CL!SearchCommand, CL!Accept, CL!Return, CL!parsed
  <2>2. CL!Accepted(arguments)
      BY <1>1, <1>3, AcceptedAtEnd
  <2>3. parsed' = OptionsBut("search", GivenPath, Tail(positional), Absent)
      BY <2>1, OptionsWith
  <2>4. CL!MeaningOf(arguments) = OptionsBut("search", GivenPath, Tail(positional), Absent)
      BY <1>1, MeaningAtEnd
  <2> QED
      BY <2>1, <2>2, <2>3, <2>4, AcceptedHere
<1> QED
    BY <1>2, <1>3

LEMMA ListJudged == ASSUME AtEnd, CL!ListCommand PROVE Judged' /\ reading' = "returned"
<1>1. /\ CL!FormOf(arguments) = "list" /\ Len(positional) \in Nat \ {0}
      /\ ~(parsed.raw /\ parsed.json)
    BY AfterFacts DEF CL!ListCommand, CommandWords
<1>2. CASE Len(positional) # 1
  <2>1. UNCHANGED arguments /\ reading' = "returned" /\ error' # ""
      BY <1>2 DEF CL!ListCommand, CL!Reject, CL!parsed
  <2>2. ~CL!Accepted(arguments)
      BY <1>1, <1>2, AcceptedAtEnd
  <2> QED
      BY <2>1, <2>2, RejectedAtEnd
<1>3. CASE Len(positional) = 1
  <2>1. /\ UNCHANGED <<arguments, error>> /\ reading' = "returned"
        /\ parsed' = [parsed EXCEPT !.command = "list", !.query = <<>>]
      BY <1>3 DEF CL!ListCommand, CL!Accept, CL!Return, CL!parsed
  <2>2. CL!Accepted(arguments)
      BY <1>1, <1>3, AcceptedAtEnd
  <2>3. parsed' = OptionsBut("list", GivenPath, <<>>, Absent)
      BY <2>1, OptionsWith
  <2>4. CL!MeaningOf(arguments) = OptionsBut("list", GivenPath, <<>>, Absent)
      BY <1>1, MeaningAtEnd
  <2> QED
      BY <2>1, <2>2, <2>3, <2>4, AcceptedHere
<1> QED
    BY <1>2, <1>3

LEMMA ShowJudged == ASSUME AtEnd, CL!ShowCommand PROVE Judged' /\ reading' = "returned"
<1>1. /\ CL!FormOf(arguments) = "show" /\ Len(positional) \in Nat \ {0}
      /\ ~(parsed.raw /\ parsed.json)
    BY AfterFacts DEF CL!ShowCommand, CommandWords
<1>2. CASE Len(positional) # 2
  <2>1. UNCHANGED arguments /\ reading' = "returned" /\ error' # ""
      BY <1>2 DEF CL!ShowCommand, CL!Reject, CL!parsed
  <2>2. ~CL!Accepted(arguments)
      BY <1>1, <1>2, AcceptedAtEnd
  <2> QED
      BY <2>1, <2>2, RejectedAtEnd
<1>3. CASE Len(positional) = 2
  <2>1. /\ UNCHANGED <<arguments, error>> /\ reading' = "returned"
        /\ parsed' = [parsed EXCEPT !.command = "show", !.entry_id = positional[2]]
      BY <1>3 DEF CL!ShowCommand, CL!Accept, CL!Return, CL!parsed
  <2>2. CL!Accepted(arguments)
      BY <1>1, <1>3, AcceptedAtEnd
  <2>3. parsed' = OptionsBut("show", GivenPath, <<>>, positional[2])
    <3>1. ASSUME NEW id PROVE [parsed EXCEPT !.command = "show", !.entry_id = id] =
                                  OptionsBut("show", GivenPath, <<>>, id)
        BY OptionsWith
    <3> QED
        BY <2>1, <3>1, Zenon
  <2>4. CL!MeaningOf(arguments) = OptionsBut("show", GivenPath, <<>>, positional[2])
      BY <1>1, MeaningAtEnd
  <2> QED
      BY <2>1, <2>2, <2>3, <2>4, AcceptedHere
<1> QED
    BY <1>2, <1>3

LEMMA ValidateJudged == ASSUME AtEnd, CL!ValidateCommand PROVE Judged' /\ reading' = "returned"
<1>0. Len(positional) \in Nat \ {0}
    BY AfterFacts DEF CL!ValidateCommand, CommandWords
<1> DEFINE n == Len(positional)
<1>a. n > 2 => n # 1 /\ n # 2
  <2> HIDE DEF n
  <2> QED
      OBVIOUS
<1>b. n = 1 \/ n = 2 \/ n > 2
  <2>1. n \in Nat \ {0}
      BY <1>0
  <2> HIDE DEF n
  <2> QED
      BY <2>1
<1>c. n = 2 => ~(n > 2) /\ n # 1
    OBVIOUS
<1>d. n = 1 => ~(n > 2) /\ n # 2
    OBVIOUS
<1>1. /\ CL!FormOf(arguments) = "validate"
      /\ ~(parsed.raw /\ parsed.json)
    BY AfterFacts DEF CL!ValidateCommand, CommandWords
<1>2. CASE \/ Len(positional) > 2
           \/ Len(positional) = 2 /\ parsed.knowledge_path # Absent
  <2>1. UNCHANGED arguments /\ reading' = "returned" /\ error' # ""
    <3>1. CASE Len(positional) > 2
      <4>1. ~(Len(positional) = 1) /\ ~(Len(positional) = 2)
          BY <1>a, <3>1, Zenon
      <4>2. CL!Reject("validate") /\ UNCHANGED CL!parsed
          BY <3>1, <4>1, Zenon DEF CL!ValidateCommand
      <4> QED
          BY <4>2 DEF CL!Reject, CL!parsed
    <3>2. CASE Len(positional) = 2 /\ parsed.knowledge_path # Absent
      <4>1. ~(Len(positional) > 2) /\ ~(Len(positional) = 1)
          BY <1>c, <3>2, Zenon
      <4>2. CL!Reject("path twice") /\ UNCHANGED CL!parsed
          BY <3>2, <4>1, Zenon DEF CL!ValidateCommand, Absent
      <4> QED
          BY <4>2 DEF CL!Reject, CL!parsed
    <3> QED
        BY <1>2, <3>1, <3>2
  <2>2. ~CL!Accepted(arguments)
    <3>1. ~(Len(positional) = 1)
        BY <1>a, <1>c, <1>2, Zenon
    <3>2. ~(Len(positional) = 2 /\ Paths = {})
      <4>1. CASE Len(positional) > 2
          BY <1>a, <4>1, Zenon
      <4>2. CASE Len(positional) = 2 /\ parsed.knowledge_path # Absent
          BY <4>2, EndOptions, Zenon
      <4> QED
          BY <1>2, <4>1, <4>2
    <3> QED
        BY <1>1, <3>1, <3>2, AcceptedAtEnd, Zenon
  <2> QED
      BY <2>1, <2>2, RejectedAtEnd
<1>3. CASE Len(positional) = 1
  <2>1. CL!Accept("validate", "query", <<>>)
      BY <1>3 DEF CL!ValidateCommand
  <2>2. /\ UNCHANGED <<arguments, error>> /\ reading' = "returned"
        /\ parsed' = [parsed EXCEPT !.command = "validate", !.query = <<>>]
      BY <2>1 DEF CL!Accept, CL!Return, CL!parsed
  <2>3. CL!Accepted(arguments)
      BY <1>1, <1>3, AcceptedAtEnd
  <2>4. parsed' = OptionsBut("validate", GivenPath, <<>>, Absent)
      BY <2>2, OptionsWith
  <2>5. CL!MeaningOf(arguments) = OptionsBut("validate", GivenPath, <<>>, Absent)
      BY <1>1, <1>3, MeaningAtEnd
  <2> QED
      BY <2>2, <2>3, <2>4, <2>5, AcceptedHere
<1>4. CASE Len(positional) = 2 /\ parsed.knowledge_path = Absent
  <2>1. CL!Accept("validate", "knowledge_path", positional[2])
      BY <1>4 DEF CL!ValidateCommand, Absent
  <2>2. /\ UNCHANGED <<arguments, error>> /\ reading' = "returned"
        /\ parsed' = [parsed EXCEPT !.command = "validate", !.knowledge_path = positional[2]]
      BY <2>1 DEF CL!Accept, CL!Return, CL!parsed
  <2>3. CL!Accepted(arguments) /\ Paths = {}
      BY <1>1, <1>4, AcceptedAtEnd, EndOptions
  <2>4. parsed' = OptionsBut("validate", positional[2], <<>>, Absent)
      BY <2>2, OptionsWith
  <2>5. CL!MeaningOf(arguments) = OptionsBut("validate", positional[2], <<>>, Absent)
      BY <1>1, <1>4, <2>3, MeaningAtEnd
  <2> QED
      BY <2>2, <2>3, <2>4, <2>5, AcceptedHere
<1> QED
    BY <1>b, <1>2, <1>3, <1>4, Zenon

LEMMA QueryJudged == ASSUME AtEnd, CL!ImplicitQuery PROVE Judged' /\ reading' = "returned"
<1>1. /\ positional # <<>> /\ ~(parsed.raw /\ parsed.json)
      /\ force_implicit_query \/ positional[1] \notin CommandWords
    BY DEF CL!ImplicitQuery, CommandWords
<1>2. CL!FormOf(arguments) = "query"
    BY <1>1, FormFacts
<1>3. /\ UNCHANGED <<arguments, error>> /\ reading' = "returned"
      /\ parsed' = [parsed EXCEPT !.command = "search", !.query = positional]
    BY DEF CL!ImplicitQuery, CL!Accept, CL!Return, CL!parsed
<1>4. CL!Accepted(arguments)
    BY <1>1, <1>2, AcceptedAtEnd
<1>5. parsed' = OptionsBut("search", GivenPath, positional, Absent)
    BY <1>3, OptionsWith
<1>6. CL!MeaningOf(arguments) = OptionsBut("search", GivenPath, positional, Absent)
    BY <1>2, MeaningAtEnd
<1> QED
    BY <1>3, <1>4, <1>5, <1>6, AcceptedHere

-----------------------------------------------------------------------------
(* The parse as a whole.                                                   *)

ParseInv ==
    /\ arguments \in ArgumentLists
    /\ reading \in {"arguments", "returned"}
    /\ reading = "arguments" => Passing
    /\ reading = "returned" => Judged

LEMMA ParseStarts == RunInit => ParseInv
<1> SUFFICES ASSUME RunInit PROVE ParseInv
    OBVIOUS
<1>1. /\ arguments \in ArgumentLists /\ index = 1
      /\ positional = <<>> /\ reading = "arguments"
    BY DEF RunInit, CL!Init
<1>0. /\ parse_options /\ ~force_implicit_query
      /\ parsed = CL!DefaultOptions /\ error = ""
    BY DEF RunInit, CL!Init
<1>2. Len(arguments) \in Nat /\ DOMAIN arguments = 1..Len(arguments)
    BY <1>1, ArgumentFacts
<1>3. \A i \in DOMAIN arguments : ~(i < index) /\ index <= i
    BY <1>1, <1>2
<1>4. /\ Terms \subseteq DOMAIN arguments /\ Words \subseteq DOMAIN arguments
      /\ Limits \subseteq DOMAIN arguments /\ Paths \subseteq DOMAIN arguments
      /\ \A flag : Flagged(flag) \subseteq DOMAIN arguments
    BY <1>1, Positions
<1>5. IndexOk
    BY <1>1, <1>2 DEF IndexOk
<1>6. Terminated /\ Implicit
    BY <1>0, <1>3, <1>4 DEF Terminated, Implicit
<1>7. Collected
  <2>1. WordsBefore(index) = {}
      BY <1>3, <1>4 DEF WordsBefore
  <2>2. Cardinality({}) = 0
      BY FS_EmptySet
  <2>3. positional \in Seq(Strings) /\ Len(positional) = 0
      BY <1>1
  <2> QED
      BY <2>1, <2>2, <2>3 DEF Collected
<1>8. parsed.explain = FALSE /\ parsed.json = FALSE /\ parsed.raw = FALSE
      /\ parsed.limit = DefaultLimit /\ parsed.knowledge_path = Absent
    BY <1>0 DEF CL!DefaultOptions, Absent
<1>9. Flags /\ LimitSeen /\ PathSeen
    BY <1>3, <1>4, <1>8 DEF Flags, LimitSeen, PathSeen
<1>10. NothingWrong
  <2>1. CL!Asks(arguments) \cup CL!Errs(arguments) \subseteq DOMAIN arguments
      BY <1>1, <1>4, AskErrFacts
  <2> QED
      BY <1>3, <2>1 DEF NothingWrong
<1>11. Unfinished
  <2>1. DefaultLimit \in 1..MaximumLimit
      BY ArgumentsAssumption
  <2> QED
      BY <1>0, <2>1 DEF Unfinished, CL!DefaultOptions, Absent
<1> QED
    BY <1>1, <1>5, <1>6, <1>7, <1>9, <1>10, <1>11 DEF ParseInv, Passing

\* An argument is read, or the text looked at.
LEMMA ParseGoesOn == ASSUME ParseInv, Parse PROVE ParseInv' /\ UNCHANGED arguments
<1>1. Passing /\ CL!Next
    BY DEF ParseInv, Parse
<1>2. UNCHANGED arguments
  <2>1. CASE CL!Parse
      BY <2>1 DEF CL!Parse, CL!Terminator, CL!Immediate, CL!Flag, CL!Knowledge, CL!Limit,
                  CL!UnknownOption, CL!Positional
  <2>2. CASE CL!RejectAll
      BY <2>2 DEF CL!RejectAll, CL!parsed
  <2>3. CASE CL!SearchCommand
      BY <2>3 DEF CL!SearchCommand, CL!Accept, CL!parsed
  <2>4. CASE CL!ListCommand
      BY <2>4 DEF CL!ListCommand, CL!Accept, CL!parsed
  <2>5. CASE CL!ShowCommand
      BY <2>5 DEF CL!ShowCommand, CL!Accept, CL!parsed
  <2>6. CASE CL!ValidateCommand
      BY <2>6, Zenon DEF CL!ValidateCommand, CL!Accept, CL!parsed
  <2>7. CASE CL!ImplicitQuery
      BY <2>7 DEF CL!ImplicitQuery, CL!Accept, CL!parsed
  <2> QED
      BY <1>1, <2>1, <2>2, <2>3, <2>4, <2>5, <2>6, <2>7 DEF CL!Next, CL!Dispatch
<1>3. \/ Passing' /\ reading' = "arguments"
      \/ Judged' /\ reading' = "returned"
  <2>1. CASE CL!Parse
    <3>1. Here
        BY <1>1, <2>1
           DEF Here, CL!Parse, CL!Terminator, CL!Immediate, CL!Flag, CL!Knowledge, CL!Limit,
               CL!UnknownOption, CL!Positional
    <3> QED
        BY <2>1, <3>1, TerminatorPasses, ImmediateJudged, FlagPasses, KnowledgePasses,
           LimitPasses, UnknownOptionJudged, PositionalPasses DEF CL!Parse
  <2>2. CASE CL!Dispatch
    <3>1. AtEnd
        BY <1>1, <2>2
           DEF AtEnd, CL!Dispatch, CL!RejectAll, CL!SearchCommand, CL!ListCommand,
               CL!ShowCommand, CL!ValidateCommand, CL!ImplicitQuery, CL!After
    <3> QED
        BY <2>2, <3>1, RejectAllJudged, SearchJudged, ListJudged, ShowJudged,
           ValidateJudged, QueryJudged DEF CL!Dispatch
  <2> QED
      BY <1>1, <2>1, <2>2 DEF CL!Next
<1> QED
    BY <1>2, <1>3 DEF ParseInv

\* Nothing else touches what was parsed.
LEMMA ParseStays == ASSUME ParseInv, UNCHANGED cli PROVE ParseInv'
<1>1. /\ arguments' = arguments /\ index' = index /\ reading' = reading
      /\ parse_options' = parse_options /\ force_implicit_query' = force_implicit_query
      /\ positional' = positional /\ parsed' = parsed /\ error' = error
    BY DEF cli
<1>2. /\ Terms' = Terms /\ Words' = Words /\ Limits' = Limits /\ Paths' = Paths
      /\ Roles' = Roles /\ \A flag : Flagged(flag)' = Flagged(flag)
    BY <1>1, SetsStay
<1>3. CL!Accepted(arguments)' = CL!Accepted(arguments)
      /\ CL!Asks(arguments)' = CL!Asks(arguments) /\ CL!Errs(arguments)' = CL!Errs(arguments)
      /\ CL!MeaningOf(arguments)' = CL!MeaningOf(arguments)
      /\ CL!Texts(arguments)' = CL!Texts(arguments)
    BY <1>1 DEF CL!Accepted, CL!Asks, CL!Errs, CL!MeaningOf, CL!Texts
<1>4. Judged <=> Judged'
    BY <1>1, <1>3 DEF Judged
<1>5. /\ \A n : WordsBefore(n)' = WordsBefore(n)
      /\ \A i : Ordinal(i)' = Ordinal(i)
      /\ \A i : CL!Value(arguments, i)' = CL!Value(arguments, i)
    BY <1>1, <1>2 DEF WordsBefore, Ordinal, CL!Value
<1>6. /\ IndexOk => IndexOk'
      /\ Terminated => Terminated'
      /\ Implicit => Implicit'
    BY <1>1, <1>2 DEF IndexOk, Terminated, Implicit
<1>7. Collected => Collected'
    BY <1>1, <1>5 DEF Collected, WordsBefore
<1>8. Flags => Flags'
    BY <1>1, <1>2 DEF Flags
<1>9. /\ LimitSeen => LimitSeen'
      /\ PathSeen => PathSeen'
    BY <1>1, <1>2, <1>5 DEF LimitSeen, PathSeen
<1>10. /\ NothingWrong => NothingWrong'
       /\ Unfinished => Unfinished'
    BY <1>1, <1>3 DEF NothingWrong, Unfinished
<1> QED
    BY <1>1, <1>4, <1>6, <1>7, <1>8, <1>9, <1>10 DEF ParseInv, Passing

\* The invariant of the parse holds throughout the run.
LEMMA ParseNext == ASSUME ParseInv, [RunNext]_<<cli, app, here>> PROVE ParseInv'
<1>1. CASE Parse
    BY <1>1, ParseGoesOn
<1>2. CASE ~Parse
  <2>1. UNCHANGED cli
      BY <1>2 DEF RunNext, Work, Stop, Reject, Inform, Resolve, Load, Continue, Move
  <2> QED
      BY <2>1, ParseStays
<1> QED
    BY <1>1, <1>2

THEOREM ParseInvariant == RunSpec => []ParseInv
<1> QED
    BY ParseStarts, ParseNext, PTL DEF RunSpec

\* Every list of arguments whose meaning the usage text and the code do not
\* dispute has the one meaning its positions give it, whatever is read argument
\* by argument and how it was left.
THEOREM ArgumentsHaveOneMeaning == RunSpec => []MeaningIsPositional
<1>1. ParseInv => MeaningIsPositional
  <2> SUFFICES ASSUME ParseInv, Parsed PROVE CL!MeaningIsPositional
      BY DEF MeaningIsPositional
  <2>1. Judged
      BY DEF ParseInv, Parsed
  <2> QED
      BY <2>1 DEF Judged, CL!MeaningIsPositional
<1> QED
    BY <1>1, ParseInvariant, PTL

-----------------------------------------------------------------------------
(* What is asked on the command line, and what the run comes to.           *)

\* One JSON document, or text alone.
Document(out, form) ==
    IF form = "json" THEN Len(out) = 1 /\ out[1].form = "json"
    ELSE \A i \in DOMAIN out : out[i].form = "text"

\* Only a run past the arguments has a knowledge base.
InOrder ==
    /\ reading = "arguments" => pc = "start"
    /\ pc = "start" => knowledge_path = Absent
    /\ pc \notin {"start", "exit"} => knowledge_path # Absent

\* The runs without one: main gives up, the arguments are malformed, or help
\* or the version is all that is asked for.
Refused ==
    pc = "exit" /\ knowledge_path = Absent =>
        /\ cwd_known => (exit = InvalidArguments <=> ~CL!Accepted(arguments))
        /\ CL!Accepted(arguments) /\ CL!Asks(arguments) # {} => exit = Success

\* The base that is taken.
Named(base) ==
    LET texts == CL!Texts(arguments) IN
    /\ Paths # {} => base \in {CL!Value(arguments, i) : i \in Paths}
    /\ Paths = {} /\ NamedToValidate(texts) => base = texts[2]
    /\ Paths = {} /\ ~NamedToValidate(texts) /\ environment \notin {Absent, ""} =>
        base = environment

Based ==
    knowledge_path # Absent =>
        /\ CL!Accepted(arguments) /\ CL!Asks(arguments) = {}
        /\ options.json = CL!Has(arguments, "--json")
        /\ Named(knowledge_path)

Documented ==
    pc = "exit" /\ knowledge_path # Absent =>
        exit \in {Success, NoConfidentResult, ConfigurationError}
        /\ Document(stdout, Form)

Outcome == InOrder /\ Refused /\ Based /\ Documented
RunInv == ParseInv /\ IInv /\ Outcome

\* Nothing that was asked for changes.
LEMMA OutcomeStays ==
    ASSUME Outcome, UNCHANGED <<arguments, environment, cwd_known, parsed, pc, options,
                                knowledge_path, exit, stdout>>,
           reading' = "arguments" => pc = "start"
    PROVE  Outcome'
<1>1. /\ Paths' = Paths /\ CL!Accepted(arguments)' = CL!Accepted(arguments)
      /\ CL!Asks(arguments)' = CL!Asks(arguments)
      /\ CL!Has(arguments, "--json")' = CL!Has(arguments, "--json")
      /\ CL!Texts(arguments)' = CL!Texts(arguments)
      /\ CL!FormOf(arguments)' = CL!FormOf(arguments)
      /\ \A i : CL!Value(arguments, i)' = CL!Value(arguments, i)
    BY DEF Paths, CL!Accepted, CL!Asks, CL!Has, CL!Texts, CL!FormOf, CL!Value
<1>2. \A base : Named(base)' <=> Named(base)
    BY <1>1 DEF Named, NamedToValidate
<1>3. InOrder' /\ Refused'
    BY <1>1 DEF Outcome, InOrder, Refused
<1>4. Based'
    BY <1>1, <1>2 DEF Outcome, Based
<1>5. Documented'
    BY DEF Outcome, Documented, Document, Form
<1> QED
    BY <1>3, <1>4, <1>5 DEF Outcome

LEMMA OutcomeParse ==
    ASSUME RunInv, Parse PROVE Outcome'
<1>1. /\ pc = "start" /\ pc' = "start" /\ knowledge_path' = knowledge_path
    BY DEF RunInv, Outcome, InOrder, Parse, app, here
<1> QED
    BY <1>1 DEF RunInv, Outcome, InOrder, Refused, Based, Documented

\* The runs that end before a base is looked for.
LEMMA OutcomeEarly ==
    ASSUME RunInv, Stop \/ Reject \/ Inform PROVE Outcome'
<1>1. /\ Parsed /\ UNCHANGED <<cli, here>> /\ pc' = "exit"
      /\ knowledge_path = Absent /\ knowledge_path' = Absent
      /\ UNCHANGED <<arguments, parsed, error, reading, cwd_known>>
    BY DEF RunInv, Outcome, InOrder, Stop, Reject, Inform, Parsed, Exit, cli, here
<1>2. Judged
    BY <1>1 DEF RunInv, ParseInv, Parsed
<1>3. CL!Accepted(arguments)' = CL!Accepted(arguments)
      /\ CL!Asks(arguments)' = CL!Asks(arguments)
    BY <1>1 DEF CL!Accepted, CL!Asks
<1>4. CASE Stop
  <2>1. ~cwd_known /\ ~NeedsNothing
      BY <1>4 DEF Stop, StopsWithoutDirectory
  <2>2. ~(CL!Accepted(arguments) /\ CL!Asks(arguments) # {})
      BY <1>2, <2>1 DEF Judged, NeedsNothing, Rejected
  <2> QED
      BY <1>1, <1>3, <2>1, <2>2 DEF Outcome, InOrder, Refused, Based, Documented, Parsed
<1>5. CASE Reject
  <2>1. exit' = InvalidArguments /\ ~CL!Accepted(arguments)
      BY <1>2, <1>5 DEF Reject, Exit, Rejected, Judged
  <2> QED
      BY <1>1, <1>3, <2>1 DEF Outcome, InOrder, Refused, Based, Documented, Parsed
<1>6. CASE Inform
  <2>1. exit' = Success /\ CL!Accepted(arguments)
      BY <1>2, <1>6 DEF Inform, Exit, NeedsNothing, Rejected, Judged
  <2> QED
      BY <1>1, <1>3, <2>1
         DEF Outcome, InOrder, Refused, Based, Documented, Parsed, Success, InvalidArguments
<1> QED
    BY <1>4, <1>5, <1>6

\* Without a name, a place that is looked at is taken.
LEMMA SearchedIsTaken ==
    ASSUME parsed.knowledge_path = Absent
    PROVE  /\ Resolved # Absent
           /\ environment \notin {Absent, ""} => Resolved = environment
<1>1. CASE environment \notin {Absent, ""}
    BY <1>1 DEF Resolved
<1>2. CASE environment \in {Absent, ""}
  <2> DEFINE there == {i \in DOMAIN Searched : Searched[i] \in present}
             place == IF there = {} THEN Len(Searched) ELSE Min(there)
  <2>1. Resolved = Searched[place]
      BY <1>2 DEF Resolved
  <2>2. DOMAIN Searched = {1, 2, 3} /\ Len(Searched) = 3
      BY DEF Searched
  <2>3. there \subseteq {1, 2, 3}
      BY <2>2
  <2> HIDE DEF there
  <2>4. there # {} => \E i \in there : \A j \in there : i <= j
    <3>1. CASE 1 \in there
        BY <2>3, <3>1
    <3>2. CASE 1 \notin there /\ 2 \in there
        BY <2>3, <3>2
    <3>3. CASE 1 \notin there /\ 2 \notin there /\ 3 \in there
        BY <2>3, <3>3
    <3> QED
        BY <2>3, <3>1, <3>2, <3>3
  <2>5. there # {} => Min(there) \in there
      BY <2>4 DEF Min
  <2>6. place \in {1, 2, 3}
      BY <2>2, <2>3, <2>5
  <2> HIDE DEF place
  <2>7. \A i \in {1, 2, 3} : Searched[i] # Absent
    <3>1. /\ Searched[1] = "beside the executable" /\ Searched[2] = "installed"
          /\ Searched[3] = "current directory"
        BY DEF Searched
    <3>2. Absent = "absent"
        BY DEF Absent, CL!Absent
    <3> HIDE DEF Searched
    <3> QED
        BY <3>1, <3>2
  <2> QED
      BY <1>2, <2>1, <2>6, <2>7
<1> QED
    BY <1>1, <1>2

\* The base that is resolved is the one the user names.
LEMMA ResolvedIsNamed ==
    ASSUME arguments \in ArgumentLists, parsed = CL!MeaningOf(arguments),
           CL!Texts(arguments) \in Seq(Strings)
    PROVE  Named(Resolved) /\ Resolved # Absent
<1> DEFINE texts == CL!Texts(arguments)
           given == CL!Value(arguments, CHOOSE i \in Paths : TRUE)
           form == CL!FormOf(arguments)
<1>1. /\ parsed.knowledge_path =
            IF Paths # {} THEN given
            ELSE IF form = "validate" /\ Len(texts) = 2 THEN texts[2] ELSE Absent
    BY DEF CL!MeaningOf, Paths, Absent
<1>2. CASE Paths # {}
  <2>1. given # Absent /\ given \in {CL!Value(arguments, i) : i \in Paths}
    <3>1. (CHOOSE i \in Paths : TRUE) \in Paths
        BY <1>2
    <3>2. \A i \in Paths : CL!Value(arguments, i) # Absent
        BY Positions, ValueIsThere
    <3> QED
        BY <3>1, <3>2
  <2> HIDE DEF given, texts, form
  <2>2. Resolved = given
      BY <1>1, <1>2, <2>1 DEF Resolved
  <2> QED
      BY <1>2, <2>1, <2>2 DEF Named
<1>3. NamedToValidate(texts) <=> form = "validate" /\ Len(texts) = 2
    BY DEF NamedToValidate
<1>4. CASE Paths = {} /\ NamedToValidate(texts)
  <2>1. Len(texts) = 2 => texts[2] # Absent
      BY DEF Strings
  <2> HIDE DEF given, texts, form
  <2>2. parsed.knowledge_path = texts[2] /\ texts[2] # Absent
      BY <1>1, <1>3, <1>4, <2>1
  <2>3. Resolved = texts[2] /\ Resolved # Absent
      BY <2>2 DEF Resolved
  <2> QED
      BY <1>4, <2>3 DEF Named, texts
<1>5. CASE Paths = {} /\ ~NamedToValidate(texts)
  <2> HIDE DEF given, texts, form
  <2>1. parsed.knowledge_path = Absent
      BY <1>1, <1>3, <1>5
  <2> QED
      BY <1>5, <2>1, SearchedIsTaken DEF Named, texts
<1> QED
    BY <1>2, <1>4, <1>5

LEMMA OutcomeResolve ==
    ASSUME RunInv, Resolve PROVE Outcome'
<1>1. /\ Parsed /\ UNCHANGED cli /\ pc' = "load" /\ knowledge_path' = Resolved
      /\ reading = "returned" /\ error = "" /\ parsed.command \notin {"help", "version"}
      /\ options'.json = parsed.json
      /\ UNCHANGED <<arguments, environment, parsed, reading>>
    BY DEF Resolve, Parsed, Rejected, NeedsNothing, TakeOptions, cli
<1>2. /\ CL!Accepted(arguments) /\ CL!Asks(arguments) = {}
      /\ parsed = CL!MeaningOf(arguments) /\ arguments \in ArgumentLists
      /\ CL!Texts(arguments) \in Seq(Strings)
    BY <1>1 DEF RunInv, ParseInv, Judged
<1>3. Named(Resolved) /\ Resolved # Absent
    BY <1>2, ResolvedIsNamed
<1>4. parsed.json = CL!Has(arguments, "--json")
    BY <1>2 DEF CL!MeaningOf
<1>5. /\ Paths' = Paths /\ CL!Accepted(arguments)' = CL!Accepted(arguments)
      /\ CL!Asks(arguments)' = CL!Asks(arguments)
      /\ CL!Has(arguments, "--json")' = CL!Has(arguments, "--json")
      /\ CL!Texts(arguments)' = CL!Texts(arguments)
      /\ CL!FormOf(arguments)' = CL!FormOf(arguments)
      /\ \A i : CL!Value(arguments, i)' = CL!Value(arguments, i)
  <2>1. UNCHANGED arguments
      BY <1>1
  <2> QED
      BY <2>1 DEF Paths, CL!Accepted, CL!Asks, CL!Has, CL!Texts, CL!FormOf, CL!Value
<1>6. Named(knowledge_path)'
    BY <1>1, <1>3, <1>5 DEF Named, NamedToValidate
<1> QED
    BY <1>1, <1>2, <1>3, <1>4, <1>5, <1>6
       DEF Outcome, InOrder, Refused, Based, Documented

\* The stages keep what was asked, and write one document, or text.
LEMMA StageKept ==
    ASSUME RunInv, pc \notin {"start", "exit"}, UNCHANGED <<cli, here, options>>,
           pc' # "start",
           pc' = "exit" => /\ exit' \in {Success, NoConfidentResult, ConfigurationError}
                           /\ Document(stdout', Form)
    PROVE  Outcome'
<1>1. UNCHANGED <<arguments, environment, parsed, reading, knowledge_path, options>>
      /\ knowledge_path # Absent
    BY DEF cli, here, RunInv, Outcome, InOrder
<1>2. UNCHANGED arguments
    BY <1>1
<1>3. /\ Paths' = Paths /\ CL!Accepted(arguments)' = CL!Accepted(arguments)
      /\ CL!Asks(arguments)' = CL!Asks(arguments)
      /\ CL!Has(arguments, "--json")' = CL!Has(arguments, "--json")
      /\ CL!Texts(arguments)' = CL!Texts(arguments)
      /\ CL!FormOf(arguments)' = CL!FormOf(arguments)
      /\ \A i : CL!Value(arguments, i)' = CL!Value(arguments, i)
    BY <1>2 DEF Paths, CL!Accepted, CL!Asks, CL!Has, CL!Texts, CL!FormOf, CL!Value
<1>4. /\ CL!Accepted(arguments) /\ CL!Asks(arguments) = {}
      /\ options.json = CL!Has(arguments, "--json")
      /\ Named(knowledge_path)
    BY <1>1 DEF RunInv, Outcome, Based
<1>5. Named(knowledge_path)'
    BY <1>1, <1>3, <1>4 DEF Named, NamedToValidate
<1>6. InOrder' /\ Refused'
    BY <1>1 DEF RunInv, Outcome, InOrder, Refused
<1>7. Based'
    BY <1>1, <1>3, <1>4, <1>5 DEF Based
<1>8. Documented'
    BY <1>1 DEF Documented, Document, Form
<1> QED
    BY <1>6, <1>7, <1>8 DEF Outcome

\* One item in the form that was asked for, or two items of text.
LEMMA Documents ==
    ASSUME NEW says, NEW ds, NEW listed, NEW out
    PROVE  /\ out = <<>> \o <<Item(Form, says, ds, listed)>> => Document(out, Form)
           /\ Form = "json" <=> options.json
           /\ Form = "text" <=> ~options.json
           /\ ~options.json => Document(<<>>, Form)
<1>1. (Form = "json" <=> options.json) /\ (Form = "text" <=> ~options.json)
    BY DEF Form
<1>2. ASSUME out = <<>> \o <<Item(Form, says, ds, listed)>>
      PROVE  Document(out, Form)
  <2> DEFINE item == Item(Form, says, ds, listed)
  <2>1. item.form = Form
      BY DEF Item
  <2> HIDE DEF item
  <2>2. Len(out) = 1 /\ DOMAIN out = {1} /\ out[1] = item
      BY <1>2 DEF item
  <2>3. Form \in {"json", "text"}
      BY DEF Form
  <2> QED
      BY <2>1, <2>2, <2>3 DEF Document
<1>3. ~options.json => Document(<<>>, Form)
    BY <1>1 DEF Document
<1> QED
    BY <1>1, <1>2, <1>3

LEMMA OutcomeLoad == ASSUME RunInv, Load PROVE Outcome'
<1>1. PICK r \in LoadReports(Messages, 0..MaxEntries) :
          /\ HonestLoad(r)
          /\ knowledge' = r
          /\ IF r.root_available
             THEN pc' = "concepts" /\ UNCHANGED <<stdout, stderr, exit>>
             ELSE /\ Complain(Emitted(r.diagnostics))
                  /\ CASE options.command = "validate" /\ options.json ->
                              Write(Validation(r, NoConcepts, {}))
                       [] options.command # "validate" /\ options.json ->
                              Write(SayDiagnostics("json", "knowledge_unavailable", r.diagnostics))
                       [] OTHER -> UNCHANGED stdout
                  /\ Exit(ConfigurationError)
    BY DEF Load, LoadKnowledge
<1>2. pc = "load" /\ UNCHANGED <<cli, here, options>> /\ stdout = <<>>
    BY DEF Load, LoadKnowledge, RunInv, IInv, NothingYet
<1>3. CASE r.root_available
    BY <1>1, <1>2, <1>3, StageKept
<1>4. CASE ~r.root_available
  <2>1. pc' = "exit" /\ exit' = ConfigurationError
      BY <1>1, <1>4 DEF Exit
  <2>2. Document(stdout', Form)
    <3>2. CASE options.json /\ options.command = "validate"
      <4>1. stdout' = stdout \o Validation(r, NoConcepts, {})
          BY <1>1, <1>4, <3>2 DEF Write
      <4> QED
        <5>1. stdout' = <<>> \o <<Item(Form, ValidationStatus(r, NoConcepts, {}),
                                      r.diagnostics \cup NoConcepts.diagnostics \cup {}, 0)>>
            BY <1>2, <4>1 DEF Validation, SayDiagnostics
        <5> QED
            BY <5>1, Documents
    <3>3. CASE options.json /\ options.command # "validate"
      <4>1. stdout' = stdout \o SayDiagnostics("json", "knowledge_unavailable", r.diagnostics)
          BY <1>1, <1>4, <3>3 DEF Write
      <4>2. stdout' = <<>> \o <<Item(Form, "knowledge_unavailable", r.diagnostics, 0)>>
          BY <1>2, <3>3, <4>1 DEF SayDiagnostics, Form
      <4> QED
          BY <4>2, Documents
    <3>4. CASE ~options.json
      <4>1. stdout' = stdout
          BY <1>1, <1>4, <3>4
      <4> QED
          BY <1>2, <3>4, <4>1, Documents
    <3> QED
        BY <3>2, <3>3, <3>4
  <2> QED
      BY <1>2, <2>1, <2>2, StageKept
<1> QED
    BY <1>3, <1>4

LEMMA OutcomeConcepts ==
    ASSUME RunInv, LoadConcepts, UNCHANGED <<cli, here>> PROVE Outcome'
<1>1. PICK c \in ConceptReports(Messages, 0..MaxEntries) :
        /\ HonestConcepts(c)
        /\ concepts' = c
        /\ EmitLoads(c)
        /\ IF c.usable
           THEN pc' = options.command /\ UNCHANGED <<stdout, exit>>
           ELSE /\ CASE options.command = "validate" ->
                            Write(Validation(knowledge, c, {}))
                     [] options.command # "validate" /\ options.json ->
                            Write(SayDiagnostics("json", "concepts_invalid", c.diagnostics))
                     [] OTHER -> UNCHANGED stdout
                /\ Exit(ConfigurationError)
    BY DEF LoadConcepts
<1>2. /\ pc = "concepts" /\ UNCHANGED <<cli, here, options>> /\ stdout = <<>>
      /\ options.command \in RunCommands
    BY DEF LoadConcepts, RunInv, IInv, KnowledgeThere, CommandTaken
<1>3. CASE c.usable
  <2>1. pc' \in RunCommands
      BY <1>1, <1>2, <1>3
  <2> QED
      BY <1>2, <2>1, StageKept DEF RunCommands
<1>4. CASE ~c.usable
  <2>1. pc' = "exit" /\ exit' = ConfigurationError
      BY <1>1, <1>4 DEF Exit
  <2>2. Document(stdout', Form)
    <3>2. CASE options.command = "validate"
      <4>1. stdout' = stdout \o Validation(knowledge, c, {})
          BY <1>1, <1>4, <3>2 DEF Write
      <4> QED
        <5>1. stdout' = <<>> \o <<Item(Form, ValidationStatus(knowledge, c, {}),
                                      knowledge.diagnostics \cup c.diagnostics \cup {}, 0)>>
            BY <1>2, <4>1 DEF Validation, SayDiagnostics
        <5> QED
            BY <5>1, Documents
    <3>3. CASE options.json /\ options.command # "validate"
      <4>1. stdout' = stdout \o SayDiagnostics("json", "concepts_invalid", c.diagnostics)
          BY <1>1, <1>4, <3>3 DEF Write
      <4>2. stdout' = <<>> \o <<Item(Form, "concepts_invalid", c.diagnostics, 0)>>
          BY <1>2, <3>3, <4>1 DEF SayDiagnostics, Form
      <4> QED
          BY <4>2, Documents
    <3>4. CASE ~options.json /\ options.command # "validate"
      <4>1. stdout' = stdout
          BY <1>1, <1>4, <3>4
      <4> QED
          BY <1>2, <3>4, <4>1, Documents
    <3> QED
        BY <3>2, <3>3, <3>4
  <2> QED
      BY <1>2, <2>1, <2>2, StageKept
<1> QED
    BY <1>3, <1>4

\* A search that is shown in full is two items of text at most.
LEMMA SearchDocument ==
    ASSUME NEW o \in Outcomes, NEW out, out = <<>> \o SearchOutput(o)
    PROVE  Document(out, Form)
<1>0. o.status \in {"confident", "uncertain", "no_match"}
    BY DEF Outcomes
<1>1. CASE options.json
  <2>1. SearchOutput(o) = <<Item("json", o.status, {}, Limited(o.results))>>
      BY <1>1 DEF SearchOutput
  <2>2. Form = "json"
      BY <1>1 DEF Form
  <2> QED
      BY <2>1, <2>2, Documents
<1>2. ASSUME NEW item, item.form = "text", ~options.json,
             out = <<>> \o (<<item>> \o Explained(o))
      PROVE  Document(out, Form)
  <2> DEFINE why == Item("text", "explanation", {}, Limited(o.results))
  <2>1. why.form = "text"
      BY DEF Item
  <2>2. \/ out = <<>> \o (<<item>> \o <<why>>)
        \/ out = <<>> \o (<<item>> \o <<>>)
      BY <1>2 DEF Explained
  <2> HIDE DEF why
  <2>3. \A i \in DOMAIN out : out[i].form = "text"
      BY <1>2, <2>1, <2>2
  <2> QED
      BY <1>2, <2>3 DEF Document, Form
<1>3. CASE ~options.json /\ o.status \in {"confident", "uncertain"}
  <2> DEFINE item == IF o.status = "confident" THEN Item("text", "entry", {}, 0)
                     ELSE Item("text", "suggestions", {}, Limited(o.results))
  <2>1. SearchOutput(o) = <<item>> \o Explained(o)
      BY <1>3 DEF SearchOutput, Say
  <2>2. item.form = "text"
      BY DEF Item
  <2> HIDE DEF item
  <2> QED
      BY <1>2, <1>3, <2>1, <2>2
<1>4. CASE ~options.json /\ o.status = "no_match"
  <2>1. SearchOutput(o) = <<Item("text", "no_match", {}, 0)>>
      BY <1>4 DEF SearchOutput, Say
  <2>2. Form = "text"
      BY <1>4 DEF Form
  <2> QED
      BY <2>1, <2>2, Documents
<1> QED
    BY <1>0, <1>1, <1>3, <1>4

LEMMA OutcomeStages ==
    ASSUME RunInv, Stages, UNCHANGED <<cli, here>> PROVE Outcome'
<1>1. CASE LoadConcepts
    BY <1>1, OutcomeConcepts
<1>2. CASE Validate
  <2>1. PICK l \in SUBSET Messages :
          /\ Write(Validation(knowledge, concepts, l))
          /\ Exit(IF HasIssues(knowledge) \/ ConceptHasIssues(concepts) \/ l # {}
                  THEN NoConfidentResult ELSE Success)
      BY <1>2 DEF Validate
  <2>2. pc = "validate" /\ UNCHANGED options /\ stdout = <<>>
      BY <1>2 DEF Validate, RunInv, IInv, BothThere, RunCommands
  <2>3. pc' = "exit" /\ exit' \in {NoConfidentResult, Success}
      BY <2>1 DEF Exit
  <2>4. stdout' = stdout \o Validation(knowledge, concepts, l)
      BY <2>1 DEF Write
  <2>5. Document(stdout', Form)
      BY <2>2, <2>4, Documents DEF Validation, SayDiagnostics
  <2> QED
      BY <2>2, <2>3, <2>5, StageKept
<1>3. CASE List
  <2>1. /\ pc = "list" /\ UNCHANGED options /\ stdout = <<>>
        /\ pc' = "exit" /\ exit' = Success
        /\ stdout' = stdout \o <<Item(Form, "list", {}, knowledge.loaded_entries)>>
      BY <1>3 DEF List, RunInv, IInv, BothThere, RunCommands, Exit, Write
  <2>2. Document(stdout', Form)
      BY <2>1, Documents
  <2> QED
      BY <2>1, <2>2, StageKept
<1>4. CASE Show
  <2>1. PICK status \in {"ok", "not_found"} :
            /\ Write(Say(Form, IF status = "ok" THEN "entry" ELSE "not_found"))
            /\ Exit(IF status = "ok" THEN Success ELSE NoConfidentResult)
      BY <1>4 DEF Show
  <2>2. pc = "show" /\ UNCHANGED options /\ stdout = <<>>
      BY <1>4 DEF Show, RunInv, IInv, BothThere, RunCommands
  <2>3. pc' = "exit" /\ exit' \in {NoConfidentResult, Success}
      BY <2>1 DEF Exit
  <2>4. stdout' = stdout \o Say(Form, IF status = "ok" THEN "entry" ELSE "not_found")
      BY <2>1 DEF Write
  <2>5. Document(stdout', Form)
      BY <2>2, <2>4, Documents DEF Say
  <2> QED
      BY <2>2, <2>3, <2>5, StageKept
<1>5. CASE Search
  <2>1. PICK o \in Outcomes :
          /\ Write(SearchOutput(o))
          /\ Exit(IF o.status = "confident" THEN Success ELSE NoConfidentResult)
      BY <1>5 DEF Search
  <2>2. pc = "search" /\ UNCHANGED options /\ stdout = <<>>
      BY <1>5 DEF Search, RunInv, IInv, BothThere, RunCommands
  <2>3. pc' = "exit" /\ exit' \in {NoConfidentResult, Success}
      BY <2>1 DEF Exit
  <2>4. stdout' = <<>> \o SearchOutput(o)
      BY <2>1, <2>2 DEF Write
  <2>5. Document(stdout', Form)
      BY <2>4, SearchDocument
  <2> QED
      BY <2>2, <2>3, <2>5, StageKept
<1> QED
    BY <1>1, <1>2, <1>3, <1>4, <1>5 DEF Stages

LEMMA RunInvNext == RunInv /\ [RunNext]_<<cli, app, here>> => RunInv'
<1> SUFFICES ASSUME RunInv, [RunNext]_<<cli, app, here>> PROVE RunInv'
    OBVIOUS
<1>1. ParseInv' /\ IInv'
    BY ParseNext, InvariantNext DEF RunInv
<1>2. CASE Parse
    BY <1>1, <1>2, OutcomeParse DEF RunInv
<1>3. CASE Stop \/ Reject \/ Inform
    BY <1>1, <1>3, OutcomeEarly DEF RunInv
<1>4. CASE Resolve
    BY <1>1, <1>4, OutcomeResolve DEF RunInv
<1>5. CASE Load
    BY <1>1, <1>5, OutcomeLoad DEF RunInv
<1>6. CASE Continue
    BY <1>1, <1>6, OutcomeStages DEF Continue, RunInv
<1>7. CASE Move \/ UNCHANGED <<cli, app, here>>
  <2>1. UNCHANGED <<arguments, environment, cwd_known, parsed, pc, options,
                    knowledge_path, exit, stdout, reading>>
      BY <1>7 DEF Move, cli, app, here
  <2>2. reading' = "arguments" => pc = "start"
      BY <2>1 DEF RunInv, Outcome, InOrder
  <2>3. Outcome'
      BY <2>1, <2>2, OutcomeStays DEF RunInv
  <2> QED
      BY <1>1, <2>3 DEF RunInv
<1> QED
    BY <1>2, <1>3, <1>4, <1>5, <1>6, <1>7 DEF RunNext, Work

THEOREM RunInvariant == RunSpec => []RunInv
<1>1. RunInit => RunInv
  <2> SUFFICES ASSUME RunInit PROVE RunInv
      OBVIOUS
  <2>1. pc = "start" /\ knowledge_path = Absent
      BY DEF RunInit, Init
  <2>2. Outcome
      BY <2>1 DEF Outcome, InOrder, Refused, Based, Documented
  <2> QED
      BY <2>2, ParseStarts, InitHolds DEF RunInv
<1> QED
    BY <1>1, RunInvNext, PTL DEF RunSpec

\* Code 2 is for malformed command lines and nothing else, and help and the
\* version are given wherever they stand before an error.
THEOREM ExitTwoMeansMalformed == RunSpec => []ExitTwoIsMalformed
<1>1. RunInv => ExitTwoIsMalformed
  <2> SUFFICES ASSUME RunInv PROVE ExitTwoIsMalformed
      OBVIOUS
  <2>1. CASE Exited /\ knowledge_path = Absent
      BY <2>1 DEF RunInv, Outcome, Refused, Exited, ExitTwoIsMalformed
  <2>2. CASE Exited /\ knowledge_path # Absent
    <3>1. exit # InvalidArguments /\ CL!Accepted(arguments) /\ CL!Asks(arguments) = {}
        BY <2>2 DEF RunInv, Outcome, Based, Documented, Exited, Success,
                    NoConfidentResult, ConfigurationError, InvalidArguments
    <3> QED
        BY <3>1 DEF ExitTwoIsMalformed
  <2> QED
      BY <2>1, <2>2 DEF ExitTwoIsMalformed
<1> QED
    BY <1>1, RunInvariant, PTL

\* One JSON document on stdout when the arguments ask for it, and only then,
\* from every stage a run with a knowledge base can end in.
THEOREM DocumentsOnRequest == RunSpec => []JsonOnRequest
<1>1. RunInv => JsonOnRequest
    BY DEF RunInv, Outcome, Based, Documented, Document, Form, JsonOnRequest, Exited
<1> QED
    BY <1>1, RunInvariant, PTL

\* A user who names a base gets that base or none, whatever directories come
\* and go between the arguments and the load.
THEOREM NamedBasesAreTaken == RunSpec => []NamedBaseOrNone
<1>1. RunInv => NamedBaseOrNone
    BY DEF RunInv, Outcome, Based, Named, NamedBaseOrNone, Paths
<1> QED
    BY <1>1, RunInvariant, PTL
=============================================================================
