# A verification project for howlinux

howlinux (`src/`) is a command line program that answers questions about the
shell from a directory of hand-written entries. One run of it loads the entries
and a dictionary of synonyms, builds an index, scores the entries against the
query, decides whether the best one is an *answer* or only a *suggestion*, and
writes one document. It has one thread and no server. What is hard in it is not
concurrency inside the program but

* the file system, which other people edit while the loader walks through it,
* the failure of one part of many (one entry, one alias, one directory) that
  must cost exactly that part and must not do so silently,
* several places that compute the same thing in different ways and must agree
  (index and scan, exit code and printed status, lint and renderer),
* thresholds and cut-offs that interact (limit, margin, idf cap, typo scores),
* objects whose `load` may be called again.

The modules here are TLA+ models of those parts, with TLC configurations that
check them on small instances and proofs that TLAPS checks for every instance.

## Inventory of the system

| Component | State | Operations | Correct when | Here |
|---|---|---|---|---|
| **Knowledge loader** `knowledge.cpp` `KnowledgeBase::load`, `loadEntry`, `rebuildLookup`, `findById` | `entries_`, `id_lookup_`, `report_`; during a load the queue of directories, the candidates, the counters | scan breadth first, probe each directory for the two files, validate and read each candidate, sort, index, check references | the counters add up, nothing is left out silently, good entries survive defects elsewhere, lookups lead to the right entry | `KnowledgeLoad` |
| **Authoring lint** `knowledge.cpp` `lint`, `lintMarkdown`, `lintMarkdownLinks` | during a call the owners of aliases, the sets of one entry, the concepts used; the open fence | walk entries, aliases, keywords, related ids; walk the lines of an answer | it reports exactly what its rules say whatever the order, and a clean report means what an author takes it to mean | `Lint`, `Markdown` |
| **Concept dictionary** `concepts.cpp` | `phrase_to_canonical_`, `definitions_`, `report_` | `load`, `detect`, `canonicalForPhrase` | all or nothing, independent of the order in the file, detection loses nothing | `Concepts` |
| **Query processor** `query.cpp` | `known_commands_` | tokenize, find phrases and concepts, guess the query type | index, lint and query take texts apart alike; nothing of the text is lost | `Tokens`, `Phrases`, `Search` |
| **Inverted index** `index.cpp` | `documents_`, `postings_`, `idf_`, `vocabulary_`, thread-local rows of the edit distance | build, `candidates` (direct and by typo), `idf`, `damerauLevenshteinDistance` | no entry that would score is missed; the distance does not depend on earlier calls | `Search`, `EditDistance` |
| **Search engine and policy** `search.cpp` | references to the base and the index | `search`, `score`, `ResultPolicy::decide` | an answer is the best by the margin, whatever the limit | `Search` |
| **Command line** `cli.cpp` | during a parse the position, `parse_options`, `force_implicit_query`, the positional words | parse, resolve the knowledge path | every argument list has one meaning or one error; a base the user names is not replaced | `CommandLine`, `Program` |
| **Application** `app.cpp`, `main.cpp` | the reports of one run | run one command | exit code, stdout and stderr tell the same story | `App`, `Program` |
| **Renderer** `render.cpp` | none | one function per kind of output, `escapeJson`, `humanSafe` | what is printed agrees with the exit code; the limit holds; a JSON reader gets back what was written | `App`, `JsonText` |
| **Markdown renderer** `markdown.cpp` | fence and pending paragraph while rendering | render lines | the answer is preserved; it agrees with the lint about fences | `Markdown` |

How they interact: `runApplication` calls the loader, then the dictionary, and
hands both *reports* to the renderer and to the choice of the exit code. The
index reads the entries of the loader and the definitions of the dictionary
once; the engine keeps references to both and to positions in the vector of
entries. The lint reads the entries. No component calls back.

The hazards that follow from this are listed one by one, with their lines, in
`PROJECT.json`; each names the properties that would catch it.

## The modules

```
Reports      what a load report is and what its readers rely on
StdSort      std::sort by its contract
Phrases      sequences of words: deduplication, phrase comparison, detection

KnowledgeLoad    the loader and the author               (Reports, StdSort)
Concepts         the dictionary                          (Phrases, Reports)
Lint             the lint of a list of entries           (Phrases)
Markdown         lintMarkdown and renderMarkdown over one document
Tokens           from characters to words and the query type  (Phrases)
Search           index, query, scores, order, policy     (Phrases, StdSort)
BoundedDistance  what callers of the edit distance rely on
EditDistance     the edit distance cell by cell; implements BoundedDistance
JsonText         escapeJson, decodeUtf8, humanSafe
CommandLine      the parse of the arguments
App              the stages behind the options           (Reports)
Program          main: CommandLine, the choice of the directory, App

Phrases_proofs   recursion, sums, walks, deduplication, detection: lemmas for the others
KnowledgeLoad_proofs, Concepts_proofs, Search_proofs, Program_proofs, Lint_proofs,
Text_proofs (of EditDistance and Tokens),
Rendering_proofs (of Markdown and JsonText)    theorems, for all constants
MC*              the instances that TLC checks
```

The seams between the modules:

* `Reports` lies between the loaders and the application. `KnowledgeLoad` and
  `Concepts` show that their reports are honest (`HonestLoad`, `HonestConcepts`);
  `App` takes *any* honest report, so it covers more reports than a composition
  with the loaders would produce, and depends on nothing else about them.
* `Program` instantiates `CommandLine` (`pc <- reading`, `options <- parsed`) and
  extends `App`: one run is a parse, the choice of a directory, and the stages,
  while directories appear and vanish around it.
* `Detected` of `Phrases` is what `Search` and `Lint` know of the dictionary;
  `DetectionIsMaximal` shows that the walk of `ConceptDictionary::detect`
  computes it.
* `Search` takes the edit distance as a table; `EditDistance` is the code that
  fills it in.
* `Lint` takes what `lintMarkdown` finds as a set of kinds per entry; `Markdown` is
  that scan.

### KnowledgeLoad

`load()` as a sequence of visits of the file system, with `pc` naming the loop
it is in:

| `pc` | Code | Actions |
|---|---|---|
| `idle`, `done` | before and after a call | `Begin` clears what an earlier load left |
| `root` | the status of the root | `InspectRoot` |
| `scan` | the breadth-first loop | `VisitDirectory`, `CannotList`, `BreakListing`, `InspectChild`, `FollowLink`, `EndScan` |
| `probe` | which directories hold one of the two files | `Probe`, `EndProbe` |
| `load` | the candidates in path order, and the end of load() | `SkipShallow`, `ValidateFiles`, `Publish` |
| `meta`, `content` | `loadEntry` between its reads | `ReadMetadata`, `ReadContent` |

The variables `directories`, `directory_index`, `candidates`, `entries`,
`id_lookup` and `report` are those of the code (`entries_`, `id_lookup_`,
`report_`). `link` is the child that the first status call found to be a link, until
the second, which follows it, has told whether it leads to a directory. `tree` is the
disk. Between any two steps the author may take an
`Edit` step that turns one path into something else: a directory appears,
vanishes, becomes a link or a file, cannot be listed, fails in the middle of
its listing; one of its two files vanishes, cannot be read, or changes its
content. `touched` records, for the properties only, what was edited since the
load began.

Data that is abstracted: a path is a number in path order; what the YAML parser
and the field checks make of `meta.yaml` is one verdict (`unreadable`,
`rejected`, or `accepted` with an id, related ids and whether a warning of its own
was added); `content.md` is unreadable, blank or text; diagnostics are a set of
(path, severity, subject), without wording, order or multiplicity. A vector that
the code sorts and then walks (`candidates`, the children of a directory) is a
set that is walked from its smallest member. The two files of an entry are not
inspected as children of the scan.

### Concepts

`load()` reads the file in one step (`Begin`: what is wrong with the file as a
whole), then one group per `ParseGroup`, then maps the aliases of one group per
`MapAliases`, in the order of canonical names as the code's `std::map` has them,
and decides in `Finish`. `detect()` walks along a text (`Match`, `Advance`,
`Answer`). Phrases are numbers in string order with a spelling. The depth-first
search for cycles appears by what it decides: a cycle exists when a set of
groups leads only into itself.

### Search

One query from the construction of the index to the verdict of the policy:
`BuildDocuments`, `WeighWords`, `ProcessQuery`, `FindCandidates`, one
`ScoreCandidate` per candidate, `Rank` (sort and truncate), `ApplyPolicy`.
Every term of the score is there with its weight. Scores are hundredths
(integers); the logarithm of the inverse document frequency is the table `Idf`;
the edit distance is the table `Distance`, of which only one fact is assumed: it
is at least the difference in length, which makes the length buckets of the
vocabulary redundant. Words are opaque and stopwords are left out. The type of an
entry and its declared intents are one set. The cap on near words
(`FuzzyMatchLimit`, 32 in the code) is 1 in the run, so that a word with two
neighbours reaches it. The near words come from hash tables, in no order; the sort and
the cut are modelled by their contract (`Cuts`): as many as the limit allows are
kept, and none that the comparison (`Closer`) puts behind one that is left out. Which
ones `FindCandidates` keeps is then open unless the comparison decides it.

### EditDistance

`damerauLevenshteinDistance` one cell per step (`FillCell`), one action for each
return: `CallAtOnce` (equal words, lengths too far apart), `GiveUp` (the least number
of a row exceeds the maximum), `Return`. The rows `previous_previous`,
`previous`, `current` are thread-local: a call resizes them and finds in them
what earlier calls left, which is why a run asks two questions in a row.
`RotateRows` is the pair of swaps at the end of a row. The reference,
`IsAlignment`, is the recurrence without rows, as a constant with an assumption
(`MCEditDistance` computes it). The recurrence is compared in turn with the words that
single edits make of a word (`OneEdit`, `Within`; `OneEditIsNear`,
`NearWordsAreNear`). The distance is the one in which no stretch is edited twice:
*ca* and *abc* are three apart, not two.

`BoundedDistance` is the abstract specification: a question is asked, and the
reply is the distance if it is at most the maximum, and otherwise any greater
number. `EditDistance` implements it under the identity on `asked` and `answer`
(`IsBoundedDistance`); filling cells is a stutter.

### CommandLine and Program

`CommandLine` is the loop of `parseCommandLine`, one argument per step (`Terminator`,
`Immediate`, `Flag`, `Knowledge`, `Limit`, `UnknownOption`, `Positional`), and then
one action per command. Arguments are strings; constants say which look like
options, which carry their value behind `=`, and which are numbers. The second
half of the module is a reference that has no loop and no flag: the `Role` of every
position, and from it the one meaning of the list. Lists with text behind `--` after
`list`, `show` or `validate` (`Disputed`) have none: see the disagreements below.

`Program` is `main` and `runApplication`: `Parse`, then `Stop` (no current directory),
`Reject`, `Inform` (help, version), or `Resolve`, `Load` and the stages of `App`.
`Move` makes a directory appear or vanish between any two steps. In `App` stdout
and stderr are sequences of items (JSON or text, what it says, which diagnostics
it holds, how many results it lists), and the results of loaders, lint and
search are any that their modules allow. An exception that escapes to the handler
in `main` is not modelled.

### Lint and Markdown

`Lint` is `KnowledgeBase::lint` item by item: `StartEntry`, `Alias`, `EndAliases`
(the similar pairs), `Keyword`, `EndKeywords`, `Related`, `EndEntry`, `Concepts`. Its
local sets are one variable `local`, cleared where the code declares the next
one. The id, the title and the command of an entry are fields of their own, from which
the lint (`CollectedTexts`) and the index (`IndexedConcepts`) each collect. A finding is its kind, the entry and what it names. `Expected` is the
reference: what each rule says of an entry, without an order.

`Markdown` runs `lintMarkdown` and then `renderMarkdown` over one document. A line
is what either scanner asks of it: leading spaces, a tab behind them, what its
text begins with, the marks of a fence and what follows them, its links (each
with the verdict of `lintMarkdownLinks`). The output is a sequence of blocks with
the numbers of the lines in them.

### Tokens

`lexicalTokens` with one step per chunk, redirection or separator, then
`tokenize`, `buildPhrases`, the known commands and `detectType` in one step
(`Process`). `KnownCommands` is what the constructor makes of the index's command tokens:
each is tokenized and joined once more and dropped when nothing is left. A character is a string of length one; bytes above 127 are letters, as
in the code. Stopwords and question words are constants, so that a run can use
words of one letter. Punctuation inside a word (`appendDotAware`, flags, trailing
dots) is there in full.

### JsonText

`escapeJson` with one step per byte or character it consumes, over byte sequences
that need not be UTF-8. What the output means to a JSON reader and which bytes
form a character are defined independently, from the encoding of code points.
`humanSafe` is a function of single bytes.

## What the runs check

| Run | Question | Bounds |
|---|---|---|
| `knowledge_load` | Does a load stay honest and complete while the tree is edited? Does a second load show anything of the first? Does a load return? | two categories, three entries, the healthy tree and one for each of 26 defects; one load with two edits at any moments, or two loads with one edit |
| `concepts` | Is a file accepted exactly when it is well formed? Does a rejected one leave anything of an earlier one? Does detection find all it can? | every file of up to two groups from 30, any two in a row; texts of up to four words over overlapping phrases |
| `search` | Do index, limit and policy agree with a scan of the whole catalog? | 400 catalogs of up to three entries, 13 queries, limits below and above two |
| `program` | Does every argument list mean what its positions say? Do exit code, stdout and stderr agree? Which directory is loaded? | every list of up to three of 18 arguments and of four of nine; behind 157 of up to two arguments and twelve longer ones, every honest report with up to two entries and two diagnostics, over six sets of directories, one of which changes |
| `edit_distance` | Is the answer the distance, whatever the rows held? | words of up to three of three letters, some of four; maxima 1 and 2; one call behind another |
| `markdown` | Is no line of the answer lost or moved? Do lint and renderer see the same fences and links? | every document of up to three of 17 lines, and of up to five of six lines |
| `lint` | Does the walk report what the rules say? What does a clean report mean? | one entry with up to three aliases or keywords, two entries with up to two, three with one, related ids between three |
| `json_text` | Does a JSON reader get every character back? | strings of up to five bytes, with a byte from each side of every limit of UTF-8 |
| `tokens` | Are tokens stable, complete, independent of their surroundings? Are commands recognized? | texts of up to four of nine characters, five of six, six of five; sentences of up to three of 13 words, of seven of two |
| `search_typo`, `search_rare_word`, `search_repeated_word` | one sentence of the documents each, see below | one catalog each |

The bounds are small because the interesting cases are: two edits suffice to
change a path after each of the two looks the loader takes at it (listed, then
inspected; checked, then read) and to change it back; two loads, to find the
state the first one left; three entries, for a duplicate id, a reference forwards
and one backwards, and a sort that moves entries, since ids run against path
order; three results are one more than the policy looks at. Of arguments, four
hold an option, its value, a terminator and a word in any order. A transposition
reaches two rows back, so words of three and four letters have a row before, in
and after one, and rows of a longer word to be stale. Five lines hold a fence, a
line in it, a wrong close, a close and a line behind it. Six characters hold two
dots inside a word and something around them; seven words exceed the longest
phrase that `buildPhrases` makes.

The properties that carry the weight:

* `SkipsAreDiagnosed`, `ReportIsHonest`, `CleanReportIsComplete`: nothing is
  left out in silence. The exit code of `validate` looks only at diagnostics, its
  rendered status also at the counters, so they must imply each other.
* `GoodEntriesSurvive`: an entry that is well formed and left alone during the
  load is found, whatever is wrong or edited elsewhere.
* `LookupExact`, `RelatedJudgedOnWholeBase`: what depends on the order of sort,
  lookup and reference check.
* `ReportIsHonest` of `Concepts`: the report counts what the dictionary holds.
* `AcceptsWellFormed`: the code's sequential checks accept exactly what an
  order-free definition of a well-formed file accepts. `CyclesAreCollisions`
  shows that the cycle search never decides.
* `DetectionIsMaximal`: greedy detection loses no phrase that does not overlap
  one it found, and is the function the other modules use.
* `IndexIsExhaustive`, `AnswerIsJustified`, `ResultsAreTheBest`: `search()` is
  compared with a scan of the whole catalog that knows no index and no limit.
  `IndexIsExhaustive` also says that the near words that are kept are the nearest, so
  that nothing depends on the order of a hash table.
* `IsBoundedDistance`: the distance computed in reused rows with an early exit is
  the distance.
* `MeaningIsPositional`: one pass with flags and early returns decides what the
  positions of the arguments decide together.
* `NamedBaseOrNone`, `ExitTwoIsMalformed`, `JsonOnRequest`: from argv to the end of a
  run, through the parse, the choice of the directory and the stages. The base is the
  option's, without one the argument of `validate`, without both the environment's.
* `ExitCodeMatchesOutput`, `ValidateVerdictMatchesExit`, `NothingSwallowed`: on every
  path.
* `FindingsAreExact`, `UnusedMeansUnindexed`, `CleanMeansUnambiguous`: the lint
  against its rules and against the index it is meant to protect.
* `AnswerIsPreserved`, `ScannersAgree`: two scanners for one language of fences.
* `TokensAreStable`, `NothingIsLost`, `SpaceSeparates`, `CommandsAreRecognized`: texts are
  joined and taken apart again in four places.
* `MeaningIsPreserved`, `LinesStayWhole`: text that is no UTF-8 costs the bytes that
  are wrong and no others.

Each property of a passing run has a mutant in `PROJECT.json`: a plausible slip
in one mapped definition that the property catches. The mutated forms stand in
the modules before the definitions they vary and are marked as mutants.

### Disagreements with the documents

Three runs expect a violation; each shows one sentence of the documents that the
code does not keep.

* `search_typo`: `requirements.md:195-198` says a fuzzy match "remains weaker than
  an exact match". A typo of a word that only the aliases hold earns 8.00
  (`search.cpp:183`), the word itself between 6.00 and 10.50, and less than 8
  whenever it is common. In the run the misspelt query finds what the correctly
  spelt one does not.
* `search_rare_word`: `README.md:326-327` and the comment at `search.cpp:37-38` say
  that an isolated rare word does not become a confident answer. The cap bounds
  each component; one word that is keyword, title and concept earns all of them.
* `search_repeated_word`: `requirements.md:165` asks to "preserve token sequence for
  phrase detection". `search.cpp:117` compares with the deduplicated query, so a
  repeated word hides an alias that the query spells out.

Other differences met while modelling, for which there is no run of their own:

* `--` is documented as "treat the rest as query text" (`README.md:195`, and the help
  at `cli.cpp:261`), but behind a word it only ends the options: `list -- x` is
  still the command `list` (`cli.cpp:69`). `MeaningIsPositional`, `ExitTwoIsMalformed`
  and `NamedBaseOrNone` leave lists with text behind `--` after `list`, `show` or
  `validate` out (`Disputed`).
* A malformed command line exits with 3 instead of 2 (`README.md:236`) where the
  current directory cannot be determined (`main.cpp:32`). `ExitTwoIsMalformed` says
  so (`cwd_known`).
* The lint is to report unclosed fences (`requirements.md:82`). A fence behind a tab
  is one to the renderer and none to the lint; a fence with a backtick in its
  language is one to the lint and none to the renderer (`knowledge.cpp:192`,
  `markdown.cpp:180`). `ScannersAgree` leaves such lines out.
* The lint is to report aliases that collide after search normalization
  (`requirements.md:77-78`), but does not drop repeated words as the index does
  (`knowledge.cpp:51`): *folder remove folder* and *folder remove* are one alias to
  the index. `CleanMeansUnambiguous` leaves such aliases out.
* Redirection operators are to be retained (`requirements.md:163-164`); only those
  with a file descriptor are (`query.cpp:175`), a bare `>` is a separator.

## Fairness

`KnowledgeLoad`, `Concepts` and `Program` assume weak fairness of the call in
progress (`WF_vars(Load)`, `WF_vars(Work)`, and `Work` of the whole run): the program
has one thread, and once `load()`, `detect()` or `main` is called nothing but the
operating system stops it. Nobody has to call, the author has to edit nothing,
and no directory has to move. The other modules state safety only; their runs to
the end are bounded by construction.

## What is proved

The theorems hold for every value of the constants under the assumptions that
the modules name (`ASSUME`), which TLC evaluates for the instances.

| Module | Theorem | Property |
|---|---|---|
| `KnowledgeLoad_proofs` | `TypeCorrectness` | `TypeOK` |
| | `ReportsAreHonest` | `ReportIsHonest` |
| | `LoadsFailAsAWhole` | `AvailabilityIsErrorFree` |
| | `LookupsAreExact` | `LookupExact` |
| | `SkipsHaveDiagnostics` | `SkipsAreDiagnosed` |
| | `GoodEntriesAlwaysSurvive` | `GoodEntriesSurvive` |
| | `CleanReportsAreComplete` | `CleanReportIsComplete` |
| | `ReferencesJudgedOnWholeBase` | `RelatedJudgedOnWholeBase` |
| `Text_proofs` | `TypeCorrectness` | the rows and the cursor |
| | `Implements` | `IsBoundedDistance` |
| | `NoWordIsFartherThanItLooks` | `NearWordsAreNear` |
| | `OneEditIsSeen` | `OneEditIsNear` |
| | `TokensStayTokens` | `TokensAreStable` |
| | `NoCharacterIsLost` | `NothingIsLost` |
| | `SpacesSeparateTokens` | `SpaceSeparates` |
| | `CommandsAreKnown` | `CommandsAreRecognized` |
| `Concepts_proofs` | `ReportsAreHonest` | `ReportIsHonest` |
| | `RejectedFilesAreEmpty` | `RejectedFileIsEmpty` |
| | `CyclesNeverDecide` | `CyclesAreCollisions` |
| | `WellFormedFilesAreAccepted` | `AcceptsWellFormed` |
| | `DetectionMissesNothing` | `DetectionIsMaximal` |
| `Search_proofs` | `IndexLosesNothing` | `IndexIsExhaustive` |
| | `ResultsAreBest` | `ResultsAreTheBest` |
| | `AnswersAreJustified` | `AnswerIsJustified` |
| `Program_proofs` | `ExitCodesMatch` | `ExitCodeMatchesOutput` |
| | `VerdictsMatch` | `ValidateVerdictMatchesExit` |
| | `DiagnosticsReachTheUser` | `NothingSwallowed` |
| | `ArgumentsHaveOneMeaning` | `MeaningIsPositional` |
| | `ExitTwoMeansMalformed` | `ExitTwoIsMalformed` |
| | `DocumentsOnRequest` | `JsonOnRequest` |
| | `NamedBasesAreTaken` | `NamedBaseOrNone` |
| `Lint_proofs` | `CleanReportsAreUnambiguous` | `CleanMeansUnambiguous` |
| | `UnusedConceptsAreUnindexed` | `UnusedMeansUnindexed` |
| | `FindingsAreThoseExpected` | `FindingsAreExact` |
| `Rendering_proofs` | `AnswersArePreserved` | `AnswerIsPreserved` |
| | `TheScannersAgree` | `ScannersAgree` |
| | `LintInvariant` | what `lintMarkdown` has reported at each line |
| | `EscapingTellsAll` | `MeaningIsPreserved` |
| | `HumanTextStaysWhole` | `LinesStayWhole` |

**Phrases_proofs** holds what the others keep needing.

* A function defined by recursion along a rank exists and has the value it is
  defined to have (`Ranked`, `RankInduction`, `Recursion`, `RankedRecursion`), and from
  that what sums, `FoldLeft`, `FlattenSeq`, `Deduplicated` and `Detected` compute. The
  induction theorems of the library take an operator as a parameter, which no
  prover here can instantiate; the same inductions are made from the least number
  of a set (`LeastNumber`) that would be a counterexample.
* `Spread` replaces each element of a sequence by a sequence, and distributes over
  concatenation (`SpreadConcat`).
* A scanner that at each place writes a unit and goes on further right is a `Walk`:
  it exists (`WalkExists`), and when two texts agree over a stretch, their walks write
  the same over it (`WalkWindow`).

**KnowledgeLoad**, for every set of paths, every tree, every set of edits and any
number of edits and loads. The theorems rest on `PathsAssumption` (finitely many
paths, numbered so that a parent comes before its children), `IdsAssumption` and
`TreesAssumption` (what is on disk is one of the nodes described above), and on
the contract of `std::sort` (`Sortings`). None of the promises is inductive: each
speaks of a load that has returned.

* `Accounting` adds the balance at every earlier stage: while entries are loaded,
  discovered = loaded so far + skipped + pending + the one in hand; the root is
  available from the first listing on; nothing but warnings is reported before
  the load ends. The early returns (`FailRoot`) are only possible while all
  counters are still zero, which is why they leave an honest report.
* `Indexing` adds that the ids of `entries` are distinct from the start and that
  the lookup is empty until `Publish`. `SortingProperties` shows that a sort
  only permutes, `SortedStrictly` that distinct ids come out in ascending order,
  `LookupOfType` that the first position of an id exists.
* `Explaining` adds that a candidate which is neither pending, nor in hand, nor
  loaded, is already explained. For `Publish` it needs that the permutation of
  the sort is onto, so that no entry is lost in it.
* `Finding` says what the scan has yet to find: a directory it owes the base a look
  at (`Promised`: left alone, and reachable, or at least there while nothing has
  been complained of) has been listed as soon as its parent has been visited, is in
  the queue once the scan has ended, and is a candidate once the probes have.
  `Surviving` carries a good entry from there: it waits, is in hand, or is in the
  base under its id, from its own directory or an earlier one. What an author
  does elsewhere is `Undisturbed`: a directory that is left alone *with all above
  it* looks after each step as it did before. `KindOf` and `Reachable` recur along
  the path to the root, so each step argues by induction over that path.
* `Judging` adds that before `Publish` no reference has been judged, and that no
  two entries come from one directory, so that a complaint about a reference
  belongs to one entry.

**EditDistance**, for every alphabet, words of every length, every maximum, and any
number of calls. `Implements` is a refinement: initial states map to initial
states, and every step is a step of `BoundedDistance` or a stutter. The invariant
says what the rows hold at each moment: `FinishedRows` that `previous` and
`previous_previous` are the rows of the alignment before the one in hand, over the
columns of this call, and `StartedRow` that `current` is its row up to the column
reached, with its least number in `row_minimum`; of anything else a row may hold
nothing is assumed, which is how stale values drop out. What makes the early exit
right is `RowsGrow`: when a row has nothing at or below the maximum, neither has any
later one. A transposition reaches over that row to the one before it, but what it
finds there is at most one less than the cell below (`RowBelow`). `Diagonal` is for
the early return of equal words. The induction over cells is an argument by the
first cell that is otherwise (`FirstCell`).

What that distance means is proved from the recurrence. `TableCountsEdits` is an
induction over cells: a cell that holds 0, 1 or 2 belongs to prefixes that so many
edits turn into each other (`NearBy`). It uses that an edit of a prefix is an edit of
the longer word (`EditsBeforeTheEnd`) and that the last letter is an edit of its own
(`EditsAtTheEnd`). Conversely, `OneEditCostsOne` follows one edit through the table: up to
its place the diagonal holds 0, and from there on `Slide` carries the 1 to the end.
`Returned` adds to `IInv` that an answer other than maximum + 1 is the distance.
The theorem goes one way only: three edits are as far as the table may put words
that two reach (*ca*, *abc*). `NoWordIsFartherThanItLooks` assumes `Maxima \subseteq 0..2`, since the reference has no sets
for three edits; the code passes 1 (`knowledge.cpp:68`) and 1 or 2 (`index.cpp:194`).

**Tokens**, for every alphabet and every text over it. `AlphabetAssumption` says that the
kinds of characters are apart and that lower case changes letters into letters
and nothing else. What `lexicalTokens` makes of a text is the walk `LexedFrom` (its units
are the tokens of a chunk, a redirection or nothing); `Progress` says that the output so
far, followed by what the walk makes of the rest, is what it makes of the whole.

* `SpacesSeparateTokens`: a text around a space is two windows (`Window`), each of which
  the walk passes as if it stood alone (`WindowTokens`, `SpaceSplits`), since no chunk
  and no redirection reaches over a space.
* `NoCharacterIsLost`: `Kept` says that the letters and digits of the output are those of the
  text passed, in lower case and in order. Within a chunk, the characters that are kept
  are cut into runs, so nothing but separators falls between two tokens.
* `TokensStayTokens`: a token, tokenized again, is itself (`Stable`). A redirection or a flag
  is one token when it stands alone; a part of a chunk is a `Run` of kept positions, and
  a position that is kept in the chunk is kept in the run, because the dots that
  decide about it lie between the same neighbours.
  With the spaces between them, the windows of `SpacesSeparateTokens` give the rest.
* `CommandsAreKnown`: the constructor of the query processor takes the tokens of the
  index apart once more and joins them; because tokens are stable, it keeps each as it
  is (`TakenApartOnce`). The first token of a text that starts with a command is that of
  the command (`CommandComesFirst`), the filter of stopwords keeps it first
  (`FirstStays`), and the joined query starts with it (`StartsWithFirst`). Conversely, a
  known command that the joined query starts with, up to a space, is its first token
  (`FirstIsCommand`): the same window, read the other way.

**Concepts**, for every file and any number of loads, and for every text
(`PhrasesAssumption`: phrases have different spellings, none of them empty).

* Until `Finish` nothing is published (`NothingPublished`), so an early return leaves
  an empty dictionary and a report that says so. `NamesClaimedFirst` is why a cycle
  is a collision: all canonical names are claimed before any alias, hence a group
  that claims another's name has been reported by the time the cycle is looked
  for.
* `Accepting` is acceptance both ways. While members are parsed, an empty report
  means that those so far are well formed and that `groups` is what they say
  (`Parsing`); while aliases are mapped, that `phrases` is exactly what the mapped
  groups claim (`Mapping`), whatever the order of the names. Conversely a
  well-formed file never gives a reason to complain (`Reading`).
* `Counted` is the count of the report against the dictionary that is published. At
  `Finish` the phrases lead onto exactly the canonical names, one for each group, which
  rests on `Accepting`; an early return leaves both empty.
* `Detecting` is the walk of `detect`: the matches so far are longest phrases at their
  places, disjoint, and every place passed that starts a phrase lies within one of
  them; and the matches so far followed by what the recursion `Detected` says of
  the rest of the text are what it says of the whole. At the end the rest is empty.

**Search**, for every catalog in ascending order of id, every dictionary, query,
limit and cap on near words. The assumptions are those of the module: a word's
rank identifies it, the edit distance is at least the difference in length, a
phrase means one concept and has at least one word, an entry has finitely many
aliases and keywords, and the frequency table is defined up to the size of the
catalog, with natural numbers. The aliases of an
entry are a set here: `search()` asks only whether one of them matches. The
invariant `IInv` says what each stage leaves to the next: `IndexBuilt` that the
documents and weights are those of the catalog, `QueryProcessed` that the
candidates are those found for this query, or nothing was asked, `Scored` that
each candidate no longer to do with a meaningful score stands among the results
once, `Ranking` that the results ascend strictly and that a hit left out is
outranked by all of a full list. That the posting lists miss no entry is
static: an entry that scores shares a word or a concept with the query and is
therefore in one of the lists that `Candidates` joins. `CutIsNearest` shows that
whatever the sort and the cut leave is the nearest words: those ahead of a word
that is kept are kept too, and so fewer than the limit, while all that are kept, as
many as the limit, are ahead of one that is not. The verdict of the policy reads
the first two results; since at least two are kept whatever the limit, they are
the first two of the whole catalog (`AnswersAreJustified`).

**Program**, for all arguments, surroundings, reports and outcomes, under
`ArgumentsAssumption` (the options of the usage text begin with a dash and have no
`=` in them; the empty string is not a number) and `AbsentAssumption` (the marker for
"no value" is no string that anybody types).

* `IInv` says what each stage finds from those before it: an empty stdout, a
  report that is honest, and on stderr, for every command but `validate`, the
  diagnostics of both loads. `CommandKnown` carries the commands through the parse.
* `ParseInv`: while the loop is at argument `index`, everything it has set is a function
  of the positions before it (`Passing`): the flags stand there, `positional` holds
  the words there in order (`Collected`, counting by cardinality), the limit is the
  value of the last `--limit`, `parse_options` and `force_implicit_query` say whether and
  where a `--` stood, and nothing before it asks for help or is an error. The roles
  of the reference are a recursion over the positions; a step of the loop unfolds
  it once or, for an option with its value, twice. `Judged` says what is fixed when the loop
  returns early, and `AtEnd` what the choice of the command makes of the words.
* `RunInv` adds `Outcome`: a run that takes no base failed for its arguments, for
  want of a current directory, or only informs (`Refused`); one that takes a base
  takes the one that was named (`Based`), and ends with one document in the form
  that was asked for and without exit code 2 (`Documented`).

**Lint**, for every dictionary, every list of entries in ascending order of id, and
every symmetric set of pairs of phrases one edit apart (`LintAssumption`; that a base
is in this order is `LookupsAreExact`).

* `AliasesAreOwned` says that as long as nothing is found, every alias the walk is past
  belongs to the entry it stands in; that the first owner of an alias keeps it
  (`FirstOwnerStays`) preserves it. Two entries of a clean report that share an
  alias then have one id, and are one.
* `UsedSoFar`: `used_concepts` are the concepts of the texts that the walk is past, and no
  concept is reported before the end. What the lint counts as use and what the
  index makes postings of are the same texts taken apart by the same detection.
* `FindingsAreThoseExpected` needs three books. `Says(i, s, k)` is what is to be said at the
  `k`-th place of stage `s` of entry `i`, from the entries alone; `SaidSoFar` that the
  findings are what is said at the places the walk is `Past`. For that a step must
  find in its sets what `Says` presupposes: `HandBook` that `local` and `normalized`
  are the earlier items of this stage, cleared in time; `OwnerBook` that `owners` leads
  each alias met so far to the first entry of the whole list that has it. Since
  entries come in ascending order, that is the least id, which is how the
  reference defines an owner. The lemma `SaysAreExpected` shows, without any step,
  that what is said at the places of an entry is what is `Expected` of it: the same
  item is said about at several places only if it is the same finding. `CountInv`
  compares the counters with partial sums of the lengths.

**Markdown**, for every document over the lines described above; `DocumentsAssumption`
says no more, and in particular documents are of any length. Of a line it is assumed
that a blank one has no links.

* `RenderInv`: the lines of the blocks written and of the paragraph in hand ascend,
  and all are behind the rendering (`Written`); of the lines passed that show up
  nowhere, `HiddenYet`, the number is odd exactly inside a fence, and the last of them is
  then its opening line (`Fenced`); each hidden line opens or closes a fence rightly,
  and each shown one is code exactly when it lies between (`RenderedRightly`).
* `LintInv`: `open_fence` before a line is a function of the document (`Scan`, a recursion
  over the lines), and the diagnostics are the links of the lines so far that stand
  outside of fences.
* `TheScannersAgree` compares the two from line to line (`SideBySide`): for documents of
  plain lines, `Scan` before a line is the fence that the hidden lines before it leave
  open.

**JsonText**, for every sequence of bytes.

* Which bytes form a character is defined by encoding a code point; the code decides it by
  a table of ranges. `OneByteCharacter` to `FourByteCharacter` show that the table accepts
  exactly the encodings, so `CharacterAt` may replace the one by the other. The
  arithmetic is that of digits in base 64.
* What a string means and what a JSON reader makes of a text are both told from the front
  (`MeaningFront`, `ReadingFront`): a character first, then the rest. For the meaning
  this needs that characters do not overlap; for the reader, that it is a walk.
* `EscapeProgress` is the invariant. The output so far must be complete: *whatever* text
  follows it is read as what the input so far means, and then as itself (`Told`).
  Output that ended within an escape would not have this. There is one lemma for each
  action: `AsciiTells`, `BrokenTells`, `CharacterTells`.
* `HumanTextStaysWhole` needs no step. The escapes of `humanSafe` are text of one byte per
  character, and hide behind what follows (`Hides`); bytes above 127 stay (`BeyondStays`).
  `HumanKeepsCharacters` puts well-formed text together from its characters, by its
  length.

## What is only model-checked

* `LoadReturns`, `CallsReturn`, `RunsEnd`: liveness is out of reach of this prover, and so
  is the `ENABLED` that fairness is made of.
* The three sentences of the documents that the code does not keep are violated,
  and a run shows each.
* That an instance satisfies its assumptions: TLC evaluates every `ASSUME`.

## What is not modelled

* YAML field by field: what the parser and the field checks make of `meta.yaml` is
  one verdict per file. The checks are independent of each other and change nothing
  but the list of diagnostics.
* The styling inside a line of Markdown (`inlineText`), the layout of the human
  output and the order of JSON fields; colours.
* The lexing of a link target and the resolution of its path: a link comes with its
  verdict.
* The arithmetic of doubles: scores are integers in hundredths, the logarithm is a
  table.
* Exceptions that end the program, the text of help and of messages, the tests, the
  packaging, and the knowledge entries themselves, which are data.

## Plan

What is left, in the order of what it would add:

1. Refinement: an abstract base that is published in one step, implemented by
   `KnowledgeLoad`; an abstract search that scans the catalog, implemented by
   `Search`.
2. `inlineText` as a scanner of its own, against the same promise as `renderMarkdown`:
   that the answer is preserved.
