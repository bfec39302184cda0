------------------------------- MODULE Concepts -------------------------------
(***************************************************************************)
(* ConceptDictionary (src/src/concepts.cpp): load() reads concepts.yaml,   *)
(* group by group, and either publishes a dictionary of phrases or rejects *)
(* the file as a whole; detect() walks along a query.  load() may be       *)
(* called again on the same object with another file.                      *)
(*                                                                         *)
(* A phrase is what normalizePhrase makes of a name or an alias; it is a   *)
(* number in string order, spelt out by Spelling.                          *)
(***************************************************************************)
EXTENDS Integers, Sequences, FiniteSets, Phrases, Reports

CONSTANTS
    Words,     \* the words of phrases and texts
    PhraseIds, \* normalized phrases, numbered in string order
    Spelling,  \* the words of each
    Contents,  \* the files a run loads
    Texts,     \* the word sequences it then looks into
    MaxLoads   \* bound on the number of loads

Empty == 0     \* a name or alias with nothing left after normalization

ASSUME PhrasesAssumption ==
    /\ PhraseIds \subseteq Nat \ {Empty}
    /\ \A p \in PhraseIds : Spelling[p] \in Seq(Words) \ {<<>>}
    /\ \A p, q \in PhraseIds : Spelling[p] = Spelling[q] => p = q
    /\ Texts \subseteq Seq(Words)

(***************************************************************************)
(* A file is missing, or unusable for a reason of its own, or "read": then *)
(* `keys' counts its "concepts" keys and `items' are the members of the    *)
(* mapping: whether the name is a scalar, the name, whether the value is a *)
(* sequence, and its members, each a phrase or not a scalar.               *)
(***************************************************************************)
FileStates == {"missing", "uninspectable", "irregular", "unparsable",
               "not_a_map", "no_concepts", "concepts_not_a_map", "read"}
NotScalar == -1
ASSUME ContentsAssumption ==
    \A f \in Contents :
        /\ f.state \in FileStates
        /\ f.state = "read" => f.keys \in Nat \ {0}
        /\ f.items \in Seq([name : PhraseIds \cup {Empty, NotScalar}, sequence : BOOLEAN,
                            aliases : Seq(PhraseIds \cup {Empty, NotScalar})])
Errors == {"file", "root", "duplicate_root", "name", "duplicate_name",
           "aliases", "alias", "duplicate_alias", "collision", "cycle"}

VARIABLES
    pc, loads,
    file,        \* concepts.yaml as load() read it
    position,    \* members of the mapping already parsed
    groups,      \* groups: [canonical, aliases as a set], in file order
    names,       \* canonical_sources
    pending,     \* groups whose aliases are not yet mapped
    phrases,     \* phrases: phrase -> canonical
    dictionary,  \* phrase_to_canonical_ and definitions_
    report,      \* report_
    text, offset, matches   \* detect()

parsing   == <<file, position, groups, names>>
mapping   == <<pending, phrases>>
detecting == <<text, offset, matches>>
vars == <<pc, loads, parsing, mapping, dictionary, report, detecting>>

NoPhrases == [p \in {} |-> Empty]
FreshReport == [file_present |-> FALSE, usable |-> TRUE,
                concepts_loaded |-> 0, diagnostics |-> {}]

AddErrors(r, es) == [r EXCEPT !.diagnostics = @ \cup es]
Reject(r, e) == [AddErrors(r, {e}) EXCEPT !.usable = FALSE]

Init ==
    /\ pc = "idle" /\ loads = 0
    /\ file = [state |-> "missing", keys |-> 1, items |-> <<>>]
    /\ position = 0 /\ groups = <<>> /\ names = {}
    /\ pending = {} /\ phrases = NoPhrases
    /\ dictionary = NoPhrases /\ report = FreshReport
    /\ text = <<>> /\ offset = 1 /\ matches = <<>>

-----------------------------------------------------------------------------
(* load(): the file.                                                       *)

\* Mutant: the phrases of the previous load stay.
KeepDictionary == UNCHANGED dictionary
ClearDictionary == dictionary' = NoPhrases

\* What is wrong with the file itself, before any group is looked at.
FileReport(f) ==
    LET present  == [FreshReport EXCEPT !.file_present = TRUE]
        repeated == IF f.keys > 1 THEN {"duplicate_root"} ELSE {}
    IN CASE f.state = "missing" -> FreshReport
         [] f.state = "uninspectable" -> Reject(FreshReport, "file")
         [] f.state \in {"irregular", "unparsable"} -> Reject(present, "file")
         [] f.state \in {"not_a_map", "no_concepts"} -> Reject(present, "root")
         [] f.state = "concepts_not_a_map" -> Reject(AddErrors(present, repeated), "root")
         [] f.state = "read" -> AddErrors(present, repeated)

Begin ==
    /\ pc \in {"idle", "done"} /\ loads < MaxLoads
    /\ loads' = loads + 1
    /\ ClearDictionary
    /\ \E f \in Contents :
        /\ file' = f
        /\ report' = FileReport(f)
        /\ pc' = IF f.state = "read" THEN "parse" ELSE "done"
    /\ position' = 0 /\ groups' = <<>> /\ names' = {}
    /\ pending' = {} /\ phrases' = NoPhrases
    /\ text' = <<>> /\ offset' = 1 /\ matches' = <<>>

-----------------------------------------------------------------------------
(* load(): the groups.  Nothing depends on the order of a group's aliases. *)

\* The aliases of a group that survive: scalars, not empty, each once.
GoodAliases(as) == ToSet(as) \ {NotScalar, Empty}

AliasErrors(as) ==
    (IF {NotScalar, Empty} \cap ToSet(as) # {} THEN {"alias"} ELSE {}) \cup
    (IF \E i, j \in DOMAIN as : i # j /\ as[i] = as[j] /\ as[i] \in GoodAliases(as)
     THEN {"duplicate_alias"} ELSE {})

NoName(n) == n \in {NotScalar, Empty}

\* One member of the mapping.  A rejected one is left out, and an error; its
\* name counts as used once it is known to be new.
ParseGroup ==
    /\ pc = "parse" /\ position < Len(file.items)
    /\ position' = position + 1
    /\ LET item == file.items[position + 1] IN
       IF NoName(item.name)
       THEN report' = AddErrors(report, {"name"}) /\ UNCHANGED <<groups, names>>
       ELSE IF item.name \in names
       THEN report' = AddErrors(report, {"duplicate_name"}) /\ UNCHANGED <<groups, names>>
       ELSE /\ names' = names \cup {item.name}
            /\ IF ~item.sequence
               THEN report' = AddErrors(report, {"aliases"}) /\ UNCHANGED groups
               ELSE /\ groups' = Append(groups, [canonical |-> item.name,
                                                 aliases |-> GoodAliases(item.aliases)])
                    /\ report' = AddErrors(report, AliasErrors(item.aliases))
    /\ UNCHANGED <<pc, loads, file, mapping, dictionary, detecting>>

Canonicals == {groups[i].canonical : i \in DOMAIN groups}

\* Every canonical name maps to itself before any alias is mapped.
EndParse ==
    /\ pc = "parse" /\ position = Len(file.items)
    /\ pc' = "map"
    /\ pending' = ToSet(groups)
    /\ phrases' = [c \in Canonicals |-> c]
    /\ UNCHANGED <<loads, parsing, dictionary, report, detecting>>

\* Mutant: the last group to claim a phrase gets it.
NeverClaimed(a, g) == FALSE
\* The phrase belongs to somebody already; a group may repeat its own name.
Claimed(a, g) == a \in DOMAIN phrases /\ a # g.canonical

\* The groups in order of their canonical names.
MapAliases ==
    /\ pc = "map"
    /\ \E g \in pending :
        /\ \A h \in pending : g.canonical <= h.canonical
        /\ pending' = pending \ {g}
        /\ LET taken == {a \in g.aliases : Claimed(a, g)}
               new   == g.aliases \ taken
           IN /\ phrases' = [p \in DOMAIN phrases \cup new |->
                                IF p \in new THEN g.canonical ELSE phrases[p]]
              /\ report' = AddErrors(report, IF taken = {} THEN {} ELSE {"collision"})
    /\ UNCHANGED <<pc, loads, parsing, dictionary, detecting>>

\* detectCycles: an alias that is another group's name leads to that group;
\* a set of groups in which every one leads to one of the set has a cycle.
LeadsTo(c, d) == \E i \in DOMAIN groups :
    groups[i].canonical = c /\ d # c /\ d \in groups[i].aliases
HasCycle == \E ring \in (SUBSET Canonicals) \ {{}} :
    \A c \in ring : \E d \in ring : LeadsTo(c, d)

WithCycle(r) == IF HasCycle THEN AddErrors(r, {"cycle"}) ELSE r

\* Mutant: a collision is reported, but does not keep the file from use.
PublishesAnyway(r) == r.diagnostics \subseteq {"collision"}
Publishes(r) == r.diagnostics = {}

\* Any error at all rejects the whole file.
Finish ==
    /\ pc = "map" /\ pending = {}
    /\ pc' = "done"
    /\ LET r == WithCycle(report) IN
       IF Publishes(r)
       THEN /\ dictionary' = phrases
            /\ report' = [r EXCEPT !.usable = TRUE, !.concepts_loaded = Len(groups)]
       ELSE /\ report' = [r EXCEPT !.usable = FALSE, !.concepts_loaded = 0]
            /\ UNCHANGED dictionary
    /\ UNCHANGED <<loads, parsing, mapping, detecting>>

-----------------------------------------------------------------------------
(* detect().                                                               *)

Definitions == {[phrase |-> Spelling[p], canonical |-> dictionary[p]] :
                    p \in DOMAIN dictionary}

Ask ==
    /\ pc = "done"
    /\ pc' = "detect"
    /\ text' \in Texts
    /\ offset' = 1 /\ matches' = <<>>
    /\ UNCHANGED <<loads, parsing, mapping, dictionary, report>>

Here == {p \in DOMAIN dictionary : OccursAt(Spelling[p], text, offset)}

\* Mutant: the first definition that fits, not the longest.
IsAny(p) == TRUE
IsLongest(p) == \A q \in Here : Len(Spelling[q]) <= Len(Spelling[p])

Match ==
    /\ pc = "detect" /\ offset <= Len(text)
    /\ \E p \in Here :
        /\ IsLongest(p)
        /\ matches' = Append(matches, [phrase |-> p, canonical |-> dictionary[p],
                                       offset |-> offset])
        /\ offset' = offset + Len(Spelling[p])
    /\ UNCHANGED <<pc, loads, parsing, mapping, dictionary, report, text>>

Stay == offset   \* mutant: a word that starts no phrase is looked at again
Beyond == offset + 1

Advance ==
    /\ pc = "detect" /\ offset <= Len(text) /\ Here = {}
    /\ offset' = Beyond
    /\ UNCHANGED <<pc, loads, parsing, mapping, dictionary, report, text, matches>>

\* The matches are handed over; nothing of the call stays.
Answer ==
    /\ pc = "detect" /\ offset > Len(text)
    /\ pc' = "done"
    /\ text' = <<>> /\ offset' = 1 /\ matches' = <<>>
    /\ UNCHANGED <<loads, parsing, mapping, dictionary, report>>

Work == ParseGroup \/ EndParse \/ MapAliases \/ Finish \/ Match \/ Advance \/ Answer
Next == Begin \/ Ask \/ Work

\* A call runs to its return; nobody has to call.
Spec == Init /\ [][Next]_vars /\ WF_vars(Work)

-----------------------------------------------------------------------------
(* What the dictionary promises.                                           *)

Loaded == pc \in {"done", "detect"}

\* The report can be relied on: usable exactly when nothing is wrong, and it
\* counts the concepts that the dictionary has, whatever an earlier load left.
ReportIsHonest ==
    Loaded => /\ HonestConcepts(report)
              /\ report.concepts_loaded = Cardinality(Range(dictionary))

\* Everything or nothing: a rejected file leaves no phrase behind, not even
\* one of an earlier load, and a missing one turns expansion off.
RejectedFileIsEmpty ==
    Loaded /\ (~report.usable \/ ~report.file_present) => dictionary = NoPhrases

GroupPhrases(item) == {item.name} \cup ToSet(item.aliases)

\* What the format asks of a file, without regard to order: names and aliases
\* are phrases, no name and no alias of a group is repeated, and no phrase
\* belongs to two groups.
WellFormed(f) ==
    /\ f.keys = 1
    /\ \A i \in DOMAIN f.items :
        /\ f.items[i].name \in PhraseIds /\ f.items[i].sequence
        /\ ToSet(f.items[i].aliases) \subseteq PhraseIds
        /\ IsInjective(f.items[i].aliases)
        /\ \A j \in DOMAIN f.items \ {i} :
            GroupPhrases(f.items[i]) \cap GroupPhrases(f.items[j]) = {}

\* A file is accepted exactly when it is well formed, whatever the order of
\* its groups, and then every phrase of every group means that group.
AcceptsWellFormed ==
    Loaded /\ file.state = "read" =>
        /\ report.usable <=> WellFormed(file)
        /\ report.usable => \A i \in DOMAIN file.items :
            \A p \in GroupPhrases(file.items[i]) :
                p \in DOMAIN dictionary /\ dictionary[p] = file.items[i].name

\* The search for cycles never decides: a cycle runs through a name that is
\* another group's alias, which is a collision already.
CyclesAreCollisions ==
    Loaded /\ "cycle" \in report.diagnostics => "collision" \in report.diagnostics

Span(m) == m.offset..(m.offset + Len(Spelling[m.phrase]) - 1)

\* Detection loses nothing it could have found beside its matches: matches do
\* not overlap, each is the longest phrase at its place, and every phrase of
\* the dictionary that occurs in the text shares a word with a match.  It is the
\* function that the index and the query processor are modelled with.
DetectionIsMaximal ==
    pc = "detect" /\ offset > Len(text) =>
        /\ [k \in DOMAIN matches |-> matches[k].canonical] = Detected(Definitions, text)
        /\ \A k, l \in DOMAIN matches : k # l => Span(matches[k]) \cap Span(matches[l]) = {}
        /\ \A p \in DOMAIN dictionary : \A i \in 1..Len(text) :
            OccursAt(Spelling[p], text, i) =>
                \E k \in DOMAIN matches :
                    /\ Span(matches[k]) \cap i..(i + Len(Spelling[p]) - 1) # {}
                    /\ matches[k].offset = i =>
                        Len(Spelling[p]) <= Len(Spelling[matches[k].phrase])

\* A call of load() or detect() returns.
CallsReturn == (pc \in {"parse", "map", "detect"}) ~> (pc = "done")
=============================================================================
