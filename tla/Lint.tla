--------------------------------- MODULE Lint ---------------------------------
(***************************************************************************)
(* KnowledgeBase::lint (src/src/knowledge.cpp): the walk over every entry  *)
(* and, in it, over every alias, keyword and related id, with the sets it  *)
(* fills on the way, and the concepts nobody uses at the end.              *)
(*                                                                         *)
(* A text is a sequence of words; Stopwords are dropped by normalization.  *)
(* What lintMarkdown finds in the content of an entry is a set that comes  *)
(* with the entry (Markdown models that scan).  A finding is its kind, the *)
(* entry or concept it is about, and what it names; wording, order and     *)
(* multiplicity are left out.                                              *)
(***************************************************************************)
EXTENDS Integers, Sequences, FiniteSets, Functions, Phrases

CONSTANTS
    Words,          \* the words of texts
    Stopwords,      \* those that normalization drops
    Length,         \* how many characters a word has
    OneEdit,        \* the pairs of phrases one edit apart
    BroadKeywords,  \* broad_keywords
    Dictionary,     \* phraseMappings(): [phrase, canonical]
    Catalogs        \* the entries a run lints, sorted by id as load() left them

Texts == Seq(Words)

\* What lintMarkdown says of the content of an entry.
MarkdownKinds == {"unclosed fence", "unterminated link", "empty link", "absolute link",
                  "escaping link", "broken link"}

\* The id is its place in the order of ids and the words it is made of.
Entry == [id : Nat, id_words : Texts, title : Texts, command : Texts,
          aliases : Seq(Texts), keywords : Seq(Texts), related : Seq(Nat),
          markdown : SUBSET MarkdownKinds]

ASSUME LintAssumption ==
    /\ Stopwords \subseteq Words /\ BroadKeywords \subseteq Words
    /\ Length \in [Words -> Nat \ {0}]
    /\ \A pair \in OneEdit : <<pair[2], pair[1]>> \in OneEdit
    /\ \A d \in Dictionary : d.phrase # <<>>
    /\ \A d, e \in Dictionary : d.phrase = e.phrase => d = e
    /\ Catalogs \subseteq Seq(Entry)
    /\ \A c \in Catalogs : \A i, j \in DOMAIN c : i < j => c[i].id < c[j].id

VARIABLES
    pc,         \* the loop that lint() is in
    entries,    \* entries_
    at,         \* the entry in hand
    item,       \* the alias, keyword or related id of it in hand
    owners,     \* aliases_by_normalized_value
    local,      \* local_aliases, local_keywords or related_ids
    normalized, \* normalized_aliases
    used,       \* used_concepts
    report      \* lint_report

position == <<pc, at, item>>
vars == <<position, entries, owners, local, normalized, used, report>>

Finding(kind, about, names) == <<kind, about, names>>
Kind(finding)  == finding[1]
About(finding) == finding[2]

-----------------------------------------------------------------------------
(* Texts.                                                                  *)

NormalizedSearchPhrase(text) == SelectSeq(text, LAMBDA w : w \notin Stopwords)

\* The characters of a phrase: its words and a space between each two.
Size(phrase) ==
    FoldLeft(LAMBDA sum, w : sum + Length[w], Len(phrase) - 1, phrase)

AliasesAreOverlySimilar(left, right) ==
    /\ left # right /\ Size(left) >= 8 /\ Size(right) >= 8
    /\ Len(left) >= 2 /\ Len(left) = Len(right)
    /\ <<left, right>> \in OneEdit

ConceptsOf(text) == ToSet(Detected(Dictionary, NormalizedSearchPhrase(text)))

\* What the index makes of an alias: repeated words count once.
IndexedAlias(text) == Deduplicated(NormalizedSearchPhrase(text))

-----------------------------------------------------------------------------
(* The walk.                                                               *)

Current == entries[at]

Init ==
    /\ entries \in Catalogs
    /\ pc = "entry" /\ at = 1 /\ item = 1
    /\ owners = <<>> /\ local = {} /\ normalized = <<>> /\ used = {}
    /\ report = [entries |-> Len(entries), aliases |-> 0, keywords |-> 0,
                 concepts |-> 0, findings |-> {}]

Found(findings) == [report EXCEPT !.findings = @ \cup findings]

CollectedButCommand(e) == {e.id_words, e.title}     \* mutant: the command is forgotten
CollectedTexts(e) == {e.id_words, e.title, e.command}

StartEntry ==
    /\ pc = "entry" /\ at <= Len(entries)
    /\ used' = used \cup UNION {ConceptsOf(text) : text \in CollectedTexts(Current)}
    /\ pc' = "alias" /\ item' = 1 /\ local' = {} /\ normalized' = <<>>
    /\ UNCHANGED <<entries, at, owners, report>>

\* A duplicate inside the entry says no more of it; the first entry with an
\* alias owns it, and every later one is told whose it is.
OwnersAfterLast(owner, phrase, id) ==       \* mutant: the last owns it
    [p \in DOMAIN owner \cup {phrase} |-> IF p = phrase THEN id ELSE owner[p]]
OwnersAfter(owner, phrase, id) ==
    [p \in DOMAIN owner \cup {phrase} |-> IF p \in DOMAIN owner THEN owner[p] ELSE id]

OwnedHere(phrase) == phrase \in DOMAIN owners /\ owners[phrase] = Current.id   \* mutant: swapped test
OwnedElsewhere(phrase) == phrase \in DOMAIN owners /\ owners[phrase] # Current.id

Collisions(phrase) ==
    {Finding("alias collision", Current.id, <<p, owners[p]>>) :
        p \in {q \in {phrase} : OwnedElsewhere(q)}}

AliasFindings(text, phrase) ==
    IF phrase = <<>> THEN {Finding("empty alias", Current.id, text)}
    ELSE IF phrase \in local THEN {Finding("duplicate alias", Current.id, phrase)}
    ELSE Collisions(phrase)

Alias ==
    /\ pc = "alias" /\ item <= Len(Current.aliases)
    /\ LET text == Current.aliases[item]
           phrase == NormalizedSearchPhrase(text)
           kept == phrase # <<>> /\ phrase \notin local IN
       /\ used' = used \cup ConceptsOf(text)
       /\ report' = [Found(AliasFindings(text, phrase)) EXCEPT !.aliases = @ + 1]
       /\ local' = IF kept THEN local \cup {phrase} ELSE local
       /\ owners' = IF kept THEN OwnersAfter(owners, phrase, Current.id) ELSE owners
       /\ normalized' = IF kept THEN Append(normalized, phrase) ELSE normalized
    /\ item' = item + 1
    /\ UNCHANGED <<pc, entries, at>>

\* Every pair of the aliases that were kept.
SimilarPairsOf(kept) ==
    {p \in (DOMAIN kept) \X (DOMAIN kept) :
        p[1] < p[2] /\ AliasesAreOverlySimilar(kept[p[1]], kept[p[2]])}
Neighbours(kept) == {p \in SimilarPairsOf(kept) : p[2] = p[1] + 1}  \* mutant: adjacent only
SimilarPairs(kept) == SimilarPairsOf(kept)

EndAliases ==
    /\ pc = "alias" /\ item > Len(Current.aliases)
    /\ report' = Found({Finding("similar aliases", Current.id,
                                {normalized[p[1]], normalized[p[2]]}) :
                            p \in SimilarPairs(normalized)})
    /\ pc' = "keyword" /\ item' = 1 /\ local' = {}
    /\ UNCHANGED <<entries, at, owners, normalized, used>>

\* A duplicate keyword may also be broad; an empty one is nothing else.
KeywordFindings(text, phrase) ==
    IF phrase = <<>> THEN {Finding("empty keyword", Current.id, text)}
    ELSE {Finding("duplicate keyword", Current.id, p) : p \in local \cap {phrase}} \cup
         {Finding("broad keyword", Current.id, text) :
            w \in {v \in BroadKeywords : phrase = <<v>>}}

Keyword ==
    /\ pc = "keyword" /\ item <= Len(Current.keywords)
    /\ LET text == Current.keywords[item]
           phrase == NormalizedSearchPhrase(text) IN
       /\ used' = used \cup ConceptsOf(text)
       /\ report' = [Found(KeywordFindings(text, phrase)) EXCEPT !.keywords = @ + 1]
       /\ local' = IF phrase = <<>> THEN local ELSE local \cup {phrase}
    /\ item' = item + 1
    /\ UNCHANGED <<pc, entries, at, owners, normalized>>

EndKeywords ==
    /\ pc = "keyword" /\ item > Len(Current.keywords)
    /\ pc' = "related" /\ item' = 1 /\ local' = {}
    /\ UNCHANGED <<entries, at, owners, normalized, used, report>>

\* findById; a related id that leads nowhere is for load() to report.
ById(id) == {e \in ToSet(entries) : e.id = id}
FindById(id) == ById(id)

RelatedFindings(id) ==
    IF id \in local THEN {Finding("duplicate related", Current.id, id)}
    ELSE IF id = Current.id THEN {Finding("self related", Current.id, id)}
    ELSE {Finding("not reciprocal", Current.id, id) :
            e \in {f \in FindById(id) : ~Contains(f.related, Current.id)}}

Related ==
    /\ pc = "related" /\ item <= Len(Current.related)
    /\ LET id == Current.related[item] IN
       /\ report' = Found(RelatedFindings(id))
       /\ local' = local \cup {id}
    /\ item' = item + 1
    /\ UNCHANGED <<pc, entries, at, owners, normalized, used>>

NextEntry(i)  == i + 1

EndEntry ==
    /\ pc = "related" /\ item > Len(Current.related)
    /\ report' = Found({Finding(kind, Current.id, <<>>) : kind \in Current.markdown})
    /\ pc' = "entry" /\ at' = NextEntry(at) /\ item' = 1 /\ local' = {} /\ normalized' = <<>>
    /\ UNCHANGED <<entries, owners, used>>

CanonicalConcepts == {d.canonical : d \in Dictionary}

Concepts ==
    /\ pc = "entry" /\ at > Len(entries)
    /\ report' = [Found({Finding("unused concept", c, <<>>) :
                            c \in CanonicalConcepts \ used})
                    EXCEPT !.concepts = Cardinality(CanonicalConcepts)]
    /\ pc' = "done"
    /\ UNCHANGED <<entries, at, item, owners, local, normalized, used>>

Done == pc = "done" /\ UNCHANGED vars

Walk == \/ StartEntry \/ Alias \/ EndAliases \/ Keyword \/ EndKeywords
        \/ Related \/ EndEntry \/ Concepts
Next == Walk \/ Done
Spec == Init /\ [][Next]_vars

-----------------------------------------------------------------------------
(* What a finding means, without an order of entries or of items in them.  *)

PhrasesOf(texts) == {NormalizedSearchPhrase(texts[i]) : i \in DOMAIN texts} \ {<<>>}

\* Two different places of the list say the same.
Repeated(texts) ==
    {NormalizedSearchPhrase(texts[i]) : i \in {i \in DOMAIN texts :
        \E j \in DOMAIN texts \ {i} :
            NormalizedSearchPhrase(texts[i]) = NormalizedSearchPhrase(texts[j])}}

\* The entry that is to keep an alias is the one with the smallest id.
Owner(phrase) ==
    CHOOSE id \in {e.id : e \in ToSet(entries)} :
        /\ \E e \in ToSet(entries) : e.id = id /\ phrase \in PhrasesOf(e.aliases)
        /\ \A e \in ToSet(entries) : phrase \in PhrasesOf(e.aliases) => id <= e.id

Expected(e) ==
    {Finding("empty alias", e.id, t) :
        t \in {u \in ToSet(e.aliases) : NormalizedSearchPhrase(u) = <<>>}} \cup
    {Finding("duplicate alias", e.id, p) : p \in Repeated(e.aliases) \ {<<>>}} \cup
    {Finding("alias collision", e.id, <<p, Owner(p)>>) :
        p \in {q \in PhrasesOf(e.aliases) : Owner(q) # e.id}} \cup
    {Finding("similar aliases", e.id, {pair[1], pair[2]}) :
        pair \in {q \in PhrasesOf(e.aliases) \X PhrasesOf(e.aliases) :
                    AliasesAreOverlySimilar(q[1], q[2])}} \cup
    {Finding("empty keyword", e.id, t) :
        t \in {u \in ToSet(e.keywords) : NormalizedSearchPhrase(u) = <<>>}} \cup
    {Finding("duplicate keyword", e.id, p) : p \in Repeated(e.keywords) \ {<<>>}} \cup
    {Finding("broad keyword", e.id, t) :
        t \in {u \in ToSet(e.keywords) :
                \E w \in BroadKeywords : NormalizedSearchPhrase(u) = <<w>>}} \cup
    {Finding("duplicate related", e.id, id) :
        id \in {r \in ToSet(e.related) :
                    Cardinality({i \in DOMAIN e.related : e.related[i] = r}) > 1}} \cup
    {Finding("self related", e.id, id) : id \in ToSet(e.related) \cap {e.id}} \cup
    {Finding("not reciprocal", e.id, f.id) :
        f \in {g \in ToSet(entries) : /\ g.id # e.id /\ Contains(e.related, g.id)
                                      /\ ~Contains(g.related, e.id)}} \cup
    {Finding(kind, e.id, <<>>) : kind \in e.markdown}

\* InvertedIndex::build: the concepts and the aliases an entry is found by.
IndexedConcepts(e) ==
    ConceptsOf(e.id_words) \cup ConceptsOf(e.title) \cup ConceptsOf(e.command)
    \cup UNION {ConceptsOf(t) : t \in ToSet(e.aliases) \cup ToSet(e.keywords)}
IndexedAliases(e) == {IndexedAlias(t) : t \in ToSet(e.aliases)} \ {<<>>}

-----------------------------------------------------------------------------
(* Properties.                                                             *)

\* Whatever the order of the entries and of the items in each, lint() reports
\* exactly what an order-free reading of its rules reports, and counts
\* everything it looked at: no `continue' hides a second finding, and no set
\* of one entry leaks into the next.
FindingsAreExact ==
    pc = "done" =>
        /\ {f \in report.findings : Kind(f) # "unused concept"} =
               UNION {Expected(e) : e \in ToSet(entries)}
        /\ report.aliases = FoldLeft(LAMBDA n, e : n + Len(e.aliases), 0, entries)
        /\ report.keywords = FoldLeft(LAMBDA n, e : n + Len(e.keywords), 0, entries)

\* A concept is reported as unused exactly when the index (InvertedIndex::
\* build) lists no entry under it.
UnusedMeansUnindexed ==
    pc = "done" =>
        {About(f) : f \in {g \in report.findings : Kind(g) = "unused concept"}} =
            CanonicalConcepts \ UNION {IndexedConcepts(e) : e \in ToSet(entries)}

Clean == pc = "done" /\ report.findings = {}

\* A clean report means that no query is the exact alias of two entries, as
\* long as no alias repeats a word.
CleanMeansUnambiguous ==
    Clean => \A e, f \in ToSet(entries) :
        /\ e # f
        /\ \A t \in ToSet(e.aliases) \cup ToSet(f.aliases) :
                IndexedAlias(t) = NormalizedSearchPhrase(t)
        => IndexedAliases(e) \cap IndexedAliases(f) = {}

=============================================================================
