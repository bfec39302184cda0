-------------------------------- MODULE Search --------------------------------
(***************************************************************************)
(* SearchEngine (src/src/search.cpp) over its InvertedIndex (src/src/     *)
(* index.cpp): the documents built from the entries, the candidates of a   *)
(* query, the score of each, the order of the results, the limit, and the  *)
(* policy that decides whether the first one is an answer.                 *)
(*                                                                         *)
(* Scores are hundredths.  The logarithm of the inverse document frequency *)
(* is a table, the edit distance of two words is a table (EditDistance    *)
(* has its algorithm), and words are opaque.                               *)
(***************************************************************************)
EXTENDS Integers, Sequences, FiniteSets, FiniteSetsExt, Phrases, StdSort

CONSTANTS
    Words,          \* words of queries, entries and concepts
    WordRank,       \* their string order
    Length,         \* how many characters a word has
    Distance,       \* the edit distance of two words
    Unfuzzy,        \* flags, numbers and operators: never matched by typo
    Dictionary,     \* the concept definitions: [phrase, canonical]
    Idf,            \* Idf[n][f]: inverse document frequency, in hundredths,
                    \* of a word in f of n documents
    Catalogs,       \* the lists of entries a run searches
    Queries,        \* what is asked: [words, type]
    Limits,         \* values of --limit
    FuzzyMatchLimit \* fuzzy_match_limit_per_token

Intents == {"explain", "how_to", "why", "command", "general"}

ASSUME WordsAssumption ==
    /\ WordRank \in [Words -> Nat] /\ Length \in [Words -> Nat]
    /\ \A v, w \in Words : WordRank[v] = WordRank[w] => v = w
    /\ Distance \in [Words \X Words -> Nat]
    /\ \A v, w \in Words : Distance[v, w] >= Length[v] - Length[w]

\* An entry as the index reads it.  `id' orders the entries, which is also
\* their order in the knowledge base; the rest are sequences of words.
Entry == [id : Nat, id_words : Seq(Words), title : Seq(Words),
          aliases : SUBSET Seq(Words), keywords : SUBSET Seq(Words),
          command : Seq(Words), intents : SUBSET Intents]

ASSUME InputsAssumption ==
    /\ \A c \in Catalogs : /\ c \in Seq(Entry)
                           /\ \A i, j \in DOMAIN c : i < j => c[i].id < c[j].id
    /\ Queries \subseteq [words : Seq(Words), type : Intents]
    /\ Limits \subseteq Nat \ {0}
    /\ \A d \in Dictionary : d.phrase \in Seq(Words) \ {<<>>} /\ d.canonical \in Words
    /\ \A d, e \in Dictionary : d.phrase = e.phrase => d = e
    /\ \A c \in Catalogs : \A i \in DOMAIN c :
            IsFiniteSet(c[i].aliases) /\ IsFiniteSet(c[i].keywords)
    /\ FuzzyMatchLimit \in Nat

ASSUME IdfAssumption ==
    \A c \in Catalogs : \A f \in 1..Len(c) : Idf[Len(c)][f] \in Nat

VARIABLES
    pc,         \* where search() and its caller are
    catalog,    \* knowledge_.entries()
    documents,  \* documents_: what the index keeps of each entry
    idf,        \* idf_: the inverse document frequency of each indexed word
    query,      \* what is asked
    limit,      \* options.limit
    context,    \* the processed query: its distinct words and its concepts
    near,       \* for each misspelt word of it, the indexed words near it
    candidates, \* entry_indices
    todo,       \* those not yet scored
    results,    \* response.results
    decision    \* what the policy made of them

asked == <<catalog, query, limit>>
index == <<documents, idf>>
vars  == <<pc, asked, index, context, near, candidates, todo, results, decision>>

-----------------------------------------------------------------------------
(* The index.                                                              *)

WordsOf(sequences) == UNION {ToSet(s) : s \in sequences}
ConceptsIn(s) == ToSet(Detected(Dictionary, s))

AllFields(e) == {e.id_words, e.title, e.command} \cup e.aliases \cup e.keywords

\* InvertedIndex::build for one entry.
Document(e) ==
    LET concepts == UNION {ConceptsIn(s) : s \in AllFields(e)} IN
    [id_tokens          |-> ToSet(e.id_words),
     title_tokens       |-> ToSet(e.title),
     alias_tokens       |-> WordsOf(e.aliases),
     aliases_normalized |-> {Deduplicated(a) : a \in e.aliases} \ {<<>>},
     keyword_tokens     |-> WordsOf(e.keywords),
     command_tokens     |-> ToSet(e.command),
     concept_tokens     |-> concepts,
     all_tokens         |-> WordsOf(AllFields(e)) \cup concepts,
     intents            |-> e.intents]

Indices        == DOMAIN documents
Doc(i)         == documents[i]
Postings(word) == {i \in Indices : word \in Doc(i).all_tokens}
Vocabulary     == UNION {Doc(i).all_tokens : i \in Indices}
KnownCommands  == UNION {Doc(i).command_tokens : i \in Indices}

\* A word that is in no document counts as common.
IdfOf(word) == IF word \in DOMAIN idf THEN idf[word] ELSE 100

-----------------------------------------------------------------------------
(* The query.                                                              *)

\* QueryProcessor::process: concepts are looked for in the whole sequence,
\* everything else in the sequence without repetitions.
Process(q) == [tokens |-> Deduplicated(q.words), concepts |-> ConceptsIn(q.words)]

Tokens     == context.tokens
Normalized == context.tokens
Concepts   == context.concepts

-----------------------------------------------------------------------------
(* Candidates.                                                             *)

DirectTokens == UNION {Postings(w) : w \in ToSet(Tokens)}   \* mutant: no concepts
Direct == UNION {Postings(w) : w \in ToSet(Tokens) \cup Concepts}

IsProtected(word) == word \in Unfuzzy \cup KnownCommands

MaximumDistance(word) == IF Length[word] >= 7 THEN 2 ELSE 1

\* Words of the query that look for a typo: long enough, unprotected, and
\* in no document.
FuzzyTokens == {w \in ToSet(Tokens) :
                    Length[w] >= 4 /\ ~IsProtected(w) /\ Postings(w) = {}}

\* Mutant: words at one distance stay in the order of the hash table.
CloserUntied(word, v, w) == Distance[word, v] < Distance[word, w]
\* The comparison of the sort of near words.
Closer(word, v, w) ==
    IF Distance[word, v] # Distance[word, w]
    THEN Distance[word, v] < Distance[word, w]
    ELSE WordRank[v] < WordRank[w]

\* The indexed words near a query word; they come in the order of hash tables.
Close(word) == {v \in Vocabulary :
                    ~IsProtected(v) /\ Distance[word, v] <= MaximumDistance(word)}

\* What the sort and the cut at the limit may leave of them: as many as the
\* limit allows, and none that belongs behind one that is left out.
Cuts(word) ==
    {kept \in SUBSET Close(word) :
        /\ Cardinality(kept) = Min({FuzzyMatchLimit, Cardinality(Close(word))})
        /\ \A v \in kept : \A u \in Close(word) \ kept : ~Closer(word, u, v)}

Candidates(matches) == Direct \cup
    UNION {Postings(v) : v \in UNION {matches[w] : w \in FuzzyTokens}}

-----------------------------------------------------------------------------
(* Scores.                                                                 *)

\* idfWeighted: half of the base, plus the other half per unit of rarity, up
\* to two and a half units.
IdfWeighted(base, rarity) == (base * (100 + Min({rarity, 250}))) \div 2

WordsScore(base, words) == SumFunction([w \in words |-> IdfWeighted(base, IdfOf(w))])

ExactAlias(doc) == IF Normalized \in doc.aliases_normalized THEN 10000 ELSE 0

\* Either an alias of several words inside the query, or, failing that, all
\* of at least two concepts.
Phrase(doc) ==
    IF /\ ExactAlias(doc) = 0
       /\ \/ \E a \in doc.aliases_normalized :
                Len(a) > 1 /\ ContainsPhrase(Normalized, a)
          \/ Cardinality(Concepts) >= 2 /\ Concepts \subseteq doc.concept_tokens
    THEN 4000 ELSE 0

Command(doc) ==
    IF Tokens # <<>> /\ Tokens[1] \in doc.command_tokens THEN 3000 ELSE 0

\* The first field that has the word decides how much its typo is worth.
FieldWeight(doc, word) ==
    IF word \in doc.alias_tokens THEN 100
    ELSE IF word \in doc.keyword_tokens THEN 80
    ELSE IF word \in doc.concept_tokens THEN 70
    ELSE IF word \in doc.title_tokens THEN 60
    ELSE IF word \in doc.id_tokens THEN 50
    ELSE 40

FuzzyScore(doc, word, indexed) ==
    (8 * (IF Distance[word, indexed] <= 1 THEN 100 ELSE 65)
       * FieldWeight(doc, indexed)) \div 100

\* For each misspelt word the best of its near words in this document.
Fuzzy(doc) ==
    SumFunction([w \in {w \in DOMAIN near : near[w] \cap doc.all_tokens # {}} |->
        Max({FuzzyScore(doc, w, v) : v \in near[w] \cap doc.all_tokens})])

Relevance(doc) ==
    ExactAlias(doc) + Phrase(doc) + Command(doc)
    + WordsScore(20, ToSet(Tokens) \cap doc.keyword_tokens)
    + WordsScore(10, ToSet(Tokens) \cap doc.title_tokens)
    + WordsScore(6, ToSet(Tokens) \cap doc.all_tokens)
    + WordsScore(15, Concepts \cap doc.concept_tokens)
    + Fuzzy(doc)

MeaningfulScore == 800
ConfidentScore  == 9000
ConfidentMargin == 1500

IntentBonus(relevance, doc) ==
    IF relevance >= MeaningfulScore /\ query.type \in doc.intents THEN 2000 ELSE 0

\* What the sort and the policy read of a SearchResult.
Result(i) ==
    LET relevance == Relevance(Doc(i))
        intent    == IntentBonus(relevance, Doc(i))
    IN [entry  |-> i,
        score  |-> relevance + intent,
        exact  |-> ExactAlias(Doc(i)) + Phrase(Doc(i)),
        intent |-> intent]

\* Mutant: the id does not break ties.
BeforeUntied(l, r) ==
    IF l.score # r.score THEN l.score > r.score
    ELSE IF l.exact # r.exact THEN l.exact > r.exact
    ELSE l.intent > r.intent

\* The comparison of the sort.
Before(l, r) ==
    IF l.score # r.score THEN l.score > r.score
    ELSE IF l.exact # r.exact THEN l.exact > r.exact
    ELSE IF l.intent # r.intent THEN l.intent > r.intent
    ELSE catalog[l.entry].id < catalog[r.entry].id

Truncated(rs, n) == SubSeq(rs, 1, Min({n, Len(rs)}))

\* ResultPolicy::decide.
Decide(rs) ==
    IF rs = <<>> \/ rs[1].score < MeaningfulScore
    THEN [status |-> "no_match", selected |-> 0]
    ELSE IF /\ rs[1].score >= ConfidentScore
            /\ Len(rs) = 1 \/ rs[1].score - rs[2].score >= ConfidentMargin
    THEN [status |-> "confident", selected |-> rs[1].entry]
    ELSE [status |-> "uncertain", selected |-> 0]

\* runApplication asks for at least two results, so that the policy has a
\* runner-up to compare with.
LimitAsked == limit   \* mutant: --limit 1 hides the runner-up
SearchLimit == Max({limit, 2})

-----------------------------------------------------------------------------
(* The steps.                                                              *)

Init ==
    /\ pc = "build"
    /\ catalog \in Catalogs /\ query \in Queries /\ limit \in Limits
    /\ documents = <<>> /\ idf = <<>>
    /\ context = [tokens |-> <<>>, concepts |-> {}] /\ near = <<>>
    /\ candidates = {} /\ todo = {} /\ results = <<>>
    /\ decision = [status |-> "none", selected |-> 0]

\* The constructor builds the index from the knowledge base: the documents,
\* and then, from their postings, the weight of each word.
BuildDocuments ==
    /\ pc = "build" /\ pc' = "weigh"
    /\ documents' = [i \in DOMAIN catalog |-> Document(catalog[i])]
    /\ UNCHANGED <<asked, idf, context, near, candidates, todo, results, decision>>

WeighWords ==
    /\ pc = "weigh" /\ pc' = "search"
    /\ idf' = [w \in Vocabulary |-> Idf[Len(documents)][Cardinality(Postings(w))]]
    /\ UNCHANGED <<asked, documents, context, near, candidates, todo, results, decision>>

\* search(): a query of stopwords only has no results.
ProcessQuery ==
    /\ pc = "search"
    /\ context' = Process(query)
    /\ pc' = IF context'.tokens = <<>> /\ context'.concepts = {} THEN "decide"
                                                                 ELSE "candidates"
    /\ UNCHANGED <<asked, index, near, candidates, todo, results, decision>>

FindCandidates ==
    /\ pc = "candidates" /\ pc' = "score"
    /\ \E matches \in [FuzzyTokens -> UNION {Cuts(w) : w \in FuzzyTokens}] :
        /\ \A w \in FuzzyTokens : matches[w] \in Cuts(w)
        /\ near' = matches
        /\ candidates' = Candidates(matches) /\ todo' = Candidates(matches)
    /\ UNCHANGED <<asked, index, context, results, decision>>

ScoreCandidate ==
    /\ pc = "score"
    /\ \E i \in todo :
        /\ \A j \in todo : i <= j
        /\ todo' = todo \ {i}
        /\ LET result == Result(i) IN
           results' = IF result.score >= MeaningfulScore THEN Append(results, result)
                                                         ELSE results
    /\ UNCHANGED <<pc, asked, index, context, near, candidates, decision>>

Rank ==
    /\ pc = "score" /\ todo = {}
    /\ \E sorted \in Sortings(results, Before) :
        results' = Truncated(sorted, SearchLimit)
    /\ pc' = "decide"
    /\ UNCHANGED <<asked, index, context, near, candidates, todo, decision>>

ApplyPolicy ==
    /\ pc = "decide" /\ pc' = "done"
    /\ decision' = Decide(results)
    /\ UNCHANGED <<asked, index, context, near, candidates, todo, results>>

Next == BuildDocuments \/ WeighWords \/ ProcessQuery \/ FindCandidates \/ ScoreCandidate \/ Rank \/ ApplyPolicy

Spec == Init /\ [][Next]_vars

-----------------------------------------------------------------------------
(* What a search promises.                                                 *)

Done == pc = "done"

\* The nearest words to a misspelt one, by distance and then by name.
Nearer(word, u, v) ==
    \/ Distance[word, u] < Distance[word, v]
    \/ Distance[word, u] = Distance[word, v] /\ WordRank[u] < WordRank[v]
Nearest(word) ==
    {v \in Close(word) :
        Cardinality({u \in Close(word) : Nearer(word, u, v)}) < FuzzyMatchLimit}

\* The inverted index loses nothing, and what it finds depends on the inputs
\* alone: an entry that is not a candidate would not have scored at all, and
\* the near words that are kept for a misspelt one are the nearest, in whatever
\* order the hash tables hand them over.
IndexIsExhaustive ==
    pc = "score" =>
        /\ \A i \in Indices \ candidates : Result(i).score = 0
        /\ \A w \in DOMAIN near : near[w] = Nearest(w)

\* What a scan of the whole catalog would find, without index or limit.
Scan == {Result(i) : i \in Indices}

\* A complete answer is shown for exactly the entry of the whole catalog that
\* reaches the confident score and leads every other entry by the margin:
\* whatever --limit cut off, it cannot make an answer confident.  "No match" is
\* said exactly when no entry of the catalog is meaningful.
AnswerIsJustified ==
    Done => LET scan == Scan IN
        /\ \A r \in scan :
            (decision.status = "confident" /\ decision.selected = r.entry) <=>
                /\ r.score >= ConfidentScore
                /\ \A o \in scan \ {r} : r.score - o.score >= ConfidentMargin
        /\ decision.status = "no_match" <=> \A r \in scan : r.score < MeaningfulScore

\* The documented order: score, then exact and phrase score, then intent, then
\* entry id.
Outranks(l, r) ==
    \/ l.score > r.score
    \/ l.score = r.score /\ l.exact > r.exact
    \/ l.score = r.score /\ l.exact = r.exact /\ l.intent > r.intent
    \/ /\ l.score = r.score /\ l.exact = r.exact /\ l.intent = r.intent
       /\ catalog[l.entry].id < catalog[r.entry].id

\* The results are the best of the catalog, in an order that the inputs alone
\* determine: each outranks those behind it and every meaningful entry that
\* the limit left out.
ResultsAreTheBest ==
    Done => LET shown == ToSet(results) IN
        /\ \A k, l \in DOMAIN results : k < l => Outranks(results[k], results[l])
        /\ \A r \in Scan \ shown : r.score >= MeaningfulScore =>
                /\ Len(results) = SearchLimit
                /\ \A s \in shown : Outranks(s, r)

\* requirements.md: a fuzzy match "remains weaker than an exact match": a
\* misspelt word earns less in a document than the same word spelt right.
FuzzyWeakerThanExact ==
    Done => \A w \in DOMAIN near : \A v \in near[w] : \A i \in Postings(v) :
        FuzzyScore(Doc(i), w, v) <
            LET exact(base, field) == WordsScore(base, {v} \cap field) IN
            exact(20, Doc(i).keyword_tokens) + exact(10, Doc(i).title_tokens)
            + exact(6, Doc(i).all_tokens)
            + WordsScore(15, ConceptsIn(<<v>>) \cap Doc(i).concept_tokens)

\* README.md: "isolated rare words do not become confident answers as the
\* catalog grows": a query of one word that is nobody's alias is no answer.
IsolatedWordIsNoAnswer ==
    Done /\ Len(query.words) = 1 /\ (\A i \in Indices : ExactAlias(Doc(i)) = 0)
        => decision.status # "confident"

\* requirements.md: the processor must "preserve token sequence for phrase
\* detection": an alias of several words that the query spells out earns the
\* alias or the phrase score.
SpelledPhraseIsFound ==
    Done => \A i \in Indices : \A a \in Doc(i).aliases_normalized :
        Len(a) > 1 /\ ContainsPhrase(query.words, a)
            => ExactAlias(Doc(i)) + Phrase(Doc(i)) > 0
=============================================================================
