---------------------------- MODULE Search_proofs ----------------------------
(***************************************************************************)
(* For every catalog, dictionary, query, limit and table of frequencies:   *)
(* the inverted index loses no entry, the results are the best of the      *)
(* whole catalog in a strict order, and an answer is shown as complete     *)
(* exactly when it is confident and leads every other entry.               *)
(***************************************************************************)
EXTENDS Search, Phrases_proofs

-----------------------------------------------------------------------------
(* The invariant: what each stage leaves behind.                           *)

Stages == {"build", "weigh", "search", "candidates", "score", "decide", "done"}
Indexed == pc \in Stages \ {"build"}
Weighed == pc \in Stages \ {"build", "weigh"}
Answered == pc \in {"decide", "done"}

\* The index is built from the catalog, and from nothing else.
IndexBuilt ==
    /\ Indexed => documents = [i \in DOMAIN catalog |-> Document(catalog[i])]
    /\ Weighed => idf = [w \in Vocabulary |->
                            Idf[Len(documents)][Cardinality(Postings(w))]]

\* The candidates were found for the query, or nothing was asked.
NothingAsked == /\ context.tokens = <<>> /\ context.concepts = {}
                /\ near = <<>> /\ candidates = {} /\ results = <<>>
Found == /\ DOMAIN near = FuzzyTokens
         /\ \A w \in FuzzyTokens : near[w] \in Cuts(w)
         /\ candidates = Candidates(near)

QueryProcessed ==
    /\ pc \in {"build", "weigh", "search", "candidates"} =>
            near = <<>> /\ candidates = {} /\ results = <<>>
    /\ pc \in {"candidates", "score"} \/ Answered => context = Process(query)
    /\ pc = "score" => Found
    /\ Answered => Found \/ NothingAsked

\* The candidates that have a meaningful score.
Hits == {r \in {Result(i) : i \in candidates} : r.score >= MeaningfulScore}

\* While candidates are scored, the results are those of the entries that
\* are no longer to do, each once.
Scored ==
    pc = "score" =>
        /\ todo \subseteq candidates
        /\ results \in Seq(Hits)
        /\ ToSet(results) = {r \in Hits : r.entry \in candidates \ todo}
        /\ \A k, l \in DOMAIN results : k # l => results[k].entry # results[l].entry

\* Afterwards they are the best of the hits, in order.
Ranking ==
    Answered =>
        /\ results \in Seq(Hits)
        /\ \A k, l \in DOMAIN results : k < l => Outranks(results[k], results[l])
        /\ \A r \in Hits \ ToSet(results) :
                /\ Len(results) = SearchLimit
                /\ \A s \in ToSet(results) : Outranks(s, r)

Inputs ==
    /\ pc \in Stages
    /\ catalog \in Catalogs /\ query \in Queries /\ limit \in Limits

IInv ==
    /\ Inputs /\ IndexBuilt /\ QueryProcessed /\ Scored /\ Ranking
    /\ Done => decision = Decide(results)

-----------------------------------------------------------------------------
(* What is indexed, and what is asked.                                     *)

\* A catalog lists its entries by ascending id.
LEMMA CatalogFacts ==
    ASSUME catalog \in Catalogs
    PROVE  /\ Len(catalog) \in Nat /\ DOMAIN catalog = 1..Len(catalog)
           /\ \A i \in DOMAIN catalog : catalog[i] \in Entry /\ catalog[i].id \in Nat
           /\ \A i, j \in DOMAIN catalog : i < j => catalog[i].id < catalog[j].id
<1>1. catalog \in Seq(Entry)
    BY InputsAssumption
<1>2. \A i, j \in DOMAIN catalog : i < j => catalog[i].id < catalog[j].id
    BY InputsAssumption
<1>3. \A e \in Entry : e.id \in Nat
    BY DEF Entry
<1> QED
    BY <1>1, <1>2, <1>3

\* The concepts in a sequence of words are finitely many words.
LEMMA ConceptsFacts ==
    ASSUME NEW s \in Seq(Words)
    PROVE  ConceptsIn(s) \in SUBSET Words /\ IsFiniteSet(ConceptsIn(s))
<1>1. Definite(Dictionary, Words)
    BY InputsAssumption DEF Definite
<1>2. Detected(Dictionary, s) \in Seq(Words)
  <2>1. Len(s) \in Nat /\ 1 \in 1..Len(s) + 1
      OBVIOUS
  <2>2. PICK from \in [1..Len(s) + 1 -> Seq(Words)] : Detected(Dictionary, s) = from[1]
      BY <1>1, <2>1, DetectedEquation
  <2> QED
      BY <2>1, <2>2
<1> QED
    BY <1>2, WordsOfSequence DEF ConceptsIn

\* Every word that a score looks for is among all the words of a document,
\* and a normalized alias has one.
LEMMA DocumentFacts ==
    ASSUME NEW e \in Entry
    PROVE  LET d == Document(e) IN
           /\ d.command_tokens \subseteq d.all_tokens
           /\ d.keyword_tokens \subseteq d.all_tokens
           /\ d.title_tokens \subseteq d.all_tokens
           /\ d.concept_tokens \subseteq d.all_tokens
           /\ \A a \in d.aliases_normalized :
                a # <<>> /\ a \in Seq(Words) /\ ToSet(a) \subseteq d.all_tokens
<1> DEFINE d == Document(e)
<1>1. /\ e.command \in AllFields(e) /\ e.title \in AllFields(e)
      /\ e.keywords \subseteq AllFields(e) /\ e.aliases \subseteq AllFields(e)
    BY DEF AllFields
<1>2. \A s \in AllFields(e) : ToSet(s) \subseteq WordsOf(AllFields(e))
    BY DEF WordsOf
<1>3. WordsOf(e.keywords) \subseteq WordsOf(AllFields(e))
    BY <1>1 DEF WordsOf
<1>4. /\ d.all_tokens = WordsOf(AllFields(e)) \cup d.concept_tokens
      /\ d.command_tokens = ToSet(e.command) /\ d.title_tokens = ToSet(e.title)
      /\ d.keyword_tokens = WordsOf(e.keywords)
      /\ d.aliases_normalized = {Deduplicated(a) : a \in e.aliases} \ {<<>>}
    BY DEF Document
<1>5. ASSUME NEW a \in d.aliases_normalized
      PROVE  a # <<>> /\ a \in Seq(Words) /\ ToSet(a) \subseteq d.all_tokens
  <2>1. PICK b \in e.aliases : a = Deduplicated(b) /\ a # <<>>
      BY <1>4
  <2>2. b \in Seq(Words)
      BY DEF Entry
  <2>3. a \in Seq(Words) /\ ToSet(a) = ToSet(b)
      BY <2>1, <2>2, DeduplicatedProperties
  <2>4. ToSet(b) \subseteq WordsOf(AllFields(e))
      BY <1>1, <1>2
  <2> QED
      BY <1>4, <2>1, <2>3, <2>4
<1> HIDE DEF d
<1>6. /\ d.command_tokens \subseteq d.all_tokens
      /\ d.keyword_tokens \subseteq d.all_tokens
      /\ d.title_tokens \subseteq d.all_tokens
      /\ d.concept_tokens \subseteq d.all_tokens
    BY <1>1, <1>2, <1>3, <1>4
<1> QED
    BY <1>5, <1>6 DEF d

\* The documents, as soon as there are some.
LEMMA IndexFacts ==
    ASSUME catalog \in Catalogs,
           documents = [i \in DOMAIN catalog |-> Document(catalog[i])]
    PROVE  /\ Indices = 1..Len(catalog) /\ Len(catalog) \in Nat
           /\ Len(documents) = Len(catalog)
           /\ \A i \in Indices : \E e \in Entry : Doc(i) = Document(e)
<1>1. Indices = DOMAIN catalog /\ DOMAIN catalog = 1..Len(catalog) /\ Len(catalog) \in Nat
    BY CatalogFacts DEF Indices
<1>2. Len(documents) = Len(catalog)
    BY <1>1 DEF Indices
<1>3. \A i \in Indices : catalog[i] \in Entry /\ Doc(i) = Document(catalog[i])
    BY <1>1, CatalogFacts DEF Doc
<1> QED
    BY <1>1, <1>2, <1>3

\* A processed query has finitely many words and concepts.
LEMMA ContextFacts ==
    ASSUME query \in Queries, context = Process(query)
    PROVE  /\ Tokens \in Seq(Words) /\ IsFiniteSet(ToSet(Tokens))
           /\ IsFiniteSet(Concepts) /\ IsFiniteSet(FuzzyTokens)
<1>1. query.words \in Seq(Words)
    BY InputsAssumption
<1>2. Tokens = Deduplicated(query.words) /\ Concepts = ConceptsIn(query.words)
    BY DEF Tokens, Concepts, Process
<1>3. Tokens \in Seq(Words)
    BY <1>1, <1>2, DeduplicatedProperties
<1>4. IsFiniteSet(ToSet(Tokens))
    BY <1>3, WordsOfSequence
<1>5. FuzzyTokens \subseteq ToSet(Tokens)
    BY DEF FuzzyTokens
<1>6. IsFiniteSet(FuzzyTokens)
    BY <1>4, <1>5, FS_Subset
<1>7. IsFiniteSet(Concepts)
    BY <1>1, <1>2, ConceptsFacts
<1> QED
    BY <1>3, <1>4, <1>6, <1>7

\* The weight of a word is a number: a word of the index is in one document
\* or more, and in no more than there are.
LEMMA IdfFacts ==
    ASSUME catalog \in Catalogs,
           documents = [i \in DOMAIN catalog |-> Document(catalog[i])],
           idf = [w \in Vocabulary |-> Idf[Len(documents)][Cardinality(Postings(w))]]
    PROVE  \A w : IdfOf(w) \in Nat
<1> SUFFICES ASSUME NEW w PROVE IdfOf(w) \in Nat
    OBVIOUS
<1>1. CASE w \notin DOMAIN idf
    BY <1>1 DEF IdfOf
<1>2. CASE w \in DOMAIN idf
  <2> DEFINE P == Postings(w)
             n == Len(catalog)
  <2>1. w \in Vocabulary /\ IdfOf(w) = Idf[n][Cardinality(P)]
      BY <1>2, IndexFacts DEF IdfOf
  <2>2. P # {} /\ P \subseteq 1..n /\ n \in Nat
      BY <2>1, IndexFacts DEF Vocabulary, Postings
  <2> HIDE DEF P, n
  <2>3. IsFiniteSet(1..n) /\ Cardinality(1..n) = n
      BY <2>2, FS_Interval
  <2>4. IsFiniteSet(P) /\ Cardinality(P) <= n /\ Cardinality(P) \in Nat
      BY <2>2, <2>3, FS_Subset, FS_CardinalityType
  <2>5. Cardinality(P) # 0
      BY <2>2, <2>4, FS_EmptySet
  <2>6. Cardinality(P) \in 1..n
      BY <2>2, <2>4, <2>5
  <2> QED
      BY <2>1, <2>6, IdfAssumption DEF n
<1> QED
    BY <1>1, <1>2

-----------------------------------------------------------------------------
(* Scores.                                                                 *)

\* The weight of each field's words is a number, and no word weighs nothing.
LEMMA WordsScoreFacts ==
    ASSUME \A w : IdfOf(w) \in Nat, NEW base \in Nat, NEW words, IsFiniteSet(words)
    PROVE  /\ WordsScore(base, words) \in Nat
           /\ words = {} => WordsScore(base, words) = 0
<1> DEFINE f == [w \in words |-> IdfWeighted(base, IdfOf(w))]
<1>1. \A n \in Nat : IdfWeighted(base, n) \in Nat
  <2> TAKE n \in Nat
  <2> DEFINE m == Min({n, 250})
  <2>1. m \in Nat
      BY MinOfTwo
  <2> HIDE DEF m
  <2>2. base * (100 + m) \in Nat
      BY <2>1
  <2>3. \A k \in Nat : k \div 2 \in Nat
      OBVIOUS
  <2>4. (base * (100 + m)) \div 2 \in Nat
      BY <2>2, <2>3
  <2> QED
      BY <2>4 DEF IdfWeighted, m
<1>2. DOMAIN f = words /\ \A w \in words : f[w] \in Nat
    BY <1>1
<1> HIDE DEF f
<1>3. SumFunction(f) \in Nat /\ (words = {} => SumFunction(f) = 0)
    BY <1>2, SumProperties
<1> QED
    BY <1>3 DEF WordsScore, f

LEMMA FieldWeightFacts ==
    \A doc, w : FieldWeight(doc, w) \in {100, 80, 70, 60, 50, 40}
BY DEF FieldWeight

\* What a typo earns in a document is a number, and with no near word in it
\* nothing.
LEMMA FuzzyFacts ==
    ASSUME IsFiniteSet(DOMAIN near), NEW doc
    PROVE  /\ Fuzzy(doc) \in Nat
           /\ (\A w \in DOMAIN near : near[w] \cap doc.all_tokens = {}) => Fuzzy(doc) = 0
<1> DEFINE S == {w \in DOMAIN near : near[w] \cap doc.all_tokens # {}}
           scores(w) == {FuzzyScore(doc, w, v) : v \in near[w] \cap doc.all_tokens}
           f == [w \in S |-> Max(scores(w))]
<1>1. \A w, v : FuzzyScore(doc, w, v) \in 0..800
  <2> SUFFICES ASSUME NEW w, NEW v PROVE FuzzyScore(doc, w, v) \in 0..800
      OBVIOUS
  <2> DEFINE near1 == IF Distance[w, v] <= 1 THEN 100 ELSE 65
             weight == FieldWeight(doc, v)
  <2>1. near1 \in {100, 65} /\ weight \in {100, 80, 70, 60, 50, 40}
      BY FieldWeightFacts
  <2>2. FuzzyScore(doc, w, v) = (8 * near1 * weight) \div 100
      BY DEF FuzzyScore
  <2> HIDE DEF near1, weight
  <2> QED
      BY <2>1, <2>2
<1>2. \A w \in S : Max(scores(w)) \in Nat
  <2> TAKE w \in S
  <2>1. scores(w) \in SUBSET (0..800) /\ scores(w) # {}
      BY <1>1
  <2> HIDE DEF scores
  <2>2. \A T \in SUBSET (0..800) : T # {} => Max(T) \in T
      BY MaxProperty
  <2>3. Max(scores(w)) \in 0..800
      BY <2>1, <2>2
  <2> QED
      BY <2>3
<1>3. IsFiniteSet(S)
    BY FS_Subset
<1>4. DOMAIN f = S /\ \A w \in S : f[w] \in Nat
    BY <1>2
<1>5. (\A w \in DOMAIN near : near[w] \cap doc.all_tokens = {}) => S = {}
    OBVIOUS
<1>6. Fuzzy(doc) = SumFunction(f)
    BY DEF Fuzzy
<1> HIDE DEF f, S
<1>7. SumFunction(f) \in Nat /\ (S = {} => SumFunction(f) = 0)
    BY <1>3, <1>4, SumProperties
<1> QED
    BY <1>5, <1>6, <1>7

\* Everything a score is made of is a number.
ScoresDefined ==
    /\ \A w : IdfOf(w) \in Nat
    /\ Tokens \in Seq(Words) /\ IsFiniteSet(ToSet(Tokens)) /\ IsFiniteSet(Concepts)
    /\ IsFiniteSet(DOMAIN near)

LEMMA PartsAreNumbers ==
    ASSUME NEW doc
    PROVE  /\ ExactAlias(doc) \in {0, 10000} /\ Phrase(doc) \in {0, 4000}
           /\ Command(doc) \in {0, 3000}
           /\ \A n : IntentBonus(n, doc) \in {0, 2000}
    BY DEF ExactAlias, Phrase, Command, IntentBonus

LEMMA RelevanceIsNumber ==
    ASSUME ScoresDefined, NEW doc
    PROVE  Relevance(doc) \in Nat
<1> DEFINE a == ExactAlias(doc)
           b == Phrase(doc)
           c == Command(doc)
           d == WordsScore(20, ToSet(Tokens) \cap doc.keyword_tokens)
           e == WordsScore(10, ToSet(Tokens) \cap doc.title_tokens)
           f == WordsScore(6, ToSet(Tokens) \cap doc.all_tokens)
           g == WordsScore(15, Concepts \cap doc.concept_tokens)
           h == Fuzzy(doc)
<1>1. Relevance(doc) = a + b + c + d + e + f + g + h
    BY DEF Relevance
<1>2. a \in Nat /\ b \in Nat /\ c \in Nat
    BY PartsAreNumbers
<1>3. \A S : /\ IsFiniteSet(ToSet(Tokens) \cap S) /\ IsFiniteSet(Concepts \cap S)
    BY FS_Subset DEF ScoresDefined
<1>4. d \in Nat /\ e \in Nat /\ f \in Nat /\ g \in Nat
    BY <1>3, WordsScoreFacts DEF ScoresDefined
<1>5. h \in Nat
    BY FuzzyFacts DEF ScoresDefined
<1> HIDE DEF a, b, c, d, e, f, g, h
<1> QED
    BY <1>1, <1>2, <1>4, <1>5

\* The numbers of a result.
LEMMA ResultFacts ==
    ASSUME ScoresDefined, NEW i
    PROVE  /\ Result(i).entry = i
           /\ Result(i).score \in Nat /\ Result(i).exact \in Nat /\ Result(i).intent \in Nat
           /\ Relevance(Doc(i)) = 0 => Result(i).score = 0
<1> DEFINE n == Relevance(Doc(i))
           m == IntentBonus(n, Doc(i))
<1>1. n \in Nat
    BY RelevanceIsNumber
<1>2. m \in Nat
    BY PartsAreNumbers
<1>3. n = 0 => m = 0
    BY DEF IntentBonus, MeaningfulScore
<1>4. ExactAlias(Doc(i)) \in Nat /\ Phrase(Doc(i)) \in Nat
    BY PartsAreNumbers
<1>5. Result(i) = [entry |-> i, score |-> n + m,
                   exact |-> ExactAlias(Doc(i)) + Phrase(Doc(i)), intent |-> m]
    BY DEF Result
<1> HIDE DEF n, m
<1>6. Relevance(Doc(i)) = n
    BY DEF n
<1> QED
    BY <1>1, <1>2, <1>3, <1>4, <1>5, <1>6

-----------------------------------------------------------------------------
(* The index is exhaustive.                                                *)

\* A document without a word, a concept or a near word of the query scores
\* nothing.
LEMMA NothingInCommon ==
    ASSUME ScoresDefined, NEW e \in Entry, NEW doc, doc = Document(e),
           ToSet(Tokens) \cap doc.all_tokens = {},
           Concepts \cap doc.all_tokens = {},
           \A w \in DOMAIN near : near[w] \cap doc.all_tokens = {}
    PROVE  Relevance(doc) = 0
<1>1. /\ doc.command_tokens \subseteq doc.all_tokens
      /\ doc.keyword_tokens \subseteq doc.all_tokens
      /\ doc.title_tokens \subseteq doc.all_tokens
      /\ doc.concept_tokens \subseteq doc.all_tokens
      /\ \A a \in doc.aliases_normalized :
            a # <<>> /\ a \in Seq(Words) /\ ToSet(a) \subseteq doc.all_tokens
    BY DocumentFacts
<1>2. Tokens \in Seq(Words)
    BY DEF ScoresDefined
<1>3. \A k \in 1..Len(Tokens) : Tokens[k] \notin doc.all_tokens
    BY <1>2, WordsOfSequence
<1>4. \A a \in doc.aliases_normalized : /\ 1 \in 1..Len(a) /\ a[1] \in doc.all_tokens
  <2> SUFFICES ASSUME NEW a \in doc.aliases_normalized
               PROVE  1 \in 1..Len(a) /\ a[1] \in doc.all_tokens
      OBVIOUS
  <2>1. a \in Seq(Words) /\ a # <<>> /\ ToSet(a) \subseteq doc.all_tokens
      BY <1>1
  <2>2. 1 \in 1..Len(a)
      BY <2>1
  <2> QED
      BY <2>1, <2>2, WordsOfSequence
<1>5. ExactAlias(doc) = 0
    BY <1>3, <1>4 DEF ExactAlias, Normalized, Tokens
<1>6. Phrase(doc) = 0
  <2>1. ASSUME NEW a \in doc.aliases_normalized
        PROVE  ~ContainsPhrase(Normalized, a)
    <3> SUFFICES ASSUME NEW k \in 1..Len(Tokens), OccursAt(a, Tokens, k)
                 PROVE  FALSE
        BY DEF ContainsPhrase, Normalized, Tokens
    <3>1. Tokens[k + 1 - 1] = a[1]
        BY <1>4 DEF OccursAt
    <3>2. k + 1 - 1 = k
        BY <1>2
    <3> QED
        BY <1>3, <1>4, <3>1, <3>2
  <2>2. ~(Cardinality(Concepts) >= 2 /\ Concepts \subseteq doc.concept_tokens)
    <3>1. Concepts \subseteq doc.concept_tokens => Concepts = {}
        BY <1>1
    <3>2. Cardinality({}) = 0
        BY FS_EmptySet
    <3> QED
        BY <3>1, <3>2
  <2> QED
      BY <2>1, <2>2 DEF Phrase
<1>7. Command(doc) = 0
  <2>1. Tokens # <<>> => 1 \in 1..Len(Tokens)
      BY <1>2
  <2> QED
      BY <1>1, <1>3, <2>1 DEF Command
<1>8. /\ ToSet(Tokens) \cap doc.keyword_tokens = {}
      /\ ToSet(Tokens) \cap doc.title_tokens = {}
      /\ ToSet(Tokens) \cap doc.all_tokens = {}
      /\ Concepts \cap doc.concept_tokens = {}
    BY <1>1
<1>9. /\ WordsScore(20, ToSet(Tokens) \cap doc.keyword_tokens) = 0
      /\ WordsScore(10, ToSet(Tokens) \cap doc.title_tokens) = 0
      /\ WordsScore(6, ToSet(Tokens) \cap doc.all_tokens) = 0
      /\ WordsScore(15, Concepts \cap doc.concept_tokens) = 0
  <2>1. IsFiniteSet({})
      BY FS_EmptySet
  <2>2. \A n \in Nat : \A words : words = {} => WordsScore(n, words) = 0
      BY <2>1, WordsScoreFacts DEF ScoresDefined
  <2> QED
      BY <1>8, <2>2
<1>10. Fuzzy(doc) = 0
    BY FuzzyFacts DEF ScoresDefined
<1> QED
    BY <1>5, <1>6, <1>7, <1>9, <1>10 DEF Relevance

\* What the earlier stages leave is all a score needs.
LEMMA ScoresAreDefined ==
    ASSUME IInv, pc = "score" \/ Answered
    PROVE  ScoresDefined
<1>1. pc \in Stages \ {"build", "weigh"} /\ pc \in Stages \ {"build"}
    BY DEF Answered, Stages
<1>2. /\ catalog \in Catalogs /\ query \in Queries
      /\ documents = [i \in DOMAIN catalog |-> Document(catalog[i])]
      /\ idf = [w \in Vocabulary |-> Idf[Len(documents)][Cardinality(Postings(w))]]
      /\ context = Process(query)
      /\ Found \/ NothingAsked
  <2>1. catalog \in Catalogs /\ query \in Queries
      BY DEF IInv, Inputs
  <2>2. /\ documents = [i \in DOMAIN catalog |-> Document(catalog[i])]
        /\ idf = [w \in Vocabulary |-> Idf[Len(documents)][Cardinality(Postings(w))]]
      BY <1>1 DEF IInv, IndexBuilt, Indexed, Weighed
  <2>3. context = Process(query)
      BY DEF IInv, QueryProcessed
  <2>4. Found \/ NothingAsked
      BY DEF IInv, QueryProcessed
  <2> QED
      BY <2>1, <2>2, <2>3, <2>4
<1>3. \A w : IdfOf(w) \in Nat
    BY <1>2, IdfFacts
<1>4. /\ Tokens \in Seq(Words) /\ IsFiniteSet(ToSet(Tokens))
      /\ IsFiniteSet(Concepts) /\ IsFiniteSet(FuzzyTokens)
    BY <1>2, ContextFacts
<1>5. IsFiniteSet(DOMAIN near)
  <2>1. Found => DOMAIN near = FuzzyTokens
      BY DEF Found
  <2>2. NothingAsked => DOMAIN near = {}
      BY DEF NothingAsked
  <2> QED
      BY <1>2, <1>4, <2>1, <2>2, FS_EmptySet
<1> QED
    BY <1>3, <1>4, <1>5 DEF ScoresDefined

\* Whoever is not a candidate scores nothing.
LEMMA OthersScoreNothing ==
    ASSUME IInv, pc = "score" \/ Answered, NEW i \in Indices \ candidates
    PROVE  Result(i).score = 0
<1>1. ScoresDefined
    BY ScoresAreDefined
<1>2. /\ catalog \in Catalogs
      /\ documents = [k \in DOMAIN catalog |-> Document(catalog[k])]
      /\ Found \/ NothingAsked
    BY DEF IInv, Inputs, IndexBuilt, QueryProcessed, Indexed, Answered, Stages
<1>3. PICK e \in Entry : Doc(i) = Document(e)
    BY <1>2, IndexFacts
<1> DEFINE doc == Doc(i)
<1>4. \A w : i \in Postings(w) <=> w \in doc.all_tokens
    BY DEF Postings
<1>5. CASE Found
  <2>1. candidates = Candidates(near) /\ DOMAIN near = FuzzyTokens
      BY <1>5 DEF Found
  <2>2. i \notin Direct /\ \A w \in FuzzyTokens : \A v \in near[w] : i \notin Postings(v)
      BY <2>1 DEF Candidates
  <2>3. \A w \in ToSet(Tokens) \cup Concepts : i \notin Postings(w)
      BY <2>2 DEF Direct
  <2> HIDE DEF doc
  <2> QED
      BY <1>1, <1>3, <1>4, <2>1, <2>2, <2>3, NothingInCommon, ResultFacts DEF doc
<1>6. CASE NothingAsked
  <2>1. ToSet(Tokens) = {} /\ Concepts = {} /\ DOMAIN near = {}
      BY <1>6 DEF NothingAsked, Tokens, Concepts, ToSet
  <2> QED
      BY <1>1, <1>3, <2>1, NothingInCommon, ResultFacts
<1> QED
    BY <1>2, <1>5, <1>6

-----------------------------------------------------------------------------
(* The near words that are kept.                                           *)

\* A union of finitely many finite sets is finite.
LEMMA UnionIsFinite ==
    ASSUME NEW F, IsFiniteSet(F), NEW g, DOMAIN g = F, \A x \in F : IsFiniteSet(g[x])
    PROVE  IsFiniteSet(UNION {g[x] : x \in F})
<1> DEFINE T == {g[x] : x \in F}
           f == [x \in F |-> g[x]]
<1>1. f \in Surjection(F, T)
    BY DEF Surjection
<1>2. IsFiniteSet(T)
    BY <1>1, FS_Surjection
<1>3. \A S \in T : IsFiniteSet(S)
    OBVIOUS
<1> HIDE DEF T
<1> QED
    BY <1>2, <1>3, FS_UNION DEF T

\* A document has finitely many words.
LEMMA DocumentIsFinite ==
    ASSUME NEW e \in Entry, IsFiniteSet(e.aliases), IsFiniteSet(e.keywords)
    PROVE  /\ IsFiniteSet(Document(e).all_tokens)
           /\ Document(e).all_tokens \subseteq Words
<1> DEFINE F == AllFields(e)
           words == [s \in F |-> ToSet(s)]
           concepts == [s \in F |-> ConceptsIn(s)]
<1>1. \A s \in F : s \in Seq(Words)
    BY DEF AllFields, Entry
<1>2. IsFiniteSet(F)
  <2>1. IsFiniteSet({e.id_words, e.title, e.command})
    <3>1. IsFiniteSet({e.id_words}) /\ IsFiniteSet({e.title}) /\ IsFiniteSet({e.command})
        BY FS_Singleton
    <3>2. IsFiniteSet({e.id_words} \cup {e.title})
        BY <3>1, FS_Union
    <3>3. IsFiniteSet(({e.id_words} \cup {e.title}) \cup {e.command})
        BY <3>1, <3>2, FS_Union
    <3>4. ({e.id_words} \cup {e.title}) \cup {e.command} = {e.id_words, e.title, e.command}
        OBVIOUS
    <3> QED
        BY <3>3, <3>4
  <2>2. IsFiniteSet({e.id_words, e.title, e.command} \cup e.aliases)
      BY <2>1, FS_Union
  <2> QED
      BY <2>2, FS_Union DEF AllFields
<1> HIDE DEF F
<1>3. \A s \in F : /\ ToSet(s) \in SUBSET Words /\ IsFiniteSet(ToSet(s))
                   /\ ConceptsIn(s) \in SUBSET Words /\ IsFiniteSet(ConceptsIn(s))
    BY <1>1, WordsOfSequence, ConceptsFacts
<1>4. DOMAIN words = F /\ \A s \in F : words[s] = ToSet(s)
    OBVIOUS
<1>5. DOMAIN concepts = F /\ \A s \in F : concepts[s] = ConceptsIn(s)
    OBVIOUS
<1> DEFINE A == UNION {words[s] : s \in F}
           B == UNION {concepts[s] : s \in F}
<1>6. Document(e).all_tokens = A \cup B
  <2>1. A = UNION {ToSet(s) : s \in F} /\ B = UNION {ConceptsIn(s) : s \in F}
      BY <1>4, <1>5
  <2> QED
      BY <2>1 DEF Document, WordsOf, F
<1> HIDE DEF words, concepts
<1>7. IsFiniteSet(A) /\ IsFiniteSet(B)
    BY <1>2, <1>3, <1>4, <1>5, UnionIsFinite
<1>8. IsFiniteSet(Document(e).all_tokens)
  <2> HIDE DEF A, B
  <2> QED
      BY <1>6, <1>7, FS_Union
<1>9. Document(e).all_tokens \subseteq Words
  <2>1. \A s \in F : words[s] \in SUBSET Words /\ concepts[s] \in SUBSET Words
      BY <1>3, <1>4, <1>5
  <2> QED
      BY <1>6, <2>1
<1> QED
    BY <1>8, <1>9

\* The index has finitely many words, so finitely many are near a query word.
LEMMA VocabularyIsFinite ==
    ASSUME catalog \in Catalogs,
           documents = [i \in DOMAIN catalog |-> Document(catalog[i])]
    PROVE  IsFiniteSet(Vocabulary) /\ Vocabulary \subseteq Words
<1>1. Indices = 1..Len(catalog) /\ Len(catalog) \in Nat /\ DOMAIN catalog = 1..Len(catalog)
    BY IndexFacts, CatalogFacts
<1>2. \A i \in Indices : /\ catalog[i] \in Entry /\ Doc(i) = Document(catalog[i])
                         /\ IsFiniteSet(catalog[i].aliases)
                         /\ IsFiniteSet(catalog[i].keywords)
    BY <1>1, CatalogFacts, InputsAssumption DEF Doc
<1>3. \A i \in Indices : IsFiniteSet(Doc(i).all_tokens) /\ Doc(i).all_tokens \subseteq Words
    BY <1>2, DocumentIsFinite
<1>4. IsFiniteSet(Indices)
    BY <1>1, FS_Interval
<1> DEFINE g == [i \in Indices |-> Doc(i).all_tokens]
<1>5. DOMAIN g = Indices /\ \A i \in Indices : g[i] = Doc(i).all_tokens
    OBVIOUS
<1>6. Vocabulary = UNION {g[i] : i \in Indices}
    BY <1>5 DEF Vocabulary
<1> HIDE DEF g
<1>7. IsFiniteSet(Vocabulary)
    BY <1>3, <1>4, <1>5, <1>6, UnionIsFinite
<1> QED
    BY <1>3, <1>7 DEF Vocabulary

\* The comparison of the sort puts one of two words first, and is the order
\* of the promise.
LEMMA CloserFacts ==
    ASSUME NEW word \in Words
    PROVE  \A u, v \in Words :
            /\ Closer(word, u, v) <=> Nearer(word, u, v)
            /\ u # v => Nearer(word, u, v) \/ Nearer(word, v, u)
            /\ ~Nearer(word, u, u)
<1> SUFFICES ASSUME NEW u \in Words, NEW v \in Words
             PROVE  /\ Closer(word, u, v) <=> Nearer(word, u, v)
                    /\ u # v => Nearer(word, u, v) \/ Nearer(word, v, u)
                    /\ ~Nearer(word, u, u)
    OBVIOUS
<1>1. /\ Distance[word, u] \in Nat /\ Distance[word, v] \in Nat
      /\ WordRank[u] \in Nat /\ WordRank[v] \in Nat
      /\ u # v => WordRank[u] # WordRank[v]
    BY WordsAssumption
<1> DEFINE du == Distance[word, u]
           dv == Distance[word, v]
           ru == WordRank[u]
           rv == WordRank[v]
<1>2. /\ Closer(word, u, v) <=> IF du # dv THEN du < dv ELSE ru < rv
      /\ Nearer(word, u, v) <=> (du < dv \/ (du = dv /\ ru < rv))
      /\ Nearer(word, v, u) <=> (dv < du \/ (dv = du /\ rv < ru))
      /\ Nearer(word, u, u) <=> (du < du \/ (du = du /\ ru < ru))
    BY DEF Closer, Nearer
<1>3. /\ du \in Nat /\ dv \in Nat /\ ru \in Nat /\ rv \in Nat
      /\ u # v => ru # rv
    BY <1>1
<1> HIDE DEF du, dv, ru, rv
<1> QED
    BY <1>2, <1>3

\* Whatever the sort and the cut leave, it is the nearest words: fewer than
\* the limit are nearer than one that is kept, and all that are kept are nearer
\* than one that is not.
LEMMA CutIsNearest ==
    ASSUME NEW word \in Words, IsFiniteSet(Vocabulary), Vocabulary \subseteq Words,
           NEW kept \in Cuts(word)
    PROVE  kept = Nearest(word)
<1> DEFINE C == Close(word)
           ahead(v) == {u \in C : Nearer(word, u, v)}
           L == FuzzyMatchLimit
<1>1. C \subseteq Vocabulary
    BY DEF Close
<1>2. IsFiniteSet(C) /\ C \subseteq Words
    BY <1>1, FS_Subset
<1>3. /\ kept \in SUBSET C /\ Cardinality(kept) = Min({L, Cardinality(C)})
      /\ \A v \in kept : \A u \in C \ kept : ~Closer(word, u, v)
    BY DEF Cuts
<1>4. Nearest(word) = {v \in C : Cardinality(ahead(v)) < L}
    BY DEF Nearest
<1> HIDE DEF C
<1>5. L \in Nat
    BY InputsAssumption
<1> HIDE DEF L
<1>6. /\ IsFiniteSet(kept) /\ Cardinality(kept) \in Nat /\ Cardinality(C) \in Nat
      /\ Cardinality(kept) = Cardinality(C) => kept = C
    BY <1>2, <1>3, FS_Subset, FS_CardinalityType
<1>7. Cardinality(kept) = IF L <= Cardinality(C) THEN L ELSE Cardinality(C)
    BY <1>3, <1>5, <1>6, MinOfTwo
<1>8. \A v : /\ ahead(v) \in SUBSET C /\ IsFiniteSet(ahead(v))
             /\ Cardinality(ahead(v)) \in Nat
    BY <1>2, FS_Subset, FS_CardinalityType
<1>9. ASSUME NEW v \in kept PROVE Cardinality(ahead(v)) < L
  <2>1. ahead(v) \in SUBSET (kept \ {v})
      BY <1>2, <1>3, CloserFacts
  <2>2. /\ IsFiniteSet(kept \ {v})
        /\ Cardinality(kept \ {v}) = Cardinality(kept) - 1
      BY <1>6, FS_RemoveElement
  <2>3. Cardinality(ahead(v)) <= Cardinality(kept \ {v})
      BY <2>1, <2>2, FS_Subset
  <2> HIDE DEF ahead
  <2> QED
      BY <1>5, <1>6, <1>7, <1>8, <2>2, <2>3
<1>10. ASSUME NEW v \in C \ kept PROVE ~(Cardinality(ahead(v)) < L)
  <2>1. kept \in SUBSET ahead(v)
      BY <1>2, <1>3, CloserFacts
  <2>2. Cardinality(kept) <= Cardinality(ahead(v))
      BY <1>8, <2>1, FS_Subset
  <2>3. Cardinality(kept) = L
      BY <1>6, <1>7
  <2> HIDE DEF ahead
  <2> QED
      BY <1>5, <1>8, <2>2, <2>3
<1> HIDE DEF ahead
<1> QED
    BY <1>3, <1>4, <1>9, <1>10

-----------------------------------------------------------------------------
(* The order of the results.                                               *)

LEMMA ScanFacts ==
    ASSUME ScoresDefined, NEW r \in Scan
    PROVE  /\ r.entry \in Indices /\ r = Result(r.entry)
           /\ r.score \in Nat /\ r.exact \in Nat /\ r.intent \in Nat
<1>1. PICK i \in Indices : r = Result(i)
    BY DEF Scan
<1> QED
    BY <1>1, ResultFacts

\* The candidates are entries of the catalog.
LEMMA CandidatesAreEntries ==
    ASSUME Found \/ NothingAsked
    PROVE  candidates \subseteq Indices
<1>1. Candidates(near) \subseteq Indices
    BY DEF Candidates, Direct, Postings
<1> QED
    BY <1>1 DEF Found, NothingAsked

LEMMA HitFacts ==
    ASSUME ScoresDefined, Found \/ NothingAsked, NEW r \in Hits
    PROVE  /\ r \in Scan /\ r.score >= MeaningfulScore
           /\ r.entry \in candidates /\ r = Result(r.entry)
<1>1. PICK i \in candidates : r = Result(i)
    BY DEF Hits
<1>2. r \in Scan /\ r.score >= MeaningfulScore
    BY <1>1, CandidatesAreEntries DEF Scan, Hits
<1> QED
    BY <1>1, <1>2, ResultFacts

\* Two results that the comparison leaves in this order are strictly ordered:
\* the id decides last.
LEMMA OrderIsStrict ==
    ASSUME ScoresDefined, IInv, pc = "score" \/ Answered,
           NEW r \in Scan, NEW s \in Scan, r.entry # s.entry, ~Before(s, r)
    PROVE  Outranks(r, s)
<1>1. /\ r.entry \in Indices /\ s.entry \in Indices
      /\ r.score \in Nat /\ r.exact \in Nat /\ r.intent \in Nat
      /\ s.score \in Nat /\ s.exact \in Nat /\ s.intent \in Nat
    BY ScanFacts
<1>2. Indices = DOMAIN catalog
    BY DEF IInv, IndexBuilt, Indexed, Answered, Stages, Indices
<1>3. catalog \in Catalogs
    BY DEF IInv, Inputs
<1>4. /\ catalog[r.entry].id \in Nat /\ catalog[s.entry].id \in Nat
      /\ catalog[r.entry].id # catalog[s.entry].id
  <2>1. r.entry \in Nat /\ s.entry \in Nat
      BY <1>1, <1>2, <1>3, CatalogFacts
  <2>2. r.entry < s.entry \/ s.entry < r.entry
      BY <2>1
  <2> QED
      BY <1>1, <1>2, <1>3, <2>2, CatalogFacts
<1> QED
    BY <1>1, <1>4 DEF Before, Outranks

\* Nothing outranks itself.
LEMMA OrderIsIrreflexive ==
    ASSUME ScoresDefined, IInv, pc = "score" \/ Answered, NEW r \in Scan
    PROVE  ~Outranks(r, r)
<1>1. /\ r.entry \in Indices
      /\ r.score \in Nat /\ r.exact \in Nat /\ r.intent \in Nat
    BY ScanFacts
<1>2. Indices = DOMAIN catalog /\ catalog \in Catalogs
    BY DEF IInv, Inputs, IndexBuilt, Indexed, Answered, Stages, Indices
<1>3. catalog[r.entry].id \in Nat
    BY <1>1, <1>2, CatalogFacts
<1> QED
    BY <1>1, <1>3 DEF Outranks

LEMMA OutranksScore ==
    ASSUME ScoresDefined, NEW r \in Scan, NEW s \in Scan, Outranks(r, s)
    PROVE  r.score >= s.score
    BY ScanFacts DEF Outranks

\* A sorting is a permutation in that order.
LEMMA SortingFacts ==
    ASSUME ScoresDefined, IInv, pc = "score", NEW sorted \in Sortings(results, Before)
    PROVE  /\ sorted \in Seq(Hits) /\ ToSet(sorted) = ToSet(results)
           /\ \A k, l \in 1..Len(sorted) : k < l => Outranks(sorted[k], sorted[l])
<1> DEFINE N == Len(results)
<1>1. /\ results \in Seq(Hits)
      /\ \A k, l \in DOMAIN results : k # l => results[k].entry # results[l].entry
    BY DEF IInv, Scored
<1>2. DOMAIN results = 1..N /\ N \in Nat /\ \A k \in 1..N : results[k] \in Hits
    BY <1>1
<1>3. PICK p \in Injections(1..N) : sorted = [k \in 1..N |-> results[p[k]]]
    BY <1>2 DEF Sortings
<1>4. p \in [1..N -> 1..N] /\ \A k, l \in 1..N : k # l => p[k] # p[l]
    BY <1>3 DEF Injections
<1>5. \A k \in 1..N : p[k] \in 1..N /\ sorted[k] = results[p[k]]
    BY <1>3, <1>4
<1>6. sorted \in Seq(Hits) /\ Len(sorted) = N /\ DOMAIN sorted = 1..N
  <2>1. sorted \in [1..N -> Hits]
      BY <1>2, <1>3, <1>5
  <2> HIDE DEF N
  <2> QED
      BY <1>2, <2>1
<1>7. \A m \in 1..N : \E k \in 1..N : p[k] = m
  <2>1. p \in Injection(1..N, 1..N)
      BY <1>4 DEF Injection, IsInjective
  <2>2. IsFiniteSet(1..N)
      BY <1>2, FS_Interval
  <2>3. p \in Surjection(1..N, 1..N)
      BY <2>1, <2>2, FS_Injection
  <2> QED
      BY <2>3 DEF Surjection
<1>8. ToSet(sorted) = ToSet(results)
  <2> HIDE DEF N
  <2>1. ToSet(sorted) = {sorted[k] : k \in 1..N} /\ ToSet(results) = {results[k] : k \in 1..N}
      BY <1>2, <1>6 DEF ToSet
  <2>2. \A k \in 1..N : \E m \in 1..N : sorted[k] = results[m]
      BY <1>5
  <2>3. \A m \in 1..N : \E k \in 1..N : sorted[k] = results[m]
      BY <1>5, <1>7
  <2> QED
      BY <2>1, <2>2, <2>3
<1>9. \A k, l \in 1..N : k < l => ~Before(sorted[l], sorted[k])
    BY <1>2 DEF Sortings
<1>10. ASSUME NEW k \in 1..N, NEW l \in 1..N, k < l
       PROVE  Outranks(sorted[k], sorted[l])
  <2>1. sorted[k] \in Scan /\ sorted[l] \in Scan
      BY <1>2, <1>5, HitFacts DEF IInv, QueryProcessed
  <2>2. sorted[k].entry # sorted[l].entry
      BY <1>1, <1>2, <1>4, <1>5, <1>10
  <2> QED
      BY <1>9, <1>10, <2>1, <2>2, OrderIsStrict
<1> QED
    BY <1>6, <1>8, <1>10

LEMMA LimitFacts ==
    ASSUME IInv
    PROVE  SearchLimit \in Nat /\ SearchLimit >= 2
<1>1. limit \in Nat
    BY InputsAssumption DEF IInv, Inputs
<1> QED
    BY <1>1, MaxOfTwo DEF SearchLimit

\* The first so many of a sequence.
LEMMA TruncatedFacts ==
    ASSUME NEW R, NEW t \in Seq(R), NEW n \in Nat
    PROVE  LET s == Truncated(t, n) IN
           /\ s \in Seq(R) /\ Len(s) = IF n <= Len(t) THEN n ELSE Len(t)
           /\ \A k \in 1..Len(s) : k \in 1..Len(t) /\ s[k] = t[k]
<1> DEFINE m == IF n <= Len(t) THEN n ELSE Len(t)
<1>1. Len(t) \in Nat /\ m \in Nat /\ m <= Len(t)
    OBVIOUS
<1>2. Truncated(t, n) = SubSeq(t, 1, m)
    BY <1>1, MinOfTwo DEF Truncated
<1> HIDE DEF m
<1>3. \A k \in 1..m : t[k] \in R
    BY <1>1
<1>4. SubSeq(t, 1, m) = [k \in 1..m |-> t[k]]
    BY <1>1, <1>3
<1>5. SubSeq(t, 1, m) \in Seq(R) /\ Len(SubSeq(t, 1, m)) = m
    BY <1>1, <1>3, <1>4
<1> QED
    BY <1>1, <1>2, <1>4, <1>5 DEF m

\* What Rank makes of a sorting is the best of the hits.
LEMMA BestOfSorting ==
    ASSUME ScoresDefined, IInv, pc = "score", todo = {},
           NEW sorted \in Sortings(results, Before),
           NEW rs, rs = Truncated(sorted, SearchLimit)
    PROVE  /\ rs \in Seq(Hits)
           /\ \A k, l \in DOMAIN rs : k < l => Outranks(rs[k], rs[l])
           /\ \A r \in Hits \ ToSet(rs) :
                /\ Len(rs) = SearchLimit
                /\ \A s \in ToSet(rs) : Outranks(s, r)
<1> DEFINE n == SearchLimit
           N == Len(sorted)
<1>1. n \in Nat
    BY LimitFacts
<1>2. /\ sorted \in Seq(Hits) /\ ToSet(sorted) = ToSet(results)
      /\ \A k, l \in 1..N : k < l => Outranks(sorted[k], sorted[l])
    BY SortingFacts
<1>3. N \in Nat /\ DOMAIN sorted = 1..N
    BY <1>2
<1> HIDE DEF n, N
<1>4. /\ rs \in Seq(Hits) /\ Len(rs) = IF n <= N THEN n ELSE N
      /\ \A k \in 1..Len(rs) : k \in 1..N /\ rs[k] = sorted[k]
    BY <1>1, <1>2, TruncatedFacts DEF n, N
<1>5. DOMAIN rs = 1..Len(rs)
    BY <1>4
<1>6. \A k, l \in DOMAIN rs : k < l => Outranks(rs[k], rs[l])
    BY <1>2, <1>4, <1>5
<1>7. ASSUME NEW r \in Hits \ ToSet(rs)
      PROVE  Len(rs) = n /\ \A s \in ToSet(rs) : Outranks(s, r)
  <2>3. r.entry \in candidates
      BY HitFacts DEF IInv, QueryProcessed
  <2>4. r \in ToSet(sorted)
      BY <1>2, <2>3 DEF IInv, Scored
  <2>5. PICK m \in 1..N : sorted[m] = r
      BY <1>3, <2>4 DEF ToSet
  <2>6. m \notin 1..Len(rs)
    <3>1. ASSUME m \in 1..Len(rs) PROVE FALSE
      <4>1. rs[m] = r
          BY <1>4, <2>5, <3>1
      <4>2. r \in ToSet(rs)
          BY <1>5, <3>1, <4>1 DEF ToSet
      <4> QED
          BY <4>2
    <3> QED
        BY <3>1
  <2>7. Len(rs) = n /\ Len(rs) < m
      BY <1>1, <1>3, <1>4, <2>6
  <2>8. ASSUME NEW s \in ToSet(rs)
        PROVE  Outranks(s, r)
    <3>1. PICK k \in 1..Len(rs) : rs[k] = s
        BY <1>5 DEF ToSet
    <3>2. k \in 1..N /\ sorted[k] = s /\ k < m
        BY <1>1, <1>3, <1>4, <2>7, <3>1
    <3> QED
        BY <1>2, <2>5, <3>2
  <2> QED
      BY <2>7, <2>8
<1> QED
    BY <1>4, <1>6, <1>7 DEF n

-----------------------------------------------------------------------------
(* The invariant is inductive.                                             *)

LEMMA InvariantInit == Init => IInv
<1> SUFFICES ASSUME Init PROVE IInv
    OBVIOUS
<1>1. pc = "build" /\ near = <<>> /\ candidates = {} /\ results = <<>>
      /\ catalog \in Catalogs /\ query \in Queries /\ limit \in Limits
    BY DEF Init
<1>2. Inputs /\ IndexBuilt
    BY <1>1 DEF Inputs, Stages, IndexBuilt, Indexed, Weighed
<1>3. QueryProcessed /\ Scored /\ Ranking
    BY <1>1 DEF QueryProcessed, Scored, Ranking, Answered
<1> QED
    BY <1>1, <1>2, <1>3 DEF IInv, Done

LEMMA BuildDocumentsKeeps == ASSUME IInv, BuildDocuments PROVE IInv'
<1>1. pc = "build" /\ pc' = "weigh" /\ UNCHANGED <<asked, near, candidates, results>>
      /\ documents' = [i \in DOMAIN catalog |-> Document(catalog[i])]
    BY DEF BuildDocuments
<1>2. Inputs'
    BY <1>1 DEF IInv, Inputs, Stages, asked
<1>3. IndexBuilt'
    BY <1>1 DEF IndexBuilt, Weighed, asked
<1>4. QueryProcessed' /\ Scored' /\ Ranking'
    BY <1>1 DEF IInv, QueryProcessed, Scored, Ranking, Answered
<1> QED
    BY <1>1, <1>2, <1>3, <1>4 DEF IInv, Done

LEMMA WeighWordsKeeps == ASSUME IInv, WeighWords PROVE IInv'
<1>1. pc = "weigh" /\ pc' = "search" /\ UNCHANGED <<asked, documents, near, candidates, results>>
      /\ idf' = [w \in Vocabulary |-> Idf[Len(documents)][Cardinality(Postings(w))]]
    BY DEF WeighWords
<1>2. Inputs'
    BY <1>1 DEF IInv, Inputs, Stages, asked
<1>3. IndexBuilt'
  <2>1. documents' = [i \in DOMAIN catalog' |-> Document(catalog'[i])]
      BY <1>1 DEF IInv, IndexBuilt, Indexed, Stages, asked
  <2>2. idf' = [w \in Vocabulary |-> Idf[Len(documents)][Cardinality(Postings(w))]]'
      BY <1>1 DEF Vocabulary, Postings, Indices, Doc
  <2> QED
      BY <2>1, <2>2 DEF IndexBuilt
<1>4. QueryProcessed' /\ Scored' /\ Ranking'
    BY <1>1 DEF IInv, QueryProcessed, Scored, Ranking, Answered
<1> QED
    BY <1>1, <1>2, <1>3, <1>4 DEF IInv, Done

\* Once the index is built and weighed, a step that leaves it and the catalog
\* alone keeps it so.
LEMMA IndexStays ==
    ASSUME IInv, Weighed, Weighed', UNCHANGED <<asked, index>>
    PROVE  IndexBuilt'
<1>1. Indexed
    BY DEF Weighed, Indexed
<1>2. /\ documents = [i \in DOMAIN catalog |-> Document(catalog[i])]
      /\ idf = [w \in Vocabulary |-> Idf[Len(documents)][Cardinality(Postings(w))]]
    BY <1>1 DEF IInv, IndexBuilt
<1>3. documents' = [i \in DOMAIN catalog' |-> Document(catalog'[i])]
    BY <1>2 DEF asked, index
<1>4. idf' = [w \in Vocabulary |-> Idf[Len(documents)][Cardinality(Postings(w))]]'
    BY <1>2 DEF Vocabulary, Postings, Indices, Doc, asked, index
<1> QED
    BY <1>3, <1>4 DEF IndexBuilt

LEMMA ProcessQueryKeeps == ASSUME IInv, ProcessQuery PROVE IInv'
<1>1. pc = "search" /\ UNCHANGED <<asked, index, near, candidates, results>>
      /\ context' = Process(query)
      /\ \/ pc' = "candidates"
         \/ pc' = "decide" /\ context'.tokens = <<>> /\ context'.concepts = {}
    BY DEF ProcessQuery
<1>2. Inputs'
    BY <1>1 DEF IInv, Inputs, Stages, asked
<1>3. IndexBuilt'
    BY <1>1, IndexStays DEF Weighed, Stages
<1>4. near = <<>> /\ candidates = {} /\ results = <<>>
    BY <1>1 DEF IInv, QueryProcessed
<1>5. QueryProcessed'
  <2>1. context' = Process(query)'
      BY <1>1 DEF Process, asked
  <2>2. Answered' => NothingAsked'
      BY <1>1, <1>4 DEF Answered, NothingAsked
  <2> QED
      BY <1>1, <1>4, <2>1, <2>2 DEF QueryProcessed, Answered
<1>6. Scored'
    BY <1>1 DEF Scored
<1>7. Ranking'
  <2>1. Hits' = {} /\ results' = <<>>
      BY <1>1, <1>4 DEF Hits
  <2>2. <<>> \in Seq({}) /\ DOMAIN <<>> = {}
      OBVIOUS
  <2> QED
      BY <2>1, <2>2 DEF Ranking
<1> QED
    BY <1>1, <1>2, <1>3, <1>5, <1>6, <1>7 DEF IInv, Done

\* Scores are made of the index, the processed query and the near words.
LEMMA ScoresStay ==
    ASSUME UNCHANGED <<asked, index, context, near>>
    PROVE  /\ \A i : Result(i)' = Result(i)
           /\ Indices' = Indices /\ Scan' = Scan
<1>1. \A w : IdfOf(w)' = IdfOf(w)
    BY DEF IdfOf, index
<1>2. \A base, words : WordsScore(base, words)' = WordsScore(base, words)
  <2> TAKE base, words
  <2>1. [w \in words |-> IdfWeighted(base, IdfOf(w)')] = [w \in words |-> IdfWeighted(base, IdfOf(w))]
      BY <1>1
  <2> QED
      BY <2>1 DEF WordsScore
<1>3. Tokens' = Tokens /\ Normalized' = Normalized /\ Concepts' = Concepts
    BY DEF Tokens, Normalized, Concepts
<1>4. \A doc : Fuzzy(doc)' = Fuzzy(doc)
    BY DEF Fuzzy
<1>5. \A doc : ExactAlias(doc)' = ExactAlias(doc)
    BY <1>3 DEF ExactAlias
<1>6. \A doc : Phrase(doc)' = Phrase(doc) /\ Command(doc)' = Command(doc)
    BY <1>3, <1>5 DEF Phrase, Command
<1>7. \A n, doc : IntentBonus(n, doc)' = IntentBonus(n, doc)
    BY DEF IntentBonus, asked
<1>8. \A doc : Relevance(doc)' = Relevance(doc)
    BY <1>2, <1>3, <1>4, <1>5, <1>6 DEF Relevance
<1>9. \A i : Doc(i)' = Doc(i)
    BY DEF Doc, index
<1>10. \A i : Result(i)' = Result(i)
    BY <1>5, <1>6, <1>7, <1>8, <1>9 DEF Result
<1>11. Indices' = Indices
    BY DEF Indices, index
<1>12. Scan' = Scan
    BY <1>10, <1>11 DEF Scan
<1> QED
    BY <1>10, <1>11, <1>12

\* What candidates are found by depends on the index and the processed query.
LEMMA LookupStays ==
    ASSUME UNCHANGED <<index, context>>
    PROVE  /\ \A w : Postings(w)' = Postings(w)
           /\ FuzzyTokens' = FuzzyTokens /\ Direct' = Direct
           /\ \A w : Cuts(w)' = Cuts(w)
<1>1. /\ \A w : Postings(w)' = Postings(w)
      /\ Vocabulary' = Vocabulary /\ KnownCommands' = KnownCommands
      /\ Tokens' = Tokens /\ Concepts' = Concepts
    BY DEF Postings, Vocabulary, KnownCommands, Indices, Doc, Tokens, Concepts, index
<1>2. \A w : IsProtected(w)' = IsProtected(w)
    BY <1>1 DEF IsProtected
<1>3. FuzzyTokens' = FuzzyTokens
    BY <1>1, <1>2 DEF FuzzyTokens
<1>4. \A w : Close(w)' = Close(w)
    BY <1>1, <1>2, Zenon DEF Close
<1>5. \A w : Cuts(w)' = Cuts(w)
    BY <1>4, Zenon DEF Cuts
<1>6. Direct' = Direct
    BY <1>1 DEF Direct
<1> QED
    BY <1>1, <1>3, <1>5, <1>6

LEMMA FindCandidatesKeeps == ASSUME IInv, FindCandidates PROVE IInv'
<1>1. /\ pc = "candidates" /\ pc' = "score"
      /\ UNCHANGED <<asked, index, context, results>>
      /\ near' \in [FuzzyTokens -> UNION {Cuts(w) : w \in FuzzyTokens}]
      /\ \A w \in FuzzyTokens : near'[w] \in Cuts(w)
      /\ candidates' = Candidates(near') /\ todo' = Candidates(near')
    BY DEF FindCandidates
<1>2. Inputs'
    BY <1>1 DEF IInv, Inputs, Stages, asked
<1>3. IndexBuilt'
    BY <1>1, IndexStays DEF Weighed, Stages
<1>4. QueryProcessed'
  <2>1. context' = Process(query)'
      BY <1>1 DEF IInv, QueryProcessed, Process, asked
  <2>2. FuzzyTokens' = FuzzyTokens /\ \A w : Cuts(w)' = Cuts(w)
      BY <1>1, LookupStays
  <2>3. candidates' = Candidates(near)'
      BY <1>1, LookupStays DEF Candidates
  <2>4. Found'
      BY <1>1, <2>2, <2>3 DEF Found
  <2> QED
      BY <1>1, <2>1, <2>4 DEF QueryProcessed, Answered
<1>5. Scored'
  <2>1. results' = <<>> /\ todo' = candidates'
      BY <1>1 DEF IInv, QueryProcessed
  <2>2. <<>> \in Seq(Hits') /\ DOMAIN <<>> = {} /\ ToSet(<<>>) = {}
      BY DEF ToSet
  <2> QED
      BY <2>1, <2>2 DEF Scored
<1>6. Ranking'
    BY <1>1 DEF Ranking, Answered
<1> QED
    BY <1>1, <1>2, <1>3, <1>4, <1>5, <1>6 DEF IInv, Done

\* Once the candidates are found, the steps that follow leave alone all that
\* came before.
LEMMA EarlierStagesStay ==
    ASSUME IInv, pc = "score" \/ Answered, pc' = "score" \/ Answered',
           Answered => Answered', UNCHANGED <<asked, index, context, near, candidates>>,
           NothingAsked => UNCHANGED results
    PROVE  /\ Inputs' /\ IndexBuilt' /\ QueryProcessed'
           /\ Hits' = Hits /\ SearchLimit' = SearchLimit
           /\ \A i : Result(i)' = Result(i)
           /\ \A r, s : Outranks(r, s)' = Outranks(r, s)
<1>1. Inputs'
    BY DEF IInv, Inputs, Stages, asked, Answered
<1>2. IndexBuilt'
    BY IndexStays DEF Weighed, Stages, Answered
<1>3. QueryProcessed'
  <2>1. context' = Process(query)'
      BY DEF IInv, QueryProcessed, Process, asked, Answered
  <2>2. Found => Found'
    <3>1. FuzzyTokens' = FuzzyTokens /\ \A w : Cuts(w)' = Cuts(w)
        BY LookupStays
    <3>2. Candidates(near)' = Candidates(near)
        BY LookupStays DEF Candidates
    <3> QED
        BY <3>1, <3>2 DEF Found
  <2>3. NothingAsked => NothingAsked'
      BY DEF NothingAsked
  <2>4. (pc = "score" => Found) /\ (Answered => Found \/ NothingAsked)
      BY DEF IInv, QueryProcessed
  <2>5. pc' \notin {"build", "weigh", "search", "candidates"}
        /\ (pc' = "score" => pc = "score")
      BY DEF Answered
  <2> QED
      BY <2>1, <2>2, <2>3, <2>4, <2>5 DEF QueryProcessed
<1>4. \A i : Result(i)' = Result(i)
    BY ScoresStay
<1>5. Hits' = Hits
    BY <1>4 DEF Hits
<1>6. SearchLimit' = SearchLimit
    BY DEF SearchLimit, asked
<1>7. \A r, s : Outranks(r, s)' = Outranks(r, s)
    BY DEF Outranks, asked
<1> QED
    BY <1>1, <1>2, <1>3, <1>4, <1>5, <1>6, <1>7

LEMMA ScoreCandidateKeeps == ASSUME IInv, ScoreCandidate PROVE IInv'
<1>1. pc = "score" /\ pc' = "score" /\ UNCHANGED <<asked, index, context, near, candidates>>
    BY DEF ScoreCandidate
<1> DEFINE new(i) == Result(i)
<1>2. PICK i \in todo :
        /\ todo' = todo \ {i}
        /\ results' = IF new(i).score >= MeaningfulScore THEN Append(results, new(i))
                                                         ELSE results
    BY DEF ScoreCandidate
<1>3. Found
    BY <1>1 DEF IInv, QueryProcessed
<1>4. ScoresDefined
    BY <1>1, ScoresAreDefined
<1>5. /\ todo \subseteq candidates /\ results \in Seq(Hits)
      /\ ToSet(results) = {r \in Hits : r.entry \in candidates \ todo}
      /\ \A k, l \in DOMAIN results : k # l => results[k].entry # results[l].entry
    BY <1>1 DEF IInv, Scored
<1>6. /\ Inputs' /\ IndexBuilt' /\ QueryProcessed' /\ Hits' = Hits
  <2>1. NothingAsked => UNCHANGED results
      BY <1>2, <1>5 DEF NothingAsked
  <2> QED
      BY <1>1, <2>1, EarlierStagesStay DEF Answered
<1>7. i \in candidates /\ new(i).entry = i
    BY <1>4, <1>5, <1>2, ResultFacts
<1>8. \A r \in Hits : r.entry = i => r = new(i)
    BY <1>3, <1>4, HitFacts
<1>9. new(i).score >= MeaningfulScore <=> new(i) \in Hits
    BY <1>7 DEF Hits
<1> HIDE DEF new
<1>10. Scored'
  <2>1. todo' \subseteq candidates'
      BY <1>1, <1>2, <1>5
  <2>2. CASE new(i) \in Hits
    <3> DEFINE x == new(i)
               n == Len(results)
    <3>1. results' = Append(results, x) /\ x \in Hits /\ x.entry = i
        BY <1>2, <1>7, <1>9, <2>2
    <3> HIDE DEF x
    <3>2. results' \in Seq(Hits)
        BY <1>5, <3>1
    <3>3. /\ n \in Nat /\ DOMAIN results = 1..n /\ DOMAIN results' = 1..n + 1
          /\ results'[n + 1] = x /\ \A k \in 1..n : results'[k] = results[k]
        BY <1>5, <3>1
    <3> HIDE DEF n
    <3>4. ToSet(results') = ToSet(results) \cup {x}
      <4>1. ToSet(results) = {results[k] : k \in 1..n}
            /\ ToSet(results') = {results'[k] : k \in 1..n + 1}
          BY <3>3 DEF ToSet
      <4>2. 1..n + 1 = 1..n \cup {n + 1}
          BY <3>3
      <4> QED
          BY <3>3, <4>1, <4>2
    <3>5. ToSet(results') = {r \in Hits : r.entry \in candidates \ todo'}
        BY <1>2, <1>5, <1>7, <1>8, <3>1, <3>4 DEF x
    <3>6. \A k \in 1..n : results[k].entry # i
      <4>1. \A k \in 1..n : results[k] \in ToSet(results)
          BY <3>3 DEF ToSet
      <4> QED
          BY <1>2, <1>5, <4>1
    <3>7. \A k, l \in DOMAIN results' : k # l => results'[k].entry # results'[l].entry
      <4> SUFFICES ASSUME NEW k \in 1..n + 1, NEW l \in 1..n + 1, k # l
                   PROVE  results'[k].entry # results'[l].entry
          BY <3>3
      <4>1. CASE k \in 1..n /\ l \in 1..n
          BY <1>5, <3>3, <4>1
      <4>2. CASE k = n + 1 /\ l \in 1..n
          BY <3>1, <3>3, <3>6, <4>2
      <4>3. CASE k \in 1..n /\ l = n + 1
          BY <3>1, <3>3, <3>6, <4>3
      <4> QED
          BY <3>3, <4>1, <4>2, <4>3
    <3> QED
        BY <1>1, <1>6, <2>1, <3>2, <3>5, <3>7 DEF Scored
  <2>3. CASE new(i) \notin Hits
    <3>1. results' = results
        BY <1>2, <1>9, <2>3
    <3>2. {r \in Hits : r.entry \in candidates \ todo'} = {r \in Hits : r.entry \in candidates \ todo}
        BY <1>2, <1>8, <2>3
    <3> QED
        BY <1>1, <1>5, <1>6, <2>1, <3>1, <3>2 DEF Scored
  <2> QED
      BY <2>2, <2>3
<1>11. Ranking'
    BY <1>1 DEF Ranking, Answered
<1> QED
    BY <1>1, <1>6, <1>10, <1>11 DEF IInv, Done

LEMMA RankKeeps == ASSUME IInv, Rank PROVE IInv'
<1>1. pc = "score" /\ todo = {} /\ pc' = "decide"
      /\ UNCHANGED <<asked, index, context, near, candidates, todo, decision>>
    BY DEF Rank
<1>2. PICK sorted \in Sortings(results, Before) : results' = Truncated(sorted, SearchLimit)
    BY DEF Rank
<1>3. ScoresDefined
    BY <1>1, ScoresAreDefined
<1>4. /\ results' \in Seq(Hits)
      /\ \A k, l \in DOMAIN results' : k < l => Outranks(results'[k], results'[l])
      /\ \A r \in Hits \ ToSet(results') :
            /\ Len(results') = SearchLimit
            /\ \A s \in ToSet(results') : Outranks(s, r)
    BY <1>1, <1>2, <1>3, BestOfSorting
<1>5. NothingAsked => UNCHANGED results
  <2>1. NothingAsked => Hits = {}
      BY DEF NothingAsked, Hits
  <2>2. \A s \in Seq({}) : s = <<>>
      OBVIOUS
  <2> QED
      BY <1>4, <2>1, <2>2 DEF NothingAsked
<1>6. /\ Inputs' /\ IndexBuilt' /\ QueryProcessed'
      /\ Hits' = Hits /\ SearchLimit' = SearchLimit
      /\ \A r, s : Outranks(r, s)' = Outranks(r, s)
    BY <1>1, <1>5, EarlierStagesStay DEF Answered
<1>7. Scored'
    BY <1>1 DEF Scored
<1>8. Ranking'
    BY <1>4, <1>6 DEF Ranking
<1> QED
    BY <1>1, <1>6, <1>7, <1>8 DEF IInv, Done

LEMMA ApplyPolicyKeeps == ASSUME IInv, ApplyPolicy PROVE IInv'
<1>1. pc = "decide" /\ pc' = "done" /\ decision' = Decide(results)
      /\ UNCHANGED <<asked, index, context, near, candidates, todo, results>>
    BY DEF ApplyPolicy
<1>2. /\ Inputs' /\ IndexBuilt' /\ QueryProcessed'
      /\ Hits' = Hits /\ SearchLimit' = SearchLimit
      /\ \A r, s : Outranks(r, s)' = Outranks(r, s)
    BY <1>1, EarlierStagesStay DEF Answered
<1>3. Scored' /\ Ranking'
    BY <1>1, <1>2 DEF IInv, Scored, Ranking, Answered
<1>4. decision' = Decide(results')
    BY <1>1
<1> QED
    BY <1>2, <1>3, <1>4 DEF IInv, Decide

LEMMA InvariantNext == IInv /\ [Next]_vars => IInv'
<1> SUFFICES ASSUME IInv, [Next]_vars PROVE IInv'
    OBVIOUS
<1>1. CASE BuildDocuments
    BY <1>1, BuildDocumentsKeeps
<1>2. CASE WeighWords
    BY <1>2, WeighWordsKeeps
<1>3. CASE ProcessQuery
    BY <1>3, ProcessQueryKeeps
<1>4. CASE FindCandidates
    BY <1>4, FindCandidatesKeeps
<1>5. CASE ScoreCandidate
    BY <1>5, ScoreCandidateKeeps
<1>6. CASE Rank
    BY <1>6, RankKeeps
<1>7. CASE ApplyPolicy
    BY <1>7, ApplyPolicyKeeps
<1>8. CASE UNCHANGED vars
  <2>1. /\ UNCHANGED <<asked, index, context, near, candidates, todo, results, decision>>
        /\ UNCHANGED pc
      BY <1>8 DEF vars
  <2>2. Inputs'
      BY <2>1 DEF IInv, Inputs, asked
  <2>3. IndexBuilt'
    <3>1. Weighed => IndexBuilt'
        BY <2>1, IndexStays DEF Weighed
    <3>2. ~Weighed => IndexBuilt'
        BY <2>1 DEF IInv, IndexBuilt, Indexed, Weighed, asked, index
    <3> QED
        BY <3>1, <3>2
  <2>4. CASE pc = "score" \/ Answered
    <3>1. /\ QueryProcessed' /\ Hits' = Hits /\ SearchLimit' = SearchLimit
          /\ \A r, s : Outranks(r, s)' = Outranks(r, s)
        BY <2>1, <2>4, EarlierStagesStay DEF Answered
    <3>2. Scored'
        BY <2>1, <3>1 DEF IInv, Scored
    <3>3. Ranking'
        BY <2>1, <3>1 DEF IInv, Ranking, Answered
    <3>4. Done' => decision' = Decide(results')
        BY <2>1 DEF IInv, Done
    <3> QED
        BY <2>2, <2>3, <3>1, <3>2, <3>3, <3>4 DEF IInv, Decide
  <2>5. CASE ~(pc = "score" \/ Answered)
    <3>1. QueryProcessed'
      <4>1. Process(query)' = Process(query)
          BY <2>1 DEF Process, asked
      <4> QED
          BY <2>1, <2>5, <4>1 DEF IInv, QueryProcessed, Answered
    <3>2. Scored' /\ Ranking' /\ ~Done'
        BY <2>1, <2>5 DEF Scored, Ranking, Answered, Done
    <3> QED
        BY <2>2, <2>3, <3>1, <3>2 DEF IInv
  <2> QED
      BY <2>4, <2>5
<1> QED
    BY <1>1, <1>2, <1>3, <1>4, <1>5, <1>6, <1>7, <1>8 DEF Next

\* Each stage leaves what the next one relies on.
THEOREM Invariant == Spec => []IInv
<1>1. Init => IInv
    BY InvariantInit
<1>2. IInv /\ [Next]_vars => IInv'
    BY InvariantNext
<1> QED
    BY <1>1, <1>2, PTL DEF Spec

-----------------------------------------------------------------------------
(* What a search promises.                                                 *)

\* Looking only at the candidates of the inverted index loses no entry that a
\* scan of the whole catalog would have given any score: for every catalog,
\* dictionary, query and table of frequencies.
THEOREM IndexLosesNothing == Spec => []IndexIsExhaustive
<1>1. ASSUME IInv, pc = "score" PROVE \A w \in DOMAIN near : near[w] = Nearest(w)
  <2>1. /\ catalog \in Catalogs /\ query \in Queries
        /\ documents = [i \in DOMAIN catalog |-> Document(catalog[i])]
        /\ context = Process(query) /\ Found
      BY <1>1 DEF IInv, Inputs, IndexBuilt, QueryProcessed, Indexed, Stages
  <2>2. IsFiniteSet(Vocabulary) /\ Vocabulary \subseteq Words
      BY <2>1, VocabularyIsFinite
  <2>3. FuzzyTokens \subseteq Words
    <3>1. Tokens \in Seq(Words)
        BY <2>1, ContextFacts
    <3> QED
        BY <3>1, WordsOfSequence DEF FuzzyTokens
  <2> QED
      BY <2>1, <2>2, <2>3, CutIsNearest DEF Found
<1>2. IInv => IndexIsExhaustive
    BY <1>1, OthersScoreNothing DEF IndexIsExhaustive
<1> QED
    BY <1>2, Invariant, PTL

\* The hits are the entries of the whole catalog that are meaningful.
LEMMA HitsAreMeaningful ==
    ASSUME IInv, Answered
    PROVE  Hits = {r \in Scan : r.score >= MeaningfulScore}
<1>1. ScoresDefined
    BY ScoresAreDefined
<1>2. Found \/ NothingAsked
    BY DEF IInv, QueryProcessed
<1>3. \A r \in Hits : r \in Scan /\ r.score >= MeaningfulScore
    BY <1>1, <1>2, HitFacts
<1>4. ASSUME NEW r \in Scan, r.score >= MeaningfulScore
      PROVE  r \in Hits
  <2>1. r.entry \in Indices /\ r = Result(r.entry)
      BY <1>1, ScanFacts
  <2>2. r.entry \in candidates
    <3>1. r.entry \notin candidates => r.score = 0
        BY <2>1, OthersScoreNothing
    <3> QED
        BY <1>4, <3>1 DEF MeaningfulScore
  <2> QED
      BY <1>4, <2>1, <2>2 DEF Hits
<1> QED
    BY <1>3, <1>4

\* The results are the best entries of the whole catalog, in the documented
\* order, which is strict; an entry is left out only when the limit is reached,
\* and then every result outranks it.
THEOREM ResultsAreBest == Spec => []ResultsAreTheBest
<1>1. IInv => ResultsAreTheBest
  <2> SUFFICES ASSUME IInv, Done PROVE ResultsAreTheBest
      BY DEF ResultsAreTheBest
  <2>1. Answered
      BY DEF Answered, Done
  <2>2. Hits = {r \in Scan : r.score >= MeaningfulScore}
      BY <2>1, HitsAreMeaningful
  <2> QED
      BY <2>1, <2>2 DEF IInv, Ranking, ResultsAreTheBest
<1> QED
    BY <1>1, Invariant, PTL

\* The first result outranks every other hit; the second is close behind it:
\* no other hit scores more, wherever the limit cut.
LEMMA Leaders ==
    ASSUME IInv, Answered, results # <<>>
    PROVE  /\ results[1] \in Hits
           /\ \A o \in Hits \ {results[1]} :
                /\ results[1].score >= o.score
                /\ Len(results) # 1
                /\ results[2] \in Hits /\ results[2] # results[1]
                /\ results[2].score >= o.score
<1> DEFINE n == Len(results)
<1>1. ScoresDefined /\ (Found \/ NothingAsked)
    BY ScoresAreDefined DEF IInv, QueryProcessed
<1>2. SearchLimit \in Nat /\ SearchLimit >= 2
    BY LimitFacts
<1>3. /\ results \in Seq(Hits)
      /\ \A k, l \in DOMAIN results : k < l => Outranks(results[k], results[l])
      /\ \A r \in Hits \ ToSet(results) :
            /\ n = SearchLimit
            /\ \A s \in ToSet(results) : Outranks(s, r)
    BY DEF IInv, Ranking
<1>4. n \in Nat /\ n >= 1 /\ DOMAIN results = 1..n /\ \A k \in 1..n : results[k] \in Hits
    BY <1>3
<1>5. \A r \in Hits : r \in Scan /\ r.score \in Nat
    BY <1>1, HitFacts, ScanFacts
<1>6. \A r \in Hits : ~Outranks(r, r)
    BY <1>1, <1>5, OrderIsIrreflexive
<1>7. \A r, s \in Hits : Outranks(r, s) => r.score >= s.score
    BY <1>1, <1>5, OutranksScore
<1> HIDE DEF n
<1>8. ASSUME NEW o \in Hits \ {results[1]}
      PROVE  /\ results[1].score >= o.score /\ n # 1
             /\ results[2] \in Hits /\ results[2] # results[1]
             /\ results[2].score >= o.score
  <2>1. n # 1 /\ results[1].score >= o.score
             /\ (n >= 2 => results[2].score >= o.score)
    <3>1. CASE o \in ToSet(results)
      <4>1. PICK k \in 1..n : o = results[k]
          BY <1>4, <3>1 DEF ToSet
      <4>2. k # 1 /\ n >= 2 /\ 1 \in 1..n /\ 2 \in 1..n /\ 1 < k
          BY <1>4, <1>8, <4>1
      <4>3. Outranks(results[1], o)
          BY <1>3, <1>4, <4>1, <4>2
      <4>4. k = 2 \/ Outranks(results[2], o)
          BY <1>3, <1>4, <4>1, <4>2
      <4>5. results[1].score >= o.score
          BY <1>4, <1>7, <4>2, <4>3
      <4>6. results[2].score >= o.score
          BY <1>4, <1>5, <1>7, <4>1, <4>2, <4>4
      <4> QED
          BY <4>2, <4>5, <4>6
    <3>2. CASE o \notin ToSet(results)
      <4>1. n = SearchLimit /\ \A s \in ToSet(results) : Outranks(s, o)
          BY <1>3, <3>2
      <4>2. 1 \in 1..n /\ 2 \in 1..n /\ n # 1
          BY <1>2, <1>4, <4>1
      <4>3. results[1] \in ToSet(results) /\ results[2] \in ToSet(results)
          BY <1>4, <4>2 DEF ToSet
      <4> QED
          BY <1>4, <1>7, <4>1, <4>2, <4>3
    <3> QED
        BY <3>1, <3>2
  <2>2. 1 \in 1..n /\ 2 \in 1..n /\ n >= 2
      BY <1>4, <2>1
  <2>3. results[2] # results[1]
      BY <1>3, <1>4, <1>6, <2>2
  <2> QED
      BY <1>4, <2>1, <2>2, <2>3
<1> QED
    BY <1>4, <1>8 DEF n

\* An entry of the whole catalog is shown as the answer exactly when it is
\* confident and leads every other entry of the catalog by the margin, and
\* there is no match exactly when no entry is meaningful: neither the limit nor
\* the inverted index can make or hide an answer.
THEOREM AnswersAreJustified == Spec => []AnswerIsJustified
<1>1. ASSUME IInv PROVE AnswerIsJustified
  <2> SUFFICES ASSUME Done PROVE AnswerIsJustified
      BY DEF AnswerIsJustified
  <2>1. Answered /\ decision = Decide(results)
      BY <1>1 DEF Answered, Done, IInv
  <2>2. ScoresDefined /\ (Found \/ NothingAsked)
      BY <1>1, <2>1, ScoresAreDefined DEF IInv, QueryProcessed
  <2>3. Hits = {r \in Scan : r.score >= 800}
      BY <1>1, <2>1, HitsAreMeaningful DEF MeaningfulScore
  <2>4. \A r \in Scan : r.score \in Nat /\ r = Result(r.entry)
                        /\ r.entry \in Indices /\ r.entry # 0
    <3>1. \A i \in Indices : i # 0
        BY <1>1, <2>1, IndexFacts DEF IInv, Inputs, IndexBuilt, Indexed, Stages, Answered
    <3> QED
        BY <2>2, <3>1, ScanFacts
  <2>5. results \in Seq(Hits) /\ Len(results) \in Nat
      BY <1>1, <2>1 DEF IInv, Ranking
  <2>6. CASE results = <<>>
    <3>1. Hits = {}
      <4>1. ToSet(results) = {} /\ Len(results) = 0
          BY <2>6 DEF ToSet
      <4>2. SearchLimit # 0
          BY <1>1, LimitFacts
      <4> QED
          BY <1>1, <2>1, <4>1, <4>2 DEF IInv, Ranking
    <3>2. decision.status = "no_match" /\ decision.selected = 0
        BY <2>1, <2>6 DEF Decide
    <3>3. \A r \in Scan : r.score < 800
        BY <2>3, <2>4, <3>1
    <3> QED
        BY <2>4, <3>2, <3>3 DEF AnswerIsJustified, ConfidentScore, MeaningfulScore
  <2>7. CASE results # <<>>
    <3> DEFINE first == results[1]
               second == results[2]
               alone == Len(results) = 1
    <3>1. /\ first \in Hits
          /\ \A o \in Hits \ {first} :
                /\ first.score >= o.score /\ ~alone
                /\ second \in Hits /\ second # first /\ second.score >= o.score
        BY <1>1, <2>1, <2>7, Leaders
    <3>2. decision = IF /\ first.score >= 9000
                        /\ alone \/ first.score - second.score >= 1500
                     THEN [status |-> "confident", selected |-> first.entry]
                     ELSE [status |-> "uncertain", selected |-> 0]
      <4>1. ~(first.score < 800)
          BY <2>3, <2>4, <3>1
      <4> QED
          BY <2>1, <2>7, <4>1 DEF Decide, MeaningfulScore, ConfidentScore, ConfidentMargin
    <3>3. ~alone => second \in Hits /\ second # first
      <4>1. ASSUME ~alone PROVE second \in Hits /\ second # first
        <5>0. Len(results) # 0
            BY <2>5, <2>7
        <5>1. Len(results) >= 2
          <6>1. \A n \in Nat : n # 0 /\ n # 1 => n >= 2
              OBVIOUS
          <6> QED
              BY <2>5, <4>1, <5>0, <6>1
        <5>2. 1 \in DOMAIN results /\ 2 \in DOMAIN results
            BY <2>5, <5>1
        <5>3. Outranks(first, second)
            BY <1>1, <2>1, <5>2 DEF IInv, Ranking
        <5>4. second \in Hits
            BY <2>5, <5>2
        <5>5. ~Outranks(first, first)
            BY <1>1, <2>1, <2>2, <2>3, <3>1, OrderIsIrreflexive
        <5> QED
            BY <5>3, <5>4, <5>5
      <4> QED
          BY <4>1
    <3>4. decision.status # "no_match" /\ ~(\A r \in Scan : r.score < 800)
      <4>1. first \in Scan /\ ~(first.score < 800)
          BY <2>3, <2>4, <3>1
      <4>2. decision.status # "no_match"
          BY <3>2
      <4> QED
          BY <4>1, <4>2
    <3>5. ASSUME NEW r \in Scan
          PROVE  (decision.status = "confident" /\ decision.selected = r.entry) <=>
                    /\ r.score >= 9000
                    /\ \A o \in Scan \ {r} : r.score - o.score >= 1500
      <4>1. first \in Scan /\ first.score \in Nat
            /\ \A o \in Scan : o.score \in Nat /\ (o \in Hits <=> o.score >= 800)
          BY <2>3, <2>4, <3>1
      <4>2. ASSUME decision.status = "confident", decision.selected = r.entry
            PROVE  r.score >= 9000 /\ \A o \in Scan \ {r} : r.score - o.score >= 1500
        <5>1. /\ first.score >= 9000
              /\ alone \/ first.score - second.score >= 1500
              /\ first.entry = r.entry
            BY <3>2, <4>2
        <5>2. first = r
            BY <2>4, <4>1, <5>1
        <5>3. ASSUME NEW o \in Scan \ {r}
              PROVE  r.score - o.score >= 1500
          <6>1. CASE o \in Hits
            <7>1. ~alone /\ second.score >= o.score /\ second \in Scan
                BY <2>3, <3>1, <5>2, <5>3, <6>1
            <7> QED
                BY <4>1, <5>1, <5>2, <7>1
          <6>2. CASE o \notin Hits
              BY <4>1, <5>1, <5>2, <6>2
          <6> QED
              BY <6>1, <6>2
        <5> QED
            BY <5>1, <5>2, <5>3
      <4>3. ASSUME r.score >= 9000, \A o \in Scan \ {r} : r.score - o.score >= 1500
            PROVE  decision.status = "confident" /\ decision.selected = r.entry
        <5>1. r \in Hits
            BY <4>1, <4>3
        <5>2. r = first
          <6>1. ASSUME r # first PROVE FALSE
            <7>1. first.score >= r.score /\ r.score - first.score >= 1500
                BY <3>1, <4>1, <4>3, <5>1, <6>1
            <7> QED
                BY <4>1, <7>1
          <6> QED
              BY <6>1
        <5>3. alone \/ first.score - second.score >= 1500
            BY <2>3, <3>3, <4>3, <5>2
        <5> QED
            BY <3>2, <4>3, <5>2, <5>3
      <4> QED
          BY <4>2, <4>3
    <3> QED
        BY <3>4, <3>5 DEF AnswerIsJustified, ConfidentScore, ConfidentMargin, MeaningfulScore
  <2> QED
      BY <2>6, <2>7
<1> QED
    BY <1>1, Invariant, PTL
==============================================================================
