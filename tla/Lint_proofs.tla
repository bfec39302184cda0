----------------------------- MODULE Lint_proofs -----------------------------
(***************************************************************************)
(* For every catalog and every dictionary: lint reports of the entries     *)
(* exactly what an order-free reading of its rules reports, a report       *)
(* without findings means that no query is the exact alias of two entries, *)
(* and a concept is reported as unused exactly when the index has no entry *)
(* under it.                                                               *)
(***************************************************************************)
EXTENDS Lint, Phrases_proofs

-----------------------------------------------------------------------------
(* The invariant: as long as nothing is found, every alias that the walk   *)
(* has looked at belongs to the entry it stands in.                        *)

Fields == {"entries", "aliases", "keywords", "concepts", "findings"}

WalkTypes ==
    /\ entries \in Catalogs /\ entries \in Seq(Entry)
    /\ pc \in {"entry", "alias", "keyword", "related", "done"}
    /\ at \in Nat \ {0} /\ item \in Nat \ {0}
    /\ pc \in {"alias", "keyword", "related"} => at \in DOMAIN entries
    /\ pc = "done" => at > Len(entries)
    /\ DOMAIN report = Fields

\* The k-th alias of the i-th entry, and whether the walk is past it.
AliasAt(i, k) == NormalizedSearchPhrase(entries[i].aliases[k])
LookedAt(i, k) ==
    \/ i < at
    \/ i = at /\ pc \in {"keyword", "related"}
    \/ i = at /\ pc = "alias" /\ k < item

Owned(i, k) ==
    /\ AliasAt(i, k) # <<>> /\ AliasAt(i, k) \in DOMAIN owners
    /\ owners[AliasAt(i, k)] = entries[i].id

AliasesAreOwned ==
    report.findings = {} =>
        \A i \in DOMAIN entries : \A k \in DOMAIN entries[i].aliases :
            LookedAt(i, k) => Owned(i, k)

IInv == WalkTypes /\ AliasesAreOwned

-----------------------------------------------------------------------------
(* Parts of steps.                                                         *)

\* The first owner of an alias keeps it.
LEMMA FirstOwnerStays ==
    ASSUME NEW owner, NEW phrase, NEW id
    PROVE  /\ DOMAIN OwnersAfter(owner, phrase, id) = DOMAIN owner \cup {phrase}
           /\ \A p \in DOMAIN owner : OwnersAfter(owner, phrase, id)[p] = owner[p]
           /\ phrase \notin DOMAIN owner => OwnersAfter(owner, phrase, id)[phrase] = id
    BY DEF OwnersAfter

LEMMA ListsOfEntries ==
    ASSUME entries \in Seq(Entry), NEW i \in DOMAIN entries
    PROVE  entries[i].aliases \in Seq(Texts)
<1>1. entries[i] \in Entry
    OBVIOUS
<1> QED
    BY <1>1 DEF Entry

\* A finding is added to those before.
LEMMA FoundAdds ==
    ASSUME DOMAIN report = Fields, NEW findings
    PROVE  DOMAIN Found(findings) = Fields /\ Found(findings).findings = report.findings \cup findings
    BY DEF Found, Fields

LEMMA CountAdds ==
    ASSUME NEW r, DOMAIN r = Fields, NEW n
    PROVE  /\ DOMAIN [r EXCEPT !.aliases = n] = Fields
           /\ [r EXCEPT !.aliases = n].findings = r.findings
           /\ DOMAIN [r EXCEPT !.keywords = n] = Fields
           /\ [r EXCEPT !.keywords = n].findings = r.findings
           /\ DOMAIN [r EXCEPT !.concepts = n] = Fields
           /\ [r EXCEPT !.concepts = n].findings = r.findings
    BY DEF Fields

\* Without a finding, an alias is new in its entry and nobody else's.
LEMMA NoAliasFinding ==
    ASSUME NEW text, NEW phrase, AliasFindings(text, phrase) = {}
    PROVE  phrase # <<>> /\ phrase \notin local /\ ~OwnedElsewhere(phrase)
<1>1. phrase # <<>> /\ phrase \notin local /\ Collisions(phrase) = {}
    BY DEF AliasFindings
<1>2. ASSUME OwnedElsewhere(phrase) PROVE FALSE
  <2>1. phrase \in {q \in {phrase} : OwnedElsewhere(q)}
      BY <1>2
  <2>2. Finding("alias collision", Current.id, <<phrase, owners[phrase]>>) \in Collisions(phrase)
      BY <2>1 DEF Collisions
  <2> QED
      BY <1>1, <2>2
<1> QED
    BY <1>1, <1>2

-----------------------------------------------------------------------------
(* The steps.                                                              *)

LEMMA InvariantInit == Init => IInv
<1> SUFFICES ASSUME Init PROVE IInv
    OBVIOUS
<1>1. entries \in Catalogs /\ entries \in Seq(Entry)
    BY LintAssumption DEF Init
<1>2. DOMAIN report = Fields
    BY DEF Init, Fields
<1>3. \A i \in DOMAIN entries : \A k : ~LookedAt(i, k)
    BY <1>1 DEF Init, LookedAt
<1> QED
    BY <1>1, <1>2, <1>3 DEF Init, IInv, WalkTypes, AliasesAreOwned

\* A step that looks at no alias: nothing new is to be owned.
LEMMA OtherStep ==
    ASSUME IInv, UNCHANGED <<entries, owners>>,
           WalkTypes', report.findings \subseteq report'.findings,
           \A i \in DOMAIN entries : \A k \in DOMAIN entries[i].aliases :
               LookedAt(i, k)' => LookedAt(i, k)
    PROVE  IInv'
<1>1. report'.findings = {} => report.findings = {}
    OBVIOUS
<1>2. \A i, k : Owned(i, k)' <=> Owned(i, k)
    BY DEF Owned, AliasAt
<1>3. AliasesAreOwned'
    BY <1>1, <1>2 DEF IInv, AliasesAreOwned
<1> QED
    BY <1>3 DEF IInv

LEMMA AliasKeeps == ASSUME IInv, Alias PROVE IInv'
<1> DEFINE text == Current.aliases[item]
           phrase == NormalizedSearchPhrase(text)
           kept == phrase # <<>> /\ phrase \notin local
           counted == Found(AliasFindings(text, phrase))
<1>1. /\ pc = "alias" /\ pc' = "alias" /\ entries' = entries /\ at' = at /\ item' = item + 1
      /\ item <= Len(Current.aliases)
    BY DEF Alias
<1>2. owners' = IF kept THEN OwnersAfter(owners, phrase, Current.id) ELSE owners
    BY DEF Alias
<1>3. report' = [counted EXCEPT !.aliases = @ + 1]
    BY DEF Alias
<1>4. WalkTypes /\ at \in DOMAIN entries
    BY <1>1 DEF IInv, WalkTypes
<1>5. DOMAIN report' = Fields /\ report'.findings = report.findings \cup AliasFindings(text, phrase)
  <2>1. DOMAIN counted = Fields /\ counted.findings = report.findings \cup AliasFindings(text, phrase)
      BY <1>4, FoundAdds DEF WalkTypes
  <2> HIDE DEF counted, text, phrase
  <2>2. report' = [counted EXCEPT !.aliases = counted.aliases + 1]
      BY <1>3
  <2> QED
      BY <2>1, <2>2, CountAdds
<1>6. WalkTypes'
    BY <1>1, <1>4, <1>5 DEF WalkTypes
<1>7. AliasesAreOwned'
  <2> SUFFICES ASSUME report'.findings = {}, NEW i \in DOMAIN entries,
                      NEW k \in DOMAIN entries[i].aliases, LookedAt(i, k)'
               PROVE  Owned(i, k)'
      BY <1>1 DEF AliasesAreOwned
  <2>1. report.findings = {} /\ AliasFindings(text, phrase) = {}
      BY <1>5
  <2>2. kept /\ ~OwnedElsewhere(phrase)
      BY <2>1, NoAliasFinding
  <2> HIDE DEF text, phrase, counted
  <2>3. owners' = OwnersAfter(owners, phrase, Current.id)
      BY <1>2, <2>2
  <2>4. /\ DOMAIN owners' = DOMAIN owners \cup {phrase}
        /\ \A p \in DOMAIN owners : owners'[p] = owners[p]
        /\ phrase \notin DOMAIN owners => owners'[phrase] = Current.id
    <3> DEFINE after == OwnersAfter(owners, phrase, Current.id)
    <3>1. /\ DOMAIN after = DOMAIN owners \cup {phrase}
          /\ \A p \in DOMAIN owners : after[p] = owners[p]
          /\ phrase \notin DOMAIN owners => after[phrase] = Current.id
        BY FirstOwnerStays
    <3>2. owners' = after
        BY <2>3
    <3> QED
        BY ONLY <3>1, <3>2
  <2>5. owners'[phrase] = Current.id
      BY <2>2, <2>4 DEF OwnedElsewhere
  <2>6. AliasAt(i, k)' = AliasAt(i, k)
      BY <1>1 DEF AliasAt
  <2>7. CASE LookedAt(i, k)
    <3>1. Owned(i, k)
        BY <2>1, <2>7 DEF IInv, AliasesAreOwned
    <3> QED
        BY <3>1, <2>4, <2>6, <1>1 DEF Owned
  <2>8. CASE ~LookedAt(i, k)
    <3>1. i = at /\ k = item
      <4>1. i = at /\ k < item + 1 /\ ~(k < item)
          BY <2>8, <1>1, <1>4 DEF LookedAt
      <4>2. k \in Nat /\ item \in Nat
        <5>1. entries[i].aliases \in Seq(Texts)
            BY <1>4, ListsOfEntries DEF WalkTypes
        <5> QED
            BY <5>1, <1>4 DEF WalkTypes
      <4> QED
          BY <4>1, <4>2
    <3>2. AliasAt(i, k) = phrase /\ entries[i].id = Current.id
        BY <3>1 DEF AliasAt, Current, phrase, text
    <3> QED
        BY <3>2, <2>2, <2>4, <2>5, <2>6, <1>1 DEF Owned
  <2> QED
      BY <2>7, <2>8
<1> QED
    BY <1>6, <1>7 DEF IInv

\* Starting an entry looks at none of its aliases yet.
LEMMA StartEntryKeeps == ASSUME IInv, StartEntry PROVE IInv'
<1>1. /\ pc = "entry" /\ at <= Len(entries) /\ pc' = "alias" /\ item' = 1
      /\ at' = at /\ UNCHANGED <<entries, owners, report>>
    BY DEF StartEntry
<1>2. WalkTypes
    BY DEF IInv
<1>3. at >= 1
    BY <1>2, <1>1 DEF WalkTypes
<1>4. WalkTypes'
    BY <1>1, <1>2, <1>3 DEF WalkTypes
<1>5. ASSUME NEW i \in DOMAIN entries, NEW k \in DOMAIN entries[i].aliases, LookedAt(i, k)'
      PROVE  LookedAt(i, k)
  <2>1. k \in Nat /\ k >= 1
      BY <1>2, ListsOfEntries DEF WalkTypes
  <2> QED
      BY <2>1, <1>1, <1>5 DEF LookedAt
<1> QED
    BY <1>1, <1>4, <1>5, OtherStep

\* Past the last alias, the walk has looked at all of them.
LEMMA EndAliasesKeeps == ASSUME IInv, EndAliases PROVE IInv'
<1> DEFINE found == {Finding("similar aliases", Current.id,
                             {normalized[p[1]], normalized[p[2]]}) :
                         p \in SimilarPairs(normalized)}
<1>1. /\ pc = "alias" /\ item > Len(Current.aliases) /\ report' = Found(found)
      /\ pc' = "keyword" /\ item' = 1 /\ at' = at /\ UNCHANGED <<entries, owners>>
    BY DEF EndAliases
<1> HIDE DEF found
<1>2. WalkTypes
    BY DEF IInv
<1>3. DOMAIN report' = Fields /\ report'.findings = report.findings \cup found
    BY <1>1, <1>2, FoundAdds DEF WalkTypes
<1>4. WalkTypes'
    BY <1>1, <1>2, <1>3 DEF WalkTypes
<1>5. ASSUME NEW i \in DOMAIN entries, NEW k \in DOMAIN entries[i].aliases, LookedAt(i, k)'
      PROVE  LookedAt(i, k)
  <2>1. entries[i].aliases \in Seq(Texts)
      BY <1>2, ListsOfEntries DEF WalkTypes
  <2>2. k \in Nat /\ k <= Len(entries[i].aliases) /\ Len(entries[i].aliases) \in Nat
      BY <2>1
  <2>3. i = at => k < item
      BY <2>2, <1>1, <1>2 DEF Current, WalkTypes
  <2> QED
      BY <2>3, <1>1, <1>5 DEF LookedAt
<1> QED
    BY <1>1, <1>3, <1>4, <1>5, OtherStep

LEMMA KeywordKeeps == ASSUME IInv, Keyword PROVE IInv'
<1> DEFINE text == Current.keywords[item]
           found == KeywordFindings(text, NormalizedSearchPhrase(text))
           counted == Found(found)
<1>1. /\ pc = "keyword" /\ pc' = "keyword" /\ item' = item + 1 /\ at' = at
      /\ UNCHANGED <<entries, owners>>
    BY DEF Keyword
<1>2. report' = [counted EXCEPT !.keywords = @ + 1]
    BY DEF Keyword
<1> HIDE DEF found
<1>3. WalkTypes
    BY DEF IInv
<1>4. DOMAIN report' = Fields /\ report'.findings = report.findings \cup found
  <2>1. DOMAIN counted = Fields /\ counted.findings = report.findings \cup found
      BY <1>3, FoundAdds DEF WalkTypes
  <2> HIDE DEF counted
  <2>2. report' = [counted EXCEPT !.keywords = counted.keywords + 1]
      BY <1>2
  <2> QED
      BY <2>1, <2>2, CountAdds
<1>5. WalkTypes'
    BY <1>1, <1>3, <1>4 DEF WalkTypes
<1>6. ASSUME NEW i \in DOMAIN entries, NEW k \in DOMAIN entries[i].aliases, LookedAt(i, k)'
      PROVE  LookedAt(i, k)
    BY <1>1, <1>6 DEF LookedAt
<1> QED
    BY <1>1, <1>4, <1>5, <1>6, OtherStep

LEMMA EndKeywordsKeeps == ASSUME IInv, EndKeywords PROVE IInv'
<1>1. /\ pc = "keyword" /\ pc' = "related" /\ item' = 1 /\ at' = at
      /\ UNCHANGED <<entries, owners, report>>
    BY DEF EndKeywords
<1>2. WalkTypes'
    BY <1>1 DEF IInv, WalkTypes
<1>3. ASSUME NEW i \in DOMAIN entries, NEW k \in DOMAIN entries[i].aliases, LookedAt(i, k)'
      PROVE  LookedAt(i, k)
    BY <1>1, <1>3 DEF LookedAt
<1> QED
    BY <1>1, <1>2, <1>3, OtherStep

LEMMA RelatedKeeps == ASSUME IInv, Related PROVE IInv'
<1> DEFINE found == RelatedFindings(Current.related[item])
<1>1. /\ pc = "related" /\ pc' = "related" /\ item' = item + 1 /\ at' = at
      /\ report' = Found(found) /\ UNCHANGED <<entries, owners>>
    BY DEF Related
<1> HIDE DEF found
<1>2. WalkTypes
    BY DEF IInv
<1>3. DOMAIN report' = Fields /\ report'.findings = report.findings \cup found
    BY <1>1, <1>2, FoundAdds DEF WalkTypes
<1>4. WalkTypes'
    BY <1>1, <1>2, <1>3 DEF WalkTypes
<1>5. ASSUME NEW i \in DOMAIN entries, NEW k \in DOMAIN entries[i].aliases, LookedAt(i, k)'
      PROVE  LookedAt(i, k)
    BY <1>1, <1>5 DEF LookedAt
<1> QED
    BY <1>1, <1>3, <1>4, <1>5, OtherStep

\* The walk goes on to the next entry, none of whose aliases it has seen.
LEMMA EndEntryKeeps == ASSUME IInv, EndEntry PROVE IInv'
<1> DEFINE found == {Finding(kind, Current.id, <<>>) : kind \in Current.markdown}
<1>1. /\ pc = "related" /\ pc' = "entry" /\ item' = 1 /\ at' = at + 1
      /\ report' = Found(found) /\ UNCHANGED <<entries, owners>>
    BY DEF EndEntry, NextEntry
<1> HIDE DEF found
<1>2. WalkTypes
    BY DEF IInv
<1>3. DOMAIN report' = Fields /\ report'.findings = report.findings \cup found
    BY <1>1, <1>2, FoundAdds DEF WalkTypes
<1>4. WalkTypes'
    BY <1>1, <1>2, <1>3 DEF WalkTypes
<1>5. ASSUME NEW i \in DOMAIN entries, NEW k \in DOMAIN entries[i].aliases, LookedAt(i, k)'
      PROVE  LookedAt(i, k)
  <2>1. i \in Nat /\ at \in Nat
      BY <1>2 DEF WalkTypes
  <2>2. i < at + 1
      BY <1>1, <1>5 DEF LookedAt
  <2>3. i < at \/ i = at
      BY <2>1, <2>2
  <2> QED
      BY <2>3, <1>1 DEF LookedAt
<1> QED
    BY <1>1, <1>3, <1>4, <1>5, OtherStep

LEMMA ConceptsKeeps == ASSUME IInv, Concepts PROVE IInv'
<1> DEFINE found == {Finding("unused concept", c, <<>>) : c \in CanonicalConcepts \ used}
           counted == Found(found)
<1>1. /\ pc = "entry" /\ at > Len(entries) /\ pc' = "done"
      /\ UNCHANGED <<entries, at, item, owners>>
    BY DEF Concepts
<1>2. report' = [counted EXCEPT !.concepts = Cardinality(CanonicalConcepts)]
    BY DEF Concepts
<1> HIDE DEF found
<1>3. WalkTypes
    BY DEF IInv
<1>4. DOMAIN report' = Fields /\ report'.findings = report.findings \cup found
  <2>1. DOMAIN counted = Fields /\ counted.findings = report.findings \cup found
      BY <1>3, FoundAdds DEF WalkTypes
  <2> HIDE DEF counted
  <2> QED
      BY <1>2, <2>1, CountAdds
<1>5. WalkTypes'
    BY <1>1, <1>3, <1>4 DEF WalkTypes
<1>6. ASSUME NEW i \in DOMAIN entries, NEW k \in DOMAIN entries[i].aliases, LookedAt(i, k)'
      PROVE  LookedAt(i, k)
    BY <1>1, <1>6 DEF LookedAt
<1> QED
    BY <1>1, <1>4, <1>5, <1>6, OtherStep

LEMMA StutterKeeps == ASSUME IInv, UNCHANGED vars PROVE IInv'
    BY DEF vars, position, IInv, WalkTypes, AliasesAreOwned, LookedAt, Owned, AliasAt

LEMMA InvariantNext == IInv /\ [Next]_vars => IInv'
<1> SUFFICES ASSUME IInv, [Next]_vars PROVE IInv'
    OBVIOUS
<1>1. CASE StartEntry
    BY <1>1, StartEntryKeeps
<1>2. CASE Alias
    BY <1>2, AliasKeeps
<1>3. CASE EndAliases
    BY <1>3, EndAliasesKeeps
<1>4. CASE Keyword
    BY <1>4, KeywordKeeps
<1>5. CASE EndKeywords
    BY <1>5, EndKeywordsKeeps
<1>6. CASE Related
    BY <1>6, RelatedKeeps
<1>7. CASE EndEntry
    BY <1>7, EndEntryKeeps
<1>8. CASE Concepts
    BY <1>8, ConceptsKeeps
<1>9. CASE Done \/ UNCHANGED vars
    BY <1>9, StutterKeeps DEF Done
<1> QED
    BY <1>1, <1>2, <1>3, <1>4, <1>5, <1>6, <1>7, <1>8, <1>9 DEF Next, Walk

-----------------------------------------------------------------------------
(* The theorem.                                                            *)

\* Two entries that share an alias are one: both own it, and ids differ.
LEMMA OwnedOnce ==
    ASSUME IInv, Clean,
           NEW i \in DOMAIN entries, NEW k \in DOMAIN entries[i].aliases,
           NEW j \in DOMAIN entries, NEW l \in DOMAIN entries[j].aliases,
           AliasAt(i, k) = AliasAt(j, l)
    PROVE  i = j
<1>1. i < at /\ j < at
    BY DEF IInv, Clean, WalkTypes
<1>2. Owned(i, k) /\ Owned(j, l)
    BY <1>1 DEF IInv, Clean, AliasesAreOwned, LookedAt
<1>3. entries[i].id = entries[j].id
    BY <1>2 DEF Owned
<1>4. \A m, n \in DOMAIN entries : m < n => entries[m].id < entries[n].id
    BY LintAssumption DEF IInv, WalkTypes
<1>5. ASSUME NEW m \in DOMAIN entries PROVE m \in Nat /\ entries[m].id \in Nat
  <2>1. entries \in Seq(Entry)
      BY DEF IInv, WalkTypes
  <2>2. m \in Nat /\ entries[m] \in Entry
      BY <2>1
  <2> QED
      BY <2>2 DEF Entry
<1> QED
    BY <1>3, <1>4, <1>5

LEMMA OwnedIsUnambiguous == IInv => CleanMeansUnambiguous
<1> SUFFICES ASSUME IInv, Clean, NEW e \in ToSet(entries), NEW f \in ToSet(entries),
                    \A t \in ToSet(e.aliases) \cup ToSet(f.aliases) :
                        IndexedAlias(t) = NormalizedSearchPhrase(t),
                    NEW a \in IndexedAliases(e), a \in IndexedAliases(f)
             PROVE  e = f
    BY DEF CleanMeansUnambiguous
<1>1. PICK i \in DOMAIN entries : e = entries[i]
    BY DEF ToSet
<1>2. PICK j \in DOMAIN entries : f = entries[j]
    BY DEF ToSet
<1>3. PICK k \in DOMAIN e.aliases : a = IndexedAlias(e.aliases[k])
    BY DEF IndexedAliases, ToSet
<1>4. PICK l \in DOMAIN f.aliases : a = IndexedAlias(f.aliases[l])
    BY DEF IndexedAliases, ToSet
<1>5. a = AliasAt(i, k) /\ a = AliasAt(j, l)
  <2>1. e.aliases[k] \in ToSet(e.aliases) /\ f.aliases[l] \in ToSet(f.aliases)
      BY DEF ToSet
  <2> QED
      BY <2>1, <1>1, <1>2, <1>3, <1>4 DEF AliasAt
<1>6. i = j
    BY <1>1, <1>2, <1>3, <1>4, <1>5, OwnedOnce
<1> QED
    BY <1>1, <1>2, <1>6

\* For every list of entries in ascending order of id, and every dictionary: a
\* report of KnowledgeBase::lint (src/src/knowledge.cpp) without findings means
\* that no query is the exact alias of two entries, as long as no alias repeats
\* a word.
THEOREM CleanReportsAreUnambiguous == Spec => []CleanMeansUnambiguous
<1>1. Spec => []IInv
    BY InvariantInit, InvariantNext, PTL DEF Spec
<1> QED
    BY <1>1, OwnedIsUnambiguous, PTL

-----------------------------------------------------------------------------
(* The concepts in use: those of every text that the walk has looked at.   *)

KeywordLookedAt(i, k) ==
    \/ i < at
    \/ i = at /\ pc = "related"
    \/ i = at /\ pc = "keyword" /\ k < item
Started(i) == i < at \/ (i = at /\ pc \in {"alias", "keyword", "related"})

SeenTexts(i) ==
    (IF Started(i) THEN CollectedTexts(entries[i]) ELSE {}) \cup
    {entries[i].aliases[k] : k \in {l \in DOMAIN entries[i].aliases : LookedAt(i, l)}} \cup
    {entries[i].keywords[k] : k \in {l \in DOMAIN entries[i].keywords : KeywordLookedAt(i, l)}}
Seen == UNION {SeenTexts(i) : i \in DOMAIN entries}
ConceptsOfAll(texts) == UNION {ConceptsOf(text) : text \in texts}

\* Nothing is said of a concept before the end.
OfConcepts(findings) == {f \in findings : Kind(f) = "unused concept"}

UsedSoFar ==
    /\ used = ConceptsOfAll(Seen)
    /\ pc # "done" => OfConcepts(report.findings) = {}
    /\ pc = "done" => {About(f) : f \in OfConcepts(report.findings)} = CanonicalConcepts \ used

LEMMA ItemsOfEntries ==
    ASSUME entries \in Seq(Entry), NEW i \in DOMAIN entries
    PROVE  /\ i \in Nat
           /\ entries[i].aliases \in Seq(Texts) /\ entries[i].keywords \in Seq(Texts)
           /\ entries[i].markdown \subseteq MarkdownKinds
<1>1. entries[i] \in Entry /\ i \in Nat
    OBVIOUS
<1> QED
    BY <1>1 DEF Entry

\* What the steps find is of no concept.
Elsewhere(findings) == \A f \in findings : Kind(f) # "unused concept"

LEMMA KindOfFinding ==
    ASSUME NEW kind, NEW a, NEW b
    PROVE  Kind(Finding(kind, a, b)) = kind
    BY DEF Kind, Finding

LEMMA AliasFindingsElsewhere ==
    ASSUME NEW text, NEW phrase
    PROVE  Elsewhere(AliasFindings(text, phrase))
<1> SUFFICES ASSUME NEW f \in AliasFindings(text, phrase)
             PROVE  Kind(f) # "unused concept"
    BY DEF Elsewhere
<1>1. PICK kind \in {"empty alias", "duplicate alias", "alias collision"} :
          \E b : f = Finding(kind, Current.id, b)
    BY DEF AliasFindings, Collisions
<1> QED
    BY <1>1, KindOfFinding

LEMMA KeywordFindingsElsewhere ==
    ASSUME NEW text, NEW phrase
    PROVE  Elsewhere(KeywordFindings(text, phrase))
<1> SUFFICES ASSUME NEW f \in KeywordFindings(text, phrase)
             PROVE  Kind(f) # "unused concept"
    BY DEF Elsewhere
<1>1. PICK kind \in {"empty keyword", "duplicate keyword", "broad keyword"} :
          \E b : f = Finding(kind, Current.id, b)
    BY DEF KeywordFindings
<1> QED
    BY <1>1, KindOfFinding

LEMMA RelatedFindingsElsewhere ==
    ASSUME NEW id
    PROVE  Elsewhere(RelatedFindings(id))
<1> SUFFICES ASSUME NEW f \in RelatedFindings(id)
             PROVE  Kind(f) # "unused concept"
    BY DEF Elsewhere
<1>1. PICK kind \in {"duplicate related", "self related", "not reciprocal"} :
          f = Finding(kind, Current.id, id)
    BY DEF RelatedFindings
<1> QED
    BY <1>1, KindOfFinding

\* A step that has looked at some more texts, and says nothing of concepts.
LEMMA UsedGrows ==
    ASSUME UsedSoFar, pc # "done", pc' # "done",
           NEW texts, used' = used \cup ConceptsOfAll(texts), Seen' = Seen \cup texts,
           NEW found, Elsewhere(found), report'.findings = report.findings \cup found
    PROVE  UsedSoFar'
<1>1. used' = ConceptsOfAll(Seen')
    BY DEF UsedSoFar, ConceptsOfAll
<1>2. OfConcepts(report'.findings) = {}
    BY DEF UsedSoFar, OfConcepts, Elsewhere
<1> QED
    BY <1>1, <1>2 DEF UsedSoFar

-----------------------------------------------------------------------------
(* The steps of the walk, for the concepts.                                *)

\* What a step sees of the entries: as much as before, except of the entry in
\* hand.
LEMMA SeenElsewhere ==
    ASSUME IInv, entries' = entries, at' = at, NEW i \in DOMAIN entries, i # at
    PROVE  SeenTexts(i)' = SeenTexts(i)
<1>1. \A k : LookedAt(i, k)' <=> LookedAt(i, k)
    BY DEF LookedAt
<1>2. \A k : KeywordLookedAt(i, k)' <=> KeywordLookedAt(i, k)
    BY DEF KeywordLookedAt
<1>3. Started(i)' <=> Started(i)
    BY DEF Started
<1> QED
    BY <1>1, <1>2, <1>3 DEF SeenTexts

LEMMA SeenHere ==
    ASSUME IInv, entries' = entries, at' = at, at \in DOMAIN entries,
           NEW texts, SeenTexts(at)' = SeenTexts(at) \cup texts
    PROVE  Seen' = Seen \cup texts
<1>1. \A i \in DOMAIN entries : i # at => SeenTexts(i)' = SeenTexts(i)
    BY SeenElsewhere
<1>2. Seen' = UNION {SeenTexts(i)' : i \in DOMAIN entries}
    BY DEF Seen
<1>3. \A c \in DOMAIN entries : c = at => SeenTexts(c)' = SeenTexts(c) \cup texts
  <2> SUFFICES ASSUME NEW c \in DOMAIN entries, c = at
               PROVE  SeenTexts(c)' = SeenTexts(c) \cup texts
      OBVIOUS
  <2> QED
      BY DEF SeenTexts, Started, LookedAt, KeywordLookedAt
<1> QED
    BY <1>1, <1>2, <1>3 DEF Seen

LEMMA UsedInit == Init => UsedSoFar
<1> SUFFICES ASSUME Init PROVE UsedSoFar
    OBVIOUS
<1>1. /\ pc = "entry" /\ at = 1 /\ used = {} /\ report.findings = {}
      /\ entries \in Seq(Entry)
    BY LintAssumption DEF Init
<1>2. \A i \in DOMAIN entries : SeenTexts(i) = {}
    BY <1>1 DEF SeenTexts, Started, LookedAt, KeywordLookedAt
<1>3. used = ConceptsOfAll(Seen)
    BY <1>1, <1>2 DEF ConceptsOfAll, Seen
<1>4. OfConcepts(report.findings) = {}
    BY <1>1 DEF OfConcepts
<1> QED
    BY <1>1, <1>3, <1>4 DEF UsedSoFar

\* Of a whole entry, its texts and their concepts.
LEMMA UsedStartEntry == ASSUME IInv, UsedSoFar, StartEntry PROVE UsedSoFar'
<1>1. /\ pc = "entry" /\ pc' = "alias" /\ item' = 1 /\ at' = at
      /\ UNCHANGED <<entries, report>>
      /\ used' = used \cup ConceptsOfAll(CollectedTexts(Current))
    BY DEF StartEntry, ConceptsOfAll
<1>2. at \in DOMAIN entries /\ entries \in Seq(Entry)
    BY DEF StartEntry, IInv, WalkTypes
<1>3. /\ \A k \in DOMAIN entries[at].aliases : ~(k < 1)
      /\ \A k \in DOMAIN entries[at].keywords : ~(k < 1)
    BY <1>2, ItemsOfEntries
<1>4. SeenTexts(at) = {}
    BY <1>1, <1>2 DEF SeenTexts, Started, LookedAt, KeywordLookedAt
<1>5. SeenTexts(at)' = CollectedTexts(Current)
    BY <1>1, <1>2, <1>3 DEF SeenTexts, Started, LookedAt, KeywordLookedAt, Current
<1>6. Seen' = Seen \cup CollectedTexts(Current)
    BY <1>1, <1>2, <1>4, <1>5, SeenHere
<1>7. Elsewhere({}) /\ report'.findings = report.findings \cup {}
    BY <1>1 DEF Elsewhere
<1> QED
    BY <1>1, <1>6, <1>7, UsedGrows

LEMMA UsedAlias == ASSUME IInv, UsedSoFar, Alias PROVE UsedSoFar'
<1> DEFINE text == Current.aliases[item]
           found == AliasFindings(text, NormalizedSearchPhrase(text))
           counted == Found(found)
<1>1. /\ pc = "alias" /\ pc' = "alias" /\ item' = item + 1 /\ at' = at
      /\ entries' = entries /\ item <= Len(Current.aliases)
      /\ used' = used \cup ConceptsOf(text)
      /\ report' = [counted EXCEPT !.aliases = counted.aliases + 1]
    BY DEF Alias
<1>2. at \in DOMAIN entries /\ entries \in Seq(Entry) /\ item \in Nat /\ at \in Nat
      /\ DOMAIN report = Fields
    BY <1>1 DEF IInv, WalkTypes
<1>3. report'.findings = report.findings \cup found
  <2>1. DOMAIN counted = Fields /\ counted.findings = report.findings \cup found
      BY <1>2, FoundAdds
  <2> HIDE DEF counted, found
  <2> QED
      BY <1>1, <2>1, CountAdds
<1>4. item \in DOMAIN entries[at].aliases
  <2>1. entries[at].aliases \in Seq(Texts)
      BY <1>2, ItemsOfEntries
  <2>2. item >= 1
      BY DEF IInv, WalkTypes
  <2> QED
      BY <1>1, <1>2, <2>1, <2>2 DEF Current
<1>5. SeenTexts(at)' = SeenTexts(at) \cup {text}
  <2>1. \A k \in DOMAIN entries[at].aliases : LookedAt(at, k)' <=> LookedAt(at, k) \/ k = item
    <3>1. \A k \in DOMAIN entries[at].aliases : k \in Nat
        BY <1>2, ItemsOfEntries
    <3> QED
        BY <1>1, <1>2, <3>1 DEF LookedAt
  <2>2. \A k : ~KeywordLookedAt(at, k) /\ ~KeywordLookedAt(at, k)'
      BY <1>1, <1>2 DEF KeywordLookedAt
  <2>3. Started(at) /\ Started(at)'
      BY <1>1 DEF Started
  <2> QED
      BY <1>1, <1>4, <2>1, <2>2, <2>3 DEF SeenTexts, Current
<1>6. Seen' = Seen \cup {text}
    BY <1>1, <1>2, <1>5, SeenHere
<1>7. ConceptsOfAll({text}) = ConceptsOf(text)
    BY DEF ConceptsOfAll
<1>8. Elsewhere(found)
    BY AliasFindingsElsewhere
<1> HIDE DEF text, found, counted
<1> QED
    BY <1>1, <1>3, <1>6, <1>7, <1>8, UsedGrows

\* A step that looks at no text, and says nothing of concepts.
LEMMA UsedStays ==
    ASSUME UsedSoFar, pc # "done", pc' # "done", used' = used, Seen' = Seen,
           NEW found, Elsewhere(found), report'.findings = report.findings \cup found
    PROVE  UsedSoFar'
<1>1. ConceptsOfAll({}) = {} /\ Seen' = Seen \cup {}
    BY DEF ConceptsOfAll
<1>2. used' = used \cup ConceptsOfAll({})
    BY <1>1
<1> QED
    BY <1>1, <1>2, UsedGrows

LEMMA UsedEndAliases == ASSUME IInv, UsedSoFar, EndAliases PROVE UsedSoFar'
<1> DEFINE found == {Finding("similar aliases", Current.id,
                             {normalized[p[1]], normalized[p[2]]}) :
                         p \in SimilarPairs(normalized)}
<1>1. /\ pc = "alias" /\ pc' = "keyword" /\ item' = 1 /\ at' = at
      /\ entries' = entries /\ item > Len(Current.aliases)
      /\ used' = used /\ report' = Found(found)
    BY DEF EndAliases
<1>2. at \in DOMAIN entries /\ entries \in Seq(Entry) /\ item \in Nat /\ at \in Nat
      /\ DOMAIN report = Fields
    BY <1>1 DEF IInv, WalkTypes
<1>3. Elsewhere(found)
  <2> SUFFICES ASSUME NEW f \in found PROVE Kind(f) # "unused concept"
      BY DEF Elsewhere
  <2>1. PICK kind \in {"similar aliases"} :
          \E b : f = Finding(kind, Current.id, b)
      OBVIOUS
  <2> QED
      BY <2>1, KindOfFinding
<1> HIDE DEF found
<1>4. report'.findings = report.findings \cup found
    BY <1>1, <1>2, FoundAdds
<1>5. SeenTexts(at)' = SeenTexts(at)
  <2>1. \A k \in DOMAIN entries[at].aliases : k < item /\ k \in Nat
      BY <1>1, <1>2, ItemsOfEntries DEF Current
  <2>2. \A k \in DOMAIN entries[at].aliases : LookedAt(at, k)' /\ LookedAt(at, k)
      BY <1>1, <1>2, <2>1 DEF LookedAt
  <2>3. \A k \in DOMAIN entries[at].keywords : ~(k < 1)
      BY <1>2, ItemsOfEntries
  <2>4. \A k \in DOMAIN entries[at].keywords :
            ~KeywordLookedAt(at, k) /\ ~KeywordLookedAt(at, k)'
      BY <1>1, <1>2, <2>3 DEF KeywordLookedAt
  <2>5. Started(at) /\ Started(at)'
      BY <1>1 DEF Started
  <2> QED
      BY <1>1, <2>2, <2>4, <2>5 DEF SeenTexts
<1>6. Seen' = Seen \cup {}
    BY <1>1, <1>2, <1>5, SeenHere
<1> QED
    BY <1>1, <1>3, <1>4, <1>6, UsedStays

LEMMA UsedKeyword == ASSUME IInv, UsedSoFar, Keyword PROVE UsedSoFar'
<1> DEFINE text == Current.keywords[item]
           found == KeywordFindings(text, NormalizedSearchPhrase(text))
           counted == Found(found)
<1>1. /\ pc = "keyword" /\ pc' = "keyword" /\ item' = item + 1 /\ at' = at
      /\ entries' = entries /\ item <= Len(Current.keywords)
      /\ used' = used \cup ConceptsOf(text)
      /\ report' = [counted EXCEPT !.keywords = counted.keywords + 1]
    BY DEF Keyword
<1>2. at \in DOMAIN entries /\ entries \in Seq(Entry) /\ item \in Nat \ {0} /\ at \in Nat
      /\ DOMAIN report = Fields
    BY <1>1 DEF IInv, WalkTypes
<1>3. report'.findings = report.findings \cup found
  <2>1. DOMAIN counted = Fields /\ counted.findings = report.findings \cup found
      BY <1>2, FoundAdds
  <2> HIDE DEF counted, found
  <2> QED
      BY <1>1, <2>1, CountAdds
<1>4. item \in DOMAIN entries[at].keywords
  <2>1. entries[at].keywords \in Seq(Texts)
      BY <1>2, ItemsOfEntries
  <2> QED
      BY <1>1, <1>2, <2>1 DEF Current
<1>5. SeenTexts(at)' = SeenTexts(at) \cup {text}
  <2>1. \A k \in DOMAIN entries[at].keywords :
            KeywordLookedAt(at, k)' <=> KeywordLookedAt(at, k) \/ k = item
    <3>1. \A k \in DOMAIN entries[at].keywords : k \in Nat
        BY <1>2, ItemsOfEntries
    <3> QED
        BY <1>1, <1>2, <3>1 DEF KeywordLookedAt
  <2>2. \A k : LookedAt(at, k) /\ LookedAt(at, k)'
      BY <1>1, <1>2 DEF LookedAt
  <2>3. Started(at) /\ Started(at)'
      BY <1>1 DEF Started
  <2> QED
      BY <1>1, <1>4, <2>1, <2>2, <2>3 DEF SeenTexts, Current
<1>6. Seen' = Seen \cup {text}
    BY <1>1, <1>2, <1>5, SeenHere
<1>7. ConceptsOfAll({text}) = ConceptsOf(text)
    BY DEF ConceptsOfAll
<1>8. Elsewhere(found)
    BY KeywordFindingsElsewhere
<1> HIDE DEF text, found, counted
<1> QED
    BY <1>1, <1>3, <1>6, <1>7, <1>8, UsedGrows

LEMMA UsedEndKeywords == ASSUME IInv, UsedSoFar, EndKeywords PROVE UsedSoFar'
<1>1. /\ pc = "keyword" /\ pc' = "related" /\ at' = at /\ item > Len(Current.keywords)
      /\ UNCHANGED <<entries, used, report>>
    BY DEF EndKeywords
<1>2. at \in DOMAIN entries /\ entries \in Seq(Entry) /\ item \in Nat /\ at \in Nat
    BY <1>1 DEF IInv, WalkTypes
<1>3. SeenTexts(at)' = SeenTexts(at)
  <2>1. \A k \in DOMAIN entries[at].keywords : k < item
      BY <1>1, <1>2, ItemsOfEntries DEF Current
  <2>2. \A k : LookedAt(at, k)' /\ LookedAt(at, k)
      BY <1>1, <1>2 DEF LookedAt
  <2>3. \A k \in DOMAIN entries[at].keywords :
            KeywordLookedAt(at, k) /\ KeywordLookedAt(at, k)'
      BY <1>1, <1>2, <2>1 DEF KeywordLookedAt
  <2>4. Started(at) /\ Started(at)'
      BY <1>1 DEF Started
  <2> QED
      BY <1>1, <2>2, <2>3, <2>4 DEF SeenTexts
<1>4. Seen' = Seen \cup {}
    BY <1>1, <1>2, <1>3, SeenHere
<1>5. Elsewhere({}) /\ report'.findings = report.findings \cup {}
    BY <1>1 DEF Elsewhere
<1> QED
    BY <1>1, <1>4, <1>5, UsedStays

LEMMA UsedRelated == ASSUME IInv, UsedSoFar, Related PROVE UsedSoFar'
<1> DEFINE found == RelatedFindings(Current.related[item])
<1>1. /\ pc = "related" /\ pc' = "related" /\ at' = at
      /\ report' = Found(found) /\ UNCHANGED <<entries, used>>
    BY DEF Related
<1>2. Elsewhere(found)
    BY RelatedFindingsElsewhere
<1> HIDE DEF found
<1>3. at \in DOMAIN entries /\ entries \in Seq(Entry) /\ at \in Nat /\ DOMAIN report = Fields
    BY <1>1 DEF IInv, WalkTypes
<1>4. report'.findings = report.findings \cup found
    BY <1>1, <1>3, FoundAdds
<1>5. SeenTexts(at)' = SeenTexts(at)
  <2>1. \A k : LookedAt(at, k)' /\ LookedAt(at, k)
      BY <1>1, <1>3 DEF LookedAt
  <2>2. \A k : KeywordLookedAt(at, k) /\ KeywordLookedAt(at, k)'
      BY <1>1, <1>3 DEF KeywordLookedAt
  <2>3. Started(at) /\ Started(at)'
      BY <1>1 DEF Started
  <2> QED
      BY <1>1, <2>1, <2>2, <2>3 DEF SeenTexts
<1>6. Seen' = Seen \cup {}
    BY <1>1, <1>3, <1>5, SeenHere
<1> QED
    BY <1>1, <1>2, <1>4, <1>6, UsedStays

\* The walk is past all of the entry when it goes on to the next.
LEMMA UsedEndEntry == ASSUME IInv, UsedSoFar, EndEntry PROVE UsedSoFar'
<1> DEFINE found == {Finding(kind, Current.id, <<>>) : kind \in Current.markdown}
<1>1. /\ pc = "related" /\ pc' = "entry" /\ at' = at + 1
      /\ report' = Found(found) /\ UNCHANGED <<entries, used>>
    BY DEF EndEntry, NextEntry
<1>2. at \in DOMAIN entries /\ entries \in Seq(Entry) /\ at \in Nat /\ DOMAIN report = Fields
    BY <1>1 DEF IInv, WalkTypes
<1>3. Elsewhere(found)
  <2> SUFFICES ASSUME NEW f \in found PROVE Kind(f) # "unused concept"
      BY DEF Elsewhere
  <2>1. PICK kind \in MarkdownKinds : f = Finding(kind, Current.id, <<>>)
      BY <1>2, ItemsOfEntries DEF Current
  <2> QED
      BY <2>1, KindOfFinding DEF MarkdownKinds
<1> HIDE DEF found
<1>4. report'.findings = report.findings \cup found
    BY <1>1, <1>2, FoundAdds
<1>5. \A i \in DOMAIN entries : SeenTexts(i)' = SeenTexts(i)
  <2> SUFFICES ASSUME NEW i \in DOMAIN entries PROVE SeenTexts(i)' = SeenTexts(i)
      OBVIOUS
  <2>1. i \in Nat
      BY <1>2
  <2>2. i < at + 1 <=> i < at \/ i = at
      BY <2>1, <1>2
  <2>3. \A k : LookedAt(i, k)' <=> LookedAt(i, k)
      BY <2>2, <1>1 DEF LookedAt
  <2>4. \A k : KeywordLookedAt(i, k)' <=> KeywordLookedAt(i, k)
      BY <2>2, <1>1 DEF KeywordLookedAt
  <2>5. Started(i)' <=> Started(i)
      BY <2>2, <1>1 DEF Started
  <2> QED
      BY <1>1, <2>3, <2>4, <2>5 DEF SeenTexts
<1>6. Seen' = Seen
    BY <1>1, <1>5 DEF Seen
<1> QED
    BY <1>1, <1>3, <1>4, <1>6, UsedStays

LEMMA UsedConcepts == ASSUME IInv, UsedSoFar, Concepts PROVE UsedSoFar'
<1> DEFINE found == {Finding("unused concept", c, <<>>) : c \in CanonicalConcepts \ used}
           counted == Found(found)
<1>1. /\ pc = "entry" /\ pc' = "done"
      /\ report' = [counted EXCEPT !.concepts = Cardinality(CanonicalConcepts)]
      /\ UNCHANGED <<entries, at, item, used>>
    BY DEF Concepts
<1>2. DOMAIN report = Fields
    BY DEF IInv, WalkTypes
<1>3. report'.findings = report.findings \cup found
  <2>1. DOMAIN counted = Fields /\ counted.findings = report.findings \cup found
      BY <1>2, FoundAdds
  <2> HIDE DEF counted, found
  <2> QED
      BY <1>1, <2>1, CountAdds
<1>4. OfConcepts(report'.findings) = found
  <2>1. OfConcepts(report.findings) = {}
      BY <1>1 DEF UsedSoFar
  <2>2. \A f \in found : \E c : f = Finding("unused concept", c, <<>>)
      BY Zenon
  <2>3. \A f \in found : Kind(f) = "unused concept"
    <3> HIDE DEF found
    <3> SUFFICES ASSUME NEW f \in found PROVE Kind(f) = "unused concept"
        OBVIOUS
    <3>1. PICK c : f = Finding("unused concept", c, <<>>)
        BY <2>2, Zenon
    <3> QED
        BY <3>1, KindOfFinding, Zenon
  <2> HIDE DEF found
  <2> QED
      BY <1>3, <2>1, <2>3 DEF OfConcepts
<1>5. {About(f) : f \in found} = CanonicalConcepts \ used
  <2>1. \A c : About(Finding("unused concept", c, <<>>)) = c
      BY DEF About, Finding
  <2>2. \A f \in found : \E c \in CanonicalConcepts \ used :
            f = Finding("unused concept", c, <<>>)
      BY Zenon
  <2>3. \A c \in CanonicalConcepts \ used : Finding("unused concept", c, <<>>) \in found
      BY Zenon
  <2> HIDE DEF found
  <2> QED
      BY <2>1, <2>2, <2>3, Zenon
<1>6. Seen' = Seen
  <2>1. \A i, k : LookedAt(i, k)' <=> LookedAt(i, k)
      BY <1>1 DEF LookedAt
  <2>2. \A i, k : KeywordLookedAt(i, k)' <=> KeywordLookedAt(i, k)
      BY <1>1 DEF KeywordLookedAt
  <2>3. \A i : Started(i)' <=> Started(i)
      BY <1>1 DEF Started
  <2>4. \A i : SeenTexts(i)' = SeenTexts(i)
      BY <1>1, <2>1, <2>2, <2>3 DEF SeenTexts
  <2> QED
      BY <1>1, <2>4 DEF Seen
<1>7. CanonicalConcepts' = CanonicalConcepts
    BY DEF CanonicalConcepts
<1> HIDE DEF found, counted
<1>8. used' = ConceptsOfAll(Seen')
    BY <1>1, <1>6 DEF UsedSoFar
<1>9. {About(f) : f \in OfConcepts(report'.findings)} = CanonicalConcepts \ used'
    BY <1>1, <1>4, <1>5
<1> QED
    BY <1>1, <1>8, <1>9 DEF UsedSoFar

LEMMA UsedStutter == ASSUME UsedSoFar, UNCHANGED vars PROVE UsedSoFar'
<1>1. UNCHANGED <<pc, at, item, entries, used, report>>
    BY DEF vars, position
<1>2. \A i, k : LookedAt(i, k)' <=> LookedAt(i, k)
    BY <1>1 DEF LookedAt
<1>3. \A i, k : KeywordLookedAt(i, k)' <=> KeywordLookedAt(i, k)
    BY <1>1 DEF KeywordLookedAt
<1>4. \A i : Started(i)' <=> Started(i)
    BY <1>1 DEF Started
<1>5. \A i : SeenTexts(i)' = SeenTexts(i)
    BY <1>1, <1>2, <1>3, <1>4 DEF SeenTexts
<1>6. Seen' = Seen
    BY <1>1, <1>5 DEF Seen
<1> QED
    BY <1>1, <1>6 DEF UsedSoFar

LEMMA UsedNext == IInv /\ UsedSoFar /\ [Next]_vars => UsedSoFar'
<1> SUFFICES ASSUME IInv, UsedSoFar, [Next]_vars PROVE UsedSoFar'
    OBVIOUS
<1>1. CASE StartEntry
    BY <1>1, UsedStartEntry
<1>2. CASE Alias
    BY <1>2, UsedAlias
<1>3. CASE EndAliases
    BY <1>3, UsedEndAliases
<1>4. CASE Keyword
    BY <1>4, UsedKeyword
<1>5. CASE EndKeywords
    BY <1>5, UsedEndKeywords
<1>6. CASE Related
    BY <1>6, UsedRelated
<1>7. CASE EndEntry
    BY <1>7, UsedEndEntry
<1>8. CASE Concepts
    BY <1>8, UsedConcepts
<1>9. CASE Done \/ UNCHANGED vars
    BY <1>9, UsedStutter DEF Done
<1> QED
    BY <1>1, <1>2, <1>3, <1>4, <1>5, <1>6, <1>7, <1>8, <1>9 DEF Next, Walk

\* At the end the walk has looked at every text that the index is built from.
LEMMA SeenAtEnd ==
    ASSUME IInv, pc = "done"
    PROVE  ConceptsOfAll(Seen) = UNION {IndexedConcepts(e) : e \in ToSet(entries)}
<1>1. \A i \in DOMAIN entries : i < at
    BY DEF IInv, WalkTypes
<1> DEFINE TextsOf(e) == CollectedTexts(e) \cup ToSet(e.aliases) \cup ToSet(e.keywords)
<1>2. \A i \in DOMAIN entries : SeenTexts(i) = TextsOf(entries[i])
    BY <1>1 DEF SeenTexts, Started, LookedAt, KeywordLookedAt, ToSet
<1> HIDE DEF TextsOf
<1>3. Seen = UNION {TextsOf(e) : e \in ToSet(entries)}
    BY <1>2 DEF Seen, ToSet
<1>4. \A e : IndexedConcepts(e) = ConceptsOfAll(TextsOf(e))
    BY DEF IndexedConcepts, ConceptsOfAll, TextsOf, CollectedTexts
<1> QED
    BY <1>3, <1>4 DEF ConceptsOfAll

\* For every list of entries and every dictionary: KnowledgeBase::lint
\* (src/src/knowledge.cpp) reports a concept as unused exactly when
\* InvertedIndex::build lists no entry under it.
THEOREM UnusedConceptsAreUnindexed == Spec => []UnusedMeansUnindexed
<1>1. Spec => []IInv
    BY InvariantInit, InvariantNext, PTL DEF Spec
<1>2. Spec => []UsedSoFar
    BY <1>1, UsedInit, UsedNext, PTL DEF Spec
<1>3. IInv /\ UsedSoFar => UnusedMeansUnindexed
    BY SeenAtEnd DEF UsedSoFar, UnusedMeansUnindexed, OfConcepts
<1> QED
    BY <1>1, <1>2, <1>3, PTL

-----------------------------------------------------------------------------
(* What the walk says, place by place.                                     *)

\* The places of the walk in an entry: its items, stage by stage, and behind
\* the last item of a stage the end of it.
Stages == {"alias", "keyword", "related"}
ItemsOf(i, s) ==
    IF s = "alias" THEN entries[i].aliases
    ELSE IF s = "keyword" THEN entries[i].keywords ELSE entries[i].related
PlacesOf(i, s) == 1..Len(ItemsOf(i, s)) + 1

Before(s, t) ==
    (s = "alias" /\ t \in {"keyword", "related"}) \/ (s = "keyword" /\ t = "related")
Past(i, s, k) ==
    \/ i < at
    \/ i = at /\ Before(s, pc)
    \/ i = at /\ s = pc /\ k < item

\* What an item is compared by, and by what the walk knows the items before it.
ItemAt(i, s, k) ==
    IF s = "related" THEN ItemsOf(i, s)[k] ELSE NormalizedSearchPhrase(ItemsOf(i, s)[k])
Earlier(i, s, k) ==
    {ItemAt(i, s, j) : j \in 1..k - 1} \ (IF s = "related" THEN {} ELSE {<<>>})

\* What is said of an entry at each of its places.
AliasSays(i, k) ==
    LET text == entries[i].aliases[k]
        phrase == ItemAt(i, "alias", k) IN
    IF phrase = <<>> THEN {Finding("empty alias", entries[i].id, text)}
    ELSE IF phrase \in Earlier(i, "alias", k) THEN {Finding("duplicate alias", entries[i].id, phrase)}
    ELSE {Finding("alias collision", entries[i].id, <<p, Owner(p)>>) :
            p \in {q \in {phrase} : Owner(q) # entries[i].id}}

SimilarSays(i) ==
    {Finding("similar aliases", entries[i].id, {pair[1], pair[2]}) :
        pair \in {q \in PhrasesOf(entries[i].aliases) \X PhrasesOf(entries[i].aliases) :
                    AliasesAreOverlySimilar(q[1], q[2])}}

KeywordSays(i, k) ==
    LET text == entries[i].keywords[k]
        phrase == ItemAt(i, "keyword", k) IN
    IF phrase = <<>> THEN {Finding("empty keyword", entries[i].id, text)}
    ELSE {Finding("duplicate keyword", entries[i].id, p) :
            p \in Earlier(i, "keyword", k) \cap {phrase}} \cup
         {Finding("broad keyword", entries[i].id, text) :
            w \in {v \in BroadKeywords : phrase = <<v>>}}

RelatedSays(i, k) ==
    LET id == entries[i].related[k] IN
    IF id \in Earlier(i, "related", k) THEN {Finding("duplicate related", entries[i].id, id)}
    ELSE IF id = entries[i].id THEN {Finding("self related", entries[i].id, id)}
    ELSE {Finding("not reciprocal", entries[i].id, id) :
            e \in {f \in FindById(id) : ~Contains(f.related, entries[i].id)}}

MarkdownSays(i) == {Finding(kind, entries[i].id, <<>>) : kind \in entries[i].markdown}

Says(i, s, k) ==
    IF k <= Len(ItemsOf(i, s))
    THEN IF s = "alias" THEN AliasSays(i, k)
         ELSE IF s = "keyword" THEN KeywordSays(i, k) ELSE RelatedSays(i, k)
    ELSE IF s = "alias" THEN SimilarSays(i)
         ELSE IF s = "keyword" THEN {} ELSE MarkdownSays(i)

\* The walk has said so far what there is to say at the places it is past.
Said(f) ==
    \E i \in DOMAIN entries : \E s \in Stages : \E k \in PlacesOf(i, s) :
        Past(i, s, k) /\ f \in Says(i, s, k)
OfEntries == {f \in report.findings : Kind(f) # "unused concept"}
SaidSoFar == \A f : f \in OfEntries <=> Said(f)

-----------------------------------------------------------------------------
(* An entry is told, place by place, what the order-free reading expects.  *)

\* The first place of a list with a value.
LEMMA FirstPlace ==
    ASSUME NEW q, NEW n \in Nat, NEW m \in 1..n
    PROVE  \E k \in 1..n : q[k] = q[m] /\ \A j \in 1..k - 1 : q[j] # q[m]
<1> DEFINE S == {k \in 1..n : q[k] = q[m]}
<1>1. S \in SUBSET Nat /\ S # {}
    OBVIOUS
<1>2. PICK k \in S : \A j \in S : k <= j
    BY <1>1, LeastNumber
<1>3. \A j \in 1..k - 1 : j \in 1..n /\ ~(k <= j)
    BY <1>2
<1> QED
    BY <1>2, <1>3

LEMMA TextsOfEntry ==
    ASSUME NEW e \in Entry
    PROVE  /\ e.aliases \in Seq(Texts) /\ e.keywords \in Seq(Texts) /\ e.related \in Seq(Nat)
           /\ e.id \in Nat /\ e.markdown \subseteq MarkdownKinds
    BY DEF Entry

\* A text that repeats another stands somewhere behind one like it.
LEMMA RepeatedBehind ==
    ASSUME NEW texts \in Seq(Texts), NEW p
    PROVE  p \in Repeated(texts) <=>
               \E k \in 1..Len(texts) :
                   /\ NormalizedSearchPhrase(texts[k]) = p
                   /\ \E j \in 1..k - 1 : NormalizedSearchPhrase(texts[j]) = p
<1> DEFINE q == [k \in 1..Len(texts) |-> NormalizedSearchPhrase(texts[k])]
<1>1. DOMAIN texts = 1..Len(texts) /\ Len(texts) \in Nat
    OBVIOUS
<1>2. p \in Repeated(texts) <=> \E i, j \in 1..Len(texts) : i # j /\ q[i] = p /\ q[j] = p
    BY <1>1 DEF Repeated
<1>3. \A k \in 1..Len(texts) : \A j \in 1..k - 1 : j \in 1..Len(texts)
    BY <1>1
<1>4. \A i, j \in 1..Len(texts) : i # j => i \in 1..j - 1 \/ j \in 1..i - 1
    BY <1>1
<1>5. \A k \in 1..Len(texts) : \A j \in 1..k - 1 : j # k
    BY <1>1
<1>6. \A k \in 1..Len(texts) : q[k] = NormalizedSearchPhrase(texts[k])
    OBVIOUS
<1> HIDE DEF q
<1> QED
    BY <1>2, <1>3, <1>4, <1>5, <1>6

\* A related id that stands behind another like it is there more than once.
LEMMA MoreThanOnce ==
    ASSUME NEW list \in Seq(Nat), NEW r
    PROVE  Cardinality({i \in DOMAIN list : list[i] = r}) > 1 <=>
               \E k \in 1..Len(list) : list[k] = r /\ \E j \in 1..k - 1 : list[j] = r
<1> DEFINE S == {i \in DOMAIN list : list[i] = r}
<1>1. DOMAIN list = 1..Len(list) /\ Len(list) \in Nat /\ IsFiniteSet(1..Len(list))
    BY FS_Interval
<1>2. IsFiniteSet(S) /\ Cardinality(S) \in Nat
    BY <1>1, FS_Subset, FS_CardinalityType
<1>3. ASSUME NEW k \in 1..Len(list), list[k] = r, NEW j \in 1..k - 1, list[j] = r
      PROVE  Cardinality(S) > 1
  <2>1. k \in S /\ j \in S \ {k}
      BY <1>1, <1>3
  <2> HIDE DEF S
  <2>2. Cardinality(S \ {k}) = Cardinality(S) - 1 /\ IsFiniteSet(S \ {k})
      BY <1>2, <2>1, FS_RemoveElement
  <2>3. Cardinality(S \ {k}) # 0 /\ Cardinality(S \ {k}) \in Nat
      BY <2>1, <2>2, FS_EmptySet, FS_CardinalityType
  <2> QED
      BY <1>2, <2>2, <2>3
<1>4. ASSUME Cardinality(S) > 1
      PROVE  \E k \in 1..Len(list) : list[k] = r /\ \E j \in 1..k - 1 : list[j] = r
  <2> HIDE DEF S
  <2>1. S # {}
      BY <1>2, <1>4, FS_EmptySet
  <2>2. PICK i \in S : TRUE
      BY <2>1
  <2>3. S # {i}
    <3>1. Cardinality({i}) = 1
        BY FS_Singleton
    <3>2. S = {i} => Cardinality(S) = 1
        BY <3>1, Zenon
    <3> QED
        BY <1>2, <1>4, <3>2
  <2>4. PICK j \in S : j # i
      BY <2>2, <2>3
  <2> USE DEF S
  <2>5. i \in 1..j - 1 \/ j \in 1..i - 1
      BY <1>1, <2>2, <2>4
  <2> QED
      BY <1>1, <2>2, <2>4, <2>5
<1> QED
    BY <1>3, <1>4

\* The parts of what is expected of an entry.
ExpectedOfAliases(e) ==
    {Finding("empty alias", e.id, t) :
        t \in {u \in ToSet(e.aliases) : NormalizedSearchPhrase(u) = <<>>}} \cup
    {Finding("duplicate alias", e.id, p) : p \in Repeated(e.aliases) \ {<<>>}} \cup
    {Finding("alias collision", e.id, <<p, Owner(p)>>) :
        p \in {q \in PhrasesOf(e.aliases) : Owner(q) # e.id}}

ExpectedOfKeywords(e) ==
    {Finding("empty keyword", e.id, t) :
        t \in {u \in ToSet(e.keywords) : NormalizedSearchPhrase(u) = <<>>}} \cup
    {Finding("duplicate keyword", e.id, p) : p \in Repeated(e.keywords) \ {<<>>}} \cup
    {Finding("broad keyword", e.id, t) :
        t \in {u \in ToSet(e.keywords) :
                \E w \in BroadKeywords : NormalizedSearchPhrase(u) = <<w>>}}

ExpectedOfRelated(e) ==
    {Finding("duplicate related", e.id, id) :
        id \in {r \in ToSet(e.related) :
                    Cardinality({i \in DOMAIN e.related : e.related[i] = r}) > 1}} \cup
    {Finding("self related", e.id, id) : id \in ToSet(e.related) \cap {e.id}} \cup
    {Finding("not reciprocal", e.id, f.id) :
        f \in {g \in ToSet(entries) : /\ g.id # e.id /\ Contains(e.related, g.id)
                                      /\ ~Contains(g.related, e.id)}}

LEMMA PartsOfExpected ==
    ASSUME NEW i
    PROVE  Expected(entries[i]) =
               ExpectedOfAliases(entries[i]) \cup SimilarSays(i) \cup
               ExpectedOfKeywords(entries[i]) \cup ExpectedOfRelated(entries[i]) \cup
               MarkdownSays(i)
    BY DEF Expected, ExpectedOfAliases, ExpectedOfKeywords, ExpectedOfRelated,
           SimilarSays, MarkdownSays

LEMMA AliasesExact ==
    ASSUME entries \in Seq(Entry), NEW i \in DOMAIN entries, NEW f
    PROVE  (\E k \in 1..Len(entries[i].aliases) : f \in AliasSays(i, k)) <=>
               f \in ExpectedOfAliases(entries[i])
<1> DEFINE e == entries[i]
           a == e.aliases
           n == Len(a)
           P(k) == NormalizedSearchPhrase(a[k])
           Again(k) == \E j \in 1..k - 1 : P(j) = P(k)
           Empty(t) == f = Finding("empty alias", e.id, t)
           Duplicate(p) == f = Finding("duplicate alias", e.id, p)
           Collision(p) == f = Finding("alias collision", e.id, <<p, Owner(p)>>)
<1>1. e \in Entry
    OBVIOUS
<1>2. a \in Seq(Texts) /\ n \in Nat /\ DOMAIN a = 1..n
    BY <1>1, TextsOfEntry
<1>3. \A k : ItemAt(i, "alias", k) = P(k)
    BY DEF ItemAt, ItemsOf
<1>4. \A k : P(k) # <<>> => (P(k) \in Earlier(i, "alias", k) <=> Again(k))
    BY <1>3 DEF Earlier
<1>5. \A k : f \in AliasSays(i, k) <=>
          \/ P(k) = <<>> /\ Empty(a[k])
          \/ P(k) # <<>> /\ Again(k) /\ Duplicate(P(k))
          \/ P(k) # <<>> /\ ~Again(k) /\ Owner(P(k)) # e.id /\ Collision(P(k))
  <2> SUFFICES ASSUME NEW k
               PROVE  f \in AliasSays(i, k) <=>
                          \/ P(k) = <<>> /\ Empty(a[k])
                          \/ P(k) # <<>> /\ Again(k) /\ Duplicate(P(k))
                          \/ P(k) # <<>> /\ ~Again(k) /\ Owner(P(k)) # e.id /\ Collision(P(k))
      OBVIOUS
  <2> DEFINE p == P(k)
             colliding == {Finding("alias collision", e.id, <<r, Owner(r)>>) :
                              r \in {q \in {p} : Owner(q) # e.id}}
  <2>1. AliasSays(i, k) = IF p = <<>> THEN {Finding("empty alias", e.id, a[k])}
                          ELSE IF p \in Earlier(i, "alias", k)
                          THEN {Finding("duplicate alias", e.id, p)} ELSE colliding
    <3>1. ItemAt(i, "alias", k) = p
        BY <1>3
    <3> HIDE DEF p
    <3> QED
        BY <3>1, Zenon DEF AliasSays
  <2>2. f \in colliding <=> Owner(p) # e.id /\ Collision(p)
      BY Zenon
  <2>3. p # <<>> => (p \in Earlier(i, "alias", k) <=> Again(k))
      BY <1>4
  <2> HIDE DEF P, a, e, colliding
  <2> QED
      BY <2>1, <2>2, <2>3
<1>6. f \in ExpectedOfAliases(e) <=>
          \/ \E k \in 1..n : P(k) = <<>> /\ Empty(a[k])
          \/ \E p : p # <<>> /\ p \in Repeated(a) /\ Duplicate(p)
          \/ \E p \in PhrasesOf(a) : Owner(p) # e.id /\ Collision(p)
  <2>1. \A t : t \in ToSet(a) <=> \E k \in 1..n : a[k] = t
      BY <1>2 DEF ToSet
  <2> QED
      BY <2>1 DEF ExpectedOfAliases
<1>7. \A p : p \in Repeated(a) <=> \E k \in 1..n : P(k) = p /\ Again(k)
  <2>1. \A p : p \in Repeated(a) <=>
                  \E k \in 1..n : P(k) = p /\ \E j \in 1..k - 1 : P(j) = p
      BY <1>2, RepeatedBehind
  <2> HIDE DEF P
  <2> QED
      BY <2>1
<1>8. \A p : p \in PhrasesOf(a) <=> p # <<>> /\ \E k \in 1..n : P(k) = p /\ ~Again(k)
  <2>1. \A p : p \in PhrasesOf(a) <=> p # <<>> /\ \E k \in 1..n : P(k) = p
      BY <1>2 DEF PhrasesOf
  <2>2. ASSUME NEW m \in 1..n PROVE \E k \in 1..n : P(k) = P(m) /\ ~Again(k)
    <3> DEFINE q == [k \in 1..n |-> P(k)]
    <3> HIDE DEF P, n
    <3>1. \E k \in 1..n : q[k] = q[m] /\ \A j \in 1..k - 1 : q[j] # q[m]
      <4> HIDE DEF q
      <4> QED
          BY <1>2, FirstPlace
    <3>2. \A k \in 1..n : \A j \in 1..k - 1 : j \in 1..n
        BY <1>2
    <3> QED
        BY <3>1, <3>2
  <2> HIDE DEF P, n
  <2> QED
      BY <2>1, <2>2
<1> HIDE DEF P, a, n, Empty, Duplicate, Collision
<1>9. ASSUME NEW k \in 1..n, f \in AliasSays(i, k) PROVE f \in ExpectedOfAliases(e)
  <2>1. CASE P(k) = <<>> /\ Empty(a[k])
      BY <1>6, <2>1
  <2>2. CASE P(k) # <<>> /\ Again(k) /\ Duplicate(P(k))
      BY <1>6, <1>7, <2>2
  <2>3. CASE P(k) # <<>> /\ ~Again(k) /\ Owner(P(k)) # e.id /\ Collision(P(k))
      BY <1>6, <1>8, <2>3
  <2> QED
      BY <1>5, <1>9, <2>1, <2>2, <2>3
<1>10. ASSUME f \in ExpectedOfAliases(e) PROVE \E k \in 1..n : f \in AliasSays(i, k)
  <2>1. CASE \E k \in 1..n : P(k) = <<>> /\ Empty(a[k])
      BY <1>5, <2>1
  <2>2. CASE \E p : p # <<>> /\ p \in Repeated(a) /\ Duplicate(p)
      BY <1>5, <1>7, <2>2
  <2>3. CASE \E p \in PhrasesOf(a) : Owner(p) # e.id /\ Collision(p)
      BY <1>5, <1>8, <2>3
  <2> QED
      BY <1>6, <1>10, <2>1, <2>2, <2>3
<1> QED
    BY <1>9, <1>10 DEF n, a

LEMMA KeywordsExact ==
    ASSUME entries \in Seq(Entry), NEW i \in DOMAIN entries, NEW f
    PROVE  (\E k \in 1..Len(entries[i].keywords) : f \in KeywordSays(i, k)) <=>
               f \in ExpectedOfKeywords(entries[i])
<1> DEFINE e == entries[i]
           a == e.keywords
           n == Len(a)
           P(k) == NormalizedSearchPhrase(a[k])
           Again(k) == \E j \in 1..k - 1 : P(j) = P(k)
           IsBroad(k) == \E w \in BroadKeywords : P(k) = <<w>>
           Empty(t) == f = Finding("empty keyword", e.id, t)
           Duplicate(p) == f = Finding("duplicate keyword", e.id, p)
           Broad(t) == f = Finding("broad keyword", e.id, t)
<1>1. e \in Entry
    OBVIOUS
<1>2. a \in Seq(Texts) /\ n \in Nat /\ DOMAIN a = 1..n
    BY <1>1, TextsOfEntry
<1>3. \A k : ItemAt(i, "keyword", k) = P(k)
    BY DEF ItemAt, ItemsOf
<1>4. \A k : P(k) # <<>> => (P(k) \in Earlier(i, "keyword", k) <=> Again(k))
    BY <1>3 DEF Earlier
<1>5. \A k : f \in KeywordSays(i, k) <=>
          \/ P(k) = <<>> /\ Empty(a[k])
          \/ P(k) # <<>> /\ Again(k) /\ Duplicate(P(k))
          \/ P(k) # <<>> /\ IsBroad(k) /\ Broad(a[k])
  <2> SUFFICES ASSUME NEW k
               PROVE  f \in KeywordSays(i, k) <=>
                          \/ P(k) = <<>> /\ Empty(a[k])
                          \/ P(k) # <<>> /\ Again(k) /\ Duplicate(P(k))
                          \/ P(k) # <<>> /\ IsBroad(k) /\ Broad(a[k])
      OBVIOUS
  <2> DEFINE p == P(k)
             again == {Finding("duplicate keyword", e.id, r) :
                          r \in Earlier(i, "keyword", k) \cap {p}}
             broad == {Finding("broad keyword", e.id, a[k]) :
                          w \in {v \in BroadKeywords : p = <<v>>}}
  <2>1. KeywordSays(i, k) = IF p = <<>> THEN {Finding("empty keyword", e.id, a[k])}
                            ELSE again \cup broad
    <3>1. ItemAt(i, "keyword", k) = p
        BY <1>3
    <3> HIDE DEF p
    <3> QED
        BY <3>1, Zenon DEF KeywordSays
  <2>2. f \in again <=> p \in Earlier(i, "keyword", k) /\ Duplicate(p)
      BY Zenon
  <2>3. f \in broad <=> IsBroad(k) /\ Broad(a[k])
      BY Zenon
  <2>4. p # <<>> => (p \in Earlier(i, "keyword", k) <=> Again(k))
      BY <1>4
  <2> HIDE DEF P, a, e, again, broad
  <2> QED
      BY <2>1, <2>2, <2>3, <2>4
<1>6. f \in ExpectedOfKeywords(e) <=>
          \/ \E k \in 1..n : P(k) = <<>> /\ Empty(a[k])
          \/ \E p : p # <<>> /\ p \in Repeated(a) /\ Duplicate(p)
          \/ \E k \in 1..n : IsBroad(k) /\ Broad(a[k])
  <2>1. \A t : t \in ToSet(a) <=> \E k \in 1..n : a[k] = t
      BY <1>2 DEF ToSet
  <2> QED
      BY <2>1 DEF ExpectedOfKeywords
<1>7. \A p : p \in Repeated(a) <=> \E k \in 1..n : P(k) = p /\ Again(k)
  <2>1. \A p : p \in Repeated(a) <=>
                  \E k \in 1..n : P(k) = p /\ \E j \in 1..k - 1 : P(j) = p
      BY <1>2, RepeatedBehind
  <2> HIDE DEF P
  <2> QED
      BY <2>1
<1>8. \A k : IsBroad(k) => P(k) # <<>>
  <2> HIDE DEF P
  <2> QED
      OBVIOUS
<1> HIDE DEF P, a, n, IsBroad, Empty, Duplicate, Broad
<1>9. ASSUME NEW k \in 1..n, f \in KeywordSays(i, k) PROVE f \in ExpectedOfKeywords(e)
  <2>1. CASE P(k) = <<>> /\ Empty(a[k])
      BY <1>6, <2>1
  <2>2. CASE P(k) # <<>> /\ Again(k) /\ Duplicate(P(k))
      BY <1>6, <1>7, <2>2
  <2>3. CASE P(k) # <<>> /\ IsBroad(k) /\ Broad(a[k])
      BY <1>6, <2>3
  <2> QED
      BY <1>5, <1>9, <2>1, <2>2, <2>3
<1>10. ASSUME f \in ExpectedOfKeywords(e) PROVE \E k \in 1..n : f \in KeywordSays(i, k)
  <2>1. CASE \E k \in 1..n : P(k) = <<>> /\ Empty(a[k])
      BY <1>5, <2>1
  <2>2. CASE \E p : p # <<>> /\ p \in Repeated(a) /\ Duplicate(p)
      BY <1>5, <1>7, <2>2
  <2>3. CASE \E k \in 1..n : IsBroad(k) /\ Broad(a[k])
      BY <1>5, <1>8, <2>3
  <2> QED
      BY <1>6, <1>10, <2>1, <2>2, <2>3
<1> QED
    BY <1>9, <1>10 DEF n, a

LEMMA RelatedExact ==
    ASSUME entries \in Seq(Entry), NEW i \in DOMAIN entries, NEW f
    PROVE  (\E k \in 1..Len(entries[i].related) : f \in RelatedSays(i, k)) <=>
               f \in ExpectedOfRelated(entries[i])
<1> DEFINE e == entries[i]
           a == e.related
           n == Len(a)
           Again(k) == \E j \in 1..k - 1 : a[j] = a[k]
           OneWay(id) == \E g \in ToSet(entries) : g.id = id /\ ~Contains(g.related, e.id)
           Duplicate(id) == f = Finding("duplicate related", e.id, id)
           Self(id) == f = Finding("self related", e.id, id)
           NotBack(id) == f = Finding("not reciprocal", e.id, id)
<1>1. e \in Entry
    OBVIOUS
<1>2. a \in Seq(Nat) /\ n \in Nat /\ DOMAIN a = 1..n
    BY <1>1, TextsOfEntry
<1>3. \A k : a[k] \in Earlier(i, "related", k) <=> Again(k)
    BY DEF Earlier, ItemAt, ItemsOf
<1>4. \A k : f \in RelatedSays(i, k) <=>
          \/ Again(k) /\ Duplicate(a[k])
          \/ ~Again(k) /\ a[k] = e.id /\ Self(a[k])
          \/ ~Again(k) /\ a[k] # e.id /\ OneWay(a[k]) /\ NotBack(a[k])
  <2> SUFFICES ASSUME NEW k
               PROVE  f \in RelatedSays(i, k) <=>
                          \/ Again(k) /\ Duplicate(a[k])
                          \/ ~Again(k) /\ a[k] = e.id /\ Self(a[k])
                          \/ ~Again(k) /\ a[k] # e.id /\ OneWay(a[k]) /\ NotBack(a[k])
      OBVIOUS
  <2> DEFINE r == a[k]
             oneWay == {Finding("not reciprocal", e.id, r) :
                           g \in {h \in FindById(r) : ~Contains(h.related, e.id)}}
  <2>1. RelatedSays(i, k) = IF r \in Earlier(i, "related", k)
                            THEN {Finding("duplicate related", e.id, r)}
                            ELSE IF r = e.id THEN {Finding("self related", e.id, r)}
                            ELSE oneWay
      BY Zenon DEF RelatedSays
  <2>2. f \in oneWay <=> OneWay(r) /\ NotBack(r)
      BY Zenon DEF FindById, ById
  <2>3. r \in Earlier(i, "related", k) <=> Again(k)
      BY <1>3
  <2> HIDE DEF a, e, oneWay
  <2> QED
      BY <2>1, <2>2, <2>3
<1>5. f \in ExpectedOfRelated(e) <=>
          \/ \E id : (\E k \in 1..n : a[k] = id /\ Again(k)) /\ Duplicate(id)
          \/ (\E k \in 1..n : a[k] = e.id) /\ Self(e.id)
          \/ \E id : id # e.id /\ (\E k \in 1..n : a[k] = id) /\ OneWay(id) /\ NotBack(id)
  <2>1. \A t : t \in ToSet(a) <=> \E k \in 1..n : a[k] = t
      BY <1>2 DEF ToSet
  <2>2. \A id : Contains(a, id) <=> \E k \in 1..n : a[k] = id
      BY DEF Contains
  <2>3. \A id : Cardinality({j \in DOMAIN a : a[j] = id}) > 1 <=>
                    \E k \in 1..n : a[k] = id /\ \E j \in 1..k - 1 : a[j] = id
      BY <1>2, MoreThanOnce
  <2>4. \A id : Cardinality({j \in DOMAIN a : a[j] = id}) > 1 <=>
                    \E k \in 1..n : a[k] = id /\ Again(k)
      BY <2>3
  <2> DEFINE Many(id) == Cardinality({j \in DOMAIN a : a[j] = id}) > 1
             set1 == {Finding("duplicate related", e.id, id) : id \in {r \in ToSet(a) : Many(r)}}
             set2 == {Finding("self related", e.id, id) : id \in ToSet(a) \cap {e.id}}
             set3 == {Finding("not reciprocal", e.id, g.id) :
                        g \in {h \in ToSet(entries) : /\ h.id # e.id /\ Contains(a, h.id)
                                                       /\ ~Contains(h.related, e.id)}}
  <2>5. f \in ExpectedOfRelated(e) <=> f \in set1 \/ f \in set2 \/ f \in set3
      BY Zenon DEF ExpectedOfRelated
  <2>6. f \in set1 <=> \E id : (\E k \in 1..n : a[k] = id /\ Again(k)) /\ Duplicate(id)
    <3>1. \A id : Many(id) <=> \E k \in 1..n : a[k] = id /\ Again(k)
        BY <2>4
    <3>2. f \in set1 <=> \E id \in ToSet(a) : Many(id) /\ Duplicate(id)
        BY Zenon
    <3> HIDE DEF Many, set1, Duplicate
    <3> QED
        BY <2>1, <3>1, <3>2
  <2>7. f \in set2 <=> (\E k \in 1..n : a[k] = e.id) /\ Self(e.id)
    <3>1. f \in set2 <=> e.id \in ToSet(a) /\ Self(e.id)
        BY Zenon
    <3> QED
        BY <2>1, <3>1
  <2>8. f \in set3 <=> \E id : id # e.id /\ (\E k \in 1..n : a[k] = id) /\ OneWay(id) /\ NotBack(id)
    <3>1. f \in set3 <=> \E h \in ToSet(entries) : /\ h.id # e.id /\ Contains(a, h.id)
                                                   /\ ~Contains(h.related, e.id) /\ NotBack(h.id)
        BY Zenon
    <3> HIDE DEF set3, NotBack
    <3> QED
        BY <2>2, <3>1
  <2> HIDE DEF set1, set2, set3
  <2> QED
      BY <2>5, <2>6, <2>7, <2>8
<1>6. \A m \in 1..n : \E k \in 1..n : a[k] = a[m] /\ ~Again(k)
  <2> SUFFICES ASSUME NEW m \in 1..n PROVE \E k \in 1..n : a[k] = a[m] /\ ~Again(k)
      OBVIOUS
  <2> HIDE DEF n, a
  <2>1. \E k \in 1..n : a[k] = a[m] /\ \A j \in 1..k - 1 : a[j] # a[m]
      BY <1>2, FirstPlace
  <2> QED
      BY <2>1
<1> HIDE DEF a, n, Again, OneWay, Duplicate, Self, NotBack
<1>7. ASSUME NEW k \in 1..n, f \in RelatedSays(i, k) PROVE f \in ExpectedOfRelated(e)
  <2>1. CASE Again(k) /\ Duplicate(a[k])
      BY <1>5, <2>1
  <2>2. CASE ~Again(k) /\ a[k] = e.id /\ Self(a[k])
      BY <1>5, <2>2
  <2>3. CASE ~Again(k) /\ a[k] # e.id /\ OneWay(a[k]) /\ NotBack(a[k])
      BY <1>5, <2>3
  <2> QED
      BY <1>4, <1>7, <2>1, <2>2, <2>3
<1>8. ASSUME f \in ExpectedOfRelated(e) PROVE \E k \in 1..n : f \in RelatedSays(i, k)
  <2>1. CASE \E id : (\E k \in 1..n : a[k] = id /\ Again(k)) /\ Duplicate(id)
      BY <1>4, <2>1
  <2>2. CASE (\E k \in 1..n : a[k] = e.id) /\ Self(e.id)
      BY <1>4, <1>6, <2>2
  <2>3. CASE \E id : id # e.id /\ (\E k \in 1..n : a[k] = id) /\ OneWay(id) /\ NotBack(id)
      BY <1>4, <1>6, <2>3
  <2> QED
      BY <1>5, <1>8, <2>1, <2>2, <2>3
<1> QED
    BY <1>7, <1>8 DEF n, a

\* So much for one entry: what is said of it is what is expected of it.
LEMMA SaysAreExpected ==
    ASSUME entries \in Seq(Entry), NEW i \in DOMAIN entries, NEW f
    PROVE  (\E s \in Stages : \E k \in PlacesOf(i, s) : f \in Says(i, s, k)) <=>
               f \in Expected(entries[i])
<1> DEFINE SaidIn(s) == \E k \in PlacesOf(i, s) : f \in Says(i, s, k)
           Size_(s) == Len(ItemsOf(i, s))
<1>1. \A s \in Stages : Size_(s) \in Nat
    BY TextsOfEntry DEF Stages, ItemsOf
<1>2. \A s \in Stages : SaidIn(s) <=>
          (\E k \in 1..Size_(s) : f \in Says(i, s, k)) \/ f \in Says(i, s, Size_(s) + 1)
    BY <1>1 DEF PlacesOf
<1>3. SaidIn("alias") <=> f \in ExpectedOfAliases(entries[i]) \/ f \in SimilarSays(i)
  <2>1. "alias" \in Stages /\ ItemsOf(i, "alias") = entries[i].aliases
      BY DEF Stages, ItemsOf
  <2>2. \A k \in 1..Size_("alias") : Says(i, "alias", k) = AliasSays(i, k)
      BY <1>1, <2>1 DEF Says
  <2>3. Says(i, "alias", Size_("alias") + 1) = SimilarSays(i)
      BY <1>1, <2>1 DEF Says
  <2> QED
      BY <1>2, <2>1, <2>2, <2>3, AliasesExact
<1>4. SaidIn("keyword") <=> f \in ExpectedOfKeywords(entries[i])
  <2>1. "keyword" \in Stages /\ ItemsOf(i, "keyword") = entries[i].keywords
      BY DEF Stages, ItemsOf
  <2>2. \A k \in 1..Size_("keyword") : Says(i, "keyword", k) = KeywordSays(i, k)
      BY <1>1, <2>1 DEF Says
  <2>3. Says(i, "keyword", Size_("keyword") + 1) = {}
      BY <1>1, <2>1 DEF Says
  <2> QED
      BY <1>2, <2>1, <2>2, <2>3, KeywordsExact
<1>5. SaidIn("related") <=> f \in ExpectedOfRelated(entries[i]) \/ f \in MarkdownSays(i)
  <2>1. "related" \in Stages /\ ItemsOf(i, "related") = entries[i].related
      BY DEF Stages, ItemsOf
  <2>2. \A k \in 1..Size_("related") : Says(i, "related", k) = RelatedSays(i, k)
      BY <1>1, <2>1 DEF Says
  <2>3. Says(i, "related", Size_("related") + 1) = MarkdownSays(i)
      BY <1>1, <2>1 DEF Says
  <2> QED
      BY <1>2, <2>1, <2>2, <2>3, RelatedExact
<1>6. (\E s \in Stages : SaidIn(s)) <=> SaidIn("alias") \/ SaidIn("keyword") \/ SaidIn("related")
    BY DEF Stages
<1> HIDE DEF SaidIn
<1>7. (\E s \in Stages : SaidIn(s)) <=> f \in Expected(entries[i])
    BY <1>3, <1>4, <1>5, <1>6, PartsOfExpected
<1> QED
    BY <1>7 DEF SaidIn

-----------------------------------------------------------------------------
(* The sets that the walk fills on the way, and what they stand for.       *)

KnownAlias(p) ==
    /\ p # <<>>
    /\ \E i \in DOMAIN entries : \E k \in 1..Len(entries[i].aliases) :
          Past(i, "alias", k) /\ ItemAt(i, "alias", k) = p

HandBook ==
    /\ pc \in Stages => item \in PlacesOf(at, pc) /\ local = Earlier(at, pc, item)
    /\ pc = "alias" => normalized \in Seq(local) /\ ToSet(normalized) = local

OwnerBook ==
    /\ \A p : p \in DOMAIN owners <=> KnownAlias(p)
    /\ \A p \in DOMAIN owners : owners[p] = Owner(p)

ExactInv == HandBook /\ OwnerBook /\ SaidSoFar

\* A step leaves exactly the place in hand behind it, or none.
Leaves(i, s, k) == i = at /\ s = pc /\ k = item
Advances ==
    \A i \in DOMAIN entries : \A s \in Stages : \A k \in PlacesOf(i, s) :
        Past(i, s, k)' <=> Past(i, s, k) \/ Leaves(i, s, k)
Remains ==
    \A i \in DOMAIN entries : \A s \in Stages : \A k \in PlacesOf(i, s) :
        Past(i, s, k)' <=> Past(i, s, k)

LEMMA ListSizes ==
    ASSUME entries \in Seq(Entry), NEW i \in DOMAIN entries
    PROVE  /\ i \in Nat
           /\ \A s \in Stages : Len(ItemsOf(i, s)) \in Nat
           /\ \A s \in Stages : \A k \in PlacesOf(i, s) : k \in Nat /\ k <= Len(ItemsOf(i, s)) + 1
<1>1. i \in Nat /\ entries[i] \in Entry
    OBVIOUS
<1>2. \A s \in Stages : Len(ItemsOf(i, s)) \in Nat
    BY <1>1, TextsOfEntry DEF Stages, ItemsOf
<1> QED
    BY <1>1, <1>2 DEF PlacesOf

\* The entry with the smallest id, of those with an alias, is the first.
LEMMA OwnerOfFirst ==
    ASSUME WalkTypes, NEW i \in DOMAIN entries, NEW p, p \in PhrasesOf(entries[i].aliases),
           \A j \in DOMAIN entries : j < i => p \notin PhrasesOf(entries[j].aliases)
    PROVE  Owner(p) = entries[i].id
<1> DEFINE id == entries[i].id
           Ids == {e.id : e \in ToSet(entries)}
           Has(e) == p \in PhrasesOf(e.aliases)
           Owns(x) == /\ \E e \in ToSet(entries) : e.id = x /\ Has(e)
                      /\ \A e \in ToSet(entries) : Has(e) => x <= e.id
<1>1. \A j \in DOMAIN entries : j \in Nat /\ entries[j].id \in Nat
  <2>1. \A j \in DOMAIN entries : j \in Nat /\ entries[j] \in Entry
      BY DEF WalkTypes
  <2> QED
      BY <2>1, TextsOfEntry
<1>2. \A j, k \in DOMAIN entries : j < k => entries[j].id < entries[k].id
    BY LintAssumption DEF WalkTypes
<1>3. \A e \in ToSet(entries) : \E j \in DOMAIN entries : e = entries[j]
    BY DEF ToSet
<1>4. entries[i] \in ToSet(entries) /\ id \in Ids /\ Has(entries[i])
    BY DEF ToSet
<1>5. \A j \in DOMAIN entries : Has(entries[j]) => id <= entries[j].id
    BY <1>1, <1>2
<1> HIDE DEF Has
<1>6. Owns(id)
    BY <1>3, <1>4, <1>5
<1>7. \A x \in Ids : Owns(x) => x = id
  <2> SUFFICES ASSUME NEW x \in Ids, Owns(x) PROVE x = id
      OBVIOUS
  <2>1. PICK j \in DOMAIN entries : entries[j].id = x /\ Has(entries[j])
      BY <1>3
  <2>2. id <= x /\ x <= id
      BY <1>4, <1>5, <2>1
  <2> QED
      BY <1>1, <2>1, <2>2
<1>8. Owner(p) = CHOOSE x \in Ids : Owns(x)
    BY DEF Owner, Has
<1> HIDE DEF Owns, id, Ids
<1>9. Owner(p) = id
    BY <1>4, <1>6, <1>7, <1>8
<1> QED
    BY <1>9 DEF id

\* What there is to say of an entry does not change.
LEMMA SaysStay ==
    ASSUME entries' = entries, NEW i, NEW s, NEW k
    PROVE  Says(i, s, k)' = Says(i, s, k) /\ PlacesOf(i, s)' = PlacesOf(i, s)
<1>1. \A p : Owner(p)' = Owner(p)
    BY DEF Owner
<1>2. \A id : FindById(id)' = FindById(id)
    BY DEF FindById, ById
<1>3. ItemsOf(i, s)' = ItemsOf(i, s)
    BY DEF ItemsOf
<1>4. \A t, j : ItemAt(i, t, j)' = ItemAt(i, t, j)
    BY DEF ItemAt, ItemsOf
<1>5. \A t : Earlier(i, t, k)' = Earlier(i, t, k)
    BY <1>4 DEF Earlier
<1>6. AliasSays(i, k)' = AliasSays(i, k)
    BY DEF AliasSays, ItemAt, ItemsOf, Earlier, Owner
<1>7. KeywordSays(i, k)' = KeywordSays(i, k)
    BY DEF KeywordSays, ItemAt, ItemsOf, Earlier
<1>8. RelatedSays(i, k)' = RelatedSays(i, k)
    BY DEF RelatedSays, ItemAt, ItemsOf, Earlier, FindById, ById
<1>9. SimilarSays(i)' = SimilarSays(i)
    BY DEF SimilarSays
<1>10. MarkdownSays(i)' = MarkdownSays(i)
    BY DEF MarkdownSays
<1> QED
    BY <1>3, <1>6, <1>7, <1>8, <1>9, <1>10 DEF Says, PlacesOf

LEMMA SaysMore ==
    ASSUME WalkTypes, SaidSoFar, entries' = entries, pc \in Stages, at \in DOMAIN entries,
           item \in PlacesOf(at, pc), Advances,
           NEW found, found = Says(at, pc, item), Elsewhere(found),
           report'.findings = report.findings \cup found
    PROVE  SaidSoFar'
<1>1. \A f : f \in OfEntries' <=> f \in OfEntries \/ f \in found
    BY DEF OfEntries, Elsewhere
<1>2. ASSUME NEW f PROVE Said(f)' <=> Said(f) \/ f \in found
  <2> DEFINE Here(i, s, k) == f \in Says(i, s, k)
  <2>1. Said(f)' <=> \E i \in DOMAIN entries : \E s \in Stages : \E k \in PlacesOf(i, s) :
                        Past(i, s, k)' /\ Here(i, s, k)
      BY SaysStay DEF Said, Stages
  <2>2. Said(f) <=> \E i \in DOMAIN entries : \E s \in Stages : \E k \in PlacesOf(i, s) :
                        Past(i, s, k) /\ Here(i, s, k)
      BY DEF Said
  <2>3. f \in found <=> Here(at, pc, item)
      OBVIOUS
  <2> HIDE DEF Here
  <2> QED
      BY <2>1, <2>2, <2>3 DEF Advances, Leaves
<1> QED
    BY <1>1, <1>2 DEF SaidSoFar

LEMMA SaysNoMore ==
    ASSUME SaidSoFar, entries' = entries, Remains, OfEntries' = OfEntries
    PROVE  SaidSoFar'
<1>1. ASSUME NEW f PROVE Said(f)' <=> Said(f)
    BY SaysStay DEF Said, Stages, Remains
<1> QED
    BY <1>1 DEF SaidSoFar

\* The owners are as good as before when no alias has been looked at.
LEMMA OwnersStay ==
    ASSUME OwnerBook, UNCHANGED <<entries, owners>>,
           \A i \in DOMAIN entries : \A k \in 1..Len(entries[i].aliases) :
               Past(i, "alias", k)' <=> Past(i, "alias", k)
    PROVE  OwnerBook'
<1>1. \A i, k : ItemAt(i, "alias", k)' = ItemAt(i, "alias", k)
    BY DEF ItemAt, ItemsOf
<1>2. \A p : KnownAlias(p)' <=> KnownAlias(p)
    BY <1>1 DEF KnownAlias
<1>3. \A p : Owner(p)' = Owner(p)
    BY DEF Owner
<1> QED
    BY <1>2, <1>3 DEF OwnerBook

LEMMA OwnersStayBehind ==
    ASSUME WalkTypes, OwnerBook, UNCHANGED <<entries, owners>>, Advances,
           pc = "alias" => item > Len(Current.aliases)
    PROVE  OwnerBook'
<1> SUFFICES ASSUME NEW i \in DOMAIN entries, NEW k \in 1..Len(entries[i].aliases)
             PROVE  Past(i, "alias", k)' <=> Past(i, "alias", k)
    BY OwnersStay
<1>1. entries[i].aliases \in Seq(Texts)
    BY ItemsOfEntries DEF WalkTypes
<1>2. k \in PlacesOf(i, "alias") /\ "alias" \in Stages
    BY <1>1 DEF PlacesOf, ItemsOf, Stages
<1>3. ~Leaves(i, "alias", k)
  <2> SUFFICES ASSUME i = at, pc = "alias", k = item PROVE FALSE
      BY DEF Leaves
  <2>1. k > Len(entries[i].aliases) /\ Len(entries[i].aliases) \in Nat
      BY <1>1 DEF Current
  <2> QED
      BY <2>1
<1> QED
    BY <1>2, <1>3 DEF Advances

LEMMA OwnersRemain ==
    ASSUME WalkTypes, OwnerBook, UNCHANGED <<entries, owners>>, Remains
    PROVE  OwnerBook'
<1> SUFFICES ASSUME NEW i \in DOMAIN entries, NEW k \in 1..Len(entries[i].aliases)
             PROVE  Past(i, "alias", k)' <=> Past(i, "alias", k)
    BY OwnersStay
<1>1. entries[i].aliases \in Seq(Texts)
    BY ItemsOfEntries DEF WalkTypes
<1>2. k \in PlacesOf(i, "alias") /\ "alias" \in Stages
    BY <1>1 DEF PlacesOf, ItemsOf, Stages
<1> QED
    BY <1>2 DEF Remains

-----------------------------------------------------------------------------
(* The steps of the walk, for what it says.                                *)

\* The next item of a stage; the end of a stage; the end of an entry.
LEMMA NextItem ==
    ASSUME WalkTypes, entries' = entries, pc \in Stages, pc' = pc, at' = at, item' = item + 1
    PROVE  Advances
<1> SUFFICES ASSUME NEW i \in DOMAIN entries, NEW s \in Stages, NEW k \in PlacesOf(i, s)
             PROVE  Past(i, s, k)' <=> Past(i, s, k) \/ Leaves(i, s, k)
    BY DEF Advances
<1>1. k \in Nat /\ item \in Nat
    BY ListSizes DEF WalkTypes
<1>2. k < item + 1 <=> k < item \/ k = item
    BY <1>1
<1> QED
    BY <1>2 DEF Past, Before, Leaves

LEMMA NextStage ==
    ASSUME WalkTypes, entries' = entries, pc \in Stages, at \in DOMAIN entries,
           item \in PlacesOf(at, pc), item > Len(ItemsOf(at, pc)),
           \/ at' = at /\ item' = 1 /\ pc = "alias" /\ pc' = "keyword"
           \/ at' = at /\ item' = 1 /\ pc = "keyword" /\ pc' = "related"
           \/ at' = at + 1 /\ pc = "related" /\ pc' = "entry"
    PROVE  Advances
<1> SUFFICES ASSUME NEW i \in DOMAIN entries, NEW s \in Stages, NEW k \in PlacesOf(i, s)
             PROVE  Past(i, s, k)' <=> Past(i, s, k) \/ Leaves(i, s, k)
    BY DEF Advances
<1>1. k \in Nat /\ item \in Nat /\ i \in Nat /\ at \in Nat /\ ~(k < 1)
    BY ListSizes DEF WalkTypes, PlacesOf
<1>2. i = at /\ s = pc => k < item \/ k = item
    BY <1>1, ListSizes DEF WalkTypes, PlacesOf
<1>3. i < at + 1 <=> i < at \/ i = at
    BY <1>1
<1> QED
    BY <1>1, <1>2, <1>3 DEF Past, Before, Leaves, Stages

\* Nothing comes before the first item.
LEMMA NothingEarlier ==
    ASSUME NEW i, NEW s PROVE Earlier(i, s, 1) = {}
<1>1. 1..1 - 1 = {}
    OBVIOUS
<1> QED
    BY <1>1 DEF Earlier

LEMMA OneMoreEarlier ==
    ASSUME NEW i, NEW s, NEW k \in Nat \ {0}
    PROVE  Earlier(i, s, k + 1) =
               Earlier(i, s, k) \cup ({ItemAt(i, s, k)} \ (IF s = "related" THEN {} ELSE {<<>>}))
<1>1. 1..(k + 1) - 1 = (1..k - 1) \cup {k}
    OBVIOUS
<1> DEFINE nothing == IF s = "related" THEN {} ELSE {<<>>}
<1>2. {ItemAt(i, s, j) : j \in (1..k - 1) \cup {k}} =
          {ItemAt(i, s, j) : j \in 1..k - 1} \cup {ItemAt(i, s, k)}
    OBVIOUS
<1> HIDE DEF nothing
<1>3. Earlier(i, s, k + 1) = {ItemAt(i, s, j) : j \in (1..k - 1) \cup {k}} \ nothing
    BY <1>1 DEF Earlier, nothing
<1>4. Earlier(i, s, k) = {ItemAt(i, s, j) : j \in 1..k - 1} \ nothing
    BY DEF Earlier, nothing
<1>5. Earlier(i, s, k + 1) = Earlier(i, s, k) \cup ({ItemAt(i, s, k)} \ nothing)
    BY <1>2, <1>3, <1>4
<1> QED
    BY <1>5 DEF nothing

LEMMA EarlierStays ==
    ASSUME entries' = entries
    PROVE  \A i, s, k : Earlier(i, s, k)' = Earlier(i, s, k) /\ PlacesOf(i, s)' = PlacesOf(i, s)
    BY DEF Earlier, ItemAt, ItemsOf, PlacesOf

LEMMA ExactInit == Init => ExactInv
<1> SUFFICES ASSUME Init PROVE ExactInv
    OBVIOUS
<1>1. /\ pc = "entry" /\ at = 1 /\ owners = <<>> /\ report.findings = {}
      /\ entries \in Seq(Entry)
    BY LintAssumption DEF Init
<1>2. \A i \in DOMAIN entries : \A s \in Stages : \A k : ~Past(i, s, k)
    BY <1>1 DEF Past, Before, Stages
<1>3. HandBook
    BY <1>1 DEF HandBook, Stages
<1>4. \A p : ~KnownAlias(p)
    BY <1>2 DEF KnownAlias, Stages
<1>5. DOMAIN owners = {}
    BY <1>1
<1>6. OfEntries = {}
    BY <1>1 DEF OfEntries
<1>7. \A f : ~Said(f)
    BY <1>2 DEF Said
<1> QED
    BY <1>3, <1>4, <1>5, <1>6, <1>7 DEF ExactInv, OwnerBook, SaidSoFar

LEMMA ExactStartEntry == ASSUME IInv, ExactInv, StartEntry PROVE ExactInv'
<1>1. /\ pc = "entry" /\ at <= Len(entries) /\ pc' = "alias" /\ item' = 1
      /\ at' = at /\ local' = {} /\ normalized' = <<>>
      /\ UNCHANGED <<entries, owners, report>>
    BY DEF StartEntry
<1>2. WalkTypes /\ at \in DOMAIN entries /\ entries \in Seq(Entry)
    BY <1>1 DEF IInv, WalkTypes
<1>3. Remains
  <2> SUFFICES ASSUME NEW i \in DOMAIN entries, NEW s \in Stages, NEW k \in PlacesOf(i, s)
               PROVE  Past(i, s, k)' <=> Past(i, s, k)
      BY DEF Remains
  <2>1. ~(k < 1)
      BY <1>2, ListSizes DEF PlacesOf
  <2> QED
      BY <1>1, <2>1 DEF Past, Before, Stages
<1>4. HandBook'
  <2>1. 1 \in PlacesOf(at, "alias")
      BY <1>2, ListSizes DEF PlacesOf, Stages
  <2>2. \A p : p \notin ToSet(<<>>)
      BY DEF ToSet
  <2>3. ToSet(<<>>) = {}
      BY <2>2
  <2>4. normalized' \in Seq({}) /\ ToSet(normalized') = {}
      BY <1>1, <2>3
  <2>5. item' \in PlacesOf(at, "alias")' /\ local' = Earlier(at, "alias", 1)'
      BY <1>1, <2>1, NothingEarlier, EarlierStays
  <2> QED
      BY <1>1, <2>4, <2>5 DEF HandBook
<1>5. OwnerBook' /\ SaidSoFar'
  <2>1. OfEntries' = OfEntries
      BY <1>1 DEF OfEntries
  <2> QED
      BY <1>1, <1>2, <1>3, <2>1, OwnersRemain, SaysNoMore DEF ExactInv
<1> QED
    BY <1>4, <1>5 DEF ExactInv

\* Whose an alias is shows in the books: nobody's yet if the entry in hand is
\* the first with it.
LEMMA OwnerShows ==
    ASSUME IInv, ExactInv, pc = "alias", item <= Len(Current.aliases),
           NEW p, p = ItemAt(at, "alias", item), p # <<>>
    PROVE  /\ OwnedElsewhere(p) <=> Owner(p) # Current.id
           /\ p \notin DOMAIN owners => Owner(p) = Current.id
<1>1. WalkTypes /\ at \in DOMAIN entries /\ at \in Nat /\ item \in Nat \ {0}
      /\ entries \in Seq(Entry)
    BY DEF IInv, WalkTypes
<1>2. p \in DOMAIN owners => owners[p] = Owner(p)
    BY DEF ExactInv, OwnerBook
<1>3. ASSUME p \notin DOMAIN owners PROVE Owner(p) = Current.id
  <2>1. ~KnownAlias(p)
      BY <1>3 DEF ExactInv, OwnerBook
  <2>2. \A i \in DOMAIN entries : entries[i].aliases \in Seq(Texts) /\ i \in Nat
      BY <1>1, ItemsOfEntries
  <2>3. \A i, k : ItemAt(i, "alias", k) = NormalizedSearchPhrase(entries[i].aliases[k])
      BY DEF ItemAt, ItemsOf
  <2>4. \A i \in DOMAIN entries : i < at => p \notin PhrasesOf(entries[i].aliases)
    <3> SUFFICES ASSUME NEW i \in DOMAIN entries, i < at, p \in PhrasesOf(entries[i].aliases)
                 PROVE  FALSE
        OBVIOUS
    <3>1. PICK k \in 1..Len(entries[i].aliases) : NormalizedSearchPhrase(entries[i].aliases[k]) = p
        BY <2>2 DEF PhrasesOf
    <3>2. Past(i, "alias", k) /\ ItemAt(i, "alias", k) = p
        BY <2>3, <3>1 DEF Past
    <3> QED
        BY <2>1, <3>2 DEF KnownAlias
  <2>5. p \in PhrasesOf(entries[at].aliases)
    <3>1. item \in DOMAIN entries[at].aliases
        BY <1>1, <2>2 DEF Current
    <3> QED
        BY <2>3, <3>1 DEF PhrasesOf
  <2> QED
      BY <1>1, <2>4, <2>5, OwnerOfFirst DEF Current
<1> QED
    BY <1>2, <1>3 DEF OwnedElsewhere

LEMMA ExactAlias == ASSUME IInv, ExactInv, Alias PROVE ExactInv'
<1> DEFINE text == Current.aliases[item]
           phrase == NormalizedSearchPhrase(text)
           kept == phrase # <<>> /\ phrase \notin local
           found == AliasFindings(text, phrase)
           counted == Found(found)
<1>1. /\ pc = "alias" /\ pc' = "alias" /\ item' = item + 1 /\ at' = at
      /\ entries' = entries /\ item <= Len(Current.aliases)
      /\ report' = [counted EXCEPT !.aliases = counted.aliases + 1]
      /\ local' = IF kept THEN local \cup {phrase} ELSE local
      /\ owners' = IF kept THEN OwnersAfter(owners, phrase, Current.id) ELSE owners
      /\ normalized' = IF kept THEN Append(normalized, phrase) ELSE normalized
    BY DEF Alias
<1>2. WalkTypes /\ at \in DOMAIN entries /\ entries \in Seq(Entry) /\ item \in Nat \ {0}
      /\ DOMAIN report = Fields
    BY <1>1 DEF IInv, WalkTypes
<1>3. report'.findings = report.findings \cup found
  <2>1. DOMAIN counted = Fields /\ counted.findings = report.findings \cup found
      BY <1>2, FoundAdds
  <2> HIDE DEF counted, found
  <2> QED
      BY <1>1, <2>1, CountAdds
<1>4. /\ phrase = ItemAt(at, "alias", item)
      /\ ItemsOf(at, "alias") = Current.aliases /\ "alias" \in Stages
    BY DEF ItemAt, ItemsOf, Current, Stages
<1>5. Elsewhere(found)
    BY AliasFindingsElsewhere
<1>6. /\ local = Earlier(at, "alias", item)
      /\ item \in PlacesOf(at, "alias")
      /\ normalized \in Seq(local) /\ ToSet(normalized) = local
    BY <1>1, <1>4 DEF ExactInv, HandBook
<1>7. Advances
    BY <1>1, <1>2, <1>4, NextItem
<1>8. phrase # <<>> => /\ OwnedElsewhere(phrase) <=> Owner(phrase) # Current.id
                       /\ phrase \notin DOMAIN owners => Owner(phrase) = Current.id
  <2> HIDE DEF phrase
  <2> QED
      BY <1>1, <1>4, OwnerShows
<1>9. found = Says(at, "alias", item)
  <2>1. Says(at, "alias", item) = AliasSays(at, item)
      BY <1>1, <1>4 DEF Says
  <2> DEFINE colliding == {Finding("alias collision", Current.id, <<p, Owner(p)>>) :
                              p \in {q \in {phrase} : Owner(q) # Current.id}}
  <2>2. AliasSays(at, item) =
            IF phrase = <<>> THEN {Finding("empty alias", Current.id, text)}
            ELSE IF phrase \in local THEN {Finding("duplicate alias", Current.id, phrase)}
            ELSE colliding
    <3> HIDE DEF phrase
    <3> QED
        BY <1>4, <1>6, Zenon DEF AliasSays, Current
  <2>3. phrase # <<>> => Collisions(phrase) = colliding
    <3> SUFFICES ASSUME phrase # <<>> PROVE Collisions(phrase) = colliding
        OBVIOUS
    <3>1. OwnedElsewhere(phrase) <=> Owner(phrase) # Current.id
        BY <1>8
    <3>2. OwnedElsewhere(phrase) => owners[phrase] = Owner(phrase)
        BY DEF OwnedElsewhere, ExactInv, OwnerBook
    <3> HIDE DEF phrase
    <3>3. CASE OwnedElsewhere(phrase)
      <4>1. Collisions(phrase) = {Finding("alias collision", Current.id, <<phrase, owners[phrase]>>)}
          BY <3>3 DEF Collisions
      <4>2. colliding = {Finding("alias collision", Current.id, <<phrase, Owner(phrase)>>)}
          BY <3>1, <3>3
      <4> QED
          BY <3>2, <3>3, <4>1, <4>2
    <3>4. CASE ~OwnedElsewhere(phrase)
      <4>1. Collisions(phrase) = {}
          BY <3>4 DEF Collisions
      <4>2. colliding = {}
          BY <3>1, <3>4
      <4> QED
          BY <4>1, <4>2
    <3> QED
        BY <3>3, <3>4
  <2>4. found = IF phrase = <<>> THEN {Finding("empty alias", Current.id, text)}
                ELSE IF phrase \in local THEN {Finding("duplicate alias", Current.id, phrase)}
                ELSE Collisions(phrase)
      BY DEF AliasFindings
  <2> HIDE DEF found, phrase, text, colliding
  <2> QED
      BY <2>1, <2>2, <2>3, <2>4
<1> HIDE DEF found, counted, text, phrase
<1>10. SaidSoFar'
    BY <1>1, <1>2, <1>3, <1>4, <1>5, <1>6, <1>7, <1>9, SaysMore DEF ExactInv
<1>11. HandBook'
  <2>1. Earlier(at, "alias", item + 1) = local \cup ({phrase} \ {<<>>})
      BY <1>2, <1>4, <1>6, OneMoreEarlier
  <2>2. local' = local \cup ({phrase} \ {<<>>})
      BY <1>1
  <2>3. item + 1 \in PlacesOf(at, "alias")
    <3>1. Len(ItemsOf(at, "alias")) \in Nat
        BY <1>2, <1>4, ListSizes
    <3> QED
        BY <1>1, <1>2, <1>4, <3>1 DEF PlacesOf
  <2>4. normalized' \in Seq(local') /\ ToSet(normalized') = local'
    <3>1. CASE kept
      <4>1. local' = local \cup {phrase} /\ normalized' = Append(normalized, phrase)
          BY <1>1, <3>1
      <4> DEFINE more == Append(normalized, phrase)
                 n == Len(normalized)
      <4>2. /\ more \in Seq(local \cup {phrase}) /\ n \in Nat
            /\ DOMAIN normalized = 1..n /\ DOMAIN more = 1..n + 1
            /\ \A k \in 1..n : more[k] = normalized[k]
            /\ more[n + 1] = phrase
          BY <1>6
      <4> HIDE DEF more, n
      <4>3. ToSet(more) = ToSet(normalized) \cup {phrase}
          BY <4>2 DEF ToSet
      <4> QED
          BY <1>6, <4>1, <4>2, <4>3 DEF more
    <3>2. CASE ~kept
        BY <1>1, <1>6, <3>2
    <3> QED
        BY <3>1, <3>2
  <2> QED
      BY <1>1, <2>1, <2>2, <2>3, <2>4, EarlierStays DEF HandBook
<1>12. OwnerBook'
  <2>1. \A i, k : ItemAt(i, "alias", k)' = ItemAt(i, "alias", k)
      BY <1>1 DEF ItemAt, ItemsOf
  <2>2. \A i \in DOMAIN entries : \A k \in 1..Len(entries[i].aliases) :
            Past(i, "alias", k)' <=> Past(i, "alias", k) \/ (i = at /\ k = item)
    <3> SUFFICES ASSUME NEW i \in DOMAIN entries, NEW k \in 1..Len(entries[i].aliases)
                 PROVE  Past(i, "alias", k)' <=> Past(i, "alias", k) \/ (i = at /\ k = item)
        OBVIOUS
    <3>1. k \in PlacesOf(i, "alias")
      <4>1. entries[i].aliases \in Seq(Texts)
          BY <1>2, ItemsOfEntries
      <4> QED
          BY <4>1 DEF PlacesOf, ItemsOf
    <3> QED
        BY <1>1, <1>4, <1>7, <3>1 DEF Advances, Leaves
  <2>3. item \in 1..Len(entries[at].aliases)
    <3>1. entries[at].aliases \in Seq(Texts)
        BY <1>2, ItemsOfEntries
    <3> QED
        BY <1>1, <1>2, <3>1 DEF Current
  <2>4. \A p : KnownAlias(p)' <=> KnownAlias(p) \/ (p # <<>> /\ p = phrase)
      BY <1>1, <1>2, <1>4, <2>1, <2>2, <2>3 DEF KnownAlias
  <2>5. \A p : Owner(p)' = Owner(p)
      BY <1>1 DEF Owner
  <2>6. /\ \A p : p \in DOMAIN owners <=> KnownAlias(p)
        /\ \A p \in DOMAIN owners : owners[p] = Owner(p)
      BY DEF ExactInv, OwnerBook
  <2>7. CASE kept
    <3> DEFINE after == OwnersAfter(owners, phrase, Current.id)
    <3>1. /\ DOMAIN after = DOMAIN owners \cup {phrase}
          /\ \A p \in DOMAIN owners : after[p] = owners[p]
          /\ phrase \notin DOMAIN owners => after[phrase] = Current.id
        BY FirstOwnerStays
    <3>2. owners' = after
        BY <1>1, <2>7
    <3> HIDE DEF after
    <3>3. \A p : p \in DOMAIN owners' <=> KnownAlias(p)'
        BY <2>4, <2>6, <2>7, <3>1, <3>2
    <3>4. \A p \in DOMAIN owners' : owners'[p] = Owner(p)
        BY <1>8, <2>6, <2>7, <3>1, <3>2
    <3> QED
        BY <2>5, <3>3, <3>4 DEF OwnerBook
  <2>8. CASE ~kept
    <3>1. phrase # <<>> => KnownAlias(phrase)
      <4> SUFFICES ASSUME phrase # <<>> PROVE KnownAlias(phrase)
          OBVIOUS
      <4>1. PICK j \in 1..item - 1 : ItemAt(at, "alias", j) = phrase
          BY <1>6, <2>8 DEF Earlier
      <4>2. j \in 1..Len(entries[at].aliases) /\ j < item
          BY <1>2, <2>3
      <4> QED
          BY <1>1, <1>2, <4>1, <4>2 DEF KnownAlias, Past
    <3>2. owners' = owners
        BY <1>1, <2>8
    <3> QED
        BY <2>4, <2>5, <2>6, <3>1, <3>2 DEF OwnerBook
  <2> QED
      BY <2>7, <2>8
<1> QED
    BY <1>10, <1>11, <1>12 DEF ExactInv

\* Of the aliases that were kept, each pair is looked at once.
SimilarKept(kept, id) ==
    {Finding("similar aliases", id, {kept[p[1]], kept[p[2]]}) : p \in SimilarPairs(kept)}
SimilarIn(phrases, id) ==
    {Finding("similar aliases", id, {pair[1], pair[2]}) :
        pair \in {q \in phrases \X phrases : AliasesAreOverlySimilar(q[1], q[2])}}

LEMMA SimilarFound ==
    ASSUME NEW phrases, NEW kept \in Seq(phrases), ToSet(kept) = phrases, NEW id
    PROVE  SimilarKept(kept, id) = SimilarIn(phrases, id)
<1> DEFINE similar(l, r) == AliasesAreOverlySimilar(l, r)
           said(l, r) == Finding("similar aliases", id, {l, r})
           left == {said(kept[p[1]], kept[p[2]]) : p \in SimilarPairs(kept)}
           right == {said(pair[1], pair[2]) : pair \in {q \in phrases \X phrases : similar(q[1], q[2])}}
           n == Len(kept)
<1>1. n \in Nat /\ DOMAIN kept = 1..n /\ \A k \in 1..n : kept[k] \in phrases
    OBVIOUS
<1>2. \A t \in phrases : \E k \in 1..n : kept[k] = t
    BY <1>1 DEF ToSet
<1>3. \A l, r : similar(l, r) => l # r /\ similar(r, l)
  <2> SUFFICES ASSUME NEW l, NEW r, similar(l, r) PROVE l # r /\ similar(r, l)
      OBVIOUS
  <2>1. /\ l # r /\ Size(l) >= 8 /\ Size(r) >= 8
        /\ Len(l) >= 2 /\ Len(l) = Len(r) /\ <<l, r>> \in OneEdit
      BY DEF AliasesAreOverlySimilar
  <2>2. <<r, l>> \in OneEdit
    <3>1. \A pair \in OneEdit : <<pair[2], pair[1]>> \in OneEdit
        BY LintAssumption
    <3>2. <<l, r>> \in OneEdit
        BY <2>1
    <3> QED
        BY <3>1, <3>2
  <2> QED
      BY <2>1, <2>2 DEF AliasesAreOverlySimilar
<1>4. \A l, r : said(l, r) = said(r, l)
  <2> SUFFICES ASSUME NEW l, NEW r PROVE said(l, r) = said(r, l)
      OBVIOUS
  <2>1. {l, r} = {r, l}
      OBVIOUS
  <2> QED
      BY <2>1, Zenon
<1>5. \A f : f \in left <=>
          \E j, k \in 1..n : j < k /\ similar(kept[j], kept[k]) /\ f = said(kept[j], kept[k])
  <2>1. \A f : f \in left <=> \E p \in SimilarPairs(kept) : f = said(kept[p[1]], kept[p[2]])
      OBVIOUS
  <2>2. SimilarPairs(kept) = {p \in (1..n) \X (1..n) : p[1] < p[2] /\ similar(kept[p[1]], kept[p[2]])}
      BY <1>1 DEF SimilarPairs, SimilarPairsOf
  <2>3. \A p : p \in SimilarPairs(kept) <=>
            \E j, k \in 1..n : p = <<j, k>> /\ j < k /\ similar(kept[j], kept[k])
    <3> HIDE DEF similar, n
    <3> QED
        BY <2>2
  <2>4. \A j, k : LET p == <<j, k>> IN said(kept[p[1]], kept[p[2]]) = said(kept[j], kept[k])
      OBVIOUS
  <2> HIDE DEF left, similar, n, said
  <2>5. \A f : f \in left => \E j, k \in 1..n :
            j < k /\ similar(kept[j], kept[k]) /\ f = said(kept[j], kept[k])
    <3> SUFFICES ASSUME NEW f \in left
                 PROVE  \E j, k \in 1..n :
                            j < k /\ similar(kept[j], kept[k]) /\ f = said(kept[j], kept[k])
        OBVIOUS
    <3>1. PICK p \in SimilarPairs(kept) : f = said(kept[p[1]], kept[p[2]])
        BY <2>1
    <3>2. PICK j \in 1..n, k \in 1..n : p = <<j, k>> /\ j < k /\ similar(kept[j], kept[k])
        BY <2>3, <3>1
    <3>3. f = said(kept[j], kept[k])
        BY <2>4, <3>1, <3>2
    <3> QED
        BY <3>2, <3>3
  <2>6. ASSUME NEW j \in 1..n, NEW k \in 1..n, j < k, similar(kept[j], kept[k])
        PROVE  said(kept[j], kept[k]) \in left
    <3> DEFINE p == <<j, k>>
    <3>1. p \in SimilarPairs(kept)
        BY <2>3, <2>6
    <3>2. said(kept[p[1]], kept[p[2]]) \in left
        BY <2>1, <3>1
    <3> QED
        BY <2>4, <3>2
  <2> QED
      BY <2>5, <2>6
<1>6. \A f : f \in right <=> \E l, r \in phrases : similar(l, r) /\ f = said(l, r)
  <2> DEFINE pairs == {q \in phrases \X phrases : similar(q[1], q[2])}
  <2>1. \A f : f \in right <=> \E q \in pairs : f = said(q[1], q[2])
      OBVIOUS
  <2>2. \A p : p \in pairs <=> \E l, r \in phrases : p = <<l, r>> /\ similar(l, r)
    <3> HIDE DEF similar
    <3> QED
        OBVIOUS
  <2>3. \A l, r : LET q == <<l, r>> IN said(q[1], q[2]) = said(l, r)
      OBVIOUS
  <2> HIDE DEF similar, pairs, right, said
  <2>4. ASSUME NEW f \in right PROVE \E l, r \in phrases : similar(l, r) /\ f = said(l, r)
    <3>1. PICK q \in pairs : f = said(q[1], q[2])
        BY <2>1, <2>4
    <3>2. PICK l \in phrases, r \in phrases : q = <<l, r>> /\ similar(l, r)
        BY <2>2, <3>1
    <3>3. f = said(l, r)
        BY <2>3, <3>1, <3>2
    <3> QED
        BY <3>2, <3>3
  <2>5. ASSUME NEW l \in phrases, NEW r \in phrases, similar(l, r) PROVE said(l, r) \in right
    <3> DEFINE q == <<l, r>>
    <3>1. q \in pairs
        BY <2>2, <2>5
    <3>2. said(q[1], q[2]) \in right
        BY <2>1, <3>1
    <3> QED
        BY <2>3, <3>2
  <2> QED
      BY <2>4, <2>5
<1>7. \A f : f \in left => f \in right
  <2> HIDE DEF left, right, said, similar, n
  <2> QED
      BY <1>1, <1>5, <1>6
<1>8. \A f : f \in right => f \in left
  <2> HIDE DEF left, right, said, similar, n
  <2> SUFFICES ASSUME NEW f, NEW l \in phrases, NEW r \in phrases, similar(l, r), f = said(l, r)
               PROVE  f \in left
      BY <1>6
  <2>1. PICK j \in 1..n : kept[j] = l
      BY <1>2
  <2>2. PICK k \in 1..n : kept[k] = r
      BY <1>2
  <2>3. j # k
      BY <1>3, <2>1, <2>2
  <2>4. j < k \/ k < j
      BY <1>1, <2>3
  <2> QED
      BY <1>3, <1>4, <1>5, <2>1, <2>2, <2>4
<1>9. left = right
  <2> HIDE DEF left, right
  <2> QED
      BY <1>7, <1>8
<1> QED
    BY <1>9 DEF SimilarKept, SimilarIn

\* By the end of a list, everything in it is earlier.
LEMMA EarlierAtEnd ==
    ASSUME entries \in Seq(Entry), NEW i \in DOMAIN entries
    PROVE  Earlier(i, "alias", Len(entries[i].aliases) + 1) = PhrasesOf(entries[i].aliases)
<1>1. entries[i].aliases \in Seq(Texts)
    BY ItemsOfEntries
<1> DEFINE n == Len(entries[i].aliases)
<1>2. DOMAIN entries[i].aliases = 1..n /\ n \in Nat
    BY <1>1
<1>3. 1..(n + 1) - 1 = 1..n
    BY <1>2
<1>4. \A j : ItemAt(i, "alias", j) = NormalizedSearchPhrase(entries[i].aliases[j])
    BY DEF ItemAt, ItemsOf
<1> QED
    BY <1>2, <1>3, <1>4 DEF Earlier, PhrasesOf

\* The step that ends a stage: the books of the next are empty.
LEMMA NextStageBook ==
    ASSUME WalkTypes, at \in DOMAIN entries, entries' = entries, at' = at,
           item' = 1, local' = {}, pc' \in {"keyword", "related"}
    PROVE  HandBook'
<1>1. pc' # "alias"
    OBVIOUS
<1>2. \A s \in Stages : Len(ItemsOf(at, s)) \in Nat
    BY ListSizes DEF WalkTypes
<1>3. \A s \in Stages : 1 \in PlacesOf(at, s)
    BY <1>2 DEF PlacesOf
<1>4. \A s : Earlier(at, s, 1) = {}
    BY NothingEarlier
<1> QED
    BY <1>1, <1>3, <1>4, EarlierStays DEF HandBook

\* The step to the next item of a stage other than the aliases'.
LEMMA NextItemBook ==
    ASSUME WalkTypes, HandBook, at \in DOMAIN entries, entries' = entries, at' = at, pc' = pc,
           pc \in {"keyword", "related"},
           item' = item + 1, item <= Len(ItemsOf(at, pc)),
           local' = local \cup ({ItemAt(at, pc, item)} \ (IF pc = "related" THEN {} ELSE {<<>>}))
    PROVE  HandBook'
<1>1. pc \in Stages /\ pc # "alias" /\ item \in Nat \ {0}
    BY DEF Stages, WalkTypes
<1>2. local = Earlier(at, pc, item)
    BY <1>1 DEF HandBook
<1>3. Earlier(at, pc, item + 1) = local'
    BY <1>1, <1>2, OneMoreEarlier
<1>4. Len(ItemsOf(at, pc)) \in Nat
    BY <1>1, ListSizes DEF WalkTypes
<1>5. item + 1 \in PlacesOf(at, pc)
    BY <1>1, <1>4 DEF PlacesOf
<1> QED
    BY <1>1, <1>3, <1>5, EarlierStays DEF HandBook

LEMMA ExactEndAliases == ASSUME IInv, ExactInv, EndAliases PROVE ExactInv'
<1> DEFINE found == {Finding("similar aliases", Current.id,
                             {normalized[p[1]], normalized[p[2]]}) :
                         p \in SimilarPairs(normalized)}
<1>1. /\ pc = "alias" /\ pc' = "keyword" /\ item' = 1 /\ at' = at /\ local' = {}
      /\ item > Len(Current.aliases) /\ report' = Found(found)
      /\ UNCHANGED <<entries, owners>>
    BY DEF EndAliases
<1>2. WalkTypes /\ at \in DOMAIN entries /\ entries \in Seq(Entry) /\ item \in Nat
      /\ DOMAIN report = Fields
    BY <1>1 DEF IInv, WalkTypes
<1>3. ItemsOf(at, "alias") = Current.aliases /\ "alias" \in Stages
    BY DEF ItemsOf, Current, Stages
<1>4. Elsewhere(found)
  <2> SUFFICES ASSUME NEW f \in found PROVE Kind(f) # "unused concept"
      BY DEF Elsewhere
  <2>1. PICK kind \in {"similar aliases"} : \E b : f = Finding(kind, Current.id, b)
      OBVIOUS
  <2> QED
      BY <2>1, KindOfFinding
<1>5. /\ item \in PlacesOf(at, "alias") /\ local = Earlier(at, "alias", item)
      /\ normalized \in Seq(local) /\ ToSet(normalized) = local
    BY <1>1, <1>3 DEF ExactInv, HandBook
<1>6. item = Len(Current.aliases) + 1
  <2>1. Len(Current.aliases) \in Nat /\ item <= Len(Current.aliases) + 1
      BY <1>2, <1>3, <1>5, ListSizes DEF PlacesOf
  <2> DEFINE n == Len(Current.aliases)
  <2>2. n \in Nat /\ item <= n + 1 /\ item > n /\ item \in Nat
      BY <1>1, <1>2, <2>1
  <2> HIDE DEF n
  <2>3. item = n + 1
      BY <2>2
  <2> QED
      BY <2>3 DEF n
<1>7. local = PhrasesOf(Current.aliases)
    BY <1>2, <1>5, <1>6, EarlierAtEnd DEF Current
<1>8. found = Says(at, "alias", item)
  <2>1. ~(item <= Len(ItemsOf(at, "alias")))
      BY <1>2, <1>3, <1>6, ListSizes
  <2>2. Says(at, "alias", item) = SimilarSays(at)
      BY <2>1 DEF Says
  <2>3. SimilarSays(at) = SimilarIn(local, Current.id)
      BY <1>7 DEF SimilarSays, SimilarIn, Current
  <2>4. SimilarKept(normalized, Current.id) = SimilarIn(local, Current.id)
      BY <1>5, SimilarFound
  <2>5. found = SimilarKept(normalized, Current.id)
      BY DEF SimilarKept
  <2> HIDE DEF found
  <2> QED
      BY <2>2, <2>3, <2>4, <2>5
<1> HIDE DEF found
<1>9. report'.findings = report.findings \cup found
    BY <1>1, <1>2, FoundAdds
<1>10. Advances
    BY <1>1, <1>2, <1>3, <1>5, NextStage
<1>11. SaidSoFar'
    BY <1>1, <1>2, <1>3, <1>4, <1>5, <1>8, <1>9, <1>10, SaysMore DEF ExactInv
<1>12. HandBook'
    BY <1>1, <1>2, NextStageBook
<1>13. OwnerBook'
    BY <1>1, <1>2, <1>10, OwnersStayBehind DEF ExactInv
<1> QED
    BY <1>11, <1>12, <1>13 DEF ExactInv

LEMMA ExactKeyword == ASSUME IInv, ExactInv, Keyword PROVE ExactInv'
<1> DEFINE text == Current.keywords[item]
           phrase == NormalizedSearchPhrase(text)
           found == KeywordFindings(text, phrase)
           counted == Found(found)
<1>1. /\ pc = "keyword" /\ pc' = "keyword" /\ item' = item + 1 /\ at' = at
      /\ UNCHANGED <<entries, owners>> /\ item <= Len(Current.keywords)
      /\ report' = [counted EXCEPT !.keywords = counted.keywords + 1]
      /\ local' = IF phrase = <<>> THEN local ELSE local \cup {phrase}
    BY DEF Keyword
<1>2. WalkTypes /\ at \in DOMAIN entries /\ entries \in Seq(Entry) /\ item \in Nat \ {0}
      /\ DOMAIN report = Fields
    BY <1>1 DEF IInv, WalkTypes
<1>3. report'.findings = report.findings \cup found
  <2>1. DOMAIN counted = Fields /\ counted.findings = report.findings \cup found
      BY <1>2, FoundAdds
  <2> HIDE DEF counted, found
  <2> QED
      BY <1>1, <2>1, CountAdds
<1>4. /\ phrase = ItemAt(at, "keyword", item)
      /\ ItemsOf(at, "keyword") = Current.keywords /\ "keyword" \in Stages
    BY DEF ItemAt, ItemsOf, Current, Stages
<1>5. Elsewhere(found)
    BY KeywordFindingsElsewhere
<1>6. local = Earlier(at, "keyword", item) /\ item \in PlacesOf(at, "keyword")
    BY <1>1, <1>4 DEF ExactInv, HandBook
<1>7. Advances
    BY <1>1, <1>2, <1>4, NextItem
<1>8. found = Says(at, "keyword", item)
  <2>1. Says(at, "keyword", item) = KeywordSays(at, item)
      BY <1>1, <1>4 DEF Says
  <2> HIDE DEF phrase
  <2>2. KeywordSays(at, item) = KeywordFindings(text, phrase)
      BY <1>4, <1>6, Zenon DEF KeywordSays, KeywordFindings, Current
  <2> QED
      BY <2>1, <2>2
<1> HIDE DEF found, counted, text, phrase
<1>9. SaidSoFar'
    BY <1>1, <1>2, <1>3, <1>4, <1>5, <1>6, <1>7, <1>8, SaysMore DEF ExactInv
<1>10. HandBook'
  <2>1. local' = local \cup ({ItemAt(at, pc, item)} \ (IF pc = "related" THEN {} ELSE {<<>>}))
      BY <1>1, <1>4
  <2> QED
      BY <1>1, <1>2, <1>4, <2>1, NextItemBook DEF ExactInv
<1>11. OwnerBook'
    BY <1>1, <1>2, <1>7, OwnersStayBehind DEF ExactInv
<1> QED
    BY <1>9, <1>10, <1>11 DEF ExactInv

LEMMA ExactEndKeywords == ASSUME IInv, ExactInv, EndKeywords PROVE ExactInv'
<1>1. /\ pc = "keyword" /\ pc' = "related" /\ item' = 1 /\ at' = at /\ local' = {}
      /\ item > Len(Current.keywords) /\ UNCHANGED <<entries, owners, report>>
    BY DEF EndKeywords
<1>2. WalkTypes /\ at \in DOMAIN entries /\ entries \in Seq(Entry) /\ item \in Nat
    BY <1>1 DEF IInv, WalkTypes
<1>3. ItemsOf(at, "keyword") = Current.keywords /\ "keyword" \in Stages
    BY DEF ItemsOf, Current, Stages
<1>4. item \in PlacesOf(at, "keyword")
    BY <1>1, <1>3 DEF ExactInv, HandBook
<1>5. Says(at, "keyword", item) = {}
  <2>1. ~(item <= Len(ItemsOf(at, "keyword")))
      BY <1>1, <1>2, <1>3, ListSizes
  <2> QED
      BY <2>1 DEF Says
<1>6. Advances
    BY <1>1, <1>2, <1>3, <1>4, NextStage
<1>7. Elsewhere({}) /\ report'.findings = report.findings \cup {}
    BY <1>1 DEF Elsewhere
<1>8. SaidSoFar'
    BY <1>1, <1>2, <1>3, <1>4, <1>5, <1>6, <1>7, SaysMore DEF ExactInv
<1>9. HandBook'
    BY <1>1, <1>2, NextStageBook
<1>10. OwnerBook'
    BY <1>1, <1>2, <1>6, OwnersStayBehind DEF ExactInv
<1> QED
    BY <1>8, <1>9, <1>10 DEF ExactInv

LEMMA ExactRelated == ASSUME IInv, ExactInv, Related PROVE ExactInv'
<1> DEFINE id == Current.related[item]
           found == RelatedFindings(id)
<1>1. /\ pc = "related" /\ pc' = "related" /\ item' = item + 1 /\ at' = at
      /\ UNCHANGED <<entries, owners>> /\ item <= Len(Current.related)
      /\ report' = Found(found) /\ local' = local \cup {id}
    BY DEF Related
<1>2. WalkTypes /\ at \in DOMAIN entries /\ entries \in Seq(Entry) /\ item \in Nat \ {0}
      /\ DOMAIN report = Fields
    BY <1>1 DEF IInv, WalkTypes
<1>3. report'.findings = report.findings \cup found
  <2> HIDE DEF found
  <2> QED
      BY <1>1, <1>2, FoundAdds
<1>4. /\ id = ItemAt(at, "related", item)
      /\ ItemsOf(at, "related") = Current.related /\ "related" \in Stages
    BY DEF ItemAt, ItemsOf, Current, Stages
<1>5. Elsewhere(found)
    BY RelatedFindingsElsewhere
<1>6. local = Earlier(at, "related", item) /\ item \in PlacesOf(at, "related")
    BY <1>1, <1>4 DEF ExactInv, HandBook
<1>7. Advances
    BY <1>1, <1>2, <1>4, NextItem
<1>8. found = Says(at, "related", item)
  <2>1. Says(at, "related", item) = RelatedSays(at, item)
      BY <1>1, <1>4 DEF Says
  <2>2. RelatedSays(at, item) = RelatedFindings(id)
      BY <1>6, Zenon DEF RelatedSays, RelatedFindings, Current
  <2> QED
      BY <2>1, <2>2
<1> HIDE DEF found, id
<1>9. SaidSoFar'
    BY <1>1, <1>2, <1>3, <1>4, <1>5, <1>6, <1>7, <1>8, SaysMore DEF ExactInv
<1>10. HandBook'
  <2>1. local' = local \cup ({ItemAt(at, pc, item)} \ (IF pc = "related" THEN {} ELSE {<<>>}))
      BY <1>1, <1>4
  <2> QED
      BY <1>1, <1>2, <1>4, <2>1, NextItemBook DEF ExactInv
<1>11. OwnerBook'
    BY <1>1, <1>2, <1>7, OwnersStayBehind DEF ExactInv
<1> QED
    BY <1>9, <1>10, <1>11 DEF ExactInv

LEMMA ExactEndEntry == ASSUME IInv, ExactInv, EndEntry PROVE ExactInv'
<1> DEFINE found == {Finding(kind, Current.id, <<>>) : kind \in Current.markdown}
<1>1. /\ pc = "related" /\ pc' = "entry" /\ at' = at + 1 /\ item > Len(Current.related)
      /\ report' = Found(found) /\ UNCHANGED <<entries, owners>>
    BY DEF EndEntry, NextEntry
<1>2. WalkTypes /\ at \in DOMAIN entries /\ entries \in Seq(Entry) /\ item \in Nat
      /\ DOMAIN report = Fields
    BY <1>1 DEF IInv, WalkTypes
<1>3. ItemsOf(at, "related") = Current.related /\ "related" \in Stages
    BY DEF ItemsOf, Current, Stages
<1>4. Elsewhere(found)
  <2> SUFFICES ASSUME NEW f \in found PROVE Kind(f) # "unused concept"
      BY DEF Elsewhere
  <2>1. PICK kind \in MarkdownKinds : f = Finding(kind, Current.id, <<>>)
      BY <1>2, ItemsOfEntries DEF Current
  <2> QED
      BY <2>1, KindOfFinding DEF MarkdownKinds
<1>5. item \in PlacesOf(at, "related")
    BY <1>1, <1>3 DEF ExactInv, HandBook
<1>6. found = Says(at, "related", item)
  <2>1. ~(item <= Len(ItemsOf(at, "related")))
      BY <1>1, <1>2, <1>3, ListSizes
  <2>2. Says(at, "related", item) = MarkdownSays(at)
      BY <2>1 DEF Says
  <2> QED
      BY <2>2 DEF MarkdownSays, Current
<1> HIDE DEF found
<1>7. Advances
    BY <1>1, <1>2, <1>3, <1>5, NextStage
<1>8. report'.findings = report.findings \cup found
    BY <1>1, <1>2, FoundAdds
<1>9. SaidSoFar'
    BY <1>1, <1>2, <1>3, <1>4, <1>5, <1>6, <1>7, <1>8, SaysMore DEF ExactInv
<1>10. HandBook'
    BY <1>1 DEF HandBook, Stages
<1>11. OwnerBook'
    BY <1>1, <1>2, <1>7, OwnersStayBehind DEF ExactInv
<1> QED
    BY <1>9, <1>10, <1>11 DEF ExactInv

LEMMA ExactConcepts == ASSUME IInv, ExactInv, Concepts PROVE ExactInv'
<1> DEFINE found == {Finding("unused concept", c, <<>>) : c \in CanonicalConcepts \ used}
           counted == Found(found)
<1>1. /\ pc = "entry" /\ at > Len(entries) /\ pc' = "done"
      /\ report' = [counted EXCEPT !.concepts = Cardinality(CanonicalConcepts)]
      /\ UNCHANGED <<entries, at, item, owners>>
    BY DEF Concepts
<1>2. WalkTypes /\ entries \in Seq(Entry) /\ DOMAIN report = Fields
    BY DEF IInv, WalkTypes
<1>3. report'.findings = report.findings \cup found
  <2>1. DOMAIN counted = Fields /\ counted.findings = report.findings \cup found
      BY <1>2, FoundAdds
  <2> HIDE DEF counted, found
  <2> QED
      BY <1>1, <2>1, CountAdds
<1>4. \A f \in found : Kind(f) = "unused concept"
  <2> SUFFICES ASSUME NEW f \in found PROVE Kind(f) = "unused concept"
      OBVIOUS
  <2>1. \E c : f = Finding("unused concept", c, <<>>)
      BY Zenon
  <2> QED
      BY <2>1, KindOfFinding, Zenon
<1> HIDE DEF found, counted
<1>5. OfEntries' = OfEntries
    BY <1>3, <1>4 DEF OfEntries
<1>6. Remains
    BY <1>1 DEF Remains, Past, Before, Stages
<1>7. HandBook'
    BY <1>1 DEF HandBook, Stages
<1> QED
    BY <1>1, <1>2, <1>5, <1>6, <1>7, OwnersRemain, SaysNoMore DEF ExactInv

LEMMA ExactStutter == ASSUME IInv, ExactInv, UNCHANGED vars PROVE ExactInv'
<1>1. UNCHANGED <<pc, at, item, entries, owners, local, normalized, report>>
    BY DEF vars, position
<1>2. Remains
    BY <1>1 DEF Remains, Past
<1>3. OfEntries' = OfEntries
    BY <1>1 DEF OfEntries
<1>4. HandBook'
    BY <1>1, EarlierStays DEF ExactInv, HandBook
<1> QED
    BY <1>1, <1>2, <1>3, <1>4, OwnersRemain, SaysNoMore DEF ExactInv, IInv

LEMMA ExactNext == IInv /\ ExactInv /\ [Next]_vars => ExactInv'
<1> SUFFICES ASSUME IInv, ExactInv, [Next]_vars PROVE ExactInv'
    OBVIOUS
<1>1. CASE StartEntry
    BY <1>1, ExactStartEntry
<1>2. CASE Alias
    BY <1>2, ExactAlias
<1>3. CASE EndAliases
    BY <1>3, ExactEndAliases
<1>4. CASE Keyword
    BY <1>4, ExactKeyword
<1>5. CASE EndKeywords
    BY <1>5, ExactEndKeywords
<1>6. CASE Related
    BY <1>6, ExactRelated
<1>7. CASE EndEntry
    BY <1>7, ExactEndEntry
<1>8. CASE Concepts
    BY <1>8, ExactConcepts
<1>9. CASE Done \/ UNCHANGED vars
    BY <1>9, ExactStutter DEF Done
<1> QED
    BY <1>1, <1>2, <1>3, <1>4, <1>5, <1>6, <1>7, <1>8, <1>9 DEF Next, Walk

\* At the end the walk is past every place.
LEMMA AllSaid ==
    ASSUME IInv, ExactInv, pc = "done"
    PROVE  {f \in report.findings : Kind(f) # "unused concept"} =
               UNION {Expected(e) : e \in ToSet(entries)}
<1>1. \A i \in DOMAIN entries : i < at
    BY DEF IInv, WalkTypes
<1>2. \A f : Said(f) <=> \E i \in DOMAIN entries : f \in Expected(entries[i])
  <2>1. \A f : Said(f) <=> \E i \in DOMAIN entries :
            \E s \in Stages : \E k \in PlacesOf(i, s) : f \in Says(i, s, k)
      BY <1>1 DEF Said, Past
  <2>2. \A f : \A i \in DOMAIN entries :
            (\E s \in Stages : \E k \in PlacesOf(i, s) : f \in Says(i, s, k)) <=>
                f \in Expected(entries[i])
      BY SaysAreExpected DEF IInv, WalkTypes
  <2> QED
      BY <2>1, <2>2
<1>3. \A f : f \in OfEntries <=> \E i \in DOMAIN entries : f \in Expected(entries[i])
    BY <1>2 DEF ExactInv, SaidSoFar
<1>4. OfEntries = UNION {Expected(e) : e \in ToSet(entries)}
    BY <1>3 DEF ToSet
<1> QED
    BY <1>4 DEF OfEntries

-----------------------------------------------------------------------------
(* What the report counts.                                                 *)

\* The sums that a fold over a list makes on the way, by the places summed.
Summing(h, w) ==
    \A S \in SUBSET DOMAIN w : h[S] = IF S = {} THEN 0 ELSE h[S \ {Max(S)}] + w[Max(S)]
SumTo(w, k) == (CHOOSE h \in [SUBSET DOMAIN w -> Nat] : Summing(h, w))[1..k]

LEMMA LastOfFirst ==
    ASSUME NEW k \in Nat \ {0}
    PROVE  Max(1..k) = k /\ (1..k) \ {Max(1..k)} = 1..k - 1 /\ 1..k # {}
<1> DEFINE S == 1..k
<1>1. S \in SUBSET (0..k) /\ S # {} /\ k \in S
    OBVIOUS
<1>2. Max(S) \in S /\ \A x \in S : x <= Max(S)
  <2> HIDE DEF S
  <2> QED
      BY <1>1, MaxProperty
<1>3. Max(S) = k
  <2> DEFINE m == Max(S)
  <2>1. m \in 1..k /\ k <= m
      BY <1>1, <1>2
  <2> HIDE DEF m
  <2>2. m = k
      BY <2>1
  <2> QED
      BY <2>2 DEF m
<1> QED
    BY <1>1, <1>3

LEMMA SumExists ==
    ASSUME NEW n \in Nat, NEW w \in [1..n -> Nat]
    PROVE  \E h \in [SUBSET DOMAIN w -> Nat] : Summing(h, w)
<1> DEFINE D == SUBSET (1..n)
           rest == [S \in D |-> S \ {Max(S)}]
           next == [p \in D \X Nat |-> p[2] + w[Max(p[1])]]
           start == [S \in D |-> 0]
           size == [S \in D |-> Cardinality(S)]
<1>0. IsFiniteSet(1..n)
    BY FS_Interval
<1>1. \A S \in D : S # {} => Max(S) \in S /\ w[Max(S)] \in Nat
  <2> SUFFICES ASSUME NEW S \in D, S # {} PROVE Max(S) \in S /\ w[Max(S)] \in Nat
      OBVIOUS
  <2>1. S \in SUBSET (0..n)
      OBVIOUS
  <2>2. Max(S) \in S
      BY <2>1, MaxProperty
  <2> QED
      BY <2>2
<1>2. ASSUME NEW S \in D
      PROVE  /\ Cardinality(S) \in Nat
             /\ S # {} => /\ S \ {Max(S)} \in D
                          /\ Cardinality(S \ {Max(S)}) < Cardinality(S)
  <2>1. IsFiniteSet(S) /\ Cardinality(S) \in Nat
      BY <1>0, FS_Subset, FS_CardinalityType
  <2>2. S # {} => Cardinality(S \ {Max(S)}) = Cardinality(S) - 1
      BY <1>1, <2>1, FS_RemoveElement
  <2>3. S \ {Max(S)} \in D
      OBVIOUS
  <2> DEFINE c == Cardinality(S)
             r == Cardinality(S \ {Max(S)})
  <2>4. c \in Nat /\ (S # {} => r = c - 1)
      BY <2>1, <2>2
  <2> HIDE DEF c, r
  <2>5. c \in Nat /\ (S # {} => r < c)
      BY <2>4
  <2> QED
      BY <2>3, <2>5 DEF c, r
<1>3. Recursion(D, Nat, {{}}, start, rest, next, size)
  <2>1. size \in [D -> Nat]
      BY <1>2
  <2>2. \A S \in D, v \in Nat : S \notin {{}} => next[<<S, v>>] \in Nat
    <3> SUFFICES ASSUME NEW S \in D, NEW v \in Nat, S # {} PROVE next[<<S, v>>] \in Nat
        OBVIOUS
    <3>1. next[<<S, v>>] = v + w[Max(S)]
        OBVIOUS
    <3> HIDE DEF next
    <3> QED
        BY <1>1, <3>1
  <2>3. \A S \in D : S \notin {{}} => rest[S] \in D /\ size[rest[S]] < size[S]
      BY <1>2
  <2>4. \A S \in D : start[S] \in Nat
      OBVIOUS
  <2> HIDE DEF size, next, rest, start
  <2> QED
      BY <2>1, <2>2, <2>3, <2>4 DEF Recursion, Ranked
<1>4. PICK g \in [D -> Nat] : Solution(g, D, {{}}, start, rest, next)
  <2> HIDE DEF D, size, next, rest, start
  <2> QED
      BY <1>3, RankedRecursion
<1>5. DOMAIN w = 1..n
    OBVIOUS
<1>6. \A S \in D : g[S] = IF S = {} THEN 0 ELSE g[S \ {Max(S)}] + w[Max(S)]
  <2> SUFFICES ASSUME NEW S \in D
               PROVE  g[S] = IF S = {} THEN 0 ELSE g[S \ {Max(S)}] + w[Max(S)]
      OBVIOUS
  <2>1. g[S] = IF S \in {{}} THEN start[S] ELSE next[<<S, g[rest[S]]>>]
      BY <1>4 DEF Solution
  <2>2. S # {} => rest[S] = S \ {Max(S)} /\ g[rest[S]] \in Nat
      BY <1>2, <1>4
  <2>3. S # {} => next[<<S, g[rest[S]]>>] = g[rest[S]] + w[Max(S)]
      BY <2>2
  <2>4. start[S] = 0
      OBVIOUS
  <2> HIDE DEF next, rest, start
  <2> QED
      BY <2>1, <2>2, <2>3, <2>4
<1> QED
    BY <1>5, <1>6 DEF Summing

\* The sums of the first places, one by one.
LEMMA SumSteps ==
    ASSUME NEW n \in Nat, NEW w \in [1..n -> Nat]
    PROVE  /\ SumTo(w, 0) = 0
           /\ \A k \in 0..n : SumTo(w, k) \in Nat
           /\ \A k \in 1..n : SumTo(w, k) = SumTo(w, k - 1) + w[k]
<1> DEFINE h == CHOOSE g \in [SUBSET DOMAIN w -> Nat] : Summing(g, w)
<1>1. h \in [SUBSET DOMAIN w -> Nat] /\ Summing(h, w)
    BY SumExists
<1>2. \A k : SumTo(w, k) = h[1..k]
    BY DEF SumTo
<1> HIDE DEF h
<1>3. h[{}] = 0
    BY <1>1 DEF Summing
<1>4. \A k \in 0..n : h[1..k] \in Nat
  <2>1. \A k \in 0..n : 1..k \in SUBSET DOMAIN w
      OBVIOUS
  <2> QED
      BY <1>1, <2>1
<1>5. ASSUME NEW k \in 1..n PROVE h[1..k] = h[1..k - 1] + w[k]
  <2>1. 1..k \in SUBSET DOMAIN w
      OBVIOUS
  <2>2. Max(1..k) = k /\ (1..k) \ {Max(1..k)} = 1..k - 1 /\ 1..k # {}
    <3>1. k \in Nat \ {0}
        OBVIOUS
    <3> QED
        BY <3>1, LastOfFirst
  <2>3. h[1..k] = h[(1..k) \ {Max(1..k)}] + w[Max(1..k)]
      BY <1>1, <2>1, <2>2 DEF Summing
  <2> QED
      BY <2>2, <2>3
<1>6. 1..0 = {}
    OBVIOUS
<1> QED
    BY <1>2, <1>3, <1>4, <1>5, <1>6

\* Whatever sums up in this way ends with the same.
LEMMA SumsAgree ==
    ASSUME NEW n \in Nat, NEW w \in [1..n -> Nat], NEW h, Summing(h, w)
    PROVE  h[1..n] = SumTo(w, n)
<1> DEFINE Bad == {k \in 0..n : h[1..k] # SumTo(w, k)}
<1> SUFFICES ASSUME n \in Bad PROVE FALSE
    OBVIOUS
<1>1. PICK m \in Bad : \A k \in Bad : m <= k
  <2>1. Bad \in SUBSET Nat /\ Bad # {}
      OBVIOUS
  <2> HIDE DEF Bad
  <2> QED
      BY <2>1, LeastNumber
<1>2. m \in 0..n /\ h[1..m] # SumTo(w, m)
    BY <1>1
<1>3. CASE m = 0
  <2>1. 1..0 = {}
      OBVIOUS
  <2>2. h[{}] = 0
    <3>1. {} \in SUBSET DOMAIN w
        OBVIOUS
    <3> QED
        BY <3>1 DEF Summing
  <2> QED
      BY <1>2, <1>3, <2>1, <2>2, SumSteps
<1>4. CASE m # 0
  <2>1. m \in 1..n /\ m - 1 \in 0..n /\ m \in Nat \ {0}
      BY <1>2, <1>4
  <2>2. m - 1 \notin Bad
      BY <1>1, <1>2
  <2>3. h[1..m - 1] = SumTo(w, m - 1)
      BY <2>1, <2>2
  <2>4. Max(1..m) = m /\ (1..m) \ {Max(1..m)} = 1..m - 1 /\ 1..m # {}
      BY <2>1, LastOfFirst
  <2>5. 1..m \in SUBSET DOMAIN w
      BY <2>1
  <2>6. h[1..m] = h[(1..m) \ {Max(1..m)}] + w[Max(1..m)]
      BY <2>4, <2>5 DEF Summing
  <2>7. SumTo(w, m) = SumTo(w, m - 1) + w[m]
      BY <2>1, SumSteps
  <2> QED
      BY <1>2, <2>3, <2>4, <2>6, <2>7
<1> QED
    BY <1>3, <1>4

Sizes(s) == [i \in DOMAIN entries |-> Len(ItemsOf(i, s))]

LEMMA SizesType ==
    ASSUME entries \in Seq(Entry), NEW s \in Stages
    PROVE  /\ Len(entries) \in Nat /\ DOMAIN entries = 1..Len(entries)
           /\ Sizes(s) \in [1..Len(entries) -> Nat]
    BY ListSizes DEF Sizes

\* What the folds of the specification come to.
LEMMA AliasesSummed ==
    ASSUME entries \in Seq(Entry)
    PROVE  FoldLeft(LAMBDA n, e : n + Len(e.aliases), 0, entries) =
               SumTo(Sizes("alias"), Len(entries))
<1> DEFINE n == Len(entries)
           w == Sizes("alias")
           D == SUBSET DOMAIN entries
           rhs(g) == [S \in D |-> IF S = {} THEN 0
                                  ELSE g[S \ {Max(S)}] + Len(entries[Max(S)].aliases)]
<1>1. n \in Nat /\ DOMAIN entries = 1..n /\ w \in [1..n -> Nat]
    BY SizesType DEF Stages
<1>2. \A i \in DOMAIN entries : w[i] = Len(entries[i].aliases)
    BY DEF Sizes, ItemsOf
<1>3. \A S \in D : S # {} => Max(S) \in S
  <2> SUFFICES ASSUME NEW S \in D, S # {} PROVE Max(S) \in S
      OBVIOUS
  <2>1. S \in SUBSET (0..n)
      BY <1>1
  <2> HIDE DEF n
  <2> QED
      BY <1>1, <2>1, MaxProperty
<1>4. PICK g \in [D -> Nat] : Summing(g, w)
  <2>1. DOMAIN w = DOMAIN entries
      BY <1>1
  <2> HIDE DEF w, n
  <2> QED
      BY <1>1, <2>1, SumExists
<1>5. g = rhs(g)
    BY <1>1, <1>2, <1>3, <1>4 DEF Summing
<1>6. \E h : FoldLeft(LAMBDA k, e : k + Len(e.aliases), 0, entries) = h[DOMAIN entries] /\ h = rhs(h)
  <2> DEFINE h == CHOOSE h : h = rhs(h)
  <2>1. h = rhs(h)
      BY <1>5
  <2>2. FoldLeft(LAMBDA k, e : k + Len(e.aliases), 0, entries) = h[DOMAIN entries]
      BY DEF FoldLeft, MapThenFoldSet
  <2> QED
      BY <2>1, <2>2
<1>7. PICK h : FoldLeft(LAMBDA k, e : k + Len(e.aliases), 0, entries) = h[DOMAIN entries] /\ h = rhs(h)
    BY <1>6
<1>8. Summing(h, w)
  <2>1. DOMAIN w = DOMAIN entries
      BY <1>1
  <2>2. \A S \in D : h[S] = rhs(h)[S]
      BY <1>7, Zenon
  <2>3. \A S \in D : h[S] = IF S = {} THEN 0 ELSE h[S \ {Max(S)}] + Len(entries[Max(S)].aliases)
      BY <2>2
  <2> HIDE DEF w, n
  <2>4. \A S \in D : h[S] = IF S = {} THEN 0 ELSE h[S \ {Max(S)}] + w[Max(S)]
      BY <1>2, <1>3, <2>3
  <2> QED
      BY <2>1, <2>4 DEF Summing
<1>9. h[1..n] = SumTo(w, n)
  <2> HIDE DEF w, n
  <2> QED
      BY <1>1, <1>8, SumsAgree
<1> QED
    BY <1>1, <1>7, <1>9

LEMMA KeywordsSummed ==
    ASSUME entries \in Seq(Entry)
    PROVE  FoldLeft(LAMBDA n, e : n + Len(e.keywords), 0, entries) =
               SumTo(Sizes("keyword"), Len(entries))
<1> DEFINE n == Len(entries)
           w == Sizes("keyword")
           D == SUBSET DOMAIN entries
           rhs(g) == [S \in D |-> IF S = {} THEN 0
                                  ELSE g[S \ {Max(S)}] + Len(entries[Max(S)].keywords)]
<1>1. n \in Nat /\ DOMAIN entries = 1..n /\ w \in [1..n -> Nat]
    BY SizesType DEF Stages
<1>2. \A i \in DOMAIN entries : w[i] = Len(entries[i].keywords)
    BY DEF Sizes, ItemsOf
<1>3. \A S \in D : S # {} => Max(S) \in S
  <2> SUFFICES ASSUME NEW S \in D, S # {} PROVE Max(S) \in S
      OBVIOUS
  <2>1. S \in SUBSET (0..n)
      BY <1>1
  <2> HIDE DEF n
  <2> QED
      BY <1>1, <2>1, MaxProperty
<1>4. PICK g \in [D -> Nat] : Summing(g, w)
  <2>1. DOMAIN w = DOMAIN entries
      BY <1>1
  <2> HIDE DEF w, n
  <2> QED
      BY <1>1, <2>1, SumExists
<1>5. g = rhs(g)
    BY <1>1, <1>2, <1>3, <1>4 DEF Summing
<1>6. \E h : FoldLeft(LAMBDA k, e : k + Len(e.keywords), 0, entries) = h[DOMAIN entries] /\ h = rhs(h)
  <2> DEFINE h == CHOOSE h : h = rhs(h)
  <2>1. h = rhs(h)
      BY <1>5
  <2>2. FoldLeft(LAMBDA k, e : k + Len(e.keywords), 0, entries) = h[DOMAIN entries]
      BY DEF FoldLeft, MapThenFoldSet
  <2> QED
      BY <2>1, <2>2
<1>7. PICK h : FoldLeft(LAMBDA k, e : k + Len(e.keywords), 0, entries) = h[DOMAIN entries] /\ h = rhs(h)
    BY <1>6
<1>8. Summing(h, w)
  <2>1. DOMAIN w = DOMAIN entries
      BY <1>1
  <2>2. \A S \in D : h[S] = rhs(h)[S]
      BY <1>7, Zenon
  <2>3. \A S \in D : h[S] = IF S = {} THEN 0 ELSE h[S \ {Max(S)}] + Len(entries[Max(S)].keywords)
      BY <2>2
  <2> HIDE DEF w, n
  <2>4. \A S \in D : h[S] = IF S = {} THEN 0 ELSE h[S \ {Max(S)}] + w[Max(S)]
      BY <1>2, <1>3, <2>3
  <2> QED
      BY <2>1, <2>4 DEF Summing
<1>9. h[1..n] = SumTo(w, n)
  <2> HIDE DEF w, n
  <2> QED
      BY <1>1, <1>8, SumsAgree
<1> QED
    BY <1>1, <1>7, <1>9

CountedHere(s) ==
    IF Before(s, pc) THEN Len(ItemsOf(at, s)) ELSE IF s = pc THEN item - 1 ELSE 0
CountedAll(s) == SumTo(Sizes(s), at - 1) + CountedHere(s)

CountInv ==
    /\ at - 1 <= Len(entries)
    /\ report.aliases = CountedAll("alias")
    /\ report.keywords = CountedAll("keyword")

LEMMA CountInit == Init => CountInv
<1> SUFFICES ASSUME Init PROVE CountInv
    OBVIOUS
<1>1. /\ pc = "entry" /\ at = 1 /\ report.aliases = 0 /\ report.keywords = 0
      /\ entries \in Seq(Entry)
    BY LintAssumption DEF Init
<1>2. ASSUME NEW s \in Stages PROVE CountedAll(s) = 0
  <2>1. SumTo(Sizes(s), 0) = 0 /\ Len(entries) \in Nat
      BY <1>1, SizesType, SumSteps
  <2>2. CountedHere(s) = 0
      BY <1>1 DEF CountedHere, Before, Stages
  <2>3. at - 1 = 0
      BY <1>1
  <2> QED
      BY <2>1, <2>2, <2>3 DEF CountedAll
<1>3. Len(entries) \in Nat
    BY <1>1
<1> QED
    BY <1>1, <1>2, <1>3 DEF CountInv, Stages

\* Where a step leaves the counts as they are.
LEMMA CountStays ==
    ASSUME entries' = entries, at' = at, NEW s, CountedHere(s)' = CountedHere(s)
    PROVE  CountedAll(s)' = CountedAll(s)
<1>1. Sizes(s)' = Sizes(s)
    BY DEF Sizes, ItemsOf
<1> QED
    BY <1>1 DEF CountedAll

\* What a step does to the counts in the report.
LEMMA Counting ==
    ASSUME DOMAIN report = Fields, NEW found, NEW n
    PROVE  /\ Found(found).aliases = report.aliases /\ Found(found).keywords = report.keywords
           /\ [Found(found) EXCEPT !.aliases = n].aliases = n
           /\ [Found(found) EXCEPT !.aliases = n].keywords = report.keywords
           /\ [Found(found) EXCEPT !.keywords = n].keywords = n
           /\ [Found(found) EXCEPT !.keywords = n].aliases = report.aliases
           /\ [Found(found) EXCEPT !.concepts = n].aliases = report.aliases
           /\ [Found(found) EXCEPT !.concepts = n].keywords = report.keywords
    BY DEF Found, Fields

\* A step that counts nothing.
LEMMA CountSame ==
    ASSUME CountInv, UNCHANGED <<entries, at>>,
           report'.aliases = report.aliases, report'.keywords = report.keywords,
           CountedHere("alias")' = CountedHere("alias"),
           CountedHere("keyword")' = CountedHere("keyword")
    PROVE  CountInv'
    BY CountStays DEF CountInv

LEMMA CountItem ==
    ASSUME WalkTypes, CountInv, UNCHANGED <<entries, at, pc>>, at \in DOMAIN entries,
           item' = item + 1, pc \in {"alias", "keyword"},
           report'.aliases = (IF pc = "alias" THEN report.aliases + 1 ELSE report.aliases),
           report'.keywords = (IF pc = "keyword" THEN report.keywords + 1 ELSE report.keywords)
    PROVE  CountInv'
<1>1. ASSUME NEW s \in Stages
      PROVE  CountedAll(s)' = IF s = pc THEN CountedAll(s) + 1 ELSE CountedAll(s)
  <2>1. Sizes(s)' = Sizes(s) /\ ItemsOf(at, s)' = ItemsOf(at, s)
      BY DEF Sizes, ItemsOf
  <2>2. SumTo(Sizes(s), at - 1) \in Nat
    <3>1. at - 1 \in 0..Len(entries)
        BY DEF WalkTypes, CountInv
    <3> QED
        BY <3>1, SizesType, SumSteps DEF WalkTypes
  <2>3. item \in Nat
      BY DEF WalkTypes
  <2>4. CASE s = pc
    <3>1. CountedHere(s) = item - 1 /\ CountedHere(s)' = (item + 1) - 1
        BY <2>4 DEF CountedHere, Before
    <3> QED
        BY <2>1, <2>2, <2>3, <2>4, <3>1 DEF CountedAll
  <2>5. CASE s # pc
    <3>1. CountedHere(s)' = CountedHere(s)
        BY <2>1, <2>5 DEF CountedHere, Before
    <3> QED
        BY <2>1, <2>5, <3>1 DEF CountedAll
  <2> QED
      BY <2>4, <2>5
<1> QED
    BY <1>1 DEF CountInv, Stages

\* Past the last alias, all of the entry's are counted; and so for keywords.
LEMMA CountStage ==
    ASSUME WalkTypes, HandBook, CountInv, UNCHANGED <<entries, at>>, at \in DOMAIN entries,
           pc \in Stages, item > Len(ItemsOf(at, pc)), item' = 1,
           (pc = "alias" /\ pc' = "keyword") \/ (pc = "keyword" /\ pc' = "related"),
           report'.aliases = report.aliases, report'.keywords = report.keywords
    PROVE  CountInv'
<1>1. Len(ItemsOf(at, pc)) \in Nat /\ item \in Nat /\ item <= Len(ItemsOf(at, pc)) + 1
    BY ListSizes DEF WalkTypes, HandBook, PlacesOf
<1>2. item - 1 = Len(ItemsOf(at, pc))
  <2> DEFINE n == Len(ItemsOf(at, pc))
  <2>1. n \in Nat /\ item \in Nat /\ item <= n + 1 /\ item > n
      BY <1>1
  <2> HIDE DEF n
  <2>2. item - 1 = n
      BY <2>1
  <2> QED
      BY <2>2 DEF n
<1>3. \A s : ItemsOf(at, s)' = ItemsOf(at, s)
    BY DEF ItemsOf
<1>4. CountedHere("alias")' = CountedHere("alias")
    BY <1>2, <1>3 DEF CountedHere, Before
<1>5. CountedHere("keyword")' = CountedHere("keyword")
  <2>1. item' - 1 = 0
      OBVIOUS
  <2> QED
      BY <1>2, <1>3, <2>1 DEF CountedHere, Before
<1> QED
    BY <1>4, <1>5, CountSame

LEMMA CountStartEntry == ASSUME IInv, CountInv, StartEntry PROVE CountInv'
<1>1. /\ pc = "entry" /\ pc' = "alias" /\ item' = 1 /\ UNCHANGED <<entries, at, report>>
    BY DEF StartEntry
<1>2. item' - 1 = 0
    BY <1>1
<1>3. CountedHere("alias")' = CountedHere("alias") /\ CountedHere("keyword")' = CountedHere("keyword")
    BY <1>1, <1>2 DEF CountedHere, Before
<1> QED
    BY <1>1, <1>3, CountSame

LEMMA CountAlias == ASSUME IInv, CountInv, Alias PROVE CountInv'
<1> DEFINE found == AliasFindings(Current.aliases[item], NormalizedSearchPhrase(Current.aliases[item]))
           counted == Found(found)
<1>1. /\ pc = "alias" /\ pc' = pc /\ item' = item + 1 /\ UNCHANGED <<entries, at>>
      /\ report' = [counted EXCEPT !.aliases = counted.aliases + 1]
    BY DEF Alias
<1>2. WalkTypes /\ at \in DOMAIN entries /\ DOMAIN report = Fields
    BY <1>1 DEF IInv, WalkTypes
<1> HIDE DEF found
<1>3. report'.aliases = report.aliases + 1 /\ report'.keywords = report.keywords
    BY <1>1, <1>2, Counting
<1> QED
    BY <1>1, <1>2, <1>3, CountItem

LEMMA CountKeyword == ASSUME IInv, CountInv, Keyword PROVE CountInv'
<1> DEFINE found == KeywordFindings(Current.keywords[item], NormalizedSearchPhrase(Current.keywords[item]))
           counted == Found(found)
<1>1. /\ pc = "keyword" /\ pc' = pc /\ item' = item + 1 /\ UNCHANGED <<entries, at>>
      /\ report' = [counted EXCEPT !.keywords = counted.keywords + 1]
    BY DEF Keyword
<1>2. WalkTypes /\ at \in DOMAIN entries /\ DOMAIN report = Fields
    BY <1>1 DEF IInv, WalkTypes
<1> HIDE DEF found
<1>3. report'.keywords = report.keywords + 1 /\ report'.aliases = report.aliases
    BY <1>1, <1>2, Counting
<1> QED
    BY <1>1, <1>2, <1>3, CountItem

LEMMA CountEndAliases == ASSUME IInv, ExactInv, CountInv, EndAliases PROVE CountInv'
<1> DEFINE found == {Finding("similar aliases", Current.id,
                             {normalized[p[1]], normalized[p[2]]}) :
                         p \in SimilarPairs(normalized)}
<1>1. /\ pc = "alias" /\ pc' = "keyword" /\ item' = 1 /\ item > Len(Current.aliases)
      /\ report' = Found(found) /\ UNCHANGED <<entries, at>>
    BY DEF EndAliases
<1> HIDE DEF found
<1>2. WalkTypes /\ at \in DOMAIN entries /\ DOMAIN report = Fields
    BY <1>1 DEF IInv, WalkTypes
<1>3. report'.aliases = report.aliases /\ report'.keywords = report.keywords
    BY <1>1, <1>2, Counting
<1>4. pc \in Stages /\ ItemsOf(at, pc) = Current.aliases
    BY <1>1 DEF Stages, ItemsOf, Current
<1> QED
    BY <1>1, <1>2, <1>3, <1>4, CountStage DEF ExactInv

LEMMA CountEndKeywords == ASSUME IInv, ExactInv, CountInv, EndKeywords PROVE CountInv'
<1>1. /\ pc = "keyword" /\ pc' = "related" /\ item' = 1 /\ item > Len(Current.keywords)
      /\ UNCHANGED <<entries, at, report>>
    BY DEF EndKeywords
<1>2. WalkTypes /\ at \in DOMAIN entries
    BY <1>1 DEF IInv, WalkTypes
<1>3. pc \in Stages /\ ItemsOf(at, pc) = Current.keywords
    BY <1>1 DEF Stages, ItemsOf, Current
<1> QED
    BY <1>1, <1>2, <1>3, CountStage DEF ExactInv

LEMMA CountRelated == ASSUME IInv, CountInv, Related PROVE CountInv'
<1> DEFINE found == RelatedFindings(Current.related[item])
<1>1. /\ pc = "related" /\ pc' = pc /\ report' = Found(found) /\ UNCHANGED <<entries, at>>
    BY DEF Related
<1> HIDE DEF found
<1>2. DOMAIN report = Fields
    BY DEF IInv, WalkTypes
<1>3. report'.aliases = report.aliases /\ report'.keywords = report.keywords
    BY <1>1, <1>2, Counting
<1>4. \A s : ItemsOf(at, s)' = ItemsOf(at, s)
    BY <1>1 DEF ItemsOf
<1>5. CountedHere("alias")' = CountedHere("alias") /\ CountedHere("keyword")' = CountedHere("keyword")
    BY <1>1, <1>4 DEF CountedHere, Before
<1> QED
    BY <1>1, <1>3, <1>5, CountSame

\* The entry goes over into the sums of those before.
LEMMA CountEndEntry == ASSUME IInv, CountInv, EndEntry PROVE CountInv'
<1> DEFINE found == {Finding(kind, Current.id, <<>>) : kind \in Current.markdown}
<1>1. /\ pc = "related" /\ pc' = "entry" /\ at' = at + 1 /\ report' = Found(found)
      /\ entries' = entries
    BY DEF EndEntry, NextEntry
<1> HIDE DEF found
<1>2. /\ WalkTypes /\ at \in DOMAIN entries /\ DOMAIN report = Fields
      /\ entries \in Seq(Entry) /\ at \in Nat \ {0}
    BY <1>1 DEF IInv, WalkTypes
<1>3. report'.aliases = report.aliases /\ report'.keywords = report.keywords
    BY <1>1, <1>2, Counting
<1>4. ASSUME NEW s \in {"alias", "keyword"} PROVE CountedAll(s)' = CountedAll(s)
  <2>1. s \in Stages
      BY DEF Stages
  <2>2. Sizes(s)' = Sizes(s)
      BY <1>1 DEF Sizes, ItemsOf
  <2>3. CountedHere(s) = Len(ItemsOf(at, s)) /\ CountedHere(s)' = 0
      BY <1>1 DEF CountedHere, Before
  <2>4. at \in 1..Len(entries) /\ Sizes(s)[at] = Len(ItemsOf(at, s))
      BY <1>2 DEF Sizes
  <2>5. SumTo(Sizes(s), at) = SumTo(Sizes(s), at - 1) + Sizes(s)[at] /\ SumTo(Sizes(s), at) \in Nat
    <3>1. Len(entries) \in Nat /\ Sizes(s) \in [1..Len(entries) -> Nat] /\ at \in 0..Len(entries)
        BY <1>2, <2>1, <2>4, SizesType
    <3> QED
        BY <2>4, <3>1, SumSteps
  <2>6. (at + 1) - 1 = at
      BY <1>2
  <2>7. CountedAll(s) = SumTo(Sizes(s), at)
      BY <2>3, <2>4, <2>5 DEF CountedAll
  <2>8. CountedAll(s)' = SumTo(Sizes(s), at) + 0
      BY <1>1, <2>2, <2>3, <2>6 DEF CountedAll
  <2> QED
      BY <2>5, <2>7, <2>8
<1>5. at' - 1 <= Len(entries)
    BY <1>1, <1>2
<1> QED
    BY <1>1, <1>3, <1>4, <1>5 DEF CountInv

LEMMA CountConcepts == ASSUME IInv, CountInv, Concepts PROVE CountInv'
<1> DEFINE found == {Finding("unused concept", c, <<>>) : c \in CanonicalConcepts \ used}
<1>1. /\ pc = "entry" /\ pc' = "done" /\ UNCHANGED <<entries, at, item>>
      /\ report' = [Found(found) EXCEPT !.concepts = Cardinality(CanonicalConcepts)]
    BY DEF Concepts
<1> HIDE DEF found
<1>2. DOMAIN report = Fields
    BY DEF IInv, WalkTypes
<1>3. report'.aliases = report.aliases /\ report'.keywords = report.keywords
    BY <1>1, <1>2, Counting
<1>4. CountedHere("alias")' = CountedHere("alias") /\ CountedHere("keyword")' = CountedHere("keyword")
    BY <1>1 DEF CountedHere, Before
<1> QED
    BY <1>1, <1>3, <1>4, CountSame

LEMMA CountStutter == ASSUME CountInv, UNCHANGED vars PROVE CountInv'
<1>1. UNCHANGED <<pc, at, item, entries, report>>
    BY DEF vars, position
<1>2. CountedHere("alias")' = CountedHere("alias") /\ CountedHere("keyword")' = CountedHere("keyword")
    BY <1>1 DEF CountedHere, ItemsOf
<1> QED
    BY <1>1, <1>2, CountSame

LEMMA CountNext == IInv /\ ExactInv /\ CountInv /\ [Next]_vars => CountInv'
<1> SUFFICES ASSUME IInv, ExactInv, CountInv, [Next]_vars PROVE CountInv'
    OBVIOUS
<1>1. CASE StartEntry
    BY <1>1, CountStartEntry
<1>2. CASE Alias
    BY <1>2, CountAlias
<1>3. CASE EndAliases
    BY <1>3, CountEndAliases
<1>4. CASE Keyword
    BY <1>4, CountKeyword
<1>5. CASE EndKeywords
    BY <1>5, CountEndKeywords
<1>6. CASE Related
    BY <1>6, CountRelated
<1>7. CASE EndEntry
    BY <1>7, CountEndEntry
<1>8. CASE Concepts
    BY <1>8, CountConcepts
<1>9. CASE Done \/ UNCHANGED vars
    BY <1>9, CountStutter DEF Done
<1> QED
    BY <1>1, <1>2, <1>3, <1>4, <1>5, <1>6, <1>7, <1>8, <1>9 DEF Next, Walk

LEMMA AllCounted ==
    ASSUME IInv, CountInv, pc = "done"
    PROVE  /\ report.aliases = FoldLeft(LAMBDA n, e : n + Len(e.aliases), 0, entries)
           /\ report.keywords = FoldLeft(LAMBDA n, e : n + Len(e.keywords), 0, entries)
<1>1. entries \in Seq(Entry) /\ Len(entries) \in Nat /\ at \in Nat
      /\ at > Len(entries) /\ at - 1 <= Len(entries)
    BY DEF IInv, WalkTypes, CountInv
<1>2. at - 1 = Len(entries)
    BY <1>1
<1>3. ASSUME NEW s \in Stages PROVE CountedAll(s) = SumTo(Sizes(s), Len(entries))
  <2>1. CountedHere(s) = 0
      BY DEF CountedHere, Before, Stages
  <2>2. SumTo(Sizes(s), Len(entries)) \in Nat
    <3>1. Sizes(s) \in [1..Len(entries) -> Nat] /\ Len(entries) \in 0..Len(entries)
        BY <1>1, SizesType
    <3> QED
        BY <1>1, <3>1, SumSteps
  <2> QED
      BY <1>2, <2>1, <2>2 DEF CountedAll
<1> QED
    BY <1>1, <1>3, AliasesSummed, KeywordsSummed DEF CountInv, Stages

\* For every list of entries in ascending order of id, every dictionary and
\* every pair of phrases one edit apart: KnowledgeBase::lint
\* (src/src/knowledge.cpp) reports of the entries exactly what an order-free
\* reading of its rules reports, and counts every alias and keyword.
THEOREM FindingsAreThoseExpected == Spec => []FindingsAreExact
<1>1. Spec => []IInv
    BY InvariantInit, InvariantNext, PTL DEF Spec
<1>2. Spec => []ExactInv
    BY <1>1, ExactInit, ExactNext, PTL DEF Spec
<1>3. Spec => []CountInv
    BY <1>1, <1>2, CountInit, CountNext, PTL DEF Spec
<1>4. IInv /\ ExactInv /\ CountInv => FindingsAreExact
    BY AllSaid, AllCounted DEF FindingsAreExact
<1> QED
    BY <1>1, <1>2, <1>3, <1>4, PTL

=============================================================================
