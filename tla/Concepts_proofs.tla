--------------------------- MODULE Concepts_proofs ---------------------------
(***************************************************************************)
(* For every file, every order of its groups and any number of loads of    *)
(* one ConceptDictionary: its report is honest, it accepts exactly the     *)
(* well-formed files, a rejected file leaves no phrase, the search for     *)
(* cycles never decides, and detection misses no phrase of any text.       *)
(***************************************************************************)
EXTENDS Concepts, Phrases_proofs

-----------------------------------------------------------------------------
(* The invariant.  A report is honest at the return because nothing is     *)
(* published before Finish; a cycle is a collision because a group is      *)
(* mapped only after every canonical name has claimed itself.              *)

Report == [file_present : BOOLEAN, usable : BOOLEAN, concepts_loaded : Nat,
           diagnostics : SUBSET Errors]
Item == [name : PhraseIds \cup {Empty, NotScalar}, sequence : BOOLEAN,
         aliases : Seq(PhraseIds \cup {Empty, NotScalar})]
Group == [canonical : PhraseIds, aliases : SUBSET PhraseIds]

ReadTypes ==
    /\ pc \in {"idle", "parse", "map", "done", "detect"}
    /\ report \in Report
    /\ groups \in Seq(Group)
    /\ pc = "parse" => file \in Contents /\ position \in Nat

\* Until Finish, nothing is published and no cycle is reported.
NothingPublished ==
    pc \in {"parse", "map"} =>
        /\ dictionary = NoPhrases
        /\ report.file_present /\ report.usable /\ report.concepts_loaded = 0
        /\ "cycle" \notin report.diagnostics

\* A group that claims the name of another one collides with it.
ClaimsName(g) == \E a \in g.aliases : a \in Canonicals /\ a # g.canonical

NamesClaimedFirst ==
    pc = "map" =>
        /\ pending \subseteq ToSet(groups)
        /\ Canonicals \subseteq DOMAIN phrases
        /\ \A g \in ToSet(groups) \ pending : ClaimsName(g) => "collision" \in report.diagnostics

HonestAtReturn == Loaded => HonestConcepts(report)

IInv ==
    /\ ReadTypes /\ NothingPublished /\ NamesClaimedFirst
    /\ HonestAtReturn /\ RejectedFileIsEmpty /\ CyclesAreCollisions

-----------------------------------------------------------------------------
(* Reports.                                                                *)

LEMMA AddErrorsType ==
    ASSUME NEW r \in Report, NEW es \in SUBSET Errors
    PROVE  /\ AddErrors(r, es) \in Report
           /\ AddErrors(r, es).file_present = r.file_present
           /\ AddErrors(r, es).usable = r.usable
           /\ AddErrors(r, es).concepts_loaded = r.concepts_loaded
           /\ AddErrors(r, es).diagnostics = r.diagnostics \cup es
    BY DEF AddErrors, Report

LEMMA RejectType ==
    ASSUME NEW r \in Report, NEW e \in Errors
    PROVE  /\ Reject(r, e) \in Report
           /\ Reject(r, e).file_present = r.file_present
           /\ Reject(r, e).usable = FALSE
           /\ Reject(r, e).concepts_loaded = r.concepts_loaded
           /\ Reject(r, e).diagnostics = r.diagnostics \cup {e}
<1>1. AddErrors(r, {e}) \in Report
      /\ AddErrors(r, {e}).file_present = r.file_present
      /\ AddErrors(r, {e}).concepts_loaded = r.concepts_loaded
      /\ AddErrors(r, {e}).diagnostics = r.diagnostics \cup {e}
    BY AddErrorsType
<1> QED
    BY <1>1 DEF Reject, Report

\* A report without groups that is rejected is honest.
LEMMA RejectIsHonest ==
    ASSUME NEW r \in Report, NEW e \in Errors, r.concepts_loaded = 0,
           "cycle" \notin r.diagnostics, e # "cycle"
    PROVE  /\ Reject(r, e) \in Report /\ HonestConcepts(Reject(r, e))
           /\ Reject(r, e).concepts_loaded = 0
           /\ "cycle" \notin Reject(r, e).diagnostics
<1>1. /\ Reject(r, e) \in Report /\ Reject(r, e).usable = FALSE
      /\ Reject(r, e).concepts_loaded = 0
      /\ Reject(r, e).diagnostics = r.diagnostics \cup {e}
    BY RejectType
<1>2. Reject(r, e).diagnostics # {} /\ "cycle" \notin Reject(r, e).diagnostics
    BY <1>1
<1> QED
    BY <1>1, <1>2 DEF HonestConcepts

LEMMA FreshReportType ==
    /\ FreshReport \in Report /\ ~FreshReport.file_present /\ FreshReport.usable
    /\ FreshReport.concepts_loaded = 0 /\ FreshReport.diagnostics = {}
    BY DEF FreshReport, Report

\* What is wrong with the file itself rejects it at once, or is one more
\* error for Finish to find.
LEMMA FileReportFacts ==
    ASSUME NEW f \in Contents
    PROVE  /\ FileReport(f) \in Report
           /\ FileReport(f).concepts_loaded = 0
           /\ "cycle" \notin FileReport(f).diagnostics
           /\ f.state = "read" => FileReport(f).file_present /\ FileReport(f).usable
           /\ f.state # "read" => HonestConcepts(FileReport(f))
<1> DEFINE present  == [FreshReport EXCEPT !.file_present = TRUE]
           repeated == IF f.keys > 1 THEN {"duplicate_root"} ELSE {}
<1>1. present \in Report /\ present.file_present /\ present.usable
      /\ present.concepts_loaded = 0 /\ present.diagnostics = {}
    BY DEF FreshReport, Report
<1>2. repeated \in SUBSET Errors /\ "cycle" \notin repeated
    BY DEF Errors
<1>3. "file" \in Errors /\ "root" \in Errors
    BY DEF Errors
<1>4. f.state \in FileStates
    BY ContentsAssumption
<1>5. FileReport(f) =
        CASE f.state = "missing" -> FreshReport
          [] f.state = "uninspectable" -> Reject(FreshReport, "file")
          [] f.state \in {"irregular", "unparsable"} -> Reject(present, "file")
          [] f.state \in {"not_a_map", "no_concepts"} -> Reject(present, "root")
          [] f.state = "concepts_not_a_map" -> Reject(AddErrors(present, repeated), "root")
          [] f.state = "read" -> AddErrors(present, repeated)
    BY DEF FileReport
<1> HIDE DEF present, repeated
<1>6. CASE f.state = "missing"
  <2>1. FileReport(f) = FreshReport
      BY <1>5, <1>6
  <2> QED
      BY <2>1, <1>6, FreshReportType DEF HonestConcepts
<1>7. CASE f.state = "uninspectable"
  <2>1. FileReport(f) = Reject(FreshReport, "file")
      BY <1>5, <1>7
  <2> QED
      BY <2>1, <1>3, <1>7, FreshReportType, RejectIsHonest
<1>8. CASE f.state \in {"irregular", "unparsable"}
  <2>1. FileReport(f) = Reject(present, "file")
      BY <1>5, <1>8
  <2> QED
      BY <2>1, <1>1, <1>3, <1>8, RejectIsHonest
<1>9. CASE f.state \in {"not_a_map", "no_concepts"}
  <2>1. FileReport(f) = Reject(present, "root")
      BY <1>5, <1>9
  <2> QED
      BY <2>1, <1>1, <1>3, <1>9, RejectIsHonest
<1>10. CASE f.state = "concepts_not_a_map"
  <2>1. FileReport(f) = Reject(AddErrors(present, repeated), "root")
      BY <1>5, <1>10
  <2>2. /\ AddErrors(present, repeated) \in Report
        /\ AddErrors(present, repeated).concepts_loaded = 0
        /\ AddErrors(present, repeated).diagnostics = repeated
    <3>1. AddErrors(present, repeated).diagnostics = present.diagnostics \cup repeated
        BY <1>1, <1>2, AddErrorsType
    <3>2. present.diagnostics \cup repeated = repeated
        BY <1>1
    <3>3. AddErrors(present, repeated).concepts_loaded = present.concepts_loaded
          /\ AddErrors(present, repeated) \in Report
        BY <1>1, <1>2, AddErrorsType
    <3> QED
        BY <1>1, <3>1, <3>2, <3>3
  <2>3. "cycle" \notin AddErrors(present, repeated).diagnostics
      BY <2>2, <1>2
  <2> QED
      BY <2>1, <2>2, <2>3, <1>3, <1>10, RejectIsHonest
<1>11. CASE f.state = "read"
  <2>1. FileReport(f) = AddErrors(present, repeated)
      BY <1>5, <1>11
  <2> QED
      BY <2>1, <1>1, <1>2, <1>11, AddErrorsType
<1> QED
    BY <1>4, <1>6, <1>7, <1>8, <1>9, <1>10, <1>11 DEF FileStates

LEMMA ItemsOfFile ==
    ASSUME NEW f \in Contents
    PROVE  /\ DOMAIN f.items = 1..Len(f.items) /\ Len(f.items) \in Nat
           /\ \A i \in DOMAIN f.items : f.items[i] \in Item
<1>1. f.items \in Seq(Item)
    BY ContentsAssumption DEF Item
<1> QED
    BY <1>1

-----------------------------------------------------------------------------
(* The steps.                                                              *)

LEMMA InvariantInit == Init => IInv
<1> SUFFICES ASSUME Init PROVE IInv
    OBVIOUS
<1>1. report \in Report /\ groups = <<>> /\ pc = "idle"
    BY FreshReportType DEF Init
<1> QED
    BY <1>1 DEF IInv, ReadTypes, NothingPublished, NamesClaimedFirst, HonestAtReturn,
                RejectedFileIsEmpty, CyclesAreCollisions, Loaded

\* A new load forgets the dictionary before it knows what it will read.
LEMMA BeginKeeps == ASSUME IInv, Begin PROVE IInv'
<1>1. PICK f \in Contents :
          /\ file' = f /\ report' = FileReport(f)
          /\ pc' = IF f.state = "read" THEN "parse" ELSE "done"
    BY DEF Begin
<1>2. groups' = <<>> /\ position' = 0 /\ dictionary' = NoPhrases
    BY DEF Begin, ClearDictionary
<1>3. report' \in Report /\ "cycle" \notin report'.diagnostics /\ report'.concepts_loaded = 0
      /\ (f.state = "read" => report'.file_present /\ report'.usable)
      /\ (f.state # "read" => HonestConcepts(report'))
    BY <1>1, FileReportFacts
<1>4. groups' \in Seq(Group) /\ position' \in Nat
    BY <1>2
<1>5. CASE f.state = "read"
  <2>1. pc' = "parse"
      BY <1>1, <1>5
  <2> QED
      BY <2>1, <1>1, <1>2, <1>3, <1>4, <1>5
         DEF IInv, ReadTypes, NothingPublished, NamesClaimedFirst, HonestAtReturn,
             RejectedFileIsEmpty, CyclesAreCollisions, Loaded
<1>6. CASE f.state # "read"
  <2>1. pc' = "done"
      BY <1>1, <1>6
  <2> QED
      BY <2>1, <1>1, <1>2, <1>3, <1>4, <1>6
         DEF IInv, ReadTypes, NothingPublished, NamesClaimedFirst, HonestAtReturn,
             RejectedFileIsEmpty, CyclesAreCollisions, Loaded
<1> QED
    BY <1>5, <1>6

LEMMA ParseGroupKeeps == ASSUME IInv, ParseGroup PROVE IInv'
<1> DEFINE item == file.items[position + 1]
<1>1. /\ pc = "parse" /\ pc' = "parse" /\ file' = file /\ position' = position + 1
      /\ position < Len(file.items) /\ dictionary' = dictionary
    BY DEF ParseGroup, mapping
<1>2. file \in Contents /\ position \in Nat /\ report \in Report /\ groups \in Seq(Group)
    BY <1>1 DEF IInv, ReadTypes
<1>3. ~NoName(item.name) =>
          [canonical |-> item.name, aliases |-> GoodAliases(item.aliases)] \in Group
  <2>1. item \in Item
    <3>1. position + 1 \in DOMAIN file.items
        BY <1>1, <1>2, ItemsOfFile
    <3> QED
        BY <1>2, <3>1, ItemsOfFile
  <2> HIDE DEF item
  <2>2. GoodAliases(item.aliases) \in SUBSET PhraseIds
      BY <2>1 DEF GoodAliases, ToSet, Item
  <2>3. ~NoName(item.name) => item.name \in PhraseIds
      BY <2>1 DEF NoName, Item
  <2> QED
      BY <2>2, <2>3 DEF Group
<1>4. /\ {"name"} \in SUBSET Errors /\ {"duplicate_name"} \in SUBSET Errors
      /\ {"aliases"} \in SUBSET Errors /\ AliasErrors(item.aliases) \in SUBSET Errors
      /\ "cycle" \notin AliasErrors(item.aliases)
    BY DEF Errors, AliasErrors
<1>5. PICK es \in SUBSET Errors :
          /\ "cycle" \notin es
          /\ report' = AddErrors(report, es)
          /\ \/ groups' = groups
             \/ /\ ~NoName(item.name)
                /\ groups' = Append(groups, [canonical |-> item.name,
                                             aliases |-> GoodAliases(item.aliases)])
  <2>1. IF NoName(item.name)
        THEN report' = AddErrors(report, {"name"}) /\ groups' = groups
        ELSE IF item.name \in names
        THEN report' = AddErrors(report, {"duplicate_name"}) /\ groups' = groups
        ELSE IF ~item.sequence
        THEN report' = AddErrors(report, {"aliases"}) /\ groups' = groups
        ELSE /\ groups' = Append(groups, [canonical |-> item.name,
                                          aliases |-> GoodAliases(item.aliases)])
             /\ report' = AddErrors(report, AliasErrors(item.aliases))
      BY DEF ParseGroup
  <2> HIDE DEF item
  <2> QED
      BY <2>1, <1>4
<1> HIDE DEF item
<1>6. groups' \in Seq(Group)
    BY <1>2, <1>3, <1>5
<1>7. /\ report' \in Report
      /\ report'.file_present = report.file_present /\ report'.usable = report.usable
      /\ report'.concepts_loaded = report.concepts_loaded
      /\ report'.diagnostics = report.diagnostics \cup es
    BY <1>2, <1>5, AddErrorsType
<1>8. ReadTypes'
    BY <1>1, <1>2, <1>6, <1>7 DEF ReadTypes
<1>9. NothingPublished'
    BY <1>1, <1>5, <1>7 DEF IInv, NothingPublished
<1> QED
    BY <1>1, <1>8, <1>9 DEF IInv, NamesClaimedFirst, HonestAtReturn,
                            RejectedFileIsEmpty, CyclesAreCollisions, Loaded

LEMMA EndParseKeeps == ASSUME IInv, EndParse PROVE IInv'
<1>1. /\ pc = "parse" /\ pc' = "map" /\ pending' = ToSet(groups)
      /\ phrases' = [c \in Canonicals |-> c]
      /\ groups' = groups /\ dictionary' = dictionary /\ report' = report
    BY DEF EndParse, parsing
<1>2. Canonicals' = Canonicals /\ DOMAIN phrases' = Canonicals
    BY <1>1 DEF Canonicals
<1>3. ReadTypes'
    BY <1>1 DEF IInv, ReadTypes
<1>4. NothingPublished'
    BY <1>1 DEF IInv, NothingPublished
<1>5. NamesClaimedFirst'
    BY <1>1, <1>2 DEF NamesClaimedFirst
<1> QED
    BY <1>1, <1>3, <1>4, <1>5 DEF IInv, HonestAtReturn, RejectedFileIsEmpty,
                                  CyclesAreCollisions, Loaded

\* Whoever is mapped finds all canonical names claimed.
LEMMA MapAliasesKeeps == ASSUME IInv, MapAliases PROVE IInv'
<1>1. PICK g \in pending :
          /\ pending' = pending \ {g}
          /\ LET taken == {a \in g.aliases : Claimed(a, g)}
                 new   == g.aliases \ taken
             IN /\ phrases' = [p \in DOMAIN phrases \cup new |->
                                  IF p \in new THEN g.canonical ELSE phrases[p]]
                /\ report' = AddErrors(report, IF taken = {} THEN {} ELSE {"collision"})
    BY DEF MapAliases
<1>2. /\ pc = "map" /\ pc' = "map" /\ groups' = groups /\ dictionary' = dictionary
    BY DEF MapAliases, parsing
<1> DEFINE taken == {a \in g.aliases : Claimed(a, g)}
           es == IF taken = {} THEN {} ELSE {"collision"}
<1>3. report' = AddErrors(report, es)
    BY <1>1
<1>4. DOMAIN phrases \subseteq DOMAIN phrases'
    BY <1>1
<1>5. es \in SUBSET Errors /\ "cycle" \notin es /\ (taken # {} => "collision" \in es)
    BY DEF Errors
<1>6. \A a \in g.aliases : Claimed(a, g) => taken # {}
    OBVIOUS
<1> HIDE DEF taken, es
<1>7. report \in Report
    BY DEF IInv, ReadTypes
<1>8. /\ report' \in Report
      /\ report'.file_present = report.file_present /\ report'.usable = report.usable
      /\ report'.concepts_loaded = report.concepts_loaded
      /\ report'.diagnostics = report.diagnostics \cup es
    BY <1>3, <1>5, <1>7, AddErrorsType
<1>9. ReadTypes'
    BY <1>2, <1>8 DEF IInv, ReadTypes
<1>10. NothingPublished'
    BY <1>2, <1>5, <1>8 DEF IInv, NothingPublished
<1>11. Canonicals' = Canonicals
    BY <1>2 DEF Canonicals
<1>12. NamesClaimedFirst'
  <2>1. Canonicals \subseteq DOMAIN phrases /\ pending \subseteq ToSet(groups)
      BY <1>2 DEF IInv, NamesClaimedFirst
  <2>2. ASSUME NEW h \in ToSet(groups) \ pending', ClaimsName(h)
        PROVE  "collision" \in report'.diagnostics
    <3>1. CASE h \notin pending
      <4>1. "collision" \in report.diagnostics
          BY <2>2, <3>1, <1>2 DEF IInv, NamesClaimedFirst
      <4> QED
          BY <4>1, <1>8
    <3>2. CASE h \in pending
      <4>1. h = g
          BY <3>2, <1>1
      <4>2. PICK a \in g.aliases : a \in Canonicals /\ a # g.canonical
          BY <2>2, <4>1 DEF ClaimsName
      <4>3. Claimed(a, g)
          BY <4>2, <2>1 DEF Claimed
      <4>4. "collision" \in es
          BY <4>2, <4>3, <1>5, <1>6
      <4> QED
          BY <4>4, <1>8
    <3> QED
        BY <3>1, <3>2
  <2>3. pending' \subseteq ToSet(groups)
      BY <1>1, <2>1
  <2>4. \A h : ClaimsName(h)' <=> ClaimsName(h)
      BY <1>11 DEF ClaimsName
  <2>5. \A h \in ToSet(groups) \ pending' : ClaimsName(h) => "collision" \in report'.diagnostics
      BY <2>2
  <2> QED
      BY <1>2, <1>4, <1>11, <2>1, <2>3, <2>4, <2>5 DEF NamesClaimedFirst
<1> QED
    BY <1>2, <1>9, <1>10, <1>12 DEF IInv, HonestAtReturn, RejectedFileIsEmpty,
                                    CyclesAreCollisions, Loaded

\* Every group is mapped: one on a ring of aliases has met a name.
LEMMA CycleIsCollision ==
    ASSUME IInv, pc = "map", pending = {}, HasCycle
    PROVE  "collision" \in report.diagnostics
<1>1. PICK ring \in (SUBSET Canonicals) \ {{}} : \A c \in ring : \E d \in ring : LeadsTo(c, d)
    BY DEF HasCycle
<1>2. PICK c \in ring, d \in ring : LeadsTo(c, d)
  <2>1. PICK c \in ring : TRUE
      BY <1>1
  <2>2. PICK d \in ring : LeadsTo(c, d)
      BY <1>1
  <2> QED
      BY <2>2
<1>3. PICK i \in DOMAIN groups :
          groups[i].canonical = c /\ d # c /\ d \in groups[i].aliases
    BY <1>2 DEF LeadsTo
<1>4. ClaimsName(groups[i])
  <2>1. d \in Canonicals
      BY <1>1
  <2> QED
      BY <2>1, <1>3 DEF ClaimsName
<1>5. groups[i] \in ToSet(groups)
    BY <1>3 DEF ToSet
<1> QED
    BY <1>4, <1>5 DEF IInv, NamesClaimedFirst

LEMMA FinishKeeps == ASSUME IInv, Finish PROVE IInv'
<1> DEFINE r == WithCycle(report)
<1>1. pc = "map" /\ pending = {} /\ pc' = "done" /\ groups' = groups
    BY DEF Finish, parsing
<1>2. report \in Report /\ groups \in Seq(Group) /\ Len(groups) \in Nat
    BY DEF IInv, ReadTypes
<1>3. /\ dictionary = NoPhrases /\ report.file_present /\ report.usable
      /\ report.concepts_loaded = 0 /\ "cycle" \notin report.diagnostics
    BY <1>1 DEF IInv, NothingPublished
<1>4. /\ r \in Report /\ r.file_present /\ r.usable
      /\ report.diagnostics \subseteq r.diagnostics
      /\ "cycle" \in r.diagnostics => HasCycle
  <2>1. CASE HasCycle
    <3>1. r = AddErrors(report, {"cycle"}) /\ {"cycle"} \in SUBSET Errors
        BY <2>1 DEF WithCycle, Errors
    <3> HIDE DEF r
    <3> QED
        BY <3>1, <2>1, <1>2, <1>3, AddErrorsType
  <2>2. CASE ~HasCycle
    <3>1. r = report
        BY <2>2 DEF WithCycle
    <3> HIDE DEF r
    <3> QED
        BY <3>1, <1>2, <1>3
  <2> QED
      BY <2>1, <2>2
<1>5. HasCycle => "collision" \in report.diagnostics
    BY <1>1, CycleIsCollision
<1>6. IF Publishes(r)
      THEN /\ dictionary' = phrases
           /\ report' = [r EXCEPT !.usable = TRUE, !.concepts_loaded = Len(groups)]
      ELSE /\ report' = [r EXCEPT !.usable = FALSE, !.concepts_loaded = 0]
           /\ UNCHANGED dictionary
    BY DEF Finish
<1> HIDE DEF r
<1>7. CASE Publishes(r)
  <2>1. report' = [r EXCEPT !.usable = TRUE, !.concepts_loaded = Len(groups)]
      BY <1>6, <1>7
  <2>2. /\ report' \in Report /\ report'.usable /\ report'.file_present
        /\ report'.diagnostics = r.diagnostics
      BY <2>1, <1>2, <1>4 DEF Report
  <2>3. report'.diagnostics = {}
      BY <2>2, <1>7 DEF Publishes
  <2> QED
      BY <1>1, <1>2, <2>2, <2>3
         DEF IInv, ReadTypes, NothingPublished, NamesClaimedFirst, HonestAtReturn,
             RejectedFileIsEmpty, CyclesAreCollisions, HonestConcepts, Loaded
<1>8. CASE ~Publishes(r)
  <2>1. report' = [r EXCEPT !.usable = FALSE, !.concepts_loaded = 0] /\ dictionary' = NoPhrases
      BY <1>3, <1>6, <1>8
  <2>2. /\ report' \in Report /\ ~report'.usable /\ report'.concepts_loaded = 0
        /\ report'.diagnostics = r.diagnostics
      BY <2>1, <1>4 DEF Report
  <2>3. report'.diagnostics # {}
      BY <2>2, <1>8 DEF Publishes
  <2>4. "cycle" \in report'.diagnostics => "collision" \in report'.diagnostics
      BY <2>2, <1>4, <1>5
  <2> QED
      BY <1>1, <1>2, <2>1, <2>2, <2>3, <2>4
         DEF IInv, ReadTypes, NothingPublished, NamesClaimedFirst, HonestAtReturn,
             RejectedFileIsEmpty, CyclesAreCollisions, HonestConcepts, Loaded
<1> QED
    BY <1>7, <1>8

\* Looking for phrases in a text leaves the dictionary and its report alone.
LEMMA DetectKeeps ==
    ASSUME IInv, UNCHANGED <<groups, report, dictionary>>,
           Loaded, pc' \in {"done", "detect"}
    PROVE  IInv'
    BY DEF IInv, ReadTypes, NothingPublished, NamesClaimedFirst, HonestAtReturn,
           RejectedFileIsEmpty, CyclesAreCollisions, Loaded

LEMMA InvariantNext == IInv /\ [Next]_vars => IInv'
<1> SUFFICES ASSUME IInv, [Next]_vars PROVE IInv'
    OBVIOUS
<1>1. CASE Begin
    BY <1>1, BeginKeeps
<1>2. CASE ParseGroup
    BY <1>2, ParseGroupKeeps
<1>3. CASE EndParse
    BY <1>3, EndParseKeeps
<1>4. CASE MapAliases
    BY <1>4, MapAliasesKeeps
<1>5. CASE Finish
    BY <1>5, FinishKeeps
<1>6. CASE Ask
    BY <1>6, DetectKeeps DEF Ask, parsing, Loaded
<1>7. CASE Match
    BY <1>7, DetectKeeps DEF Match, parsing, Loaded
<1>8. CASE Advance
    BY <1>8, DetectKeeps DEF Advance, parsing, Loaded
<1>9. CASE Answer
    BY <1>9, DetectKeeps DEF Answer, parsing, Loaded
<1>10. CASE UNCHANGED vars
  <2>1. UNCHANGED <<pc, file, position, groups, pending, phrases, dictionary, report>>
      BY <1>10 DEF vars, parsing, mapping
  <2> QED
      BY <2>1 DEF IInv, ReadTypes, NothingPublished, NamesClaimedFirst, HonestAtReturn,
                  RejectedFileIsEmpty, CyclesAreCollisions, Loaded, ClaimsName, Canonicals
<1> QED
    BY <1>1, <1>2, <1>3, <1>4, <1>5, <1>6, <1>7, <1>8, <1>9, <1>10 DEF Next, Work

-----------------------------------------------------------------------------
(* The theorems.                                                           *)

THEOREM Invariant == Spec => []IInv
<1> QED
    BY InvariantInit, InvariantNext, PTL DEF Spec

\* A rejected or missing file leaves no phrase in the dictionary, whatever the
\* loads before have put there.
THEOREM RejectedFilesAreEmpty == Spec => []RejectedFileIsEmpty
<1>1. IInv => RejectedFileIsEmpty
    BY DEF IInv
<1> QED
    BY <1>1, Invariant, PTL

\* detectCycles never rejects a file that the alias map accepts: every cycle
\* runs through a name that another group has taken as an alias.
THEOREM CyclesNeverDecide == Spec => []CyclesAreCollisions
<1>1. IInv => CyclesAreCollisions
    BY DEF IInv
<1> QED
    BY <1>1, Invariant, PTL


-----------------------------------------------------------------------------
(* What a file is accepted for.  As long as nothing is wrong, the groups   *)
(* are the members parsed so far, and the phrases belong to the groups     *)
(* mapped so far; a well-formed file never gives a reason to complain.     *)

OfPhrases(map) == DOMAIN map \subseteq PhraseIds /\ \A p \in DOMAIN map : map[p] \in PhraseIds

ItemGood(item) ==
    /\ item.name \in PhraseIds /\ item.sequence
    /\ ToSet(item.aliases) \subseteq PhraseIds /\ IsInjective(item.aliases)

ReadWell(n) ==
    /\ file.keys = 1 /\ Len(groups) = n
    /\ \A i \in 1..n :
        /\ ItemGood(file.items[i])
        /\ groups[i].canonical = file.items[i].name
        /\ groups[i].aliases = ToSet(file.items[i].aliases)
    /\ \A i, j \in 1..n : file.items[i].name = file.items[j].name => i = j

Parsing ==
    pc = "parse" =>
        /\ position <= Len(file.items)
        /\ \A c \in names : \E i \in 1..position : c = file.items[i].name
        /\ report.diagnostics = {} =>
            ReadWell(position) /\ \A i \in 1..position : file.items[i].name \in names
Reading ==
    pc \in {"parse", "map"} =>
        /\ file \in Contents /\ file.state = "read"
        /\ WellFormed(file) => report.diagnostics = {}
Mapping ==
    pc = "map" /\ report.diagnostics = {} =>
        /\ ReadWell(Len(file.items))
        /\ DOMAIN phrases = Canonicals \cup UNION {g.aliases : g \in ToSet(groups) \ pending}
        /\ \A g \in ToSet(groups) : phrases[g.canonical] = g.canonical
        /\ \A g \in ToSet(groups) \ pending : \A a \in g.aliases : phrases[a] = g.canonical

Accepting == /\ OfPhrases(phrases) /\ OfPhrases(dictionary)
             /\ Parsing /\ Reading /\ Mapping /\ AcceptsWellFormed

-----------------------------------------------------------------------------
(* Members of a file.                                                      *)

LEMMA AliasesRead ==
    ASSUME NEW item \in Item
    PROVE  /\ AliasErrors(item.aliases) = {} <=>
                ToSet(item.aliases) \subseteq PhraseIds /\ IsInjective(item.aliases)
           /\ AliasErrors(item.aliases) = {} => GoodAliases(item.aliases) = ToSet(item.aliases)
<1> DEFINE as == item.aliases
<1>1. as \in Seq(PhraseIds \cup {Empty, NotScalar})
    BY DEF Item
<1>2. Empty \notin PhraseIds /\ NotScalar \notin PhraseIds
    BY PhrasesAssumption DEF Empty, NotScalar
<1>3. ToSet(as) \subseteq PhraseIds \cup {Empty, NotScalar} /\ \A i \in DOMAIN as : as[i] \in ToSet(as)
    BY <1>1 DEF ToSet
<1> HIDE DEF as
<1>4. AliasErrors(as) = {} <=>
        /\ {NotScalar, Empty} \cap ToSet(as) = {}
        /\ ~\E i, j \in DOMAIN as : i # j /\ as[i] = as[j] /\ as[i] \in GoodAliases(as)
    BY DEF AliasErrors
<1>5. {NotScalar, Empty} \cap ToSet(as) = {} <=> ToSet(as) \subseteq PhraseIds
    BY <1>2, <1>3
<1>6. {NotScalar, Empty} \cap ToSet(as) = {} => GoodAliases(as) = ToSet(as)
    BY DEF GoodAliases
<1>7. AliasErrors(as) = {} <=> ToSet(as) \subseteq PhraseIds /\ IsInjective(as)
    BY <1>3, <1>4, <1>5, <1>6 DEF IsInjective
<1> QED
    BY <1>4, <1>6, <1>7 DEF as

LEMMA WellFormedItems ==
    ASSUME NEW f, WellFormed(f), NEW i \in DOMAIN f.items
    PROVE  /\ ItemGood(f.items[i])
           /\ \A j \in DOMAIN f.items \ {i} :
                /\ f.items[i].name # f.items[j].name
                /\ f.items[i].name \notin ToSet(f.items[j].aliases)
                /\ ToSet(f.items[i].aliases) \cap ToSet(f.items[j].aliases) = {}
    BY DEF WellFormed, ItemGood, GroupPhrases

-----------------------------------------------------------------------------
(* The steps, for what is accepted.                                        *)

LEMMA AcceptingInit == Init => Accepting
<1> SUFFICES ASSUME Init PROVE Accepting
    OBVIOUS
<1>1. OfPhrases(NoPhrases)
    BY DEF OfPhrases, NoPhrases
<1> QED
    BY <1>1 DEF Init, Accepting, Parsing, Reading, Mapping, AcceptsWellFormed, Loaded

LEMMA AcceptingBegin == ASSUME IInv, Accepting, Begin PROVE Accepting'
<1>1. PICK f \in Contents :
          /\ file' = f /\ report' = FileReport(f)
          /\ pc' = IF f.state = "read" THEN "parse" ELSE "done"
    BY DEF Begin
<1>2. /\ groups' = <<>> /\ position' = 0 /\ names' = {}
      /\ dictionary' = NoPhrases /\ phrases' = NoPhrases
    BY DEF Begin, ClearDictionary
<1>3. OfPhrases(NoPhrases)
    BY DEF OfPhrases, NoPhrases
<1>4. OfPhrases(phrases)' /\ OfPhrases(dictionary)'
    BY <1>2, <1>3
<1>5. CASE f.state # "read"
  <2>1. pc' = "done"
      BY <1>1, <1>5
  <2> QED
      BY <1>1, <1>4, <1>5, <2>1 DEF Accepting, Parsing, Reading, Mapping, AcceptsWellFormed
<1>6. CASE f.state = "read"
  <2>1. pc' = "parse"
      BY <1>1, <1>6
  <2>2. f.keys \in Nat \ {0} /\ Len(f.items) \in Nat
      BY <1>6, ContentsAssumption, ItemsOfFile
  <2>3. report'.diagnostics = {} <=> f.keys = 1
    <3> DEFINE present  == [FreshReport EXCEPT !.file_present = TRUE]
               repeated == IF f.keys > 1 THEN {"duplicate_root"} ELSE {}
    <3>1. report' = AddErrors(present, repeated)
        BY <1>1, <1>6 DEF FileReport
    <3>2. AddErrors(present, repeated).diagnostics = present.diagnostics \cup repeated
        BY DEF AddErrors, FreshReport
    <3>3. present.diagnostics = {}
        BY DEF FreshReport
    <3>4. repeated = {} <=> f.keys = 1
        BY <2>2
    <3> HIDE DEF present, repeated
    <3> QED
        BY <3>1, <3>2, <3>3, <3>4
  <2>4. WellFormed(f) => f.keys = 1
      BY DEF WellFormed
  <2>5. Reading'
      BY <1>1, <1>6, <2>3, <2>4 DEF Reading
  <2>6. f.keys = 1 => ReadWell(0)'
    <3>1. ASSUME f.keys = 1 PROVE ReadWell(0)'
      <4>1. file'.keys = 1 /\ Len(groups') = 0
          BY <1>1, <1>2, <3>1
      <4>2. 1..0 = {}
          OBVIOUS
      <4> QED
          BY <4>1, <4>2 DEF ReadWell
    <3> QED
        BY <3>1
  <2>7. Parsing'
    <3>1. 1..0 = {}
        OBVIOUS
    <3> QED
        BY <1>1, <1>2, <2>1, <2>2, <2>3, <2>6, <3>1 DEF Parsing
  <2> QED
      BY <1>4, <2>1, <2>5, <2>7 DEF Accepting, Mapping, AcceptsWellFormed, Loaded
<1> QED
    BY <1>5, <1>6

LEMMA AcceptingParseGroup == ASSUME IInv, Accepting, ParseGroup PROVE Accepting'
<1> DEFINE n == position + 1
           item == file.items[n]
           group == [canonical |-> item.name, aliases |-> GoodAliases(item.aliases)]
<1>1. /\ pc = "parse" /\ pc' = "parse" /\ position' = n /\ position < Len(file.items)
      /\ UNCHANGED <<file, pending, phrases, dictionary>>
    BY DEF ParseGroup, mapping
<1>2. /\ file \in Contents /\ file.state = "read" /\ position \in Nat /\ report \in Report
      /\ groups \in Seq(Group) /\ (WellFormed(file) => report.diagnostics = {})
    BY <1>1 DEF IInv, ReadTypes, Accepting, Reading
<1>3. n \in DOMAIN file.items /\ item \in Item /\ n \in 1..Len(file.items)
      /\ DOMAIN file.items = 1..Len(file.items) /\ Len(file.items) \in Nat
    BY <1>1, <1>2, ItemsOfFile
<1>4. /\ \A c \in names : \E i \in 1..position : c = file.items[i].name
      /\ report.diagnostics = {} =>
            ReadWell(position) /\ \A i \in 1..position : file.items[i].name \in names
    BY <1>1 DEF Accepting, Parsing
<1>5. IF NoName(item.name)
      THEN report' = AddErrors(report, {"name"}) /\ groups' = groups /\ names' = names
      ELSE IF item.name \in names
      THEN report' = AddErrors(report, {"duplicate_name"}) /\ groups' = groups /\ names' = names
      ELSE /\ names' = names \cup {item.name}
           /\ IF ~item.sequence
              THEN report' = AddErrors(report, {"aliases"}) /\ groups' = groups
              ELSE /\ groups' = Append(groups, group)
                   /\ report' = AddErrors(report, AliasErrors(item.aliases))
    BY DEF ParseGroup
<1>6. \A i \in 1..n : i \in 1..position \/ i = n
    BY <1>2
<1>7. 1..position \subseteq 1..n /\ n \in 1..n /\ n \notin 1..position
    BY <1>2
<1>8. \A es \in SUBSET Errors : AddErrors(report, es).diagnostics = report.diagnostics \cup es
    BY <1>2, AddErrorsType
<1>9. WellFormed(file) =>
        /\ ItemGood(item)
        /\ \A i \in 1..position : item.name # file.items[i].name
  <2>1. \A i \in 1..position : i \in DOMAIN file.items \ {n}
      BY <1>1, <1>2, <1>3
  <2> QED
      BY <1>3, <2>1, WellFormedItems
<1> HIDE DEF item, n
<1>10. \A c \in names' : \E i \in 1..n : c = file.items[i].name
    BY <1>4, <1>5, <1>7 DEF item
<1>11. AliasErrors(item.aliases) \in SUBSET Errors
    BY DEF AliasErrors, Errors
<1>17. OfPhrases(phrases)' /\ OfPhrases(dictionary)'
    BY <1>1 DEF Accepting, OfPhrases
\* One that is left out is an error, and the file is not well formed.
<1>12. ASSUME report'.diagnostics # {}, ~WellFormed(file)
       PROVE  Accepting'
  <2>1. Parsing' /\ Reading'
      BY <1>1, <1>2, <1>3, <1>10, <1>12 DEF Parsing, Reading
  <2> QED
      BY <1>1, <1>17, <2>1 DEF Accepting, Mapping, AcceptsWellFormed, Loaded
<1>13. CASE NoName(item.name)
  <2>1. {"name"} \in SUBSET Errors /\ report' = AddErrors(report, {"name"})
      BY <1>5, <1>13 DEF Errors
  <2>2. report'.diagnostics # {}
      BY <1>8, <2>1
  <2>3. ~ItemGood(item)
      BY <1>13, PhrasesAssumption DEF NoName, ItemGood, Empty, NotScalar
  <2> QED
      BY <1>9, <1>12, <2>2, <2>3
<1>14. CASE ~NoName(item.name) /\ item.name \in names
  <2>1. {"duplicate_name"} \in SUBSET Errors /\ report' = AddErrors(report, {"duplicate_name"})
      BY <1>5, <1>14 DEF Errors
  <2>2. report'.diagnostics # {}
      BY <1>8, <2>1
  <2> QED
      BY <1>4, <1>9, <1>12, <1>14, <2>2
<1>15. CASE ~NoName(item.name) /\ item.name \notin names /\ ~item.sequence
  <2>1. {"aliases"} \in SUBSET Errors /\ report' = AddErrors(report, {"aliases"})
      BY <1>5, <1>15 DEF Errors
  <2>2. report'.diagnostics # {}
      BY <1>8, <2>1
  <2> QED
      BY <1>9, <1>12, <1>15, <2>2 DEF ItemGood
<1>16. CASE ~NoName(item.name) /\ item.name \notin names /\ item.sequence
  <2>1. /\ names' = names \cup {item.name} /\ groups' = Append(groups, group)
        /\ report' = AddErrors(report, AliasErrors(item.aliases))
      BY <1>5, <1>16
  <2>2. report'.diagnostics = report.diagnostics \cup AliasErrors(item.aliases)
      BY <1>8, <1>11, <2>1
  <2>3. AliasErrors(item.aliases) = {} <=> ItemGood(item)
    <3>1. item.name \in PhraseIds
        BY <1>3, <1>16 DEF NoName, Item
    <3> QED
        BY <1>3, <1>16, <3>1, AliasesRead DEF ItemGood
  <2>4. Reading'
      BY <1>1, <1>2, <1>9, <2>2, <2>3 DEF Reading
  <2>5. ASSUME report'.diagnostics = {}
        PROVE  ReadWell(position)' /\ \A i \in 1..n : file.items[i].name \in names'
    <3>1. report.diagnostics = {} /\ AliasErrors(item.aliases) = {}
        BY <2>2, <2>5
    <3>2. ReadWell(position) /\ \A i \in 1..position : file.items[i].name \in names
        BY <1>4, <3>1
    <3>3. group.canonical = item.name /\ group.aliases = ToSet(item.aliases)
        BY <1>3, <3>1, AliasesRead
    <3> HIDE DEF group
    <3>4. Len(groups) = position
        BY <3>2 DEF ReadWell
    <3>5. /\ Len(groups') = n /\ groups'[n] = group
          /\ \A i \in 1..position : groups'[i] = groups[i]
        BY <1>2, <2>1, <3>4 DEF n
    <3>6. \A i \in 1..n :
              /\ ItemGood(file.items[i])
              /\ groups'[i].canonical = file.items[i].name
              /\ groups'[i].aliases = ToSet(file.items[i].aliases)
        BY <1>6, <2>3, <3>1, <3>2, <3>3, <3>5 DEF ReadWell, item
    <3>7. \A i \in 1..position : file.items[i].name # item.name
        BY <1>16, <3>2
    <3>8. \A i, j \in 1..n : file.items[i].name = file.items[j].name => i = j
        BY <1>6, <3>2, <3>7 DEF ReadWell, item
    <3>9. \A i \in 1..n : file.items[i].name \in names'
        BY <1>6, <2>1, <3>2 DEF item
    <3>10. file.keys = 1
        BY <3>2 DEF ReadWell
    <3> QED
        BY <1>1, <3>5, <3>6, <3>8, <3>9, <3>10 DEF ReadWell
  <2>6. Parsing'
      BY <1>1, <1>3, <1>10, <2>5 DEF Parsing
  <2> QED
      BY <1>1, <1>17, <2>4, <2>6 DEF Accepting, Mapping, AcceptsWellFormed, Loaded
<1> QED
    BY <1>13, <1>14, <1>15, <1>16

LEMMA AcceptingEndParse == ASSUME IInv, Accepting, EndParse PROVE Accepting'
<1>1. /\ pc = "parse" /\ pc' = "map" /\ pending' = ToSet(groups)
      /\ position = Len(file.items) /\ phrases' = [c \in Canonicals |-> c]
      /\ UNCHANGED <<file, groups, dictionary, report>>
    BY DEF EndParse, parsing
<1>2. groups \in Seq(Group)
    BY DEF IInv, ReadTypes
<1>3. Canonicals \subseteq PhraseIds
  <2>1. \A i \in DOMAIN groups : groups[i].canonical \in PhraseIds
    <3>1. \A i \in DOMAIN groups : groups[i] \in Group
        BY <1>2
    <3> QED
        BY <3>1 DEF Group
  <2> QED
      BY <2>1 DEF Canonicals
<1>4. OfPhrases(phrases)' /\ OfPhrases(dictionary)'
    BY <1>1, <1>3 DEF Accepting, OfPhrases
<1>5. Canonicals' = Canonicals
    BY <1>1 DEF Canonicals
<1>6. \A g \in ToSet(groups) : g.canonical \in Canonicals
    BY DEF Canonicals, ToSet
<1>7. report.diagnostics = {} => ReadWell(Len(file.items))
    BY <1>1 DEF Accepting, Parsing
<1>8. \A n : ReadWell(n)' <=> ReadWell(n)
    BY <1>1 DEF ReadWell
<1>9. Mapping'
  <2>1. ToSet(groups') = ToSet(groups) /\ ToSet(groups') \ pending' = {}
      BY <1>1
  <2>2. DOMAIN phrases' = Canonicals
      BY <1>1
  <2>3. ReadWell(Len(file.items))' <=> ReadWell(Len(file.items))
      BY <1>1 DEF ReadWell
  <2> QED
      BY <1>1, <1>5, <1>6, <1>7, <2>1, <2>2, <2>3 DEF Mapping
<1>10. Reading'
    BY <1>1 DEF Accepting, Reading
<1> QED
    BY <1>1, <1>4, <1>9, <1>10 DEF Accepting, Parsing, AcceptsWellFormed, Loaded

\* When all was well, the groups are the members of the file.
LEMMA GroupsOfFile ==
    ASSUME IInv, file \in Contents, ReadWell(Len(file.items))
    PROVE  /\ DOMAIN groups = DOMAIN file.items
           /\ \A i \in DOMAIN file.items :
                /\ groups[i] \in ToSet(groups)
                /\ groups[i].canonical = file.items[i].name
                /\ groups[i].aliases = ToSet(file.items[i].aliases)
           /\ \A g \in ToSet(groups) : \E i \in DOMAIN file.items : g = groups[i]
<1>1. groups \in Seq(Group) /\ DOMAIN file.items = 1..Len(file.items)
    BY ItemsOfFile DEF IInv, ReadTypes
<1>2. DOMAIN groups = DOMAIN file.items
    BY <1>1 DEF ReadWell
<1> QED
    BY <1>1, <1>2 DEF ReadWell, ToSet

LEMMA AcceptingMapAliases == ASSUME IInv, Accepting, MapAliases PROVE Accepting'
<1>1. PICK g \in pending :
          /\ pending' = pending \ {g}
          /\ LET taken == {a \in g.aliases : Claimed(a, g)}
                 new   == g.aliases \ taken
             IN /\ phrases' = [p \in DOMAIN phrases \cup new |->
                                  IF p \in new THEN g.canonical ELSE phrases[p]]
                /\ report' = AddErrors(report, IF taken = {} THEN {} ELSE {"collision"})
    BY DEF MapAliases
<1>2. /\ pc = "map" /\ pc' = "map"
      /\ UNCHANGED <<file, groups, dictionary>>
    BY DEF MapAliases, parsing
<1> DEFINE taken == {a \in g.aliases : Claimed(a, g)}
           new == g.aliases \ taken
           es == IF taken = {} THEN {} ELSE {"collision"}
<1>3. /\ DOMAIN phrases' = DOMAIN phrases \cup new
      /\ \A p \in DOMAIN phrases' : phrases'[p] = IF p \in new THEN g.canonical ELSE phrases[p]
      /\ report' = AddErrors(report, es)
    BY <1>1
<1>4. groups \in Seq(Group) /\ pending \subseteq ToSet(groups) /\ report \in Report
    BY <1>2 DEF IInv, ReadTypes, NamesClaimedFirst
<1>5. g \in ToSet(groups) /\ g.canonical \in PhraseIds /\ g.aliases \subseteq PhraseIds
  <2>1. g \in Group
      BY <1>1, <1>4 DEF ToSet
  <2> QED
      BY <1>1, <1>4, <2>1 DEF Group
<1>6. OfPhrases(phrases)'
    BY <1>3, <1>5 DEF Accepting, OfPhrases
<1>7. es \in SUBSET Errors /\ (es = {} <=> taken = {})
    BY DEF Errors
<1>8. report'.diagnostics = report.diagnostics \cup es
  <2> HIDE DEF es, taken, new
  <2> QED
      BY <1>3, <1>4, <1>7, AddErrorsType
<1>9. file \in Contents /\ file.state = "read" /\ (WellFormed(file) => report.diagnostics = {})
    BY <1>2 DEF Accepting, Reading
<1>10. \A a : a \in taken <=> a \in g.aliases /\ a \in DOMAIN phrases /\ a # g.canonical
    BY DEF Claimed
<1>11. taken = {} => new = g.aliases
    OBVIOUS
<1> HIDE DEF taken, new, es
<1>12. ASSUME report.diagnostics = {}
       PROVE  /\ ReadWell(Len(file.items))
              /\ DOMAIN phrases = Canonicals \cup UNION {h.aliases : h \in ToSet(groups) \ pending}
              /\ \A h \in ToSet(groups) : phrases[h.canonical] = h.canonical
              /\ \A h \in ToSet(groups) \ pending : \A a \in h.aliases : phrases[a] = h.canonical
    BY <1>2, <1>12 DEF Accepting, Mapping
\* Nobody takes a phrase of a well-formed file from another group.
<1>13. WellFormed(file) => taken = {}
  <2> SUFFICES ASSUME WellFormed(file), NEW a \in taken PROVE FALSE
      OBVIOUS
  <2>1. report.diagnostics = {}
      BY <1>9
  <2>2. ReadWell(Len(file.items))
        /\ DOMAIN phrases = Canonicals \cup UNION {h.aliases : h \in ToSet(groups) \ pending}
      BY <1>12, <2>1
  <2>3. a \in g.aliases /\ a \in DOMAIN phrases /\ a # g.canonical
      BY <1>10
  <2>4. PICK i \in DOMAIN file.items : g = groups[i]
      BY <1>5, <1>9, <2>2, GroupsOfFile
  <2>5. /\ g.canonical = file.items[i].name /\ a \in ToSet(file.items[i].aliases)
        /\ DOMAIN groups = DOMAIN file.items
      BY <1>9, <2>2, <2>3, <2>4, GroupsOfFile
  <2>6. CASE a \in Canonicals
    <3>1. PICK j \in DOMAIN groups : a = groups[j].canonical
        BY <2>6 DEF Canonicals
    <3>2. j \in DOMAIN file.items /\ a = file.items[j].name
        BY <1>9, <2>2, <2>5, <3>1, GroupsOfFile
    <3>3. j # i
        BY <2>3, <2>5, <3>2
    <3> QED
        BY <2>5, <3>2, <3>3, WellFormedItems
  <2>7. CASE a \in UNION {h.aliases : h \in ToSet(groups) \ pending}
    <3>1. PICK h \in ToSet(groups) \ pending : a \in h.aliases
        BY <2>7
    <3>2. PICK j \in DOMAIN file.items : h = groups[j]
        BY <1>9, <2>2, <3>1, GroupsOfFile
    <3>3. j # i /\ a \in ToSet(file.items[j].aliases)
        BY <1>1, <1>9, <2>2, <2>4, <3>1, <3>2, GroupsOfFile
    <3> QED
        BY <2>5, <3>3, WellFormedItems
  <2> QED
      BY <2>2, <2>3, <2>6, <2>7
<1>14. Reading'
    BY <1>2, <1>7, <1>8, <1>9, <1>13 DEF Reading
<1>15. Mapping'
  <2> SUFFICES ASSUME report'.diagnostics = {}
               PROVE  /\ ReadWell(Len(file.items))'
                      /\ DOMAIN phrases' = Canonicals' \cup
                            UNION {h.aliases : h \in ToSet(groups') \ pending'}
                      /\ \A h \in ToSet(groups') : phrases'[h.canonical] = h.canonical
                      /\ \A h \in ToSet(groups') \ pending' :
                            \A a \in h.aliases : phrases'[a] = h.canonical
      BY <1>2 DEF Mapping
  <2>1. report.diagnostics = {} /\ taken = {} /\ new = g.aliases
      BY <1>7, <1>8, <1>11
  <2>2. ReadWell(Len(file.items))'
    <3>1. ReadWell(Len(file.items))' <=> ReadWell(Len(file.items))
        BY <1>2 DEF ReadWell
    <3> QED
        BY <1>12, <2>1, <3>1
  <2>3. Canonicals' = Canonicals
      BY <1>2 DEF Canonicals
  <2>4. ToSet(groups') \ pending' = (ToSet(groups) \ pending) \cup {g}
      BY <1>1, <1>2, <1>5
  <2>5. DOMAIN phrases' = Canonicals' \cup UNION {h.aliases : h \in ToSet(groups') \ pending'}
      BY <1>3, <1>12, <2>1, <2>3, <2>4
  <2>6. \A a \in g.aliases : a \in DOMAIN phrases => a = g.canonical
      BY <1>10, <2>1
  <2>7. \A h \in ToSet(groups) : h.canonical \in DOMAIN phrases
      BY <1>12, <2>1 DEF Canonicals, ToSet
  <2>8. \A h \in ToSet(groups) : phrases'[h.canonical] = h.canonical
      BY <1>3, <1>12, <2>1, <2>6, <2>7
  <2>9. ASSUME NEW h \in ToSet(groups) \ pending', NEW a \in h.aliases
        PROVE  phrases'[a] = h.canonical
    <3>1. CASE h = g
        BY <1>3, <2>1, <2>9, <3>1
    <3>2. CASE h # g
      <4>1. h \in ToSet(groups) \ pending
          BY <1>1, <2>9, <3>2
      <4>2. a \in DOMAIN phrases /\ phrases[a] = h.canonical
          BY <1>12, <2>1, <4>1
      <4>3. a \in g.aliases => h.canonical = g.canonical
          BY <1>5, <1>12, <2>1, <2>6, <4>2
      <4> QED
          BY <1>3, <2>1, <4>2, <4>3
    <3> QED
        BY <3>1, <3>2
  <2> QED
      BY <1>2, <2>2, <2>5, <2>8, <2>9
<1> QED
    BY <1>2, <1>6, <1>14, <1>15 DEF Accepting, Parsing, AcceptsWellFormed, Loaded, OfPhrases

\* In the end the phrases tell the groups apart.
LEMMA MappedIsWellFormed ==
    ASSUME IInv, Accepting, pc = "map", pending = {}, report.diagnostics = {}
    PROVE  /\ WellFormed(file)
           /\ \A i \in DOMAIN file.items : \A p \in GroupPhrases(file.items[i]) :
                p \in DOMAIN phrases /\ phrases[p] = file.items[i].name
<1>1. /\ ReadWell(Len(file.items))
      /\ DOMAIN phrases = Canonicals \cup UNION {h.aliases : h \in ToSet(groups)}
      /\ \A h \in ToSet(groups) : phrases[h.canonical] = h.canonical
      /\ \A h \in ToSet(groups) : \A a \in h.aliases : phrases[a] = h.canonical
    BY DEF Accepting, Mapping
<1>2. file \in Contents /\ DOMAIN file.items = 1..Len(file.items)
  <2>1. file \in Contents
      BY DEF Accepting, Reading
  <2> QED
      BY <2>1, ItemsOfFile
<1>3. ASSUME NEW i \in DOMAIN file.items, NEW p \in GroupPhrases(file.items[i])
      PROVE  p \in DOMAIN phrases /\ phrases[p] = file.items[i].name
  <2>1. /\ groups[i] \in ToSet(groups) /\ i \in DOMAIN groups
        /\ p = groups[i].canonical \/ p \in groups[i].aliases
        /\ groups[i].canonical = file.items[i].name
      BY <1>1, <1>2, GroupsOfFile DEF GroupPhrases
  <2>2. groups[i].canonical \in Canonicals
      BY <2>1 DEF Canonicals
  <2> QED
      BY <1>1, <2>1, <2>2
<1>4. \A i, j \in DOMAIN file.items : file.items[i].name = file.items[j].name => i = j
    BY <1>1, <1>2 DEF ReadWell
<1>5. \A i \in DOMAIN file.items : ItemGood(file.items[i])
    BY <1>1, <1>2 DEF ReadWell
<1>6. file.keys = 1
    BY <1>1 DEF ReadWell
<1>7. \A i \in DOMAIN file.items : \A j \in DOMAIN file.items \ {i} :
          GroupPhrases(file.items[i]) \cap GroupPhrases(file.items[j]) = {}
    BY <1>3, <1>4
<1>8. WellFormed(file)
    BY <1>5, <1>6, <1>7 DEF WellFormed, ItemGood
<1> QED
    BY <1>3, <1>8

LEMMA AcceptingFinish == ASSUME IInv, Accepting, Finish PROVE Accepting'
<1> DEFINE r == WithCycle(report)
<1>1. /\ pc = "map" /\ pending = {} /\ pc' = "done"
      /\ UNCHANGED <<file, phrases>>
    BY DEF Finish, parsing, mapping
<1>2. report \in Report /\ report.diagnostics \subseteq r.diagnostics
      /\ (report.diagnostics = {} => r = report)
  <2>1. report \in Report
      BY DEF IInv, ReadTypes
  <2>2. report.diagnostics = {} => r = report
      BY <1>1, CycleIsCollision DEF WithCycle
  <2>3. {"cycle"} \in SUBSET Errors
      BY DEF Errors
  <2>4. AddErrors(report, {"cycle"}).diagnostics = report.diagnostics \cup {"cycle"}
      BY <2>1, <2>3, AddErrorsType
  <2>5. report.diagnostics \subseteq r.diagnostics
      BY <2>4 DEF WithCycle
  <2> QED
      BY <2>1, <2>2, <2>5
<1>3. r \in Report
  <2>1. {"cycle"} \in SUBSET Errors
      BY DEF Errors
  <2> QED
      BY <1>2, <2>1, AddErrorsType DEF WithCycle
<1>4. IF Publishes(r)
      THEN /\ dictionary' = phrases
           /\ report' = [r EXCEPT !.usable = TRUE, !.concepts_loaded = Len(groups)]
      ELSE /\ report' = [r EXCEPT !.usable = FALSE, !.concepts_loaded = 0]
           /\ UNCHANGED dictionary
    BY DEF Finish
<1> HIDE DEF r
<1>5. report'.usable <=> report.diagnostics = {}
  <2>1. Publishes(r) <=> report.diagnostics = {}
      BY <1>2 DEF Publishes
  <2>2. Publishes(r) => report'.usable = TRUE
      BY <1>3, <1>4 DEF Report
  <2>3. ~Publishes(r) => report'.usable = FALSE
      BY <1>3, <1>4 DEF Report
  <2> QED
      BY <2>1, <2>2, <2>3
<1>6. report.diagnostics = {} => dictionary' = phrases
    BY <1>2, <1>4 DEF Publishes
<1>7. WellFormed(file) => report.diagnostics = {}
    BY <1>1 DEF Accepting, Reading
<1>8. AcceptsWellFormed'
    BY <1>1, <1>5, <1>6, <1>7, MappedIsWellFormed DEF AcceptsWellFormed
<1>9. OfPhrases(phrases)' /\ OfPhrases(dictionary)'
    BY <1>1, <1>4 DEF Accepting, OfPhrases
<1> QED
    BY <1>1, <1>8, <1>9 DEF Accepting, Parsing, Reading, Mapping

LEMMA AcceptingDetect ==
    ASSUME Accepting, UNCHANGED <<file, groups, names, position, pending, phrases,
                                  report, dictionary>>,
           Loaded, pc' \in {"done", "detect"}
    PROVE  Accepting'
    BY DEF Accepting, OfPhrases, Parsing, Reading, Mapping, AcceptsWellFormed, Loaded

LEMMA AcceptingNext == IInv /\ Accepting /\ [Next]_vars => Accepting'
<1> SUFFICES ASSUME IInv, Accepting, [Next]_vars PROVE Accepting'
    OBVIOUS
<1>1. CASE Begin
    BY <1>1, AcceptingBegin
<1>2. CASE ParseGroup
    BY <1>2, AcceptingParseGroup
<1>3. CASE EndParse
    BY <1>3, AcceptingEndParse
<1>4. CASE MapAliases
    BY <1>4, AcceptingMapAliases
<1>5. CASE Finish
    BY <1>5, AcceptingFinish
<1>6. CASE Ask
    BY <1>6, AcceptingDetect DEF Ask, parsing, mapping, Loaded
<1>7. CASE Match
    BY <1>7, AcceptingDetect DEF Match, parsing, mapping, Loaded
<1>8. CASE Advance
    BY <1>8, AcceptingDetect DEF Advance, parsing, mapping, Loaded
<1>9. CASE Answer
    BY <1>9, AcceptingDetect DEF Answer, parsing, mapping, Loaded
<1>10. CASE UNCHANGED vars
  <2>1. UNCHANGED <<pc, file, position, groups, names, pending, phrases, dictionary, report>>
      BY <1>10 DEF vars, parsing, mapping
  <2> QED
      BY <2>1 DEF Accepting, OfPhrases, Parsing, Reading, Mapping, AcceptsWellFormed, Loaded,
                  ReadWell, Canonicals
<1> QED
    BY <1>1, <1>2, <1>3, <1>4, <1>5, <1>6, <1>7, <1>8, <1>9, <1>10 DEF Next, Work

\* For every concepts file, whatever the order of its groups: load() accepts it
\* exactly when it is well formed, and then every phrase of every group means
\* that group.
THEOREM WellFormedFilesAreAccepted == Spec => []AcceptsWellFormed
<1>1. Spec => []Accepting
    BY Invariant, AcceptingInit, AcceptingNext, PTL DEF Spec
<1>2. Accepting => AcceptsWellFormed
    BY DEF Accepting
<1> QED
    BY <1>1, <1>2, PTL

-----------------------------------------------------------------------------
(* What the report counts: a file that is published has one group for each *)
(* canonical name, and its phrases mean no other.                          *)

Counted == Loaded => report.concepts_loaded = Cardinality(Range(dictionary))

LEMMA NothingToCount == Cardinality(Range(NoPhrases)) = 0
<1>1. Range(NoPhrases) = {}
    BY DEF Range, NoPhrases
<1> QED
    BY <1>1, FS_EmptySet

LEMMA GroupsAreConcepts ==
    ASSUME IInv, Accepting, pc = "map", pending = {}, report.diagnostics = {}
    PROVE  Len(groups) = Cardinality(Range(phrases))
<1>1. /\ ReadWell(Len(file.items)) /\ file \in Contents
      /\ DOMAIN phrases = Canonicals \cup UNION {h.aliases : h \in ToSet(groups)}
      /\ \A h \in ToSet(groups) : phrases[h.canonical] = h.canonical
      /\ \A h \in ToSet(groups) : \A a \in h.aliases : phrases[a] = h.canonical
    BY DEF Accepting, Mapping, Reading
<1>2. groups \in Seq(Group) /\ Len(groups) \in Nat /\ DOMAIN groups = 1..Len(groups)
    BY DEF IInv, ReadTypes
<1>3. \A i, j \in DOMAIN groups : groups[i].canonical = groups[j].canonical => i = j
    BY <1>1, GroupsOfFile, ItemsOfFile DEF ReadWell
<1>4. Canonicals = {h.canonical : h \in ToSet(groups)}
    BY <1>2 DEF Canonicals, ToSet
<1>5. Range(phrases) = Canonicals
  <2>1. \A c \in Canonicals : c \in DOMAIN phrases /\ phrases[c] = c
      BY <1>1, <1>4
  <2>2. \A p \in DOMAIN phrases : phrases[p] \in Canonicals
    <3> SUFFICES ASSUME NEW p \in DOMAIN phrases PROVE phrases[p] \in Canonicals
        OBVIOUS
    <3>1. CASE p \in Canonicals
        BY <2>1, <3>1
    <3>2. CASE p \notin Canonicals
      <4>1. PICK h \in ToSet(groups) : p \in h.aliases
          BY <1>1, <3>2
      <4> QED
          BY <4>1, <1>1, <1>4
    <3> QED
        BY <3>1, <3>2
  <2> QED
      BY <2>1, <2>2 DEF Range
<1> DEFINE name == [i \in 1..Len(groups) |-> groups[i].canonical]
<1>6. name \in Bijection(1..Len(groups), Canonicals)
    BY <1>2, <1>3 DEF Bijection, Injection, Surjection, IsInjective, Canonicals
<1>7. ExistsBijection(1..Len(groups), Canonicals)
    BY <1>6 DEF ExistsBijection
<1> QED
    BY <1>2, <1>5, <1>7, FS_CountingElements

LEMMA CountedFinish == ASSUME IInv, Accepting, Finish PROVE Counted'
<1> DEFINE r == WithCycle(report)
<1>1. /\ pc = "map" /\ pending = {} /\ report \in Report /\ dictionary = NoPhrases
    BY DEF Finish, IInv, ReadTypes, NothingPublished
<1>2. {"cycle"} \in SUBSET Errors
    BY DEF Errors
<1>3. /\ r \in Report /\ report.diagnostics \subseteq r.diagnostics
    BY <1>1, <1>2, AddErrorsType DEF WithCycle
<1>4. IF Publishes(r)
      THEN /\ dictionary' = phrases
           /\ report' = [r EXCEPT !.usable = TRUE, !.concepts_loaded = Len(groups)]
      ELSE /\ report' = [r EXCEPT !.usable = FALSE, !.concepts_loaded = 0]
           /\ UNCHANGED dictionary
    BY DEF Finish
<1> HIDE DEF r
<1>5. CASE Publishes(r)
  <2>1. dictionary' = phrases /\ report'.concepts_loaded = Len(groups)
      BY <1>3, <1>4, <1>5 DEF Report
  <2>2. report.diagnostics = {}
      BY <1>3, <1>5 DEF Publishes
  <2>3. Len(groups) = Cardinality(Range(phrases))
      BY <1>1, <2>2, GroupsAreConcepts
  <2> QED
      BY <2>1, <2>3 DEF Counted
<1>6. CASE ~Publishes(r)
  <2>1. dictionary' = NoPhrases /\ report'.concepts_loaded = 0
      BY <1>1, <1>3, <1>4, <1>6 DEF Report
  <2> QED
      BY <2>1, NothingToCount DEF Counted
<1> QED
    BY <1>5, <1>6

LEMMA CountedBegin == ASSUME Begin PROVE Counted'
<1>1. dictionary' = NoPhrases
    BY DEF Begin, ClearDictionary
<1>2. report'.concepts_loaded = 0
  <2>1. PICK f \in Contents : report' = FileReport(f)
      BY DEF Begin
  <2> QED
      BY <2>1, FileReportFacts
<1> QED
    BY <1>1, <1>2, NothingToCount DEF Counted

LEMMA CountedNext == IInv /\ Accepting /\ Counted /\ [Next]_vars => Counted'
<1> SUFFICES ASSUME IInv, Accepting, Counted, [Next]_vars PROVE Counted'
    OBVIOUS
<1>1. CASE Begin
    BY <1>1, CountedBegin
<1>2. CASE ParseGroup \/ EndParse \/ MapAliases
  <2>1. pc' \in {"parse", "map"}
      BY <1>2 DEF ParseGroup, EndParse, MapAliases
  <2> QED
      BY <2>1 DEF Counted, Loaded
<1>3. CASE Finish
    BY <1>3, CountedFinish
<1>4. CASE Ask \/ Match \/ Advance \/ Answer
  <2>1. UNCHANGED <<report, dictionary>> /\ Loaded
      BY <1>4 DEF Ask, Match, Advance, Answer, Loaded
  <2> QED
      BY <2>1 DEF Counted
<1>5. CASE UNCHANGED vars
    BY <1>5 DEF vars, Counted, Loaded
<1> QED
    BY <1>1, <1>2, <1>3, <1>4, <1>5 DEF Next, Work

\* Whenever load() has returned, its report says usable exactly when it has no
\* diagnostics, and the concepts it counts are those the dictionary has: none
\* for a file that is missing or rejected, and none of an earlier load.
THEOREM ReportsAreHonest == Spec => []ReportIsHonest
<1>1. Init => Counted
    BY DEF Init, Counted, Loaded
<1>2. Spec => []Counted
    BY <1>1, CountedNext, Invariant, AcceptingInit, AcceptingNext, PTL DEF Spec
<1>3. IInv /\ Counted => ReportIsHonest
    BY DEF IInv, HonestAtReturn, Counted, ReportIsHonest
<1> QED
    BY <1>2, <1>3, Invariant, PTL

-----------------------------------------------------------------------------
(* What detection has found so far: matches side by side, the longest at   *)
(* their places, and nothing else on the way but words that start no       *)
(* phrase; the rest of the text has the rest of the names.                 *)

Matched == [phrase : DOMAIN dictionary, canonical : PhraseIds, offset : Nat]
PhrasesAt(i) == {p \in DOMAIN dictionary : OccursAt(Spelling[p], text, i)}
Names(ms) == [k \in DOMAIN ms |-> ms[k].canonical]

MatchesStand(ms, end) ==
    /\ \A k \in DOMAIN ms :
        /\ ms[k].phrase \in PhrasesAt(ms[k].offset)
        /\ \A q \in PhrasesAt(ms[k].offset) : Len(Spelling[q]) <= Len(Spelling[ms[k].phrase])
        /\ Span(ms[k]) \subseteq 1..end - 1
    /\ \A k, l \in DOMAIN ms : k # l => Span(ms[k]) \cap Span(ms[l]) = {}
    /\ \A i \in 1..end - 1 :
        PhrasesAt(i) # {} => \E k \in DOMAIN ms : i \in Span(ms[k])

\* The recursions that Detected may stand for.
Recursions == {from \in [1..Len(text) + 1 -> Seq(PhraseIds)] : Detects(from, Definitions, text)}

Detecting ==
    pc = "detect" =>
        /\ text \in Seq(Words) /\ offset \in 1..Len(text) + 1
        /\ matches \in Seq(Matched)
        /\ MatchesStand(matches, offset)
        /\ \A from \in Recursions : Names(matches) \o from[offset] = from[1]

-----------------------------------------------------------------------------
(* Phrases and definitions.                                                *)

LEMMA SpellingType ==
    ASSUME NEW p \in PhraseIds
    PROVE  Spelling[p] \in Seq(Words) /\ Len(Spelling[p]) \in Nat \ {0}
<1>1. Spelling[p] \in Seq(Words) /\ Spelling[p] # <<>>
    BY PhrasesAssumption
<1> QED
    BY <1>1

LEMMA DefinitionsAreDefinite ==
    ASSUME OfPhrases(dictionary)
    PROVE  Definite(Definitions, PhraseIds)
<1> SUFFICES ASSUME NEW d \in Definitions
             PROVE  Len(d.phrase) \in Nat \ {0} /\ d.canonical \in PhraseIds
    BY DEF Definite
<1>1. PICK p \in DOMAIN dictionary : d = [phrase |-> Spelling[p], canonical |-> dictionary[p]]
    BY DEF Definitions
<1>2. p \in PhraseIds /\ dictionary[p] \in PhraseIds
    BY DEF OfPhrases
<1> QED
    BY <1>1, <1>2, SpellingType

\* Two phrases of one length at one place are one.
LEMMA SamePlaceSamePhrase ==
    ASSUME NEW p \in PhraseIds, NEW q \in PhraseIds, NEW i,
           OccursAt(Spelling[p], text, i), OccursAt(Spelling[q], text, i),
           Len(Spelling[p]) = Len(Spelling[q])
    PROVE  p = q
<1>1. Spelling[p] \in Seq(Words) /\ Spelling[q] \in Seq(Words)
    BY SpellingType
<1>2. \A k \in 1..Len(Spelling[p]) : Spelling[p][k] = Spelling[q][k]
    BY DEF OccursAt
<1>3. Spelling[p] = Spelling[q]
    BY <1>1, <1>2
<1> QED
    BY <1>3, PhrasesAssumption

LEMMA DefinitionsHere ==
    ASSUME NEW i
    PROVE  /\ At(Definitions, text, i) = {[phrase |-> Spelling[p], canonical |-> dictionary[p]] :
                                            p \in PhrasesAt(i)}
           /\ At(Definitions, text, i) = {} <=> PhrasesAt(i) = {}
<1> DEFINE def(p) == [phrase |-> Spelling[p], canonical |-> dictionary[p]]
<1>1. \A p : def(p).phrase = Spelling[p]
    OBVIOUS
<1>2. Definitions = {def(p) : p \in DOMAIN dictionary}
    BY DEF Definitions
<1> HIDE DEF def
<1>3. At(Definitions, text, i) = {def(p) : p \in PhrasesAt(i)}
    BY <1>1, <1>2 DEF At, PhrasesAt
<1>4. At(Definitions, text, i) = {} <=> PhrasesAt(i) = {}
    BY <1>3
<1> QED
    BY <1>3, <1>4 DEF def

\* The longest definition here is the match that a step takes.
LEMMA LongestHere ==
    ASSUME OfPhrases(dictionary), text \in Seq(Words), NEW i \in 1..Len(text),
           NEW p \in PhrasesAt(i),
           \A q \in PhrasesAt(i) : Len(Spelling[q]) <= Len(Spelling[p])
    PROVE  LET d == Longest(At(Definitions, text, i)) IN
           d.canonical = dictionary[p] /\ Len(d.phrase) = Len(Spelling[p])
<1> DEFINE ds == At(Definitions, text, i)
           d == Longest(ds)
           def(q) == [phrase |-> Spelling[q], canonical |-> dictionary[q]]
<1>1. ds # {} /\ ds = {def(q) : q \in PhrasesAt(i)}
    BY DefinitionsHere
<1>2. Definite(Definitions, PhraseIds) /\ Len(text) \in Nat
    BY DefinitionsAreDefinite
<1>3. d \in ds /\ \A e \in ds : Len(e.phrase) <= Len(d.phrase)
    BY <1>1, <1>2, LongestProperty
<1>4. \A q : def(q).phrase = Spelling[q] /\ def(q).canonical = dictionary[q]
    OBVIOUS
<1> HIDE DEF ds, d, def
<1>5. PICK q \in PhrasesAt(i) : d = def(q)
    BY <1>1, <1>3
<1>6. def(p) \in ds
    BY <1>1
<1>7. Len(Spelling[p]) <= Len(Spelling[q]) /\ Len(Spelling[q]) <= Len(Spelling[p])
    BY <1>3, <1>4, <1>5, <1>6
<1>8. p \in PhraseIds /\ q \in PhraseIds
      /\ OccursAt(Spelling[p], text, i) /\ OccursAt(Spelling[q], text, i)
    BY <1>5 DEF PhrasesAt, OfPhrases
<1>9. Len(Spelling[p]) = Len(Spelling[q])
    BY <1>7, <1>8, SpellingType
<1>10. p = q
    BY <1>8, <1>9, SamePlaceSamePhrase
<1> QED
    BY <1>4, <1>5, <1>10 DEF d, ds

-----------------------------------------------------------------------------
(* The steps of detection.                                                 *)

LEMMA NamesType ==
    ASSUME NEW ms \in Seq(Matched)
    PROVE  /\ Names(ms) \in Seq(PhraseIds)
           /\ \A m \in Matched : Names(Append(ms, m)) = Names(ms) \o <<m.canonical>>
<1>1. \A k \in DOMAIN ms : ms[k].canonical \in PhraseIds
  <2>1. \A k \in DOMAIN ms : ms[k] \in Matched
      OBVIOUS
  <2> QED
      BY <2>1 DEF Matched
<1>2. Names(ms) \in Seq(PhraseIds) /\ Len(Names(ms)) = Len(ms)
    BY <1>1 DEF Names
<1>3. ASSUME NEW m \in Matched PROVE Names(Append(ms, m)) = Names(ms) \o <<m.canonical>>
  <2>1. m.canonical \in PhraseIds
      BY DEF Matched
  <2>2. Append(ms, m) \in Seq(Matched) /\ Len(Append(ms, m)) = Len(ms) + 1
      OBVIOUS
  <2>3. DOMAIN Names(Append(ms, m)) = 1..Len(ms) + 1
      BY <2>2 DEF Names
  <2>4. Names(ms) \o <<m.canonical>> = [k \in 1..Len(ms) + 1 |->
            IF k <= Len(ms) THEN Names(ms)[k] ELSE m.canonical]
      BY <1>2, <2>1
  <2>5. \A k \in 1..Len(ms) + 1 : Append(ms, m)[k] = IF k <= Len(ms) THEN ms[k] ELSE m
      BY <2>2
  <2>6. \A k \in 1..Len(ms) + 1 :
            Names(Append(ms, m))[k] = IF k <= Len(ms) THEN Names(ms)[k] ELSE m.canonical
      BY <2>2, <2>5 DEF Names
  <2> QED
      BY <2>3, <2>4, <2>6 DEF Names
<1> QED
    BY <1>2, <1>3

\* One more match, behind all others.
LEMMA MatchesGrow ==
    ASSUME OfPhrases(dictionary), NEW end \in Nat \ {0}, NEW ms \in Seq(Matched),
           MatchesStand(ms, end), NEW p \in PhrasesAt(end),
           \A q \in PhrasesAt(end) : Len(Spelling[q]) <= Len(Spelling[p]),
           NEW m \in Matched, m.phrase = p, m.offset = end
    PROVE  MatchesStand(Append(ms, m), end + Len(Spelling[p]))
<1> DEFINE next == end + Len(Spelling[p])
           more == Append(ms, m)
           n == Len(ms) + 1
<1>1. Len(Spelling[p]) \in Nat \ {0}
    BY SpellingType DEF PhrasesAt, OfPhrases
<1>2. Span(m) = end..next - 1
    BY DEF Span
<1>3. /\ DOMAIN more = DOMAIN ms \cup {n} /\ n \notin DOMAIN ms /\ more[n] = m
      /\ \A k \in DOMAIN ms : more[k] = ms[k]
    OBVIOUS
<1> HIDE DEF more, n
<1>4. /\ \A k \in DOMAIN ms : Span(ms[k]) \subseteq 1..end - 1
      /\ 1..end - 1 \subseteq 1..next - 1 /\ end..next - 1 \subseteq 1..next - 1
      /\ (1..end - 1) \cap (end..next - 1) = {}
      /\ \A i \in 1..next - 1 : i \in 1..end - 1 \/ i \in end..next - 1
    BY <1>1 DEF MatchesStand
<1> HIDE DEF next
<1>5. \A k \in DOMAIN more :
        /\ more[k].phrase \in PhrasesAt(more[k].offset)
        /\ \A q \in PhrasesAt(more[k].offset) : Len(Spelling[q]) <= Len(Spelling[more[k].phrase])
        /\ Span(more[k]) \subseteq 1..next - 1
    BY <1>2, <1>3, <1>4 DEF MatchesStand
<1>6. \A k, l \in DOMAIN more : k # l => Span(more[k]) \cap Span(more[l]) = {}
  <2>1. \A k \in DOMAIN ms : Span(ms[k]) \cap Span(m) = {}
      BY <1>2, <1>4
  <2> QED
      BY <1>3, <2>1 DEF MatchesStand
<1>7. \A i \in 1..next - 1 : PhrasesAt(i) # {} => \E k \in DOMAIN more : i \in Span(more[k])
    BY <1>2, <1>3, <1>4 DEF MatchesStand
<1> QED
    BY <1>5, <1>6, <1>7 DEF MatchesStand, next, more

\* A place where no phrase starts.
LEMMA MatchesPass ==
    ASSUME NEW end \in Nat \ {0}, NEW ms, MatchesStand(ms, end), PhrasesAt(end) = {}
    PROVE  MatchesStand(ms, end + 1)
<1>1. 1..end - 1 \subseteq 1..end /\ (\A i \in 1..end : i \in 1..end - 1 \/ i = end)
      /\ (end + 1) - 1 = end
    OBVIOUS
<1>2. \A k \in DOMAIN ms : Span(ms[k]) \subseteq 1..end
    BY <1>1 DEF MatchesStand
<1>3. \A i \in 1..end : PhrasesAt(i) # {} => \E k \in DOMAIN ms : i \in Span(ms[k])
    BY <1>1 DEF MatchesStand
<1> QED
    BY <1>1, <1>2, <1>3 DEF MatchesStand

LEMMA DetectingAsk == ASSUME Accepting, Ask PROVE Detecting'
<1>1. /\ text' \in Seq(Words) /\ offset' = 1 /\ matches' = <<>>
    BY PhrasesAssumption DEF Ask
<1>2. offset' \in 1..Len(text') + 1 /\ matches' \in Seq(Matched)' /\ 1 \in 1..Len(text') + 1
    BY <1>1
<1>3. MatchesStand(matches, offset)'
  <2>1. 1..1 - 1 = {} /\ DOMAIN matches' = {}
      BY <1>1
  <2> QED
      BY <1>1, <2>1 DEF MatchesStand
<1>4. \A from \in Recursions' : Names(matches') \o from[offset'] = from[1]
  <2> SUFFICES ASSUME NEW from \in [1..Len(text') + 1 -> Seq(PhraseIds)]
               PROVE  Names(matches') \o from[offset'] = from[1]
      BY DEF Recursions
  <2>1. from[1] \in Seq(PhraseIds)
      BY <1>2
  <2>2. Names(matches') = <<>>
      BY <1>1 DEF Names
  <2> QED
      BY <1>1, <2>1, <2>2
<1> QED
    BY <1>1, <1>2, <1>3, <1>4 DEF Detecting

\* The same text and dictionary: the same phrases at the same places.
LEMMA SameText ==
    ASSUME UNCHANGED <<text, dictionary>>
    PROVE  /\ \A ms, end : MatchesStand(ms, end)' <=> MatchesStand(ms, end)
           /\ Recursions' = Recursions /\ Matched' = Matched
<1>1. \A i : PhrasesAt(i)' = PhrasesAt(i)
    BY DEF PhrasesAt
<1>2. Definitions' = Definitions
    BY DEF Definitions
<1> QED
    BY <1>1, <1>2 DEF MatchesStand, Recursions, Matched

LEMMA DetectingMatch == ASSUME Accepting, Detecting, Match PROVE Detecting'
<1>1. PICK p \in Here :
        /\ IsLongest(p)
        /\ matches' = Append(matches, [phrase |-> p, canonical |-> dictionary[p],
                                       offset |-> offset])
        /\ offset' = offset + Len(Spelling[p])
    BY DEF Match
<1>2. /\ pc = "detect" /\ pc' = "detect" /\ offset <= Len(text)
      /\ UNCHANGED <<text, dictionary>>
    BY DEF Match
<1>3. /\ text \in Seq(Words) /\ offset \in 1..Len(text) + 1 /\ matches \in Seq(Matched)
      /\ MatchesStand(matches, offset)
      /\ \A from \in Recursions : Names(matches) \o from[offset] = from[1]
    BY <1>2 DEF Detecting
<1>4. Len(text) \in Nat /\ offset \in 1..Len(text) /\ offset \in Nat \ {0}
    BY <1>2, <1>3
<1>5. OfPhrases(dictionary)
    BY DEF Accepting
<1>6. /\ p \in PhrasesAt(offset)
      /\ \A q \in PhrasesAt(offset) : Len(Spelling[q]) <= Len(Spelling[p])
    BY <1>1 DEF Here, IsLongest, PhrasesAt
<1> DEFINE m == [phrase |-> p, canonical |-> dictionary[p], offset |-> offset]
<1>7. m \in Matched /\ m.phrase = p /\ m.offset = offset /\ m.canonical = dictionary[p]
    BY <1>4, <1>5, <1>6 DEF Matched, PhrasesAt, OfPhrases
<1> HIDE DEF m
<1>8. matches' = Append(matches, m)
    BY <1>1 DEF m
<1>9. MatchesStand(matches', offset')
    BY <1>1, <1>3, <1>4, <1>5, <1>6, <1>7, <1>8, MatchesGrow
<1>10. LET d == Longest(At(Definitions, text, offset)) IN
       d.canonical = dictionary[p] /\ Len(d.phrase) = Len(Spelling[p])
    BY <1>3, <1>4, <1>5, <1>6, LongestHere
<1>11. offset' \in 1..Len(text) + 1 /\ Len(Spelling[p]) \in Nat
  <2>1. Len(Spelling[p]) \in Nat /\ OccursAt(Spelling[p], text, offset)
      BY <1>5, <1>6, SpellingType DEF PhrasesAt, OfPhrases
  <2>2. offset + Len(Spelling[p]) - 1 <= Len(text)
      BY <2>1 DEF OccursAt
  <2> QED
      BY <1>1, <1>4, <2>1, <2>2
<1>12. ASSUME NEW from \in Recursions
       PROVE  Names(matches') \o from[offset'] = from[1]
  <2>1. from \in [1..Len(text) + 1 -> Seq(PhraseIds)] /\ Detects(from, Definitions, text)
      BY DEF Recursions
  <2>2. At(Definitions, text, offset) # {}
      BY <1>6, DefinitionsHere
  <2>3. from[offset] =
            LET d == Longest(At(Definitions, text, offset))
            IN <<d.canonical>> \o from[offset + Len(d.phrase)]
    <3>1. offset \in 1..Len(text) + 1 /\ ~(offset > Len(text))
        BY <1>3, <1>4
    <3> QED
        BY <2>1, <2>2, <3>1 DEF Detects
  <2>4. from[offset] = <<m.canonical>> \o from[offset']
      BY <1>1, <1>7, <1>10, <2>3
  <2>5. from[offset'] \in Seq(PhraseIds) /\ <<m.canonical>> \in Seq(PhraseIds)
      BY <1>7, <1>11, <2>1 DEF Matched
  <2>6. Names(matches) \in Seq(PhraseIds) /\ Names(matches') = Names(matches) \o <<m.canonical>>
      BY <1>3, <1>7, <1>8, NamesType
  <2>7. (Names(matches) \o <<m.canonical>>) \o from[offset']
            = Names(matches) \o (<<m.canonical>> \o from[offset'])
    <3> DEFINE a == Names(matches)
               b == <<m.canonical>>
               c == from[offset']
    <3>1. a \in Seq(PhraseIds) /\ b \in Seq(PhraseIds) /\ c \in Seq(PhraseIds)
        BY <2>5, <2>6
    <3> HIDE DEF a, b, c
    <3>2. (a \o b) \o c = a \o (b \o c)
        BY <3>1, ConcatAssociative
    <3> QED
        BY <3>2 DEF a, b, c
  <2> QED
      BY <1>3, <2>4, <2>6, <2>7
<1>13. matches' \in Seq(Matched)
    BY <1>3, <1>7, <1>8
<1>14. MatchesStand(matches', offset') <=> MatchesStand(matches, offset)'
    BY <1>2, SameText
<1> QED
    BY <1>2, <1>3, <1>9, <1>11, <1>12, <1>13, <1>14, SameText DEF Detecting

LEMMA DetectingAdvance == ASSUME Accepting, Detecting, Advance PROVE Detecting'
<1>1. /\ pc = "detect" /\ pc' = "detect" /\ offset <= Len(text) /\ Here = {}
      /\ offset' = offset + 1 /\ UNCHANGED <<text, dictionary, matches>>
    BY DEF Advance, Beyond
<1>2. /\ text \in Seq(Words) /\ offset \in 1..Len(text) + 1 /\ matches \in Seq(Matched)
      /\ MatchesStand(matches, offset)
      /\ \A from \in Recursions : Names(matches) \o from[offset] = from[1]
    BY <1>1 DEF Detecting
<1>3. Len(text) \in Nat /\ offset \in 1..Len(text) /\ offset \in Nat \ {0}
      /\ offset' \in 1..Len(text) + 1
    BY <1>1, <1>2
<1>4. PhrasesAt(offset) = {}
    BY <1>1 DEF Here, PhrasesAt
<1>5. MatchesStand(matches', offset')
    BY <1>1, <1>2, <1>3, <1>4, MatchesPass
<1>6. ASSUME NEW from \in Recursions
      PROVE  from[offset'] = from[offset]
  <2>1. At(Definitions, text, offset) = {}
      BY <1>4, DefinitionsHere
  <2>2. offset \in 1..Len(text) + 1 /\ ~(offset > Len(text))
      BY <1>2, <1>3
  <2> QED
      BY <1>1, <2>1, <2>2 DEF Detects, Recursions
<1>7. Names(matches') = Names(matches)
    BY <1>1
<1>8. MatchesStand(matches', offset') <=> MatchesStand(matches, offset)'
    BY <1>1, SameText
<1> QED
    BY <1>1, <1>2, <1>3, <1>5, <1>6, <1>7, <1>8, SameText DEF Detecting

LEMMA DetectingInit == Init => Detecting
    BY DEF Init, Detecting

LEMMA DetectingNext == Accepting /\ Detecting /\ [Next]_vars => Detecting'
<1> SUFFICES ASSUME Accepting, Detecting, [Next]_vars PROVE Detecting'
    OBVIOUS
<1>1. CASE Ask
    BY <1>1, DetectingAsk
<1>2. CASE Match
    BY <1>2, DetectingMatch
<1>3. CASE Advance
    BY <1>3, DetectingAdvance
<1>4. CASE UNCHANGED vars
  <2>1. UNCHANGED <<pc, text, dictionary, offset, matches>>
      BY <1>4 DEF vars, detecting
  <2>2. MatchesStand(matches, offset)' <=> MatchesStand(matches, offset)
      BY <2>1, SameText
  <2> QED
      BY <2>1, <2>2, SameText DEF Detecting
<1>5. CASE Begin \/ ParseGroup \/ EndParse \/ MapAliases \/ Finish \/ Answer
  <2>1. pc' # "detect"
    <3>1. Begin => pc' # "detect"
        BY DEF Begin
    <3> QED
        BY <1>5, <3>1 DEF ParseGroup, EndParse, MapAliases, Finish, Answer
  <2> QED
      BY <2>1 DEF Detecting
<1> QED
    BY <1>1, <1>2, <1>3, <1>4, <1>5 DEF Next, Work

LEMMA DetectedAtEnd == Accepting /\ Detecting => DetectionIsMaximal
<1> SUFFICES ASSUME Accepting, Detecting, pc = "detect", offset > Len(text)
             PROVE  /\ Names(matches) = Detected(Definitions, text)
                    /\ \A k, l \in DOMAIN matches :
                        k # l => Span(matches[k]) \cap Span(matches[l]) = {}
                    /\ \A p \in DOMAIN dictionary : \A i \in 1..Len(text) :
                        OccursAt(Spelling[p], text, i) =>
                            \E k \in DOMAIN matches :
                                /\ Span(matches[k]) \cap i..(i + Len(Spelling[p]) - 1) # {}
                                /\ matches[k].offset = i =>
                                    Len(Spelling[p]) <= Len(Spelling[matches[k].phrase])
    BY DEF DetectionIsMaximal, Names
<1>1. /\ text \in Seq(Words) /\ offset \in 1..Len(text) + 1 /\ matches \in Seq(Matched)
      /\ MatchesStand(matches, offset)
      /\ \A from \in Recursions : Names(matches) \o from[offset] = from[1]
    BY DEF Detecting
<1>2. Len(text) \in Nat /\ offset = Len(text) + 1 /\ offset - 1 = Len(text)
    BY <1>1
<1>3. Names(matches) = Detected(Definitions, text)
  <2>1. Definite(Definitions, PhraseIds)
      BY DefinitionsAreDefinite DEF Accepting
  <2>2. PICK from \in [1..Len(text) + 1 -> Seq(PhraseIds)] :
            Detected(Definitions, text) = from[1] /\ Detects(from, Definitions, text)
      BY <1>2, <2>1, DetectedEquation
  <2>3. from[offset] = <<>>
      BY <1>1, <1>2, <2>2 DEF Detects
  <2>4. Names(matches) \o from[offset] = from[1]
      BY <1>1, <2>2 DEF Recursions
  <2>5. Names(matches) \in Seq(PhraseIds)
      BY <1>1, NamesType
  <2>6. Names(matches) \o <<>> = Names(matches)
      BY <2>5
  <2> QED
      BY <2>2, <2>3, <2>4, <2>6
<1>4. ASSUME NEW p \in DOMAIN dictionary, NEW i \in 1..Len(text),
             OccursAt(Spelling[p], text, i)
      PROVE  \E k \in DOMAIN matches :
                /\ Span(matches[k]) \cap i..(i + Len(Spelling[p]) - 1) # {}
                /\ matches[k].offset = i =>
                    Len(Spelling[p]) <= Len(Spelling[matches[k].phrase])
  <2>1. p \in PhrasesAt(i) /\ i \in 1..offset - 1
      BY <1>2, <1>4 DEF PhrasesAt
  <2>2. PICK k \in DOMAIN matches : i \in Span(matches[k])
      BY <1>1, <2>1 DEF MatchesStand
  <2>3. i \in i..(i + Len(Spelling[p]) - 1)
    <3>1. Len(Spelling[p]) \in Nat \ {0}
        BY SpellingType DEF Accepting, OfPhrases
    <3> QED
        BY <3>1
  <2>4. matches[k].offset = i => Len(Spelling[p]) <= Len(Spelling[matches[k].phrase])
      BY <1>1, <2>1 DEF MatchesStand
  <2> QED
      BY <2>2, <2>3, <2>4
<1>5. \A k, l \in DOMAIN matches : k # l => Span(matches[k]) \cap Span(matches[l]) = {}
    BY <1>1 DEF MatchesStand
<1> QED
    BY <1>3, <1>4, <1>5

\* For every dictionary and every text: ConceptDictionary::detect
\* (src/src/concepts.cpp) returns matches side by side, each the longest phrase
\* at its place, and misses no phrase that shares no word with a match; the
\* concepts it returns are those that the index and the query processor are
\* modelled with.
THEOREM DetectionMissesNothing == Spec => []DetectionIsMaximal
<1>1. Spec => []Accepting
    BY Invariant, AcceptingInit, AcceptingNext, PTL DEF Spec
<1>2. Spec => []Detecting
    BY <1>1, DetectingInit, DetectingNext, PTL DEF Spec
<1> QED
    BY <1>1, <1>2, DetectedAtEnd, PTL
=============================================================================
