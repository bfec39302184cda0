-------------------------------- MODULE MCLint --------------------------------
(***************************************************************************)
(* Catalogs of up to three entries in which one kind of item varies at a   *)
(* time over every list of interest, beside entries that are well formed.  *)
(***************************************************************************)
EXTENDS Lint

\* "remove" and "delete" name one concept; "make" is another; "the" is a
\* stopword; "folder" and "folders" are one edit apart.
MCWords     == {"remove", "delete", "folder", "folders", "help", "the", "make", "dir"}
MCLength    == [w \in MCWords |-> CASE w \in {"remove", "delete", "folder"} -> 6
                                    [] w = "folders" -> 7
                                    [] w \in {"help", "make"} -> 4
                                    [] OTHER -> 3]
MCOneEdit   == LET pairs == {<<<<"remove", "folder">>, <<"remove", "folders">>>>,
                             <<<<"folder">>, <<"folders">>>>}
               IN pairs \cup {<<p[2], p[1]>> : p \in pairs}
MCDictionary == {[phrase |-> <<"remove">>, canonical |-> "delete"],
                 [phrase |-> <<"delete">>, canonical |-> "delete"],
                 [phrase |-> <<"make", "dir">>, canonical |-> "mkdir"]}

Said(id, words, title, command) ==
    [id |-> id, id_words |-> words, title |-> title, command |-> command,
     aliases |-> <<>>, keywords |-> <<>>, related |-> <<>>, markdown |-> {}]
Plain(id) == Said(id, <<"delete">>, <<"make", "the", "dir">>, <<"help">>)

\* What an id, a title and a command may say of the concepts.
FieldTexts == {<<"help">>, <<"remove">>, <<"make", "the", "dir">>, <<>>}

ListsOver(items, n) == UNION {[1..k -> items] : k \in 0..n}
AliasTexts   == {<<"remove", "folder">>, <<"remove", "the", "folder">>, <<"the">>,
                 <<"remove", "folders">>, <<"folder", "remove", "folder">>,
                 <<"folder", "remove">>}
KeywordTexts == {<<"help">>, <<"the", "help">>, <<"make", "dir">>, <<"the">>, <<"remove">>}

WithAliases(id, list)  == [Plain(id) EXCEPT !.aliases = list]
WithKeywords(id, list) == [Plain(id) EXCEPT !.keywords = list]
WithRelated(id, list)  == [Plain(id) EXCEPT !.related = list]
Bare(e)                == [e EXCEPT !.id_words = <<"help">>, !.title = <<"help">>]

MCCatalogs ==
    {<<>>} \cup
    {<<WithAliases(1, a)>> : a \in ListsOver(AliasTexts, 3)} \cup
    {<<WithAliases(1, a), WithAliases(2, b)>> :
        a \in ListsOver(AliasTexts, 2), b \in ListsOver(AliasTexts, 1)} \cup
    {<<WithAliases(1, <<a>>), WithAliases(2, <<b>>), WithAliases(3, <<c>>)>> :
        a \in AliasTexts, b \in AliasTexts, c \in AliasTexts} \cup
    {<<Bare(WithKeywords(1, a))>> : a \in ListsOver(KeywordTexts, 3)} \cup
    {<<Bare(WithKeywords(1, <<a>>)), Bare(WithKeywords(2, <<b>>))>> :
        a \in KeywordTexts, b \in KeywordTexts} \cup
    {<<WithRelated(1, a), WithRelated(2, b)>> :
        a \in ListsOver(1..3, 2), b \in ListsOver(1..3, 2)} \cup
    {<<WithRelated(1, a), WithRelated(2, b), WithRelated(3, c)>> :
        a \in ListsOver(1..3, 1), b \in ListsOver(1..3, 1), c \in ListsOver(1..3, 1)} \cup
    {<<Said(1, w, t, c)>> : w \in FieldTexts, t \in FieldTexts, c \in FieldTexts} \cup
    {<<[Plain(1) EXCEPT !.markdown = {"unclosed fence", "broken link"}], Plain(2)>>}
=============================================================================
