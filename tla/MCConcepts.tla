----------------------------- MODULE MCConcepts -----------------------------
(***************************************************************************)
(* Four phrases, two of them of two words that overlap in a text, and      *)
(* files of up to two groups, well formed or with any defect.              *)
(***************************************************************************)
EXTENDS Concepts

MCWords == {"a", "b", "c"}
MCPhraseIds == 1..4
MCSpelling  == <<<<"a">>, <<"a", "b">>, <<"b">>, <<"b", "a">>>>

Group(name, sequence, aliases) ==
    [name |-> name, sequence |-> sequence, aliases |-> aliases]
AliasLists == {<<>>, <<Empty>>, <<NotScalar, 3>>, <<2, 2>>, <<4, 1>>} \cup
              {<<p>> : p \in MCPhraseIds}
Groups == {Group(n, TRUE, as) : n \in {1, 2, 3}, as \in AliasLists} \cup
          {Group(Empty, TRUE, <<>>), Group(NotScalar, TRUE, <<>>), Group(4, FALSE, <<>>)}

File(state, keys, items) == [state |-> state, keys |-> keys, items |-> items]
MCContents ==
    {File(s, 1, <<>>) : s \in FileStates} \cup
    {File("concepts_not_a_map", 2, <<>>), File("read", 2, <<Group(1, TRUE, <<3>>)>>)} \cup
    {File("read", 1, <<g>>) : g \in Groups} \cup
    {File("read", 1, <<g, h>>) : g \in Groups, h \in Groups} \cup
    {File("read", 1, <<Group(1, TRUE, <<>>), Group(2, TRUE, <<3>>), Group(4, TRUE, <<>>)>>)}

MCTexts == {<<>>, <<"c", "a", "b">>, <<"a", "c", "b">>, <<"b", "a", "b", "a">>} \cup
           [1..2 -> {"a", "b"}] \cup [1..3 -> {"a", "b"}]
=============================================================================
