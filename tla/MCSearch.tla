------------------------------ MODULE MCSearch ------------------------------
(***************************************************************************)
(* Catalogs of up to three entries drawn from seven shapes over thirteen   *)
(* words, and queries that meet them exactly, by synonym, by a typo, with  *)
(* a repeated word, or not at all.                                         *)
(***************************************************************************)
EXTENDS Search, TLC

MCWords == {"copy", "cp", "directory", "duplicate", "earse", "erase",
            "file", "fold", "folde", "folder", "foldre", "remove", "-r"}
MCWordRank == "-r" :> 0 @@ "copy" :> 1 @@ "cp" :> 2 @@ "directory" :> 3
    @@ "duplicate" :> 4 @@ "earse" :> 5 @@ "erase" :> 6 @@ "file" :> 7 @@ "fold" :> 8
    @@ "folde" :> 9 @@ "folder" :> 10 @@ "foldre" :> 11 @@ "remove" :> 12
MCLength == "-r" :> 2 @@ "copy" :> 4 @@ "cp" :> 2 @@ "directory" :> 9
    @@ "duplicate" :> 9 @@ "earse" :> 5 @@ "erase" :> 5 @@ "file" :> 4 @@ "fold" :> 4
    @@ "folde" :> 5 @@ "folder" :> 6 @@ "foldre" :> 6 @@ "remove" :> 6
\* One transposition makes a typo of a word, a missing letter leads to two;
\* the other words are far apart.
MCDistance == [p \in MCWords \X MCWords |->
    CASE p[1] = p[2] -> 0
      [] {p[1], p[2]} \in {{"folder", "foldre"}, {"erase", "earse"}, {"folde", "fold"},
                            {"folde", "folder"}, {"folde", "foldre"}} -> 1
      [] {p[1], p[2]} \in {{"fold", "folder"}, {"fold", "foldre"}} -> 2
      [] OTHER -> 9]
MCUnfuzzy == {"-r"}
MCDictionary == {[phrase |-> <<"copy">>, canonical |-> "copy"],
                 [phrase |-> <<"duplicate">>, canonical |-> "copy"],
                 [phrase |-> <<"folder">>, canonical |-> "folder"],
                 [phrase |-> <<"directory">>, canonical |-> "folder"],
                 [phrase |-> <<"file">>, canonical |-> "file"]}

\* ln((n + 1) / (f + 1)) + 1, to two hundredths.
MCIdf == <<<<100>>, <<140, 100>>, <<170, 128, 100>>, <<192, 152, 122, 100>>>>

Shape(words, title, aliases, keywords, command, intents) ==
    [id_words |-> words, title |-> title, aliases |-> aliases,
     keywords |-> keywords, command |-> command, intents |-> intents]

CopyFolder == <<"copy", "folder">>
Shapes == {
    Shape(CopyFolder, CopyFolder, {CopyFolder}, {<<"copy">>, <<"folder">>},
          <<"cp", "-r">>, {"how_to"}),
    Shape(<<"duplicate">>, <<"copy", "file">>, {<<"copy", "file">>}, {<<"file">>},
          <<"cp">>, {"how_to", "command"}),
    Shape(<<"folder">>, <<"folder">>, {}, {<<"folder">>}, <<>>, {"explain"}),
    Shape(<<"remove">>, <<"remove">>, {<<"erase", "folder">>}, {<<"fold">>}, <<>>, {}),
    Shape(<<"cp">>, <<"cp">>, {<<"cp">>}, {<<"file">>}, <<"cp">>, {"command"}),
    Shape(<<"remove">>, <<"remove", "file">>, {<<"remove", "folder">>}, {<<"copy">>},
          <<>>, {"how_to"}),
    Shape(<<"copy">>, <<"directory">>, {<<"directory">>}, {<<"directory">>}, <<>>, {})}

WithId(shape, id) == [id |-> id] @@ shape
MCCatalogs == {<<>>} \cup {<<WithId(s, 1)>> : s \in Shapes} \cup
    UNION {{[i \in 1..n |-> WithId(f[i], i)] : f \in [1..n -> Shapes]} : n \in {2, 3}}

Ask(words, type) == [words |-> words, type |-> type]
MCQueries == {Ask(<<>>, "general"), Ask(CopyFolder, "how_to"),
              Ask(<<"copy", "copy", "folder">>, "how_to"),
              Ask(<<"duplicate", "directory">>, "general"),
              Ask(<<"directory">>, "explain"), Ask(<<"folder">>, "explain"),
              Ask(<<"foldre">>, "general"), Ask(<<"folde">>, "general"), Ask(<<"earse", "folder">>, "how_to"), Ask(<<"copy", "foldre">>, "how_to"),
              Ask(<<"cp", "-r">>, "command"), Ask(<<"file">>, "how_to"),
              Ask(<<"remove", "file", "folder">>, "how_to")}

-----------------------------------------------------------------------------
(* Smaller inputs for the runs that contradict a document.                 *)

\* One entry about folders among three others.
MCGrownCatalogs == {[i \in 1..4 |-> WithId(IF i = 1 THEN s ELSE t, i)] :
    s \in {x \in Shapes : x.title = <<"folder">>},
    t \in {x \in Shapes : x.title = <<"cp">>}}
MCOneWordQueries == {Ask(<<w>>, t) : w \in {"file", "folder", "cp"},
                                     t \in {"how_to", "explain"}}
MCRepeatQueries == {Ask(<<"remove", "folder">>, "how_to"),
                    Ask(<<"folder", "remove", "folder">>, "how_to")}
MCTypoQueries == {Ask(<<w>>, "general") : w \in {"erase", "earse"}}
MCSmallCatalogs == {c \in MCCatalogs : Len(c) <= 2}
=============================================================================
