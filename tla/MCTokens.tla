------------------------------- MODULE MCTokens -------------------------------
(***************************************************************************)
(* All short texts over one character of each class, and sentences of a    *)
(* few one-letter words that stand for stopwords, questions and commands.  *)
(***************************************************************************)
EXTENDS Tokens

\* t: "the", w: "why", e: "explain", h: "how", s m: "show me", g o: "meaning
\* of", r: "remove", c k: commands; A is the upper case of a.
MCLetters   == {"a", "A", "t", "w", "e", "h", "s", "m", "g", "o", "r", "c", "k"}
MCDigits    == {"2"}
MCCharacters == MCLetters \cup MCDigits \cup {".", "-", "_", ">", "<", " "}
MCLowerCase == [x \in MCCharacters |-> IF x = "A" THEN "a" ELSE x]

MCStopwords    == {<<"t">>, <<"w">>, <<"h">>, <<"e">>, <<"s">>, <<"m">>, <<"o">>}
MCWhy == <<"w">>
MCHow == <<"h">>
MCActionVerbs == {<<"r">>}
MCExplainWords == {<<"e">>}
MCExplainPairs == {<<<<"g">>, <<"o">>>>}
MCHowPairs     == {<<<<"s">>, <<"m">>>>}
MCCommandTexts == {<<"c">>, <<"k", "-", "a">>, <<"a", ".", "c">>, <<"A", " ", "-", "2">>,
                   <<"g", " ", "t">>}

Alphabet   == {"a", "A", "2", ".", "-", "_", ">", "<", " "}
Confusable == {"a", "2", ".", "-", ">", " "}
Spaced     == {<<"w">>, <<"h">>, <<"e">>, <<"g">>, <<"o">>, <<"s">>, <<"m">>, <<"t">>,
               <<"c">>, <<"r">>, <<"a">>, <<"-", "a">>, <<"2", ">">>}
Behind     == {<<>>, <<" ">>, <<" ", "a">>, <<" ", "t", " ", "r">>, <<" ", "2", ">", ">", "<">>}

MCTexts ==
    UNION {[1..n -> Alphabet] : n \in 0..4} \cup [1..5 -> Confusable] \cup [1..6 -> Confusable \ {" "}] \cup
    {Joined(s) : s \in UNION {[1..n -> Spaced] : n \in 1..3}} \cup
    {command \o rest : command \in MCCommandTexts, rest \in Behind} \cup
    {Joined(s) : s \in [1..7 -> {<<"a">>, <<"c">>}]}
=============================================================================
