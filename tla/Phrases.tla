------------------------------- MODULE Phrases -------------------------------
(***************************************************************************)
(* Sequences of words: what tokenization, phrase comparison and concept    *)
(* detection do with them.  A word stands for one token that               *)
(* lexicalTokens produced and that is not a stopword.                      *)
(***************************************************************************)
EXTENDS Integers, Sequences, SequencesExt

\* tokenize(..., deduplicate = true): the first occurrence of each word.
Deduplicated(s) ==
    FoldLeft(LAMBDA seen, word : IF Contains(seen, word) THEN seen
                                                         ELSE Append(seen, word),
             <<>>, s)

\* The phrase starts at position i of the text.
OccursAt(phrase, text, i) ==
    /\ i + Len(phrase) - 1 <= Len(text)
    /\ \A k \in 1..Len(phrase) : text[i + k - 1] = phrase[k]

\* containsNormalizedPhrase: whole words, in order, next to each other.
ContainsPhrase(text, phrase) ==
    /\ text # <<>> /\ phrase # <<>>
    /\ \E i \in 1..Len(text) : OccursAt(phrase, text, i)

\* ConceptDictionary::detect over definitions [phrase, canonical]: from left
\* to right, the longest definition that matches here, and on behind it.
Detected(definitions, text) ==
    LET At(i) == {d \in definitions : OccursAt(d.phrase, text, i)}
        Longest(ds) == CHOOSE d \in ds : \A e \in ds : Len(e.phrase) <= Len(d.phrase)
        from[i \in 1..Len(text) + 1] ==
            IF i > Len(text) THEN <<>>
            ELSE IF At(i) = {} THEN from[i + 1]
            ELSE LET d == Longest(At(i)) IN <<d.canonical>> \o from[i + Len(d.phrase)]
    IN from[1]
=============================================================================
