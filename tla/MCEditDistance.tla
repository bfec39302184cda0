--------------------------- MODULE MCEditDistance ---------------------------
(***************************************************************************)
(* All words of up to three letters of an alphabet of three, some of four, *)
(* asked on a thread that was asked about other words before.              *)
(***************************************************************************)
EXTENDS EditDistance

MCLetters == {"a", "b", "c"}
OfLength(n) == [1..n -> MCLetters]
MCWords == OfLength(0) \cup OfLength(1) \cup OfLength(2) \cup OfLength(3)
    \cup {<<"b", "a", "c", "a">>, <<"a", "b", "c", "a">>, <<"c", "a", "b", "b">>, <<"b", "c", "b", "a">>}
MCMaxima == {1, 2}

Asking(l, r, m) == [left |-> l, right |-> r, maximum |-> m]
MCFirstQuestions ==
    {Asking(<<>>, <<"a">>, 1),
     Asking(<<"b", "a", "c", "a">>, <<"a", "b", "c", "a">>, 1),
     Asking(<<"c", "a", "b", "b">>, <<"b", "b">>, 2),
     Asking(<<"b", "c">>, <<"c", "a", "b", "b">>, 2)}

Distances(l, r) ==
    LET d[i \in 0..Len(l)] ==
        LET cells[j \in 0..Len(r)] ==
            IF i = 0 THEN j
            ELSE IF j = 0 THEN i
            ELSE Least(
                {d[i - 1][j] + 1, cells[j - 1] + 1,
                 d[i - 1][j - 1] + (IF l[i] = r[j] THEN 0 ELSE 1)}
                \cup (IF i > 1 /\ j > 1 /\ l[i] = r[j - 1] /\ l[i - 1] = r[j]
                      THEN {d[i - 2][j - 2] + 1} ELSE {}))
        IN cells
    IN d
MCAlignment == [l \in MCWords |-> [r \in MCWords |-> Distances(l, r)]]
=============================================================================
