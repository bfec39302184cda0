---------------------------- MODULE EditDistance ----------------------------
(***************************************************************************)
(* damerauLevenshteinDistance (index.cpp): the distance of two words cell  *)
(* by cell in three rows.  The rows are thread_local: a call finds in them *)
(* what the calls before it left, for words of other lengths.  It gives up *)
(* after a row whose minimum exceeds the maximum distance.                 *)
(***************************************************************************)
EXTENDS Integers, Sequences, SequencesExt

CONSTANTS
    Alphabet,       \* the letters of words
    Words,          \* sequences of them
    Maxima,         \* the maximum distances callers pass
    FirstQuestions, \* what the thread is asked first
    MaxCalls,       \* bound on the number of calls
    Alignment,      \* the distance of every two prefixes of every two words
    Nothing         \* no question, or no answer yet

Questions == [left : Words, right : Words, maximum : Maxima]

\* Mutant: only one of the two letters is compared.
HalfSwapped(left, right, i, j) == i > 1 /\ j > 1 /\ left[i] = right[j - 1]
\* The last two letters of two prefixes change places.
Swapped(left, right, i, j) ==
    i > 1 /\ j > 1 /\ left[i] = right[j - 1] /\ left[i - 1] = right[j]

\* What substitution of the last letters costs, and the least of some costs.
SubstitutionCost(left, right, i, j) == IF left[i] = right[j] THEN 0 ELSE 1
Least(S) == CHOOSE n \in S : \A m \in S : n <= m

(***************************************************************************)
(* The reference: turning the first i letters of left into the first j of  *)
(* right, where no stretch of letters is edited twice.                     *)
(***************************************************************************)
IsAlignment(left, right, d) ==
    /\ d \in [0..Len(left) -> [0..Len(right) -> Nat]]
    /\ \A i \in 0..Len(left) : d[i][0] = i
    /\ \A j \in 0..Len(right) : d[0][j] = j
    /\ \A i \in 1..Len(left), j \in 1..Len(right) :
        d[i][j] = Least(
            {d[i - 1][j] + 1, d[i][j - 1] + 1,
             d[i - 1][j - 1] + SubstitutionCost(left, right, i, j)}
            \cup (IF /\ i > 1 /\ j > 1
                     /\ left[i] = right[j - 1] /\ left[i - 1] = right[j]
                  THEN {d[i - 2][j - 2] + 1} ELSE {}))

Exact(q) == Alignment[q.left][q.right][Len(q.left)][Len(q.right)]

ASSUME WordsAssumption == Words \subseteq Seq(Alphabet)
ASSUME MaximaAssumption == Maxima \subseteq Nat
ASSUME QuestionsAssumption ==
    /\ FirstQuestions \subseteq Questions
    /\ Nothing \notin Questions /\ Nothing \notin Nat
ASSUME AlignmentAssumption ==
    \A l, r \in Words : IsAlignment(l, r, Alignment[l][r])

VARIABLES
    pc, calls,
    asked, answer,                        \* the call and what it returned
    previous_previous, previous, current, \* the thread_local rows
    row, column, row_minimum

rows   == <<previous_previous, previous, current>>
cursor == <<row, column, row_minimum>>
vars   == <<pc, calls, asked, answer, rows, cursor>>

NoRow == [c \in {} |-> 0]

Init ==
    /\ pc = "idle" /\ calls = 0
    /\ asked = Nothing /\ answer = Nothing
    /\ previous_previous = NoRow /\ previous = NoRow /\ current = NoRow
    /\ row = 0 /\ column = 0 /\ row_minimum = 0

-----------------------------------------------------------------------------
(* The call.                                                               *)

TooFar(q) ==
    \/ Len(q.left) > Len(q.right) + q.maximum
    \/ Len(q.right) > Len(q.left) + q.maximum

MayCall == pc = "idle" /\ calls < MaxCalls

Call(q) ==
    /\ calls = 0 => q \in FirstQuestions
    /\ calls' = calls + 1
    /\ asked' = q

CallAtOnce ==
    /\ MayCall
    /\ \E q \in Questions :
        /\ Call(q)
        /\ \/ q.left = q.right /\ answer' = 0
           \/ q.left # q.right /\ TooFar(q) /\ answer' = q.maximum + 1
        /\ UNCHANGED <<pc, rows, cursor>>

\* resize(): a longer row keeps its cells and grows by zeros.
Resized(cells, size) == [c \in 0..(size - 1) |-> IF c \in DOMAIN cells THEN cells[c] ELSE 0]

\* Mutant: only the cells a longer word adds are numbered.
NumberedWhereNew(cells, size) ==
    [c \in 0..(size - 1) |-> IF c \in DOMAIN cells THEN cells[c] ELSE c]
\* Row zero: the distance from nothing to every prefix of right.
Numbered(cells, size) == [c \in 0..(size - 1) |-> c]

Prepare ==
    /\ MayCall
    /\ \E q \in Questions :
        /\ Call(q)
        /\ q.left # q.right /\ ~TooFar(q)
        /\ previous_previous' = Numbered(previous_previous, Len(q.right) + 1)
        /\ previous' = Numbered(previous, Len(q.right) + 1)
        /\ current' = Resized(current, Len(q.right) + 1)
        /\ answer' = Nothing
        /\ pc' = "row" /\ row' = 1
        /\ UNCHANGED <<column, row_minimum>>

-----------------------------------------------------------------------------
(* The loops.                                                              *)

StartRow ==
    /\ pc = "row" /\ row <= Len(asked.left)
    /\ current' = [current EXCEPT ![0] = row]
    /\ row_minimum' = row
    /\ column' = 1 /\ pc' = "column"
    /\ UNCHANGED <<calls, asked, answer, previous_previous, previous, row>>

Cell == Least(
    {previous[column] + 1, current[column - 1] + 1,
     previous[column - 1] + SubstitutionCost(asked.left, asked.right, row, column)}
    \cup (IF Swapped(asked.left, asked.right, row, column)
          THEN {previous_previous[column - 2] + 1} ELSE {}))

FillCell ==
    /\ pc = "column" /\ column <= Len(asked.right)
    /\ current' = [current EXCEPT ![column] = Cell]
    /\ row_minimum' = Least({row_minimum, Cell})
    /\ column' = column + 1
    /\ UNCHANGED <<pc, calls, asked, answer, previous_previous, previous, row>>

\* Mutant: giving up at the maximum, not above it.
GivesUpEarly(minimum, maximum) == minimum >= maximum
GivesUp(minimum, maximum) == minimum > maximum

RotateRows ==
    /\ previous_previous' = previous
    /\ previous' = current
    /\ current' = previous_previous

GiveUp ==
    /\ pc = "column" /\ column > Len(asked.right)
    /\ GivesUp(row_minimum, asked.maximum)
    /\ answer' = asked.maximum + 1
    /\ pc' = "idle"
    /\ UNCHANGED <<calls, asked, rows, cursor>>

NextRow == row + 1

EndRow ==
    /\ pc = "column" /\ column > Len(asked.right)
    /\ ~GivesUp(row_minimum, asked.maximum)
    /\ RotateRows
    /\ row' = NextRow /\ pc' = "row"
    /\ UNCHANGED <<calls, asked, answer, column, row_minimum>>

Return ==
    /\ pc = "row" /\ row > Len(asked.left)
    /\ answer' = previous[Len(asked.right)]
    /\ pc' = "idle"
    /\ UNCHANGED <<calls, asked, rows, cursor>>

Work == StartRow \/ FillCell \/ GiveUp \/ EndRow \/ Return
Next == CallAtOnce \/ Prepare \/ Work

Spec == Init /\ [][Next]_vars

-----------------------------------------------------------------------------
(* Properties.                                                             *)

IsRow(cells) == cells \in [DOMAIN cells -> Nat]

\* Every row has one cell more than the word it is for has letters, and the
\* cursor stays inside both words.
TypeOK ==
    /\ pc \in {"idle", "row", "column"} /\ calls \in Nat
    /\ asked \in Questions \cup {Nothing} /\ answer \in Nat \cup {Nothing}
    /\ IsRow(previous_previous) /\ IsRow(previous) /\ IsRow(current)
    /\ row \in Nat /\ column \in Nat /\ row_minimum \in Nat
    /\ pc # "idle" =>
        /\ asked # Nothing
        /\ DOMAIN previous_previous = 0..Len(asked.right)
        /\ DOMAIN previous = 0..Len(asked.right)
        /\ DOMAIN current = 0..Len(asked.right)
        /\ row \in 1..(Len(asked.left) + 1)
    /\ pc = "column" =>
        row <= Len(asked.left) /\ column \in 1..(Len(asked.right) + 1)

Bounded == INSTANCE BoundedDistance

\* What a call answers depends neither on what earlier calls left in the rows
\* nor on the row it gives up at: damerauLevenshteinDistance implements the
\* bounded distance that the index and the lint compare with their maximum.
IsBoundedDistance == Bounded!Spec

-----------------------------------------------------------------------------
(* The same distance seen from outside: what single edits make of a word.  *)

Edited(w) ==
    {RemoveAt(w, i) : i \in DOMAIN w}
    \cup {ReplaceAt(w, i, c) : i \in DOMAIN w, c \in Alphabet}
    \cup {InsertAt(w, i, c) : i \in 1..(Len(w) + 1), c \in Alphabet}
    \cup {[w EXCEPT ![i] = w[i + 1], ![i + 1] = w[i]] : i \in 1..(Len(w) - 1)}
OneEdit  == [w \in Words |-> Edited(w)]
TwoEdits == [w \in Words |-> UNION {Edited(v) : v \in OneEdit[w]}]

Within(w, v, n) == \/ w = v
                   \/ n >= 1 /\ v \in OneEdit[w]
                   \/ n >= 2 /\ v \in TwoEdits[w]

\* The distance of damerauLevenshteinDistance is never smaller than the
\* number of edits that turn the one word into the other, so a word it calls
\* near is near.
NearWordsAreNear ==
    answer # Nothing /\ answer <= asked.maximum =>
        Within(asked.left, asked.right, answer)

\* Every word one edit away is called near, whatever the edit, its place and
\* the lengths: the callers' maximum of one misses nothing.  (Of the words two
\* edits away, those that edit one stretch twice are missed: ca, abc.)
OneEditIsNear ==
    answer # Nothing /\ Within(asked.left, asked.right, 1) => answer <= 1

=============================================================================
