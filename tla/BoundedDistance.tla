--------------------------- MODULE BoundedDistance ---------------------------
(***************************************************************************)
(* What the callers of damerauLevenshteinDistance rely on: a bounded       *)
(* distance.  Up to the maximum the answer is the distance; beyond it the  *)
(* answer is some number above the maximum, and callers only compare.      *)
(***************************************************************************)
EXTENDS Naturals

CONSTANTS
    Questions,  \* what can be asked: two words and a maximum
    Exact(_),   \* the distance a question is about
    Nothing     \* no question, or no answer yet

VARIABLES asked, answer

IsBounded(question, n) ==
    /\ n \in Nat
    /\ IF Exact(question) <= question.maximum
       THEN n = Exact(question)
       ELSE n > question.maximum

Ready == asked = Nothing \/ answer # Nothing

Init == asked = Nothing /\ answer = Nothing

Ask == /\ Ready
       /\ asked' \in Questions
       /\ answer' = Nothing

Reply == /\ ~Ready
         /\ UNCHANGED asked
         /\ IsBounded(asked, answer')

\* The early returns answer in the step that asks.
AskAndReply == /\ Ready
               /\ asked' \in Questions
               /\ IsBounded(asked', answer')

Next == Ask \/ Reply \/ AskAndReply

Spec == Init /\ [][Next]_<<asked, answer>>
=============================================================================
