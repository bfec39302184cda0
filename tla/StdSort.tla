------------------------------- MODULE StdSort -------------------------------
(***************************************************************************)
(* std::sort by its contract: it leaves some permutation of the range in   *)
(* which no element comes after one it is less than.  Elements the         *)
(* comparison does not tell apart may end up in any order.                 *)
(***************************************************************************)
EXTENDS Integers, Sequences

Injections(S) == {p \in [S -> S] : \A i, j \in S : i # j => p[i] # p[j]}

Sortings(s, Less(_, _)) ==
    {t \in {[i \in DOMAIN s |-> s[p[i]]] : p \in Injections(DOMAIN s)} :
        \A i, j \in DOMAIN s : i < j => ~Less(t[j], t[i])}
=============================================================================
