--------------------------- MODULE MCKnowledgeLoad ---------------------------
(***************************************************************************)
(* A tree of two categories: 1 holds the entries 2 and 3, 4 holds 5.       *)
(* Entry ids run against path order, so that sorting moves entries.        *)
(* A run starts from the healthy tree or from one with one defect, and the *)
(* author introduces or repairs another.                                   *)
(***************************************************************************)
EXTENDS KnowledgeLoad, TLC

MCDirs    == 0..5
MCRoot    == 0
MCParent  == 1 :> 0 @@ 2 :> 1 @@ 3 :> 1 @@ 4 :> 0 @@ 5 :> 4
MCDirName == 0 :> 9 @@ 1 :> 9 @@ 2 :> 3 @@ 3 :> 2 @@ 4 :> 9 @@ 5 :> 1
MCIds     == {1, 2, 3, 9}

NoMeta == [file |-> "missing", text |-> "unreadable", id |-> 9,
           related |-> {}, clean |-> TRUE]
NoText == [file |-> "missing", text |-> "unreadable"]

Directory == [kind |-> "dir", listing |-> "ok", meta |-> NoMeta, content |-> NoText]
Entry(id, related) ==
    [Directory EXCEPT
        !.meta = [file |-> "regular", text |-> "accepted", id |-> id,
                  related |-> related, clean |-> TRUE],
        !.content = [file |-> "regular", text |-> "text"]]

Healthy == [d \in MCDirs |->
    CASE d = 2 -> Entry(3, {2})
      [] d = 3 -> Entry(2, {3})
      [] d = 5 -> Entry(1, {})
      [] OTHER -> Directory]

\* One defect of each kind, where it can do harm.
MCEdits ==
    {<<d, Healthy[d]>> : d \in {0, 2, 5}} \cup
    {<<0, [Directory EXCEPT !.kind = k]>> : k \in {"absent", "link"}} \cup
    {<<0, [Directory EXCEPT !.listing = l]>> : l \in {"closed", "breaks"}} \cup
    {<<1, [Directory EXCEPT !.kind = k]>> : k \in {"absent", "file", "link"}} \cup
    {<<4, [Directory EXCEPT !.listing = l]>> : l \in {"closed", "breaks"}} \cup
    {<<1, [Directory EXCEPT !.listing = "breaks"]>>} \cup
    {<<4, Entry(9, {})>>} \cup
    {<<2, [Healthy[2] EXCEPT !.meta.file = f]>> : f \in Files \ {"regular"}} \cup
    {<<2, [Healthy[2] EXCEPT !.meta.text = t]>> : t \in {"unreadable", "rejected"}} \cup
    {<<2, [Healthy[2] EXCEPT !.meta.clean = FALSE]>>,
     <<2, [Healthy[2] EXCEPT !.kind = "dangling"]>>,
     <<2, Entry(1, {1})>>, <<3, Entry(3, {2})>>, <<2, Directory>>} \cup
    {<<5, [Healthy[5] EXCEPT !.content.file = f]>> : f \in {"missing", "irregular"}} \cup
    {<<5, [Healthy[5] EXCEPT !.content.text = t]>> : t \in {"unreadable", "blank"}} \cup
    {<<5, [Healthy[5] EXCEPT !.kind = "denied"]>>}

MCTrees == {Healthy} \cup {[Healthy EXCEPT ![e[1]] = e[2]] : e \in MCEdits}
=============================================================================
