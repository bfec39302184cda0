------------------------------ MODULE MCMarkdown ------------------------------
(***************************************************************************)
(* Every document of up to three of seventeen lines, and every document of *)
(* up to five lines of six that open, close, or do neither.                *)
(***************************************************************************)
EXTENDS Markdown

Blank == [indent |-> 0, tab |-> FALSE, body |-> "blank", marker |-> "backtick", run |-> 0,
          rest |-> "blank", links |-> <<>>]
A(body, links) == [Blank EXCEPT !.body = body, !.links = links]
Indented(n, line) == [line EXCEPT !.indent = n]
Tabbed(line) == [line EXCEPT !.tab = TRUE]
Fence(marker, run, rest) ==
    [Blank EXCEPT !.body = "fence", !.marker = marker, !.run = run, !.rest = rest]

FenceLines == {Fence("backtick", 3, "blank"), Fence("backtick", 3, "language"), Fence("backtick", 4, "blank"),
               Fence("tilde", 3, "blank")}
PlainLines == FenceLines \cup
    {Blank, A("title", <<>>), A("heading", <<"missing">>), A("item", <<"present", "escaping">>),
     A("quote", <<>>), A("text", <<"external", "unterminated", "missing">>),
     A("text", <<"absolute", "missing">>), Indented(5, A("text", <<"missing">>)),
     Indented(2, Fence("backtick", 3, "blank"))}
OddLines == {Tabbed(Fence("backtick", 3, "blank")), Fence("backtick", 3, "feed"),
             [Fence("backtick", 3, "tick") EXCEPT !.links = <<"missing">>], Tabbed(A("text", <<>>))}

UpTo(n, lines) == UNION {[1..k -> lines] : k \in 0..n}
MCDocuments == UpTo(3, PlainLines \cup OddLines)
    \cup UpTo(5, FenceLines \cup {Indented(2, Fence("backtick", 3, "blank")), A("text", <<"missing">>)})
=============================================================================
