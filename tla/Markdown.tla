------------------------------- MODULE Markdown -------------------------------
(***************************************************************************)
(* Two passes over the same content.md, line by line: lintMarkdown         *)
(* (knowledge.cpp), which an author runs, and renderMarkdown               *)
(* (markdown.cpp), which a user sees.  Each has its own scanner for code   *)
(* fences, its own idea of leading blanks and of what a fence line is.     *)
(*                                                                         *)
(* A line is what the scanners tell apart: its leading spaces, a tab after *)
(* them, what its text begins with, and its links.                         *)
(***************************************************************************)
EXTENDS Integers, Sequences, FiniteSets, SequencesExt

CONSTANT Documents      \* sequences of lines

Markers == {"backtick", "tilde"}
Bodies  == {"blank", "text", "title", "heading", "quote", "item", "fence"}
\* What follows the marks of a fence: nothing, a form feed, a language, a
\* backtick somewhere.
Rests   == {"blank", "feed", "language", "tick"}
Links   == {"external", "unterminated", "empty", "absolute", "escaping",
            "missing", "present"}

\* A blank line has no links.
Lines == {line \in [indent : Nat, tab : BOOLEAN, body : Bodies, marker : Markers,
                    run : Nat, rest : Rests, links : Seq(Links)] :
            line.body = "blank" => line.links = <<>>}

ASSUME DocumentsAssumption == Documents \subseteq Seq(Lines)

VARIABLES
    document, pc, at,           \* the pass, and the line it is at
    open_fence, diagnostics,    \* lintMarkdown: OpenFence, what it reported
    fence, fence_length, fence_indent, paragraph, output \* renderMarkdown

lint   == <<open_fence, diagnostics>>
block  == <<fence, fence_length, fence_indent, paragraph>>
vars   == <<document, pc, at, lint, block, output>>

None == "none"
Line == document[at]

Init ==
    /\ document \in Documents /\ pc = "lint" /\ at = 1
    /\ open_fence = [marker |-> None, length |-> 0, line |-> 0] /\ diagnostics = {}
    /\ fence = None /\ fence_length = 0 /\ fence_indent = 0
    /\ paragraph = <<>> /\ output = <<>>

NextLine == at' = at + 1 /\ UNCHANGED <<document, pc>>

-----------------------------------------------------------------------------
(* lintMarkdown.                                                           *)

Linting == pc = "lint" /\ at <= Len(document)

\* Spaces only, at most three of them; a tab is no fence.
LooksLikeFence(line) ==
    line.body = "fence" /\ ~line.tab /\ line.indent <= 3 /\ line.run >= 3

Opened == open_fence.marker # None
\* Mutant: a shorter run closes, too.
ClosesShort(line) ==
    LooksLikeFence(line) /\ line.marker = open_fence.marker /\ line.rest \in {"blank", "feed"}
ClosesOpen(line) ==
    /\ LooksLikeFence(line) /\ line.marker = open_fence.marker
    /\ line.run >= open_fence.length /\ line.rest \in {"blank", "feed"}

LintOpening ==
    /\ Linting /\ ~Opened /\ LooksLikeFence(Line)
    /\ open_fence' = [marker |-> Line.marker, length |-> Line.run, line |-> at]
    /\ NextLine
    /\ UNCHANGED <<diagnostics, block, output>>

LintInside ==
    /\ Linting /\ Opened
    /\ open_fence' = IF ClosesOpen(Line) THEN [open_fence EXCEPT !.marker = None]
                     ELSE open_fence
    /\ NextLine
    /\ UNCHANGED <<diagnostics, block, output>>

\* lintMarkdownLinks: every link up to an unterminated one; of a local target
\* that leaves the root it is not asked whether it exists.
Reached(links) == {k \in DOMAIN links : \A j \in 1..(k - 1) : links[j] # "unterminated"}
LinkDiagnostics(line) ==
    {[line |-> at, about |-> line.links[k]] :
        k \in {j \in Reached(line.links) : line.links[j] \notin {"external", "present"}}}

LintText ==
    /\ Linting /\ ~Opened /\ ~LooksLikeFence(Line)
    /\ diagnostics' = diagnostics \cup LinkDiagnostics(Line)
    /\ NextLine
    /\ UNCHANGED <<open_fence, block, output>>

\* Renderer::entry leaves out a first line that repeats the title, and one
\* empty line after it.
IsEmpty(line) == line.body = "blank" /\ line.indent = 0 /\ ~line.tab
FirstLine(doc) ==
    IF doc = <<>> \/ doc[1].body # "title" THEN 1
    ELSE IF Len(doc) > 1 /\ IsEmpty(doc[2]) THEN 3 ELSE 2

LintEnd ==
    /\ pc = "lint" /\ at > Len(document)
    /\ diagnostics' = diagnostics \cup
        (IF Opened THEN {[line |-> open_fence.line, about |-> "unclosed"]} ELSE {})
    /\ pc' = "render" /\ at' = FirstLine(document)
    /\ UNCHANGED <<document, open_fence, block, output>>

-----------------------------------------------------------------------------
(* renderMarkdown.                                                         *)

Rendering == pc = "render" /\ at <= Len(document)

\* trim() drops tabs, too, and indent counts the spaces in front of them.
IsCandidate(line) == line.body = "fence" /\ line.indent <= 3 /\ line.run >= 3
IsFence(line)     == IsCandidate(line) /\ ~(line.marker = "backtick" /\ line.rest = "tick")

\* Mutant: any run of the marker closes.
ClosesAny(line) ==
    IsCandidate(line) /\ line.marker = fence /\ line.rest = "blank"
Closes(line) ==
    /\ IsCandidate(line) /\ line.marker = fence
    /\ line.run >= fence_length /\ line.rest = "blank"

Block(kind, lines) == [kind |-> kind, lines |-> lines, kept |-> 0]

\* flushParagraph, and then the blocks of the line.
Flush(blocks) ==
    /\ output' = output \o (IF paragraph = <<>> THEN <<>> ELSE <<Block("paragraph", paragraph)>>)
                        \o blocks
    /\ paragraph' = <<>>

CloseFence ==
    /\ Rendering /\ fence # None /\ Closes(Line)
    /\ fence' = None
    /\ NextLine
    /\ UNCHANGED <<lint, fence_length, fence_indent, paragraph, output>>

\* The opening fence's indentation is taken from the line, as far as it has
\* spaces; the rest is kept.
Kept(line) == IF line.indent > fence_indent THEN line.indent - fence_indent ELSE 0

FencedLine ==
    /\ Rendering /\ fence # None /\ ~Closes(Line)
    /\ output' = Append(output, [Block("code", <<at>>) EXCEPT !.kept = Kept(Line)])
    /\ NextLine
    /\ UNCHANGED <<lint, block>>

OpenFence ==
    /\ Rendering /\ fence = None /\ IsFence(Line)
    /\ Flush(<<>>)
    /\ fence' = Line.marker /\ fence_length' = Line.run /\ fence_indent' = Line.indent
    /\ NextLine
    /\ UNCHANGED lint

\* The remaining lines, in the order the code asks about them.
StartsLikeCode(line) == line.indent >= 4 \/ (line.indent = 0 /\ line.tab)
KindOf(line) ==
    IF StartsLikeCode(line) /\ line.body # "blank" THEN "indented"
    ELSE CASE line.body = "title" -> "heading"
           [] line.body = "fence" -> "text"
           [] OTHER -> line.body

WriteBlock ==
    /\ Rendering /\ fence = None /\ ~IsFence(Line)
    /\ KindOf(Line) # "text"
    /\ Flush(<<Block(KindOf(Line), <<at>>)>>)
    /\ NextLine
    /\ UNCHANGED <<lint, fence, fence_length, fence_indent>>

Extend ==
    /\ Rendering /\ fence = None /\ ~IsFence(Line)
    /\ KindOf(Line) = "text"
    /\ paragraph' = Append(paragraph, at)
    /\ NextLine
    /\ UNCHANGED <<lint, fence, fence_length, fence_indent, output>>

RenderEnd ==
    /\ pc = "render" /\ at > Len(document)
    /\ Flush(<<>>)
    /\ pc' = "done"
    /\ UNCHANGED <<document, at, lint, fence, fence_length, fence_indent>>

Next == \/ LintOpening \/ LintInside \/ LintText \/ LintEnd
        \/ CloseFence \/ FencedLine \/ OpenFence \/ WriteBlock \/ Extend \/ RenderEnd

Spec == Init /\ [][Next]_vars

-----------------------------------------------------------------------------
(* Properties.                                                             *)

Done  == pc = "done"
Shown == FlattenSeq([k \in DOMAIN output |-> output[k].lines])
Shows(kinds) == UNION {{output[k].lines[j] : j \in DOMAIN output[k].lines} :
                    k \in {m \in DOMAIN output : output[m].kind \in kinds}}
Body   == FirstLine(document)..Len(document)
Hidden == Body \ Shows({output[k].kind : k \in DOMAIN output})

\* Hidden lines come in pairs: n is an opening one when an even number of
\* hidden lines stands before it.
IsOpening(n) == Cardinality({m \in Hidden : m < n}) % 2 = 0
\* The opening line of the fence a line stands in, if any.
FenceOf(n) == {m \in Hidden : m < n /\ IsOpening(m) /\ \A h \in Hidden : h <= m \/ h >= n}
ClosedBy(line, opening) ==
    /\ IsCandidate(line) /\ line.marker = opening.marker
    /\ line.run >= opening.run /\ line.rest = "blank"

\* README.md:305: the presentation changes, the answer is preserved.  Every
\* line of the answer is shown once and in its place, however paragraphs,
\* blocks and fences follow each other; all that is hidden is pairs of fence
\* lines that match, and what stands between them, and nothing else, is code.
AnswerIsPreserved ==
    Done =>
        /\ \A i, j \in DOMAIN Shown : i < j => Shown[i] < Shown[j]
        /\ \A n \in Hidden :
            IF IsOpening(n) THEN IsFence(document[n])
            ELSE \A m \in FenceOf(n) : ClosedBy(document[n], document[m])
        /\ \A n \in Body \ Hidden :
            /\ (n \in Shows({"code"})) <=> (FenceOf(n) # {})
            /\ \A m \in FenceOf(n) : ~ClosedBy(document[n], document[m])
            /\ FenceOf(n) = {} => ~IsFence(document[n])

\* The lines a fence of the rendering is opened by and not closed.
LeftOpen == {n \in Hidden : fence # None /\ \A m \in Hidden : m <= n}

\* The lines about which the two scanners are of one mind.
IsPlain(line) == /\ ~line.tab /\ line.rest # "feed"
                 /\ ~(line.marker = "backtick" /\ line.rest = "tick")

ReportedUnclosed == {d.line : d \in {e \in diagnostics : e.about = "unclosed"}}
Prose == Shows({"paragraph", "heading", "quote", "item"})
BrokenIn(n) == {k \in Reached(document[n].links) :
                    document[n].links[k] \in {"missing", "escaping"}}

\* As long as fences are written without tabs, form feeds and backticks in
\* their language, lint and rendering see the same code: the lint reports just
\* the fence that swallows the rest of the answer, and just the links that
\* the user sees as links or in an indented block.
ScannersAgree ==
    Done /\ (\A k \in DOMAIN document : IsPlain(document[k])) =>
        /\ ReportedUnclosed = LeftOpen
        /\ \A n \in Body :
            (\E d \in diagnostics : d.line = n /\ d.about \in {"missing", "escaping"})
            <=> n \in Prose \cup Shows({"indented"}) /\ BrokenIn(n) # {}

=============================================================================
