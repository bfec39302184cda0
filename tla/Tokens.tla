-------------------------------- MODULE Tokens --------------------------------
(***************************************************************************)
(* From the characters of a query to its words and its type (src/src/      *)
(* query.cpp): lexicalTokens, tokenize, buildPhrases, detectType and       *)
(* QueryProcessor::process.  The walk over the text has one step per chunk *)
(* or separator; the rest of process() is one step.                        *)
(*                                                                         *)
(* A character is a string of length one.  A token is a sequence of        *)
(* characters; which tokens are stopwords, question words and so on is     *)
(* given by CONSTANTS, so that a run can use short ones.                   *)
(***************************************************************************)
EXTENDS Integers, Sequences, FiniteSetsExt, SequencesExt, Phrases

CONSTANTS
    Letters, Digits,    \* the word characters (bytes above 127 are letters)
    LowerCase,          \* asciiLower, on every character
    Texts,              \* what is asked
    CommandTexts,       \* the commands of the entries
    Stopwords,          \* stopwords()
    Why, ExplainWords, How, \* the first words that make a question,
    ExplainPairs, HowPairs, \* and the first two
    ActionVerbs         \* action_verbs

WordChar  == Letters \cup Digits
ChunkChar == WordChar \cup {".", "-", "_"}
Direction == {">", "<"}

Readable == DOMAIN LowerCase
ASSUME AlphabetAssumption ==
    /\ WordChar \cap ({".", "-", "_", " "} \cup Direction) = {} /\ Letters \cap Digits = {}
    /\ ChunkChar \cup Direction \cup {" "} \subseteq Readable
    /\ \A c \in Readable : LowerCase[c] \in Letters <=> c \in Letters
    /\ \A c \in Readable \ Letters : LowerCase[c] = c
    /\ \A c \in Readable :
        LowerCase[c] \in Readable /\ LowerCase[LowerCase[c]] = LowerCase[c]
ASSUME TextAssumption == Texts \cup CommandTexts \subseteq Seq(Readable)

VARIABLES
    stage, text, index,    \* where process() is, in which text, at which byte of it
    output,             \* the tokens so far
    known_commands,     \* known_commands_
    context             \* what process() returns

query_vars == <<stage, text, index, output, known_commands, context>>

-----------------------------------------------------------------------------
(* Chunks.                                                                 *)

Lowered(s) == [i \in DOMAIN s |-> LowerCase[s[i]]]

\* The last position of the run of chosen positions, or of such characters,
\* that starts at i.
LastOfRun(i, n, chosen) == Max({j \in i..n : i..j \subseteq chosen})
RunEnd(s, i, chars) == LastOfRun(i, Len(s), {k \in DOMAIN s : s[k] \in chars})

\* The maximal runs of chosen positions of s, in order.
Runs(s, chosen) ==
    LET End(i) == LastOfRun(i, Len(s), chosen)
        from[i \in 1..Len(s) + 1] ==
            IF i > Len(s) THEN <<>>
            ELSE IF i \notin chosen THEN from[i + 1]
            ELSE <<SubSeq(s, i, End(i))>> \o from[End(i) + 1]
    IN from[1]

StartsFlag(chunk) ==
    LET prefix == IF chunk[2] = "-" THEN 2 ELSE 1 IN
    /\ Len(chunk) > prefix
    /\ ~(prefix = 2 /\ chunk[3] = "-")
    /\ \E i \in prefix + 1..Len(chunk) : chunk[i] \in WordChar

IsFlagChunk(chunk) == Len(chunk) >= 2 /\ chunk[1] = "-" /\ StartsFlag(chunk)

WithoutTrailingDots(s) ==
    SubSeq(s, 1, Max({0} \cup {i \in DOMAIN s : s[i] # "."}))

\* appendDotAware on what hyphens and underscores separate: a dot stays
\* between two word characters.
DotsInside(chunk) ==            \* mutant: whatever follows the dot
    {i \in DOMAIN chunk :
        \/ chunk[i] \in WordChar
        \/ chunk[i] = "." /\ i \in 2..Len(chunk) - 1 /\ chunk[i - 1] \in WordChar}
KeptPositions(chunk) ==
    {i \in DOMAIN chunk :
        \/ chunk[i] \in WordChar
        \/ /\ chunk[i] = "." /\ i \in 2..Len(chunk) - 1
           /\ chunk[i - 1] \in WordChar /\ chunk[i + 1] \in WordChar}

AppendChunk(chunk) ==
    IF IsFlagChunk(chunk) THEN <<WithoutTrailingDots(chunk)>>
    ELSE Runs(chunk, KeptPositions(chunk))

-----------------------------------------------------------------------------
(* lexicalTokens: what it consumes and writes at each position.            *)

ChunkAt(s, i) == Lowered(SubSeq(s, i, RunEnd(s, i, ChunkChar)))

IsRedirection(s, i) ==
    LET end == RunEnd(s, i, ChunkChar) IN
    /\ \A k \in i..end : s[k] \in Digits
    /\ end < Len(s) /\ s[end + 1] \in Direction

\* Digits and all the operators of one direction.
WithSpacesEnd(s, i) ==          \* mutant: and the spaces behind
    LET end == RunEnd(s, i, ChunkChar) IN RunEnd(s, end + 1, {s[end + 1], " "})
RedirectionEnd(s, i) ==
    LET end == RunEnd(s, i, ChunkChar) IN RunEnd(s, end + 1, {s[end + 1]})

LexedFrom(s) ==
    LET from[i \in 1..Len(s) + 1] ==
            IF i > Len(s) THEN <<>>
            ELSE IF s[i] \notin ChunkChar THEN from[i + 1]
            ELSE IF IsRedirection(s, i)
                 THEN <<SubSeq(s, i, RedirectionEnd(s, i))>> \o from[RedirectionEnd(s, i) + 1]
            ELSE AppendChunk(ChunkAt(s, i)) \o from[RunEnd(s, i, ChunkChar) + 1]
    IN from[1]

\* joinTokens: spaces between the tokens.
Joined(tokens) == IF tokens = <<>> THEN <<>>
                  ELSE Tail(FlattenSeq([i \in DOMAIN tokens |-> <<" ">> \o tokens[i]]))

\* InvertedIndex::build passes every token of every command on ...
AllOfIt(command) == {command}       \* mutant: commands are kept as they are written
CommandTokens(command) == ToSet(LexedFrom(command))
IndexCommands == UNION {CommandTokens(command) : command \in CommandTexts}

\* ... and the constructor of QueryProcessor takes each apart once more.
KnownCommands ==
    {Joined(LexedFrom(command)) : command \in {c \in IndexCommands : LexedFrom(c) # <<>>}}

QueryInit ==
    /\ stage = "lex" /\ text \in Texts /\ index = 1 /\ output = <<>> /\ context = <<>>
    /\ known_commands = KnownCommands

Here == text[index]
Inside == stage = "lex" /\ index <= Len(text)

SkipByte ==
    /\ Inside /\ Here \notin ChunkChar
    /\ index' = index + 1
    /\ UNCHANGED <<stage, text, output, known_commands, context>>

Redirection ==
    /\ Inside /\ Here \in ChunkChar /\ IsRedirection(text, index)
    /\ output' = Append(output, SubSeq(text, index, RedirectionEnd(text, index)))
    /\ index' = RedirectionEnd(text, index) + 1
    /\ UNCHANGED <<stage, text, known_commands, context>>

AfterChunk(i)  == RunEnd(text, i, ChunkChar) + 1
WithinChunk(i) == RunEnd(text, i, ChunkChar)     \* mutant: the last byte again
Beyond(i) == AfterChunk(i)

Chunk ==
    /\ Inside /\ Here \in ChunkChar /\ ~IsRedirection(text, index)
    /\ output' = output \o AppendChunk(ChunkAt(text, index))
    /\ index' = Beyond(index)
    /\ UNCHANGED <<stage, text, known_commands, context>>

-----------------------------------------------------------------------------
(* process().                                                              *)

Significant(tokens) ==
    FlattenSeq([i \in DOMAIN tokens |-> IF tokens[i] \in Stopwords THEN <<>> ELSE <<tokens[i]>>])

LooksLikeShellSyntax(token) ==
    \/ IsFlagChunk(token)
    \/ \E i \in 2..Len(token) : /\ token[i] \in Direction
                                /\ \A k \in 1..i - 1 : token[k] \in Digits

\* A known command, alone or with a space behind it.
StartsWithCommand(normalized) ==
    \E command \in known_commands :
        /\ IsPrefix(command, normalized)
        /\ Len(normalized) > Len(command) => normalized[Len(command) + 1] = " "

BeginsWith(tokens, pairs) == Len(tokens) >= 2 /\ SubSeq(tokens, 1, 2) \in pairs

DetectType(tokens) ==
    LET significant == Significant(tokens) IN
    IF tokens = <<>> THEN "general"
    ELSE IF Head(tokens) = Why THEN "why"
    ELSE IF Head(tokens) \in ExplainWords \/ BeginsWith(tokens, ExplainPairs) THEN "explain"
    ELSE IF Head(tokens) = How \/ BeginsWith(tokens, HowPairs) THEN "how_to"
    ELSE IF \E t \in ToSet(significant) : LooksLikeShellSyntax(t) THEN "command"
    ELSE IF StartsWithCommand(Joined(significant)) THEN "command"
    ELSE IF significant # <<>> /\ Head(significant) \in ActionVerbs THEN "how_to"
    ELSE "general"

\* buildPhrases: the whole when it is long, then the runs of five words to
\* two, each once.
MaximumNgramLength == 5
RunsOfLength(s, n) == {SubSeq(s, i, i + n - 1) : i \in 1..Len(s) - n + 1}
BuildPhrases(s) ==
    {p \in {s} : Len(s) > MaximumNgramLength} \cup
    UNION {RunsOfLength(s, n) : n \in 2..Min({Len(s), MaximumNgramLength})}

Process ==
    /\ stage = "lex" /\ index > Len(text)
    /\ LET sequence == Significant(output) IN
       context' = [type |-> DetectType(output), sequence_tokens |-> sequence,
                   tokens |-> Deduplicated(sequence), phrases |-> BuildPhrases(sequence)]
    /\ stage' = "done"
    /\ UNCHANGED <<text, index, output, known_commands>>

QueryWork == SkipByte \/ Redirection \/ Chunk \/ Process
QueryDone == stage = "done" /\ UNCHANGED query_vars
QueryNext == QueryWork \/ QueryDone
QuerySpec == QueryInit /\ [][QueryNext]_query_vars

-----------------------------------------------------------------------------
(* Properties.                                                             *)

WordCharsOf(s) == FlattenSeq([i \in DOMAIN s |-> IF s[i] \in WordChar THEN <<s[i]>> ELSE <<>>])

\* Tokens joined with spaces are tokenized again all over the program (lint,
\* aliases, concepts, known commands); that must give the same tokens.
TokensAreStable == stage = "done" => LexedFrom(Joined(output)) = output

\* No letter or digit of the text is lost, doubled or moved, whatever stands
\* around it; up to here each stood before the walk's position.
NothingIsLost ==
    FlattenSeq([i \in DOMAIN output |-> WordCharsOf(output[i])])
        = Lowered(WordCharsOf(SubSeq(text, 1, index - 1)))

\* A space separates: what stands before it has no influence on the tokens
\* behind it, so that the words of an alias inside a query are the words of
\* the alias.
SpaceSeparates ==
    stage = "done" => \A i \in DOMAIN text : text[i] = " " =>
        output = LexedFrom(SubSeq(text, 1, i - 1)) \o LexedFrom(SubSeq(text, i + 1, Len(text)))

IsQuestion(tokens) == \/ Head(tokens) \in {Why, How} \cup ExplainWords
                      \/ BeginsWith(tokens, ExplainPairs \cup HowPairs)

\* The query, the index and the constructor take commands apart in the same
\* way.  A query that starts with a command of some entry, as the entry writes
\* it, is of type command, unless the command is a stopword or the query is a
\* question; and nothing else is of that type but shell syntax and what starts
\* with a whole word of a command.
CommandsAreRecognized ==
    stage = "done" =>
        /\ \A command \in CommandTexts :
            /\ IsPrefix(command, text)
            /\ Len(text) > Len(command) => text[Len(command) + 1] = " "
            /\ LexedFrom(command) # <<>> /\ Head(LexedFrom(command)) \notin Stopwords
            => context.type = "command" \/ IsQuestion(output)
        /\ context.type = "command" =>
            \/ \E t \in ToSet(Significant(output)) : LooksLikeShellSyntax(t)
            \/ \E command \in CommandTexts :
                Head(Significant(output)) \in ToSet(LexedFrom(command))

=============================================================================
