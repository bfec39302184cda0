------------------------------ MODULE MCProgram ------------------------------
(***************************************************************************)
(* Every list of up to three of eighteen arguments, and of four of nine,   *)
(* for a program that stops behind the parse because it has no current     *)
(* directory; shorter lists, and longer ones of interest, for one that     *)
(* goes on, over directories that come and go.                             *)
(***************************************************************************)
EXTENDS Program, TLC

MCInline == "--limit=7" :> <<"--limit", "7">> @@ "--knowledge=" :> <<"--knowledge", "">>
    @@ "--knowledge=given" :> <<"--knowledge", "given">>
MCNumberOf == "1" :> 1 @@ "7" :> 7 @@ "200" :> 200
MCDashed == {"--", "-h", "--help", "-V", "--version", "--explain", "--json",
             "--raw", "--knowledge", "--limit", "-r"} \cup DOMAIN MCInline

UpTo(n, items) == UNION {[1..k -> items] : k \in 0..n}

Parsing == UpTo(3, {"--", "--help", "-V", "--explain", "--json", "--raw", "--knowledge",
                    "--limit", "-r", "search", "list", "show", "validate",
                    "7", "200", "", "--limit=7", "--knowledge="})
    \cup [1..4 -> {"--", "--help", "--json", "--raw", "--knowledge", "--limit",
                   "validate", "7", "--limit=7"}]
\* Lists that meet every command, and those on which the surroundings tell.
Plain == UpTo(2, {"--", "--help", "-V", "--json", "--raw", "--explain", "-r", "list",
                  "show", "validate", "given", "--knowledge=given"})
Placed == {<<"given">>, <<"validate">>, <<"--help">>, <<"list", "--raw">>, <<"--", "list">>,
           <<"--json", "validate", "given">>, <<"--knowledge=given", "list">>,
           <<"--knowledge", "given", "validate", "given">>,
           <<"given", "--", "--json">>, <<"show", "given", "--json">>,
           <<"--limit", "1", "--json", "given">>, <<"search", "given", "--limit">>}
MCArgumentLists == Parsing \cup Plain \cup Placed

Start(args, cwd, env, dirs) ==
    [arguments |-> args, cwd_known |-> cwd, environment |-> env, present |-> dirs]

MCPlacements == {{}, {"given"}, {"environment", "current directory"},
                 {"beside the executable", "installed"}, {"installed"},
                 {"given", "current directory"}}
MCPlaces == UNION MCPlacements
MCStarts ==
    {Start(a, FALSE, Absent, {}) : a \in MCArgumentLists} \cup
    {Start(a, TRUE, Absent, {"given", "current directory"}) : a \in Plain} \cup
    {Start(a, TRUE, e, p) :
        a \in Placed, e \in {Absent, "", "environment"}, p \in MCPlacements}
=============================================================================
