---------------------------- MODULE MCFunctions -----------------------------
(***************************************************************************)
(* The parts that keep to themselves, in one run: the interpreter ylua,    *)
(* y_sscanf(), and of Lua the tables, the patterns and the scopes of the   *)
(* parser.  A behaviour is of one part; the command line, the table, the   *)
(* text and so on of the others are empty.                                 *)
(***************************************************************************)
EXTENDS MCYlua, LuaTable, LuaScopes, MCYSscanf, MCLuaPatterns, TLC

CONSTANTS Calls, MaxCaptures    \* LuaPatterns

VARIABLES part, buffer, format, bp, args, conversions, log, ended,
          call, answer

Scanning == INSTANCE YSscanf
Matching == INSTANCE LuaPatterns

CONSTANTS nameA, nameB
\* The hashes that an x86_64 gives small integers.
MCHash == (1 :> 1073741824) @@ (2 :> 1074266112) @@ (3 :> 1074790400) @@ (4 :> 1075052544)
       @@ (5 :> 1075314688) @@ (nameA :> 1) @@ (nameB :> 1)
MCSizes == {<<0, 0>>, <<1, 2>>}

Menu(n, most) == [all |-> n, most |-> most]
MCMenus ==
    {Menu(8, ("end" :> 4) @@ ("local" :> 2) @@ ("use" :> 2) @@ ("do" :> 1) @@ ("function" :> 2)
                @@ ("local function" :> 1) @@ ("local = function" :> 1)),
     Menu(6, ("end" :> 3) @@ ("local" :> 2) @@ ("do" :> 2) @@ ("while" :> 2) @@ ("goto" :> 3) @@ ("label" :> 3)),
     Menu(8, ("end" :> 3) @@ ("local" :> 3) @@ ("do" :> 2) @@ ("goto" :> 1) @@ ("label" :> 2)),
     Menu(8, ("end" :> 3) @@ ("local" :> 1) @@ ("use" :> 1) @@ ("function" :> 1) @@ ("do" :> 2)
                @@ ("goto" :> 1) @@ ("label" :> 2)),
     Menu(8, ("end" :> 3) @@ ("local" :> 1) @@ ("use" :> 1) @@ ("function" :> 1) @@ ("while" :> 1)
                @@ ("repeat" :> 1) @@ ("for" :> 1) @@ ("goto" :> 1))}

scanVars == <<buffer, format, bp, args, conversions, log, ended>>
matchVars == <<call, answer>>

NoCommand == argv = << >> /\ env = FALSE /\ tty = FALSE /\ MainInit
NoScan == /\ buffer = << >> /\ format = << >> /\ bp = 0 /\ args = 0
          /\ conversions = 0 /\ log = << >> /\ ended = TRUE
NoTable == Init /\ table = WithNodes(<< >>, 0)
NoCall == call = << >> /\ answer = << >>
NoText == ParserInit /\ menu = CHOOSE m \in Menus : TRUE

MCInit == \/ part = "ylua" /\ MainInit /\ NoScan /\ NoTable /\ NoCall /\ NoText
          \/ part = "y_sscanf" /\ Scanning!Init /\ NoCommand /\ NoTable /\ NoCall /\ NoText
          \/ part = "table" /\ Init /\ NoCommand /\ NoScan /\ NoCall /\ NoText
          \/ part = "pattern" /\ Matching!Init /\ NoCommand /\ NoScan /\ NoTable /\ NoText
          \/ part = "text" /\ ParserInit /\ NoCommand /\ NoScan /\ NoTable /\ NoCall

MCNext ==
    /\ UNCHANGED part
    /\ \/ part = "ylua" /\ MainNext /\ UNCHANGED <<vars, scanVars, matchVars, parserVars>>
       \/ part = "y_sscanf" /\ Scanning!Next /\ UNCHANGED <<interpreterVars, vars, matchVars, parserVars>>
       \/ part = "table" /\ Next /\ UNCHANGED <<interpreterVars, scanVars, matchVars, parserVars>>
       \/ part = "pattern" /\ Matching!Next /\ UNCHANGED <<interpreterVars, vars, scanVars, parserVars>>
       \/ part = "text" /\ ParserNext /\ UNCHANGED <<interpreterVars, vars, scanVars, matchVars>>
MCSpec == MCInit /\ [][MCNext]_<<part, interpreterVars, vars, scanVars, matchVars, parserVars>>

----------------------------------------------------------------------------
\* y_sscanf() takes the longest text for each item, stores what the text spells,
\* overflows nothing, and fills the results in the order they are counted in.
ScanRight ==
    part = "y_sscanf" =>
        /\ Scanning!LongestMatch /\ Scanning!ValuesRight
        /\ Scanning!NoOverflow /\ Scanning!FilledInOrder

\* find, match, gmatch and gsub take the matches that the pattern stands for, with
\* the captures of these and not of what was tried before.
PatternsRight == part = "pattern" => Matching!FindRight /\ Matching!LoopsRight
=============================================================================
