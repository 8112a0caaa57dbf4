-------------------------------- MODULE Ylua --------------------------------
(***************************************************************************)
(* ylua/ylua.c: the stand-alone interpreter from main() to the exit status,*)
(* and the SIGINT that may come at any time.  Its handler cannot stop Lua  *)
(* itself; it sets a debug hook that does so at the next opportunity.      *)
(***************************************************************************)
EXTENDS Integers, Sequences, FiniteSetsExt

CONSTANTS Commands,    \* argv[1 ..]: sequences of Words
          MaxSignals,  \* bound: SIGINTs that come
          MaxLines     \* bound: lines that the user types

\* What an argument looks like: "-eX" and "-lX" have their argument
\* concatenated, "--x" and "-ix" have extra characters, "-z" is no option.
Words == {"word", "-", "--", "--x", "-E", "-i", "-ix", "-v", "-e", "-eX", "-l", "-lX", "-z"}

ASSUME YluaAssumption ==
    /\ Commands \subseteq Seq(Words)
    /\ MaxSignals \in Nat
    /\ MaxLines \in Nat

VARIABLES
    argv, env, tty,  \* the command line; LUA_INIT is set; stdin is a terminal
    pc,              \* where pmain() is: see Places
    i,               \* index of the argument that runargs() is at
    lines,           \* number of chunks read from the terminal
    result,          \* EXIT_SUCCESS, once it has exited
    docall,          \* how far docall() is: "no", "running", "returned"
    status,          \* of the last load or call: LUA_OK
    thread,          \* the Lua thread that runs: "main" or "coroutine"
    sigint,          \* the disposition of SIGINT: "DFL" or "laction"
    hook,            \* the hook lstop is set in the main thread
    dead,            \* killed by SIGINT
    arms,            \* number of calls of laction()
    caught,          \* history: laction() has run since docall() began
    wanted,          \* history: an interrupt that no lstop() has answered
    ran              \* history: what has been loaded or called, with its status

commandVars == <<argv, env, tty>>
mainVars    == <<pc, i, lines, result>>
callVars    == <<docall, status, thread, ran>>
signalVars  == <<sigint, hook, dead, arms, caught, wanted>>
interpreterVars == <<commandVars, mainVars, callVars, signalVars>>

Places == {"start", "init", "runargs", "script", "choose", "stdin", "read", "print", "exit"}

Begins(w) == w # "word"     \* with "-"

----------------------------------------------------------------------------
(* The command line.                                                       *)

Found(script) == [script |-> script, has |-> {}]
With(h, c)    == [c EXCEPT !.has = @ \union h]

\* A mistake to look for: the argument may be the next option.
LacksIfLast(a, k) == k = Len(a)

\* "no next argument or it is another option"
Lacks(a, k) == k = Len(a) \/ Begins(a[k + 1])

\* collectargs() at argument k, if from tells what it finds further on.
\* noextrachars() returns -1 for any index.
CollectAt(a, k, from) ==
    IF k > Len(a) THEN Found(0)
    ELSE CASE a[k] \in {"word", "-"} -> Found(k)
           [] a[k] = "--"  -> Found(IF k < Len(a) THEN k + 1 ELSE 0)
           [] a[k] \in {"--x", "-ix"} -> Found(-1)
           [] a[k] = "-E"  -> With({"E"}, from[k + 1])
           [] a[k] = "-i"  -> With({"i", "v"}, from[k + 1])
           [] a[k] = "-v"  -> With({"v"}, from[k + 1])
           [] a[k] = "-eX" -> With({"e"}, from[k + 1])
           [] a[k] = "-lX" -> from[k + 1]
           [] a[k] \in {"-e", "-l"} ->
                With(IF a[k] = "-e" THEN {"e"} ELSE {},
                     IF Lacks(a, k) THEN Found(-k) ELSE from[k + 2])
           [] OTHER -> Found(-k)

CollectFrom(a) == LET from[k \in 1 .. Len(a) + 2] == CollectAt(a, k, from) IN from

\* The index of the script, 0, or the negative index of what is wrong, and the
\* options seen.
Collect(a) == CollectFrom(a)[1]

Args   == Collect(argv)
LastOption == IF Args.script > 0 THEN Args.script - 1 ELSE Len(argv)

----------------------------------------------------------------------------
(* docall(), and what is run by it.                                        *)

Alive == ~dead /\ pc # "exit"
IsAt(place) == Alive /\ pc = place

\* pmain() returns, and main() does; a hook that is still set answers at the
\* return of pmain(), as an error that main() sees.
Exit(ok) == pc' = "exit" /\ result' = (ok /\ ~hook) /\ UNCHANGED <<i, lines>>
GoTo(place) == pc' = place /\ UNCHANGED <<i, lines, result>>

\* A mistake to look for: the disposition stays as it is.
InstallNothing == UNCHANGED sigint
\* signal(SIGINT, laction) and signal(SIGINT, SIG_DFL) around lua_pcall().
Install == sigint' = "laction"

Restore == sigint' = "DFL"

\* luaL_loadfile() or luaL_loadbuffer(), unless what is to be run is require,
\* and docall() if that went well.
Run(what, loads) ==
    /\ docall = "no"
    /\ \/ /\ docall' = "running"
          /\ ran' = Append(ran, [what |-> what, ok |-> TRUE])
          /\ Install /\ caught' = FALSE
          /\ UNCHANGED status
       \/ /\ loads
          /\ docall' = "returned" /\ status' = FALSE
          /\ ran' = Append(ran, [what |-> what, ok |-> FALSE])
          /\ UNCHANGED <<sigint, caught>>
    /\ UNCHANGED <<commandVars, thread, hook, dead, arms, wanted>>

Finished(ok) ==
    /\ docall' = "returned" /\ status' = ok
    /\ ran' = [ran EXCEPT ![Len(ran)].ok = ok]
    /\ UNCHANGED thread

\* lstop() answers at the next instruction, call or return: a call that begins
\* with the hook set gets no further.
Proceeds == hook => caught

\* lua_pcall() returns; the hook may just have come too late.
Return ==
    /\ Alive /\ docall = "running" /\ thread = "main" /\ Proceeds
    /\ \E ok \in BOOLEAN : Finished(ok)
    /\ UNCHANGED <<commandVars, mainVars, signalVars>>

\* The program resumes a coroutine, which has no hook, or that yields.
Switch ==
    /\ Alive /\ docall = "running" /\ Proceeds
    /\ thread' = IF thread = "main" THEN "coroutine" ELSE "main"
    /\ UNCHANGED <<commandVars, mainVars, docall, status, ran, signalVars>>

\* The end of docall(), or of a load that failed, and report().
Leave ==
    /\ docall = "returned" /\ docall' = "no"
    /\ Restore
    /\ UNCHANGED <<commandVars, status, thread, ran, hook, dead, arms, caught, wanted>>

\* A mistake to look for: the status is not looked at.
GoOnAnyway(place) == GoTo(place)
GoOnIfOk(place) == IF status THEN GoTo(place) ELSE Exit(FALSE)

Only == UNCHANGED <<commandVars, callVars, signalVars>>

----------------------------------------------------------------------------
(* pmain()                                                                 *)

\* Up to runargs(); a bad command line prints the usage.
Start ==
    /\ IsAt("start") /\ Only
    /\ IF Args.script < 0 THEN Exit(FALSE)
       ELSE GoTo(IF env /\ "E" \notin Args.has THEN "init" ELSE "runargs")

\* handle_luainit()
LuaInit    == IsAt("init") /\ Run(<<"init", 0>>, TRUE) /\ UNCHANGED mainVars
LuaInitEnd == IsAt("init") /\ Leave /\ GoOnIfOk("runargs")

TakesNext(k) == argv[k] \in {"-e", "-l"}

\* Where the argument of an option is, the same word or the next.
Text(k) == IF TakesNext(k) THEN k + 1 ELSE k

RunsE(k) == argv[k] \in {"-e", "-eX"}
RunsL(k) == argv[k] \in {"-l", "-lX"}

\* runargs(): -e loads a string, -l calls require.
RunArg ==
    /\ IsAt("runargs") /\ i <= LastOption
    /\ \/ RunsE(i) /\ Run(<<"e", Text(i)>>, TRUE)
       \/ RunsL(i) /\ Run(<<"l", Text(i)>>, FALSE)
    /\ UNCHANGED mainVars

RunArgEnd ==
    /\ IsAt("runargs") /\ Leave
    /\ IF status
         THEN /\ i' = Text(i) + 1
              /\ UNCHANGED <<pc, lines, result>>
         ELSE Exit(FALSE)

PassArg ==
    /\ IsAt("runargs") /\ docall = "no" /\ Only
    /\ \/ /\ i <= LastOption /\ ~RunsE(i) /\ ~RunsL(i)
          /\ i' = i + 1
          /\ UNCHANGED <<pc, lines, result>>
       \/ i > LastOption /\ GoTo(IF Args.script > 0 THEN "script" ELSE "choose")

\* handle_script(): "-" is stdin, unless it comes after "--".
ReadsStdin ==
    LET n == Args.script IN argv[n] = "-" /\ (n = 1 \/ argv[n - 1] # "--")

RunScript ==
    /\ IsAt("script")
    /\ Run(<<IF ReadsStdin THEN "stdin" ELSE "file", Args.script>>, TRUE)
    /\ UNCHANGED mainVars
RunScriptEnd == IsAt("script") /\ Leave /\ GoOnIfOk("choose")

\* What is left: the prompt, stdin as a file, or nothing.
Choose ==
    LET bare == Args.script = 0 /\ Args.has \intersect {"e", "v"} = {} IN
    /\ IsAt("choose") /\ Only
    /\ IF "i" \in Args.has \/ (bare /\ tty) THEN GoTo("read")
       ELSE IF bare THEN GoTo("stdin")
       ELSE Exit(TRUE)

\* dofile(L, NULL), whose status is not looked at.
RunStdin    == IsAt("stdin") /\ Run(<<"stdin", 0>>, TRUE) /\ UNCHANGED mainVars
RunStdinEnd == IsAt("stdin") /\ Leave /\ Exit(TRUE)

\* dotty(): loadline() reads lines until they are a chunk or wrong; the end of
\* the input ends it, in the middle of a chunk as well.
ReadChunk ==
    /\ IsAt("read") /\ lines < MaxLines /\ lines' = lines + 1
    /\ Run(<<"chunk", 0>>, TRUE)
    /\ UNCHANGED <<pc, i, result>>
ReadEnd == IsAt("read") /\ docall = "no" /\ Exit(TRUE) /\ Only

\* What the chunk returns is printed by a call outside of docall().
ReadChunkEnd ==
    /\ IsAt("read") /\ Leave
    /\ GoTo("read") \/ (status /\ GoTo("print"))
PrintEnd == IsAt("print") /\ ~hook /\ GoTo("read") /\ Only

----------------------------------------------------------------------------
(* SIGINT                                                                  *)

SetHook == hook' = TRUE

\* The default action, or laction().
Signal ==
    /\ Alive /\ arms < MaxSignals
    /\ IF sigint = "DFL" THEN dead' = TRUE /\ UNCHANGED <<sigint, hook, arms, caught, wanted>>
       ELSE /\ sigint' = "DFL" /\ SetHook
            /\ arms' = arms + 1 /\ caught' = TRUE /\ wanted' = TRUE
            /\ UNCHANGED dead
    /\ UNCHANGED <<commandVars, mainVars, callVars>>

Unhook == hook' = FALSE

\* lstop() raises its error in what the main thread runs: the chunk, which may
\* catch it, or print.
Stop ==
    /\ Alive /\ hook /\ thread = "main"
    /\ Unhook /\ wanted' = FALSE
    /\ \/ /\ docall = "running"
          /\ Finished(FALSE) \/ UNCHANGED callVars
          /\ UNCHANGED mainVars
       \/ pc = "print" /\ GoTo("read") /\ UNCHANGED callVars
    /\ UNCHANGED <<commandVars, sigint, dead, arms, caught>>

----------------------------------------------------------------------------
MainInit ==
    /\ argv \in Commands /\ env \in BOOLEAN /\ tty \in BOOLEAN
    /\ pc = "start" /\ i = 1 /\ lines = 0 /\ result = FALSE
    /\ docall = "no" /\ status = TRUE /\ thread = "main" /\ ran = << >>
    /\ sigint = "DFL" /\ hook = FALSE /\ dead = FALSE /\ arms = 0
    /\ caught = FALSE /\ wanted = FALSE

Main == \/ Start \/ LuaInit \/ LuaInitEnd \/ RunArg \/ RunArgEnd \/ PassArg
        \/ RunScript \/ RunScriptEnd \/ Choose \/ RunStdin \/ RunStdinEnd
        \/ ReadChunk \/ ReadEnd \/ ReadChunkEnd \/ PrintEnd

MainNext == Main \/ Return \/ Switch \/ Signal \/ Stop

MainSpec == MainInit /\ [][MainNext]_interpreterVars

----------------------------------------------------------------------------
(* Properties.                                                             *)

\* runargs() asserts that it is at an option.
TypeOK ==
    /\ pc \in Places /\ lines \in 0 .. MaxLines
    /\ i \in 1 .. Len(argv) + 1
    /\ pc = "runargs" /\ i <= LastOption => Begins(argv[i])
    /\ docall \in {"no", "running", "returned"} /\ thread \in {"main", "coroutine"}
    /\ sigint \in {"DFL", "laction"} /\ arms \in 0 .. MaxSignals
    /\ {status, result, hook, dead, caught, wanted} \subseteq BOOLEAN

(* What the command line asks for, without reading it from left to right.  *)

IsArgument(k) == k > 1 /\ argv[k] = "word" /\ argv[k - 1] \in {"-e", "-l"}
Ends == {k \in DOMAIN argv : argv[k] \in {"-", "--"} \/ (argv[k] = "word" /\ ~IsArgument(k))}
EndOfOptions == IF Ends = {} THEN Len(argv) + 1 ELSE Min(Ends)
Preceding(words) == {k \in 1 .. EndOfOptions - 1 : argv[k] \in words}
Wrong ==
    \/ Preceding({"--x", "-ix", "-z"}) # {}
    \/ \E k \in Preceding({"-e", "-l"}) : k = Len(argv) \/ argv[k + 1] # "word"

AskedInit == IF env /\ Preceding({"-E"}) = {} THEN {<<"init", 0>>} ELSE {}
AskedOptions ==
    {<<"e", k>> : k \in Preceding({"-eX"})} \union {<<"e", k + 1>> : k \in Preceding({"-e"})}
    \union {<<"l", k>> : k \in Preceding({"-lX"})} \union {<<"l", k + 1>> : k \in Preceding({"-l"})}
AskedScript ==
    LET k == EndOfOptions IN
    IF k > Len(argv) \/ (argv[k] = "--" /\ k = Len(argv)) THEN {}
    ELSE {IF argv[k] = "--" THEN <<"file", k + 1>>
          ELSE <<IF argv[k] = "-" THEN "stdin" ELSE "file", k>>}
AskedStdin ==
    IF ~tty /\ AskedScript = {} /\ Preceding({"-e", "-eX", "-i", "-v"}) = {} THEN {<<"stdin", 0>>}
    ELSE {}
Asked == IF Wrong THEN {} ELSE AskedInit \union AskedOptions \union AskedScript \union AskedStdin

\* Where it stands: LUA_INIT before everything, stdin that was not asked for after.
Place(what) == IF what = <<"stdin", 0>> THEN Len(argv) + 1 ELSE what[2]

NotTyped == {n \in DOMAIN ran : ran[n].what[1] # "chunk"}
HasRun(what) == \E n \in NotTyped : ran[n].what = what

\* What is run is what the command line asks for: LUA_INIT, each -e and -l with
\* its own argument, in order, and the script; up to the first that fails or an
\* end by SIGINT, and nothing at all if something is wrong with an option.
RunsAsAsked ==
    /\ \A n \in NotTyped : ran[n].what \in Asked
    /\ \A m, n \in NotTyped : m < n => Place(ran[m].what) < Place(ran[n].what) /\ ran[m].ok
    /\ \A n \in NotTyped, what \in Asked : Place(what) < Place(ran[n].what) => HasRun(what)
    /\ pc = "exit" => (\A what \in Asked : HasRun(what)) \/ \E n \in NotTyped : ~ran[n].ok

\* The exit status tells a failure of what was asked for, or an interrupt that
\* nothing else answered; but not of what is typed, or is stdin without being
\* asked for.
ExitTells ==
    LET told == {n \in DOMAIN ran : ran[n].what \notin {<<"chunk", 0>>, <<"stdin", 0>>}} IN
    pc = "exit" => result = (~Wrong /\ (\A n \in told : ran[n].ok) /\ ~wanted)

\* "if another SIGINT happens before lstop, terminate process": while a chunk
\* runs, the first SIGINT does not.
KilledOnlyAgain == [][~dead /\ dead' /\ docall = "running" => caught]_interpreterVars

=============================================================================
