------------------------------- MODULE LuaCalls -------------------------------
(***************************************************************************)
(* gui/lua/ldo.c, with lapi.c and lcorolib.c: calls, protected calls,      *)
(* errors, coroutines and hooks.  What a thread does is kept in two        *)
(* places: the list of its CallInfos, which a yield leaves alone, and the  *)
(* C stack, shared by all threads, which longjmp() cuts.  The program is   *)
(* any sequence of calls, returns, errors, resumes and yields; values and  *)
(* the Lua stack are left out, but for the place of the error handler.     *)
(***************************************************************************)
EXTENDS Integers, Sequences, FiniteSets, SequencesExt

CONSTANTS Threads, MainThread,
          MaxCCalls,      \* LUAI_MAXCCALLS
          ErrorRoom,      \* LUAI_MAXCCALLS >> 3
          MaxFrames,      \* bound: CallInfos of a thread that calls
          MaxAllFrames,   \* bound: CallInfos of all threads together
          AnyThread       \* whether the program resumes threads that are not suspended

ASSUME CallsAssumption == MainThread \in Threads /\ MaxCCalls \in Nat \ {0, 1} /\ ErrorRoom \in Nat

VARIABLES th,      \* thread -> its lua_State
          cstack,  \* the C calls that are active: of all threads, the host's first
          doing    \* what the running thread is about to do, with the status it is thrown

vars == <<th, cstack, doing>>

(* A CallInfo: of a Lua function, whose call may run in the luaV_execute() *)
(* of its caller (CIST_REENTRY), or of a C function.                       *)
CallInfo == [f |-> "lua", reentry |-> FALSE, hooked |-> FALSE, k |-> FALSE, ypcall |-> FALSE,
             stat |-> FALSE, oldErrfunc |-> 0, oldAllowhook |-> TRUE]
LuaFunction(reentry) == [CallInfo EXCEPT !.reentry = reentry]
CFunction(f) == [CallInfo EXCEPT !.f = f]
IsLua(ci) == ci.f = "lua"

(* An active C call: lua_resume() and luaD_pcall(), which have a jump      *)
(* buffer and what they restore, or luaD_call().  "nny" is how many it     *)
(* counts as non-yieldable, "then" what the C function goes on with.       *)
Resuming(t, nCcalls) ==
    [f |-> "resume", thread |-> t, nny |-> 0, nCcalls |-> nCcalls]
PCalling(t, s) ==
    [f |-> "pcall", thread |-> t, nny |-> 1, nCcalls |-> s.nCcalls, ci |-> Len(s.ci),
     allowhook |-> s.allowhook, oldNny |-> s.nny, errfunc |-> s.errfunc]
Calling(t, nny, then) == [f |-> "call", thread |-> t, nny |-> nny, then |-> then]

Thread == Last(cstack).thread    \* the one that runs
Top(t) == Last(th[t].ci)
Go(at) == doing' = [at |-> at, status |-> "OK"]
Throw(status) == doing' = [at |-> "throw", status |-> status]
In(at) == doing.at = at
InLua == In("lua")

Init ==
    /\ th = [t \in Threads |->
               [status |-> "OK", ci |-> IF t = MainThread THEN <<LuaFunction(FALSE)>> ELSE <<>>,
                hasFunction |-> t # MainThread,
                nny |-> IF t = MainThread THEN 2 ELSE 1,
                nCcalls |-> IF t = MainThread THEN 1 ELSE 0, errfunc |-> 0, allowhook |-> TRUE]]
    /\ cstack = <<[f |-> "pcall", thread |-> MainThread, nny |-> 1, nCcalls |-> 0, ci |-> 0,
                   allowhook |-> TRUE, oldNny |-> 1, errfunc |-> 0]>>
    /\ doing = [at |-> "lua", status |-> "OK"]

----------------------------------------------------------------------------
\* The C call n is within the limits, the second of which is for error handlers.
Fits(n) == n < MaxCCalls \/ (n > MaxCCalls /\ n < MaxCCalls + ErrorRoom)

\* A mistake to look for: a call without continuation is not counted.
EnterUncounted(t, s, entry) ==
    LET n == s.nCcalls + 1 IN
    /\ th' = [th EXCEPT ![t] =
                IF Fits(n) THEN [s EXCEPT !.nCcalls = n, !.ci = Append(@, LuaFunction(FALSE))]
                           ELSE [s EXCEPT !.nCcalls = n]]
    /\ cstack' = Append(cstack, IF Fits(n) THEN entry ELSE [entry EXCEPT !.nny = 0])
    /\ CASE Fits(n) -> Go("lua")
         [] n = MaxCCalls -> Go("errormsg")
         [] OTHER -> Throw("ERRERR")

\* luaD_call() of a Lua function by a thread whose state is s, as the C call
\* "entry".
Enter(t, s, entry) ==
    LET n == s.nCcalls + 1 IN
    /\ th' = [th EXCEPT ![t] =
                IF Fits(n) THEN [s EXCEPT !.nCcalls = n, !.nny = @ + entry.nny,
                                          !.ci = Append(@, LuaFunction(FALSE))]
                           ELSE [s EXCEPT !.nCcalls = n]]
    /\ cstack' = Append(cstack, IF Fits(n) THEN entry ELSE [entry EXCEPT !.nny = 0])
    /\ CASE Fits(n) -> Go("lua")
         [] n = MaxCCalls -> Go("errormsg")
         [] OTHER -> Throw("ERRERR")

Room(t) == /\ Len(th[t].ci) < MaxFrames
           /\ FoldSet(LAMBDA u, n : n + Len(th[u].ci), 0, Threads) < MaxAllFrames
Pushed(t, ci) == [th[t] EXCEPT !.ci = Append(@, ci)]
Pop(s) == [s EXCEPT !.ci = Front(@)]

\* OP_CALL of a Lua function; a metamethod called for a Lua instruction; a C
\* function that calls back without a continuation, as those of ltablib.c do.
Call == /\ InLua /\ Room(Thread)
        /\ th' = [th EXCEPT ![Thread] = Pushed(Thread, LuaFunction(TRUE))]
        /\ UNCHANGED <<cstack, doing>>
Metamethod == /\ InLua /\ Room(Thread)
              /\ Enter(Thread, th[Thread], Calling(Thread, 0, "operation"))
Callback == /\ InLua /\ Room(Thread)
            /\ Enter(Thread, Pushed(Thread, CFunction("c")), Calling(Thread, 1, "function"))

\* lua_pcallk(), called by luaB_pcall() or luaB_xpcall() with a continuation:
\* by luaD_pcall() if the thread cannot yield, else the call is protected by
\* lua_resume().  An error handler is the first argument of its function.
Conventional(s) == s.nny > 0
PCall(f) ==
    LET t == Thread
        s == Pushed(t, CFunction(f))
        d == Len(s.ci)
        func == IF f = "xpcall" THEN d ELSE 0
        noted == [s EXCEPT !.errfunc = func,
                           !.ci[d].k = TRUE, !.ci[d].ypcall = TRUE,
                           !.ci[d].oldErrfunc = s.errfunc, !.ci[d].oldAllowhook = s.allowhook]
    IN  /\ InLua /\ Room(t)
        /\ IF Conventional(s) THEN Enter(t, [s EXCEPT !.errfunc = func], PCalling(t, s))
                              ELSE Enter(t, noted, Calling(t, 0, "pcall"))

\* luaG_errormsg(): lua_error() and luaG_runerror() end here.  The handler is
\* called where it was said to be; a place that is no longer the handler's has
\* any value.
IsHandler(s) == s.errfunc <= Len(s.ci) /\ s.ci[s.errfunc].f = "xpcall"
ErrorMsg ==
    LET s == th[Thread] IN
    /\ In("errormsg")
    /\ \/ /\ s.errfunc = 0
          /\ Throw("ERRRUN") /\ UNCHANGED <<th, cstack>>
       \/ /\ s.errfunc # 0 /\ ~IsHandler(s)
          /\ Throw("ERRERR") /\ UNCHANGED <<th, cstack>>
       \/ s.errfunc # 0 /\ Enter(Thread, s, Calling(Thread, 1, "errormsg"))
Error == InLua /\ Go("errormsg") /\ UNCHANGED <<th, cstack>>

\* luaD_hook() with a hook that fails, as ylua's lstop() does.
HookFails == /\ InLua /\ th[Thread].allowhook
             /\ th' = [th EXCEPT ![Thread].allowhook = FALSE,
                                 ![Thread].ci[Len(th[Thread].ci)].hooked = TRUE]
             /\ Go("errormsg") /\ UNCHANGED cstack

----------------------------------------------------------------------------
\* lua_resume() ends in the thread that called it, in luaB_coresume() or
\* luaB_auxwrap(), which passes an error on; "after" are the threads then.
Ended(after, from, failed) ==
    IF failed /\ Last(after[from].ci).f = "wrap"
    THEN th' = after /\ Go("errormsg")
    ELSE th' = [after EXCEPT ![from] = Pop(@)] /\ Go("lua")
LeaveResume(after, failed) ==
    LET t == Thread
        from == cstack[Len(cstack) - 1].thread
        left == [after EXCEPT ![t].nny = 1, ![t].nCcalls = @ - 1]
    IN  Ended(left, from, failed) /\ cstack' = Front(cstack)

\* auxresume() and lua_resume() up to where the coroutine runs.
CanResume(co, nCcalls) ==
    /\ nCcalls < MaxCCalls
    /\ \/ th[co].status = "OK" /\ th[co].ci = <<>>
       \/ th[co].status = "YIELD"
\* A mistake to look for: the status stays that of the yield.
ResumedAsYielded(s, n) == [s EXCEPT !.nCcalls = n, !.nny = 0]
Resumed(s, n) == [s EXCEPT !.nCcalls = n, !.nny = 0, !.status = "OK"]
Resume(co, f) ==
    LET t == Thread
        n == th[t].nCcalls + 1
        called == [th EXCEPT ![t] = Pushed(t, CFunction(f))]
        refused == [called EXCEPT ![co].nny = 1, ![co].nCcalls = n - 1]
        isDead == th[co].status = "OK" /\ th[co].ci = <<>> /\ ~th[co].hasFunction
        active == Resumed(called[co], n)
    IN  /\ InLua /\ Room(t)
        /\ AnyThread \/ th[co].status # "OK" \/ th[co].ci = <<>>
        /\ \/ isDead /\ Ended(called, t, TRUE) /\ UNCHANGED cstack
           \/ ~isDead /\ ~CanResume(co, n) /\ Ended(refused, t, TRUE) /\ UNCHANGED cstack
           \/ /\ ~isDead /\ CanResume(co, n)
              /\ cstack' = Append(cstack, Resuming(co, n))
              /\ IF th[co].status = "OK"
                 THEN /\ th' = [called EXCEPT ![co] = [active EXCEPT
                                   !.hasFunction = FALSE, !.ci = <<LuaFunction(FALSE)>>]]
                      /\ Go("lua")
                 ELSE /\ th' = [called EXCEPT ![co] = Pop(active)]
                      /\ Go("unroll")

\* luaB_yield(): lua_yieldk().
Yield ==
    LET t == Thread
        s == Pushed(t, CFunction("yield"))
    IN  /\ InLua /\ Room(t)
        /\ UNCHANGED cstack
        /\ IF s.nny > 0 THEN th' = [th EXCEPT ![t] = s] /\ Go("errormsg")
           ELSE th' = [th EXCEPT ![t] = [s EXCEPT !.status = "YIELD"]] /\ Throw("YIELD")

\* luaD_throw(): to the jump buffer that the thread has set last.
Jump(t) == LET jumps == {i \in DOMAIN cstack : cstack[i].thread = t /\ cstack[i].f # "call"}
           IN  CHOOSE i \in jumps : \A j \in jumps : j <= i

\* luaD_pcall() after an error, and the end of luaB_pcall(); the host's is the
\* end of the program.
PCallFails(i) ==
    LET e == cstack[i]
        s == [th[e.thread] EXCEPT !.ci = SubSeq(@, 1, e.ci), !.allowhook = e.allowhook,
                                  !.nny = e.oldNny, !.errfunc = e.errfunc, !.nCcalls = e.nCcalls]
    IN  IF i = 1 THEN Go("over") /\ UNCHANGED <<th, cstack>>
        ELSE /\ th' = [th EXCEPT ![e.thread] = Pop(s)]
             /\ cstack' = SubSeq(cstack, 1, i - 1)
             /\ Go("lua")

\* findpcall() and recover().
PCalls(s) == {d \in DOMAIN s.ci : s.ci[d].ypcall}
\* A mistake to look for: the search begins at the other end.
FindFirst(s) == CHOOSE d \in PCalls(s) : \A c \in PCalls(s) : c >= d
FindPCall(s) == CHOOSE d \in PCalls(s) : \A c \in PCalls(s) : c <= d
\* A mistake to look for: hooks stay forbidden.
RecoverNoHooks(s) ==
    LET d == FindPCall(s)
    IN  [s EXCEPT !.ci = [SubSeq(@, 1, d) EXCEPT ![d].stat = TRUE],
                  !.nny = 0, !.errfunc = s.ci[d].oldErrfunc]
Recover(s) ==
    LET d == FindPCall(s)
    IN  [s EXCEPT !.ci = [SubSeq(@, 1, d) EXCEPT ![d].stat = TRUE],
                  !.allowhook = s.ci[d].oldAllowhook, !.nny = 0, !.errfunc = s.ci[d].oldErrfunc]

\* lua_resume() after its coroutine has yielded or failed.
ResumeGoesOn(i, status) ==
    LET e == cstack[i]
        s == [th[e.thread] EXCEPT !.nCcalls = e.nCcalls]
        cut == SubSeq(cstack, 1, i)
        from == cstack[i - 1].thread
        left(ended) == [th EXCEPT ![e.thread] =
                          [ended EXCEPT !.nny = 1, !.nCcalls = @ - 1]]
    IN  CASE status = "YIELD" -> Ended(left(s), from, FALSE) /\ cstack' = Front(cut)
          [] status # "YIELD" /\ PCalls(s) # {} ->
                /\ th' = [th EXCEPT ![e.thread] = Recover(s)]
                /\ cstack' = cut /\ Go("unroll")
          [] OTHER -> Ended(left([s EXCEPT !.status = status]), from, TRUE) /\ cstack' = Front(cut)
Land == /\ In("throw")
        /\ LET i == Jump(Thread)
           IN  IF cstack[i].f = "pcall" THEN PCallFails(i) ELSE ResumeGoesOn(i, doing.status)

----------------------------------------------------------------------------
\* OP_RETURN: to the same luaV_execute(), or to the C call that began it.
Return ==
    LET t == Thread
        s == Pop(th[t])
        e == Last(cstack)
        left == [s EXCEPT !.nny = @ - e.nny, !.nCcalls = @ - 1]
        becomes(new, at) == th' = [th EXCEPT ![t] = new] /\ cstack' = Front(cstack) /\ Go(at)
    IN  /\ InLua
        /\ CASE Top(t).reentry -> th' = [th EXCEPT ![t] = s] /\ UNCHANGED <<cstack, doing>>
             [] ~Top(t).reentry /\ e.f = "resume" ->
                   th' = [th EXCEPT ![t] = s] /\ Go("unroll") /\ UNCHANGED cstack
             [] ~Top(t).reentry /\ e.f = "pcall" ->
                   IF Len(cstack) = 1 THEN Go("over") /\ UNCHANGED <<th, cstack>>
                   ELSE becomes([Pop(left) EXCEPT !.errfunc = e.errfunc], "lua")
             [] ~Top(t).reentry /\ e.f = "call" ->
                   CASE e.then = "operation" -> becomes(left, "lua")
                     [] e.then = "function"  -> becomes(Pop(left), "lua")
                     [] e.then = "pcall"     ->
                           becomes([Pop(left) EXCEPT !.errfunc = Last(left.ci).oldErrfunc], "lua")
                     [] e.then = "errormsg"  ->
                           /\ th' = [th EXCEPT ![t] = left] /\ cstack' = Front(cstack)
                           /\ Throw("ERRRUN")

\* unroll() finds what is left of the coroutine: nothing, a C function, which
\* its continuation ends (finishCcall()), or a Lua function.
FinishCCall(s) == Pop(s)
Unroll ==
    LET t == Thread IN
    /\ In("unroll")
    /\ CASE th[t].ci = <<>> -> LeaveResume(th, FALSE)
         [] th[t].ci # <<>> /\ ~IsLua(Top(t)) ->
               /\ th' = [th EXCEPT ![t] = FinishCCall(@)]
               /\ UNCHANGED <<cstack, doing>>
         [] OTHER -> Go("lua") /\ UNCHANGED <<th, cstack>>

\* The host has the result of the program.
Over == In("over") /\ UNCHANGED vars

Next == \/ Call \/ Metamethod \/ Callback \/ \E f \in {"pcall", "xpcall"} : PCall(f)
        \/ \E co \in Threads, f \in {"resume", "wrap"} : Resume(co, f)
        \/ Yield \/ Error \/ HookFails \/ ErrorMsg \/ Land \/ Return \/ Unroll \/ Over
Spec == Init /\ [][Next]_vars

----------------------------------------------------------------------------
Active(t) == {i \in DOMAIN cstack : cstack[i].thread = t}
ProtectedIn(s) == {d \in DOMAIN s.ci : s.ci[d].f \in {"pcall", "xpcall"}}
Innermost(s) == CHOOSE d \in ProtectedIn(s) : \A c \in ProtectedIn(s) : c <= d

\* Whatever errors and yields have cut short, a thread that is under way has
\* counted the C calls and the non-yieldable calls that are really active
\* (the comments of lua_State in lstate.h, the assertions in lua_resume()), one
\* that is not cannot yield, and hooks are allowed again once no hook runs.
FieldsRestored ==
    InLua =>
      \A t \in Threads :
        LET nnys == {i \in Active(t) : cstack[i].nny = 1}
            base == IF t = MainThread THEN 1 ELSE 0
        IN  IF Active(t) = {} THEN th[t].nny = 1
            ELSE /\ th[t].nny = base + Cardinality(nnys)
                 /\ \E i \in Active(t) : i = th[t].nCcalls /\ \A j \in Active(t) : j <= i
                 /\ th[t].allowhook <=> \A d \in DOMAIN th[t].ci : ~th[t].ci[d].hooked

\* A yield is never taken for an error by a protected call, and what resume finds
\* of a coroutine can be gone on with: C functions with a continuation, and
\* no call that may not yield (the assertions in finishCcall()).
YieldsReachResume ==
    /\ In("throw") /\ doing.status = "YIELD" => cstack[Jump(Thread)].f = "resume"
    /\ In("unroll") /\ th[Thread].ci # <<>> /\ ~IsLua(Top(Thread)) =>
          Top(Thread).k /\ th[Thread].nny = 0

\* An error ends the protected call that was begun last in the thread and is
\* not over, wherever yields have been since, and no other; without
\* one it kills the coroutine, or ends the program.
EndsInnermost ==
    LET t == Thread
        s == th[t]
    IN  CASE ProtectedIn(s) # {} ->
                \/ th'[t].ci = SubSeq(s.ci, 1, Innermost(s) - 1)
                \/ /\ doing'.at = "unroll"
                   /\ Len(th'[t].ci) = Innermost(s) /\ Last(th'[t].ci).stat
          [] ProtectedIn(s) = {} /\ t # MainThread -> th'[t].status = doing.status
          [] OTHER -> doing'.at = "over"
ErrorEndsInnermost ==
    [][In("throw") /\ doing.status # "YIELD" => EndsInnermost]_vars

\* luaB_costatus() as called by the running thread.
CoStatus(co) ==
    CASE co = Thread -> "running"
      [] co # Thread /\ th[co].status = "YIELD" -> "suspended"
      [] co # Thread /\ th[co].status = "OK" /\ th[co].ci # <<>> -> "normal"
      [] co # Thread /\ th[co].status = "OK" /\ th[co].ci = <<>> ->
            IF th[co].hasFunction THEN "suspended" ELSE "dead"
      [] OTHER -> "dead"

\* coroutine.status() tells of each thread whether it has resumed another and
\* waits, and of the others which ones coroutine.resume() can go on with.
StatusTells ==
    InLua => \A co \in Threads \ {Thread} :
        /\ CoStatus(co) = "normal" <=> Active(co) # {}
        /\ CoStatus(co) = "suspended" <=>
              Active(co) = {} /\ (th[co].status = "YIELD" \/ th[co].hasFunction)
        /\ CoStatus(co) = "suspended" => CanResume(co, 0)

\* lstate.h says of errfunc: "current error handling function (stack index)".
ErrfuncIsCurrent ==
    InLua => LET s == th[Thread]
             IN  s.errfunc = IF ProtectedIn(s) = {} \/ s.ci[Innermost(s)].f = "pcall" THEN 0
                             ELSE Innermost(s)
=============================================================================
