------------------------------- MODULE LuaGC -------------------------------
(***************************************************************************)
(* gui/lua/lgc.c with what lfunc.c, lstring.c, lapi.c, lstate.c and lvm.c  *)
(* do to the collector's lists and colours: the incremental and            *)
(* generational collector of Lua, and the program that it interrupts.      *)
(***************************************************************************)
EXTENDS Integers, FiniteSetsExt, SequencesExt

CONSTANTS
    Tables, Userdata, Strings, Threads, Closures, Upvals, Protos,  \* addresses
    MainThread, Registry,
    NULL,        \* no object; nil
    Number,      \* a key that is not collectable, as those of the array part
    Mode,        \* which of "k" and "v" the __mode of a metatable has
    Finalizers,  \* metatables that have a __gc
    Programs,    \* what the program may do, a set of records: the addresses it
                 \* uses, the tables and keys it assigns to, the metatables it
                 \* sets, and whether it switches to generational mode
    SweepMax,    \* GCSWEEPMAX
    MaxStack,    \* bound: values on a thread's stack
    MaxEntries,  \* bound: entries of a table
    MaxCalls     \* bound: finalizers that run inside each other

Objects == Tables \union Userdata \union Strings \union Threads
           \union Closures \union Upvals \union Protos
Listed  == Objects \ Strings
Lists   == {"allgc", "finobj", "tobefnz"}
GrayLists == {"gray", "grayagain", "weak", "allweak", "ephemeron"}
HasGclist == Tables \union Closures \union Protos \union Threads

VARIABLES
    g,           \* the global_State and the heap: see Fresh
    program,     \* one of Programs
    L,           \* the thread that runs
    finalizing,  \* for each finalizer that runs, the height of the stack below
    called       \* history: objects whose finalizer has been called

vars == <<g, program, L, finalizing, called>>

\* The program's part: what is allocated, the entries and metatables, the
\* stacks, the open upvalues of each thread, deepest last, the level that an
\* upvalue is open at (0 if it is closed, its value being its own), prototype
\* and upvalue of a closure, the cache of a prototype.
\* The collector's part: the state, colours, bits and lists.  "white" is the
\* current white and "dead" the other one.  The five gray lists share one field of
\* an object, so it can be in one of them only.  "stuck" is the object at which a
\* loop of the collector that never ends goes round.
Fresh == [
    live |-> {MainThread, Registry}, strt |-> {},
    entries |-> [t \in Tables |-> << >>], meta |-> [o \in Tables \union Userdata |-> NULL],
    stack |-> [th \in Threads |-> << >>], openupval |-> [th \in Threads |-> << >>],
    level |-> [u \in Upvals |-> 0], value |-> [u \in Upvals |-> NULL],
    proto |-> [c \in Closures |-> NULL], upval |-> [c \in Closures |-> NULL],
    cache |-> [p \in Protos |-> NULL],
    gcstate |-> "pause", gckind |-> "normal",
    color |-> [o \in Objects |-> "white"], old |-> {}, separated |-> {}, finalized |-> {},
    next |-> [p \in Lists \union Listed |-> IF p = "allgc" THEN Registry ELSE NULL],
    gclist |-> [p \in GrayLists \union HasGclist |-> NULL], stuck |-> NULL,
    sweepgc |-> NULL, sweepfin |-> NULL, sweepstr |-> {}]

IsWhite(s, o)    == o \in Objects /\ s.color[o] \in {"white", "dead"}
Paint(s, o, c)   == [s EXCEPT !.color = [@ EXCEPT ![o] = c]]
IsGenerational(s) == s.gckind = "gen"
SweepPhases      == {"sweepstring", "sweepudata", "sweep"}
KeepInvariant(s) == IsGenerational(s) \/ s.gcstate \in {"propagate", "atomic"}

----------------------------------------------------------------------------
(* Gray lists.  Nobody asks whether an object is in one already.           *)

Gray(s)         == s.gclist["gray"]
Headed(s, p, o) == [s EXCEPT !.gclist = [@ EXCEPT ![p] = o]]
Link(s, o, l)   == [s EXCEPT !.gclist = [@ EXCEPT ![o] = s.gclist[l], ![l] = o]]
Emptied(s, ps)  == FoldSet(LAMBDA p, acc : Headed(acc, p, NULL), s, ps)

\* The objects that the links lead to from the places ps; the links may go round.
RECURSIVE LinkedFrom(_, _)
LinkedFrom(s, ps) ==
    LET more == ps \union ({s.gclist[p] : p \in ps} \ {NULL}) IN
    IF more = ps THEN ps \ GrayLists ELSE LinkedFrom(s, more)
InGrayList(s) == LinkedFrom(s, GrayLists)

\* The field of an object that is in no list is assigned to before it is read.
Unread(s) == Emptied(s, HasGclist \ InGrayList(s))

----------------------------------------------------------------------------
(* Marking                                                                 *)

IsOpen(s, u) == s.level[u] # 0
ThreadOf(s, u) == CHOOSE th \in Threads : u \in ToSet(s.openupval[th])
Value(s, u) == IF IsOpen(s, u) THEN s.stack[ThreadOf(s, u)][s.level[u]] ELSE s.value[u]

RECURSIVE ReallyMark(_, _)
\* markobject(), markvalue()
Mark(s, o) == IF IsWhite(s, o) THEN ReallyMark(s, o) ELSE s

\* reallymarkobject(): an open upvalue stays gray, in the list uvhead.
ReallyMark(s, o) ==
    LET gray == Paint(s, o, "gray") IN
    CASE o \in Strings  -> Paint(s, o, "black")
      [] o \in Userdata \union Upvals ->
           Paint(Mark(gray, IF o \in Userdata THEN s.meta[o] ELSE Value(s, o)), o,
                 IF o \in Upvals /\ IsOpen(s, o) THEN "gray" ELSE "black")
      [] OTHER          -> Link(gray, o, "gray")

MarkEach(s, os) == FoldLeft(Mark, s, os)
\* What has an order of its own in the code that does not matter.
MarkAll(s, os) == FoldSet(LAMBDA o, acc : Mark(acc, o), s, os)

\* markbeingfnz(): all of the list, white or marked, in a gray list or not.
RECURSIVE From(_, _)
From(s, p) == IF p = NULL \/ s.next[p] = NULL THEN << >>
              ELSE <<s.next[p]>> \o From(s, s.next[p])
InList(s, l) == ToSet(From(s, l))
MarkBeingFnz(s) ==
    FoldLeft(LAMBDA acc, o : ReallyMark(Paint(acc, o, "white"), o), s, From(s, "tobefnz"))

MarkRoot(s) ==
    MarkBeingFnz(MarkEach(Emptied(s, GrayLists), <<MainThread, Registry>>))

\* remarkupvals(): uvhead links the open upvalues of all threads.
OpenUpvals(s) == {u \in s.live \intersect Upvals : IsOpen(s, u)}
RemarkNone(s) == s
RemarkUpvals(s) ==
    MarkAll(s, {Value(s, u) : u \in {v \in OpenUpvals(s) : s.color[v] = "gray"}})

----------------------------------------------------------------------------
(* Traversing                                                              *)

Keys(s, t)   == DOMAIN s.entries[t]
Values(s, t) == {s.entries[t][k] : k \in Keys(s, t)}
ModeOf(s, t) == IF s.meta[t] = NULL THEN {} ELSE Mode[s.meta[t]]

\* iscleared(): strings are values, so they are marked instead.
MarkStrings(s, os) == MarkAll(s, os \intersect Strings)
IsCleared(s, o)    == o \notin Strings /\ IsWhite(s, o)

\* The array part is not looked at, it may have white values.
LinkWeakValue(s, t) ==
    IF Number \in Keys(s, t) \/ \E v \in Values(s, t) : IsCleared(s, v)
      THEN Link(s, t, "weak") ELSE Link(s, t, "grayagain")
TraverseWeakValue(s, t) ==
    LinkWeakValue(MarkStrings(MarkAll(s, Keys(s, t)), Values(s, t)), t)

\* Tells also whether an object was marked.
LinkEphemeron(r, t) ==
    [marked |-> r.marked,
     s |-> Link(r.s, t, IF r.prop THEN "ephemeron"
                        ELSE IF r.clears THEN "allweak" ELSE "grayagain")]
TraverseEphemeron(s, t) ==
    LET Visit(k, r) ==
          LET v == s.entries[t][k] IN
          IF IsCleared(r.s, k)
            THEN [r EXCEPT !.clears = TRUE, !.prop = @ \/ IsWhite(r.s, v)]
            ELSE [r EXCEPT !.s = Mark(@, v), !.marked = @ \/ IsWhite(r.s, v)]
    IN LinkEphemeron(FoldSet(Visit, [s |-> MarkStrings(s, Keys(s, t)), marked |-> FALSE,
                                     clears |-> FALSE, prop |-> FALSE], Keys(s, t)), t)

\* A weak table stays gray.
TraverseContents(s, t) ==
    LET weak == Paint(s, t, "gray") IN
    CASE ModeOf(s, t) = {}    -> MarkAll(s, Keys(s, t) \union Values(s, t))
      [] ModeOf(s, t) = {"v"} -> TraverseWeakValue(weak, t)
      [] ModeOf(s, t) = {"k"} -> TraverseEphemeron(weak, t).s
      [] OTHER                -> Link(weak, t, "allweak")
TraverseTable(s, t) == TraverseContents(Mark(s, s.meta[t]), t)

\* traverseproto() lets a white cache go; what else it refers to is left out.
TraverseProto(s, p) == IF IsWhite(s, s.cache[p]) THEN [s EXCEPT !.cache[p] = NULL] ELSE s

\* propagatemark(): threads stay gray, to be traversed again.
PropagateMark(s) ==
    LET o == Gray(s)
        m == Headed(Paint(s, o, "black"), "gray", s.gclist[o]) IN
    CASE o \in Tables   -> TraverseTable(m, o)
      [] o \in Closures -> MarkEach(m, <<s.proto[o], s.upval[o]>>)
      [] o \in Protos   -> TraverseProto(m, o)
      [] o \in Threads  -> MarkEach(Link(Paint(m, o, "gray"), o, "grayagain"), s.stack[o])

\* propagateall(): a loop that comes to the same state again never ends.
RECURSIVE PropagateFrom(_, _)
PropagateFrom(s, before) ==
    IF Gray(s) = NULL THEN s
    ELSE IF s \in before THEN [Headed(s, "gray", NULL) EXCEPT !.stuck = Gray(s)]
    ELSE PropagateFrom(PropagateMark(s), before \union {s})
PropagateAll(s) == PropagateFrom(s, {})

PropagateList(s, o) == PropagateAll(Headed(s, "gray", o))

RetraverseGrays(s) ==
    LET grays == PropagateAll(Emptied(s, {"weak", "grayagain", "ephemeron"}))
        again == PropagateList(grays, s.gclist["grayagain"])
        weak  == PropagateList(again, s.gclist["weak"])
    IN PropagateList(weak, s.gclist["ephemeron"])

\* convergeephemerons(): the round is at the table next, if there is one; a
\* traversal links the tables anew.
VisitEphemeron(e) ==
    LET r == TraverseEphemeron(e.s, e.next) IN
    [s |-> IF r.marked THEN PropagateAll(r.s) ELSE r.s,
     next |-> e.s.gclist[e.next], changed |-> e.changed \/ r.marked]
Round(s) == [s |-> Emptied(s, {"ephemeron"}), next |-> s.gclist["ephemeron"], changed |-> FALSE]
RECURSIVE Converged(_)
Converged(e) ==
    IF e.next # NULL THEN Converged(VisitEphemeron(e))
    ELSE IF e.changed THEN Converged(Round(e.s)) ELSE e.s
ConvergeEphemerons(s) == Converged(Round(s))

----------------------------------------------------------------------------
(* Weak tables                                                             *)

Without(s, t, ks) == [s EXCEPT !.entries[t] = [k \in DOMAIN @ \ ks |-> @[k]]]

\* The tables from the place p to f; a loop that comes to one twice never ends.
RECURSIVE UpTo(_, _, _, _)
UpTo(s, p, f, ts) ==
    LET h == s.gclist[p] IN
    IF h = f THEN [s |-> s, ts |-> ts]
    ELSE IF h \in ts THEN [s |-> [s EXCEPT !.stuck = h], ts |-> ts]
    ELSE UpTo(s, h, f, ts \union {h})

ClearKeys(s, l, f) ==
    LET Clear(t, acc) ==
          LET m == MarkStrings(acc, Keys(acc, t)) IN
          Without(m, t, {k \in Keys(m, t) : IsCleared(m, k)})
        to == UpTo(s, l, f, {})
    IN FoldSet(Clear, to.s, to.ts)

ClearValues(s, l, f) ==
    LET Clear(t, acc) ==
          LET m == MarkStrings(acc, Values(acc, t)) IN
          Without(m, t, {k \in Keys(m, t) : IsCleared(m, m.entries[t][k])})
        to == UpTo(s, l, f, {})
    IN FoldSet(Clear, to.s, to.ts)

----------------------------------------------------------------------------
(* Lists.  A place in a list is the object, or the list, whose "next" it   *)
(* is.                                                                     *)

LinkAfter(s, p, o) == [s EXCEPT !.next = [@ EXCEPT ![o] = s.next[p], ![p] = o]]
UnlinkAfter(s, p)  == [s EXCEPT !.next = [@ EXCEPT ![p] = s.next[s.next[p]], ![s.next[p]] = NULL]]
PlaceOf(s, o)      == CHOOSE p \in DOMAIN s.next : s.next[p] = o

\* luaC_checkupvalcolor()
CheckUpvalColor(s, u) ==
    IF s.color[u] # "gray" THEN s
    ELSE IF KeepInvariant(s) THEN Mark([Paint(s, u, "black") EXCEPT !.old = @ \ {u}], s.value[u])
    ELSE Paint(s, u, "white")

Freed(s, o) == [s EXCEPT !.live = @ \ {o}, !.color[o] = "white", !.old = @ \ {o},
                         !.separated = @ \ {o}, !.finalized = @ \ {o}]
FreeUpval(s, u) == [Freed(s, u) EXCEPT !.level[u] = 0, !.value[u] = NULL]

\* luaF_close(): a dead upvalue goes at once.
RECURSIVE Close(_, _, _)
Close(s, th, level) ==
    IF s.openupval[th] = << >> \/ s.level[Last(s.openupval[th])] < level THEN s
    ELSE LET u == Last(s.openupval[th])
             off == [s EXCEPT !.openupval[th] = Front(@)]
             closed == LinkAfter([off EXCEPT !.value[u] = Value(s, u), !.level[u] = 0], "allgc", u)
         IN Close(IF s.color[u] = "dead" THEN FreeUpval(off, u) ELSE CheckUpvalColor(closed, u),
                  th, level)

\* freeobj()
Free(s, o) ==
    CASE o \in Tables   -> [Freed(s, o) EXCEPT !.entries[o] = << >>, !.meta[o] = NULL]
      [] o \in Userdata -> [Freed(s, o) EXCEPT !.meta[o] = NULL]
      [] o \in Closures -> [Freed(s, o) EXCEPT !.proto[o] = NULL, !.upval[o] = NULL]
      [] o \in Protos   -> [Freed(s, o) EXCEPT !.cache[o] = NULL]
      [] o \in Upvals   -> FreeUpval(s, o)
      [] o \in Threads  -> Freed([Close(s, o, 1) EXCEPT !.stack[o] = << >>], o)
      [] o \in Strings  -> [Freed(s, o) EXCEPT !.strt = @ \ {o}]

\* The marks of an object that survives a sweep.
Survive(s, o) == IF IsGenerational(s) THEN [s EXCEPT !.old = @ \union {o}]
                 ELSE [Paint(s, o, "white") EXCEPT !.old = @ \ {o}]

\* sweepthread(): the open upvalues, newest first; an old one ends it.
SweepThread(s, th) ==
    LET us == s.openupval[th]
        stops == {n \in DOMAIN us : IsGenerational(s) /\ us[n] \in s.old /\ s.color[us[n]] # "dead"}
        swept == {us[n] : n \in {m \in DOMAIN us : \A k \in stops : k < m}}
        deads == {u \in swept : s.color[u] = "dead"}
        rest == [s EXCEPT !.openupval[th] = SelectSeq(@, LAMBDA u : u \notin deads)]
    IN FoldSet(LAMBDA u, acc : IF u \in deads THEN FreeUpval(acc, u) ELSE Survive(acc, u),
               rest, swept)

\* sweeplist(): the new state and place, NULL at the end of the list or at an
\* old object.
RECURSIVE SweepList(_, _, _)
SweepList(s, p, count) ==
    LET curr == s.next[p] IN
    IF curr = NULL THEN [s |-> s, p |-> NULL]
    ELSE IF count = 0 THEN [s |-> s, p |-> p]
    ELSE IF s.color[curr] = "dead" THEN SweepList(Free(UnlinkAfter(s, p), curr), p, count - 1)
    ELSE IF IsGenerational(s) /\ curr \in s.old THEN [s |-> s, p |-> NULL]
    ELSE SweepList(Survive(IF curr \in Threads THEN SweepThread(s, curr) ELSE s, curr),
                   curr, count - 1)

RECURSIVE SweepToLive(_, _)
SweepToLive(s, p) ==
    LET Beyond(r) == IF r.p = p THEN SweepToLive(r.s, p) ELSE r IN Beyond(SweepList(s, p, 1))
SweepGcAt(r)  == [r.s EXCEPT !.sweepgc = r.p]
SweepFinAt(r) == [r.s EXCEPT !.sweepfin = r.p]

\* The main thread is a list by itself.
SweepMain(s) == IF IsGenerational(s) /\ MainThread \in s.old THEN s
                ELSE Survive(SweepThread(s, MainThread), MainThread)

\* The pointers are to an object inside the list, so what is created from now
\* on is not swept.
EnterSweep(s) ==
    LET begun == [s EXCEPT !.gcstate = "sweepstring", !.sweepstr = s.strt] IN
    SweepGcAt(SweepToLive(SweepFinAt(SweepToLive(begun, "finobj")), "allgc"))

----------------------------------------------------------------------------
(* The cycle                                                               *)

\* separatetobefnz(): the order of the list is kept.
Separate(s) ==
    LET Relink(acc, os, l) == \* the list l is os
            LET places == <<l>> \o os IN
            [acc EXCEPT !.next = [p \in DOMAIN @ |->
                IF p \in ToSet(places)
                  THEN LET n == CHOOSE m \in DOMAIN places : places[m] = p
                       IN IF n > Len(os) THEN NULL ELSE os[n]
                  ELSE @[p]]]
        white == SelectSeq(From(s, "finobj"), LAMBDA o : IsWhite(s, o))
        rest  == SelectSeq(From(s, "finobj"), LAMBDA o : ~IsWhite(s, o))
    IN [Relink(Relink(s, rest, "finobj"), From(s, "tobefnz") \o white, "tobefnz")
        EXCEPT !.finalized = @ \union ToSet(white)]

\* The other white becomes the current one.
Flip(s) == [s EXCEPT !.color = [o \in Objects |->
                IF o \notin s.live THEN "white"
                ELSE CASE @[o] = "white" -> "dead" [] @[o] = "dead" -> "white" [] OTHER -> @[o]]]

\* atomic(): all that is strongly accessible; then what is being finalized, with
\* the tables this adds to those of orig.
MarkStrong(s) ==
    ConvergeEphemerons(RetraverseGrays(PropagateAll(RemarkUpvals(MarkEach(s, <<L, Registry>>)))))
ClearWeakValues(s) == ClearValues(ClearValues(s, "weak", NULL), "allweak", NULL)
MarkFinalized(s) == ConvergeEphemerons(PropagateAll(MarkBeingFnz(Separate(s))))
ClearWeakKeys(s) == ClearKeys(ClearKeys(s, "ephemeron", NULL), "allweak", NULL)
ClearResurrected(s, orig) ==
    ClearValues(ClearValues(s, "weak", orig.gclist["weak"]), "allweak", orig.gclist["allweak"])
Resurrected(s) == ClearResurrected(ClearWeakKeys(MarkFinalized(s)), s)
Atomic(s) == Flip(Resurrected(ClearWeakValues(MarkStrong(s))))

\* singlestep()
SingleStep(s) ==
    CASE s.gcstate = "pause" ->
           [IF IsGenerational(s) THEN s ELSE MarkRoot(s) EXCEPT !.gcstate = "propagate"]
      [] s.gcstate = "propagate" ->
           IF Gray(s) # NULL THEN PropagateMark(s)
           ELSE EnterSweep(Atomic([s EXCEPT !.gcstate = "atomic"]))
      [] s.gcstate = "sweepstring" ->
           IF s.sweepstr = {} THEN [s EXCEPT !.gcstate = "sweepudata"]
           ELSE LET str == CHOOSE x \in s.sweepstr : TRUE
                    rest == [s EXCEPT !.sweepstr = @ \ {str}]
                IN IF str \notin s.strt THEN rest
                   ELSE IF s.color[str] = "dead" THEN Free(rest, str) ELSE Survive(rest, str)
      [] s.gcstate = "sweepudata" ->
           IF s.sweepfin = NULL THEN [s EXCEPT !.gcstate = "sweep"]
           ELSE SweepFinAt(SweepList(s, s.sweepfin, SweepMax))
      [] s.gcstate = "sweep" ->
           IF s.sweepgc # NULL THEN SweepGcAt(SweepList(s, s.sweepgc, SweepMax))
           ELSE [SweepMain(s) EXCEPT !.gcstate = "pause"]

\* luaC_runtilstate()
RECURSIVE RunTil(_, _)
RunTil(s, states) ==
    IF s.gcstate \in states \/ s.stuck # NULL THEN s ELSE RunTil(SingleStep(s), states)

Cycle(s) == RunTil(RunTil(s, SweepPhases \union {"propagate"}), {"pause"})

\* luaC_fullgc(), but for the finalizers.
FullGC(s, kind) ==
    LET begun == [s EXCEPT !.gckind = kind]
        white == RunTil(IF KeepInvariant(s) THEN EnterSweep(begun) ELSE begun, {"pause"})
        full  == RunTil(Cycle(white), {IF IsGenerational(s) THEN "propagate" ELSE "pause"})
    IN [full EXCEPT !.gckind = s.gckind]

ChangeMode(s) ==
    IF IsGenerational(s)
      THEN RunTil(EnterSweep([s EXCEPT !.gckind = "normal"]), {"propagate", "pause"})
      ELSE [RunTil(s, {"propagate"}) EXCEPT !.gckind = "gen"]

----------------------------------------------------------------------------
(* Barriers                                                                *)

\* A mistake to look for: the collector is not told.
NoBarrier(s, o, v) == s
Barrier(s, o, v) ==
    IF ~(IsWhite(s, v) /\ s.color[o] = "black") THEN s
    ELSE IF KeepInvariant(s) THEN ReallyMark(s, v) ELSE Paint(s, o, "white")

Again(s, o) == Link(Paint(s, o, "gray"), o, "grayagain")
BarrierBack(s, t, v) == IF IsWhite(s, v) /\ s.color[t] = "black" THEN Again(s, t) ELSE s

\* The first closure is marked, for the next the prototype is gray again.
BarrierProto(s, p, c) ==
    IF s.color[p] # "black" THEN s
    ELSE IF s.cache[p] = NULL THEN Barrier(s, p, c) ELSE Again(s, p)

\* A mistake to look for: the sweep follows the object into the other list.
SweepNotMoved(s, o) == s
MoveSweep(s, o) ==
    IF s.sweepgc # o THEN s ELSE SweepGcAt(SweepToLive(s, o))

\* A mistake to look for: what has been finalized gets its finalizer again.
SeparatedNow(s, o)  == o \in s.separated
SeparatedOnce(s, o) == o \in s.separated \union s.finalized

\* luaC_checkfinalizer()
CheckFinalizer(s, o, mt) ==
    IF SeparatedOnce(s, o) \/ mt \notin Finalizers THEN s
    ELSE LET m == MoveSweep(s, o)
             moved == [LinkAfter(UnlinkAfter(m, PlaceOf(m, o)), "finobj", o)
                       EXCEPT !.separated = @ \union {o}]
         IN IF KeepInvariant(s) THEN [moved EXCEPT !.old = @ \ {o}] ELSE Paint(moved, o, "white")

----------------------------------------------------------------------------
(* The program                                                             *)

Base  == IF finalizing = << >> \/ Last(finalizing).thread # L THEN 0 ELSE Last(finalizing).height
Stack == g.stack[L]
Top   == Len(Stack)
Frame == {Stack[n] : n \in Base + 1 .. Top}
Has(o)  == o \in Frame \union {Registry}
Room  == Top < MaxStack
Push(s, o) == [s EXCEPT !.stack[L] = Append(@, o)]
Only  == UNCHANGED <<program, L, finalizing, called>>

\* luaC_newobj()
Created(s, o) == LinkAfter([s EXCEPT !.live = @ \union {o}], "allgc", o)
Unused == program.uses \ g.live

New ==
    /\ Room
    /\ \E o \in Unused \intersect (Tables \union Userdata \union Protos \union Threads) :
         g' = Push(Created(g, o), o)
    /\ called' = called \ {o \in Objects : o \in g'.live \ g.live}
    /\ UNCHANGED <<program, L, finalizing>>

Resurrect(s, o) == IF s.color[o] = "dead" THEN Paint(s, o, "white") ELSE s

\* internshrstr(): a new string may be in a part of the table not yet swept.
Intern ==
    /\ Room
    /\ \E str \in program.uses \intersect Strings :
         IF str \in g.strt THEN g' = Push(Resurrect(g, str), str)
         ELSE \E unswept \in {{}} \union IF g.gcstate = "sweepstring" THEN {{str}} ELSE {} :
                g' = Push([g EXCEPT !.live = @ \union {str}, !.strt = @ \union {str},
                                    !.sweepstr = @ \union unswept], str)
    /\ Only

\* A table's value, or its key by lua_next().
Get ==
    /\ Room
    /\ \E t \in Tables : Has(t) /\ \E k \in Keys(g, t) : \E o \in {k, g.entries[t][k]} \ {Number} :
         g' = Push(g, o)
    /\ Only

\* lua_rawset() with luaH_newkey(), which has a barrier of its own.
Set ==
    /\ \E <<t, k>> \in program.sets, v \in Frame \union {NULL} :
         /\ Has(t) /\ k \in Frame \union {Number}
         /\ IF v = NULL THEN k \in Keys(g, t) /\ g' = Without(g, t, {k})
            ELSE /\ Cardinality(Keys(g, t) \union {k}) <= MaxEntries
                 /\ LET keyed == IF k \in Keys(g, t) THEN g ELSE BarrierBack(g, t, k)
                        set == [keyed EXCEPT !.entries[t] =
                                  [x \in DOMAIN @ \union {k} |-> IF x = k THEN v ELSE @[x]]]
                    IN g' = BarrierBack(set, t, v)
    /\ Only

\* lua_setmetatable()
SetMetatable ==
    /\ \E <<o, mt>> \in program.metatables :
      /\ o \in Frame /\ mt \in Frame \union {NULL}
      /\ LET set == [g EXCEPT !.meta[o] = mt] IN
         g' = IF mt = NULL THEN set
              ELSE CheckFinalizer(IF o \in Tables THEN BarrierBack(set, o, mt)
                                  ELSE Barrier(set, o, mt), o, mt)
    /\ Only

\* luaF_findupval() for the topmost value; the upvalues passed are deeper.
OpenAt(s, n) == {u \in ToSet(s.openupval[L]) : s.level[u] = n}
FindUpval(s, n, u) ==
    IF OpenAt(s, n) # {} THEN Resurrect(s, u)
    ELSE [s EXCEPT !.live = @ \union {u}, !.level[u] = n, !.openupval[L] = Append(@, u)]

\* OP_CLOSURE: the cached closure if it has the same upvalue, or a new one.
\* The prototype on the stack stands for that of the enclosing function.
Closure ==
    /\ Room /\ Top > 0
    /\ \E p \in Frame \intersect Protos :
         LET c == g.cache[p] IN
         IF c # NULL /\ g.upval[c] \in OpenAt(g, Top) THEN g' = Push(g, c)
         ELSE \E new \in Unused \intersect Closures :
              \E u \in IF OpenAt(g, Top) # {} THEN OpenAt(g, Top) ELSE Unused \intersect Upvals :
                LET made == FindUpval([Created(g, new) EXCEPT !.proto[new] = p], Top, u)
                    full == Push([made EXCEPT !.upval[new] = u], new)
                IN g' = [BarrierProto(full, p, new) EXCEPT !.cache[p] = new]
    /\ Only

\* OP_SETUPVAL, OP_GETUPVAL
SetUpval ==
    /\ \E c \in Frame \intersect Closures, v \in Frame :
         LET u == g.upval[c] IN
         g' = IF IsOpen(g, u) THEN [g EXCEPT !.stack[ThreadOf(g, u)][g.level[u]] = v]
              ELSE Barrier([g EXCEPT !.value[u] = v], u, v)
    /\ Only
GetUpval == Room /\ (\E c \in Frame \intersect Closures : g' = Push(g, Value(g, g.upval[c]))) /\ Only

\* OP_MOVE, which needs no barrier, even if an upvalue is open there.
Move ==
    /\ \E n \in Base + 1 .. Top - 1 : g' = [g EXCEPT !.stack[L][n] = Last(Stack)]
    /\ Only

\* The end of a block or function: luaF_close().
Pop ==
    /\ Top > Base
    /\ g' = [Close(g, L, Top) EXCEPT !.stack[L] = Front(@)]
    /\ Only

\* The main thread resumes a coroutine, which may yield a value to it.
Resume ==
    /\ L = MainThread /\ finalizing = << >>
    /\ \E co \in Frame \intersect (Threads \ {MainThread}) : L' = co
    /\ UNCHANGED <<g, program, finalizing, called>>
Yield ==
    /\ L # MainThread /\ finalizing = << >>
    /\ L' = MainThread
    /\ \/ g' = g
       \/ /\ Top > 0 /\ Len(g.stack[MainThread]) < MaxStack
          /\ g' = [g EXCEPT !.stack[MainThread] = Append(@, Last(Stack))]
    /\ UNCHANGED <<program, finalizing, called>>

----------------------------------------------------------------------------
(* The collector                                                           *)

GcRunning == finalizing = << >>

\* A call that never comes back leaves the program where it was.
Collected(s) == g' = IF s.stuck = NULL THEN Unread(s) ELSE [g EXCEPT !.stuck = s.stuck]

\* incstep() does one or more of these, generationalcollection() a cycle.
Step ==
    /\ GcRunning
    /\ IF IsGenerational(g) THEN Collected(Cycle(g)) \/ Collected(FullGC(g, "normal"))
       ELSE Collected(SingleStep(g))
    /\ Only

\* collectgarbage(), and an allocation that failed.
\* The former calls all finalizers first.
Collect    == g.next["tobefnz"] = NULL /\ Collected(FullGC(g, "normal")) /\ Only
Emergency  == GcRunning /\ Collected(FullGC(g, "emergency")) /\ Only
SwitchMode == program.generations /\ Collected(ChangeMode(g)) /\ Only

\* GCTM(): the first of the list goes back to "allgc" and its finalizer runs,
\* if its metatable still has one.
Finalize ==
    LET o == g.next["tobefnz"] IN
    /\ o # NULL /\ Len(finalizing) < MaxCalls
    /\ LET back == [LinkAfter(UnlinkAfter(g, "tobefnz"), "allgc", o)
                    EXCEPT !.separated = @ \ {o}, !.old = @ \ {o}]
           s == IF KeepInvariant(g) THEN back ELSE Paint(back, o, "white")
       IN IF g.meta[o] \in Finalizers
            THEN /\ g' = Push(s, o) /\ called' = called \union {o}
                 /\ finalizing' = Append(finalizing, [thread |-> L, height |-> Top])
            ELSE g' = s /\ UNCHANGED <<called, finalizing>>
    /\ UNCHANGED <<program, L>>

\* It returns or fails.
FinalizerEnds ==
    /\ finalizing # << >>
    /\ LET base == Last(finalizing).height IN
       g' = [Close(g, L, base + 1) EXCEPT !.stack[L] = SubSeq(@, 1, base)]
    /\ finalizing' = Front(finalizing)
    /\ UNCHANGED <<program, L, called>>

----------------------------------------------------------------------------
Init ==
    /\ g = Fresh /\ program \in Programs /\ L = MainThread
    /\ finalizing = << >> /\ called = {}

Program == \/ New \/ Intern \/ Get \/ Set \/ SetMetatable \/ Closure \/ SetUpval \/ GetUpval
           \/ Move \/ Pop \/ Resume \/ Yield
Collector == Step \/ Collect \/ Emergency \/ SwitchMode \/ Finalize \/ FinalizerEnds
Next == g.stuck = NULL /\ (Program \/ Collector)

Spec == Init /\ [][Next]_vars

----------------------------------------------------------------------------
(* Properties.                                                             *)

(* What the program can get to, without asking the collector.              *)
Strongly(s, os, o) ==
    CASE o \in Tables ->
           LET mode == ModeOf(s, o) IN
           {s.meta[o]}
           \union (IF "k" \in mode THEN Keys(s, o) \intersect Strings ELSE Keys(s, o))
           \union (IF "v" \in mode THEN Values(s, o) \intersect Strings
                   ELSE {s.entries[o][k] : k \in IF mode = {} THEN Keys(s, o)
                            ELSE {x \in Keys(s, o) : x \in os \union Strings \union {Number}}})
      [] o \in Userdata -> {s.meta[o]}
      [] o \in Closures -> {s.proto[o], s.upval[o]}
      [] o \in Upvals   -> {Value(s, o)}
      [] o \in Threads  -> ToSet(s.stack[o])
      [] OTHER          -> {}

RECURSIVE Reached(_, _)
Reached(s, os) ==
    LET more == (os \union UNION {Strongly(s, os, o) : o \in os}) \ {NULL, Number} IN
    IF more = os THEN os ELSE Reached(s, more)
Reachable(s) == Reached(s, {MainThread, Registry, L})

\* Nothing that the program can get to has been freed: what is reachable, what
\* a weak table has, the closure a prototype caches, an open upvalue.
NothingFreed ==
    \A o \in Reachable(g) :
        /\ o \in g.live
        /\ o \in Tables  => (Keys(g, o) \union Values(g, o)) \ {Number} \subseteq g.live
        /\ o \in Protos  => g.cache[o] \in g.live \union {NULL}
        /\ o \in Threads => ToSet(g.openupval[o]) \subseteq g.live

\* "a black object can never point to a white one", but in a sweep, and "any
\* gray object must be in a gray list"; open upvalues are in uvhead.  It is in one
\* list, once: no two places lead to the same object.
TriColour ==
    KeepInvariant(g) =>
        /\ \A o \in g.live :
            /\ g.color[o] = "black" => \A x \in Strongly(g, g.live, o) \ {NULL, Number} : ~IsWhite(g, x)
            /\ g.color[o] = "gray" /\ ~(o \in Upvals /\ IsOpen(g, o)) => o \in InGrayList(g)
        /\ \A o \in InGrayList(g) :
            /\ g.color[o] = "gray"
            /\ Cardinality({p \in GrayLists \union InGrayList(g) : g.gclist[p] = o}) = 1

\* lua_assert(isgray(o)) in propagatemark(): it is not given what it has traversed
\* already.  Where the assertion is compiled out, the loop goes round.
TraversesGrays ==
    /\ g.stuck = NULL
    /\ g.gcstate = "propagate" /\ Gray(g) # NULL => g.color[Gray(g)] = "gray"

\* An open upvalue is never black, the lists hold what is allocated, each
\* object once, and the sweep is in the list that it sweeps.
ListsHold ==
    /\ \A u \in OpenUpvals(g) : g.color[u] # "black"
    /\ \A l \in Lists : IsInjective(From(g, l))
    /\ UNION {InList(g, l) : l \in Lists} \union OpenUpvals(g) \union g.strt \union {MainThread} = g.live
    /\ g.sweepgc # NULL => g.sweepgc \in InList(g, "allgc")

\* Unless the program assigns nil, an entry leaves a table only if it is weak in
\* its key or value and that cannot be reached otherwise.
MayClear(t, k) ==
    \/ "k" \in ModeOf(g, t) /\ k \notin Reachable(g) \union Strings \union {Number}
    \/ "v" \in ModeOf(g, t) /\ g.entries[t][k] \notin Reachable(g) \union Strings
EntriesStay(modes) ==
    ~Set =>
        \A t \in Reachable(g) \intersect Tables :
            ModeOf(g, t) \in modes => \A k \in Keys(g, t) : k \in Keys(g', t) \/ MayClear(t, k)
WeakEntriesStay == [][EntriesStay({{}, {"v"}, {"k", "v"}})]_vars
\* "at this point, all strongly accessible objects are marked", those that an
\* ephemeron table has for keys that are accessible included.
EphemeronsStay == [][EntriesStay({{"k"}})]_vars

\* A finalizer is called for what cannot be reached, and once.
FinalizedOnce ==
    [][\A o \in InList(g', "tobefnz") :
           o \notin InList(g, "tobefnz") => o \notin called /\ o \notin Reachable(g)]_vars
=============================================================================
