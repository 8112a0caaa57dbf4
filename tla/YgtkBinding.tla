---------------------------- MODULE YgtkBinding -----------------------------
(***************************************************************************)
(* gui/ygtk.c: what keeps alive what between Lua and GTK+.  A GObject is   *)
(* known to a Lua program through userdata (here: proxies), each of which  *)
(* owns one reference on it.  A signal handler is a closure of the object, *)
(* a timeout or idle handler a source of the main loop; both (here:        *)
(* holders) keep their Lua values in slots of the Lua registry and run on  *)
(* the lua_State (here: thread) that connected them.  So there are cycles  *)
(* that neither collector sees whole: object, closure, registry, proxy,    *)
(* object.  Everything runs in one thread of the process; handlers nest.   *)
(***************************************************************************)
EXTENDS Naturals, FiniteSets, Sequences

CONSTANTS Objects,         \* GObjects
          Proxies,         \* addresses of ygtk_object userdata
          Closures,        \* addresses of ygtk_closure
          Sources,         \* addresses of timeout_info
          Slots,           \* keys of the registry that luaL_ref() hands out
          Coroutines,      \* the program's coroutines
          CoroutinesKept,  \* whether the program keeps those that connected
          Arguments,       \* what the program passes after a handler
          Capturing,       \* bound: handlers that may have userdata as upvalues
          MaxDepth,        \* bound: handlers running inside each other
          MaxErrors,       \* bound: Lua errors that leave a handler
          None             \* NULL, LUA_NOREF, no userdata, no holder

Main    == "main"          \* the lua_State of the main program
Holders == Closures \union Sources

HolderRecord == [on : Objects \union {None}, thread : Coroutines \union {Main},
                 object_ref : Slots \union {None}, handler_ref : Slots,
                 data_ref : Slots \union {None}, attached : BOOLEAN, calls : Nat]

ASSUME BindingAssumption ==
    /\ IsFiniteSet(Proxies) /\ IsFiniteSet(Slots)
    /\ Closures \intersect Sources = {}
    /\ CoroutinesKept \in BOOLEAN
    /\ Arguments \subseteq {"none", "user_data"}
    /\ Capturing \subseteq Holders
    /\ MaxDepth \in Nat
    /\ MaxErrors \in Nat
    /\ Main \notin Coroutines
    /\ None \notin Objects \union Proxies \union Slots \union HolderRecord

VARIABLES
    \* of GObject and GTK+
    life,      \* each object: "UNBORN", "ALIVE" or "DESTROYED"
    refs,      \* each object's reference count; 0 once it is finalised
    gtk,       \* each object: GTK+ has a reference (parent, toplevel list)
    \* of Lua
    proxy,     \* each userdata: the object it is for, or None
    rooted,    \* the userdata in variables of the program
    registry,  \* each slot: the value in it, or Nil
    threads,   \* the lua_States that are not collected
    \* of the binding
    holder,    \* each closure and source: its fields, or None
    captures,  \* each handler: the userdata among its upvalues
    running,   \* the handlers that are running, outermost first
    errors     \* number of Lua errors that have left a handler

objVars == <<life, refs, gtk>>
luaVars == <<proxy, rooted, registry, threads>>
vars    == <<objVars, luaVars, holder, captures, running, errors>>

Nil    == <<"nil">>
Values == {Nil} \union ({"object"} \X Proxies)
              \union ({"function", "user_data"} \X Holders)

Live     == {h \in Holders : holder[h] # None}
Attached == {h \in Live : holder[h].attached}
HandlersOn(o) == {h \in Attached : holder[h].on = o}

\* Mistakes to look for: a reference is not given back.
SlotsButObject(h) == {holder[h].handler_ref, holder[h].data_ref} \ {None}
SlotsButData(h) == {holder[h].object_ref, holder[h].handler_ref} \ {None}

\* The references that ygtk_closure_finalize() and _free_timeout_info() give
\* back.
SlotsOf(h) == {holder[h].object_ref, holder[h].handler_ref, holder[h].data_ref}
                 \ {None}

Free == {s \in Slots : registry[s] = Nil}

\* The userdata a garbage collection of Lua would find.
Reachable ==
    UNION {rooted,
           {p \in Proxies : \E s \in Slots : registry[s] = <<"object", p>>},
           UNION {captures[h] : h \in Live},
           {running[i].arg : i \in DOMAIN running} \ {None}}

\* The objects the program has at hand.
Known == {proxy[p] : p \in Reachable}

----------------------------------------------------------------------------
(* What the functions are made of.                                         *)

\* ygtk_make_object(): any address that is free.
NewProxy == CHOOSE p \in Proxies : proxy[p] = None
ProxyLeft == \E p \in Proxies : proxy[p] = None

\* luaL_ref() thrice: any three slots that are free.
NewSlots == CHOOSE r \in Free \X Free \X Free :
                r[1] # r[2] /\ r[1] # r[3] /\ r[2] # r[3]
SlotsLeft == Cardinality(Free) >= 3

\* The holders hs are disconnected or removed.  Each that is not running is
\* finalized (ygtk_closure_finalize(), _free_timeout_info()) and its slots are
\* free again; GLib keeps the others until their calls have returned.  hd is
\* the value of holder to start from.
Detach(hd, hs) ==
    LET gone == {h \in hs : hd[h].calls = 0} IN
    /\ registry' = [s \in Slots |-> IF \E h \in gone : s \in SlotsOf(h)
                                      THEN Nil ELSE registry[s]]
    /\ holder' = [h \in Holders |-> IF h \in gone THEN None
                                    ELSE IF h \in hs THEN [hd[h] EXCEPT !.attached = FALSE]
                                    ELSE hd[h]]
    /\ captures' = [h \in Holders |-> IF h \in gone THEN {} ELSE captures[h]]

\* g_object_unref(), n times: the last one finalizes the object and disposes
\* of its handlers.
Unref(o, n) == refs' = [refs EXCEPT ![o] = @ - n]
Doomed(o, n) == IF refs[o] = n THEN HandlersOn(o) ELSE {}

----------------------------------------------------------------------------
(* The Lua program.                                                        *)

\* A constructor, ygtk_button_new() for one: it sinks the floating reference;
\* a toplevel window is also on GTK+'s list.
New(o) ==
    /\ life[o] = "UNBORN" /\ ProxyLeft
    /\ \E toplevel \in BOOLEAN :
         /\ refs' = [refs EXCEPT ![o] = IF toplevel THEN 2 ELSE 1]
         /\ gtk' = [gtk EXCEPT ![o] = toplevel]
    /\ life' = [life EXCEPT ![o] = "ALIVE"]
    /\ proxy' = [proxy EXCEPT ![NewProxy] = o]
    /\ rooted' = rooted \union {NewProxy}
    /\ UNCHANGED <<registry, threads, holder, captures, running, errors>>

\* A getter, ygtk_widget_get_window() for one: another userdata for an object
\* that GTK+ holds.
Get(o) ==
    /\ gtk[o] /\ ProxyLeft
    /\ refs' = [refs EXCEPT ![o] = @ + 1]
    /\ proxy' = [proxy EXCEPT ![NewProxy] = o]
    /\ rooted' = rooted \union {NewProxy}
    /\ UNCHANGED <<life, gtk, registry, threads, holder, captures, running, errors>>

\* The last variable that holds p goes.
Forget(p) ==
    /\ p \in rooted
    /\ rooted' = rooted \ {p}
    /\ UNCHANGED <<objVars, proxy, registry, threads, holder, captures, running, errors>>

\* gtk_container_add() of an object that has no parent.
Pack(o) ==
    /\ o \in Known /\ life[o] = "ALIVE" /\ ~gtk[o]
    /\ gtk' = [gtk EXCEPT ![o] = TRUE]
    /\ refs' = [refs EXCEPT ![o] = @ + 1]
    /\ UNCHANGED <<life, luaVars, holder, captures, running, errors>>

\* gtk_container_remove().
Unpack(o) ==
    /\ life[o] = "ALIVE" /\ gtk[o]
    /\ gtk' = [gtk EXCEPT ![o] = FALSE]
    /\ Unref(o, 1)
    /\ Detach(holder, Doomed(o, 1))
    /\ UNCHANGED <<life, proxy, rooted, threads, running, errors>>

\* gtk_widget_destroy(), by ygtk_widget_destroy() or by GTK+ when the user
\* closes a window or the parent is destroyed: disposes of the handlers, and
\* GTK+ lets go of the object.
Destroy(o) ==
    /\ life[o] # "UNBORN" /\ refs[o] > 0
    /\ gtk[o] \/ o \in Known
    /\ life' = [life EXCEPT ![o] = "DESTROYED"]
    /\ gtk' = [gtk EXCEPT ![o] = FALSE]
    /\ Unref(o, IF gtk[o] THEN 1 ELSE 0)
    /\ Detach(holder, HandlersOn(o))
    /\ UNCHANGED <<proxy, rooted, threads, running, errors>>

----------------------------------------------------------------------------
(* Handlers are connected and disconnected.                                *)

\* The handler's upvalues: none or one of the program's userdata.
Upvalues(h) == {{}} \union {{p} : p \in IF h \in Capturing THEN Reachable ELSE {}}

\* A mistake to look for: the object is not referenced.
StoredNoObject(h, obj, r, args) ==
    [registry EXCEPT ![r[2]] = <<"function", h>>,
                     ![r[3]] = IF args = "none" THEN Nil ELSE <<"user_data", h>>]

\* The slots r get the object's userdata (unless obj is Nil), the handler and
\* the user_data if there is one.  The closure's is taken from the top of the
\* stack, where it lies if nothing was passed after it.
Stored(h, obj, r, args) ==
    [registry EXCEPT ![r[1]] = obj,
                     ![r[2]] = <<"function", h>>,
                     ![r[3]] = IF args = "none" THEN Nil ELSE <<"user_data", h>>]

\* _connect(): signal_connect() and signal_connect_after().
Connect(h, p, t, args) ==
    LET r == NewSlots IN
    /\ holder[h] = None /\ p \in Reachable /\ t \in threads /\ SlotsLeft
    /\ registry' = Stored(h, <<"object", p>>, r, args)
    /\ holder' = [holder EXCEPT ![h] =
         [on |-> proxy[p], thread |-> t, object_ref |-> r[1], handler_ref |-> r[2],
          data_ref |-> IF args = "none" THEN None ELSE r[3],
          attached |-> TRUE, calls |-> 0]]
    /\ \E up \in Upvalues(h) : captures' = [captures EXCEPT ![h] = up]
    /\ UNCHANGED <<objVars, proxy, rooted, threads, running, errors>>

\* yg_timeout_add() and yg_idle_add()
TimeoutAdd(h, t, args) ==
    LET r == NewSlots IN
    /\ holder[h] = None /\ t \in threads /\ SlotsLeft
    /\ registry' = Stored(h, Nil, r, args)
    /\ holder' = [holder EXCEPT ![h] =
         [on |-> None, thread |-> t, object_ref |-> None, handler_ref |-> r[2],
          data_ref |-> IF args = "none" THEN None ELSE r[3],
          attached |-> TRUE, calls |-> 0]]
    /\ \E up \in Upvalues(h) : captures' = [captures EXCEPT ![h] = up]
    /\ UNCHANGED <<objVars, proxy, rooted, threads, running, errors>>

\* yg_signal_handler_disconnect() and yg_source_remove().
Disconnect(h) ==
    /\ h \in Attached
    /\ h \in Closures => holder[h].on \in Known
    /\ Detach(holder, {h})
    /\ UNCHANGED <<objVars, proxy, rooted, threads, running, errors>>

----------------------------------------------------------------------------
(* Handlers run.                                                           *)

\* A mistake to look for: the parameter's userdata has no reference.
ParameterUnowned(o) == 0

\* yg_gvalue_to_lua(): references that the userdata of a parameter takes.
ParameterRefs(o) == 1

\* ygtk_closure_marshal(), up to lua_call(): the emission holds the object, and
\* the handler gets a new userdata for it.
Emit(h) ==
    LET o == holder[h].on IN
    /\ h \in Attached \intersect Closures /\ ProxyLeft /\ Len(running) < MaxDepth
    /\ holder[h].thread \in threads
    /\ refs' = [refs EXCEPT ![o] = @ + 1 + ParameterRefs(o)]
    /\ proxy' = [proxy EXCEPT ![NewProxy] = o]
    /\ holder' = [holder EXCEPT ![h].calls = @ + 1]
    /\ running' = Append(running, [holder |-> h, arg |-> NewProxy])
    /\ UNCHANGED <<life, gtk, rooted, registry, threads, captures, errors>>

\* _timeout_func(), up to lua_call(): GLib does not dispatch a source that is
\* being dispatched.
Fire(h) ==
    /\ h \in Attached \intersect Sources /\ holder[h].calls = 0
    /\ holder[h].thread \in threads /\ Len(running) < MaxDepth
    /\ holder' = [holder EXCEPT ![h].calls = 1]
    /\ running' = Append(running, [holder |-> h, arg |-> None])
    /\ UNCHANGED <<objVars, luaVars, captures, errors>>

Top == running[Len(running)]
Returned == [holder EXCEPT ![Top.holder].calls = @ - 1]
Popped == SubSeq(running, 1, Len(running) - 1)

\* The handler of a signal returns; the program may have kept the userdata.
ReturnFromClosure ==
    LET h == Top.holder
        o == holder[h].on
    IN
    /\ running # << >> /\ h \in Closures
    /\ running' = Popped
    /\ \E kept \in BOOLEAN : rooted' = IF kept THEN rooted \union {Top.arg} ELSE rooted
    /\ Unref(o, 1)
    /\ Detach(Returned, Doomed(o, 1) \union (IF holder[h].attached THEN {} ELSE {h}))
    /\ UNCHANGED <<life, gtk, proxy, threads, errors>>

\* A timeout handler returns true to be called again, or false.
ReturnFromSource ==
    LET h == Top.holder IN
    /\ running # << >> /\ h \in Sources
    /\ running' = Popped
    /\ \E again \in BOOLEAN :
         Detach(Returned, IF again /\ holder[h].attached THEN {} ELSE {h})
    /\ UNCHANGED <<objVars, proxy, rooted, threads, errors>>

\* A Lua error leaves the innermost handlers for a pcall() further out, past
\* the frames of lua_call(), GObject and GLib, which undo nothing.
Error ==
    /\ errors < MaxErrors
    /\ \E n \in 0 .. Len(running) - 1 : running' = SubSeq(running, 1, n)
    /\ errors' = errors + 1
    /\ UNCHANGED <<objVars, luaVars, holder, captures>>

----------------------------------------------------------------------------
(* Lua collects garbage.                                                   *)

\* ygtk__gc()
Collect(p) ==
    /\ proxy[p] # None /\ p \notin Reachable
    /\ proxy' = [proxy EXCEPT ![p] = None]
    /\ Unref(proxy[p], 1)
    /\ Detach(holder, Doomed(proxy[p], 1))
    /\ UNCHANGED <<life, gtk, rooted, threads, running, errors>>

\* A coroutine that the program no longer holds.
CollectThread(t) ==
    /\ t \in threads \ {Main}
    /\ \A i \in DOMAIN running : holder[running[i].holder].thread # t
    /\ CoroutinesKept => \A h \in Live : holder[h].thread # t
    /\ threads' = threads \ {t}
    /\ UNCHANGED <<objVars, proxy, rooted, registry, holder, captures, running, errors>>

----------------------------------------------------------------------------
Init ==
    /\ life = [o \in Objects |-> "UNBORN"]
    /\ refs = [o \in Objects |-> 0]
    /\ gtk = [o \in Objects |-> FALSE]
    /\ proxy = [p \in Proxies |-> None]
    /\ rooted = {}
    /\ registry = [s \in Slots |-> Nil]
    /\ threads = Coroutines \union {Main}
    /\ holder = [h \in Holders |-> None]
    /\ captures = [h \in Holders |-> {}]
    /\ running = << >>
    /\ errors = 0

ProgramStep ==
    \/ \E o \in Objects : New(o) \/ Get(o) \/ Pack(o) \/ Unpack(o) \/ Destroy(o)
    \/ \E p \in Proxies : Forget(p)
    \/ \E t \in Coroutines \union {Main}, args \in Arguments :
         \/ \E h \in Closures, p \in Proxies : Connect(h, p, t, args)
         \/ \E h \in Sources : TimeoutAdd(h, t, args)
    \/ \E h \in Holders : Disconnect(h)

LoopStep ==
    \/ \E h \in Closures : Emit(h)
    \/ \E h \in Sources : Fire(h)

Return == ReturnFromClosure \/ ReturnFromSource

Gc ==
    \/ \E p \in Proxies : Collect(p)
    \/ \E t \in Coroutines : CollectThread(t)

Next == ProgramStep \/ LoopStep \/ Return \/ Error \/ Gc

Spec == Init /\ [][Next]_vars

\* Lua's collector comes round to every userdata, and every handler returns,
\* also one that runs others from time to time.
FairSpec ==
    /\ Spec
    /\ \A p \in Proxies : WF_vars(Collect(p))
    /\ \A d \in 1 .. MaxDepth : SF_vars(Return /\ Len(running) = d)

----------------------------------------------------------------------------
(* Properties.                                                             *)

TypeOK ==
    /\ life \in [Objects -> {"UNBORN", "ALIVE", "DESTROYED"}]
    /\ refs \in [Objects -> Nat]
    /\ gtk \in [Objects -> BOOLEAN]
    /\ proxy \in [Proxies -> Objects \union {None}]
    /\ rooted \subseteq Proxies
    /\ registry \in [Slots -> Values]
    /\ threads \subseteq Coroutines \union {Main}
    /\ holder \in [Holders -> HolderRecord \union {None}]
    /\ captures \in [Holders -> SUBSET Proxies]
    /\ running \in Seq([holder : Holders, arg : Proxies \union {None}])
    /\ errors \in 0 .. MaxErrors

\* No userdata, reachable or waiting for its __gc, names an object that is
\* finalized: whoever uses an object through one has a reference behind it,
\* however handlers nest, fail, and disconnect or destroy what is running.
NoDanglingProxy ==
    \A p \in Proxies : proxy[p] # None => refs[proxy[p]] > 0

Owns(h, s) ==
    s \in {holder[h].object_ref, holder[h].handler_ref, holder[h].data_ref}

\* The registry holds what the closures and sources think it holds, each slot
\* for one of them, and nothing else: no slot is freed while its number is
\* still in use, none twice, and none is forgotten.
RegistryBelongs ==
    /\ \A h \in Live :
         /\ registry[holder[h].handler_ref] = <<"function", h>>
         /\ holder[h].data_ref # None =>
              registry[holder[h].data_ref] = <<"user_data", h>>
         /\ h \in Closures =>
              \E p \in Proxies : /\ registry[holder[h].object_ref] = <<"object", p>>
                                 /\ proxy[p] = holder[h].on
    /\ \A s \in Slots \ Free : \E h \in Live : Owns(h, s)
    /\ \A h, g \in Live : \A s \in Slots : Owns(h, s) /\ Owns(g, s) => h = g

\* "make a reference to the object - to avoid it being garbage collected": no
\* step finalizes an object that a handler is connected to, though the program
\* may have forgotten it, destroyed it or have its handlers fail; not even the
\* step that disconnects the last one.
KeptWhileConnected ==
    [][\A o \in Objects : refs[o] > 0 /\ refs'[o] = 0 => HandlersOn(o) = {}]_vars

\* The program has destroyed o and has it nowhere, not even in a handler of
\* something else, though one of its handlers may still be running.
Abandoned(o) ==
    /\ life[o] = "DESTROYED" /\ HandlersOn(o) = {}
    /\ \A p \in rooted : proxy[p] # o
    /\ \A h \in Attached : \A p \in captures[h] : proxy[p] # o

\* The cycle through the registry is broken by the destruction: what is
\* abandoned is finalized once its handlers have returned, unless the program
\* gets at it again, or an error has left a handler.
AbandonedGoes ==
    \A o \in Objects : []<>(~Abandoned(o) \/ refs[o] = 0 \/ errors > 0)

=============================================================================
