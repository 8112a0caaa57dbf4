# libwhy in TLA+

libwhy is a C library with custom GTK+ 2 widgets, a binding of a part of GTK+ to
Lua, a few string utilities, and `ylua`, a Lua interpreter linked to it, with its own
copy of Lua 5.2.1. This directory holds TLA+ specifications of the parts of it where the
order of events decides whether they work, or where an algorithm is hard enough to want a
second, declarative account; their model-checking configurations; and proofs.

Everything here was read from the C source; names follow it. `PROJECT.json` maps
each definition to the lines it models.

## 1. The system

Everything in libwhy runs in one thread, under one GLib main loop. Concurrency is
the interleaving of callbacks: pointer events, timeouts, signals of GObjects, calls
of the Lua program, Lua's garbage collector, and (in `ylua`) a POSIX signal handler.
A callback runs to its end before the main loop starts the next one, but a callback
that emits a signal or calls into Lua runs other people's code in its middle.

| component | source | state it keeps | operations | interacts with |
|---|---|---|---|---|
| GtkKnob | `gui/gtkknob.c` | adjustment, policy, gesture state, saved position, `old_value`, timer; static surfaces | new, set/get_adjustment, set_update_policy, realize, expose, press, release, motion, timer, destroy, finalize | adjustment (shared state, two signals), GTK+ grab, GLib timeouts |
| GtkControl | `gui/gtkcontrol.c` | as GtkKnob, and type, `saved_value`, `radio_value`, `integral`, pixbuf, prelight | as GtkKnob, and scroll, enter/leave | as GtkKnob |
| GtkControlPanel | `gui/gtkcontrolpanel.c` | list of children with positions, pixbuf, pixmap | new, put, move, add, remove, forall, realize, size handlers, destroy | its children (callbacks of GtkContainer), GDK resources |
| ygtk objects and closures | `gui/ygtk.c` 550-890, 1600-1720 | Lua userdata that own a GObject reference, registry references of closures and timeouts | make_object, `__gc`, connect, marshal, timeout_add, idle_add, their finalizers | Lua registry and collector, GObject reference counts, GLib sources |
| ygtk class tables | `gui/ygtk.c` 1600-1720, 3700-3812 | library and class tables, class data with parents, qdata of the GTypes | `ygtk__index`, `ygtk_make_object`, luaopen | Lua globals, GType |
| ygtk wrappers | the rest of `gui/ygtk.c` | none | one GTK+ call each: what it casts to, what it returns, which reference it takes | GTK+, the class tables |
| ylua | `ylua/ylua.c` | `globalL`, `progname`, the SIGINT disposition, the debug hook | option parsing, script, REPL, `laction`/`lstop`, readline completion | Lua, the terminal |
| y_sscanf, y_atof | `util/y_sscanf.c` | none | scan | locale |
| Lua: collector | `gui/lua/lgc.c`, with `lfunc.c`, `lstring.c`, `lapi.c`, `lstate.c`, `lvm.c` | state, colours, lists of all objects, gray lists, open upvalues | single step, full and generational collections, barriers, finalizers | the program, between any two steps |
| Lua: tables | `gui/lua/ltable.c` | array part, nodes, `lastfree` | get, set, newkey, rehash, next, getn | collector (dead keys) |
| Lua: calls, coroutines | `gui/lua/ldo.c`, with `lapi.c`, `lcorolib.c` | CallInfos, `nny`, `nCcalls`, `errfunc`, `status`; the C stack | call, pcall, error, resume, yield, hooks | `longjmp`, C functions |
| Lua: patterns | `gui/lua/lstrlib.c` | captures of a match | find, match, gmatch, gsub | - |
| Lua: parser | `gui/lua/lparser.c`, with `lcode.c` | FuncStates, blocks, active variables, gotos, labels | variables, upvalues, blocks, functions, goto, break | closures and upvalues of `lvm.c` |
| Lua: the rest | `gui/lua` | - | lexer, expressions, instructions, other libraries | - |
| escape_for_shell | `util/escape_for_shell.c` | none | quote | in no build |
| examples, build scripts | `examples`, `wscript`s | none | - | - |

What makes each of them correct:

- **GtkKnob, GtkControl.** The adjustment's listeners must learn every change, once
  the update policy allows: at once, 300 ms after the last movement, or at the
  release. The timer's callback gets a bare pointer to its widget, so no timer may
  outlive it. The GTK+ grab must end with the gesture. The hard part is that
  `old_value`, the timer, the policy and the adjustment can all change in the middle
  of a gesture, because adjustments are shared and the program may call anything at
  any time; and that values are kept as `gdouble` and computed as `gfloat`.
- **GtkControlPanel.** Its list and its children's parent pointers must agree whenever
  a callback can look; each pixbuf and pixmap reference is dropped once.
- **ygtk objects and closures.** A userdata's instance is alive as long as Lua can
  reach the userdata; registry references are released once, and not before the last
  use; a `lua_State` that a closure keeps is alive when the signal comes.
- **ygtk class tables.** What a userdata says it is, it is: a method that the search finds
  can take the object it was found for, a class inherits what it inherits in GTK+, and an
  object that comes back by a signal gets its class.
- **ygtk wrappers.** An object's reference count is that of those who hold it, whichever
  of the ways to take a reference (sink, ref, own) a wrapper chose.
- **ylua.** What the command line asks for is run, in order, up to the first failure; a first
  interrupt does not kill; options that take an argument have one when they are executed.
- **y_sscanf.** Every conversion goes to its own argument; the number returned is the
  number stored.

- **Lua's collector.** Between any two of its steps the program changes the graph it is
  walking. Nothing that can be reached is freed or goes from a weak table, whatever was
  barriered, resurrected or finalized in between; each finalizer runs once.
- **Lua's tables.** A table is the map of what was assigned to it, however its keys collide
  and move between its two parts; a traversal that clears fields sees each field once.
- **Lua's calls.** The list of CallInfos, which a yield keeps, and the C stack, which
  `longjmp` cuts, are put together again by `resume` so that an error or a yield ends up
  where the program means, with the counters and flags that were there before.
- **Lua's patterns.** Backtracking takes the match that the pattern means, and the captures
  are those of this match and not of an attempt that was given up.
- **Lua's parser.** In one pass, a name is resolved to the variable a reader would find, a
  `goto` to the label, and the upvalues of a block are closed on every way out of it.

`PROJECT.json` lists the hazards line by line.

## 2. Plan

In this order, the most important behaviour first.

| module | about | state |
|---|---|---|
| `Adjustment` | gdouble and gfloat, clamping | done |
| `AnnouncedValue` | abstract promise of a range widget to its listeners | done |
| `GtkKnob`, `MCGtkKnob` | the knob, implements `AnnouncedValue` | done |
| `GtkKnobProofs` | types, timers, grab, no lost announcement; the refinement | done |
| `GtkControl`, `MCGtkControl` | the control, implements `AnnouncedValue` | done |
| `GtkControlProofs` | types, timers, grab, no lost announcement; the refinement | done |
| `YgtkBinding`, `MCYgtkBinding` | who keeps what alive between Lua, GObject and GLib | done |
| `YgtkClasses`, `MCYgtkClasses` | classes, wrappers, the references they take | done |
| `ControlPanel`, `MCControlPanel` | list, parents, pixbuf and pixmap | done |
| `YAtof`, `YSscanfItems`, `YSscanf`, `MCYSscanf` | scanning against a declarative definition | done |
| `Ylua`, `MCYlua` | command line, docall, SIGINT and hook, exit status | done |
| `LuaGC`, `MCLuaGC` | the collector and the program it interrupts | done |
| `LuaKeys`, `LuaTable` | tables against the map they stand for | done |
| `LuaCalls`, `MCLuaCalls` | calls, errors, coroutines, hooks | done |
| `LuaPatterns`, `MCLuaPatterns` | patterns against what they stand for | done |
| `LuaScopes` | scopes, gotos and upvalues against a reading of the whole text | done |
| `MCFunctions` | the parts that keep to themselves (`Ylua`, `YSscanf`, `LuaTable`, `LuaPatterns`, `LuaScopes`), in one run | done |
| `YgtkBindingProofs` | no dangling userdata, the registry, objects kept while connected: by accounting for every reference | done |
| `ControlPanelProofs` | lists and parents, forall, the assertion: by the frames of the calls under way | done |
| `LuaCallsProofs` | counters, flags, yields and errors: by matching CallInfos with C frames | done |
| `YluaProofs` | the command line, the exit status, the first SIGINT: with the recursion of `collectargs` | done |
| `YgtkClassesProofs` | references, casts, inheritance: by induction along the hierarchies and the smallest set that goes | done |
| `LuaInvariants` | what a table is and what the parser knows at any time: the invariants that `LuaProofs` needs | done |
| `LuaProofs` | tables, their length and traversals, for any keys and hashes: by what chains are; the names of any text: by what the parser had at the begin of each block | done |
| `LuaGCProofs` | the lists and the tri-colour invariant, once `LuaGC` is without `RECURSIVE` | to do |
| `KnobCommon` | reference count of the static surfaces | to do |
| `AdjustmentRefs` | references and floating references in set_adjustment and destroy | to do |
| `DialogButtons` | the argument pairs of `gtk.dialog_new_with_buttons` | to do |
| `ShellEscape` | quoting | to do |

## 3. The modules

### Adjustment

`Doubles` is a small set of integers that stands for a piece of the gdouble grid,
`Floats` the coarser grid that a gfloat can hold. `ToFloat` is the C assignment
`gfloat = gdouble`, `Clamp` the macro nest `MAX(MIN(v, upper), lower)`. With
`Doubles = {0,3,5,6}` and `Floats = {0,3,6}`, 5 is a double bound no gfloat holds: a
value clamped to it becomes 6 when it is narrowed, above the bound, as in the code.
Lower bounds are one constant. An adjustment made for a NULL argument has all fields
zero: `Lower` for both bounds.

### AnnouncedValue

Per adjustment the value, the value the listeners have `heard`, and a `claim`: the
present value is `SETTLED`, still `OWED` by a widget, or `FORFEITED`. A step announces,
or is silent and then owes or forfeits what it changed; only an announcement ends a
forfeit. `Kept`: what is not forfeited is heard in the end.

### GtkKnob

One action per handler: `New`, `SetAdjustment` (also `gtk_knob_get_adjustment` of a
destroyed knob), `SetUpdatePolicy`, `Destroy`, `Finalize`, `Press`, `Release` (with the
cases `Click` and `Drop`), `Motion` (with `UpdateMouse`), `TimerCallback`; and for the
program `AppSetValue` and `AppConfigure`, which are GTK+'s `gtk_adjustment_set_value`
and `gtk_adjustment_changed` as the knob's two signal handlers see them. A handler that
emits ends with the emission and reads nothing after it, so an action is atomic and
whatever the program's listener does comes as the next action. The handlers
`gtk_knob_adjustment_changed` and `_value_changed` of all knobs on the adjustment are
part of the emitting action (`OldValuesAfter`).

- Pointer positions are abstracted to the gfloat the arithmetic leads to: any, before
  the clamp. `page_increment` is any amount, so a click goes to any gfloat on its side
  of the value.
- `mods` in `Motion` is any set of buttons: `gdk_window_get_pointer` reports the buttons
  of now, not of the event, and for an event that is no hint the local is not
  initialized.
- `source` maps a GLib source ID to its knob. GLib numbers sources upwards, so an ID is
  taken again only when nobody remembers it (`NewSourceId`).
- `heard` and `forfeit` are history variables. `forfeit` says that a change which was
  still to be announced is no longer anybody's: the program set the policy to
  continuous, another adjustment, new bounds, or destroyed the knob, in mid-drag;
  connected a second knob in mid-drag; or the change is smaller than a gfloat can tell.
  These are the ways an announcement gets lost, and `NoLostAnnouncement` says that there
  are no others.
- A pointer event reaches a knob only if it holds the grab or nobody does (`Receives`).

### GtkControl

The same, with what `gtkcontrol.c` does differently: buttons, switches and radio buttons
act on the press (`Press`); a release announces nothing (see findings); a drag starts
from `saved_value`; the wheel (`Scroll`) works at any time; `DragTargets` keeps what the
target is when the pointer is exactly at the point of the press. The timer is the only
one who owes an announcement, and every change of a discontinuous drag is forfeited.

### YgtkBinding

A GObject with its reference count, the Lua userdata ("proxies") that own a reference
each, signal closures and timeouts ("holders") with their three slots of the Lua
registry, and a stack of the handlers that are running.

- `Emit` and `Fire` are the marshaller and `_timeout_func` up to `lua_call`,
  `ReturnFromClosure` and `ReturnFromSource` what follows it. Between the two the
  program may do everything it may do outside: disconnect or destroy what is running,
  run the main loop again, forget variables.
- `Error` is a Lua error that leaves any number of handlers by `longjmp`: their frames go,
  and with them what GObject and GLib would have undone. A source then counts as being
  dispatched for ever, a closure as being in use.
- `Detach` and `Doomed` are GLib's side: which holders go when they are disconnected, their
  object is destroyed, or its last reference goes; a holder in use stays until its call
  returns.
- `Reachable` is what Lua's collector finds. `Collect` is `__gc` of anything else, in any
  order.
- `NewProxy` and `NewSlots` pick any free address and any free keys, so both are used again.

### YgtkClasses

A class of the binding is a table, here the set of its wrappers; a wrapper is a record of its
name and of what it does to objects: the type its first argument is cast to (`self`), the type of a new object it
returns (`makes`) or which part of its argument it returns (`part`), how the reference is had
(`takes`: `ref`, `sink`, or `own` for one that is already the caller's) and the class given to
the userdata (`class`). `Open` takes the steps of `luaopen_ygtk` in their order (`Register`,
`InitString`, `BuildClass`); the program then makes,
fetches, puts together, receives and destroys objects with every wrapper that its userdata
find along their chain.

- `ParentType` is GTK+'s hierarchy (external), the `parent` in `ClassData` that of the binding, which
  is not the same: GtkControl's and GtkKnob's say GtkRange.
- `RefsMatch` counts the holders of an object (userdata, parent, toplevel list, the widget
  it is a part of) against its reference count; `MethodsFit` asks of each wrapper a search
  can find whether the object is what the wrapper casts it to.
- `Ancestors` and `Chain` go up the two hierarchies. A search stops at the first table of the chain
  with the key, or at one that is not there (`Stops`, `Nearest`, `Index`).
- An object is `<<n, NULL>>` if the program made it, and `<<n, part>>` if GTK+ did for the getter
  of a part. `holds` has who holds whom inside GTK+ and cairo; `handles` what each userdata
  points to. `Gone` are the objects that go when one is destroyed or a reference is given up:
  what `Spread` adds, to the children that are held and to what has no reference left, until
  nothing is added.

### ControlPanel

The list of children, their parent pointers, and a stack of the operations under way:
`Put`, `RemoveChild` and `Forall` stop where the code calls back (`"parent-set"`, or
forall's callback), `FinishPut`, `FinishRemove` and `ContinueForall` are the rest of the
functions. `Destroy` starts a forall, as `gtk_container_destroy` does. `pixbufRefs` and
`pixmapRefs` count what the panel has referenced.

`Discreet` says that a callback leaves alone the widget whose parent is just changing
and takes no child but the one at hand from a list that forall goes through. Without
it, a `"parent-set"` handler that moves the widget being put fails
`g_assert (child)` (`gtkcontrolpanel.c:234`), because `put` sets the parent before it
appends the child, and one that removes the next child leaves `forall` with a freed
node. GTK+'s own containers ask the same of their callbacks, so this is an assumption
and no finding.

### YAtof and YSscanf

`YAtof` has the operators of `y_atof`: `Unsigned` reads significand, point and exponent;
`Reduced` is "attempt to reduce exponent". The result is significand times a power of
ten, exactly; the scaling with doubles is left out. `IntMax` stands for `INT64_MAX`.
`YSscanf` takes one step for each item of the format; a format is given as items
(conversion, `*`, width, `l`), a buffer as characters. `log` keeps what each item took.

### Ylua

`pmain` as one action for each thing it runs, with `Run`, `Return` and `Leave` for the parts
of `docall`: `luaL_loadfile` or `luaL_loadbuffer` and the first `signal`, the return of
`lua_pcall`, the second `signal` and `report`. Between any two of them `Signal` may come.

- An argument is one of 13 `Words`, one for each way that `collectargs` and `runargs` can
  take one. `Collect` is `collectargs`: `CollectFrom`, a recursive function over the index, each
  step of which (`CollectAt`) looks at one argument and at what was found further on.
- `Signal` kills the process where SIGINT has its default action, and is `laction` elsewhere,
  which gives it the default action again and sets the hook in the main thread.
- `Stop` is `lstop`. The hook is called at the next instruction, call or return, so a call
  that begins with the hook set gets no further (`Proceeds`), but one in which the SIGINT
  comes may just be over (`Return`). Then the hook is left for what comes next: the next
  call, `print` of the prompt's results, or the return of `pmain` (`Exit`), where the error is
  `main`'s to report.
- `Switch` is `coroutine.resume` or a yield: hooks are per thread, and `laction` sets that of
  `globalL`, so a coroutine runs on. No property says that a SIGINT is answered: a coroutine, or
  a C function that blocks (`gtk.main()`, `io.read()`), need never bring the main thread to the next
  instruction, call or return.
- `ran` records what has been run and whether it went well. `RunsAsAsked` compares it with
  `Asked`, the set of what is asked for, each with its place: this is said of the command line as
  a whole and not from left to right.

### LuaGC

One record `g` holds the global state and the heap: what is allocated, with entries,
metatables, stacks, upvalues and prototypes (the program's part), and state, colours, bits and
lists (the collector's). A function of `lgc.c` is an operator from one such record to the next,
so that a step of the collector is a composition in the order of the calls: `SingleStep` has a
case for each `gcstate`, `Atomic` is the sequence of `atomic()`.

- The program's steps are what the API and the interpreter do between two `luaC_checkGC`:
  new objects, pushes and pops, assignments with their barriers (`BarrierBack`, `Barrier`,
  `BarrierProto`), closures with open and closed upvalues and the cache of the prototype,
  `setmetatable` with `luaC_checkfinalizer`, strings that are found again while they are
  dead, coroutines, and finalizers that run nested in a step (`Finalize`).
- `next` are the lists of all objects, `gclist` the five gray lists: each of both is one field of
  the object, and `Link` assigns it as `linktable` does, whether the object is in a list already or
  not, so an object that is linked twice cuts a list or makes it go round. A loop of the collector
  that comes to the same state again never ends; `stuck` then has the object it goes round at,
  and the system stops there. `Unread` forgets the `gclist` of objects that are in no list, since
  it is assigned to before it is read. `markbeingfnz` goes through its list in order, and threads
  mark their stacks in order; the nodes of a table, and `uvhead`, are gone through in one order,
  since theirs depends on addresses.
- `SweepMax` is `GCSWEEPMAX`; with 1 the program gets a turn after each object.
- `Next` puts any steps in any order: the debt that paces the collector is left out, so what
  is shown does not depend on it.
- `Reachable` is what the program can still get at, with weak references left out and ephemerons
  by their keys. `NothingFreed`, `WeakEntriesStay` and `EphemeronsStay` speak of it; `TriColour` is the
  invariant that the comments at the top of `lgc.c` and in `lgc.h` promise, with every gray object linked
  from exactly one place; `ListsHold` is that of the lists of all objects, and `TraversesGrays` the
  assertion of `propagatemark`, and that its loops end.

### LuaTable

`LuaKeys` has the keys, their hashes and what is assumed of them: names are no numbers, indices are
from 1 to `MaxInt`. A table is the array part, the nodes with their chains, `lastfree`, and the set
of nodes whose key the collector has marked dead (`dead`); a table without a hash part has no node,
where the C code has it share a dummy. The loops of `ltable.c` (along a chain, the binary search, the
doubling) are functions that `While` makes from one round, and what `luaH_resize` inserts again is
a recursive function of how many items have been (`Resize`), so that no operator is `RECURSIVE`.
`NewKey` has the collision that moves the other node out (Brent's variation) and the one that takes a
free node; `Rehash` counts and resizes; `NextKey` is `luaH_next`; `GetN` is `luaH_getn` with its binary
and unbound searches (`Bisect`, `Unbound`). `map` is the abstract map, `seen` what a traversal has
returned. The collector may mark the key of an empty node dead in mid-traversal.

### LuaCalls

`th` has for each thread the list of its CallInfos and the counters; `cstack` the C frames that
are under way over all threads, the host's first. A `longjmp` cuts `cstack` back to the frame
with the jump buffer and leaves the CallInfos for `recover`, `unroll` and `finishCcall` to go on with.
`doing` says which function is to go on next, since one C function may call, be yielded across
and be taken up by a continuation later. Which C functions have a continuation, which hooks
call or fail, and when anything yields is the program's choice at each step. `AnyThread` lets the
program resume a thread that runs or waits, which the API does not refuse; it is FALSE in the runs
(see "Seen on the way").

### LuaPatterns

Twice the same functions. The operational half follows `do_match` and its helpers over the
characters of the pattern, passing the `MatchState` on where a match fails, so that captures that
were not undone would show. The declarative half takes the items the pattern was put together
from: `Paths` is the set of all ways a pattern covers a text, and the one preferred by the greedy
and lazy items is the match. `FindRight` and `LoopsRight` compare them.

### LuaScopes

The text comes statement by statement, any sequence that the menus allow. `ls` is what the
parser keeps: FuncStates with blocks, active variables and upvalues, the pending gotos and the
labels, and of each jump where it goes and from which register it closes. `text` is the whole text,
and the properties are said of it: the innermost block that declares the name, the label that the
goto may see, the upvalues of the blocks that a jump leaves. A label at the end of a block counts
as after the block's last local; since the parser looks at the token after a label, `ahead`
records what it has seen of the statement that comes next.

## 4. The runs

| run | what it shows | instance |
|---|---|---|
| `knob` | timers have owners, grab follows gesture, no lost announcement; implements `AnnouncedValue`; announced in the end | 2 knobs on 1 adjustment or 1 knob on 2, 3 source IDs, a bound no gfloat holds, fair |
| `control` | nothing left behind, no lost announcement; implements `AnnouncedValue`; delayed changes are announced | 2 rotary controls on 1 adjustment or 1 control of five types on 2, fair |
| `control_release` | finding | 1 rotary control |
| `binding_handlers` | no userdata outlives its object; registry slots have one holder; a connected object is kept; what is destroyed and forgotten is finalized | 1 object, 3 userdata, 1 closure, 1 timeout, 6 slots, 1 coroutine, depth 2, 1 error, fair |
| `panel_children` | list and parents agree, forall reaches all, the assertion holds | 2 panels, 3 widgets, 4 nodes, depth 3, discreet callbacks |
| `functions` | `ylua`: what is run is what the command line asks for, the exit status, no death of a first SIGINT; `y_sscanf`: longest match, right values, no overflow, results in order; tables: the map, its border, traversals; patterns: find and loops; parser: names, gotos, upvalues | every command line of up to 3 of 13 kinds of argument, 2 SIGINTs, 1 chunk; 19608 strings for `%f`, formats of up to 3 items on buffers of up to 3 of 5 characters; tables of 2 names and 4 indices; patterns of up to 5 items; texts of up to 8 statements |
| `lua_gc` | nothing reachable is freed, weak entries stay, finalized once, tri-colour invariant, lists | 9 programs over 2 to 5 objects besides the main thread and the registry |
| `lua_ephemerons` | finding | a weak-keyed table, a key, a value, 3 stack places |
| `lua_finalized` | finding | a userdata and its metatable, both with a finalizer |
| `ygtk_classes` | references match holders, methods fit, classes inherit as in GTK+, signals give the class | 2 objects and 3 userdata (interchangeable), of dialogs, text views, knobs, surfaces and cairo contexts |
| `lua_calls` | counters and flags restored, yields reach their resume, an error ends the innermost protected call, `coroutine.status` tells | main and 2 coroutines, 5 C calls, 7 CallInfos |
| `lua_errfunc` | finding | the same, 8 CallInfos |

Bounds: two widgets are enough for one to be dragged while the other is connected,
moved, destroyed or fires its timer; two adjustments for a widget to leave one in
mid-drag. Both at once has too many states, so `Within` allows a second widget or a second
adjustment; for the control the two that share are rotary, one of them delayed or idle. A
widget never has more than one source and remembers at most one that is gone, so three IDs
are enough for two widgets one of which has a timer to replace. `Floats = {0,3}` and a double
5 above them are enough for a value to change, to change back, and to change below gfloat
precision; a clamp to a bound that no gfloat holds changes the value in no run, and is left to the
theorems, which hold for any grid. Safety runs use symmetry where nothing but the names differs, fair runs do not.

For the binding, three userdata are one in the registry and one for each of two nested
emissions of one handler, with one free again for the program when fewer nest; a closure
and a timeout can run inside each other both ways and compete for slots. `MaxDepth` bounds
nesting, `MaxErrors` the errors that leave handlers, `Capturing` the handlers that may have
a userdata among their upvalues. For the panel, three children are a first, a middle and a
last; four nodes leave one free; depth 3 lets a put or remove happen inside a forall inside
another operation. For the classes, two objects with their parts and three userdata let one
container hold another's child while both and a part are in Lua's hands. For scanning, an `IntMax` of 705 gives the significand room for 70 but
not for 707, so that a significand is full inside the integer part, inside the fraction and
not at all; an `Int32` of 128 makes three digits wrap.

A table of two names and four indices has every case of `luaH_newkey`: with the hashes that
an x86_64 gives small integers, the names collide with each other and with indices, which
collide among themselves; four indices are enough for the array part to grow, and to be left.
Patterns of up to five items have a group in a group and a back reference to either; two
captures are enough for one to be left over from an attempt. The five menus of texts are what
closes, gotos over declarations, gotos out of and into blocks, gotos that leave captured
variables, and loops need; a single name is enough for shadowing, a single label for duplicates.

The programs of `lua_gc` are one for each kind of trouble: weak values with a table and with
a string, weak keys, both, finalizers with resurrection, closures with shared upvalues and the
cache, a coroutine with open upvalues, the generational mode. All orders of their steps with
those of the collector are explored, over several cycles; that the run comes to no deadlock is also
that no collection gets stuck. The programs leave out what the finding of `lua_finalized` is about:
a userdata that is finalized together with its metatable, and a weak table with a finalizer. For `lua_calls`, two coroutines let
one resume the other; five C calls are few enough to reach the limit and the error in the
error's handling, and many enough for a protected call inside a hook inside a coroutine.

For `ylua`, three arguments are an option, its argument and one that comes after; a first
SIGINT sets the hook and a second one kills or comes too late; one chunk at the prompt is
enough for the next place to be the prompt again, `print`, or the end.

Fairness: the main loop dispatches every source that is due (`WF` of each
`TimerCallback`); for the knob also that whoever holds it lets go in the end. Nothing
says that the user stops moving: each movement restarts the 300 ms, so
`DelayedAnnounced` assumes that the movements end. For the binding, Lua's collector comes
round to every userdata (`WF` of each `Collect`), and every handler returns, also one that
runs others again and again in a nested main loop (`SF` of `Return` at each depth: with
`WF`, a timeout that returns and fires again in the nested loop would count as the return
of the handler beneath it). The program need not do anything.

## 5. Findings

- `gtk_control_button_release` resets the state before it asks for it: clicks of knobs
  and sliders do nothing and a discontinuous drag is never announced (`control_release`).
- A value that only a weak-keyed table has is collected although its key is reachable
  (`lua_ephemerons`): `traverseephemeron` puts a table whose keys are white on `allweak` also in an
  incremental step, where it stays gray; a value assigned to it later meets no barrier, since
  only black tables have one; and `retraversegrays` and `convergeephemerons` do not look at `allweak`
  again. `clearvalues` then removes the entry.
- A userdata that is finalized together with its own metatable hangs the collector
  (`lua_finalized`): the userdata marks the metatable, which goes to `g->gray`; `markbeingfnz` then comes to
  the metatable, makes it white and links it once more, so that its `gclist` is itself;
  `propagatemark` takes it from the list when it is black already, against its assertion, and
  `propagateall` never ends. It takes a metatable that was given its own finalizer before the
  userdata was given that metatable, since `tobefnz` keeps the order of `finobj`. The same relinking
  closes `allweak` into a circle, and `clearkeys` never ends, when a table that is weak in keys and
  values still waits for its finalizer in the next cycle: `markroot` marks it, it goes to `allweak`, and
  `atomic` marks it again. No run is about that.
- A protected call that has yielded leaves its error handler behind (`lua_errfunc`):
  `finishCcall` clears `CIST_YPCALL` and does not restore `L->errfunc`, as `lua_pcallk` does for a call
  that has not yielded.

Seen on the way, in the models as in the code where they are modelled, and checked by no run of
their own:

- Widgets: `knob->timer` and `control->timer` keep the ID of a source that has fired, where the
  headers say 0; `control->old_value` is assigned at "changed" too and is not "value at last
  'value-changed' signal"; a rotary control dragged back to the point of the press jumps to
  its upper bound (0/0 and the clamp, `gtkcontrol.c:899`; `BackAtPress`); `set_adjustment` drops its
  reference before it takes the new one (`gtkcontrol.c:378`); every realize counts the static
  surfaces up, only finalize counts down (`gtkknob.c:274`); `gtk_control_panel_destroy` takes
  another reference on its pixbuf and pixmap instead of giving one back
  (`gtkcontrolpanel.c:164`, `:168`).
- Binding: a handler or timeout runs on the coroutine that connected it, which nothing keeps
  alive (`ygtk.c:779`, `:850`; `CoroutinesKept` assumes that the program does); `_connect` takes the top
  of the stack for `user_data`, whatever was passed last; the parameter of a signal may be a NULL
  object, whose type is asked (`ygtk.c:562`); the class chain is searched as if every table on it
  existed, and that of `gtk.entry` is never made (`ygtk.c:1641`); the class chain of GtkControl and
  GtkKnob says GtkRange; `dialog_new_with_buttons` stores each response id one place too high
  (`ygtk.c:2904`); `dialog_get_action_area` wraps an HButtonBox as a vbox; `create_tag` keeps its
  tag's reference when it fails.
- Scanning: `y_atof` takes a lone decimal point for 0; `%*c` and `%*s` take a pointer although they
  store nothing, unlike `%*d` and unlike sscanf(3).
- `ylua`: an option that has extra characters (`-ix`) makes it print `argv[1]` as the wrong
  one, because `noextrachars` returns -1 whatever the index; a script read from stdin for
  want of anything else may fail and the exit status is still success.
- Lua: `lua_resume` of a thread that is not suspended overwrites its `nny` and `nCcalls` before it
  finds that out (`AnyThread`).

## 6. What is proved

For every set of widgets, adjustments and sources and every number grid, from
`FloatAssumption` (there is a nearest gfloat to each double) and the named assumptions about
the types of the constants:

- `GtkKnobProofs`: `TypeCorrect`, `TimersHaveOwners`, `GrabFollowsGesture`. They need each
  other: a timer's callback computes with the adjustment of its knob only because a source's knob
  is alive and connected, and a pointer event does because of `AliveIsConnected`. The
  inductive invariant is `Safe`, with one lemma per action.
- `GtkKnobProofs`: `NothingLost`. `NoLostAnnouncement` is not inductive: at a release it must be
  known that `old_value` differs from the value exactly if the listeners heard another value.
  That is `OldValueIsHeard`: the `old_value` of each connected knob is the heard value as
  a gfloat, unless the adjustment is forfeited. `Faithful` is their conjunction. Emitting
  steps go through `EmitFaithful`, silent ones through `QuietFaithful`, connections
  through `ConnectFaithful`; only `UpdateMouse` needs an argument of its own.
- `GtkKnobProofs`: `PromiseKept`, every step is a step of `AnnouncedValue` or a stutter. What an
  action does to one adjustment is sorted into announcing, staying silent and forfeiting; that a
  forfeit ends only with an announcement, and that a silent change owes or forfeits, comes
  from `Faithful`.
- `GtkControlProofs`: `NothingStaysBehind`. The invariant `Safe` adds to what the run checks that a
  control that is alive is connected and that no two controls remember the same source
  (`TimersDistinct`): a control that removes the source it remembers would otherwise take
  another's, since `timer` is not cleared when the source has fired.
- `GtkControlProofs`: `NothingLost` and `PromiseKept`. Here only the timer owes, so the argument is
  that every silent step forfeits, starts a timer or finds one running.

- `YgtkBindingProofs`, for any objects, userdata, handlers, slots, coroutines and depth, from
  `BindingAssumption` (finitely many userdata and slots; a closure is no source; `None` is nothing
  else): `ReferencesAccounted`, `NoDangling`, `RegistryRight`, `Kept`. That no userdata dangles is
  not inductive: whether an unref is the last one depends on who else has a reference. So `Accounted`
  counts them (`RefsCounted`): an object has at least one for each of its userdata, one if GTK+
  holds it, and one for each emission under way on it. At least, for those that an error has
  abandoned are never given back. For the emissions to be counted right when a handler returns, a
  handler that runs must still be there (`CallsCounted`: `Detach` finalizes only what has no
  calls), on an object that has been made (`ClosuresConnected`); for a new object to have none,
  `UnbornUnused`. `Registered` adds whose slots are whose: that a slot has one
  owner keeps `Detach` from emptying another's. `Kept` then follows: the userdata in the
  registry is reachable, so the collector leaves it, and it counts as one reference.

- `ControlPanelProofs`, for any panels, widgets and nodes and any nesting of callbacks, from
  `PanelAssumption` and if callbacks are discreet (`Discreet` is part of the guards):
  `PanelsConsistent`, `ListsMatchParents`, `AllReachedAlways`, `NeverAborts`, `TypeCorrect`. That
  list and parents agree is not inductive, since it leaves out the widgets whose parent is just
  changing. `FramesRight` says of each call under way where its widget is: one that is being put
  has its parent but is in no list (`PutFrame`), one that is being removed has lost its parent and
  is still in the list (`RemoveFrame`), and what forall has ahead is in the list from the node in
  hand on (`ForallFrame`). The assertion in `move_internal` then holds because the widget's frame
  is the innermost of its own. `PixbufCounted` counts the panels that have a reference.

- `LuaCallsProofs`, for any threads, any limits of the C stack (at least 2) and any program, if it
  resumes no thread that is under way (`~AnyThread`; see "Seen on the way" for what happens
  otherwise): `CallsConsistent`, `CountsRestored`, `NoYieldIsCaught`, `StatusIsTold` and, of
  each step, `ErrorsAreCaught`. None of the properties is inductive: what an error restores is
  told by the CallInfo that it finds, and whether that is right depends on what the C frame did
  when it was entered, before any number of yields. `Consistent` therefore says that there are
  depths `at`, one for each C frame, which match the frames of each thread with its CallInfos:
  which frame runs which CallInfo (`Places`), called from where (`Callers`), with which hook
  flags saved (`Begun`), under which error handler (`Handled`), protected by what
  (`Protecting`), and that what has no frame left can go on (`Continuable`). `Counted` gives
  `nny`, `nCcalls` and `allowhook` from the frames, `Waiting`, `Away` and `Running` what each
  status means. One lemma for each way that a call begins, returns, yields, is cut off or is taken
  up keeps each part; `OthersKept` that what happens to a thread leaves the others alone.

- `YgtkClassesProofs`, for every set of types that the program makes instances of, any number of
  objects alive and any finite set of userdata, from `ClassesAssumption` (`NULL` is nothing else):
  `ClassesConsistent`, `ReferencesMatch`, `MethodsAlwaysFit`, `MethodsInherited`,
  `TypesRecognised` and `OneTableFound`. `AncestorsAre` and `ChainIs` show that the recursions up
  the hierarchies define what they should (`LineExists`: the smallest sets closed under going up
  solve the equations); `TypeInduction` and `ClassInduction` are induction from the top down.
  `TablesSound` goes through the tables: which reference each wrapper takes suits what it
  returns, and no method of a class casts to anything but an ancestor of it. That a userdata
  fits its object then follows the chain (`Fits`), also for the action area of a dialog, which
  is no GtkVBox (`ActionAreaFits`). `RefsMatch` is not inductive by itself: a getter adds a holder
  only if the widget does not hold the part yet, which a destruction or a container could have
  changed (`PartsHeld`); and that nothing of a live widget goes without it (`PartStays`) needs
  `GoneIsLeast`: what goes is the smallest set that nothing spreads from, by well-founded
  induction on what is left of the objects.

- `YluaProofs`, for every command line, every outcome of what is run, and SIGINTs at any time, from
  `YluaAssumption`: `InterpreterConsistent`, `TypeCorrect` (with the assertion of `runargs`),
  `WhatIsAskedRuns`, `ExitStatusTells`, `FirstInterruptSurvived`. `CollectFinds` first shows that
  the recursion of `collectargs` defines what it should: induction is done with sets, by the
  least argument from which on it does, and the least number of a set comes from `WFMin`.
  `CollectRight` then follows the greatest place that `collectargs` comes to with nothing wrong
  so far, and finds that it is the end of the options as `Asked` has it, or a mistake. The
  invariant says how far the interpreter is: what is asked for has been run exactly if its
  place is less than `Upto` (`RanUpto`), `runargs` is at an option and never at an option's
  argument (`Located`), and all went well but what is last (`Outcomes`). `OptionPlaces`,
  `FirstPlaces` and `LastPlaces` say that between two steps nothing is passed over.

- `LuaProofs` on tables, for any keys, hashes, sizes and any program, from `KeysAssumption`:
  `TableStaysSound`, `RehashOnce`, `TablesAreRight` and `TraversalsAreComplete`. That a table is the
  map is not inductive: a key that is there is found only if it is on the chain from its main
  position. `Sound` says what chains are: each key is behind its main position (`OnItsChain`, where
  `Behind` is the smallest set closed under going on), which is held by a key that belongs there
  (`MainOwned`, so that what moves out of the way is never the start of a chain), no two nodes have the
  same next (`NextOnce`), chains end (`Ranked`), nothing is free from `lastfree` on
  (`NoneFreeAbove`), and a key that is not dead is in one node (`KeyOnce`) and comes before a dead
  one that is the same (`Downward`: `findindex`, which takes dead keys too, finds the one that
  counts). `FillSound`, `FillBehindSound` and `FillAfterMoveSound` are the three ways of
  `luaH_newkey` to a node. `ResizeSound` goes through the items that are inserted again; that
  none of them, nor the new key after them, finds the table full is counting (`NotFull`, by the
  pigeonhole principle, with `RehashSound` for what `computesizes` promises), and is `RehashOnce` for
  the caller. Loops are taken care of by `WhileIs`, `WhileEnds` and `WhileKeeps`: a loop in which a
  natural number gets less ends, with what each round keeps. A traversal has visited
  what it has passed of the fields that are there (`Travels`); an assignment to one of those moves
  no key, nor does the collector (`PassedSame`).

- `LuaProofs` on the parser, for any text, any nesting and any names, from `ScopesAssumption` (no
  variable has a name of the parser's own): `ParserKeepsTrack` and `NamesAreResolved`. What `singlevaraux` finds is told by
  the FuncStates, and what the text means by the text before the name, so the invariant
  `ScopesInv` relates the two. `Snap` is what of the FuncStates counts: for each function its
  variables, and how many of them each block began with. `Reads` says that the parser is in
  order and has that snapshot, and that each upvalue leads through the functions around it to a
  variable of its name (`UpsRight`); `UseSound` that a use may add upvalues and marks but keeps
  the snapshot, and denotes the last variable of the name in it (`SearchRight`, by induction on the
  functions; `UpvaluesMean`). The snapshot is not enough: at the end of a block it goes back to
  what it was, and what that showed has to be known still. So `StackLinks` keeps the snapshots
  from the beginning of each open block, each of which becomes the next by what the statement
  at its begin does (`OpenBlockSound`), and the last of which the end brings back (`EndUndoes`,
  `EndSound`), with the variable that a local function leaves (`Staying`). `Shows`: the last one
  has exactly the variables that the text shows, in the order of their declarations;
  `SeenSame`, `SeenOpens` and `SeenEnds` say what a statement does to these. Gotos and labels
  change no snapshot (`GotosAlike`, by induction on the pending ones).

`GtkKnobProofs` and `GtkControlProofs` begin with the facts about `Adjustment` that they need:
`ToFloat` yields a gfloat and is the identity on gfloats, `Clamp` yields one of its arguments.

Only model-checked: the liveness properties (fairness and `~>` are out of the prover's
reach); where gotos go and which upvalues are closed; and everything about `LuaGC`,
`LuaPatterns` and `YSscanf`. `LuaGC` and `LuaPatterns` have `RECURSIVE` operators, which keep the
provers away; to prove something about one of them they have to become recursive functions first,
as in `Ylua`, `YgtkClasses`, `LuaTable` and `LuaScopes`. The properties of `LuaPatterns` and
`YSscanf` say what recursive definitions compute for every input, which is induction over data.

## 7. What is not modelled

- Widgets: drawing, geometry and sizes, the prelight flag, the static surfaces, the
  references on pixbufs and adjustments; the excess precision of x87 builds (a gfloat local
  kept in a register).
- Binding: values other than objects between Lua and GTK+, blocked handlers, the arguments of
  wrappers that are not objects, and the loop of `dialog_new_with_buttons`.
- `ylua`: readline's completion and history, the texts of messages.
- Scanning: `'\v'` as a space; the value that `%x` stores; the overflow of `int64_t` in `%d` and `%x` and of `y_atof`'s exponent, and the scaling
  with doubles.
- Lua: the debt that paces the collector, the resizing of the string table and of stacks,
  user values, `lua_close`; table constructors, which fill the array part after fields of the hash part
  (`OP_SETLIST`); the hash functions (constants) and allocations that fail; yields from
  hooks, tail calls and errors of memory; `string.format` and the rest of the string library;
  expressions, assignments, parameters and `if` in the parser, and the code generator but for the
  jumps that close upvalues. The lexer, the instructions of the interpreter and the other
  libraries are sequential code that keeps no state of its own between calls.
- GTK+, GObject and GLib, but for what the code uses of them.
- `escape_for_shell`, which is in no build; the examples and build scripts, of which nothing runs
  with the library.
