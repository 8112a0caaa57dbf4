---------------------------- MODULE YgtkClasses ----------------------------
(***************************************************************************)
(* gui/ygtk.c: the tables of classes and functions that luaopen_ygtk()     *)
(* makes, the search for a method along the class chain, and what each     *)
(* wrapper does to the references of the objects that it hands to Lua.     *)
(* A class goes by the name of its GType.  What a wrapper passes on to     *)
(* GTK+ but objects is left out; signals and closures are in YgtkBinding.  *)
(***************************************************************************)
EXTENDS Integers, FiniteSets, Sequences

CONSTANTS NULL,
          Wanted,       \* the types the program makes instances of
          MaxObjects,   \* bound: objects made by the program and alive at once
          Userdata      \* bound: userdata that are not yet collected

----------------------------------------------------------------------------
(* A wrapper.  "self" is the type that the first argument is cast to (NULL *)
(* if it is not an object); "makes" or "part" tells the object returned,   *)
(* "takes" how its reference is had and "class" the class it is given.  A  *)
(* table is the set of its wrappers.                                       *)

Wrapper(name, self, makes, part, takes, class) ==
    [name |-> name, self |-> self, makes |-> makes, part |-> part, takes |-> takes, class |-> class]
Plain(names) == {Wrapper(n, NULL, NULL, NULL, NULL, NULL) : n \in names}
On(type, names) == {Wrapper(n, type, NULL, NULL, NULL, NULL) : n \in names}
MakesFrom(self, type, takes, names) == {Wrapper(n, self, type, NULL, takes, type) : n \in names}
Makes(type, takes, names) == MakesFrom(NULL, type, takes, names)
Gets(type, part, class, name) == {Wrapper(name, type, NULL, part, "ref", class)}

Class(parent, methods) == [parent |-> parent, methods |-> methods]
Nothing == Plain({})

(* Libraries, which are tables of plain functions, and that of "g", which  *)
(* every chain ends in; the last two are added by ygtk_init_string.        *)
G == Class(NULL,
       Plain({"build_filename", "file_test", "get_current_time", "idle_add", "source_remove",
              "timeout_add", "usleep"})
    \union On("GObject", {"object_get_property", "object_set_property", "signal_connect",
                      "signal_connect_after", "signal_handler_block", "signal_handler_disconnect",
                      "signal_handler_unblock"}))
Sugar(g) == g \union On("GObject", {"get", "set"})

(* Simple classes, without inheritance.                                    *)
CairoContext == Class(NULL,
       On("cairo", {"arc", "close_path", "curve_to", "fill", "fill_preserve", "line_to", "move_to",
                    "paint", "rectangle", "rel_line_to", "restore", "save", "scale",
                    "select_font_face", "set_font_size"}))
CairoContextMore == Class(NULL,
       On("cairo", {"set_line_cap", "set_line_width", "set_source_hsv", "set_source_rgb",
                    "set_source_surface", "show_text", "stroke", "translate", "destroy"})
    \union MakesFrom("surface", "cairo", "own", {"create"}))
Cairo == Class(NULL, CairoContext.methods \union CairoContextMore.methods)
CairoSurface == Class(NULL, On("surface", {"destroy"}))
ImageSurface == Class(NULL,
       On("surface", {"destroy"}) \union Makes("surface", "own", {"create"}))
Boxed == Class(NULL, On("boxed", {"get_button", "get_key"}))
Gdk == Class(NULL,
       On("cairo", {"cairo_set_source_pixbuf"})
    \union MakesFrom("GdkDrawable", "cairo", "own", {"cairo_create"}))
Gtk == Class(NULL, Plain({"events_pending", "init", "main", "main_iteration_do", "main_quit",
                          "text_iter_get_offset", "text_iter_new"}))

(* Classes.                                                                *)
GdkDrawable == Class("GObject", On("GdkDrawable", {"get_size"}))
GdkWindow   == Class("GdkDrawable",
    MakesFrom("GdkWindow", "surface", "own", {"create_similar_surface"}))
GdkPixbuf   == Class("GObject", Makes("GdkPixbuf", "own", {"new_from_file", "new_subpixbuf"}))
GtkTextBuffer == Class("GObject",
    On("GtkTextBuffer", {"create_tag", "insert", "insert_with_tags_by_name", "set_text",
                         "apply_tag_by_name", "create_mark", "get_iter_at_offset", "insert_pixbuf"}))
GtkAdjustment == Class("GObject",
       On("GtkAdjustment", {"get_lower", "get_upper", "get_value", "set_value"})
    \union Makes("GtkAdjustment", "sink", {"new"}))
GtkWidget == Class("GObject",
       On("GtkWidget", {"SET_FLAGS", "add_events", "destroy", "hide", "queue_draw", "realize",
                        "show", "show_all"})
    \union Gets("GtkWidget", "window", "GdkWindow", "get_window"))
GtkContainer == Class("GtkWidget", On("GtkContainer", {"add"}))
GtkButton == Class("GtkContainer",
    Makes("GtkButton", "sink", {"new", "new_from_stock", "new_with_label"}))
GtkToggleButton == Class("GtkButton",
    On("GtkToggleButton", {"get_active"}) \union Makes("GtkToggleButton", "sink", {"new"}))
GtkCheckButton == Class("GtkToggleButton",
    Makes("GtkCheckButton", "sink", {"new", "new_with_label"}))
GtkComboBox == Class("GtkContainer",
       On("GtkComboBox", {"append_text", "get_active_text", "get_active", "set_active"})
    \union Makes("GtkComboBox", "sink", {"new_text"}))
GtkFrame == Class("GtkContainer", Makes("GtkFrame", "sink", {"new"}))
GtkScrolledWindow == Class("GtkContainer", Makes("GtkScrolledWindow", "sink", {"new"}))
GtkWindow == Class("GtkContainer",
    On("GtkWindow", {"get_size", "set_title"}) \union Makes("GtkWindow", "ref", {"new"}))
GtkDialog == Class("GtkWindow",
       On("GtkDialog", {"add_button", "run"})
    \union Gets("GtkDialog", "action_area", "GtkVBox", "get_action_area")
    \union Gets("GtkDialog", "content_area", "GtkVBox", "get_content_area")
    \union Makes("GtkDialog", "sink", {"new_with_buttons"}))
GtkAboutDialog == Class("GtkDialog", Makes("GtkAboutDialog", "sink", {"new"}))
GtkBox  == Class("GtkContainer", On("GtkBox", {"pack_end", "pack_start"}))
GtkHBox == Class("GtkBox", Makes("GtkHBox", "sink", {"new"}))
GtkVBoxInContainer == Class("GtkContainer", Makes("GtkVBox", "sink", {"new"}))
GtkVBox == Class("GtkBox", Makes("GtkVBox", "sink", {"new"}))
GtkControlPanel == Class("GtkContainer",
    On("GtkControlPanel", {"put"}) \union Makes("GtkControlPanel", "sink", {"new"}))
GtkTable == Class("GtkContainer",
    On("GtkTable", {"attach"}) \union Makes("GtkTable", "sink", {"new"}))
GtkTextView == Class("GtkContainer",
       On("GtkTextView", {"scroll_to_mark_by_name"})
    \union Gets("GtkTextView", "buffer", "GtkTextBuffer", "get_buffer")
    \union Makes("GtkTextView", "sink", {"new"}))
GtkDrawingArea == Class("GtkWidget", Makes("GtkDrawingArea", "sink", {"new"}))
GtkEntry       == Class("GtkWidget", Nothing)
GtkSpinButton  == Class("GtkEntry", Makes("GtkSpinButton", "sink", {"new"}))
GtkImage       == Class("GtkWidget", Makes("GtkImage", "sink", {"new_from_file"}))
GtkLabel == Class("GtkWidget", On("GtkLabel", {"set_text"}) \union Makes("GtkLabel", "sink", {"new"}))
GtkProgressBar == Class("GtkWidget",
    On("GtkProgressBar", {"set_fraction"}) \union Makes("GtkProgressBar", "sink", {"new"}))
GtkRangeInContainer == Class("GtkContainer", Nothing)
GtkRange == Class("GtkWidget", Nothing)
GtkControl == Class("GtkRange",
       On("GtkControl", {"set_prelight_offsets"})
    \union On("GtkWidget", {"set_widget_bg_parent_relative_in_style"})
    \union Makes("GtkControl", "sink", {"new"}))
GtkKnob   == Class("GtkRange", Makes("GtkKnob", "sink", {"new"}))
GtkHScale == Class("GtkRange", Makes("GtkHScale", "sink", {"new", "new_with_range"}))
GtkVScale == Class("GtkRange", Makes("GtkVScale", "sink", {"new", "new_with_range"}))
GtkHSeparator == Class("GtkWidget", Makes("GtkHSeparator", "sink", {"new"}))

ClassData ==
    [GObject |-> G, GdkDrawable |-> GdkDrawable, GdkWindow |-> GdkWindow, GdkPixbuf |-> GdkPixbuf,
     GtkTextBuffer |-> GtkTextBuffer, GtkAdjustment |-> GtkAdjustment, GtkWidget |-> GtkWidget,
     GtkContainer |-> GtkContainer, GtkButton |-> GtkButton, GtkToggleButton |-> GtkToggleButton,
     GtkCheckButton |-> GtkCheckButton, GtkComboBox |-> GtkComboBox, GtkFrame |-> GtkFrame,
     GtkScrolledWindow |-> GtkScrolledWindow, GtkWindow |-> GtkWindow, GtkDialog |-> GtkDialog,
     GtkAboutDialog |-> GtkAboutDialog, GtkBox |-> GtkBox, GtkHBox |-> GtkHBox, GtkVBox |-> GtkVBox,
     GtkControlPanel |-> GtkControlPanel, GtkTable |-> GtkTable, GtkTextView |-> GtkTextView,
     GtkDrawingArea |-> GtkDrawingArea, GtkEntry |-> GtkEntry, GtkSpinButton |-> GtkSpinButton,
     GtkImage |-> GtkImage, GtkLabel |-> GtkLabel, GtkProgressBar |-> GtkProgressBar,
     GtkRange |-> GtkRange, GtkControl |-> GtkControl, GtkKnob |-> GtkKnob, GtkHScale |-> GtkHScale,
     GtkVScale |-> GtkVScale, GtkHSeparator |-> GtkHSeparator,
     cairo |-> Cairo, surface |-> CairoSurface, image_surface |-> ImageSurface, boxed |-> Boxed,
     gdk |-> Gdk, gtk |-> Gtk, lib_cairo |-> Class(NULL, Nothing), pango |-> Class(NULL, Nothing)]
Simple == {"cairo", "surface", "image_surface", "boxed"}

\* luaopen_ygtk(): the libraries with their functions (that of "g" is what a
\* chain calls GObject), the sugar, and then the classes.
Libraries == <<"GObject", "lib_cairo", "pango", "gdk", "gtk">>
ClassOrder == <<"boxed", "cairo", "surface", "image_surface",
    "GdkDrawable", "GdkWindow", "GdkPixbuf", "GtkTextBuffer", "GtkAdjustment", "GtkWidget",
    "GtkContainer", "GtkButton", "GtkToggleButton", "GtkCheckButton", "GtkComboBox", "GtkFrame",
    "GtkScrolledWindow", "GtkWindow", "GtkDialog", "GtkAboutDialog", "GtkBox", "GtkHBox", "GtkVBox",
    "GtkControlPanel", "GtkTable", "GtkTextView", "GtkDrawingArea", "GtkSpinButton", "GtkImage",
    "GtkLabel", "GtkProgressBar", "GtkRange", "GtkControl", "GtkKnob", "GtkHScale", "GtkVScale",
    "GtkHSeparator">>

(* The types of GTK+ and of gui/: the parent of each.                      *)
ParentType ==
    [GdkDrawable |-> "GObject", GdkPixbuf |-> "GObject", GtkTextBuffer |-> "GObject",
     GtkObject |-> "GObject", GtkAdjustment |-> "GtkObject", GtkWidget |-> "GtkObject",
     GtkContainer |-> "GtkWidget", GtkDrawingArea |-> "GtkWidget", GtkEntry |-> "GtkWidget",
     GtkMisc |-> "GtkWidget", GtkProgress |-> "GtkWidget", GtkRange |-> "GtkWidget",
     GtkControl |-> "GtkWidget", GtkKnob |-> "GtkWidget", GtkSeparator |-> "GtkWidget",
     GtkBin |-> "GtkContainer", GtkBox |-> "GtkContainer",
     GtkControlPanel |-> "GtkContainer", GtkTable |-> "GtkContainer",
     GtkTextView |-> "GtkContainer", GtkButton |-> "GtkBin", GtkComboBox |-> "GtkBin",
     GtkFrame |-> "GtkBin", GtkScrolledWindow |-> "GtkBin", GtkWindow |-> "GtkBin",
     GtkHBox |-> "GtkBox", GtkVBox |-> "GtkBox", GtkButtonBox |-> "GtkBox",
     GtkImage |-> "GtkMisc", GtkLabel |-> "GtkMisc", GtkHScale |-> "GtkScale",
     GtkVScale |-> "GtkScale", GdkWindow |-> "GdkDrawable", GtkToggleButton |-> "GtkButton",
     GtkCheckButton |-> "GtkToggleButton", GtkDialog |-> "GtkWindow",
     GtkAboutDialog |-> "GtkDialog", GtkHButtonBox |-> "GtkButtonBox",
     GtkSpinButton |-> "GtkEntry", GtkProgressBar |-> "GtkProgress",
     GtkScale |-> "GtkRange", GtkHSeparator |-> "GtkSeparator"]
Types == DOMAIN ParentType \union {"GObject"} \union Simple
Ancestors[t \in Types] ==
    {t} \union IF t \in DOMAIN ParentType THEN Ancestors[ParentType[t]] ELSE {}
IsA(t, a) == a \in Ancestors[t]

----------------------------------------------------------------------------
VARIABLES tables,    \* the classes and libraries that have a table
          opened,    \* the steps of luaopen_ygtk() taken
          qdata,     \* type -> the class its qdata points to, or NULL
          objects,   \* object -> [type, refs, floating, live (not destroyed)]
          holds,     \* the references GTK+ and cairo have: <<holder, object>>
          handles    \* userdata -> [object, class], Unused when there is none

vars == <<tables, opened, qdata, objects, holds, handles>>

\* The parts of a widget that a getter returns, and what they are.
PartType == [window |-> "GdkWindow", content_area |-> "GtkVBox",
             action_area |-> "GtkHButtonBox", buffer |-> "GtkTextBuffer"]

\* <<n, NULL>> is an object that the program made, <<n, part>> a part of it.
Ids == (1..MaxObjects) \X {NULL}
Parts == (1..MaxObjects) \X DOMAIN PartType
Toplevels == <<0, NULL>>   \* the list of toplevel windows, as a holder

ASSUME ClassesAssumption ==
    /\ MaxObjects \in Nat /\ IsFiniteSet(Userdata)
    /\ NULL \notin Wanted \union Ids \union Parts \union Types \union DOMAIN ClassData
                      \union DOMAIN PartType

Handle(o, class) == [object |-> o, class |-> class]
Unused == Handle(NULL, NULL)

Init == /\ tables = {} /\ opened = 0
        /\ qdata = [t \in Types |-> NULL] /\ objects = [o \in {} |-> o] /\ holds = {}
        /\ handles = [u \in Userdata |-> Unused]

\* One step of luaopen_ygtk().  A class table of a library that is not there
\* would be an error; there is no such class.
Ready == opened = Len(Libraries) + 1 + Len(ClassOrder)
Register == /\ opened < Len(Libraries)
            /\ tables' = tables \union {Libraries[opened + 1]}
InitString == opened = Len(Libraries) /\ UNCHANGED tables
BuildClass == /\ opened > Len(Libraries) /\ ~Ready
              /\ tables' = tables \union {ClassOrder[opened - Len(Libraries)]}
Open == /\ Register \/ InitString \/ BuildClass
        /\ opened' = opened + 1
        /\ UNCHANGED <<qdata, objects, holds, handles>>

\* What a table holds, once luaopen_ygtk() is done.
Methods == [c \in DOMAIN ClassData |->
              IF c = "GObject" THEN Sugar(ClassData[c].methods) ELSE ClassData[c].methods]
Names(methods) == {m.name : m \in methods}
Wrappers == UNION {Methods[c] : c \in DOMAIN Methods}

\* ygtk__index() goes up the chain and stops at the first table that has the
\* key; a table that is not there is an error.  That of a simple class is its
\* own __index.
Chain[c \in DOMAIN ClassData] ==
    {c} \union IF ClassData[c].parent = NULL THEN {} ELSE Chain[ClassData[c].parent]
Stops(class, key) == {c \in Chain[class] : c \in tables => key \in Names(Methods[c])}
Nearest(S) == {c \in S : S \subseteq Chain[c]}
Index(class, key) ==
    {m \in UNION {Methods[c] : c \in Nearest(Stops(class, key)) \intersect tables} : m.name = key}

\* ygtk_make_object() and ygtk_make_simple_object(): a userdata, and the class
\* noted for the type it is named for if the instance's own has none.
MakeUnnoted(u, type, o, class) ==
    handles' = [handles EXCEPT ![u] = Handle(o, class)] /\ UNCHANGED qdata
MakeObject(u, type, o, class) ==
    /\ handles' = [handles EXCEPT ![u] = Handle(o, class)]
    /\ qdata' = IF class \in Simple \/ qdata[type] # NULL THEN qdata
                ELSE [qdata EXCEPT ![class] = class]

\* How a wrapper has the reference that its userdata will give back.
TakenSunk(object, takes) ==
    IF takes = "ref" THEN [object EXCEPT !.refs = @ + 1] ELSE [object EXCEPT !.floating = FALSE]
Taken(object, takes) ==
    CASE takes = "own" -> object
      [] takes = "sink" /\ object.floating -> [object EXCEPT !.floating = FALSE]
      [] OTHER -> [object EXCEPT !.refs = @ + 1]

\* A new instance: GTK+ objects float, but windows are on the toplevel list.
Fresh(type) == [type |-> type, refs |-> 1, live |-> TRUE,
                floating |-> IsA(type, "GtkObject") /\ ~IsA(type, "GtkWindow")]

Widget(o) == IsA(objects[o].type, "GtkWidget")
FreeIds == {n \in Ids : \A o \in DOMAIN objects : o[1] # n[1]}
Spare == {u \in Userdata : Ready /\ handles[u] = Unused}
Alive == {u \in Userdata : handles[u].object # NULL}
With(o, object) == [p \in DOMAIN objects \union {o} |-> IF p = o THEN object ELSE objects[p]]

\* A wrapper that returns a new object, given one that it casts or none: a
\* cairo context keeps its target.
New(u, m, given) ==
    LET n == CHOOSE n \in FreeIds : TRUE
        rooted == IF IsA(m.makes, "GtkWindow") THEN {<<Toplevels, n>>} ELSE {}
        target == {<<n, o>> : o \in IF m.makes = "cairo" THEN {given} ELSE {}}
        made == With(n, Taken(Fresh(m.makes), m.takes))
    IN  /\ objects' = [o \in DOMAIN made |->
                         IF <<n, o>> \in target THEN [made[o] EXCEPT !.refs = @ + 1] ELSE made[o]]
        /\ holds' = holds \union target \union rooted
        /\ MakeObject(u, m.makes, n, m.class)
        /\ UNCHANGED <<tables, opened>>
Givens(m) == IF m.self = NULL THEN {NULL}
             ELSE {o \in {handles[u].object : u \in Alive} : IsA(objects[o].type, m.self)}
Make == /\ FreeIds # {}
        /\ \E class \in tables : \E m \in Methods[class] :
              m.makes \in Wanted /\ \E u \in Spare, given \in Givens(m) : New(u, m, given)

\* A getter: the part of the object, which GTK+ makes when it is first needed
\* (the window of a widget: when it is realized, and nil until then).
Finds(u, m) == m \in Index(handles[u].class, m.name)
Get == \E m \in Wrappers : m.part # NULL /\ \E v \in Alive : Finds(v, m) /\ \E u \in Spare :
         LET whole == handles[v].object
             o == <<whole[1], m.part>>
             part == IF o \in DOMAIN objects THEN objects[o]
                     ELSE [Fresh(PartType[m.part]) EXCEPT !.floating = FALSE]
         IN  /\ whole \in Ids /\ objects[whole].live
             /\ objects' = With(o, Taken(part, m.takes))
             /\ holds' = holds \union {<<whole, o>>}
             /\ MakeObject(u, part.type, o, m.class)
             /\ UNCHANGED <<tables, opened>>

\* The add, put, pack_start... of a container: the child is held by it.
Add == \E v \in Alive, w \in Alive :
         LET parent == handles[v].object
             child == handles[w].object
         IN  /\ IsA(objects[parent].type, "GtkContainer") /\ Widget(child)
             /\ objects[parent].live /\ objects[child].live
             /\ parent # child /\ ~\E g \in holds : g[2] = child \/ g = <<child, parent>>
             /\ objects' = [objects EXCEPT ![child] = Taken(@, "sink")]
             /\ holds' = holds \union {<<parent, child>>}
             /\ UNCHANGED <<tables, opened, qdata, handles>>

\* A value that GTK+ hands to a handler (yg_gvalue_to_lua()): an object whose
\* type is not known is nil, any other gets a userdata and a reference.
Receive == \E u \in Spare, o \in DOMAIN objects :
             LET type == objects[o].type
             IN  /\ qdata[type] # NULL
                 /\ objects' = [objects EXCEPT ![o] = Taken(@, "ref")]
                 /\ MakeObject(u, type, o, qdata[type])
                 /\ UNCHANGED <<tables, opened, holds>>

\* The references left to an object when the objects S are destroyed or
\* finalized, and one of "unref" is given up.
Kept(S) == {g \in holds : g[1] \notin S /\ g[2] \notin S}
Left(S, unref, o) ==
    objects[o].refs - Cardinality({g \in holds \ Kept(S) : g[2] = o}) - IF o = unref THEN 1 ELSE 0

\* A widget that is destroyed or finalized destroys those it holds, and lets
\* go of its other parts; what has no reference left is finalized.
Spread(S, unref) ==
    S \union {g[2] : g \in {g \in holds : g[1] \in S /\ Widget(g[2])}}
      \union {o \in DOMAIN objects : Left(S, unref, o) <= 0}
Gone(destroyed, unref) ==
    LET grown[S \in SUBSET DOMAIN objects] ==
            LET more == Spread(S, unref) IN IF more = S THEN S ELSE grown[more]
    IN  grown[destroyed]
GiveUp(destroyed, unref) ==
    LET gone == Gone(destroyed, unref)
        kept == {o \in DOMAIN objects : Left(gone, unref, o) > 0}
    IN  /\ objects' = [o \in kept |-> [objects[o] EXCEPT !.refs = Left(gone, unref, o),
                                                         !.live = @ /\ o \notin gone]]
        /\ holds' = Kept(gone)

\* The destroy method of a widget (gtk_widget_destroy()), not called on the
\* parts that GTK+ made.
Destroys(class) == Index(class, "destroy") # {}
Destroy == \E u \in Alive :
             LET h == handles[u]
             IN  /\ h.object \in Ids /\ h.class \notin Simple /\ Destroys(h.class)
                 /\ GiveUp({h.object}, NULL)
                 /\ UNCHANGED <<tables, opened, qdata, handles>>

\* The destroy method of a cairo object is its finalizer: the instance is set
\* to NULL so that the collector's call does nothing.
DestroySimple == \E u \in Alive :
                   LET h == handles[u]
                   IN  /\ h.class \in Simple /\ Destroys(h.class)
                       /\ handles' = [handles EXCEPT ![u].object = NULL]
                       /\ GiveUp({}, h.object)
                       /\ UNCHANGED <<tables, opened, qdata>>

\* The collector finalizes a userdata: ygtk__gc(), ycairo_context__gc() and
\* ycairo_surface__gc().
Collect == \E u \in Userdata :
             /\ handles[u] # Unused
             /\ handles' = [handles EXCEPT ![u] = Unused]
             /\ GiveUp({}, handles[u].object)
             /\ UNCHANGED <<tables, opened, qdata>>

Next == Open \/ Make \/ Get \/ Add \/ Receive \/ Destroy \/ DestroySimple \/ Collect
Spec == Init /\ [][Next]_vars

----------------------------------------------------------------------------
\* An object has as many references as there are userdata for it and holders
\* in GTK+ and cairo: every wrapper takes the one reference that the
\* finalizer of its userdata gives back, whichever of them come and go and in
\* whatever order, so that none is freed under a userdata and none is leaked.
RefsMatch ==
    /\ \A u \in Alive : handles[u].object \in DOMAIN objects
    /\ \A o \in DOMAIN objects :
          objects[o].refs = Cardinality({g \in holds : g[2] = o})
                          + Cardinality({u \in Alive : handles[u].object = o})

\* The methods, constructors aside, that the search finds for a userdata cast its object to a type
\* that it has: the class a wrapper names, and the one the qdata gives a
\* received object, fit the type of what they are given to.
MethodsFit ==
    \A u \in Alive : \A class \in Chain[handles[u].class] : \A m \in Methods[class] :
        m.self # NULL /\ m.makes = NULL /\ Finds(u, m) => IsA(objects[handles[u].object].type, m.self)

\* A userdata answers to every method of every class that its own is derived
\* from in GTK+, unless the search meets a table that is not there: the
\* parents in the class data leave out no class that has a table.
Inherits ==
    \A u \in Alive : \A class \in (tables \intersect Ancestors[handles[u].class]) \ Simple :
        \A key \in Names(Methods[class]) : Stops(handles[u].class, key) # {}

\* An object that the program has had from a wrapper under the class of its
\* own type is known when a signal hands it back, and gets the same methods.
Recognised ==
    \A u \in Alive :
        LET class == handles[u].class
        IN  class = objects[handles[u].object].type /\ class \notin Simple => qdata[class] = class

=============================================================================
