------------------------- MODULE YgtkClassesProofs -------------------------
(***************************************************************************)
(* Theorems about the classes of gui/ygtk.c and the references its wrappers *)
(* take, for any program, any number of objects and any userdata.          *)
(***************************************************************************)
EXTENDS YgtkClasses, FiniteSetTheorems, WellFoundedInduction, TLAPS

----------------------------------------------------------------------------
(* The hierarchies: what holds of a type or of a class if it holds of the  *)
(* one above holds of all of them.                                         *)

LEMMA TypeInduction ==
    ASSUME NEW S,
           \A t \in Types : (t \in DOMAIN ParentType => ParentType[t] \in S) => t \in S
    PROVE  Types \subseteq S
  <1>1. {"GObject"} \union Simple \subseteq S
    BY DEF Types, ParentType, Simple
  <1>2. {"GdkDrawable", "GdkPixbuf", "GtkTextBuffer", "GtkObject"} \subseteq S
    BY <1>1 DEF Types, ParentType
  <1>3. {"GdkWindow", "GtkAdjustment", "GtkWidget"} \subseteq S
    BY <1>2 DEF Types, ParentType
  <1>4. {"GtkContainer", "GtkDrawingArea", "GtkEntry", "GtkMisc", "GtkProgress", "GtkRange",
         "GtkControl", "GtkKnob", "GtkSeparator"} \subseteq S
    BY <1>3 DEF Types, ParentType
  <1>5. {"GtkBin", "GtkBox", "GtkControlPanel", "GtkTable", "GtkTextView", "GtkImage", "GtkLabel",
         "GtkScale", "GtkSpinButton", "GtkProgressBar", "GtkHSeparator"} \subseteq S
    BY <1>4 DEF Types, ParentType
  <1>6. {"GtkButton", "GtkComboBox", "GtkFrame", "GtkScrolledWindow", "GtkWindow", "GtkHBox",
         "GtkVBox", "GtkButtonBox", "GtkHScale", "GtkVScale"} \subseteq S
    BY <1>5 DEF Types, ParentType
  <1>7. {"GtkToggleButton", "GtkDialog", "GtkHButtonBox"} \subseteq S
    BY <1>6 DEF Types, ParentType
  <1>8. {"GtkCheckButton", "GtkAboutDialog"} \subseteq S
    BY <1>7 DEF Types, ParentType
  <1> QED
    BY <1>1, <1>2, <1>3, <1>4, <1>5, <1>6, <1>7, <1>8 DEF Types, ParentType

\* The class that each is derived from in the class data.
LEMMA ClassesAre ==
    DOMAIN ClassData =
        {"GObject", "GdkDrawable", "GdkWindow", "GdkPixbuf", "GtkTextBuffer", "GtkAdjustment",
         "GtkWidget", "GtkContainer", "GtkButton", "GtkToggleButton", "GtkCheckButton",
         "GtkComboBox", "GtkFrame", "GtkScrolledWindow", "GtkWindow", "GtkDialog",
         "GtkAboutDialog", "GtkBox", "GtkHBox", "GtkVBox", "GtkControlPanel", "GtkTable",
         "GtkTextView", "GtkDrawingArea", "GtkEntry", "GtkSpinButton", "GtkImage", "GtkLabel",
         "GtkProgressBar", "GtkRange", "GtkControl", "GtkKnob", "GtkHScale", "GtkVScale",
         "GtkHSeparator", "cairo", "surface", "image_surface", "boxed", "gdk", "gtk",
         "lib_cairo", "pango"}
  BY DEF ClassData

LEMMA ClassParents ==
    /\ \A c \in {"GObject", "cairo", "surface", "image_surface", "boxed", "gdk", "gtk",
                 "lib_cairo", "pango"} : ClassData[c].parent = NULL
    /\ \A c \in {"GdkDrawable", "GdkPixbuf", "GtkTextBuffer", "GtkAdjustment", "GtkWidget"} :
          ClassData[c].parent = "GObject"
    /\ ClassData["GdkWindow"].parent = "GdkDrawable"
    /\ \A c \in {"GtkContainer", "GtkDrawingArea", "GtkEntry", "GtkImage", "GtkLabel",
                 "GtkProgressBar", "GtkRange", "GtkHSeparator"} : ClassData[c].parent = "GtkWidget"
    /\ \A c \in {"GtkButton", "GtkComboBox", "GtkFrame", "GtkScrolledWindow", "GtkWindow",
                 "GtkBox", "GtkControlPanel", "GtkTable", "GtkTextView"} :
          ClassData[c].parent = "GtkContainer"
    /\ \A c \in {"GtkControl", "GtkKnob", "GtkHScale", "GtkVScale"} :
          ClassData[c].parent = "GtkRange"
    /\ \A c \in {"GtkHBox", "GtkVBox"} : ClassData[c].parent = "GtkBox"
    /\ ClassData["GtkSpinButton"].parent = "GtkEntry"
    /\ ClassData["GtkToggleButton"].parent = "GtkButton"
    /\ ClassData["GtkCheckButton"].parent = "GtkToggleButton"
    /\ ClassData["GtkDialog"].parent = "GtkWindow"
    /\ ClassData["GtkAboutDialog"].parent = "GtkDialog"
  <1>1. \A c \in {"GObject", "cairo", "surface", "image_surface", "boxed", "gdk", "gtk",
                  "lib_cairo", "pango"} : ClassData[c].parent = NULL
    BY DEF ClassData, Class, G, Cairo, CairoSurface, ImageSurface, Boxed, Gdk, Gtk
  <1>2. \A c \in {"GdkDrawable", "GdkPixbuf", "GtkTextBuffer", "GtkAdjustment", "GtkWidget"} :
          ClassData[c].parent = "GObject"
    BY DEF ClassData, Class, GdkDrawable, GdkPixbuf, GtkTextBuffer, GtkAdjustment, GtkWidget
  <1>3. \A c \in {"GtkContainer", "GtkDrawingArea", "GtkEntry", "GtkImage", "GtkLabel",
                  "GtkProgressBar", "GtkRange", "GtkHSeparator"} : ClassData[c].parent = "GtkWidget"
    BY DEF ClassData, Class, GtkContainer, GtkDrawingArea, GtkEntry, GtkImage, GtkLabel,
           GtkProgressBar, GtkRange, GtkHSeparator
  <1>4. \A c \in {"GtkButton", "GtkComboBox", "GtkFrame", "GtkScrolledWindow", "GtkWindow",
                  "GtkBox", "GtkControlPanel", "GtkTable", "GtkTextView"} :
          ClassData[c].parent = "GtkContainer"
    BY DEF ClassData, Class, GtkButton, GtkComboBox, GtkFrame, GtkScrolledWindow, GtkWindow,
           GtkBox, GtkControlPanel, GtkTable, GtkTextView
  <1>5. \A c \in {"GtkControl", "GtkKnob", "GtkHScale", "GtkVScale"} :
          ClassData[c].parent = "GtkRange"
    BY DEF ClassData, Class, GtkControl, GtkKnob, GtkHScale, GtkVScale
  <1>6. \A c \in {"GtkHBox", "GtkVBox"} : ClassData[c].parent = "GtkBox"
    BY DEF ClassData, Class, GtkHBox, GtkVBox
  <1>7. /\ ClassData["GdkWindow"].parent = "GdkDrawable"
        /\ ClassData["GtkSpinButton"].parent = "GtkEntry"
        /\ ClassData["GtkToggleButton"].parent = "GtkButton"
        /\ ClassData["GtkCheckButton"].parent = "GtkToggleButton"
        /\ ClassData["GtkDialog"].parent = "GtkWindow"
        /\ ClassData["GtkAboutDialog"].parent = "GtkDialog"
    BY DEF ClassData, Class, GdkWindow, GtkSpinButton, GtkToggleButton, GtkCheckButton,
           GtkDialog, GtkAboutDialog
  <1> QED
    BY <1>1, <1>2, <1>3, <1>4, <1>5, <1>6, <1>7

LEMMA ClassInduction ==
    ASSUME NEW S,
           \A c \in DOMAIN ClassData :
              (ClassData[c].parent # NULL => ClassData[c].parent \in S) => c \in S
    PROVE  DOMAIN ClassData \subseteq S
  <1>1. {"GObject", "cairo", "surface", "image_surface", "boxed", "gdk", "gtk", "lib_cairo",
         "pango"} \subseteq S
    BY ClassesAre, ClassParents
  <1>2. {"GdkDrawable", "GdkPixbuf", "GtkTextBuffer", "GtkAdjustment", "GtkWidget"} \subseteq S
    BY <1>1, ClassesAre, ClassParents
  <1>3. {"GdkWindow", "GtkContainer", "GtkDrawingArea", "GtkEntry", "GtkImage", "GtkLabel",
         "GtkProgressBar", "GtkRange", "GtkHSeparator"} \subseteq S
    BY <1>2, ClassesAre, ClassParents
  <1>4. {"GtkButton", "GtkComboBox", "GtkFrame", "GtkScrolledWindow", "GtkWindow", "GtkBox",
         "GtkControlPanel", "GtkTable", "GtkTextView", "GtkControl", "GtkKnob", "GtkHScale",
         "GtkVScale", "GtkSpinButton"} \subseteq S
    BY <1>3, ClassesAre, ClassParents
  <1>5. {"GtkToggleButton", "GtkDialog", "GtkHBox", "GtkVBox"} \subseteq S
    BY <1>4, ClassesAre, ClassParents
  <1>6. {"GtkCheckButton", "GtkAboutDialog"} \subseteq S
    BY <1>5, ClassesAre, ClassParents
  <1> QED
    BY <1>1, <1>2, <1>3, <1>4, <1>5, <1>6, ClassesAre

----------------------------------------------------------------------------
(* Ancestors and Chain, which go up until there is nothing above: the      *)
(* smallest sets that are closed under going up solve their equations.     *)

LEMMA LineExists ==
    ASSUME NEW T, NEW D \in SUBSET T, NEW P \in [D -> T]
    PROVE  \E g : g = [t \in T |-> {t} \union IF t \in D THEN g[P[t]] ELSE {}]
  <1> DEFINE Closed(S) == \A s \in S : s \in D => P[s] \in S
             L(t) == {a \in T : \A S \in SUBSET T : t \in S /\ Closed(S) => a \in S}
             g == [t \in T |-> L(t)]
  <1>1. ASSUME NEW t \in T, t \notin D PROVE L(t) = {t}
    <2>1. {t} \in SUBSET T /\ Closed({t})
      BY <1>1
    <2>2. t \in L(t)
      OBVIOUS
    <2>3. L(t) \subseteq {t}
      BY <2>1
    <2> QED
      BY <2>2, <2>3
  <1>2. ASSUME NEW t \in D PROVE L(t) = {t} \union L(P[t])
    <2>1. P[t] \in T
      OBVIOUS
    <2>2. t \in L(t)
      OBVIOUS
    <2>3. L(P[t]) \subseteq L(t)
      BY <2>1
    <2>4. Closed({t} \union L(P[t]))
      <3>1. ASSUME NEW s \in L(P[t]), s \in D PROVE P[s] \in L(P[t])
        BY <3>1
      <3>2. P[t] \in L(P[t])
        BY <2>1
      <3> QED
        BY <3>1, <3>2
    <2>5. {t} \union L(P[t]) \in SUBSET T
      OBVIOUS
    <2>6. L(t) \subseteq {t} \union L(P[t])
      <3> HIDE DEF Closed
      <3> DEFINE M == {t} \union L(P[t])
      <3>1. t \in M /\ M \in SUBSET T /\ Closed(M)
        BY <2>4, <2>5
      <3> HIDE DEF M
      <3>2. L(t) \subseteq M
        BY <3>1
      <3> QED
        BY <3>2 DEF M
    <2> QED
      BY <2>2, <2>3, <2>6
  <1> HIDE DEF L
  <1>3. \A t \in T : g[t] = {t} \union IF t \in D THEN g[P[t]] ELSE {}
    BY <1>1, <1>2
  <1>4. g = [t \in T |-> {t} \union IF t \in D THEN g[P[t]] ELSE {}]
    BY <1>3
  <1> QED
    BY <1>4

LEMMA AncestorsAre ==
    /\ DOMAIN Ancestors = Types
    /\ \A t \in Types :
          Ancestors[t] = {t} \union IF t \in DOMAIN ParentType THEN Ancestors[ParentType[t]] ELSE {}
  <1>1. DOMAIN ParentType \in SUBSET Types
    BY DEF Types
  <1>2. ParentType \in [DOMAIN ParentType -> Types]
    BY DEF Types, ParentType
  <1> DEFINE Solves(g) ==
        g = [t \in Types |-> {t} \union IF t \in DOMAIN ParentType THEN g[ParentType[t]] ELSE {}]
  <1>3. \E g : Solves(g)
    BY <1>1, <1>2, LineExists
  <1>4. Ancestors = CHOOSE g : Solves(g)
    BY DEF Ancestors
  <1>5. Solves(Ancestors)
    BY <1>3, <1>4
  <1> QED
    BY <1>5

LEMMA ChainIs ==
    /\ DOMAIN Chain = DOMAIN ClassData
    /\ \A c \in DOMAIN ClassData :
          Chain[c] = {c} \union IF ClassData[c].parent = NULL THEN {} ELSE Chain[ClassData[c].parent]
  <1> DEFINE T == DOMAIN ClassData
             D == {c \in T : ClassData[c].parent # NULL}
             P == [c \in D |-> ClassData[c].parent]
             Solves(g) == g = [c \in T |->
                {c} \union IF ClassData[c].parent = NULL THEN {} ELSE g[ClassData[c].parent]]
  <1>1. P \in [D -> T]
    BY ClassesAre, ClassParents
  <1>2. PICK g : g = [c \in T |-> {c} \union IF c \in D THEN g[P[c]] ELSE {}]
    <2>1. D \in SUBSET T
      OBVIOUS
    <2> HIDE DEF T, D, P
    <2> QED
      BY <1>1, <2>1, LineExists
  <1>3. Solves(g)
    BY <1>2
  <1>4. Chain = CHOOSE f : Solves(f)
    BY DEF Chain
  <1>5. Solves(Chain)
    BY <1>3, <1>4
  <1> QED
    BY <1>5

\* What is above something above is above.
LEMMA AncestorsUp ==
    ASSUME NEW t \in Types
    PROVE  /\ t \in Ancestors[t] /\ Ancestors[t] \subseteq Types
           /\ \A a \in Ancestors[t] : Ancestors[a] \subseteq Ancestors[t]
  <1> DEFINE S == {x \in Types : /\ Ancestors[x] \subseteq Types
                                 /\ \A a \in Ancestors[x] : Ancestors[a] \subseteq Ancestors[x]}
  <1>1. ASSUME NEW x \in Types, x \in DOMAIN ParentType => ParentType[x] \in S
        PROVE  x \in S
    BY <1>1, AncestorsAre
  <1>2. Types \subseteq S
    <2> HIDE DEF S
    <2> QED
      BY <1>1, TypeInduction
  <1> QED
    BY <1>2, AncestorsAre

LEMMA ChainUp ==
    ASSUME NEW c \in DOMAIN ClassData
    PROVE  /\ c \in Chain[c] /\ Chain[c] \subseteq DOMAIN ClassData
           /\ \A d \in Chain[c] : Chain[d] \subseteq Chain[c]
  <1> DEFINE S == {x \in DOMAIN ClassData : /\ Chain[x] \subseteq DOMAIN ClassData
                                            /\ \A d \in Chain[x] : Chain[d] \subseteq Chain[x]}
  <1>1. ASSUME NEW x \in DOMAIN ClassData, ClassData[x].parent # NULL => ClassData[x].parent \in S
        PROVE  x \in S
    BY <1>1, ChainIs
  <1>2. DOMAIN ClassData \subseteq S
    <2> HIDE DEF S
    <2> QED
      BY <1>1, ClassInduction
  <1> QED
    BY <1>2, ChainIs

----------------------------------------------------------------------------
(* The class data follows the types: what a class is derived from in GTK+  *)
(* is on its chain, and what is on its chain it is derived from, but for   *)
(* GtkRange, which has no methods.                                         *)

\* The types of GTK+ that have no class in the binding.
Unbound == {"GtkObject", "GtkBin", "GtkMisc", "GtkProgress", "GtkScale", "GtkSeparator",
            "GtkButtonBox", "GtkHButtonBox"}

LEMMA ParentsFollow ==
    ASSUME NEW c \in DOMAIN ClassData, c \in Types, ClassData[c].parent # NULL
    PROVE  /\ ClassData[c].parent \in Types
           /\ Ancestors[c] \subseteq {c} \union Unbound \union Ancestors[ClassData[c].parent]
           /\ \/ ClassData[c].parent \in Ancestors[c]
              \/ ClassData[c].parent = "GtkRange" /\ "GtkWidget" \in Ancestors[c]
  <1>1. c \in DOMAIN ParentType
    BY ClassParents DEF Types, ParentType, Simple
  <1>2. CASE ClassData[c].parent = ParentType[c]
    <2>1. ParentType[c] \in Types
      BY <1>1 DEF Types, ParentType
    <2> QED
      BY <1>1, <1>2, <2>1, AncestorsAre, AncestorsUp
  <1>3. CASE ClassData[c].parent # ParentType[c]
    <2>1. ParentType[c] \in Types
      BY <1>1 DEF Types, ParentType
    <2>2. CASE c \in {"GtkControl", "GtkKnob"}
      <3>1. ClassData[c].parent = "GtkRange" /\ ParentType[c] = "GtkWidget"
        BY <2>2, ClassParents DEF ParentType
      <3>2. "GtkRange" \in Types /\ ParentType["GtkRange"] = "GtkWidget"
            /\ "GtkRange" \in DOMAIN ParentType /\ "GtkWidget" \in Types
        BY DEF Types, ParentType
      <3> QED
        BY <1>1, <3>1, <3>2, AncestorsAre, AncestorsUp
    <2>3. CASE c \notin {"GtkControl", "GtkKnob"}
      <3>1. /\ ParentType[c] \in Unbound
            /\ ParentType[c] \in DOMAIN ParentType
            /\ ParentType[ParentType[c]] = ClassData[c].parent
            /\ ClassData[c].parent \in Types
        BY <1>1, <1>3, <2>3, ClassesAre, ClassParents DEF Types, ParentType, Unbound
      <3> QED
        BY <1>1, <2>1, <3>1, AncestorsAre, AncestorsUp
    <2> QED
      BY <2>2, <2>3
  <1> QED
    BY <1>2, <1>3

LEMMA AncestorsOnChain ==
    ASSUME NEW c \in DOMAIN ClassData, c \in Types
    PROVE  Ancestors[c] \intersect DOMAIN ClassData \subseteq Chain[c]
  <1> DEFINE S == {x \in DOMAIN ClassData :
                      x \in Types => Ancestors[x] \intersect DOMAIN ClassData \subseteq Chain[x]}
  <1>1. Unbound \intersect DOMAIN ClassData = {}
    BY ClassesAre DEF Unbound
  <1>2. ASSUME NEW x \in DOMAIN ClassData, ClassData[x].parent # NULL => ClassData[x].parent \in S
        PROVE  x \in S
    <2>1. CASE ClassData[x].parent = NULL
      <3>1. x \notin DOMAIN ParentType
        BY <2>1, ClassParents, ClassesAre, ClassesAssumption DEF ParentType, Types
      <3> QED
        BY <2>1, <3>1, AncestorsAre, ChainIs
    <2>2. CASE ClassData[x].parent # NULL
      BY <1>1, <1>2, <2>2, ParentsFollow, ChainIs
    <2> QED
      BY <2>1, <2>2
  <1>3. DOMAIN ClassData \subseteq S
    <2> HIDE DEF S
    <2> QED
      BY <1>2, ClassInduction
  <1> QED
    BY <1>3

LEMMA ChainInAncestors ==
    ASSUME NEW c \in DOMAIN ClassData, c \in Types
    PROVE  Chain[c] \subseteq Ancestors[c] \union {"GtkRange"}
  <1> DEFINE S == {x \in DOMAIN ClassData : x \in Types => Chain[x] \subseteq Ancestors[x] \union {"GtkRange"}}
  <1>1. ASSUME NEW x \in DOMAIN ClassData, ClassData[x].parent # NULL => ClassData[x].parent \in S
        PROVE  x \in S
    <2> SUFFICES ASSUME x \in Types PROVE Chain[x] \subseteq Ancestors[x] \union {"GtkRange"}
      OBVIOUS
    <2> DEFINE up == ClassData[x].parent
    <2>1. CASE up = NULL
      BY <2>1, AncestorsUp, ChainIs
    <2>2. CASE up # NULL /\ up \in Ancestors[x]
      BY <1>1, <2>2, ParentsFollow, AncestorsUp, ChainIs
    <2>3. CASE up = "GtkRange" /\ up # NULL /\ "GtkWidget" \in Ancestors[x]
      <3>1. /\ "GtkRange" \in DOMAIN ParentType
            /\ ParentType["GtkRange"] = "GtkWidget" /\ "GtkRange" \in Types /\ "GtkWidget" \in Types
        BY DEF ParentType, Types
      <3>2. Chain["GtkRange"] \subseteq {"GtkRange"} \union Ancestors["GtkWidget"]
        <4>1. "GtkRange" \in S
          BY <1>1, <2>3
        <4>2. Chain["GtkRange"] \subseteq Ancestors["GtkRange"] \union {"GtkRange"}
          BY <3>1, <4>1
        <4>3. Ancestors["GtkRange"] = {"GtkRange"} \union Ancestors["GtkWidget"]
          BY <3>1, AncestorsAre
        <4> QED
          BY <4>2, <4>3
      <3> QED
        BY <2>3, <3>1, <3>2, AncestorsUp, ChainIs
    <2> QED
      BY <2>1, <2>2, <2>3, ParentsFollow
  <1>2. DOMAIN ClassData \subseteq S
    <2> HIDE DEF S
    <2> QED
      BY <1>1, ClassInduction
  <1> QED
    BY <1>2

----------------------------------------------------------------------------
(* The wrappers, table by table.                                           *)

LEMMA WrappersAre ==
    /\ \A names : \A m \in Plain(names) : m.self = NULL /\ m.makes = NULL /\ m.part = NULL
    /\ \A type, names : \A m \in On(type, names) :
          m.self = type /\ m.makes = NULL /\ m.part = NULL
    /\ \A type, takes, names : \A m \in Makes(type, takes, names) :
          m.self = NULL /\ m.makes = type /\ m.part = NULL /\ m.takes = takes /\ m.class = type
    /\ \A self, type, takes, names : \A m \in MakesFrom(self, type, takes, names) :
          m.self = self /\ m.makes = type /\ m.part = NULL /\ m.takes = takes /\ m.class = type
    /\ \A type, part, class, name : \A m \in Gets(type, part, class, name) :
          m.self = type /\ m.makes = NULL /\ m.part = part /\ m.takes = "ref" /\ m.class = class
  BY DEF Plain, On, Makes, MakesFrom, Gets, Wrapper

\* How instances come: windows belong to GTK+'s list of them, other GTK+
\* objects float, the rest is the caller's.
Floats == {"GtkAdjustment", "GtkButton", "GtkToggleButton", "GtkCheckButton", "GtkComboBox",
           "GtkFrame", "GtkScrolledWindow", "GtkDialog", "GtkAboutDialog", "GtkHBox", "GtkVBox",
           "GtkControlPanel", "GtkTable", "GtkTextView", "GtkDrawingArea", "GtkSpinButton",
           "GtkImage", "GtkLabel", "GtkProgressBar", "GtkControl", "GtkKnob", "GtkHScale",
           "GtkVScale", "GtkHSeparator"}
Owned == {"cairo", "surface", "GdkPixbuf"}

LEMMA Kinds ==
    /\ \A t \in Floats : t \in Types /\ IsA(t, "GtkObject")
    /\ \A t \in Owned : t \in Types /\ ~IsA(t, "GtkWindow") /\ ~IsA(t, "GtkObject")
    /\ {"GObject", "GdkDrawable", "GdkWindow", "GtkTextBuffer", "GtkWidget", "GtkContainer", "GtkBox",
        "GtkWindow", "surface", "boxed"} \subseteq Types
    /\ IsA("GtkWindow", "GtkWindow") /\ IsA("GtkControl", "GtkWidget")
  <1> DEFINE NoObject == {"GObject", "GdkDrawable", "GdkWindow", "GdkPixbuf", "GtkTextBuffer"} \union Simple
             S == {t \in Types : t \notin NoObject => "GtkObject" \in Ancestors[t]}
  <1>1. ASSUME NEW t \in Types, t \in DOMAIN ParentType => ParentType[t] \in S
        PROVE  t \in S
    <2>1. t \notin NoObject /\ t # "GtkObject" => t \in DOMAIN ParentType /\ ParentType[t] \notin NoObject
      BY DEF Types, ParentType, Simple
    <2> QED
      BY <1>1, <2>1, AncestorsAre
  <1>2. Types \subseteq S
    <2> HIDE DEF S
    <2> QED
      BY <1>1, TypeInduction
  <1>3. \A t \in Floats : t \in Types /\ t \notin NoObject
    BY DEF Floats, Types, ParentType, Simple
  <1>4. \A t \in Floats : t \in Types /\ IsA(t, "GtkObject")
    BY <1>2, <1>3 DEF IsA
  <1>5. \A t \in Owned : t \in Types /\ ~IsA(t, "GtkWindow") /\ ~IsA(t, "GtkObject")
    <2>1. /\ "GdkPixbuf" \in DOMAIN ParentType /\ ParentType["GdkPixbuf"] = "GObject"
          /\ \A t \in {"cairo", "surface", "GObject"} : t \in Types /\ t \notin DOMAIN ParentType
      BY DEF Types, ParentType, Simple
    <2>2. "GdkPixbuf" \in Types
      BY <2>1 DEF Types
    <2> QED
      BY <2>1, <2>2, AncestorsAre DEF Owned, IsA
  <1>6. {"GObject", "GdkDrawable", "GdkWindow", "GtkTextBuffer", "GtkWidget", "GtkContainer", "GtkBox",
         "GtkWindow", "surface", "boxed"} \subseteq Types
    BY DEF Types, ParentType, Simple
  <1>7. IsA("GtkControl", "GtkWidget")
    <2>1. /\ "GtkControl" \in Types /\ "GtkControl" \in DOMAIN ParentType
          /\ ParentType["GtkControl"] = "GtkWidget"
      BY DEF Types, ParentType
    <2> QED
      BY <1>6, <2>1, AncestorsAre DEF IsA
  <1> QED
    BY <1>4, <1>5, <1>6, <1>7, AncestorsUp DEF IsA

\* What a method of class c casts to, and what it gives its userdata.
Casts(m) == m.self # NULL /\ m.makes = NULL
Returns(m) == m.makes # NULL \/ m.part # NULL
Sound(c, m) ==
    /\ m.makes # NULL => /\ m.part = NULL /\ m.class = m.makes
                         /\ \/ m.takes = "own" /\ m.makes \in Owned
                            \/ m.takes = "sink" /\ m.makes \in Floats
                            \/ m.takes = "ref" /\ m.makes = "GtkWindow"
                         /\ m.makes = "cairo" => m.self \in {"surface", "GdkDrawable"}
    /\ m.part # NULL => /\ m.part \in DOMAIN PartType /\ m.takes = "ref"
                        /\ m.class = IF m.part = "action_area" THEN "GtkVBox" ELSE PartType[m.part]
    /\ Casts(m) /\ c \notin {"gdk", "image_surface"} => c \in Types /\ m.self \in Ancestors[c]

LEMMA SoundTables ==
    /\ \A c, names : \A m \in Plain(names) : Sound(c, m)
    /\ \A c, type, names :
          c \in Types /\ type \in Ancestors[c] => \A m \in On(type, names) : Sound(c, m)
    /\ \A type, names : \A m \in On(type, names) : Sound("gdk", m) /\ Sound("image_surface", m)
    /\ \A c, self, type, takes, names :
          /\ \/ takes = "own" /\ type \in Owned
             \/ takes = "sink" /\ type \in Floats
             \/ takes = "ref" /\ type = "GtkWindow"
          /\ type # NULL /\ (type = "cairo" => self \in {"surface", "GdkDrawable"})
          => \A m \in MakesFrom(self, type, takes, names) : Sound(c, m)
    /\ \A c, type, part, name :
          c \in Types /\ type \in Ancestors[c] /\ part \in DOMAIN PartType =>
             \A class : class = (IF part = "action_area" THEN "GtkVBox" ELSE PartType[part]) =>
                \A m \in Gets(type, part, class, name) : Sound(c, m)
  BY WrappersAre DEF Sound, Casts

LEMMA TablesSound ==
    ASSUME NEW c \in DOMAIN ClassData, NEW m \in Methods[c]
    PROVE  Sound(c, m)
  <1>1. NULL \notin Types /\ NULL \notin DOMAIN PartType
    BY ClassesAssumption
  <1> DEFINE M == ClassData[c].methods
  <1>2. ASSUME NEW w \in M PROVE Sound(c, w)
    <2>t. c \in Types => c \in Ancestors[c]
      BY AncestorsUp
    <2>u. {"GObject", "GdkDrawable", "GdkWindow", "GtkTextBuffer", "GtkWidget", "GtkContainer",
           "GtkBox", "GtkWindow", "surface", "boxed"} \union Floats \union Owned \subseteq Types
      BY Kinds
    <2>v. "GtkWidget" \in Ancestors["GtkControl"]
      BY Kinds DEF IsA
    <2>1. CASE c = "GObject"
      BY <1>1, <2>1, <2>t, <2>u, SoundTables DEF ClassData, Class, G, Makes, Nothing, Floats, Owned
    <2>2. CASE c = "GdkDrawable"
      BY <1>1, <2>2, <2>t, <2>u, SoundTables DEF ClassData, Class, GdkDrawable, Makes, Nothing, Floats, Owned
    <2>3. CASE c = "GdkWindow"
      BY <1>1, <2>3, <2>t, <2>u, SoundTables DEF ClassData, Class, GdkWindow, Makes, Nothing, Floats, Owned
    <2>4. CASE c = "GdkPixbuf"
      BY <1>1, <2>4, <2>t, <2>u, SoundTables DEF ClassData, Class, GdkPixbuf, Makes, Nothing, Floats, Owned
    <2>5. CASE c = "GtkTextBuffer"
      BY <1>1, <2>5, <2>t, <2>u, SoundTables DEF ClassData, Class, GtkTextBuffer, Makes, Nothing, Floats, Owned
    <2>6. CASE c = "GtkAdjustment"
      BY <1>1, <2>6, <2>t, <2>u, SoundTables DEF ClassData, Class, GtkAdjustment, Makes, Nothing, Floats, Owned
    <2>7. CASE c = "GtkWidget"
      BY <1>1, <2>7, <2>t, <2>u, SoundTables DEF ClassData, Class, GtkWidget, Makes, Nothing, Floats, Owned, PartType
    <2>8. CASE c = "GtkContainer"
      BY <1>1, <2>8, <2>t, <2>u, SoundTables DEF ClassData, Class, GtkContainer, Makes, Nothing, Floats, Owned
    <2>9. CASE c = "GtkButton"
      BY <1>1, <2>9, <2>t, <2>u, SoundTables DEF ClassData, Class, GtkButton, Makes, Nothing, Floats, Owned
    <2>10. CASE c = "GtkToggleButton"
      BY <1>1, <2>10, <2>t, <2>u, SoundTables DEF ClassData, Class, GtkToggleButton, Makes, Nothing, Floats, Owned
    <2>11. CASE c = "GtkCheckButton"
      BY <1>1, <2>11, <2>t, <2>u, SoundTables DEF ClassData, Class, GtkCheckButton, Makes, Nothing, Floats, Owned
    <2>12. CASE c = "GtkComboBox"
      BY <1>1, <2>12, <2>t, <2>u, SoundTables DEF ClassData, Class, GtkComboBox, Makes, Nothing, Floats, Owned
    <2>13. CASE c = "GtkFrame"
      BY <1>1, <2>13, <2>t, <2>u, SoundTables DEF ClassData, Class, GtkFrame, Makes, Nothing, Floats, Owned
    <2>14. CASE c = "GtkScrolledWindow"
      BY <1>1, <2>14, <2>t, <2>u, SoundTables DEF ClassData, Class, GtkScrolledWindow, Makes, Nothing, Floats, Owned
    <2>15. CASE c = "GtkWindow"
      BY <1>1, <2>15, <2>t, <2>u, SoundTables DEF ClassData, Class, GtkWindow, Makes, Nothing, Floats, Owned
    <2>16. CASE c = "GtkDialog"
      BY <1>1, <2>16, <2>t, <2>u, SoundTables DEF ClassData, Class, GtkDialog, Makes, Nothing, Floats, Owned, PartType
    <2>17. CASE c = "GtkAboutDialog"
      BY <1>1, <2>17, <2>t, <2>u, SoundTables DEF ClassData, Class, GtkAboutDialog, Makes, Nothing, Floats, Owned
    <2>18. CASE c = "GtkBox"
      BY <1>1, <2>18, <2>t, <2>u, SoundTables DEF ClassData, Class, GtkBox, Makes, Nothing, Floats, Owned
    <2>19. CASE c = "GtkHBox"
      BY <1>1, <2>19, <2>t, <2>u, SoundTables DEF ClassData, Class, GtkHBox, Makes, Nothing, Floats, Owned
    <2>20. CASE c = "GtkVBox"
      BY <1>1, <2>20, <2>t, <2>u, SoundTables DEF ClassData, Class, GtkVBox, Makes, Nothing, Floats, Owned
    <2>21. CASE c = "GtkControlPanel"
      BY <1>1, <2>21, <2>t, <2>u, SoundTables DEF ClassData, Class, GtkControlPanel, Makes, Nothing, Floats, Owned
    <2>22. CASE c = "GtkTable"
      BY <1>1, <2>22, <2>t, <2>u, SoundTables DEF ClassData, Class, GtkTable, Makes, Nothing, Floats, Owned
    <2>23. CASE c = "GtkTextView"
      BY <1>1, <2>23, <2>t, <2>u, SoundTables DEF ClassData, Class, GtkTextView, Makes, Nothing, Floats, Owned, PartType
    <2>24. CASE c = "GtkDrawingArea"
      BY <1>1, <2>24, <2>t, <2>u, SoundTables DEF ClassData, Class, GtkDrawingArea, Makes, Nothing, Floats, Owned
    <2>25. CASE c = "GtkEntry"
      BY <1>1, <2>25, <2>t, <2>u, SoundTables DEF ClassData, Class, GtkEntry, Makes, Nothing, Floats, Owned
    <2>26. CASE c = "GtkSpinButton"
      BY <1>1, <2>26, <2>t, <2>u, SoundTables DEF ClassData, Class, GtkSpinButton, Makes, Nothing, Floats, Owned
    <2>27. CASE c = "GtkImage"
      BY <1>1, <2>27, <2>t, <2>u, SoundTables DEF ClassData, Class, GtkImage, Makes, Nothing, Floats, Owned
    <2>28. CASE c = "GtkLabel"
      BY <1>1, <2>28, <2>t, <2>u, SoundTables DEF ClassData, Class, GtkLabel, Makes, Nothing, Floats, Owned
    <2>29. CASE c = "GtkProgressBar"
      BY <1>1, <2>29, <2>t, <2>u, SoundTables DEF ClassData, Class, GtkProgressBar, Makes, Nothing, Floats, Owned
    <2>30. CASE c = "GtkRange"
      BY <1>1, <2>30, <2>t, <2>u, SoundTables DEF ClassData, Class, GtkRange, Makes, Nothing, Floats, Owned
    <2>31. CASE c = "GtkControl"
      BY <1>1, <2>31, <2>v, <2>t, <2>u, SoundTables DEF ClassData, Class, GtkControl, Makes, Nothing, Floats, Owned
    <2>32. CASE c = "GtkKnob"
      BY <1>1, <2>32, <2>t, <2>u, SoundTables DEF ClassData, Class, GtkKnob, Makes, Nothing, Floats, Owned
    <2>33. CASE c = "GtkHScale"
      BY <1>1, <2>33, <2>t, <2>u, SoundTables DEF ClassData, Class, GtkHScale, Makes, Nothing, Floats, Owned
    <2>34. CASE c = "GtkVScale"
      BY <1>1, <2>34, <2>t, <2>u, SoundTables DEF ClassData, Class, GtkVScale, Makes, Nothing, Floats, Owned
    <2>35. CASE c = "GtkHSeparator"
      BY <1>1, <2>35, <2>t, <2>u, SoundTables DEF ClassData, Class, GtkHSeparator, Makes, Nothing, Floats, Owned
    <2>36. CASE c = "cairo"
      BY <1>1, <2>36, <2>t, <2>u, SoundTables DEF ClassData, Class, Cairo, CairoContext, CairoContextMore, Makes, Nothing, Floats, Owned
    <2>37. CASE c = "surface"
      BY <1>1, <2>37, <2>t, <2>u, SoundTables DEF ClassData, Class, CairoSurface, Makes, Nothing, Floats, Owned
        <2>38. CASE c = "image_surface"
      <3>1. \E n1, n2 : M = On("surface", n1) \union MakesFrom(NULL, "surface", "own", n2)
        BY <2>38 DEF ClassData, Class, ImageSurface, Makes
      <3> HIDE DEF M
      <3>2. PICK n1, n2 : M = On("surface", n1) \union MakesFrom(NULL, "surface", "own", n2)
        BY <3>1
      <3>3. \A m1 \in On("surface", n1) : Sound(c, m1)
        BY <2>38, SoundTables
      <3>4. "surface" \in Owned /\ "surface" # NULL
        BY <1>1, <2>u DEF Owned
      <3>5. \A m1 \in MakesFrom(NULL, "surface", "own", n2) : Sound(c, m1)
        BY <3>4, SoundTables
      <3> QED
        BY <3>2, <3>3, <3>5
    <2>39. CASE c = "boxed"
      BY <1>1, <2>39, <2>t, <2>u, SoundTables DEF ClassData, Class, Boxed, Makes, Nothing, Floats, Owned
        <2>40. CASE c = "gdk"
      <3>1. \E n1, n2 : M = On("cairo", n1) \union MakesFrom("GdkDrawable", "cairo", "own", n2)
        BY <2>40 DEF ClassData, Class, Gdk
      <3> HIDE DEF M
      <3> QED
        BY <1>1, <2>40, <2>u, <3>1, SoundTables DEF Owned
    <2>41. CASE c = "gtk"
      BY <1>1, <2>41, <2>t, <2>u, SoundTables DEF ClassData, Class, Gtk, Makes, Nothing, Floats, Owned
    <2>42. CASE c = "lib_cairo"
      BY <1>1, <2>42, <2>t, <2>u, SoundTables DEF ClassData, Class, Nothing, Makes, Nothing, Floats, Owned
    <2>43. CASE c = "pango"
      BY <1>1, <2>43, <2>t, <2>u, SoundTables DEF ClassData, Class, Nothing, Makes, Nothing, Floats, Owned
    <2> QED
      BY ClassesAre, <2>1, <2>2, <2>3, <2>4, <2>5, <2>6, <2>7, <2>8, <2>9, <2>10, <2>11, <2>12, <2>13, <2>14, <2>15, <2>16, <2>17, <2>18, <2>19, <2>20, <2>21, <2>22, <2>23, <2>24, <2>25, <2>26, <2>27, <2>28, <2>29, <2>30, <2>31, <2>32, <2>33, <2>34, <2>35, <2>36, <2>37, <2>38, <2>39, <2>40, <2>41, <2>42, <2>43
  <1>3. \A w \in On("GObject", {"get", "set"}) : Sound("GObject", w)
    BY SoundTables, Kinds, AncestorsUp
  <1>4. m \in M \/ (c = "GObject" /\ m \in On("GObject", {"get", "set"}))
    <2>1. Methods[c] = IF c = "GObject" THEN Sugar(M) ELSE M
      BY DEF Methods
    <2> QED
      BY <2>1 DEF Sugar
  <1> QED
    BY <1>2, <1>3, <1>4

----------------------------------------------------------------------------
(* The inductive invariant.                                                *)

\* Every method that is found for a userdata of the class may be called on an
\* instance of the type.
Fits(type, class) ==
    /\ type \in Types /\ class \in DOMAIN ClassData /\ class \in Types
    /\ \A d \in Chain[class] : \A m \in Methods[d] : Casts(m) => m.self \in Ancestors[type]

Instances == [type : Types, refs : Int, floating : {FALSE}, live : BOOLEAN]
Holders(o) == {g \in holds : g[2] = o}
UserdataFor(o) == {u \in Alive : handles[u].object = o}

\* A class is only noted for its own type.
Noted == /\ qdata \in [Types -> Types \union {NULL}]
         /\ \A t \in Types : qdata[t] # NULL => qdata[t] = t /\ Fits(t, t)

Typed == /\ tables \subseteq DOMAIN ClassData
         /\ opened \in 0 .. Len(Libraries) + 1 + Len(ClassOrder)
         /\ DOMAIN objects \subseteq Ids \union Parts
         /\ objects \in [DOMAIN objects -> Instances]
         /\ holds \subseteq (DOMAIN objects \union {Toplevels}) \X DOMAIN objects
         /\ handles \in [Userdata -> [object : Ids \union Parts \union {NULL},
                                      class : DOMAIN ClassData \union {NULL}]]

\* What a userdata points to is there, and of a type that its class fits.
Pointed == \A u \in Alive : /\ handles[u].object \in DOMAIN objects
                            /\ Fits(objects[handles[u].object].type, handles[u].class)

Counted == \A o \in DOMAIN objects :
              objects[o].refs = Cardinality(Holders(o)) + Cardinality(UserdataFor(o))

\* As long as a widget is not destroyed it holds its parts, and nothing else
\* holds those that are widgets.
PartsHeld ==
    \A n \in 1..MaxObjects, p \in DOMAIN PartType :
        LET whole == <<n, NULL>>
            part == <<n, p>>
        IN  whole \in DOMAIN objects /\ part \in DOMAIN objects /\ objects[whole].live =>
               /\ <<whole, part>> \in holds
               /\ Widget(part) => \A g \in holds : g[2] = part => g[1] = whole

Known == \A u \in Alive :
            LET class == handles[u].class
            IN  class = objects[handles[u].object].type /\ class \notin Simple => qdata[class] = class

\* A part is of the type that GTK+ makes it.
PartsTyped == \A o \in DOMAIN objects \intersect Parts : objects[o].type = PartType[o[2]]

Consistent == Noted /\ Typed /\ Pointed /\ Counted /\ PartsHeld /\ PartsTyped /\ Known

----------------------------------------------------------------------------
(* What the wrappers return fits.                                          *)

LEMMA SimpleAlone ==
    ASSUME NEW c \in DOMAIN ClassData, c # "image_surface"
    PROVE  "image_surface" \notin Chain[c]
  <1> DEFINE S == {x \in DOMAIN ClassData : x # "image_surface" => "image_surface" \notin Chain[x]}
  <1>1. ASSUME NEW x \in DOMAIN ClassData, ClassData[x].parent # NULL => ClassData[x].parent \in S
        PROVE  x \in S
    <2>1. ClassData[x].parent # NULL => ClassData[x].parent # "image_surface"
      BY ClassesAre, ClassParents
    <2> QED
      BY <1>1, <2>1, ChainIs
  <1>2. DOMAIN ClassData \subseteq S
    <2> HIDE DEF S
    <2> QED
      BY <1>1, ClassInduction
  <1> QED
    BY <1>2

LEMMA FitsItself ==
    ASSUME NEW c \in DOMAIN ClassData, c \in Types, c # "image_surface"
    PROVE  Fits(c, c)
  <1>1. ASSUME NEW d \in Chain[c], NEW m \in Methods[d], Casts(m) PROVE m.self \in Ancestors[c]
    <2>1. d \in DOMAIN ClassData /\ d # "image_surface"
      BY ChainUp, SimpleAlone
    <2>2. Sound(d, m)
      BY <2>1, TablesSound
    <2>3. d # "GtkRange"
      <3>1. SUFFICES ASSUME d = "GtkRange" PROVE FALSE
        OBVIOUS
      <3>2. Methods["GtkRange"] = {}
        BY <2>1, <3>1 DEF Methods, ClassData, Class, GtkRange, Nothing, Plain
      <3> QED
        BY <3>1, <3>2
    <2>4. d \in Ancestors[c]
      BY <2>3, ChainInAncestors
    <2>5. d \in Types /\ Ancestors[d] \subseteq Ancestors[c]
      BY <2>4, AncestorsUp
    <2>6. d # "gdk"
      BY <2>5 DEF Types, ParentType, Simple
    <2> QED
      BY <1>1, <2>1, <2>2, <2>5, <2>6 DEF Sound
  <1> QED
    BY <1>1 DEF Fits

\* GTK+ makes the action area of a dialog a GtkHButtonBox, which has no class.
LEMMA ActionAreaFits == Fits("GtkHButtonBox", "GtkVBox")
  <1>1. /\ {"GtkVBox", "GtkBox"} \subseteq DOMAIN ClassData
        /\ ClassData["GtkVBox"].parent = "GtkBox"
    BY ClassesAre, ClassParents
  <1>2. {"GtkHButtonBox", "GtkButtonBox", "GtkBox", "GtkVBox"} \subseteq Types
    BY DEF Types, ParentType
  <1>3. "GtkBox" \in Ancestors["GtkHButtonBox"]
    <2>1. /\ {"GtkHButtonBox", "GtkButtonBox", "GtkBox"} \subseteq DOMAIN ParentType
          /\ ParentType["GtkHButtonBox"] = "GtkButtonBox" /\ ParentType["GtkButtonBox"] = "GtkBox"
      BY DEF ParentType
    <2> QED
      BY <1>2, <2>1, AncestorsAre
  <1>4. Ancestors["GtkBox"] \subseteq Ancestors["GtkHButtonBox"]
    BY <1>2, <1>3, AncestorsUp
  <1>5. Fits("GtkBox", "GtkBox")
    BY <1>1, <1>2, FitsItself
  <1>6. \A m \in Methods["GtkVBox"] : ~Casts(m)
    <2>1. \E names : Methods["GtkVBox"] = Makes("GtkVBox", "sink", names)
      BY <1>1 DEF Methods, ClassData, Class, GtkVBox
    <2>2. \A m \in Methods["GtkVBox"] : m.self = NULL
      BY <2>1, WrappersAre
    <2> QED
      BY <2>2 DEF Casts
  <1>7. Chain["GtkVBox"] \subseteq {"GtkVBox"} \union Chain["GtkBox"]
    BY <1>1, ChainIs
  <1> QED
    BY <1>1, <1>2, <1>4, <1>5, <1>6, <1>7 DEF Fits

LEMMA ReturnsFit ==
    ASSUME NEW c \in DOMAIN ClassData, NEW m \in Methods[c]
    PROVE  /\ m.makes # NULL => m.class = m.makes /\ Fits(m.makes, m.makes)
           /\ m.part # NULL => /\ m.makes = NULL /\ m.part \in DOMAIN PartType /\ m.takes = "ref"
                               /\ Fits(PartType[m.part], m.class) /\ Fits(m.class, m.class)
  <1>1. Sound(c, m)
    BY TablesSound
  <1>2. CASE m.makes # NULL
    <2>1. m.makes \in Floats \union Owned \union {"GtkWindow"}
      BY <1>1, <1>2 DEF Sound
    <2>2. m.makes \in DOMAIN ClassData /\ m.makes \in Types /\ m.makes # "image_surface"
      BY <2>1, ClassesAre, Kinds DEF Floats, Owned
    <2> QED
      BY <1>1, <1>2, <2>2, FitsItself DEF Sound
  <1>3. CASE m.part # NULL
    <2>1. m.makes = NULL /\ m.part \in DOMAIN PartType /\ m.takes = "ref"
      BY <1>1, <1>3 DEF Sound
    <2>2. m.class \in {"GdkWindow", "GtkVBox", "GtkTextBuffer"}
      BY <1>1, <1>3 DEF Sound, PartType
    <2>3. m.class \in DOMAIN ClassData /\ m.class \in Types /\ m.class # "image_surface"
      BY <2>2, ClassesAre DEF Types, ParentType
    <2>4. Fits(m.class, m.class)
      BY <2>3, FitsItself
    <2>5. CASE m.part = "action_area"
      BY <1>1, <1>3, <2>1, <2>4, <2>5, ActionAreaFits DEF Sound, PartType
    <2>6. CASE m.part # "action_area"
      BY <1>1, <1>3, <2>1, <2>4, <2>6 DEF Sound
    <2> QED
      BY <2>5, <2>6
  <1> QED
    BY <1>2, <1>3

\* What a cairo context can be made for is no widget.
LEMMA DrawablesAreNoWidgets ==
    ASSUME NEW t \in Types, IsA(t, "surface") \/ IsA(t, "GdkDrawable")
    PROVE  ~IsA(t, "GtkWidget")
  <1> DEFINE Drawables == {"GdkDrawable", "GdkWindow"} \union Simple
             S == {x \in Types : "surface" \in Ancestors[x] \/ "GdkDrawable" \in Ancestors[x]
                                    => x \in Drawables}
             R == {x \in Types : x \in Drawables \union {"GObject"} => "GtkWidget" \notin Ancestors[x]}
  <1>1. ASSUME NEW x \in Types, x \in DOMAIN ParentType => ParentType[x] \in S
        PROVE  x \in S
    <2>1. x \in DOMAIN ParentType /\ ParentType[x] \in Drawables => x \in Drawables
      BY DEF ParentType, Simple
    <2>2. {"surface", "GdkDrawable"} \subseteq Drawables
      BY DEF Simple
    <2> HIDE DEF Drawables
    <2> QED
      BY <1>1, <2>1, <2>2, AncestorsAre
  <1>2. ASSUME NEW x \in Types, x \in DOMAIN ParentType => ParentType[x] \in R
        PROVE  x \in R
    <2>1. x \in DOMAIN ParentType /\ x \in Drawables \union {"GObject"} =>
             ParentType[x] \in Drawables \union {"GObject"}
      BY DEF ParentType, Simple
    <2>2. "GtkWidget" \notin Drawables \union {"GObject"}
      BY DEF Simple
    <2> HIDE DEF Drawables
    <2> QED
      BY <1>2, <2>1, <2>2, AncestorsAre
  <1>3. Types \subseteq S
    <2> HIDE DEF S
    <2> QED
      BY <1>1, TypeInduction
  <1>4. Types \subseteq R
    <2> HIDE DEF R
    <2> QED
      BY <1>2, TypeInduction
  <1> QED
    BY <1>3, <1>4 DEF IsA

----------------------------------------------------------------------------
(* Giving up references.  What goes is the smallest set of objects that    *)
(* nothing spreads from.                                                   *)

LEMMA FiniteState ==
    ASSUME Typed
    PROVE  /\ IsFiniteSet(DOMAIN objects) /\ IsFiniteSet(holds) /\ IsFiniteSet(Alive)
           /\ \A o \in DOMAIN objects : objects[o].refs \in Int
  <1>1. IsFiniteSet(1..MaxObjects)
    BY ClassesAssumption, FS_Interval
  <1>2. IsFiniteSet({NULL}) /\ IsFiniteSet({Toplevels})
    BY FS_Singleton
  <1>3. IsFiniteSet(DOMAIN PartType)
    <2>1. PICK A, B : A = {"window"} \union {"content_area"} /\ B = {"action_area"} \union {"buffer"}
      OBVIOUS
    <2>2. IsFiniteSet(A) /\ IsFiniteSet(B)
      BY <2>1, FS_Singleton, FS_Union
    <2>3. DOMAIN PartType = A \union B
      BY <2>1 DEF PartType
    <2> QED
      BY <2>2, <2>3, FS_Union
  <1>4. IsFiniteSet(Ids) /\ IsFiniteSet(Parts)
    BY <1>1, <1>2, <1>3, FS_Product DEF Ids, Parts
  <1>5. IsFiniteSet(Ids \union Parts)
    BY <1>4, FS_Union
  <1>6. IsFiniteSet(DOMAIN objects)
    BY <1>5, FS_Subset DEF Typed
  <1>7. IsFiniteSet((DOMAIN objects \union {Toplevels}) \X DOMAIN objects)
    BY <1>2, <1>6, FS_Union, FS_Product
  <1>8. IsFiniteSet(holds)
    BY <1>7, FS_Subset DEF Typed
  <1>9. IsFiniteSet(Alive)
    BY ClassesAssumption, FS_Subset DEF Alive
  <1> QED
    BY <1>6, <1>8, <1>9 DEF Typed, Instances

LEMMA FiniteCounts ==
    ASSUME Typed, NEW S
    PROVE  /\ IsFiniteSet(S \intersect holds) /\ Cardinality(S \intersect holds) \in Nat
           /\ IsFiniteSet(S \intersect Alive) /\ Cardinality(S \intersect Alive) \in Nat
  BY FiniteState, FS_Intersection, FS_CardinalityType

\* The more goes, the fewer references are left.
LEMMA LeftShrinks ==
    ASSUME Typed, NEW S, NEW T, S \subseteq T, NEW unref, NEW o \in DOMAIN objects
    PROVE  /\ Left(S, unref, o) \in Int /\ Left(T, unref, o) \in Int
           /\ Left(T, unref, o) <= Left(S, unref, o)
  <1> DEFINE Lost(X) == {g \in holds \ Kept(X) : g[2] = o}
  <1>1. Lost(S) \subseteq Lost(T) /\ Lost(S) \subseteq holds /\ Lost(T) \subseteq holds
    BY DEF Kept
  <1>2. IsFiniteSet(Lost(S)) /\ IsFiniteSet(Lost(T))
    BY <1>1, FiniteState, FS_Subset
  <1>3. Cardinality(Lost(S)) \in Nat /\ Cardinality(Lost(T)) \in Nat
        /\ Cardinality(Lost(S)) <= Cardinality(Lost(T))
    BY <1>1, <1>2, FS_Subset, FS_CardinalityType
  <1>4. objects[o].refs \in Int
    BY FiniteState
  <1>5. \A X : Left(X, unref, o) = objects[o].refs - Cardinality(Lost(X)) - IF o = unref THEN 1 ELSE 0
    BY DEF Left
  <1> HIDE DEF Lost
  <1> QED
    BY <1>3, <1>4, <1>5

LEMMA SpreadGrows ==
    ASSUME Typed, NEW S, NEW T, S \subseteq T, T \subseteq DOMAIN objects, NEW unref
    PROVE  /\ S \subseteq Spread(S, unref) /\ Spread(S, unref) \subseteq DOMAIN objects
           /\ Spread(S, unref) \subseteq Spread(T, unref)
  <1>1. \A g \in holds : g[2] \in DOMAIN objects
    BY DEF Typed
  <1>2. S \subseteq DOMAIN objects
    OBVIOUS
  <1>3. \A o \in DOMAIN objects : Left(S, unref, o) <= 0 => Left(T, unref, o) <= 0
    BY LeftShrinks
  <1> QED
    BY <1>1, <1>2, <1>3 DEF Spread

\* The smallest set above S that nothing spreads from.
Settled(T, unref) == Spread(T, unref) \subseteq T
Least(S, unref) ==
    {o \in DOMAIN objects :
        \A T \in SUBSET DOMAIN objects : S \subseteq T /\ Settled(T, unref) => o \in T}

LEMMA LeastSettles ==
    ASSUME Typed, NEW S \in SUBSET DOMAIN objects, NEW unref
    PROVE  /\ S \subseteq Least(S, unref) /\ Least(S, unref) \subseteq DOMAIN objects
           /\ Settled(Least(S, unref), unref)
           /\ \A T \in SUBSET DOMAIN objects :
                 S \subseteq T /\ Settled(T, unref) => Least(S, unref) \subseteq T
           /\ Spread(S, unref) = S => Least(S, unref) = S
           /\ Least(Spread(S, unref), unref) = Least(S, unref)
  <1> DEFINE L == Least(S, unref)
             X == Spread(S, unref)
  <1>1. S \subseteq L /\ L \subseteq DOMAIN objects
    BY DEF Least
  <1>2. ASSUME NEW T \in SUBSET DOMAIN objects, S \subseteq T, Settled(T, unref)
        PROVE  L \subseteq T
    BY <1>2 DEF Least
  <1>3. Settled(L, unref)
    <2>1. Spread(L, unref) \subseteq DOMAIN objects
      BY <1>1, SpreadGrows
    <2>2. ASSUME NEW T \in SUBSET DOMAIN objects, S \subseteq T, Settled(T, unref)
          PROVE  Spread(L, unref) \subseteq T
      <3>1. L \subseteq T
        BY <1>2, <2>2
      <3>2. Spread(L, unref) \subseteq Spread(T, unref)
        BY <3>1, SpreadGrows
      <3> QED
        BY <2>2, <3>2 DEF Settled
    <2>3. Spread(L, unref) \subseteq L
      BY <2>1, <2>2 DEF Least
    <2> QED
      BY <2>3 DEF Settled
  <1>4. X = S => L = S
    <2>1. X = S => Settled(S, unref)
      BY DEF Settled
    <2> QED
      BY <1>1, <1>2, <2>1
  <1>5. Least(X, unref) = L
    <2>1. S \subseteq X /\ X \subseteq DOMAIN objects
      BY SpreadGrows
    <2>2. ASSUME NEW T \in SUBSET DOMAIN objects, Settled(T, unref)
          PROVE  S \subseteq T <=> X \subseteq T
      <3>1. S \subseteq T => X \subseteq Spread(T, unref)
        BY SpreadGrows
      <3> QED
        BY <2>1, <2>2, <3>1 DEF Settled
    <2> QED
      BY <2>2 DEF Least
  <1> QED
    BY <1>1, <1>2, <1>3, <1>4, <1>5

LEMMA GoneIsLeast ==
    ASSUME Typed, NEW S \in SUBSET DOMAIN objects, NEW unref
    PROVE  Gone(S, unref) = Least(S, unref)
  <1> DEFINE D == DOMAIN objects
             Grows(f) == f = [X \in SUBSET D |-> IF Spread(X, unref) = X THEN X ELSE f[Spread(X, unref)]]
             least == [X \in SUBSET D |-> Least(X, unref)]
  <1>1. ASSUME NEW X \in SUBSET D PROVE Spread(X, unref) \in SUBSET D /\ X \subseteq Spread(X, unref)
    BY SpreadGrows
  <1>2. Grows(least)
    <2>1. ASSUME NEW X \in SUBSET D
          PROVE  least[X] = IF Spread(X, unref) = X THEN X ELSE least[Spread(X, unref)]
      BY <1>1, LeastSettles
    <2> HIDE DEF D
    <2> QED
      BY <2>1
  <1>3. PICK grown : Grows(grown) /\ Gone(S, unref) = grown[S]
    <2>1. Gone(S, unref) = (CHOOSE f : Grows(f))[S]
      BY DEF Gone
    <2> QED
      BY <1>2, <2>1
  <1>4. IsFiniteSet(D) /\ Cardinality(D) \in Nat
    BY FiniteState, FS_CardinalityType
  <1> DEFINE Bad == {X \in SUBSET D : grown[X] # Least(X, unref)}
             Sizes == {Cardinality(D) - Cardinality(X) : X \in Bad}
  <1>5. \A X \in SUBSET D : Cardinality(D) - Cardinality(X) \in Nat
    <2>1. ASSUME NEW X \in SUBSET D PROVE Cardinality(D) - Cardinality(X) \in Nat
      <3>1. IsFiniteSet(X) /\ Cardinality(X) <= Cardinality(D)
        BY <1>4, FS_Subset
      <3>2. Cardinality(X) \in Nat
        BY <3>1, FS_CardinalityType
      <3> QED
        BY <1>4, <3>1, <3>2
    <2> QED
      BY <2>1
  <1>6. Bad = {}
    <2> SUFFICES ASSUME Bad # {} PROVE FALSE
      OBVIOUS
    <2>1. Sizes \subseteq Nat /\ Sizes # {}
      BY <1>5
    <2>2. PICK n \in Sizes : \A m \in Sizes : n <= m
      <3>1. PICK R : R = OpToRel(<, Nat) /\ IsWellFoundedOn(R, Nat)
        BY NatLessThanWellFounded
      <3>2. \A m, n \in Nat : m < n => <<m, n>> \in R
        BY <3>1 DEF OpToRel
      <3> HIDE DEF Sizes
      <3>3. PICK n \in Sizes : \A m \in Sizes : ~(<<m, n>> \in R)
        BY <2>1, <3>1, WFMin
      <3>4. \A m \in Sizes : m \in Nat /\ n \in Nat /\ ~(m < n)
        BY <2>1, <3>2, <3>3
      <3>5. \A m \in Sizes : n <= m
        BY <3>4
      <3> QED
        BY <3>3, <3>5
    <2>3. PICK X \in Bad : n = Cardinality(D) - Cardinality(X)
      BY <2>2
    <2> DEFINE Y == Spread(X, unref)
    <2>4. Y # X
      <3>1. Y = X => grown[X] = X
        BY <1>3, <2>3
      <3> QED
        BY <2>3, <3>1, LeastSettles
    <2>5. Y \in SUBSET D /\ X \subseteq Y /\ IsFiniteSet(X) /\ IsFiniteSet(Y)
      BY <1>1, <1>4, <2>3, FS_Subset
    <2>6. Cardinality(X) < Cardinality(Y) /\ Cardinality(X) \in Nat /\ Cardinality(Y) \in Nat
      BY <2>4, <2>5, FS_Subset, FS_CardinalityType
    <2>7. Y \notin Bad
      <3>1. SUFFICES ASSUME Y \in Bad PROVE FALSE
        OBVIOUS
      <3>2. Cardinality(D) - Cardinality(Y) \in Sizes
        BY <3>1
      <3> QED
        BY <1>4, <2>2, <2>3, <2>6, <3>2
    <2>8. grown[X] = grown[Y]
      BY <1>3, <2>3, <2>4
    <2> QED
      BY <2>3, <2>5, <2>7, <2>8, LeastSettles
  <1> QED
    BY <1>3, <1>6

LEMMA GoneSettles ==
    ASSUME Typed, NEW S \in SUBSET DOMAIN objects, NEW unref
    PROVE  LET gone == Gone(S, unref) IN
           /\ S \subseteq gone /\ gone \subseteq DOMAIN objects
           /\ \A g \in holds : g[1] \in gone /\ Widget(g[2]) => g[2] \in gone
           /\ \A o \in DOMAIN objects : Left(gone, unref, o) <= 0 => o \in gone
           /\ \A T \in SUBSET DOMAIN objects : S \subseteq T /\ Settled(T, unref) => gone \subseteq T
  <1> DEFINE gone == Gone(S, unref)
  <1>1. /\ S \subseteq gone /\ gone \subseteq DOMAIN objects /\ Settled(gone, unref)
        /\ \A T \in SUBSET DOMAIN objects : S \subseteq T /\ Settled(T, unref) => gone \subseteq T
    BY GoneIsLeast, LeastSettles
  <1> HIDE DEF gone
  <1>2. /\ \A g \in holds : g[1] \in gone /\ Widget(g[2]) => g[2] \in gone
        /\ \A o \in DOMAIN objects : Left(gone, unref, o) <= 0 => o \in gone
    BY <1>1 DEF Settled, Spread
  <1> QED
    BY <1>1, <1>2 DEF gone

KeptBy(T, o) == {g \in Kept(T) : g[2] = o}
Remaining(A, o) == {u \in A : handles[u].object = o}

\* What is left to an object are the holders that are kept and the userdata
\* that still have it.
LEMMA LeftIs ==
    ASSUME Typed, Counted, NEW A \in SUBSET Alive, NEW unref, NEW T, NEW o \in DOMAIN objects,
           Cardinality(Remaining(A, o))
               = Cardinality(UserdataFor(o)) - IF o = unref THEN 1 ELSE 0
    PROVE  /\ Left(T, unref, o) = Cardinality(KeptBy(T, o))
                                + Cardinality(Remaining(A, o))
           /\ IsFiniteSet(KeptBy(T, o))
           /\ Cardinality(KeptBy(T, o)) \in Nat
           /\ IsFiniteSet(Remaining(A, o))
           /\ Cardinality(Remaining(A, o)) \in Nat
  <1> DEFINE K == KeptBy(T, o)
             L == {g \in holds \ Kept(T) : g[2] = o}
             U == Remaining(A, o)
  <1>1. K \subseteq holds /\ L \subseteq holds /\ Holders(o) \subseteq holds
        /\ Holders(o) = K \union L /\ K \intersect L = {}
    BY DEF KeptBy, Kept, Holders
  <1>2. U \subseteq Alive /\ UserdataFor(o) \subseteq Alive
    BY DEF Remaining, UserdataFor
  <1>3. IsFiniteSet(K) /\ IsFiniteSet(L) /\ IsFiniteSet(U) /\ IsFiniteSet(UserdataFor(o))
    BY <1>1, <1>2, FiniteState, FS_Subset
  <1> HIDE DEF K, L, U
  <1>4. Cardinality(Holders(o)) = Cardinality(K) + Cardinality(L)
    <2>1. Cardinality(K \intersect L) = 0
      BY <1>1, FS_EmptySet
    <2>2. Cardinality(K \union L) = Cardinality(K) + Cardinality(L) - Cardinality(K \intersect L)
      BY <1>3, FS_Union
    <2>3. Cardinality(K) \in Nat /\ Cardinality(L) \in Nat
      BY <1>3, FS_CardinalityType
    <2> QED
      BY <1>1, <2>1, <2>2, <2>3
  <1>5. /\ Cardinality(K) \in Nat /\ Cardinality(L) \in Nat /\ Cardinality(U) \in Nat
        /\ Cardinality(UserdataFor(o)) \in Nat
    BY <1>3, FS_CardinalityType
  <1>6. objects[o].refs = Cardinality(Holders(o)) + Cardinality(UserdataFor(o))
    BY DEF Counted
  <1>7. Left(T, unref, o) = objects[o].refs - Cardinality(L) - IF o = unref THEN 1 ELSE 0
    BY DEF Left, L
  <1>8. Cardinality(U) = Cardinality(UserdataFor(o)) - IF o = unref THEN 1 ELSE 0
    BY DEF U
  <1>9. Left(T, unref, o) = Cardinality(K) + Cardinality(U)
    <2>1. CASE o = unref
      BY <1>4, <1>5, <1>6, <1>7, <1>8, <2>1
    <2>2. CASE o # unref
      BY <1>4, <1>5, <1>6, <1>7, <1>8, <2>2
    <2> QED
      BY <2>1, <2>2
  <1> QED
    BY <1>3, <1>5, <1>9 DEF K, U

LEMMA PositiveCount ==
    ASSUME NEW S, IsFiniteSet(S), NEW x \in S
    PROVE  Cardinality(S) \in Nat /\ Cardinality(S) > 0
  BY FS_EmptySet, FS_CardinalityType

\* A part of a widget that is not destroyed stays.
LEMMA PartStays ==
    ASSUME Consistent, NEW S \in SUBSET (DOMAIN objects \intersect Ids), NEW unref,
           NEW A \in SUBSET Alive,
           \A o \in DOMAIN objects :
              Cardinality(Remaining(A, o))
                  = Cardinality(UserdataFor(o)) - IF o = unref THEN 1 ELSE 0,
           NEW n \in 1..MaxObjects, NEW p \in DOMAIN PartType,
           <<n, NULL>> \in DOMAIN objects, <<n, p>> \in DOMAIN objects,
           objects[<<n, NULL>>].live, <<n, NULL>> \notin Gone(S, unref)
    PROVE  <<n, p>> \notin Gone(S, unref)
  <1> DEFINE gone == Gone(S, unref)
             whole == <<n, NULL>>
             part == <<n, p>>
             T == gone \ {part}
  <1>1. Typed /\ Counted
    BY DEF Consistent
  <1>2. /\ S \subseteq gone /\ gone \subseteq DOMAIN objects
        /\ \A g \in holds : g[1] \in gone /\ Widget(g[2]) => g[2] \in gone
        /\ \A o \in DOMAIN objects : Left(gone, unref, o) <= 0 => o \in gone
        /\ \A X \in SUBSET DOMAIN objects : S \subseteq X /\ Settled(X, unref) => gone \subseteq X
    BY <1>1, GoneSettles
  <1>3. <<whole, part>> \in holds /\ (Widget(part) => \A g \in holds : g[2] = part => g[1] = whole)
    BY DEF Consistent, PartsHeld
  <1>4. part \notin S
    <2>1. p # NULL
      BY ClassesAssumption
    <2> QED
      BY <2>1 DEF Ids
  <1> HIDE DEF gone
  <1>5. Settled(T, unref)
    <2>1. Spread(T, unref) \subseteq Spread(gone, unref)
      BY <1>1, <1>2, SpreadGrows
    <2>2. Spread(gone, unref) \subseteq gone
      BY <1>2 DEF Spread
    <2>3. ~\E g \in holds : g[1] \in T /\ Widget(g[2]) /\ g[2] = part
      <3>1. whole \notin T
        BY DEF gone
      <3> QED
        BY <1>3, <3>1
    <2>4. ~(Left(T, unref, part) <= 0)
      <3> DEFINE K == KeptBy(T, part)
                 U == Remaining(A, part)
      <3>1. <<whole, part>> \in K
        BY <1>3 DEF KeptBy, Kept, gone
      <3>2. /\ Left(T, unref, part) = Cardinality(K) + Cardinality(U)
            /\ IsFiniteSet(K) /\ Cardinality(U) \in Nat
        <4>1. part \in DOMAIN objects
          OBVIOUS
        <4> HIDE DEF T, part
        <4> QED
          BY <1>1, <4>1, LeftIs
      <3> HIDE DEF K, U
      <3>3. Cardinality(K) \in Nat /\ Cardinality(K) > 0
        BY <3>1, <3>2, PositiveCount
      <3> QED
        BY <3>2, <3>3
    <2>5. part \notin Spread(T, unref)
      BY <2>3, <2>4 DEF Spread
    <2> QED
      BY <2>1, <2>2, <2>5 DEF Settled
  <1>6. gone \subseteq T
    BY <1>2, <1>4, <1>5
  <1> QED
    BY <1>6 DEF gone

\* Giving up a reference, or destroying a widget, keeps the invariant if the
\* userdata that lets go, if any, is one of "unref".
LEMMA GiveUpKeeps ==
    ASSUME Consistent, NEW S \in SUBSET (DOMAIN objects \intersect Ids), NEW unref,
           GiveUp(S, unref), UNCHANGED <<tables, opened, qdata>>,
           handles' \in [Userdata -> [object : Ids \union Parts \union {NULL},
                                      class : DOMAIN ClassData \union {NULL}]],
           \A u \in Alive' : u \in Alive /\ handles'[u] = handles[u],
           \A o \in DOMAIN objects :
              Cardinality(Remaining(Alive', o))
                  = Cardinality(UserdataFor(o)) - IF o = unref THEN 1 ELSE 0
    PROVE  Consistent'
  <1> DEFINE gone == Gone(S, unref)
             kept == {o \in DOMAIN objects : Left(gone, unref, o) > 0}
  <1>1. Noted /\ Typed /\ Pointed /\ Counted /\ PartsHeld /\ PartsTyped /\ Known
    BY DEF Consistent
  <1>2. /\ S \subseteq gone /\ gone \subseteq DOMAIN objects
        /\ \A o \in DOMAIN objects : Left(gone, unref, o) <= 0 => o \in gone
    BY <1>1, GoneSettles
  <1>3. PICK A \in SUBSET Alive : A = Alive'
    OBVIOUS
  <1>4. ASSUME NEW o \in DOMAIN objects
        PROVE  /\ Left(gone, unref, o) \in Int
               /\ Left(gone, unref, o) = Cardinality(KeptBy(gone, o)) + Cardinality(Remaining(A, o))
               /\ IsFiniteSet(Remaining(A, o)) /\ Cardinality(KeptBy(gone, o)) \in Nat
    <2> HIDE DEF gone
    <2>1. Cardinality(Remaining(A, o)) = Cardinality(UserdataFor(o)) - IF o = unref THEN 1 ELSE 0
      BY <1>3
    <2>2. /\ Left(gone, unref, o) = Cardinality(KeptBy(gone, o)) + Cardinality(Remaining(A, o))
          /\ IsFiniteSet(Remaining(A, o)) /\ Cardinality(KeptBy(gone, o)) \in Nat
          /\ Cardinality(Remaining(A, o)) \in Nat
      BY <1>1, <2>1, LeftIs
    <2> QED
      BY <2>2
  <1>5. /\ objects' = [o \in kept |-> [objects[o] EXCEPT !.refs = Left(gone, unref, o),
                                                         !.live = @ /\ o \notin gone]]
        /\ holds' = Kept(gone)
    BY DEF GiveUp
  <1>6. ASSUME NEW n \in 1..MaxObjects, NEW p \in DOMAIN PartType,
               <<n, NULL>> \in DOMAIN objects, <<n, p>> \in DOMAIN objects,
               objects[<<n, NULL>>].live, <<n, NULL>> \notin gone
        PROVE  <<n, p>> \notin gone
    <2>1. \A o \in DOMAIN objects : Cardinality(Remaining(A, o))
              = Cardinality(UserdataFor(o)) - IF o = unref THEN 1 ELSE 0
      BY <1>3
    <2> QED
      BY <1>6, <2>1, PartStays
  <1> HIDE DEF gone
  <1>7. objects \in [DOMAIN objects -> Instances]
    BY <1>1 DEF Typed
  <1>8. /\ DOMAIN objects' = kept /\ kept \subseteq DOMAIN objects
        /\ \A o \in kept : /\ objects'[o] \in Instances
                           /\ objects'[o].type = objects[o].type
                           /\ objects'[o].refs = Left(gone, unref, o)
                           /\ objects'[o].live <=> objects[o].live /\ o \notin gone
    <2>1. DOMAIN objects' = kept
      BY <1>5
    <2>2. ASSUME NEW o \in kept
          PROVE  /\ objects'[o] \in Instances
                 /\ objects'[o].type = objects[o].type
                 /\ objects'[o].refs = Left(gone, unref, o)
                 /\ objects'[o].live <=> objects[o].live /\ o \notin gone
      <3>1. objects[o] \in Instances /\ Left(gone, unref, o) \in Int
        BY <1>4, <1>7
      <3>2. objects'[o] = [objects[o] EXCEPT !.refs = Left(gone, unref, o),
                                             !.live = @ /\ o \notin gone]
        BY <1>5
      <3> QED
        BY <3>1, <3>2 DEF Instances
    <2> QED
      BY <2>1, <2>2
  <1>9. ASSUME NEW g \in holds'
        PROVE  /\ g \in holds /\ g[1] \notin gone /\ g[2] \notin gone /\ g[2] \in kept
               /\ g \in (kept \union {Toplevels}) \X kept
    <2>1. g \in holds /\ g[1] \notin gone /\ g[2] \notin gone
      BY <1>5 DEF Kept
    <2>2. g \in (DOMAIN objects \union {Toplevels}) \X DOMAIN objects
      BY <1>1, <2>1 DEF Typed
    <2>3. ASSUME NEW o \in DOMAIN objects, o \notin gone PROVE o \in kept
      <3>1. Left(gone, unref, o) \in Int /\ ~(Left(gone, unref, o) <= 0)
        BY <1>2, <1>4, <2>3
      <3> QED
        BY <3>1
    <2> QED
      BY <2>1, <2>2, <2>3
  <1>10. Noted'
    BY <1>1 DEF Noted
  <1>11. Typed'
    <2>1. holds' \subseteq (DOMAIN objects' \union {Toplevels}) \X DOMAIN objects'
      BY <1>8, <1>9
    <2>2. objects' \in [DOMAIN objects' -> Instances]
      BY <1>5, <1>8
    <2> QED
      BY <1>1, <1>8, <2>1, <2>2 DEF Typed
  <1>12. \A u \in Alive' : handles[u].object \in kept
    <2> SUFFICES ASSUME NEW u \in A PROVE handles[u].object \in kept
      BY <1>3
    <2>1. handles[u].object \in DOMAIN objects
      BY <1>1 DEF Pointed
    <2>2. u \in Remaining(A, handles[u].object)
      BY DEF Remaining
    <2>3. Cardinality(Remaining(A, handles[u].object)) \in Nat
          /\ Cardinality(Remaining(A, handles[u].object)) > 0
      BY <1>4, <2>1, <2>2, PositiveCount
    <2> QED
      BY <1>4, <2>1, <2>3
  <1>13. Pointed'
    BY <1>1, <1>8, <1>12 DEF Pointed
  <1>14. Counted'
    <2>1. ASSUME NEW o \in kept
          PROVE  objects'[o].refs = Cardinality(Holders(o)') + Cardinality(UserdataFor(o)')
      <3>1. Holders(o)' = KeptBy(gone, o)
        BY <1>5 DEF Holders, KeptBy
      <3>2. UserdataFor(o)' = Remaining(A, o)
        BY <1>3 DEF UserdataFor, Remaining
      <3> QED
        BY <1>4, <1>8, <3>1, <3>2
    <2> QED
      BY <1>8, <2>1 DEF Counted
  <1>15. PartsHeld'
    <2>1. ASSUME NEW n \in 1..MaxObjects, NEW p \in DOMAIN PartType,
                 <<n, NULL>> \in kept, <<n, p>> \in kept, objects'[<<n, NULL>>].live
          PROVE  /\ <<<<n, NULL>>, <<n, p>>>> \in holds'
                 /\ Widget(<<n, p>>)' => \A g \in holds' : g[2] = <<n, p>> => g[1] = <<n, NULL>>
      <3>1. objects[<<n, NULL>>].live /\ <<n, NULL>> \notin gone
        BY <1>8, <2>1
      <3>2. <<n, p>> \notin gone
        BY <1>6, <1>8, <2>1, <3>1
      <3>3. /\ <<<<n, NULL>>, <<n, p>>>> \in holds
            /\ Widget(<<n, p>>) => \A g \in holds : g[2] = <<n, p>> => g[1] = <<n, NULL>>
        BY <1>1, <1>8, <2>1, <3>1 DEF PartsHeld
      <3>4. Widget(<<n, p>>)' <=> Widget(<<n, p>>)
        BY <1>8, <2>1 DEF Widget
      <3> QED
        BY <1>5, <1>9, <3>1, <3>2, <3>3, <3>4 DEF Kept
    <2> QED
      BY <1>8, <2>1 DEF PartsHeld
  <1>16. Known'
    BY <1>1, <1>8, <1>12 DEF Known
  <1>17. PartsTyped'
    BY <1>1, <1>8 DEF PartsTyped
  <1> QED
    BY <1>10, <1>11, <1>13, <1>14, <1>15, <1>16, <1>17 DEF Consistent

----------------------------------------------------------------------------
(* The actions.                                                            *)

\* A userdata that an object is given to is one more that has it, and notes
\* no class but for its own type.
LEMMA MakeObjectKeeps ==
    ASSUME Consistent, NEW u \in Spare, NEW type \in Types, NEW o \in Ids \union Parts, NEW class,
           Fits(class, class), MakeObject(u, type, o, class)
    PROVE  /\ Noted' /\ \A t \in Types : qdata[t] # NULL => qdata'[t] = t
           /\ class = type /\ class \notin Simple => qdata'[class] = class
           /\ handles' \in [Userdata -> [object : Ids \union Parts \union {NULL},
                                         class : DOMAIN ClassData \union {NULL}]]
           /\ Alive' = Alive \union {u} /\ u \notin Alive
           /\ handles'[u] = Handle(o, class) /\ \A v \in Alive : handles'[v] = handles[v]
           /\ \A p : Cardinality(UserdataFor(p)')
                        = Cardinality(UserdataFor(p)) + IF p = o THEN 1 ELSE 0
  <1>1. Noted /\ Typed /\ class \in Types /\ class \in DOMAIN ClassData
    BY DEF Consistent, Fits
  <1>2. NULL \notin Types /\ NULL \notin Ids /\ NULL \notin Parts
    BY ClassesAssumption
  <1>3. /\ handles' = [handles EXCEPT ![u] = Handle(o, class)]
        /\ qdata' = IF class \in Simple \/ qdata[type] # NULL THEN qdata
                    ELSE [qdata EXCEPT ![class] = class]
    BY DEF MakeObject
  <1>4. Noted' /\ \A t \in Types : qdata[t] # NULL => qdata'[t] = t
    BY <1>1, <1>3 DEF Noted
  <1>5. class = type /\ class \notin Simple => qdata'[class] = class
    BY <1>1, <1>3 DEF Noted
  <1>6. handles' \in [Userdata -> [object : Ids \union Parts \union {NULL},
                                   class : DOMAIN ClassData \union {NULL}]]
    BY <1>1, <1>3 DEF Typed, Handle
  <1>7. u \in Userdata /\ handles[u].object = NULL /\ handles'[u] = Handle(o, class)
    BY <1>1, <1>3 DEF Spare, Unused, Handle, Typed
  <1>8. Handle(o, class).object = o /\ o # NULL
    BY <1>2 DEF Handle
  <1>9. \A v \in Userdata \ {u} : handles'[v] = handles[v]
    BY <1>1, <1>3 DEF Typed
  <1>10. Alive' = Alive \union {u} /\ u \notin Alive
    BY <1>7, <1>8, <1>9 DEF Alive
  <1>11. ASSUME NEW p
         PROVE  Cardinality(UserdataFor(p)') = Cardinality(UserdataFor(p)) + IF p = o THEN 1 ELSE 0
    <2>1. UserdataFor(p)' = IF p = o THEN UserdataFor(p) \union {u} ELSE UserdataFor(p)
      BY <1>7, <1>8, <1>9, <1>10 DEF UserdataFor, Alive
    <2>2. u \notin UserdataFor(p)
      BY <1>10 DEF UserdataFor
    <2>3. UserdataFor(p) \subseteq Alive
      BY DEF UserdataFor
    <2>4. IsFiniteSet(UserdataFor(p))
      BY <1>1, <2>3, FiniteState, FS_Subset
    <2>5. Cardinality(UserdataFor(p)) \in Nat
      BY <2>4, FS_CardinalityType
    <2> QED
      BY <2>1, <2>2, <2>4, <2>5, FS_AddElement
  <1>12. \A v \in Alive : handles'[v] = handles[v]
    BY <1>9, <1>10 DEF Alive
  <1> QED
    BY <1>4, <1>5, <1>6, <1>7, <1>10, <1>11, <1>12

\* What luaopen_ygtk() has a table for is in the class data.
LEMMA OpenKeeps ==
    ASSUME Consistent, Open
    PROVE  Consistent'
  <1>0. Len(Libraries) = 5 /\ Len(ClassOrder) = 37 /\ opened \in 0..43
    BY DEF Libraries, ClassOrder, Consistent, Typed
  <1>1. tables' \subseteq DOMAIN ClassData
    <2>1. CASE Register
      <3>1. opened \in Nat /\ opened < 5
        BY <1>0, <2>1 DEF Register
      <3>2. Libraries[opened + 1] \in {"GObject", "lib_cairo", "pango", "gdk", "gtk"}
        BY <3>1 DEF Libraries
      <3> QED
        BY <2>1, <3>2, ClassesAre DEF Register, Consistent, Typed
    <2>2. CASE InitString
      BY <2>2 DEF InitString, Consistent, Typed
    <2>3. CASE BuildClass
      <3>1. \A i \in 1..37 : ClassOrder[i] \in DOMAIN ClassData
        BY ClassesAre DEF ClassOrder
      <3>2. opened - 5 \in 1..37 /\ tables' = tables \union {ClassOrder[opened - 5]}
        BY <1>0, <2>3 DEF BuildClass, Ready
      <3> QED
        BY <3>1, <3>2 DEF Consistent, Typed
    <2> QED
      BY <2>1, <2>2, <2>3 DEF Open
  <1>2. UNCHANGED <<qdata, objects, holds, handles>> /\ opened' = opened + 1
    BY DEF Open
  <1>3. Typed'
    <2>1. opened < 43
      BY <1>0 DEF Open, Register, InitString, BuildClass, Ready
    <2> QED
      BY <1>0, <1>1, <1>2, <2>1 DEF Consistent, Typed
  <1>4. Noted' /\ Pointed' /\ PartsHeld' /\ PartsTyped' /\ Known'
    BY <1>2 DEF Consistent, Noted, Pointed, PartsHeld, PartsTyped, Known, Alive, Widget
  <1>5. Counted'
    BY <1>2 DEF Consistent, Counted, Holders, UserdataFor, Alive
  <1> QED
    BY <1>3, <1>4, <1>5 DEF Consistent

\* A wrapper that takes one reference for its userdata keeps the invariant.
LEMMA GainKeeps ==
    ASSUME Consistent, NEW u \in Spare, NEW type \in Types, NEW o \in Ids \union Parts, NEW class,
           Fits(type, class), Fits(class, class), MakeObject(u, type, o, class),
           UNCHANGED <<tables, opened>>,
           DOMAIN objects' = DOMAIN objects \union {o},
           objects' \in [DOMAIN objects' -> Instances],
           objects'[o].type = type, o \in Parts => type = PartType[o[2]],
           \A p \in DOMAIN objects : objects'[p].type = objects[p].type,
           holds' \subseteq (DOMAIN objects' \union {Toplevels}) \X DOMAIN objects',
           \A p \in DOMAIN objects' :
              objects'[p].refs = Cardinality(Holders(p)')
                               + (Cardinality(UserdataFor(p)) + IF p = o THEN 1 ELSE 0),
           PartsHeld'
    PROVE  Consistent'
  <1>1. Typed /\ Pointed /\ PartsTyped /\ Known
    BY DEF Consistent
  <1>2. /\ Noted' /\ \A t \in Types : qdata[t] # NULL => qdata'[t] = t
        /\ class = type /\ class \notin Simple => qdata'[class] = class
        /\ handles' \in [Userdata -> [object : Ids \union Parts \union {NULL},
                                      class : DOMAIN ClassData \union {NULL}]]
        /\ Alive' = Alive \union {u} /\ u \notin Alive
        /\ handles'[u] = Handle(o, class) /\ \A v \in Alive : handles'[v] = handles[v]
        /\ \A p : Cardinality(UserdataFor(p)')
                     = Cardinality(UserdataFor(p)) + IF p = o THEN 1 ELSE 0
    BY MakeObjectKeeps
  <1>3. Typed'
    BY <1>1, <1>2 DEF Typed
  <1>4. Pointed'
    BY <1>1, <1>2 DEF Pointed, Handle
  <1>5. Counted'
    BY <1>2 DEF Counted
  <1>6. Known'
    <2>1. handles'[u].object = o /\ handles'[u].class = class
      BY <1>2 DEF Handle
    <2>2. ASSUME NEW v \in Alive, handles[v].class = objects[handles[v].object].type,
                 handles[v].class \notin Simple
          PROVE  qdata'[handles[v].class] = handles[v].class
      <3>1. handles[v].class \in Types /\ NULL \notin Types
        BY <1>1, ClassesAssumption DEF Pointed, Fits
      <3>2. qdata[handles[v].class] = handles[v].class
        BY <1>1, <2>2 DEF Known
      <3> QED
        BY <1>2, <3>1, <3>2
    <2>3. \A v \in Alive : handles[v].object \in DOMAIN objects
      BY <1>1 DEF Pointed
    <2> QED
      BY <1>2, <2>1, <2>2, <2>3 DEF Known
  <1>7. PartsTyped'
    BY <1>1 DEF PartsTyped
  <1> QED
    BY <1>2, <1>3, <1>4, <1>5, <1>6, <1>7 DEF Consistent

\* What is taken has one reference more, or one that was not anyone's.
LEMMA TakenIs ==
    ASSUME NEW x \in Instances, NEW takes \in {"ref", "sink"}
    PROVE  /\ Taken(x, takes) \in Instances /\ Taken(x, takes).refs = x.refs + 1
           /\ Taken(x, takes).type = x.type /\ Taken(x, takes).live = x.live
  <1>r. x.refs + 1 \in Int
    BY DEF Instances
  <1>f. x.floating \in {FALSE}
    BY DEF Instances
  <1>1. ~x.floating
    BY <1>f
  <1>2. Taken(x, takes) = [x EXCEPT !.refs = x.refs + 1]
    <2>1. takes # "own" /\ ~(takes = "sink" /\ x.floating)
      BY <1>1
    <2> QED
      BY <2>1 DEF Taken
  <1> QED
    BY <1>r, <1>2 DEF Instances

LEMMA NoUserdata ==
    ASSUME Consistent, NEW o, o \notin DOMAIN objects
    PROVE  Cardinality(UserdataFor(o)) = 0 /\ Cardinality(Holders(o)) = 0
  <1>1. UserdataFor(o) = {}
    BY DEF Consistent, Pointed, UserdataFor
  <1>2. Holders(o) = {}
    BY DEF Consistent, Typed, Holders
  <1> QED
    BY <1>1, <1>2, FS_EmptySet

LEMMA CountsAre ==
    ASSUME Consistent, NEW o \in DOMAIN objects
    PROVE  /\ objects[o].refs = Cardinality(Holders(o)) + Cardinality(UserdataFor(o))
           /\ Cardinality(Holders(o)) \in Nat /\ Cardinality(UserdataFor(o)) \in Nat
           /\ IsFiniteSet(Holders(o)) /\ IsFiniteSet(UserdataFor(o))
  <1>1. Holders(o) \subseteq holds /\ UserdataFor(o) \subseteq Alive
    BY DEF Holders, UserdataFor
  <1>2. IsFiniteSet(Holders(o)) /\ IsFiniteSet(UserdataFor(o))
    BY <1>1, FiniteState, FS_Subset DEF Consistent
  <1> QED
    BY <1>2, FS_CardinalityType DEF Consistent, Counted

LEMMA ReceiveKeeps ==
    ASSUME Consistent, Receive
    PROVE  Consistent'
  <1>1. PICK u \in Spare, o \in DOMAIN objects :
           /\ qdata[objects[o].type] # NULL
           /\ objects' = [objects EXCEPT ![o] = Taken(@, "ref")]
           /\ MakeObject(u, objects[o].type, o, qdata[objects[o].type])
           /\ UNCHANGED <<tables, opened, holds>>
    BY DEF Receive
  <1> DEFINE type == objects[o].type
  <1>2. Typed /\ Noted /\ PartsHeld /\ PartsTyped
    BY DEF Consistent
  <1>3. objects \in [DOMAIN objects -> Instances] /\ o \in Ids \union Parts
    BY <1>2 DEF Typed
  <1>4. type \in Types
    BY <1>3 DEF Instances
  <1>5. qdata[type] = type /\ Fits(type, type)
    BY <1>1, <1>2, <1>4 DEF Noted
  <1>6. /\ objects'[o] = Taken(objects[o], "ref") /\ DOMAIN objects' = DOMAIN objects
        /\ \A p \in DOMAIN objects : p # o => objects'[p] = objects[p]
    BY <1>1, <1>3
  <1>7. \A p \in DOMAIN objects : /\ objects'[p] \in Instances /\ objects'[p].type = objects[p].type
                                  /\ objects'[p].live = objects[p].live
                                  /\ objects'[p].refs = objects[p].refs + IF p = o THEN 1 ELSE 0
    <2>1. \A p \in DOMAIN objects : objects[p] \in Instances /\ objects[p].refs \in Int
      BY <1>3 DEF Instances
    <2> QED
      BY <1>6, <2>1, TakenIs
  <1>8. objects' \in [DOMAIN objects' -> Instances]
    BY <1>1, <1>3, <1>6, <1>7
  <1>9. \A p \in DOMAIN objects' :
           objects'[p].refs = Cardinality(Holders(p)')
                            + (Cardinality(UserdataFor(p)) + IF p = o THEN 1 ELSE 0)
    <2>1. \A p : Holders(p)' = Holders(p)
      BY <1>1 DEF Holders
    <2> QED
      BY <1>6, <1>7, <2>1, CountsAre
  <1>10. PartsHeld'
    <2>1. \A p \in DOMAIN objects : Widget(p)' <=> Widget(p)
      BY <1>7 DEF Widget
    <2> QED
      BY <1>1, <1>2, <1>6, <1>7, <2>1 DEF PartsHeld
  <1>11. holds' \subseteq (DOMAIN objects' \union {Toplevels}) \X DOMAIN objects'
    BY <1>1, <1>2, <1>6 DEF Typed
  <1>12. /\ MakeObject(u, type, o, type) /\ UNCHANGED <<tables, opened>>
         /\ DOMAIN objects' = DOMAIN objects \union {o} /\ objects'[o].type = type
         /\ \A p \in DOMAIN objects : objects'[p].type = objects[p].type
         /\ o \in Parts => type = PartType[o[2]]
    BY <1>1, <1>2, <1>5, <1>6, <1>7 DEF PartsTyped
  <1> HIDE DEF type
  <1> QED
    BY <1>3, <1>4, <1>5, <1>8, <1>9, <1>10, <1>11, <1>12, GainKeeps

\* A userdata that lets go of its object is one less that has it.
LEMMA Released ==
    ASSUME Consistent, NEW u \in Userdata, NEW class \in DOMAIN ClassData \union {NULL},
           handles' = [handles EXCEPT ![u] = Handle(NULL, class)]
    PROVE  /\ handles' \in [Userdata -> [object : Ids \union Parts \union {NULL},
                                         class : DOMAIN ClassData \union {NULL}]]
           /\ \A v \in Alive' : v \in Alive /\ handles'[v] = handles[v]
           /\ \A o \in DOMAIN objects :
                 Cardinality(Remaining(Alive', o))
                     = Cardinality(UserdataFor(o)) - IF o = handles[u].object THEN 1 ELSE 0
  <1>1. Typed
    BY DEF Consistent
  <1>2. /\ handles'[u] = Handle(NULL, class) /\ Handle(NULL, class).object = NULL
        /\ \A v \in Userdata \ {u} : handles'[v] = handles[v]
    BY <1>1 DEF Typed, Handle
  <1>3. Alive' = Alive \ {u}
    BY <1>2 DEF Alive
  <1>4. handles' \in [Userdata -> [object : Ids \union Parts \union {NULL},
                                   class : DOMAIN ClassData \union {NULL}]]
    BY <1>1 DEF Typed, Handle
  <1>5. \A v \in Alive' : v \in Alive /\ handles'[v] = handles[v]
    BY <1>2, <1>3 DEF Alive
  <1>6. ASSUME NEW o \in DOMAIN objects
        PROVE  Cardinality(Remaining(Alive', o))
                   = Cardinality(UserdataFor(o)) - IF o = handles[u].object THEN 1 ELSE 0
    <2>1. Remaining(Alive', o) = UserdataFor(o) \ {u}
      BY <1>3 DEF Remaining, UserdataFor
    <2>2. o # NULL
      BY <1>1, ClassesAssumption DEF Typed
    <2>3. u \in UserdataFor(o) <=> o = handles[u].object
      BY <2>2 DEF UserdataFor, Alive
    <2>4. IsFiniteSet(UserdataFor(o)) /\ Cardinality(UserdataFor(o)) \in Nat
      BY CountsAre
    <2>5. CASE u \in UserdataFor(o)
      <3>1. Cardinality(UserdataFor(o) \ {u}) = Cardinality(UserdataFor(o)) - 1
        BY <2>4, <2>5, FS_RemoveElement
      <3> QED
        BY <2>1, <2>3, <2>5, <3>1
    <2>6. CASE u \notin UserdataFor(o)
      <3>1. UserdataFor(o) \ {u} = UserdataFor(o)
        BY <2>6
      <3> QED
        BY <2>1, <2>3, <2>4, <2>6, <3>1
    <2> QED
      BY <2>5, <2>6
  <1> QED
    BY <1>4, <1>5, <1>6

LEMMA CollectKeeps ==
    ASSUME Consistent, Collect
    PROVE  Consistent'
  <1>1. PICK u \in Userdata : /\ handles' = [handles EXCEPT ![u] = Unused]
                              /\ GiveUp({}, handles[u].object)
                              /\ UNCHANGED <<tables, opened, qdata>>
    BY DEF Collect
  <1>2. handles' = [handles EXCEPT ![u] = Handle(NULL, NULL)]
    BY <1>1 DEF Unused
  <1>3. PICK o : o = handles[u].object
    OBVIOUS
  <1>4. /\ handles' \in [Userdata -> [object : Ids \union Parts \union {NULL},
                                      class : DOMAIN ClassData \union {NULL}]]
        /\ \A v \in Alive' : v \in Alive /\ handles'[v] = handles[v]
        /\ \A p \in DOMAIN objects :
              Cardinality(Remaining(Alive', p))
                  = Cardinality(UserdataFor(p)) - IF p = o THEN 1 ELSE 0
    BY <1>2, <1>3, Released
  <1>5. GiveUp({}, o) /\ {} \subseteq DOMAIN objects \intersect Ids
    BY <1>1, <1>3
  <1> QED
    BY <1>1, <1>4, <1>5, GiveUpKeeps

LEMMA DestroySimpleKeeps ==
    ASSUME Consistent, DestroySimple
    PROVE  Consistent'
  <1>1. PICK u \in Alive : /\ handles' = [handles EXCEPT ![u].object = NULL]
                           /\ GiveUp({}, handles[u].object)
                           /\ UNCHANGED <<tables, opened, qdata>>
    BY DEF DestroySimple
  <1>2. u \in Userdata /\ handles[u].class \in DOMAIN ClassData \union {NULL}
    BY DEF Consistent, Typed, Alive
  <1>3. handles' = [handles EXCEPT ![u] = Handle(NULL, handles[u].class)]
    <2>1. handles[u] \in [object : Ids \union Parts \union {NULL},
                          class : DOMAIN ClassData \union {NULL}]
      BY <1>2 DEF Consistent, Typed
    <2>2. [handles[u] EXCEPT !.object = NULL] = Handle(NULL, handles[u].class)
      BY <2>1 DEF Handle
    <2> QED
      BY <1>1, <2>2
  <1>4. PICK o : o = handles[u].object
    OBVIOUS
  <1>5. /\ handles' \in [Userdata -> [object : Ids \union Parts \union {NULL},
                                      class : DOMAIN ClassData \union {NULL}]]
        /\ \A v \in Alive' : v \in Alive /\ handles'[v] = handles[v]
        /\ \A p \in DOMAIN objects :
              Cardinality(Remaining(Alive', p))
                  = Cardinality(UserdataFor(p)) - IF p = o THEN 1 ELSE 0
    BY <1>2, <1>3, <1>4, Released
  <1>6. GiveUp({}, o) /\ {} \subseteq DOMAIN objects \intersect Ids
    BY <1>1, <1>4
  <1> QED
    BY <1>1, <1>5, <1>6, GiveUpKeeps

LEMMA DestroyKeeps ==
    ASSUME Consistent, Destroy
    PROVE  Consistent'
  <1>1. PICK u \in Alive : /\ handles[u].object \in Ids
                           /\ GiveUp({handles[u].object}, NULL)
                           /\ UNCHANGED <<tables, opened, qdata, handles>>
    BY DEF Destroy
  <1>2. {handles[u].object} \subseteq DOMAIN objects \intersect Ids
    BY <1>1 DEF Consistent, Pointed
  <1>3. /\ handles' \in [Userdata -> [object : Ids \union Parts \union {NULL},
                                      class : DOMAIN ClassData \union {NULL}]]
        /\ Alive' = Alive /\ handles' = handles
    BY <1>1 DEF Consistent, Typed, Alive
  <1>4. ASSUME NEW o \in DOMAIN objects
        PROVE  Cardinality(Remaining(Alive', o))
                   = Cardinality(UserdataFor(o)) - IF o = NULL THEN 1 ELSE 0
    <2>1. o # NULL
      BY ClassesAssumption DEF Consistent, Typed
    <2>2. Remaining(Alive', o) = UserdataFor(o)
      BY <1>3 DEF Remaining, UserdataFor
    <2> QED
      BY <2>1, <2>2, CountsAre
  <1>5. \A v \in Alive' : v \in Alive /\ handles'[v] = handles[v]
    BY <1>3
  <1>6. PICK S : S = {handles[u].object}
    OBVIOUS
  <1> QED
    BY <1>1, <1>2, <1>3, <1>4, <1>5, <1>6, GiveUpKeeps

\* A child has no holder when it is added; the reference that floated, or one
\* more, is the container's.
LEMMA AddKeeps ==
    ASSUME Consistent, Add
    PROVE  Consistent'
  <1>1. PICK v \in Alive, w \in Alive :
           /\ Widget(handles[w].object) /\ handles[v].object # handles[w].object
           /\ ~\E g \in holds : g[2] = handles[w].object
           /\ objects' = [objects EXCEPT ![handles[w].object] = Taken(@, "sink")]
           /\ holds' = holds \union {<<handles[v].object, handles[w].object>>}
           /\ UNCHANGED <<tables, opened, qdata, handles>>
    BY DEF Add
  <1> DEFINE parent == handles[v].object
             child == handles[w].object
  <1>2. Noted /\ Typed /\ Pointed /\ Counted /\ PartsHeld /\ PartsTyped /\ Known
    BY DEF Consistent
  <1>3. parent \in DOMAIN objects /\ child \in DOMAIN objects
    BY <1>2 DEF Pointed
  <1>4. /\ objects' = [objects EXCEPT ![child] = Taken(@, "sink")]
        /\ holds' = holds \union {<<parent, child>>} /\ ~\E g \in holds : g[2] = child
    BY <1>1
  <1>5. UNCHANGED <<tables, opened, qdata, handles>> /\ Alive' = Alive
    BY <1>1 DEF Alive
  <1> HIDE DEF parent, child
  <1>6. objects \in [DOMAIN objects -> Instances]
    BY <1>2 DEF Typed
  <1>7. /\ DOMAIN objects' = DOMAIN objects
        /\ \A p \in DOMAIN objects : /\ objects'[p] \in Instances /\ objects'[p].type = objects[p].type
                                     /\ objects'[p].live = objects[p].live
                                     /\ objects'[p].refs = objects[p].refs + IF p = child THEN 1 ELSE 0
    <2>1. /\ objects'[child] = Taken(objects[child], "sink") /\ DOMAIN objects' = DOMAIN objects
          /\ \A p \in DOMAIN objects : p # child => objects'[p] = objects[p]
      BY <1>3, <1>4, <1>6
    <2>2. \A p \in DOMAIN objects : objects[p] \in Instances /\ objects[p].refs \in Int
      BY <1>6 DEF Instances
    <2> QED
      BY <1>3, <2>1, <2>2, TakenIs
  <1>8. Typed'
    <2>1. objects' \in [DOMAIN objects' -> Instances]
      BY <1>4, <1>6, <1>7
    <2>2. holds' \subseteq (DOMAIN objects' \union {Toplevels}) \X DOMAIN objects'
      BY <1>2, <1>3, <1>4, <1>7 DEF Typed
    <2> QED
      BY <1>2, <1>5, <1>7, <2>1, <2>2 DEF Typed
  <1>9. Noted' /\ Pointed' /\ PartsTyped' /\ Known'
    BY <1>2, <1>5, <1>7 DEF Noted, Pointed, PartsTyped, Known
  <1>10. Counted'
    <2>1. ASSUME NEW o \in DOMAIN objects
          PROVE  objects'[o].refs = Cardinality(Holders(o)') + Cardinality(UserdataFor(o)')
      <3>1. UserdataFor(o)' = UserdataFor(o)
        BY <1>5 DEF UserdataFor
      <3>2. CASE o = child
        <4>1. Holders(o) = {} /\ Holders(o)' = {<<parent, child>>}
          BY <1>4, <3>2 DEF Holders
        <4>2. Cardinality(Holders(o)) = 0 /\ Cardinality(Holders(o)') = 1
          BY <4>1, FS_EmptySet, FS_Singleton
        <4> QED
          BY <1>7, <3>1, <3>2, <4>2, CountsAre
      <3>3. CASE o # child
        <4>1. Holders(o)' = Holders(o)
          BY <1>4, <3>3 DEF Holders
        <4> QED
          BY <1>7, <3>1, <3>3, <4>1, CountsAre
      <3> QED
        BY <3>2, <3>3
    <2> QED
      BY <1>7, <2>1 DEF Counted
  <1>11. PartsHeld'
    <2>1. ASSUME NEW n \in 1..MaxObjects, NEW p \in DOMAIN PartType,
                 <<n, NULL>> \in DOMAIN objects, <<n, p>> \in DOMAIN objects, objects[<<n, NULL>>].live
          PROVE  /\ <<<<n, NULL>>, <<n, p>>>> \in holds'
                 /\ Widget(<<n, p>>)' => \A g \in holds' : g[2] = <<n, p>> => g[1] = <<n, NULL>>
      <3>1. /\ <<<<n, NULL>>, <<n, p>>>> \in holds
            /\ Widget(<<n, p>>) => \A g \in holds : g[2] = <<n, p>> => g[1] = <<n, NULL>>
        BY <1>2, <2>1 DEF PartsHeld
      <3>2. <<n, p>> # child
        BY <1>4, <3>1
      <3>3. Widget(<<n, p>>)' <=> Widget(<<n, p>>)
        BY <1>7, <2>1 DEF Widget
      <3> QED
        BY <1>4, <3>1, <3>2, <3>3
    <2> QED
      BY <1>7, <2>1 DEF PartsHeld
  <1> QED
    BY <1>8, <1>9, <1>10, <1>11 DEF Consistent

\* A getter's part is held by its widget already or from now on, and has one
\* reference more for the userdata.
LEMMA GetKeeps ==
    ASSUME Consistent, Get
    PROVE  Consistent'
  <1>1. PICK m \in Wrappers, v \in Alive, u \in Spare :
           LET whole == handles[v].object
               o == <<whole[1], m.part>>
               part == IF o \in DOMAIN objects THEN objects[o]
                       ELSE [Fresh(PartType[m.part]) EXCEPT !.floating = FALSE]
           IN  /\ m.part # NULL /\ whole \in Ids /\ objects[whole].live
               /\ objects' = With(o, Taken(part, m.takes))
               /\ holds' = holds \union {<<whole, o>>}
               /\ MakeObject(u, part.type, o, m.class)
               /\ UNCHANGED <<tables, opened>>
    BY DEF Get
  <1>2. PICK whole, n : whole = handles[v].object /\ n = whole[1]
    OBVIOUS
  <1> DEFINE o == <<n, m.part>>
             type == PartType[m.part]
             part == IF o \in DOMAIN objects THEN objects[o]
                     ELSE [Fresh(type) EXCEPT !.floating = FALSE]
  <1>3. /\ m.part # NULL /\ whole \in Ids /\ objects[whole].live
        /\ objects' = With(o, Taken(part, m.takes))
        /\ holds' = holds \union {<<whole, o>>}
        /\ MakeObject(u, part.type, o, m.class)
        /\ UNCHANGED <<tables, opened>>
    BY <1>1, <1>2
  <1>4. Noted /\ Typed /\ Pointed /\ Counted /\ PartsHeld /\ PartsTyped /\ Known
    BY DEF Consistent
  <1>5. whole \in DOMAIN objects /\ whole = <<n, NULL>> /\ n \in 1..MaxObjects
    BY <1>2, <1>3, <1>4 DEF Pointed, Ids
  <1>6. /\ m.part \in DOMAIN PartType /\ m.takes = "ref"
        /\ Fits(type, m.class) /\ Fits(m.class, m.class)
    <2>1. PICK c \in DOMAIN Methods : m \in Methods[c]
      BY DEF Wrappers
    <2>2. c \in DOMAIN ClassData
      BY DEF Methods
    <2> QED
      BY <1>3, <2>1, <2>2, ReturnsFit
  <1>7. type \in Types
    BY <1>6 DEF Fits
  <1>8. o \in Parts /\ o # whole /\ o[2] = m.part
    BY <1>5, <1>6, ClassesAssumption DEF Parts
  <1>9. objects \in [DOMAIN objects -> Instances]
    BY <1>4 DEF Typed
  <1>10. /\ part \in Instances /\ part.type = type
         /\ part.refs = IF o \in DOMAIN objects THEN objects[o].refs ELSE 1
    <2>1. CASE o \in DOMAIN objects
      BY <1>4, <1>8, <1>9, <2>1 DEF PartsTyped
    <2>2. CASE o \notin DOMAIN objects
      <3>1. part = [Fresh(type) EXCEPT !.floating = FALSE]
        BY <2>2
      <3>2. part = [type |-> type, refs |-> 1, live |-> TRUE, floating |-> FALSE]
        <4> HIDE DEF part, type
        <4> QED
          BY <3>1 DEF Fresh
      <3>3. FALSE \in {FALSE} /\ TRUE \in BOOLEAN /\ 1 \in Int
        OBVIOUS
      <3> HIDE DEF part, type
      <3>4. part \in Instances
        BY <1>7, <3>2, <3>3 DEF Instances
      <3> QED
        BY <2>2, <3>2, <3>4
    <2> QED
      BY <2>1, <2>2
  <1> HIDE DEF part, type, o
  <1>11. /\ DOMAIN objects' = DOMAIN objects \union {o}
         /\ objects'[o] = Taken(part, "ref")
         /\ \A p \in DOMAIN objects \ {o} : objects'[p] = objects[p]
    BY <1>3, <1>6 DEF With
  <1>12. /\ objects'[o] \in Instances /\ objects'[o].type = type /\ objects'[o].refs = part.refs + 1
    BY <1>10, <1>11, TakenIs
  <1>13. objects' \in [DOMAIN objects' -> Instances]
    BY <1>3, <1>9, <1>11, <1>12 DEF With
  <1>14. \A p \in DOMAIN objects : objects'[p].type = objects[p].type
    <2>1. o \in DOMAIN objects => objects[o].type = type
      BY <1>4, <1>8 DEF PartsTyped, type
    <2> QED
      BY <1>11, <1>12, <2>1
  <1>15. holds' \subseteq (DOMAIN objects' \union {Toplevels}) \X DOMAIN objects'
    BY <1>3, <1>4, <1>5, <1>11 DEF Typed
  <1>16. o \in DOMAIN objects => /\ <<whole, o>> \in holds /\ holds' = holds
                                 /\ objects[o].live = objects'[o].live
    <2>1. o \in DOMAIN objects => <<whole, o>> \in holds
      BY <1>3, <1>4, <1>5, <1>6 DEF PartsHeld, o
    <2>2. o \in DOMAIN objects => objects'[o].live = objects[o].live
      BY <1>10, <1>11, TakenIs DEF part
    <2> QED
      BY <1>3, <2>1, <2>2
  <1>17. ASSUME NEW p \in DOMAIN objects'
         PROVE  objects'[p].refs = Cardinality(Holders(p)')
                                 + (Cardinality(UserdataFor(p)) + IF p = o THEN 1 ELSE 0)
    <2>1. CASE p \in DOMAIN objects /\ p = o
      <3>1. Holders(p)' = Holders(p)
        BY <1>16, <2>1 DEF Holders
      <3> QED
        BY <1>10, <1>12, <2>1, <3>1, CountsAre
    <2>2. CASE p \in DOMAIN objects /\ p # o
      <3>1. Holders(p)' = Holders(p)
        BY <1>3, <2>2 DEF Holders
      <3> QED
        BY <1>11, <2>2, <3>1, CountsAre
    <2>3. CASE p \notin DOMAIN objects
      <3>1. p = o
        BY <1>11, <2>3
      <3>2. Holders(o)' = {<<whole, o>>}
        BY <1>3, <1>4, <2>3, <3>1 DEF Holders, Typed
      <3>3. Cardinality(Holders(o)') = 1 /\ Cardinality(UserdataFor(o)) = 0
        BY <2>3, <3>1, <3>2, FS_Singleton, NoUserdata
      <3> QED
        BY <1>10, <1>12, <2>3, <3>1, <3>3
    <2> QED
      BY <2>1, <2>2, <2>3
  <1>18. PartsHeld'
    <2>1. ASSUME NEW k \in 1..MaxObjects, NEW p \in DOMAIN PartType,
                 <<k, NULL>> \in DOMAIN objects', <<k, p>> \in DOMAIN objects', objects'[<<k, NULL>>].live
          PROVE  /\ <<<<k, NULL>>, <<k, p>>>> \in holds'
                 /\ Widget(<<k, p>>)' => \A g \in holds' : g[2] = <<k, p>> => g[1] = <<k, NULL>>
      <3>1. <<k, NULL>> # o
        BY <1>6, ClassesAssumption DEF o
      <3>2. <<k, NULL>> \in DOMAIN objects /\ objects[<<k, NULL>>].live
        BY <1>11, <2>1, <3>1
      <3>3. CASE <<k, p>> \in DOMAIN objects
        <4>1. /\ <<<<k, NULL>>, <<k, p>>>> \in holds
              /\ Widget(<<k, p>>) => \A g \in holds : g[2] = <<k, p>> => g[1] = <<k, NULL>>
          BY <1>4, <3>2, <3>3 DEF PartsHeld
        <4>2. Widget(<<k, p>>)' <=> Widget(<<k, p>>)
          BY <1>14, <3>3 DEF Widget
        <4>3. <<k, p>> = o => whole = <<k, NULL>>
          BY <1>5 DEF o
        <4> QED
          BY <1>3, <4>1, <4>2, <4>3
      <3>4. CASE <<k, p>> \notin DOMAIN objects
        <4>1. <<k, p>> = o
          BY <1>11, <2>1, <3>4
        <4>2. whole = <<k, NULL>>
          BY <1>5, <4>1 DEF o
        <4>3. \A g \in holds : g[2] # <<k, p>>
          BY <1>4, <3>4 DEF Typed
        <4> QED
          BY <1>3, <4>1, <4>2, <4>3
      <3> QED
        BY <3>3, <3>4
    <2> QED
      BY <2>1 DEF PartsHeld
  <1>19. PICK class : class = m.class
    OBVIOUS
  <1>20. Fits(type, class) /\ Fits(class, class) /\ MakeObject(u, type, o, class)
    BY <1>3, <1>6, <1>10, <1>19
  <1>21. o \in Ids \union Parts /\ (o \in Parts => type = PartType[o[2]])
    BY <1>8 DEF type
  <1>22. UNCHANGED <<tables, opened>> /\ DOMAIN objects' = DOMAIN objects \union {o} /\ objects'[o].type = type
    BY <1>3, <1>11, <1>12
  <1> QED
    BY <1>7, <1>13, <1>14, <1>15, <1>17, <1>18, <1>20, <1>21, <1>22, GainKeeps

\* The reference of a new object is its userdata's; a window has another, of
\* GTK+'s list of them.
LEMMA MadeIs ==
    ASSUME NEW c, NEW m, m.makes # NULL, Sound(c, m)
    PROVE  /\ m.makes \in Types
           /\ Taken(Fresh(m.makes), m.takes) \in Instances
           /\ Taken(Fresh(m.makes), m.takes).type = m.makes
           /\ Taken(Fresh(m.makes), m.takes).refs = IF IsA(m.makes, "GtkWindow") THEN 2 ELSE 1
  <1>1. \/ m.takes = "own" /\ m.makes \in Owned
        \/ m.takes = "sink" /\ m.makes \in Floats
        \/ m.takes = "ref" /\ m.makes = "GtkWindow"
    BY DEF Sound
  <1>2. m.makes \in Types
    BY <1>1, Kinds
  <1>3. PICK type, x : type = m.makes /\ x = Fresh(type)
    OBVIOUS
  <1>4. /\ x \in [type : Types, refs : Int, floating : BOOLEAN, live : BOOLEAN]
        /\ x.type = type /\ x.refs = 1
        /\ x.floating <=> IsA(type, "GtkObject") /\ ~IsA(type, "GtkWindow")
    <2>1. PICK live, floating : /\ live = TRUE
                                /\ floating = (IsA(type, "GtkObject") /\ ~IsA(type, "GtkWindow"))
      BY Zenon
    <2>2. live \in BOOLEAN /\ floating \in BOOLEAN
      BY <2>1, Zenon
    <2>3. x = [type |-> type, refs |-> 1, live |-> live, floating |-> floating]
      BY <1>3, <2>1, Zenon DEF Fresh
    <2>4. /\ x \in [type : Types, refs : Int, floating : BOOLEAN, live : BOOLEAN]
          /\ x.type = type /\ x.refs = 1 /\ x.floating = floating
      BY <1>2, <1>3, <2>2, <2>3
    <2> QED
      BY <2>1, <2>4, Zenon
  <1>5. ~x.floating => x \in Instances
    <2>1. x.floating \in BOOLEAN
      BY <1>4
    <2>2. ~x.floating => x.floating \in {FALSE}
      BY <2>1, Zenon
    <2> QED
      BY <1>4, <2>2 DEF Instances
  <1>6. CASE m.takes = "own" /\ m.makes \in Owned
    <2>1. ~IsA(type, "GtkWindow") /\ ~IsA(type, "GtkObject")
      BY <1>3, <1>6, Kinds
    <2>2. Taken(x, m.takes) = x
      BY <1>6 DEF Taken
    <2> QED
      BY <1>2, <1>3, <1>4, <1>5, <2>1, <2>2
  <1>7. CASE m.takes = "sink" /\ m.makes \in Floats /\ ~IsA(type, "GtkWindow")
    <2>1. x.floating
      BY <1>3, <1>4, <1>7, Kinds
    <2>2. Taken(x, m.takes) = [x EXCEPT !.floating = FALSE]
      BY <1>7, <2>1 DEF Taken
    <2>3. [x EXCEPT !.floating = FALSE] \in Instances
      BY <1>4 DEF Instances
    <2>4. [x EXCEPT !.floating = FALSE].type = type /\ [x EXCEPT !.floating = FALSE].refs = 1
      BY <1>4
    <2> QED
      BY <1>2, <1>3, <1>7, <2>2, <2>3, <2>4
  <1>8. CASE m.takes \in {"sink", "ref"} /\ IsA(type, "GtkWindow")
    <2>1. x \in Instances
      BY <1>4, <1>5, <1>8
    <2>2. Taken(x, m.takes) \in Instances /\ Taken(x, m.takes).refs = 1 + 1
          /\ Taken(x, m.takes).type = type
      BY <1>4, <1>8, <2>1, TakenIs
    <2> QED
      BY <1>2, <1>3, <1>8, <2>2
  <1>9. m.takes = "ref" => IsA(type, "GtkWindow")
    BY <1>1, <1>3, Kinds
  <1> QED
    BY <1>1, <1>6, <1>7, <1>8, <1>9

LEMMA MakeKeeps ==
    ASSUME Consistent, Make
    PROVE  Consistent'
  <1>0. PICK c \in tables : \E m \in Methods[c] :
           m.makes \in Wanted /\ \E u \in Spare, given \in Givens(m) : New(u, m, given)
    BY DEF Make
  <1>m. PICK m \in Methods[c] :
           m.makes \in Wanted /\ \E u \in Spare, given \in Givens(m) : New(u, m, given)
    BY <1>0
  <1>1. PICK u \in Spare, given \in Givens(m) :
           FreeIds # {} /\ m.makes \in Wanted /\ New(u, m, given)
    BY <1>m DEF Make
  <1>2. Noted /\ Typed /\ Pointed /\ Counted /\ PartsHeld /\ PartsTyped /\ Known
    BY DEF Consistent
  <1>3. c \in DOMAIN ClassData /\ m.makes # NULL
    BY <1>1, <1>2, ClassesAssumption DEF Typed
  <1>4. Sound(c, m) /\ m.class = m.makes /\ Fits(m.makes, m.makes)
    BY <1>3, TablesSound, ReturnsFit
  <1>5. PICK n : n = CHOOSE k \in FreeIds : TRUE
    OBVIOUS
  <1>6. n \in Ids /\ \A o \in DOMAIN objects : o[1] # n[1]
    <2>1. n \in FreeIds
      BY <1>1, <1>5
    <2> QED
      BY <2>1 DEF FreeIds
  <1>7. n \notin DOMAIN objects /\ n # Toplevels /\ n[2] = NULL /\ n = <<n[1], NULL>>
    BY <1>6, ClassesAssumption DEF Ids, Toplevels
  <1> DEFINE type == m.makes
             window == IsA(type, "GtkWindow")
             rooted == IF window THEN {<<Toplevels, n>>} ELSE {}
             target == {<<n, o>> : o \in IF type = "cairo" THEN {given} ELSE {}}
             new == Taken(Fresh(type), m.takes)
             made == With(n, new)
  <1>8. /\ objects' = [o \in DOMAIN made |->
                         IF <<n, o>> \in target THEN [made[o] EXCEPT !.refs = @ + 1] ELSE made[o]]
        /\ holds' = holds \union target \union rooted
        /\ MakeObject(u, type, n, type)
        /\ UNCHANGED <<tables, opened>>
    BY <1>1, <1>4, <1>5 DEF New
  <1>9. type \in Types
    BY <1>3, <1>4, MadeIs
  <1>10. new \in Instances /\ new.type = type /\ new.refs = IF window THEN 2 ELSE 1
    BY <1>3, <1>4, MadeIs
  <1>11. type = "cairo" => /\ given \in DOMAIN objects /\ given # n /\ ~Widget(given)
    <2> SUFFICES ASSUME type = "cairo"
                 PROVE  given \in DOMAIN objects /\ given # n /\ ~Widget(given)
      OBVIOUS
    <2>1. m.self \in {"surface", "GdkDrawable"} /\ m.self # NULL
      BY <1>3, <1>4, Kinds, ClassesAssumption DEF Sound
    <2>2. given \in {handles[v].object : v \in Alive} /\ IsA(objects[given].type, m.self)
      BY <1>1, <2>1 DEF Givens
    <2>3. given \in DOMAIN objects /\ objects[given].type \in Types
      BY <1>2, <2>2 DEF Pointed, Fits
    <2> QED
      BY <1>7, <2>1, <2>2, <2>3, DrawablesAreNoWidgets DEF Widget
  <1>12. /\ \A o : <<n, o>> \in target <=> type = "cairo" /\ o = given
         /\ \A g \in target : g[1] = n /\ g[2] = given /\ type = "cairo"
         /\ \A g \in rooted : g = <<Toplevels, n>> /\ g[1] = Toplevels /\ g[2] = n
         /\ rooted = IF window THEN {<<Toplevels, n>>} ELSE {}
    OBVIOUS
  <1>13. DOMAIN made = DOMAIN objects \union {n} /\ made[n] = new
         /\ \A o \in DOMAIN objects : made[o] = objects[o]
    BY <1>7 DEF With
  <1>14. objects \in [DOMAIN objects -> Instances]
    BY <1>2 DEF Typed
  <1> HIDE DEF type, window, rooted, target, new, made
  <1>15. /\ DOMAIN objects' = DOMAIN objects \union {n} /\ objects'[n] = new
         /\ \A o \in DOMAIN objects :
               /\ objects'[o] \in Instances /\ objects'[o].type = objects[o].type
               /\ objects'[o].live = objects[o].live
               /\ objects'[o].refs = objects[o].refs + IF <<n, o>> \in target THEN 1 ELSE 0
    <2>1. DOMAIN objects' = DOMAIN objects \union {n}
      BY <1>8, <1>13
    <2>2. objects'[n] = new
      BY <1>8, <1>11, <1>12, <1>13
    <2>3. ASSUME NEW o \in DOMAIN objects
          PROVE  /\ objects'[o] \in Instances /\ objects'[o].type = objects[o].type
                 /\ objects'[o].live = objects[o].live
                 /\ objects'[o].refs = objects[o].refs + IF <<n, o>> \in target THEN 1 ELSE 0
      <3>1. objects'[o] = IF <<n, o>> \in target THEN [objects[o] EXCEPT !.refs = @ + 1]
                          ELSE objects[o]
        BY <1>8, <1>13
      <3>2. PICK x \in Instances : x = objects[o]
        BY <1>14
      <3>3. x.refs \in Int /\ x.refs + 1 \in Int
        BY DEF Instances
      <3>4. CASE <<n, o>> \in target
        <4>1. objects'[o] = [x EXCEPT !.refs = x.refs + 1]
          BY <3>1, <3>2, <3>4
        <4> QED
          BY <3>2, <3>3, <3>4, <4>1 DEF Instances
      <3>5. CASE <<n, o>> \notin target
        BY <3>1, <3>2, <3>3, <3>5
      <3> QED
        BY <3>4, <3>5
    <2> QED
      BY <2>1, <2>2, <2>3
  <1>16. objects' \in [DOMAIN objects' -> Instances]
    <2>1. objects' = [o \in DOMAIN objects' |-> objects'[o]]
      BY <1>8
    <2> QED
      BY <1>10, <1>15, <2>1
  <1>17. holds' \subseteq (DOMAIN objects' \union {Toplevels}) \X DOMAIN objects'
    <2>1. target \subseteq (DOMAIN objects' \union {Toplevels}) \X DOMAIN objects'
      BY <1>11, <1>12, <1>15 DEF target
    <2>2. rooted \subseteq (DOMAIN objects' \union {Toplevels}) \X DOMAIN objects'
      BY <1>15 DEF rooted
    <2> QED
      BY <1>2, <1>8, <1>15, <2>1, <2>2 DEF Typed
  <1>18. ASSUME NEW p \in DOMAIN objects'
         PROVE  objects'[p].refs = Cardinality(Holders(p)')
                                 + (Cardinality(UserdataFor(p)) + IF p = n THEN 1 ELSE 0)
    <2>1. CASE p = n
      <3>1. Holders(n)' = rooted
        BY <1>2, <1>7, <1>8, <1>11, <1>12 DEF Holders, Typed
      <3>2. Cardinality(rooted) = IF window THEN 1 ELSE 0
        BY <1>12, FS_Singleton, FS_EmptySet
      <3>3. Cardinality(UserdataFor(n)) = 0
        BY <1>7, NoUserdata
      <3> QED
        BY <1>10, <1>15, <2>1, <3>1, <3>2, <3>3
    <2>2. CASE p # n
      <3>1. p \in DOMAIN objects
        BY <1>15, <2>2
      <3>2. Holders(p)' = IF <<n, p>> \in target THEN Holders(p) \union {<<n, p>>} ELSE Holders(p)
        <4>1. \A g \in target : g[2] = p => g = <<n, p>>
          BY DEF target
        <4>2. \A g \in rooted : g[2] # p
          BY <1>12, <2>2
        <4> QED
          BY <1>8, <4>1, <4>2 DEF Holders
      <3>3. <<n, p>> \notin Holders(p)
        BY <1>2, <1>7 DEF Holders, Typed
      <3>4. Cardinality(Holders(p)') = Cardinality(Holders(p)) + IF <<n, p>> \in target THEN 1 ELSE 0
        <4>1. IsFiniteSet(Holders(p)) /\ Cardinality(Holders(p)) \in Nat
          BY <3>1, CountsAre
        <4>2. Cardinality(Holders(p) \union {<<n, p>>}) = Cardinality(Holders(p)) + 1
          BY <3>3, <4>1, FS_AddElement
        <4> QED
          BY <3>2, <4>1, <4>2
      <3> QED
        BY <1>15, <2>2, <3>1, <3>4, CountsAre
    <2> QED
      BY <2>1, <2>2
  <1>19. PartsHeld'
    <2>1. ASSUME NEW k \in 1..MaxObjects, NEW p \in DOMAIN PartType,
                 <<k, NULL>> \in DOMAIN objects', <<k, p>> \in DOMAIN objects', objects'[<<k, NULL>>].live
          PROVE  /\ <<<<k, NULL>>, <<k, p>>>> \in holds'
                 /\ Widget(<<k, p>>)' => \A g \in holds' : g[2] = <<k, p>> => g[1] = <<k, NULL>>
      <3>1. <<k, p>> # n
        BY <1>7, ClassesAssumption
      <3>2. <<k, p>> \in DOMAIN objects
        BY <1>15, <2>1, <3>1
      <3>3. <<k, NULL>> # n
        BY <1>6, <3>2
      <3>4. <<k, NULL>> \in DOMAIN objects /\ objects[<<k, NULL>>].live
        BY <1>15, <2>1, <3>3
      <3>5. /\ <<<<k, NULL>>, <<k, p>>>> \in holds
            /\ Widget(<<k, p>>) => \A g \in holds : g[2] = <<k, p>> => g[1] = <<k, NULL>>
        BY <1>2, <3>2, <3>4 DEF PartsHeld
      <3>6. Widget(<<k, p>>)' <=> Widget(<<k, p>>)
        BY <1>15, <3>2 DEF Widget
      <3>7. Widget(<<k, p>>) => \A g \in target \union rooted : g[2] # <<k, p>>
        BY <1>11, <1>12, <3>1
      <3> QED
        BY <1>8, <3>5, <3>6, <3>7
    <2> QED
      BY <2>1 DEF PartsHeld
  <1>20. n \in Ids \union Parts /\ (n \in Parts => type = PartType[n[2]])
    BY <1>6, <1>7, ClassesAssumption DEF Parts
  <1>21. /\ Fits(type, type) /\ objects'[n].type = type
         /\ \A p \in DOMAIN objects : objects'[p].type = objects[p].type
    BY <1>4, <1>10, <1>15 DEF type
  <1>22. /\ MakeObject(u, type, n, type) /\ UNCHANGED <<tables, opened>> /\ type \in Types
         /\ DOMAIN objects' = DOMAIN objects \union {n}
    BY <1>8, <1>9, <1>15
  <1>23. /\ holds' \subseteq (DOMAIN objects' \union {Toplevels}) \X DOMAIN objects'
         /\ objects' \in [DOMAIN objects' -> Instances] /\ PartsHeld'
    BY <1>16, <1>17, <1>19
  <1> QED
    BY <1>18, <1>20, <1>21, <1>22, <1>23, GainKeeps

----------------------------------------------------------------------------
(* The theorems.                                                           *)

LEMMA InitConsistent == Init => Consistent
  <1> SUFFICES ASSUME Init PROVE Consistent
    OBVIOUS
  <1>1. DOMAIN objects = {} /\ holds = {} /\ tables = {} /\ opened = 0
        /\ qdata = [t \in Types |-> NULL] /\ handles = [u \in Userdata |-> Unused]
    BY DEF Init
  <1>2. Alive = {}
    BY <1>1 DEF Alive, Unused, Handle
  <1>3. Noted
    BY <1>1 DEF Noted
  <1>4. Typed
    <2>1. objects \in [DOMAIN objects -> Instances]
      BY <1>1 DEF Init
    <2>2. handles \in [Userdata -> [object : Ids \union Parts \union {NULL},
                                    class : DOMAIN ClassData \union {NULL}]]
      BY <1>1 DEF Unused, Handle
    <2>3. opened \in 0 .. Len(Libraries) + 1 + Len(ClassOrder)
      BY <1>1 DEF Libraries, ClassOrder
    <2> QED
      BY <1>1, <2>1, <2>2, <2>3 DEF Typed
  <1> QED
    BY <1>1, <1>2, <1>3, <1>4 DEF Consistent, Pointed, Counted, PartsHeld, PartsTyped, Known

LEMMA StepConsistent ==
    ASSUME Consistent, [Next]_vars
    PROVE  Consistent'
  <1>1. CASE Open
    BY <1>1, OpenKeeps
  <1>2. CASE Make
    BY <1>2, MakeKeeps
  <1>3. CASE Get
    BY <1>3, GetKeeps
  <1>4. CASE Add
    BY <1>4, AddKeeps
  <1>5. CASE Receive
    BY <1>5, ReceiveKeeps
  <1>6. CASE Destroy
    BY <1>6, DestroyKeeps
  <1>7. CASE DestroySimple
    BY <1>7, DestroySimpleKeeps
  <1>8. CASE Collect
    BY <1>8, CollectKeeps
  <1>9. CASE UNCHANGED vars
    BY <1>9 DEF vars, Consistent, Noted, Typed, Pointed, Counted, PartsHeld, PartsTyped, Known,
                Alive, Widget, Holders, UserdataFor
  <1> QED
    BY <1>1, <1>2, <1>3, <1>4, <1>5, <1>6, <1>7, <1>8, <1>9 DEF Next

\* Whatever program runs, with however many objects and userdata: the
\* references, the classes given to userdata and noted for types, and the
\* parts of widgets stay as the wrappers of gui/ygtk.c need them.
THEOREM ClassesConsistent == Spec => []Consistent
  BY InitConsistent, StepConsistent, PTL DEF Spec

\* No wrapper of gui/ygtk.c takes a reference too many or too few: what
\* ygtk__gc() and the cairo finalizers give up is what the wrappers took.
THEOREM ReferencesMatch == Spec => []RefsMatch
  <1>1. Consistent => RefsMatch
    BY DEF Consistent, Pointed, Counted, Holders, UserdataFor, RefsMatch
  <1> QED
    BY <1>1, ClassesConsistent, PTL

\* No method that ygtk__index() can find for a userdata casts its object to a
\* type that it does not have.
THEOREM MethodsAlwaysFit == Spec => []MethodsFit
  <1>1. Consistent => MethodsFit
    BY DEF Consistent, Pointed, Fits, Casts, IsA, MethodsFit
  <1> QED
    BY <1>1, ClassesConsistent, PTL

\* The search of ygtk__index() leaves out no method of a class that a
\* userdata's own is derived from in GTK+.
THEOREM MethodsInherited == Spec => []Inherits
  <1>1. ASSUME Consistent PROVE Inherits
    <2>1. SUFFICES ASSUME NEW u \in Alive, NEW class \in (tables \intersect Ancestors[handles[u].class]),
                          NEW key \in Names(Methods[class])
                   PROVE  Stops(handles[u].class, key) # {}
      BY DEF Inherits
    <2>2. handles[u].class \in DOMAIN ClassData /\ handles[u].class \in Types
      BY <1>1 DEF Consistent, Pointed, Fits
    <2>3. class \in Chain[handles[u].class]
      BY <1>1, <2>2, AncestorsOnChain DEF Consistent, Typed
    <2> QED
      BY <2>3 DEF Stops
  <1> QED
    BY <1>1, ClassesConsistent, PTL

\* ygtk_make_object() notes the class of every type the program has had, so
\* that yg_gvalue_to_lua() makes a userdata of the same class for it.
THEOREM TypesRecognised == Spec => []Recognised
  <1>1. Consistent => Recognised
    BY DEF Consistent, Known, Recognised
  <1> QED
    BY <1>1, ClassesConsistent, PTL

\* A chain does not come back to a class.
LEMMA ChainEnds ==
    ASSUME NEW c \in DOMAIN ClassData, NEW d \in Chain[c], c \in Chain[d]
    PROVE  c = d
  <1> DEFINE S == {x \in DOMAIN ClassData : \A y \in Chain[x] : x \in Chain[y] => x = y}
  <1>1. ASSUME NEW x \in DOMAIN ClassData, ClassData[x].parent # NULL => ClassData[x].parent \in S
        PROVE  x \in S
    <2> SUFFICES ASSUME NEW y \in Chain[x], x \in Chain[y], x # y PROVE FALSE
      OBVIOUS
    <2>1. PICK p : p = ClassData[x].parent
      OBVIOUS
    <2>2. p # NULL /\ y \in Chain[p] /\ p \in S /\ p \in DOMAIN ClassData
      BY <1>1, <2>1, ChainIs
    <2>3. y \in DOMAIN ClassData /\ p \in Chain[x] /\ p \in Chain[p]
      BY <2>1, <2>2, ChainIs, ChainUp
    <2>4. x \in Chain[p]
      BY <2>2, ChainUp
    <2>5. x = p
      BY <2>2, <2>3, <2>4
    <2>6. ClassData[x].parent # x
      BY ClassesAre, ClassParents, ClassesAssumption
    <2> QED
      BY <2>1, <2>5, <2>6
  <1>2. DOMAIN ClassData \subseteq S
    <2> HIDE DEF S
    <2> QED
      BY <1>1, ClassInduction
  <1> QED
    BY <1>2

\* The search of ygtk__index() that stops at all stops at one table, whatever
\* the class of the userdata, the key and the tables there are.
THEOREM OneTableFound ==
    ASSUME NEW c \in DOMAIN ClassData, NEW key, Stops(c, key) # {}
    PROVE  \E d \in Chain[c] : Nearest(Stops(c, key)) = {d}
  <1> DEFINE S == {x \in DOMAIN ClassData :
                      \A T \in SUBSET Chain[x] : T # {} => \E d \in T : T \subseteq Chain[d]}
  <1>1. ASSUME NEW x \in DOMAIN ClassData, ClassData[x].parent # NULL => ClassData[x].parent \in S
        PROVE  x \in S
    BY <1>1, ChainIs, ChainUp
  <1>2. DOMAIN ClassData \subseteq S
    <2> HIDE DEF S
    <2> QED
      BY <1>1, ClassInduction
  <1>3. Stops(c, key) \subseteq Chain[c]
    BY DEF Stops
  <1>4. PICK d \in Stops(c, key) : Stops(c, key) \subseteq Chain[d]
    BY <1>2, <1>3
  <1>5. Stops(c, key) \subseteq DOMAIN ClassData
    BY <1>3, ChainUp
  <1>6. \A e \in Nearest(Stops(c, key)) : e = d
    BY <1>4, <1>5, ChainEnds DEF Nearest
  <1> QED
    BY <1>3, <1>4, <1>6 DEF Nearest
=============================================================================
