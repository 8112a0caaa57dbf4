----------------------------- MODULE GtkControl -----------------------------
(***************************************************************************)
(* gui/gtkcontrol.c: the GtkControl widget, which draws itself with the    *)
(* frames of a pixbuf and behaves as a knob, a slider, a momentary button, *)
(* a switch or a radio button.  Like GtkKnob it is the view and the        *)
(* controller of a GtkAdjustment that controls may share, and its          *)
(* callbacks run one after another in one GLib main loop.  It differs from *)
(* GtkKnob in what a release does, in the value a drag starts from, and in *)
(* the scroll wheel.                                                       *)
(***************************************************************************)
EXTENDS Adjustment

CONSTANTS Controls,      \* the GtkControl instances
          Types,         \* the GtkControlTypes in use
          Adjustments,   \* the GtkAdjustment instances
          SourceIds,     \* IDs of GLib timeout sources
          Lower,         \* lower bound of every adjustment
          Uppers,        \* upper bounds the program may give an adjustment
          Middle,        \* for each upper bound, half way there, as a gfloat
          AppValues,     \* arguments of gtk_adjustment_set_value()
          RadioValues,   \* radio_values, as gfloats
          Whole,         \* the gfloats that are whole numbers
          PreferRadial,  \* the gtk-control-rotary-prefer-radial setting
          None           \* a NULL pointer, source ID 0, no grab

Rotary  == {"ROTARY"}
Sliders == {"HORIZONTAL", "VERTICAL", "DRAWBAR"}
Toggles == {"BUTTON", "SWITCH", "RADIO"}

ASSUME ControlAssumption ==
    /\ Types # {} /\ Types \subseteq Rotary \union Sliders \union Toggles
    /\ Lower \in Doubles
    /\ Uppers \subseteq Doubles
    /\ Middle \in [Uppers \union {Lower} -> Floats]
    /\ AppValues \subseteq Doubles
    /\ RadioValues \subseteq Floats
    /\ Whole \subseteq Floats
    /\ PreferRadial \in BOOLEAN
    /\ None \notin Controls \union Adjustments \union SourceIds

DefaultType == CHOOSE t \in Types : TRUE
Buttons  == 1 .. 3
Policies == {"CONTINUOUS", "DELAYED", "DISCONTINUOUS"}
States   == {"IDLE", "PRESSED", "DRAGGING"}

VARIABLES
    \* of each adjustment
    value,      \* adjustment->value
    upper,      \* adjustment->upper
    heard,      \* history: the value at its last "value-changed" (at its
                \* creation, if it has emitted none)
    forfeit,    \* history: since then a change was made that nothing announces,
                \* or the announcement of one was called off
    \* of each control
    life,       \* "UNBORN", "ALIVE" or "DESTROYED"
    type,       \* control->type
    adjustment, \* control->adjustment
    policy,     \* control->policy
    state,      \* control->state
    savedValue, \* control->saved_value
    oldValue,   \* control->old_value
    timer,      \* control->timer
    \* of GTK+ and GLib
    grab,       \* the control that holds the GTK+ grab
    source      \* for each source ID the control its callback gets, or None

announced   == <<value, heard, forfeit, oldValue>>
adjVars     == <<value, upper, heard, forfeit>>
controlVars == <<life, type, adjustment, policy, state, savedValue, oldValue, timer>>
vars        == <<adjVars, controlVars, grab, source>>

\* A change of the adjustment that no "value-changed" has announced yet.
Unannounced(a) == value[a] # heard[a]

Pending(c) == {id \in SourceIds : source[id] = c}

\* c will emit "value-changed" on a when its timer fires.
Owes(c, a) == adjustment[c] = a /\ policy[c] = "DELAYED" /\ Pending(c) # {}

----------------------------------------------------------------------------
(* What the handlers are made of.                                          *)

\* control->old_value after gtk_control_adjustment_value_changed() of each
\* control connected to a.
OldValuesAfter(a, v) ==
    [c \in Controls |-> IF adjustment[c] = a /\ oldValue[c] # v
                          THEN ToFloat(v) ELSE oldValue[c]]

\* The value of a becomes v and "value-changed" is emitted.
SetAndEmit(a, v) ==
    /\ value' = [value EXCEPT ![a] = v]
    /\ heard' = [heard EXCEPT ![a] = v]
    /\ forfeit' = [forfeit EXCEPT ![a] = FALSE]
    /\ oldValue' = OldValuesAfter(a, v)

\* A mistake to look for: the value is assigned and nothing emitted.
SetWithoutEmitting(a, v) ==
    value' = [value EXCEPT ![a] = v] /\ UNCHANGED <<heard, forfeit, oldValue>>

\* The value of a becomes v; nothing is emitted if it was v before.
SetIfDifferent(a, v) ==
    IF value[a] # v THEN SetAndEmit(a, v) ELSE UNCHANGED announced

\* The timer of c is called off, or will not announce the change: what it was
\* about to announce is nobody's to announce from now on.
CalledOff(c) ==
    [a \in Adjustments |-> forfeit[a] \/ (Owes(c, a) /\ Unannounced(a))]

\* The pointer events that c receives: all of them while it holds the grab,
\* those over its own window while nobody does.
Receives(c) == life[c] = "ALIVE" /\ grab \in {None, c}

----------------------------------------------------------------------------
(* Life of a control and its connection to an adjustment.                  *)

\* The part of gtk_control_set_adjustment() that is the same for a new control
\* and for one that has an adjustment: connect and call adjustment_changed.
Connect(c, a) ==
    /\ adjustment' = [adjustment EXCEPT ![c] = a]
    /\ oldValue' = [oldValue EXCEPT ![c] = ToFloat(value'[a])]

\* The argument of gtk_control_set_adjustment() is an adjustment of the program,
\* or NULL: then a new one is made with every field zero.  A new one is an
\* adjustment no control is connected to.
Given(a) == UNCHANGED <<value, upper, heard>>
Fresh(a) ==
    /\ \A c \in Controls : adjustment[c] # a
    /\ value' = [value EXCEPT ![a] = Lower]
    /\ upper' = [upper EXCEPT ![a] = Lower]
    /\ heard' = [heard EXCEPT ![a] = Lower]

\* saved_value is not set before the first press; g_object_new() zeroed it.
New(c, a, t) ==
    /\ life[c] = "UNBORN"
    /\ life' = [life EXCEPT ![c] = "ALIVE"]
    /\ type' = [type EXCEPT ![c] = t]
    /\ policy' = [policy EXCEPT ![c] = "CONTINUOUS"]
    /\ state' = [state EXCEPT ![c] = "IDLE"]
    /\ savedValue' = [savedValue EXCEPT ![c] = ToFloat(Lower)]
    /\ timer' = [timer EXCEPT ![c] = None]
    /\ \/ Given(a) /\ UNCHANGED forfeit
       \/ Fresh(a) /\ forfeit' = [forfeit EXCEPT ![a] = FALSE]
    /\ Connect(c, a)
    /\ UNCHANGED <<grab, source>>

\* Also gtk_control_get_adjustment() of a destroyed control, which sets a new
\* one.  A running timer goes on, and will emit on the adjustment it finds.
SetAdjustment(c, a) ==
    /\ life[c] # "UNBORN"
    /\ \/ Given(a) /\ forfeit' = CalledOff(c)
       \/ Fresh(a) /\ forfeit' = [CalledOff(c) EXCEPT ![a] = FALSE]
    /\ Connect(c, a)
    /\ UNCHANGED <<life, type, policy, state, savedValue, timer, grab, source>>

SetUpdatePolicy(c, p) ==
    /\ life[c] # "UNBORN"
    /\ policy' = [policy EXCEPT ![c] = p]
    /\ forfeit' = IF p # "DELAYED" THEN CalledOff(c) ELSE forfeit
    /\ UNCHANGED <<value, upper, heard, life, type, adjustment, state, savedValue,
                   oldValue, timer, grab, source>>

\* A mistake to look for: the timer outlives the control.
DismantleButTimer(c) ==
    /\ forfeit' = CalledOff(c)
    /\ adjustment' = [adjustment EXCEPT ![c] = None]
    /\ grab' = IF grab = c THEN None ELSE grab
    /\ UNCHANGED <<value, upper, heard, timer, source>>

\* gtk_control_destroy(), which drops the adjustment and the timer, and then the
\* parent class's, which drops the grab and the window.
Dismantle(c) ==
    /\ forfeit' = CalledOff(c)
    /\ adjustment' = [adjustment EXCEPT ![c] = None]
    /\ source' = [id \in SourceIds |-> IF timer[c] = id THEN None ELSE source[id]]
    /\ timer' = [timer EXCEPT ![c] = None]
    /\ grab' = IF grab = c THEN None ELSE grab
    /\ UNCHANGED <<value, upper, heard>>

Destroy(c) ==
    /\ life[c] = "ALIVE"
    /\ life' = [life EXCEPT ![c] = "DESTROYED"]
    /\ Dismantle(c)
    /\ UNCHANGED <<type, policy, state, savedValue, oldValue>>

\* The last reference goes: GtkObject's dispose runs the destroy handler
\* (again, if the control is destroyed already) and the memory is freed: what
\* Init says of a control that does not exist holds of it again.
Finalize(c) ==
    /\ life[c] # "UNBORN"
    /\ life' = [life EXCEPT ![c] = "UNBORN"]
    /\ Dismantle(c)
    /\ policy' = [policy EXCEPT ![c] = "CONTINUOUS"]
    /\ state' = [state EXCEPT ![c] = "IDLE"]
    /\ savedValue' = [savedValue EXCEPT ![c] = ToFloat(Lower)]
    /\ oldValue' = [oldValue EXCEPT ![c] = ToFloat(Lower)]
    /\ type' = [type EXCEPT ![c] = DefaultType]

----------------------------------------------------------------------------
(* Buttons and wheel.                                                      *)

\* The value a switch goes to.
Toggled(a) == ToFloat(IF value[a] < Middle[upper[a]] THEN upper[a] ELSE Lower)

\* A press of any of three buttons takes the grab; a button, switch or radio
\* button acts at once, and a radio_value is not clamped to the bounds.
Press(c, button) ==
    LET a == adjustment[c]
    IN  /\ Receives(c)
        /\ state[c] = "IDLE"
        /\ button \in Buttons
        /\ grab' = c
        /\ state' = [state EXCEPT ![c] = "PRESSED"]
        /\ \/ type[c] = "BUTTON" /\ SetAndEmit(a, upper[a])
           \/ type[c] = "SWITCH" /\ SetIfDifferent(a, Toggled(a))
           \/ type[c] = "RADIO" /\ \E r \in RadioValues : SetIfDifferent(a, r)
           \/ type[c] \notin Toggles /\ UNCHANGED announced
        /\ savedValue' = IF type[c] \in Toggles THEN savedValue
                           ELSE [savedValue EXCEPT ![c] = ToFloat(value[a])]
        /\ UNCHANGED <<upper, life, type, adjustment, policy, timer, source>>

\* A mistake to look for: only a button gives the grab back.
ReleaseKeepingGrab(c, button) ==
    LET a == adjustment[c]
    IN  /\ Receives(c)
        /\ state[c] # "IDLE"
        /\ button \in Buttons
        /\ grab' = IF type[c] = "BUTTON" THEN None ELSE grab
        /\ state' = [state EXCEPT ![c] = "IDLE"]
        /\ IF type[c] = "BUTTON" THEN SetAndEmit(a, Lower) ELSE UNCHANGED announced
        /\ UNCHANGED <<upper, life, type, adjustment, policy, savedValue, timer, source>>

\* The handler sets the state to STATE_IDLE first and then asks for it, so its
\* cases for the click and for the end of a drag of a knob or slider never run.
Release(c, button) ==
    LET a == adjustment[c]
    IN  /\ Receives(c)
        /\ state[c] # "IDLE"
        /\ button \in Buttons
        /\ grab' = None
        /\ state' = [state EXCEPT ![c] = "IDLE"]
        /\ IF type[c] = "BUTTON" THEN SetAndEmit(a, Lower) ELSE UNCHANGED announced
        /\ UNCHANGED <<upper, life, type, adjustment, policy, savedValue, timer, source>>

\* page_increment is any amount, zero included: f is value +/- page_increment
\* as a gfloat.  Wheel up raises all but a drawbar.
Scroll(c, f) ==
    LET a == adjustment[c]
    IN  /\ Receives(c)
        /\ type[c] \notin {"BUTTON", "RADIO"}
        /\ IF type[c] = "SWITCH"
             THEN \E bound \in {Lower, upper[a]} : SetIfDifferent(a, ToFloat(bound))
             ELSE SetIfDifferent(a, ToFloat(Clamp(f, Lower, upper[a])))
        /\ UNCHANGED <<upper, life, type, adjustment, policy, state, savedValue, timer,
                       grab, source>>

----------------------------------------------------------------------------
(* Dragging and the timer.                                                 *)

\* GLib numbers sources upwards, so a new ID is one that nobody remembers.
NewSourceId(id) == source[id] = None /\ \A c \in Controls : timer[c] # id

\* g_source_remove() of the control's timer and g_timeout_add() of another.  A
\* source that has fired is gone, and g_source_remove() does not find it.
RestartTimer(c) ==
    \E id \in SourceIds :
        /\ NewSourceId(id)
        /\ timer' = [timer EXCEPT ![c] = id]
        /\ source' = [i \in SourceIds |->
                        IF i = id THEN c ELSE IF i = timer[c] THEN None ELSE source[i]]

\* Where a drag with the buttons mods leads, before it is clamped.
\* At the point of the press a slider is back at its saved value, and a knob in
\* linear mode divides zero by the zero length of the movement: NaN, which the
\* clamp turns into the upper bound.
Linear(c, mods) == type[c] \in Rotary /\ (1 \in mods) # PreferRadial
Radial(c, mods) == type[c] \in Rotary /\ (1 \in mods) = PreferRadial

\* A control that is integral rounds the target to a whole number.
Rounded(f) == {f} \union {w \in Whole : \A x \in Whole : Distance(w, f) <= Distance(x, f)}

DragTargets(c, mods, atPress) ==
    IF ~atPress \/ Radial(c, mods) THEN Floats
    ELSE IF Linear(c, mods) THEN {ToFloat(upper[adjustment[c]])}
    ELSE Rounded(savedValue[c])

\* A mistake to look for: the wrong one of two policies starts the timer.
UpdateMouseOtherPolicy(c, f) ==
    LET a   == adjustment[c]
        old == ToFloat(value[a])
        new == ToFloat(Clamp(f, Lower, upper[a]))
    IN  IF policy[c] = "CONTINUOUS" /\ new # old
          THEN SetAndEmit(a, new) /\ UNCHANGED <<timer, source>>
          ELSE /\ value' = [value EXCEPT ![a] = new]
               /\ forfeit' = [forfeit EXCEPT ![a] =
                     @ \/ (new # value[a] /\ (new = old \/ policy[c] = "DISCONTINUOUS"))]
               /\ UNCHANGED <<heard, oldValue>>
               /\ IF policy[c] = "DISCONTINUOUS" /\ new # old
                    THEN RestartTimer(c) ELSE UNCHANGED <<timer, source>>

\* gtk_control_update_mouse() for the target f.  A change that is lost in the
\* narrowing to gfloat, and any change of a discontinuous drag, is announced by
\* nothing.
UpdateMouse(c, f) ==
    LET a   == adjustment[c]
        old == ToFloat(value[a])
        new == ToFloat(Clamp(f, Lower, upper[a]))
    IN  IF policy[c] = "CONTINUOUS" /\ new # old
          THEN SetAndEmit(a, new) /\ UNCHANGED <<timer, source>>
          ELSE /\ value' = [value EXCEPT ![a] = new]
               /\ forfeit' = [forfeit EXCEPT ![a] =
                     @ \/ (new # value[a] /\ (new = old \/ policy[c] = "DISCONTINUOUS"))]
               /\ UNCHANGED <<heard, oldValue>>
               /\ IF policy[c] = "DELAYED" /\ new # old
                    THEN RestartTimer(c) ELSE UNCHANGED <<timer, source>>

\* mods are the buttons down: those of the pointer now, which may have moved on
\* since the event, or, for an event that is no hint, an uninitialized local.
\* Buttons, switches and radio buttons are not dragged.
Motion(c, mods, atPress) ==
    /\ Receives(c)
    /\ type[c] \notin Toggles
    /\ state[c] # "IDLE"
    /\ state' = [state EXCEPT ![c] = "DRAGGING"]
    /\ IF mods = {} THEN UNCHANGED <<announced, timer, source>>
         ELSE \E f \in DragTargets(c, mods, atPress) : UpdateMouse(c, f)
    /\ UNCHANGED <<upper, life, type, adjustment, policy, savedValue, grab>>

\* A mistake to look for: the callback does not announce.
TimerCallbackMute(id) ==
    /\ source[id] # None
    /\ source' = [source EXCEPT ![id] = None]
    /\ UNCHANGED <<announced, upper, life, type, adjustment, policy, state, savedValue,
                   timer, grab>>

\* The main loop dispatches the source, whose callback returns FALSE, so it is
\* removed.  control->timer keeps its ID.
TimerCallback(id) ==
    LET c == source[id]
    IN  /\ c # None
        /\ source' = [source EXCEPT ![id] = None]
        /\ IF policy[c] = "DELAYED"
             THEN SetAndEmit(adjustment[c], value[adjustment[c]])
             ELSE UNCHANGED announced
        /\ UNCHANGED <<upper, life, type, adjustment, policy, state, savedValue, timer, grab>>

----------------------------------------------------------------------------
(* The program's own use of an adjustment: GTK+, modelled from how the     *)
(* control's handlers depend on it.                                        *)

\* gtk_adjustment_set_value() clamps and emits "value-changed" on a change.
AppSetValue(a, v) ==
    /\ SetIfDifferent(a, Clamp(v, Lower, upper[a]))
    /\ UNCHANGED <<upper, life, type, adjustment, policy, state, savedValue, timer, grab, source>>

\* New bounds or increments, and "changed": each control's
\* gtk_control_adjustment_changed() takes the value as its old_value.
AppConfigure(a, u) ==
    /\ upper' = [upper EXCEPT ![a] = u]
    /\ oldValue' = [c \in Controls |-> IF adjustment[c] = a THEN ToFloat(value[a])
                                                            ELSE oldValue[c]]
    /\ UNCHANGED <<value, heard, forfeit, life, type, adjustment, policy, state, savedValue,
                   timer, grab, source>>

----------------------------------------------------------------------------
Init ==
    /\ value = [a \in Adjustments |-> Lower]
    /\ upper \in [Adjustments -> Uppers]
    /\ heard = value
    /\ forfeit = [a \in Adjustments |-> FALSE]
    /\ life = [c \in Controls |-> "UNBORN"]
    /\ type = [c \in Controls |-> DefaultType]
    /\ adjustment = [c \in Controls |-> None]
    /\ policy = [c \in Controls |-> "CONTINUOUS"]
    /\ state = [c \in Controls |-> "IDLE"]
    /\ savedValue = [c \in Controls |-> ToFloat(Lower)]
    /\ oldValue = [c \in Controls |-> ToFloat(Lower)]
    /\ timer = [c \in Controls |-> None]
    /\ grab = None
    /\ source = [id \in SourceIds |-> None]

ControlStep(c) ==
    \/ \E a \in Adjustments, t \in Types : New(c, a, t)
    \/ \E a \in Adjustments : SetAdjustment(c, a)
    \/ \E p \in Policies : SetUpdatePolicy(c, p)
    \/ Destroy(c)
    \/ Finalize(c)
    \/ \E b \in Buttons : Press(c, b) \/ Release(c, b)
    \/ \E f \in Floats : Scroll(c, f)
    \/ \E mods \in SUBSET Buttons, atPress \in BOOLEAN : Motion(c, mods, atPress)

AppStep(a) ==
    \/ \E v \in AppValues : AppSetValue(a, v)
    \/ \E u \in Uppers : AppConfigure(a, u)

Next ==
    \/ \E c \in Controls : ControlStep(c)
    \/ \E a \in Adjustments : AppStep(a)
    \/ \E id \in SourceIds : TimerCallback(id)

Spec == Init /\ [][Next]_vars

\* The main loop dispatches every source that is due.
Fairness == \A id \in SourceIds : WF_vars(TimerCallback(id))

FairSpec == Spec /\ Fairness

----------------------------------------------------------------------------
(* Correctness.                                                            *)

\* Type invariant.
TypeOK ==
    /\ value \in [Adjustments -> Doubles]
    /\ upper \in [Adjustments -> Uppers \union {Lower}]
    /\ heard \in [Adjustments -> Doubles]
    /\ forfeit \in [Adjustments -> BOOLEAN]
    /\ life \in [Controls -> {"UNBORN", "ALIVE", "DESTROYED"}]
    /\ type \in [Controls -> Types]
    /\ adjustment \in [Controls -> Adjustments \union {None}]
    /\ policy \in [Controls -> Policies]
    /\ state \in [Controls -> States]
    /\ savedValue \in [Controls -> Floats]
    /\ oldValue \in [Controls -> Floats]
    /\ timer \in [Controls -> SourceIds \union {None}]
    /\ grab \in Controls \union {None}
    /\ source \in [SourceIds -> Controls \union {None}]

\* The update timer's callback gets a bare pointer to its control.  So whenever a
\* source exists its control is alive, has the adjustment the callback will emit
\* on, and knows the source: destroying the control can still cancel it, and a
\* control never has two (gtk_control_update_mouse, gtk_control_destroy).
SourceHasOwner ==
    \A id \in SourceIds : source[id] # None =>
        LET c == source[id]
        IN  life[c] = "ALIVE" /\ timer[c] = id /\ adjustment[c] # None

\* A GTK+ grab takes every pointer event of the program, so a control holds it
\* exactly while the user is pressing or dragging that control; only knobs and
\* sliders are ever dragged.
GrabMatchesGesture ==
    \A c \in Controls :
        /\ grab = c <=> (life[c] = "ALIVE" /\ state[c] # "IDLE")
        /\ type[c] \in Toggles => state[c] # "DRAGGING"

\* Whatever a control was doing when it was released, given another adjustment
\* or destroyed, neither a timer nor the grab outlives it.
NothingLeftBehind == SourceHasOwner /\ GrabMatchesGesture

\* No change gets lost but by what sets forfeit: while the listeners of an
\* adjustment know another value than the one it has, a timer is running that
\* will tell them.
NoLostAnnouncement ==
    \A a \in Adjustments :
        Unannounced(a) /\ ~forfeit[a] => \E c \in Controls : Owes(c, a)

Promise == INSTANCE AnnouncedValue WITH
    claim <- [a \in Adjustments |->
                IF forfeit[a] THEN "FORFEITED"
                ELSE IF \E c \in Controls : Owes(c, a) THEN "OWED" ELSE "SETTLED"]

\* Every step of the controls announces a value, keeps owing it or forfeits it, and
\* a forfeited announcement stays so until the next "value-changed".
KeepsPromise == Promise!Spec

\* The listeners hear a delayed change once the user moves no control any more:
\* nothing but the timer tells them, and each movement starts the 300 ms again.
DelayedAnnounced ==
    <>[][~ \E c \in Controls, mods \in SUBSET Buttons, atPress \in BOOLEAN :
              Motion(c, mods, atPress)]_vars
        => Promise!Kept

----------------------------------------------------------------------------
(* What the header and the comments say, and the code does not do.         *)

\* gtkcontrol.h on the policies, and the cases of the release handler that never
\* run: the end of a drag announces what the drag did quietly.
ReleaseAnnounces ==
    \A c \in Controls :
        life[c] = "ALIVE" /\ Unannounced(adjustment[c]) => grab # None \/ Pending(c) # {}

=============================================================================
