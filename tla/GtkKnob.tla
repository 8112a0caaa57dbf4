------------------------------ MODULE GtkKnob -------------------------------
(***************************************************************************)
(* gui/gtkknob.c: the GtkKnob widget.  A knob is the view and the          *)
(* controller of a GtkAdjustment that several knobs may share.  Pointer    *)
(* events, the 300 ms update timer, the program's own calls and the two    *)
(* signals of the adjustment are callbacks of one GLib main loop: each     *)
(* runs to its end before the next starts, so each is one action.  A       *)
(* handler that emits "value_changed" reads nothing after the emission, so *)
(* what the program's own callback does during it is an action that        *)
(* follows.                                                                *)
(***************************************************************************)
EXTENDS Adjustment

CONSTANTS Knobs,         \* the GtkKnob instances
          Adjustments,   \* the GtkAdjustment instances
          SourceIds,     \* IDs of GLib timeout sources
          Lower,         \* lower bound of every adjustment
          Uppers,        \* upper bounds the program may give an adjustment
          AppValues,     \* arguments of gtk_adjustment_set_value()
          None           \* a NULL pointer, source ID 0, no grab

ASSUME KnobAssumption ==
    /\ Lower \in Doubles
    /\ Uppers \subseteq Doubles
    /\ AppValues \subseteq Doubles
    /\ None \notin Knobs \union Adjustments \union SourceIds

Buttons  == 1 .. 3
Policies == {"CONTINUOUS", "DELAYED", "DISCONTINUOUS"}
States   == {"IDLE", "PRESSED", "DRAGGING"}

VARIABLES
    \* of each adjustment
    value,      \* adjustment->value
    upper,      \* adjustment->upper
    heard,      \* history: the value at its last "value_changed" (at its
                \* creation, if it has emitted none)
    forfeit,    \* history: since then the program or a rounding took away the
                \* change that was still to be announced
    \* of each knob
    life,       \* "UNBORN", "ALIVE" or "DESTROYED"
    adjustment, \* knob->adjustment
    policy,     \* knob->policy
    state,      \* knob->state
    oldValue,   \* knob->old_value
    timer,      \* knob->timer
    \* of GTK+ and GLib
    grab,       \* the knob that holds the GTK+ grab
    source      \* for each source ID the knob its callback gets, or None

adjVars  == <<value, upper, heard, forfeit>>
knobVars == <<life, adjustment, policy, state, oldValue, timer>>
vars     == <<adjVars, knobVars, grab, source>>

\* A change of the adjustment that no "value_changed" has announced yet.
Unannounced(a) == value[a] # heard[a]

Pending(k) == {id \in SourceIds : source[id] = k}

----------------------------------------------------------------------------
(* What the handlers are made of.                                          *)

\* A mistake to look for: no knob is connected to "value_changed".
OldValuesUnconnected(a, v) == oldValue

\* knob->old_value after gtk_knob_adjustment_value_changed() of each knob
\* connected to a; only an old_value that differs is assigned.
OldValuesAfter(a, v) ==
    [k \in Knobs |-> IF adjustment[k] = a /\ oldValue[k] # v
                       THEN ToFloat(v) ELSE oldValue[k]]

\* The value of a is v and "value_changed" is emitted.
SetAndEmit(a, v) ==
    /\ value' = [value EXCEPT ![a] = v]
    /\ heard' = [heard EXCEPT ![a] = v]
    /\ forfeit' = [forfeit EXCEPT ![a] = FALSE]
    /\ oldValue' = OldValuesAfter(a, v)

\* ... if it was not v before: nothing is emitted otherwise.
SetIfDifferent(a, v) ==
    IF value[a] # v THEN SetAndEmit(a, v)
                    ELSE UNCHANGED <<value, heard, forfeit, oldValue>>

\* The changes of the adjustments in S that were still to be announced may be
\* nobody's to announce from now on.
Forfeited(S) == [a \in Adjustments |-> forfeit[a] \/ (a \in S /\ Unannounced(a))]

\* The adjustment k is changing, if k is the knob being dragged.
DraggedBy(k) == IF grab = k THEN {adjustment[k]} ELSE {}

\* The pointer events that k receives: all of them while it holds the grab,
\* those over its own window while nobody does.
Receives(k) == life[k] = "ALIVE" /\ grab \in {None, k}

----------------------------------------------------------------------------
(* Life of a knob and its connection to an adjustment.                     *)

\* The part of gtk_knob_set_adjustment() that is the same for a new knob and
\* for one that has an adjustment: connect and call adjustment_changed.
Connect(k, a) ==
    /\ adjustment' = [adjustment EXCEPT ![k] = a]
    /\ oldValue' = [oldValue EXCEPT ![k] = ToFloat(value'[a])]

\* The argument of gtk_knob_set_adjustment() is an adjustment of the program,
\* or NULL: then a new one is made with every field zero.  A new one is an
\* adjustment no knob is connected to.  A knob that is connected to a given one
\* in the middle of another knob's drag takes the unannounced value it finds
\* for one that was announced.
Given(a) == UNCHANGED <<value, upper, heard>>
Fresh(a) ==
    /\ \A k \in Knobs : adjustment[k] # a
    /\ value' = [value EXCEPT ![a] = Lower]
    /\ upper' = [upper EXCEPT ![a] = Lower]
    /\ heard' = [heard EXCEPT ![a] = Lower]

New(k, a) ==
    /\ life[k] = "UNBORN"
    /\ life' = [life EXCEPT ![k] = "ALIVE"]
    /\ policy' = [policy EXCEPT ![k] = "CONTINUOUS"]
    /\ state' = [state EXCEPT ![k] = "IDLE"]
    /\ timer' = [timer EXCEPT ![k] = None]
    /\ \/ Given(a) /\ forfeit' = Forfeited({a})
       \/ Fresh(a) /\ forfeit' = [forfeit EXCEPT ![a] = FALSE]
    /\ Connect(k, a)
    /\ UNCHANGED <<grab, source>>

\* Also gtk_knob_get_adjustment() of a destroyed knob, which sets a new one.
\* It takes the value it finds as its old_value.
SetAdjustment(k, a) ==
    /\ life[k] # "UNBORN"
    /\ \/ Given(a) /\ forfeit' = Forfeited(DraggedBy(k) \union {a})
       \/ Fresh(a) /\ forfeit' = [Forfeited(DraggedBy(k)) EXCEPT ![a] = FALSE]
    /\ Connect(k, a)
    /\ UNCHANGED <<life, policy, state, timer, grab, source>>

SetUpdatePolicy(k, p) ==
    /\ life[k] # "UNBORN"
    /\ policy' = [policy EXCEPT ![k] = p]
    /\ forfeit' = IF p = "CONTINUOUS" THEN Forfeited(DraggedBy(k)) ELSE forfeit
    /\ UNCHANGED <<value, upper, heard, life, adjustment, state, oldValue, timer, grab, source>>

\* gtk_knob_destroy(), which drops the adjustment and the timer, and then the
\* parent class's, which drops the grab and the window.
Dismantle(k) ==
    /\ forfeit' = Forfeited(DraggedBy(k))
    /\ adjustment' = [adjustment EXCEPT ![k] = None]
    /\ source' = [id \in SourceIds |-> IF timer[k] = id THEN None ELSE source[id]]
    /\ timer' = [timer EXCEPT ![k] = None]
    /\ grab' = IF grab = k THEN None ELSE grab
    /\ UNCHANGED <<value, upper, heard>>

Destroy(k) ==
    /\ life[k] = "ALIVE"
    /\ life' = [life EXCEPT ![k] = "DESTROYED"]
    /\ Dismantle(k)
    /\ UNCHANGED <<policy, state, oldValue>>

\* The last reference goes: GtkObject's dispose runs the destroy handler
\* (again, if the knob is destroyed already) and the memory is freed: what Init
\* says of a knob that does not exist holds of it again.
Finalize(k) ==
    /\ life[k] # "UNBORN"
    /\ life' = [life EXCEPT ![k] = "UNBORN"]
    /\ Dismantle(k)
    /\ policy' = [policy EXCEPT ![k] = "CONTINUOUS"]
    /\ state' = [state EXCEPT ![k] = "IDLE"]
    /\ oldValue' = [oldValue EXCEPT ![k] = ToFloat(Lower)]

----------------------------------------------------------------------------
(* Pointer events and the timer.                                           *)

Press(k, button) ==
    /\ Receives(k)
    /\ state[k] = "IDLE"
    /\ button \in Buttons
    /\ grab' = k
    /\ state' = [state EXCEPT ![k] = "PRESSED"]
    /\ UNCHANGED <<adjVars, life, adjustment, policy, oldValue, timer, source>>

\* page_increment is any amount, zero included: f is value -/+ page_increment
\* as a gfloat.  The clamped value is narrowed to gfloat once more.
PageTarget(a, f) == ToFloat(Clamp(f, Lower, upper[a]))

Click(k, button) ==
    LET a == adjustment[k]
    IN  /\ state[k] = "PRESSED"
        /\ \/ /\ button = 1
              /\ \E f \in Floats : /\ f <= ToFloat(value[a])
                                   /\ SetIfDifferent(a, PageTarget(a, f))
           \/ /\ button = 3
              /\ \E f \in Floats : /\ f >= ToFloat(value[a])
                                   /\ SetIfDifferent(a, PageTarget(a, f))
           \/ /\ button \notin {1, 3}
              /\ UNCHANGED <<value, heard, forfeit, oldValue>>

\* A mistake to look for: the test of the policy is the wrong way round, and a
\* drag that was quiet ends without a word.
DropOnlyContinuous(k) ==
    LET a == adjustment[k]
    IN  /\ state[k] = "DRAGGING"
        /\ IF policy[k] = "CONTINUOUS" /\ oldValue[k] # value[a]
             THEN SetAndEmit(a, value[a])
             ELSE UNCHANGED <<value, heard, forfeit, oldValue>>

\* The end of a drag: a policy that kept it quiet announces it now.
Drop(k) ==
    LET a == adjustment[k]
    IN  /\ state[k] = "DRAGGING"
        /\ IF policy[k] # "CONTINUOUS" /\ oldValue[k] # value[a]
             THEN SetAndEmit(a, value[a])
             ELSE UNCHANGED <<value, heard, forfeit, oldValue>>

\* A mistake to look for: only a click gives the grab back.
ReleaseKeepingGrab(k, button) ==
    /\ Receives(k)
    /\ button \in Buttons
    /\ Click(k, button) \/ Drop(k)
    /\ grab' = IF state[k] = "PRESSED" THEN None ELSE grab
    /\ state' = [state EXCEPT ![k] = "IDLE"]
    /\ UNCHANGED <<upper, life, adjustment, policy, timer, source>>

\* The release of any button ends the gesture, whichever began it.
Release(k, button) ==
    /\ Receives(k)
    /\ button \in Buttons
    /\ Click(k, button) \/ Drop(k)
    /\ grab' = None
    /\ state' = [state EXCEPT ![k] = "IDLE"]
    /\ UNCHANGED <<upper, life, adjustment, policy, timer, source>>

\* GLib numbers sources upwards, so a new ID is one that nobody remembers.
NewSourceId(id) == source[id] = None /\ \A k \in Knobs : timer[k] # id

\* A mistake to look for: a movement starts another timer and leaves the first.
RestartWithoutRemoving(k) ==
    \E id \in SourceIds :
        /\ NewSourceId(id)
        /\ timer' = [timer EXCEPT ![k] = id]
        /\ source' = [source EXCEPT ![id] = k]

\* g_source_remove() of the knob's timer and g_timeout_add() of another.  A
\* source that has fired is gone, and g_source_remove() does not find it.
RestartTimer(k) ==
    \E id \in SourceIds :
        /\ NewSourceId(id)
        /\ timer' = [timer EXCEPT ![k] = id]
        /\ source' = [i \in SourceIds |->
                        IF i = id THEN k ELSE IF i = timer[k] THEN None ELSE source[i]]

\* gtk_knob_update_mouse(): f is the gfloat that the pointer's movement and
\* the mode (linear or radial) lead to, before it is clamped.
UpdateMouse(k, f) ==
    LET a     == adjustment[k]
        old   == ToFloat(value[a])
        new   == ToFloat(Clamp(f, Lower, upper[a]))
        quiet == new # heard[a] /\ new = ToFloat(heard[a])
    IN  IF policy[k] = "CONTINUOUS" /\ new # old
          THEN SetAndEmit(a, new) /\ UNCHANGED <<timer, source>>
          ELSE /\ value' = [value EXCEPT ![a] = new]
               /\ forfeit' = [forfeit EXCEPT ![a] = @ \/ quiet]
               /\ UNCHANGED <<heard, oldValue>>
               /\ IF policy[k] = "DELAYED" /\ new # old
                    THEN RestartTimer(k)
                    ELSE UNCHANGED <<timer, source>>

\* mods are the buttons down: those of the pointer now, which may have moved on
\* since the event, or, for an event that is no hint, an uninitialized local.
Motion(k, mods) ==
    /\ Receives(k)
    /\ state[k] # "IDLE"
    /\ state' = [state EXCEPT ![k] = "DRAGGING"]
    /\ IF mods # {} THEN \E f \in Floats : UpdateMouse(k, f)
                    ELSE UNCHANGED <<value, heard, forfeit, oldValue, timer, source>>
    /\ UNCHANGED <<upper, life, adjustment, policy, grab>>

\* The main loop dispatches the source, whose callback returns FALSE, so it is
\* removed.  knob->timer keeps its ID.
TimerCallback(id) ==
    LET k == source[id]
    IN  /\ k # None
        /\ source' = [source EXCEPT ![id] = None]
        /\ IF policy[k] = "DELAYED"
             THEN SetAndEmit(adjustment[k], value[adjustment[k]])
             ELSE UNCHANGED <<value, heard, forfeit, oldValue>>
        /\ UNCHANGED <<upper, life, adjustment, policy, state, timer, grab>>

----------------------------------------------------------------------------
(* The program's own use of an adjustment: GTK+, modelled from how the     *)
(* knob's handlers depend on it.                                           *)

\* gtk_adjustment_set_value() clamps and emits "value_changed" on a change.
AppSetValue(a, v) ==
    /\ SetIfDifferent(a, Clamp(v, Lower, upper[a]))
    /\ UNCHANGED <<upper, life, adjustment, policy, state, timer, grab, source>>

\* New bounds or increments, and "changed": each knob's
\* gtk_knob_adjustment_changed() takes the value as its old_value.
AppConfigure(a, u) ==
    /\ upper' = [upper EXCEPT ![a] = u]
    /\ forfeit' = Forfeited({a})
    /\ oldValue' = [k \in Knobs |-> IF adjustment[k] = a THEN ToFloat(value[a])
                                                         ELSE oldValue[k]]
    /\ UNCHANGED <<value, heard, life, adjustment, policy, state, timer, grab, source>>

----------------------------------------------------------------------------
Init ==
    /\ value = [a \in Adjustments |-> Lower]
    /\ upper \in [Adjustments -> Uppers]
    /\ heard = value
    /\ forfeit = [a \in Adjustments |-> FALSE]
    /\ life = [k \in Knobs |-> "UNBORN"]
    /\ adjustment = [k \in Knobs |-> None]
    /\ policy = [k \in Knobs |-> "CONTINUOUS"]
    /\ state = [k \in Knobs |-> "IDLE"]
    /\ oldValue = [k \in Knobs |-> ToFloat(Lower)]
    /\ timer = [k \in Knobs |-> None]
    /\ grab = None
    /\ source = [id \in SourceIds |-> None]

KnobStep(k) ==
    \/ \E a \in Adjustments : New(k, a) \/ SetAdjustment(k, a)
    \/ \E p \in Policies : SetUpdatePolicy(k, p)
    \/ Destroy(k)
    \/ Finalize(k)
    \/ \E b \in Buttons : Press(k, b) \/ Release(k, b)
    \/ \E mods \in SUBSET Buttons : Motion(k, mods)

AppStep(a) ==
    \/ \E v \in AppValues : AppSetValue(a, v)
    \/ \E u \in Uppers : AppConfigure(a, u)

Next ==
    \/ \E k \in Knobs : KnobStep(k)
    \/ \E a \in Adjustments : AppStep(a)
    \/ \E id \in SourceIds : TimerCallback(id)

Spec == Init /\ [][Next]_vars

\* The main loop dispatches every source that is due, and whoever holds a
\* knob lets go of it in the end.
Fairness ==
    /\ \A id \in SourceIds : WF_vars(TimerCallback(id))
    /\ \A k \in Knobs : WF_vars(\E b \in Buttons : Release(k, b))

FairSpec == Spec /\ Fairness

----------------------------------------------------------------------------
(* Correctness.                                                            *)

\* Type invariant.
TypeOK ==
    /\ value \in [Adjustments -> Doubles]
    /\ upper \in [Adjustments -> Uppers \union {Lower}]
    /\ heard \in [Adjustments -> Doubles]
    /\ forfeit \in [Adjustments -> BOOLEAN]
    /\ life \in [Knobs -> {"UNBORN", "ALIVE", "DESTROYED"}]
    /\ adjustment \in [Knobs -> Adjustments \union {None}]
    /\ policy \in [Knobs -> Policies]
    /\ state \in [Knobs -> States]
    /\ oldValue \in [Knobs -> Floats]
    /\ timer \in [Knobs -> SourceIds \union {None}]
    /\ grab \in Knobs \union {None}
    /\ source \in [SourceIds -> Knobs \union {None}]

\* The update timer's callback gets a bare pointer to its knob.  So whenever a
\* source exists its knob is alive, has the adjustment the callback will emit
\* on, and knows the source: destroying the knob can still cancel it, and a
\* knob never has two (gtk_knob_update_mouse, gtk_knob_destroy).
SourceHasOwner ==
    \A id \in SourceIds : source[id] # None =>
        LET k == source[id]
        IN  life[k] = "ALIVE" /\ timer[k] = id /\ adjustment[k] # None

\* A GTK+ grab takes every pointer event of the program, so a knob holds it
\* exactly while the user is pressing or dragging that knob: not after the
\* release, and not after the knob is destroyed in the middle of a drag.
GrabMatchesGesture ==
    \A k \in Knobs : grab = k <=> (life[k] = "ALIVE" /\ state[k] # "IDLE")

\* k will emit "value_changed" for the present value of a when it is released.
Owes(k, a) ==
    /\ grab = k
    /\ adjustment[k] = a
    /\ state[k] = "DRAGGING"
    /\ policy[k] # "CONTINUOUS"
    /\ oldValue[k] # value[a]

\* No change gets lost: while the listeners of an adjustment know another value
\* than the one it has, the knob being dragged is going to tell them, unless
\* the program interfered with the drag (a policy, bounds or adjustment set, the
\* knob destroyed) or the change is below gfloat precision.
NoLostAnnouncement ==
    \A a \in Adjustments :
        Unannounced(a) /\ ~forfeit[a] => \E k \in Knobs : Owes(k, a)

\* The knobs implement the promise: the knob being dragged is the debtor.
Promise == INSTANCE AnnouncedValue WITH
    claim <- [a \in Adjustments |->
                IF forfeit[a] THEN "FORFEITED"
                ELSE IF \E k \in Knobs : Owes(k, a) THEN "OWED" ELSE "SETTLED"]

\* Every step of the knobs announces a value, keeps owing it or forfeits it, and
\* a forfeited announcement stays so until the next "value_changed".
KeepsPromise == Promise!Spec

\* What the user did to a knob reaches the listeners in the end: it is announced
\* when the knob is let go, if not before, or forfeited.
EventuallyAnnounced == Promise!Kept

=============================================================================
