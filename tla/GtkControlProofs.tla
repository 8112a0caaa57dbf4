--------------------------- MODULE GtkControlProofs ---------------------------
(***************************************************************************)
(* Proofs about GtkControl, for any controls, adjustments, sources and     *)
(* numbers: types, timers and the grab, no announcement lost, and that it  *)
(* implements AnnouncedValue.                                              *)
(***************************************************************************)
EXTENDS GtkControl, TLAPS

----------------------------------------------------------------------------
(* Narrowing to gfloat, and clamping.                                      *)

\* A conversion to gfloat gives a gfloat.
LEMMA ToFloatType ==
    ASSUME NEW v \in Doubles
    PROVE  ToFloat(v) \in Floats
  <1>1. \E f \in Floats : IsNearest(f, v)
    BY FloatAssumption
  <1>2. QED
    BY <1>1 DEF ToFloat

\* A clamped value is the value or one of the bounds.
LEMMA ClampType ==
    ASSUME NEW v \in Doubles, NEW low \in Doubles, NEW high \in Doubles
    PROVE  Clamp(v, low, high) \in Doubles
  BY DEF Clamp

----------------------------------------------------------------------------
(* Types of what the handlers are made of.                                 *)

AnnouncedOK ==
    /\ value \in [Adjustments -> Doubles]
    /\ heard \in [Adjustments -> Doubles]
    /\ forfeit \in [Adjustments -> BOOLEAN]
    /\ oldValue \in [Controls -> Floats]

\* Setting a value and emitting keeps the types of what that changes.
LEMMA SetAndEmitType ==
    ASSUME TypeOK, NEW a \in Adjustments, NEW v \in Doubles, SetAndEmit(a, v)
    PROVE  AnnouncedOK'
  <1>1. ToFloat(v) \in Floats
    BY ToFloatType
  <1>2. QED
    BY <1>1 DEF TypeOK, SetAndEmit, OldValuesAfter, AnnouncedOK

LEMMA UnchangedType ==
    ASSUME TypeOK, UNCHANGED announced
    PROVE  AnnouncedOK'
  BY DEF TypeOK, announced, AnnouncedOK

\* So does emitting only on a change.
LEMMA SetIfDifferentType ==
    ASSUME TypeOK, NEW a \in Adjustments, NEW v \in Doubles, SetIfDifferent(a, v)
    PROVE  AnnouncedOK'
  BY SetAndEmitType, UnchangedType DEF SetIfDifferent

\* The bounds are numbers, and all a control sets a value to is a number.
LEMMA BoundsType ==
    ASSUME TypeOK, NEW a \in Adjustments
    PROVE  /\ Lower \in Doubles /\ ToFloat(Lower) \in Doubles
           /\ upper[a] \in Doubles /\ ToFloat(upper[a]) \in Doubles
           /\ ToFloat(upper[a]) \in Floats
           /\ Toggled(a) \in Doubles
  <1>1. Lower \in Doubles /\ upper[a] \in Doubles
    BY ControlAssumption DEF TypeOK
  <1>2. ToFloat(Lower) \in Floats /\ ToFloat(upper[a]) \in Floats
    BY <1>1, ToFloatType
  <1>3. QED
    BY <1>1, <1>2, FloatAssumption DEF Toggled

\* Where a gesture leads is a gfloat.
LEMMA TargetType ==
    ASSUME TypeOK, NEW a \in Adjustments, NEW f \in Floats
    PROVE  ToFloat(Clamp(f, Lower, upper[a])) \in Doubles
  <1>1. f \in Doubles
    BY FloatAssumption
  <1>2. Clamp(f, Lower, upper[a]) \in Doubles
    BY <1>1, BoundsType, ClampType
  <1>3. QED
    BY <1>2, ToFloatType, FloatAssumption

LEMMA DragTargetsType ==
    ASSUME TypeOK, NEW c \in Controls, adjustment[c] \in Adjustments, NEW mods, NEW atPress
    PROVE  DragTargets(c, mods, atPress) \subseteq Floats
  <1>1. Rounded(savedValue[c]) \subseteq Floats
    BY ControlAssumption DEF Rounded, TypeOK
  <1>2. QED
    BY <1>1, BoundsType DEF DragTargets

\* A control connects to an adjustment that has a value.
LEMMA ConnectType ==
    ASSUME TypeOK, NEW c \in Controls, NEW a \in Adjustments,
           Given(a) \/ Fresh(a), Connect(c, a)
    PROVE  /\ value' \in [Adjustments -> Doubles]
           /\ heard' \in [Adjustments -> Doubles]
           /\ upper' \in [Adjustments -> Uppers \union {Lower}]
           /\ adjustment' \in [Controls -> Adjustments \union {None}]
           /\ oldValue' \in [Controls -> Floats]
  <1>1. /\ value' \in [Adjustments -> Doubles]
        /\ heard' \in [Adjustments -> Doubles]
        /\ upper' \in [Adjustments -> Uppers \union {Lower}]
    BY ControlAssumption DEF TypeOK, Given, Fresh
  <1>2. ToFloat(value'[a]) \in Floats
    BY <1>1, ToFloatType
  <1>3. QED
    BY <1>1, <1>2 DEF TypeOK, Connect

\* Calling off a timer forfeits what it would have announced, and no more.
LEMMA CalledOffFacts ==
    ASSUME TypeOK, NEW c \in Controls
    PROVE  /\ CalledOff(c) \in [Adjustments -> BOOLEAN]
           /\ \A a \in Adjustments : CalledOff(c)[a] = (forfeit[a] \/ (Owes(c, a) /\ Unannounced(a)))
  BY DEF TypeOK, CalledOff

----------------------------------------------------------------------------
(* The inductive invariant: the types; every source's control, and every   *)
(* control that is alive, has an adjustment; no two controls remember the  *)
(* same timer; and the grab follows the gesture.                           *)

AliveIsConnected == \A c \in Controls : life[c] = "ALIVE" => adjustment[c] # None

TimersDistinct ==
    \A c, d \in Controls : timer[c] = timer[d] /\ timer[c] # None => c = d

Safe == TypeOK /\ AliveIsConnected /\ SourceHasOwner /\ TimersDistinct /\ GrabMatchesGesture

LEMMA NoneIsNothing == None \notin Controls /\ None \notin Adjustments /\ None \notin SourceIds
  BY ControlAssumption

LEMMA DefaultTypeType == DefaultType \in Types
  BY ControlAssumption DEF DefaultType

\* The program starts in a safe state.
LEMMA InitSafe == Init => Safe
  <1> SUFFICES ASSUME Init PROVE Safe
    OBVIOUS
  <1>1. ToFloat(Lower) \in Floats /\ Lower \in Doubles
    BY ControlAssumption, ToFloatType
  <1>2. TypeOK
    BY <1>1, DefaultTypeType DEF Init, TypeOK, Policies, States
  <1>3. AliveIsConnected /\ SourceHasOwner /\ TimersDistinct
    BY DEF Init, AliveIsConnected, SourceHasOwner, TimersDistinct
  <1>4. GrabMatchesGesture
    BY NoneIsNothing DEF Init, GrabMatchesGesture
  <1>5. QED
    BY <1>2, <1>3, <1>4 DEF Safe

\* A pointer event reaches a control that has an adjustment; one that is not idle
\* holds the grab.
LEMMA ReceiverFacts ==
    ASSUME Safe, NEW c \in Controls, Receives(c)
    PROVE  /\ life[c] = "ALIVE"
           /\ adjustment[c] \in Adjustments
           /\ state[c] # "IDLE" => grab = c
           /\ state[c] = "IDLE" => grab = None
  <1>1. life[c] = "ALIVE" /\ (grab = None \/ grab = c)
    BY DEF Receives
  <1>2. adjustment[c] # None /\ adjustment[c] \in Adjustments \union {None}
    BY <1>1 DEF Safe, AliveIsConnected, TypeOK
  <1>3. grab = c <=> state[c] # "IDLE"
    BY <1>1 DEF Safe, GrabMatchesGesture
  <1>4. QED
    BY <1>1, <1>2, <1>3

\* A step of the values only.
LEMMA ValuesSafe ==
    ASSUME Safe, AnnouncedOK',
           UNCHANGED <<upper, life, type, adjustment, policy, state, savedValue, timer, grab, source>>
    PROVE  Safe'
  BY DEF Safe, AnnouncedOK, TypeOK, AliveIsConnected, SourceHasOwner, TimersDistinct,
         GrabMatchesGesture

----------------------------------------------------------------------------
(* Every action keeps the program safe.                                    *)

LEMMA NewSafe ==
    ASSUME Safe, NEW c \in Controls, NEW a \in Adjustments, NEW t \in Types, New(c, a, t)
    PROVE  Safe'
  <1> USE DEF Safe
  <1>1. forfeit' \in [Adjustments -> BOOLEAN]
    BY DEF New, TypeOK
  <1>2. (Given(a) \/ Fresh(a)) /\ Connect(c, a)
    BY DEF New
  <1>3. ToFloat(Lower) \in Floats
    BY ControlAssumption, ToFloatType
  <1>4. TypeOK'
    BY <1>1, <1>2, <1>3, ConnectType DEF New, TypeOK, Policies, States
  <1>5. AliveIsConnected'
    BY <1>2, NoneIsNothing DEF New, Connect, AliveIsConnected, TypeOK
  <1>6. SourceHasOwner'
    BY <1>2, NoneIsNothing DEF New, Connect, SourceHasOwner, TypeOK
  <1>7. TimersDistinct'
    BY DEF New, TimersDistinct, TypeOK
  <1>8. GrabMatchesGesture'
    BY DEF New, GrabMatchesGesture, TypeOK
  <1>9. QED
    BY <1>4, <1>5, <1>6, <1>7, <1>8

LEMMA SetAdjustmentSafe ==
    ASSUME Safe, NEW c \in Controls, NEW a \in Adjustments, SetAdjustment(c, a)
    PROVE  Safe'
  <1> USE DEF Safe
  <1>1. forfeit' \in [Adjustments -> BOOLEAN]
    BY CalledOffFacts DEF SetAdjustment
  <1>2. (Given(a) \/ Fresh(a)) /\ Connect(c, a)
    BY DEF SetAdjustment
  <1>3. TypeOK'
    BY <1>1, <1>2, ConnectType DEF SetAdjustment, TypeOK
  <1>4. AliveIsConnected'
    BY <1>2, NoneIsNothing DEF SetAdjustment, Connect, AliveIsConnected, TypeOK
  <1>5. SourceHasOwner'
    BY <1>2, NoneIsNothing DEF SetAdjustment, Connect, SourceHasOwner, TypeOK
  <1>6. TimersDistinct' /\ GrabMatchesGesture'
    BY DEF SetAdjustment, TimersDistinct, GrabMatchesGesture
  <1>7. QED
    BY <1>3, <1>4, <1>5, <1>6

LEMMA SetUpdatePolicySafe ==
    ASSUME Safe, NEW c \in Controls, NEW p \in Policies, SetUpdatePolicy(c, p)
    PROVE  Safe'
  <1> USE DEF Safe
  <1>1. forfeit' \in [Adjustments -> BOOLEAN]
    BY CalledOffFacts DEF SetUpdatePolicy, TypeOK
  <1>2. TypeOK'
    BY <1>1 DEF SetUpdatePolicy, TypeOK
  <1>3. AliveIsConnected' /\ SourceHasOwner' /\ TimersDistinct' /\ GrabMatchesGesture'
    BY DEF SetUpdatePolicy, AliveIsConnected, SourceHasOwner, TimersDistinct, GrabMatchesGesture
  <1>4. QED
    BY <1>2, <1>3

\* A control that leaves takes its timer and its grab along, and no other's.
LEMMA DismantleSafe ==
    ASSUME Safe, NEW c \in Controls, Dismantle(c), life'[c] # "ALIVE",
           type'[c] \in Toggles => state'[c] # "DRAGGING",
           \A d \in Controls \ {c} : /\ life'[d] = life[d] /\ state'[d] = state[d]
                                     /\ type'[d] = type[d]
    PROVE  AliveIsConnected' /\ SourceHasOwner' /\ TimersDistinct' /\ GrabMatchesGesture'
  <1> USE DEF Safe
  <1>1. AliveIsConnected'
    BY DEF Dismantle, AliveIsConnected, TypeOK
  <1>2. SourceHasOwner'
    <2> SUFFICES ASSUME NEW id \in SourceIds, source'[id] # None
                 PROVE  /\ life'[source'[id]] = "ALIVE"
                        /\ timer'[source'[id]] = id
                        /\ adjustment'[source'[id]] # None
      BY DEF SourceHasOwner
    <2>1. source'[id] = source[id] /\ timer[c] # id
      BY DEF Dismantle
    <2>2. source[id] \in Controls /\ source[id] # c
      BY <2>1 DEF SourceHasOwner, TypeOK
    <2>3. QED
      BY <2>1, <2>2 DEF Dismantle, SourceHasOwner, TypeOK
  <1>3. TimersDistinct'
    BY DEF Dismantle, TimersDistinct, TypeOK
  <1>4. GrabMatchesGesture'
    BY NoneIsNothing DEF Dismantle, GrabMatchesGesture, TypeOK
  <1>5. QED
    BY <1>1, <1>2, <1>3, <1>4

LEMMA DismantleType ==
    ASSUME TypeOK, NEW c \in Controls, Dismantle(c)
    PROVE  /\ value' = value /\ upper' = upper /\ heard' = heard
           /\ forfeit' \in [Adjustments -> BOOLEAN]
           /\ adjustment' \in [Controls -> Adjustments \union {None}]
           /\ timer' \in [Controls -> SourceIds \union {None}]
           /\ grab' \in Controls \union {None}
           /\ source' \in [SourceIds -> Controls \union {None}]
  <1>1. forfeit' \in [Adjustments -> BOOLEAN]
    BY CalledOffFacts DEF Dismantle
  <1>2. QED
    BY <1>1 DEF TypeOK, Dismantle

LEMMA DestroySafe ==
    ASSUME Safe, NEW c \in Controls, Destroy(c)
    PROVE  Safe'
  <1>1. TypeOK'
    BY DismantleType DEF Safe, Destroy, TypeOK
  <1>2. /\ Dismantle(c) /\ life'[c] # "ALIVE" /\ UNCHANGED <<state, type>>
        /\ \A d \in Controls \ {c} : life'[d] = life[d]
    BY DEF Safe, Destroy, TypeOK
  <1>3. type[c] \in Toggles => state[c] # "DRAGGING"
    BY DEF Safe, GrabMatchesGesture
  <1>4. QED
    BY <1>1, <1>2, <1>3, DismantleSafe DEF Safe

LEMMA FinalizeSafe ==
    ASSUME Safe, NEW c \in Controls, Finalize(c)
    PROVE  Safe'
  <1>1. ToFloat(Lower) \in Floats
    BY ControlAssumption, ToFloatType
  <1>2. TypeOK'
    BY <1>1, DefaultTypeType, DismantleType DEF Safe, Finalize, TypeOK, Policies, States
  <1>3. /\ Dismantle(c) /\ life'[c] # "ALIVE" /\ state'[c] # "DRAGGING"
        /\ \A d \in Controls \ {c} : /\ life'[d] = life[d] /\ state'[d] = state[d]
                                     /\ type'[d] = type[d]
    BY DEF Safe, Finalize, TypeOK
  <1>4. QED
    BY <1>2, <1>3, DismantleSafe DEF Safe

LEMMA PressSafe ==
    ASSUME Safe, NEW c \in Controls, NEW b \in Buttons, Press(c, b)
    PROVE  Safe'
  <1> DEFINE a == adjustment[c]
  <1>1. life[c] = "ALIVE" /\ grab = None /\ a \in Adjustments
    BY ReceiverFacts DEF Press
  <1>2. AnnouncedOK'
    <2>1. RadioValues \subseteq Doubles
      BY ControlAssumption, FloatAssumption
    <2>2. QED
      BY <1>1, <2>1, BoundsType, SetAndEmitType, SetIfDifferentType, UnchangedType
         DEF Press, Safe
  <1>3. savedValue' \in [Controls -> Floats]
    <2>1. ToFloat(value[a]) \in Floats
      BY <1>1, ToFloatType DEF Safe, TypeOK
    <2>2. QED
      BY <2>1 DEF Press, Safe, TypeOK
  <1>4. TypeOK'
    BY <1>2, <1>3 DEF Safe, Press, TypeOK, States, AnnouncedOK
  <1>5. AliveIsConnected' /\ SourceHasOwner' /\ TimersDistinct'
    BY DEF Safe, Press, AliveIsConnected, SourceHasOwner, TimersDistinct
  <1>6. GrabMatchesGesture'
    BY <1>1, NoneIsNothing DEF Safe, Press, GrabMatchesGesture, TypeOK
  <1>7. QED
    BY <1>4, <1>5, <1>6 DEF Safe

LEMMA ReleaseSafe ==
    ASSUME Safe, NEW c \in Controls, NEW b \in Buttons, Release(c, b)
    PROVE  Safe'
  <1>1. adjustment[c] \in Adjustments /\ grab = c
    BY ReceiverFacts DEF Release
  <1>2. AnnouncedOK'
    BY <1>1, BoundsType, SetAndEmitType, UnchangedType DEF Release, Safe
  <1>3. TypeOK'
    BY <1>2 DEF Safe, Release, TypeOK, States, AnnouncedOK
  <1>4. AliveIsConnected' /\ SourceHasOwner' /\ TimersDistinct'
    BY DEF Safe, Release, AliveIsConnected, SourceHasOwner, TimersDistinct
  <1>5. GrabMatchesGesture'
    BY <1>1, NoneIsNothing DEF Safe, Release, GrabMatchesGesture, TypeOK
  <1>6. QED
    BY <1>3, <1>4, <1>5 DEF Safe

LEMMA ScrollSafe ==
    ASSUME Safe, NEW c \in Controls, NEW f \in Floats, Scroll(c, f)
    PROVE  Safe'
  <1>1. adjustment[c] \in Adjustments
    BY ReceiverFacts DEF Scroll
  <1>2. AnnouncedOK'
    <2>1. ASSUME NEW bound \in {Lower, upper[adjustment[c]]},
                 SetIfDifferent(adjustment[c], ToFloat(bound))
          PROVE  AnnouncedOK'
      BY <1>1, <2>1, BoundsType, SetIfDifferentType DEF Safe
    <2>2. QED
      BY <1>1, <2>1, TargetType, SetIfDifferentType DEF Scroll, Safe
  <1>3. QED
    BY <1>2, ValuesSafe DEF Scroll

\* A timer that is restarted replaces the control's only source.
LEMMA RestartTimerSafe ==
    ASSUME Safe, NEW c \in Controls, life[c] = "ALIVE", adjustment[c] # None,
           RestartTimer(c), UNCHANGED <<life, adjustment>>
    PROVE  /\ timer' \in [Controls -> SourceIds \union {None}]
           /\ source' \in [SourceIds -> Controls \union {None}]
           /\ SourceHasOwner' /\ TimersDistinct'
  <1> USE DEF Safe
  <1>1. PICK id \in SourceIds :
          /\ NewSourceId(id)
          /\ timer' = [timer EXCEPT ![c] = id]
          /\ source' = [i \in SourceIds |->
                          IF i = id THEN c ELSE IF i = timer[c] THEN None ELSE source[i]]
    BY DEF RestartTimer
  <1>2. /\ timer' \in [Controls -> SourceIds \union {None}]
        /\ source' \in [SourceIds -> Controls \union {None}]
    BY <1>1 DEF TypeOK
  <1>3. TimersDistinct'
    BY <1>1 DEF TimersDistinct, NewSourceId, TypeOK
  <1>4. SourceHasOwner'
    <2> SUFFICES ASSUME NEW i \in SourceIds, source'[i] # None
                 PROVE  /\ life'[source'[i]] = "ALIVE"
                        /\ timer'[source'[i]] = i
                        /\ adjustment'[source'[i]] # None
      BY DEF SourceHasOwner
    <2>1. CASE i = id
      BY <1>1, <2>1 DEF TypeOK
    <2>2. CASE i # id
      <3>1. source'[i] = source[i] /\ i # timer[c]
        BY <1>1, <2>2
      <3>2. source[i] \in Controls /\ source[i] # c
        BY <3>1 DEF SourceHasOwner, TypeOK
      <3>3. QED
        BY <1>1, <3>1, <3>2 DEF SourceHasOwner, TypeOK
    <2>3. QED
      BY <2>1, <2>2
  <1>5. QED
    BY <1>2, <1>3, <1>4

\* A movement of a dragged control keeps the types.
LEMMA UpdateMouseType ==
    ASSUME Safe, NEW c \in Controls, adjustment[c] \in Adjustments, NEW f \in Floats,
           UpdateMouse(c, f)
    PROVE  AnnouncedOK'
  <1> DEFINE a   == adjustment[c]
             new == ToFloat(Clamp(f, Lower, upper[a]))
  <1>1. new \in Doubles
    BY TargetType DEF Safe
  <1>2. CASE SetAndEmit(a, new)
    BY <1>1, <1>2, SetAndEmitType DEF Safe
  <1>3. ASSUME value' = [value EXCEPT ![a] = new],
               NEW lost \in BOOLEAN, forfeit' = [forfeit EXCEPT ![a] = @ \/ lost],
               UNCHANGED <<heard, oldValue>>
        PROVE  AnnouncedOK'
    <2>1. forfeit' \in [Adjustments -> BOOLEAN]
      BY <1>3 DEF Safe, TypeOK
    <2>2. QED
      BY <1>1, <1>3, <2>1 DEF Safe, TypeOK, AnnouncedOK
  <1>4. QED
    BY <1>2, <1>3 DEF UpdateMouse

LEMMA MotionSafe ==
    ASSUME Safe, NEW c \in Controls, NEW mods, NEW atPress, Motion(c, mods, atPress)
    PROVE  Safe'
  <1>1. /\ life[c] = "ALIVE" /\ adjustment[c] \in Adjustments
        /\ state[c] # "IDLE" /\ grab = c
    BY ReceiverFacts DEF Motion
  <1>2. AliveIsConnected'
    BY DEF Safe, Motion, AliveIsConnected
  <1>3. GrabMatchesGesture'
    BY <1>1 DEF Safe, Motion, GrabMatchesGesture, TypeOK
  <1>4. CASE UNCHANGED <<announced, timer, source>>
    <2>1. AnnouncedOK'
      BY <1>4, UnchangedType DEF Safe
    <2>2. TypeOK'
      BY <1>4, <2>1 DEF Safe, Motion, TypeOK, States, AnnouncedOK
    <2>3. SourceHasOwner' /\ TimersDistinct'
      BY <1>4 DEF Safe, Motion, SourceHasOwner, TimersDistinct
    <2>4. QED
      BY <1>2, <1>3, <2>2, <2>3 DEF Safe
  <1>5. ASSUME NEW f \in DragTargets(c, mods, atPress), UpdateMouse(c, f)
        PROVE  Safe'
    <2>1. f \in Floats
      BY <1>1, DragTargetsType DEF Safe
    <2>2. AnnouncedOK'
      BY <1>1, <1>5, <2>1, UpdateMouseType
    <2>3. /\ timer' \in [Controls -> SourceIds \union {None}]
          /\ source' \in [SourceIds -> Controls \union {None}]
          /\ SourceHasOwner' /\ TimersDistinct'
      <3>1. CASE RestartTimer(c)
        BY <1>1, <3>1, NoneIsNothing, RestartTimerSafe DEF Motion
      <3>2. CASE UNCHANGED <<timer, source>>
        BY <3>2 DEF Safe, Motion, SourceHasOwner, TimersDistinct, TypeOK
      <3>3. QED
        BY <1>5, <3>1, <3>2 DEF UpdateMouse
    <2>4. TypeOK'
      BY <2>2, <2>3 DEF Safe, Motion, TypeOK, States, AnnouncedOK
    <2>5. QED
      BY <1>2, <1>3, <2>3, <2>4 DEF Safe
  <1>6. QED
    BY <1>4, <1>5 DEF Motion

LEMMA TimerCallbackSafe ==
    ASSUME Safe, NEW id \in SourceIds, TimerCallback(id)
    PROVE  Safe'
  <1> DEFINE a == adjustment[source[id]]
  <1>1. a \in Adjustments /\ value[a] \in Doubles
    BY DEF Safe, TypeOK, SourceHasOwner, TimerCallback
  <1>2. AnnouncedOK'
    BY <1>1, SetAndEmitType, UnchangedType DEF TimerCallback, Safe
  <1>3. TypeOK'
    BY <1>2 DEF Safe, TimerCallback, TypeOK, AnnouncedOK
  <1>4. AliveIsConnected' /\ SourceHasOwner' /\ TimersDistinct' /\ GrabMatchesGesture'
    BY DEF Safe, TimerCallback, TypeOK, AliveIsConnected, SourceHasOwner, TimersDistinct,
           GrabMatchesGesture
  <1>5. QED
    BY <1>3, <1>4 DEF Safe

LEMMA AppSetValueSafe ==
    ASSUME Safe, NEW a \in Adjustments, NEW v \in AppValues, AppSetValue(a, v)
    PROVE  Safe'
  <1>1. v \in Doubles
    BY ControlAssumption
  <1>2. Clamp(v, Lower, upper[a]) \in Doubles
    BY <1>1, BoundsType, ClampType DEF Safe
  <1>3. AnnouncedOK'
    BY <1>2, SetIfDifferentType DEF Safe, AppSetValue
  <1>4. QED
    BY <1>3, ValuesSafe DEF AppSetValue

LEMMA AppConfigureSafe ==
    ASSUME Safe, NEW a \in Adjustments, NEW u \in Uppers, AppConfigure(a, u)
    PROVE  Safe'
  <1>1. ToFloat(value[a]) \in Floats
    BY ToFloatType DEF Safe, TypeOK
  <1>2. TypeOK'
    BY <1>1 DEF Safe, AppConfigure, TypeOK
  <1>3. AliveIsConnected' /\ SourceHasOwner' /\ TimersDistinct' /\ GrabMatchesGesture'
    BY DEF Safe, AppConfigure, AliveIsConnected, SourceHasOwner, TimersDistinct,
           GrabMatchesGesture
  <1>4. QED
    BY <1>2, <1>3 DEF Safe

LEMMA NextSafe == Safe /\ [Next]_vars => Safe'
  <1> SUFFICES ASSUME Safe, [Next]_vars PROVE Safe'
    OBVIOUS
  <1>1. ASSUME NEW c \in Controls, ControlStep(c) PROVE Safe'
    BY <1>1, NewSafe, SetAdjustmentSafe, SetUpdatePolicySafe, DestroySafe, FinalizeSafe,
       PressSafe, ReleaseSafe, ScrollSafe, MotionSafe DEF ControlStep
  <1>2. ASSUME NEW a \in Adjustments, AppStep(a) PROVE Safe'
    BY <1>2, AppSetValueSafe, AppConfigureSafe DEF AppStep
  <1>3. ASSUME NEW id \in SourceIds, TimerCallback(id) PROVE Safe'
    BY <1>3, TimerCallbackSafe
  <1>4. CASE UNCHANGED vars
    BY <1>4 DEF Safe, TypeOK, AliveIsConnected, SourceHasOwner, TimersDistinct,
                GrabMatchesGesture, vars, adjVars, controlVars
  <1>5. QED
    BY <1>1, <1>2, <1>3, <1>4 DEF Next

\* Whatever a control was doing when it was released, given another adjustment or
\* destroyed, no timer runs for a control that is gone, every timer can still be
\* cancelled, and the grab is held exactly during a gesture.
THEOREM NothingStaysBehind == Spec => []NothingLeftBehind
  <1>1. Safe => NothingLeftBehind
    BY DEF Safe, NothingLeftBehind
  <1>2. QED
    BY <1>1, InitSafe, NextSafe, PTL DEF Spec

----------------------------------------------------------------------------
(* From here on: no announcement is lost but those that forfeit names,    *)
(* and GtkControl implements AnnouncedValue.                               *)

\* The listeners of b heard its new value, which is theirs to hear again, or
\* they heard nothing and what was forfeited stays so.
Announces(b) == heard'[b] = value'[b] /\ ~forfeit'[b]
Silences(b) == heard'[b] = heard[b] /\ (forfeit[b] => forfeit'[b])
Honest == \A b \in Adjustments : Announces(b) \/ Silences(b)

\* A debt on b that is not paid in this step, nor forfeited, is still owed.
DebtKept(b) ==
    /\ UNCHANGED <<value[b], heard[b]>>
    /\ \A c \in Controls : Owes(c, b) /\ Unannounced(b) => Owes(c, b)' \/ forfeit'[b]

\* What a step does to every adjustment: it announces the value, keeps the debt,
\* makes one, or forfeits it.
Sound ==
    \A b \in Adjustments :
        \/ Announces(b)
        \/ Silences(b) /\ (forfeit'[b] \/ DebtKept(b) \/ \E c \in Controls : Owes(c, b)')

LEMMA SoundHonest == Sound => Honest
  BY DEF Sound, Honest

LEMMA SoundFaithful ==
    ASSUME NoLostAnnouncement, Sound
    PROVE  NoLostAnnouncement'
  <1> SUFFICES ASSUME NEW b \in Adjustments, Unannounced(b)', ~forfeit'[b]
               PROVE  \E c \in Controls : Owes(c, b)'
    BY DEF NoLostAnnouncement
  <1>1. Silences(b) /\ ~forfeit[b] /\ (DebtKept(b) \/ \E c \in Controls : Owes(c, b)')
    BY DEF Sound, Announces, Silences, Unannounced
  <1>2. CASE DebtKept(b)
    <2>1. Unannounced(b)
      BY <1>2 DEF DebtKept, Unannounced
    <2>2. PICK c \in Controls : Owes(c, b)
      BY <1>1, <2>1 DEF NoLostAnnouncement
    <2>3. Owes(c, b)'
      BY <1>2, <2>1, <2>2 DEF DebtKept
    <2>4. QED
      BY <2>3
  <1>3. QED
    BY <1>1, <1>2

----------------------------------------------------------------------------
(* Every action is sound.                                                  *)

\* A step that moves no timer keeps the debts of the controls it leaves alone.
LEMMA QuietSound ==
    ASSUME UNCHANGED <<value, heard>>, \A b \in Adjustments : forfeit[b] => forfeit'[b],
           \A c \in Controls, b \in Adjustments :
               Owes(c, b) /\ Unannounced(b) => Owes(c, b)' \/ forfeit'[b]
    PROVE  Sound
  BY DEF Sound, Silences, DebtKept

\* An emission is heard by the listeners of its own adjustment only.
LEMMA SetAndEmitSound ==
    ASSUME TypeOK, NEW a \in Adjustments, NEW v, SetAndEmit(a, v),
           \A c \in Controls, b \in Adjustments \ {a} : Owes(c, b) => Owes(c, b)'
    PROVE  Sound
  BY DEF SetAndEmit, TypeOK, Sound, Announces, Silences, DebtKept

\* What the handlers of buttons and wheel, and the program, do to a value.
LEMMA SetIfDifferentSound ==
    ASSUME TypeOK, NEW a \in Adjustments, NEW v, SetIfDifferent(a, v),
           UNCHANGED <<adjustment, policy, source>>
    PROVE  Sound
  <1>1. \A c \in Controls, b \in Adjustments : Owes(c, b) => Owes(c, b)'
    BY DEF Owes, Pending
  <1>2. CASE SetAndEmit(a, v)
    BY <1>1, <1>2, SetAndEmitSound
  <1>3. CASE UNCHANGED announced
    BY <1>1, <1>3, QuietSound DEF announced
  <1>4. QED
    BY <1>2, <1>3 DEF SetIfDifferent

LEMMA EmitOrNotSound ==
    ASSUME TypeOK, NEW a \in Adjustments, NEW v, SetAndEmit(a, v) \/ UNCHANGED announced,
           UNCHANGED <<adjustment, policy, source>>
    PROVE  Sound
  <1>1. \A c \in Controls, b \in Adjustments : Owes(c, b) => Owes(c, b)'
    BY DEF Owes, Pending
  <1>2. QED
    BY <1>1, SetAndEmitSound, QuietSound DEF announced

\* A new adjustment is in step with the listeners it will have.
LEMMA FreshSound ==
    ASSUME TypeOK, NEW a \in Adjustments, Fresh(a), ~forfeit'[a],
           \A b \in Adjustments \ {a} : forfeit[b] => forfeit'[b],
           \A c \in Controls, b \in Adjustments \ {a} :
               Owes(c, b) /\ Unannounced(b) => Owes(c, b)' \/ forfeit'[b]
    PROVE  Sound
  BY DEF TypeOK, Fresh, Sound, Announces, Silences, DebtKept

\* The debts of the controls that a step does not touch.
LEMMA OthersOwe ==
    ASSUME NEW c \in Controls, UNCHANGED source,
           \A d \in Controls \ {c} : adjustment'[d] = adjustment[d] /\ policy'[d] = policy[d]
    PROVE  \A d \in Controls \ {c}, b \in Adjustments : Owes(d, b) => Owes(d, b)'
  BY DEF Owes, Pending

LEMMA NewSound ==
    ASSUME Safe, NEW c \in Controls, NEW a \in Adjustments, NEW t \in Types, New(c, a, t)
    PROVE  Sound
  <1>1. Pending(c) = {}
    BY NoneIsNothing DEF New, Pending, Safe, SourceHasOwner
  <1>2. \A d \in Controls \ {c} : adjustment'[d] = adjustment[d] /\ policy'[d] = policy[d]
    BY DEF New, Connect, Safe, TypeOK
  <1>3. UNCHANGED source
    BY DEF New
  <1>4. \A d \in Controls, b \in Adjustments : Owes(d, b) => Owes(d, b)'
    BY <1>1, <1>2, <1>3, OthersOwe DEF Owes
  <1>5. CASE Given(a) /\ UNCHANGED forfeit
    BY <1>4, <1>5, QuietSound DEF Given
  <1>6. CASE Fresh(a) /\ forfeit' = [forfeit EXCEPT ![a] = FALSE]
    BY <1>4, <1>6, FreshSound DEF Safe, TypeOK
  <1>7. QED
    BY <1>5, <1>6 DEF New

LEMMA SetAdjustmentSound ==
    ASSUME Safe, NEW c \in Controls, NEW a \in Adjustments, SetAdjustment(c, a)
    PROVE  Sound
  <1>1. \A d \in Controls \ {c} : adjustment'[d] = adjustment[d] /\ policy'[d] = policy[d]
    BY DEF SetAdjustment, Connect, Safe, TypeOK
  <1>2. UNCHANGED source
    BY DEF SetAdjustment
  <1>3. \A d \in Controls \ {c}, b \in Adjustments : Owes(d, b) => Owes(d, b)'
    BY <1>1, <1>2, OthersOwe
  <1>4. /\ \A b \in Adjustments : forfeit[b] => CalledOff(c)[b]
        /\ \A b \in Adjustments : Owes(c, b) /\ Unannounced(b) => CalledOff(c)[b]
    BY CalledOffFacts DEF Safe
  <1>5. CASE Given(a) /\ forfeit' = CalledOff(c)
    BY <1>3, <1>4, <1>5, QuietSound DEF Given
  <1>6. CASE Fresh(a) /\ forfeit' = [CalledOff(c) EXCEPT ![a] = FALSE]
    <2>1. CalledOff(c) \in [Adjustments -> BOOLEAN]
      BY CalledOffFacts DEF Safe
    <2>2. ~forfeit'[a] /\ \A b \in Adjustments \ {a} : forfeit'[b] = CalledOff(c)[b]
      BY <1>6, <2>1
    <2>3. QED
      BY <1>3, <1>4, <1>6, <2>2, FreshSound DEF Safe
  <1>7. QED
    BY <1>5, <1>6 DEF SetAdjustment

LEMMA SetUpdatePolicySound ==
    ASSUME Safe, NEW c \in Controls, NEW p \in Policies, SetUpdatePolicy(c, p)
    PROVE  Sound
  <1>1. \A d \in Controls \ {c} : adjustment'[d] = adjustment[d] /\ policy'[d] = policy[d]
    BY DEF SetUpdatePolicy, Safe, TypeOK
  <1>2. \A d \in Controls \ {c}, b \in Adjustments : Owes(d, b) => Owes(d, b)'
    BY <1>1, OthersOwe DEF SetUpdatePolicy
  <1>3. /\ \A b \in Adjustments : forfeit[b] => forfeit'[b]
        /\ \A b \in Adjustments : Owes(c, b) /\ Unannounced(b) => Owes(c, b)' \/ forfeit'[b]
    <2>1. CASE p = "DELAYED"
      BY <2>1 DEF SetUpdatePolicy, Owes, Pending, Safe, TypeOK
    <2>2. CASE p # "DELAYED"
      BY <2>2, CalledOffFacts DEF SetUpdatePolicy, Safe
    <2>3. QED
      BY <2>1, <2>2
  <1>4. QED
    BY <1>2, <1>3, QuietSound DEF SetUpdatePolicy

\* The timer of a control that leaves is nobody else's.
LEMMA DismantleSound ==
    ASSUME Safe, NEW c \in Controls, Dismantle(c),
           \A d \in Controls \ {c} : policy'[d] = policy[d]
    PROVE  Sound
  <1>1. /\ \A b \in Adjustments : forfeit[b] => forfeit'[b]
        /\ \A b \in Adjustments : Owes(c, b) /\ Unannounced(b) => forfeit'[b]
    BY CalledOffFacts DEF Dismantle, Safe
  <1>2. ASSUME NEW d \in Controls \ {c}, NEW b \in Adjustments, Owes(d, b) PROVE Owes(d, b)'
    <2>1. PICK id \in SourceIds : source[id] = d
      BY <1>2 DEF Owes, Pending
    <2>2. timer[d] = id
      BY <2>1, NoneIsNothing DEF Safe, SourceHasOwner
    <2>3. timer[c] # id
      BY <2>2, NoneIsNothing DEF Safe, TimersDistinct
    <2>4. source'[id] = d
      BY <2>1, <2>3 DEF Dismantle
    <2>5. adjustment'[d] = adjustment[d] /\ policy'[d] = policy[d]
      BY DEF Dismantle, Safe, TypeOK
    <2>6. QED
      BY <1>2, <2>4, <2>5 DEF Owes, Pending
  <1>3. QED
    BY <1>1, <1>2, QuietSound DEF Dismantle

LEMMA PressSound ==
    ASSUME Safe, NEW c \in Controls, NEW b \in Buttons, Press(c, b)
    PROVE  Sound
  <1>1. adjustment[c] \in Adjustments /\ UNCHANGED <<adjustment, policy, source>>
    BY ReceiverFacts DEF Press
  <1>2. QED
    BY <1>1, EmitOrNotSound, SetIfDifferentSound DEF Press, Safe

LEMMA ReleaseSound ==
    ASSUME Safe, NEW c \in Controls, NEW b \in Buttons, Release(c, b)
    PROVE  Sound
  <1>1. adjustment[c] \in Adjustments /\ UNCHANGED <<adjustment, policy, source>>
    BY ReceiverFacts DEF Release
  <1>2. QED
    BY <1>1, EmitOrNotSound DEF Release, Safe

LEMMA ScrollSound ==
    ASSUME Safe, NEW c \in Controls, NEW f \in Floats, Scroll(c, f)
    PROVE  Sound
  <1>1. adjustment[c] \in Adjustments /\ UNCHANGED <<adjustment, policy, source>>
    BY ReceiverFacts DEF Scroll
  <1>2. QED
    BY <1>1, SetIfDifferentSound DEF Scroll, Safe

\* A timer that is restarted takes the place of the control's own and no other's.
LEMMA RestartTimerOwes ==
    ASSUME Safe, NEW c \in Controls, RestartTimer(c), UNCHANGED <<adjustment, policy>>
    PROVE  /\ Pending(c)' # {}
           /\ \A d \in Controls, b \in Adjustments : Owes(d, b) => Owes(d, b)'
  <1>1. PICK new \in SourceIds :
          /\ NewSourceId(new)
          /\ source' = [i \in SourceIds |->
                          IF i = new THEN c ELSE IF i = timer[c] THEN None ELSE source[i]]
    BY DEF RestartTimer
  <1>2. new \in Pending(c)'
    BY <1>1 DEF Pending
  <1>3. ASSUME NEW d \in Controls \ {c}, NEW b \in Adjustments, Owes(d, b) PROVE Owes(d, b)'
    <2>1. PICK id \in SourceIds : source[id] = d
      BY <1>3 DEF Owes, Pending
    <2>2. timer[d] = id
      BY <2>1, NoneIsNothing DEF Safe, SourceHasOwner
    <2>3. timer[c] # id
      BY <2>2, NoneIsNothing DEF Safe, TimersDistinct
    <2>4. id # new
      BY <1>1, <2>1, NoneIsNothing DEF NewSourceId
    <2>5. source'[id] = d
      BY <1>1, <2>1, <2>3, <2>4
    <2>6. QED
      BY <1>3, <2>5 DEF Owes, Pending
  <1>4. \A b \in Adjustments : Owes(c, b) => Owes(c, b)'
    BY <1>2 DEF Owes
  <1>5. QED
    BY <1>2, <1>3, <1>4

\* A movement announces the value, or starts the timer that will, or forfeits it.
LEMMA UpdateMouseSound ==
    ASSUME Safe, NEW c \in Controls, adjustment[c] \in Adjustments, NEW f \in Floats,
           UpdateMouse(c, f), UNCHANGED <<adjustment, policy>>
    PROVE  Sound
  <1> DEFINE a   == adjustment[c]
             old == ToFloat(value[a])
             new == ToFloat(Clamp(f, Lower, upper[a]))
             lost == new # value[a] /\ (new = old \/ policy[c] = "DISCONTINUOUS")
  <1>1. CASE SetAndEmit(a, new) /\ UNCHANGED <<timer, source>>
    BY <1>1, EmitOrNotSound DEF Safe
  <1>2. CASE /\ ~(policy[c] = "CONTINUOUS" /\ new # old)
             /\ value' = [value EXCEPT ![a] = new]
             /\ forfeit' = [forfeit EXCEPT ![a] = @ \/ lost]
             /\ UNCHANGED <<heard, oldValue>>
             /\ IF policy[c] = "DELAYED" /\ new # old
                  THEN RestartTimer(c) ELSE UNCHANGED <<timer, source>>
    <2>1. \A d \in Controls, b \in Adjustments : Owes(d, b) => Owes(d, b)'
      <3>1. CASE RestartTimer(c)
        BY <3>1, RestartTimerOwes
      <3>2. CASE UNCHANGED source
        BY <3>2 DEF Owes, Pending
      <3>3. QED
        BY <1>2, <3>1, <3>2
    <2>2. \A b \in Adjustments : Silences(b)
      BY <1>2 DEF Safe, TypeOK, Silences
    <2>3. ASSUME NEW b \in Adjustments, value'[b] = value[b] PROVE DebtKept(b)
      BY <1>2, <2>1, <2>3 DEF DebtKept
    <2>4. \A b \in Adjustments \ {a} : value'[b] = value[b]
      BY <1>2 DEF Safe, TypeOK
    <2>5. \/ value'[a] = value[a]
          \/ forfeit'[a]
          \/ Owes(c, a)'
      <3> SUFFICES ASSUME value'[a] # value[a], ~forfeit'[a] PROVE Owes(c, a)'
        OBVIOUS
      <3>1. ~lost /\ new # value[a]
        BY <1>2 DEF Safe, TypeOK
      <3>2. policy[c] = "DELAYED" /\ new # old
        BY <1>2, <3>1 DEF Safe, TypeOK, Policies
      <3>3. Pending(c)' # {}
        BY <1>2, <3>2, RestartTimerOwes
      <3>4. QED
        BY <3>2, <3>3 DEF Owes
    <2>6. QED
      BY <2>2, <2>3, <2>4, <2>5 DEF Sound
  <1>3. QED
    BY <1>1, <1>2 DEF UpdateMouse

LEMMA MotionSound ==
    ASSUME Safe, NEW c \in Controls, NEW mods, NEW atPress, Motion(c, mods, atPress)
    PROVE  Sound
  <1>1. adjustment[c] \in Adjustments /\ UNCHANGED <<adjustment, policy>>
    BY ReceiverFacts DEF Motion
  <1>2. CASE UNCHANGED <<announced, timer, source>>
    BY <1>1, <1>2, EmitOrNotSound DEF Safe
  <1>3. ASSUME NEW f \in DragTargets(c, mods, atPress), UpdateMouse(c, f) PROVE Sound
    <2>1. f \in Floats
      BY <1>1, DragTargetsType DEF Safe
    <2>2. QED
      BY <1>1, <1>3, <2>1, UpdateMouseSound
  <1>4. QED
    BY <1>2, <1>3 DEF Motion

\* A timer that fires pays the debt of its control, or the control owed nothing.
LEMMA TimerCallbackSound ==
    ASSUME Safe, NEW id \in SourceIds, TimerCallback(id)
    PROVE  Sound
  <1> DEFINE c == source[id]
             a == adjustment[c]
  <1>1. c \in Controls /\ a \in Adjustments /\ UNCHANGED <<adjustment, policy>>
    BY DEF Safe, TypeOK, SourceHasOwner, TimerCallback
  <1>2. ASSUME NEW d \in Controls \ {c}, NEW b \in Adjustments, Owes(d, b) PROVE Owes(d, b)'
    <2>1. PICK i \in SourceIds : source[i] = d
      BY <1>2 DEF Owes, Pending
    <2>2. source'[i] = d
      BY <1>2, <2>1 DEF TimerCallback
    <2>3. QED
      BY <1>1, <1>2, <2>2 DEF Owes, Pending
  <1>3. CASE policy[c] = "DELAYED" /\ SetAndEmit(a, value[a])
    <2>1. \A d \in Controls, b \in Adjustments \ {a} : Owes(d, b) => Owes(d, b)'
      BY <1>2 DEF Owes
    <2>2. QED
      BY <1>1, <1>3, <2>1, SetAndEmitSound DEF Safe
  <1>4. CASE policy[c] # "DELAYED" /\ UNCHANGED announced
    <2>1. \A d \in Controls, b \in Adjustments : Owes(d, b) => Owes(d, b)'
      BY <1>2, <1>4 DEF Owes
    <2>2. QED
      BY <1>4, <2>1, QuietSound DEF announced
  <1>5. QED
    BY <1>3, <1>4 DEF TimerCallback

LEMMA AppStepSound ==
    ASSUME Safe, NEW a \in Adjustments, AppStep(a)
    PROVE  Sound
  <1>1. ASSUME NEW v \in AppValues, AppSetValue(a, v) PROVE Sound
    BY <1>1, SetIfDifferentSound DEF AppSetValue, Safe
  <1>2. ASSUME NEW u \in Uppers, AppConfigure(a, u) PROVE Sound
    BY <1>2, QuietSound DEF AppConfigure, Owes, Pending
  <1>3. QED
    BY <1>1, <1>2 DEF AppStep

LEMMA NextSound == Safe /\ [Next]_vars => Sound
  <1> SUFFICES ASSUME Safe, [Next]_vars PROVE Sound
    OBVIOUS
  <1>1. ASSUME NEW c \in Controls, ControlStep(c) PROVE Sound
    <2>1. CASE Destroy(c)
      BY <2>1, DismantleSound DEF Destroy
    <2>2. CASE Finalize(c)
      BY <2>2, DismantleSound DEF Finalize, Safe, TypeOK
    <2>3. QED
      BY <1>1, <2>1, <2>2, NewSound, SetAdjustmentSound, SetUpdatePolicySound, PressSound,
         ReleaseSound, ScrollSound, MotionSound DEF ControlStep
  <1>2. ASSUME NEW a \in Adjustments, AppStep(a) PROVE Sound
    BY <1>2, AppStepSound
  <1>3. ASSUME NEW id \in SourceIds, TimerCallback(id) PROVE Sound
    BY <1>3, TimerCallbackSound
  <1>4. CASE UNCHANGED vars
    BY <1>4, QuietSound DEF vars, adjVars, controlVars, Owes, Pending
  <1>5. QED
    BY <1>1, <1>2, <1>3, <1>4 DEF Next

----------------------------------------------------------------------------
(* The results.                                                            *)

LEMMA SafeAndFaithful == Spec => [](Safe /\ NoLostAnnouncement)
  <1>1. Init => NoLostAnnouncement
    BY DEF Init, NoLostAnnouncement, Unannounced
  <1>2. Safe /\ NoLostAnnouncement /\ [Next]_vars => NoLostAnnouncement'
    BY NextSound, SoundFaithful
  <1>3. QED
    BY <1>1, <1>2, InitSafe, NextSafe, PTL DEF Spec

\* While the listeners of an adjustment know another value than the one it has, a
\* timer runs that will tell them, but for the changes that forfeit names.
THEOREM NothingLost == Spec => []NoLostAnnouncement
  BY SafeAndFaithful, PTL

\* The claim of an adjustment as the refinement mapping states it.
Claim(a) == IF forfeit[a] THEN "FORFEITED"
            ELSE IF \E c \in Controls : Owes(c, a) THEN "OWED" ELSE "SETTLED"

LEMMA ClaimsType ==
    [a \in Adjustments |-> Claim(a)] \in [Adjustments -> {"SETTLED", "OWED", "FORFEITED"}]
  BY DEF Claim

LEMMA InitPromise == Init => Promise!Init
  <1> SUFFICES ASSUME Init PROVE Promise!Init
    OBVIOUS
  <1>1. TypeOK /\ heard = value
    BY InitSafe DEF Safe, Init
  <1>2. \A a \in Adjustments : Claim(a) = "SETTLED"
    BY NoneIsNothing DEF Init, Claim, Owes
  <1>3. [a \in Adjustments |-> Claim(a)] = [a \in Adjustments |-> "SETTLED"]
    BY <1>2
  <1>4. QED
    BY <1>1, <1>3, ClaimsType DEF Promise!Init, Promise!TypeOK, Claim, TypeOK

\* An honest step to a state where nothing is lost is one the promise allows: what
\* nobody owes any more is what the listeners know.
LEMMA StepPromise ==
    ASSUME TypeOK', NoLostAnnouncement', Honest
    PROVE  Promise!Next
  <1>1. Promise!TypeOK'
    BY DEF Promise!TypeOK, TypeOK
  <1>2. ASSUME NEW b \in Adjustments, Announces(b) PROVE Promise!Announce(b)
    BY <1>2 DEF Announces, Promise!Announce
  <1>3. ASSUME NEW b \in Adjustments, Silences(b) PROVE Promise!Silence(b)
    <2>1. CASE forfeit'[b]
      BY <1>3, <2>1 DEF Silences, Promise!Silence
    <2>2. CASE ~forfeit'[b] /\ \E c \in Controls : Owes(c, b)'
      BY <1>3, <2>2 DEF Silences, Promise!Silence
    <2>3. CASE ~forfeit'[b] /\ ~ \E c \in Controls : Owes(c, b)'
      <3>1. value'[b] = heard'[b]
        BY <2>3 DEF NoLostAnnouncement, Unannounced
      <3>2. QED
        BY <1>3, <2>3, <3>1 DEF Silences, Promise!Silence
    <2>4. QED
      BY <2>1, <2>2, <2>3
  <1>4. QED
    BY <1>1, <1>2, <1>3 DEF Honest, Promise!Next

\* The controls implement the promise that AnnouncedValue states: every step
\* announces a value, keeps owing it or forfeits it, and a forfeited one stays so
\* until the next "value-changed".
THEOREM PromiseKept == Spec => KeepsPromise
  <1>1. Safe /\ NoLostAnnouncement /\ [Next]_vars => [Promise!Next]_(Promise!vars)
    BY NextSafe, NextSound, SoundFaithful, SoundHonest, StepPromise DEF Safe
  <1>2. QED
    BY <1>1, SafeAndFaithful, InitPromise, PTL DEF Spec, KeepsPromise, Promise!Spec

=============================================================================
